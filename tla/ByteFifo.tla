------------------------------ MODULE ByteFifo ------------------------------
(***************************************************************************)
(* What the transmit path of a pipe promises: a queue of bounded length    *)
(* without loss.  Bytes are numbered in the order they are produced; a     *)
(* producer that gives up leaves a gap in the numbers that were put.       *)
(***************************************************************************)
EXTENDS Integers, Sequences

CONSTANTS Capacity, MaxBytes

VARIABLES queue,   \* bytes accepted and not yet sent
          out      \* bytes sent

vars == <<queue, out>>

Init == queue = <<>> /\ out = <<>>

(* Some bytes that follow each other, later than all before, and that fit. *)
Put ==
    \E k \in 1..Capacity, first \in 1..MaxBytes :
        /\ Len(queue) + k <= Capacity
        /\ \A i \in DOMAIN queue : queue[i] < first
        /\ \A i \in DOMAIN out : out[i] < first
        /\ queue' = queue \o [i \in 1..k |-> first + i - 1]
        /\ UNCHANGED out

(* The oldest bytes are sent, and only what was sent leaves the queue. *)
Get ==
    \E k \in 1..Len(queue) :
        /\ out' = out \o SubSeq(queue, 1, k)
        /\ queue' = SubSeq(queue, k + 1, Len(queue))

Next == Put \/ Get

Spec == Init /\ [][Next]_vars
=============================================================================
