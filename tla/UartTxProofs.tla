---------------------------- MODULE UartTxProofs ----------------------------
(***************************************************************************)
(* Proofs about UartTx, for every ring size, message size and number of    *)
(* retries: the type invariant, that the ring and the transfers carry the  *)
(* bytes intact, that the right to start a transfer exists exactly once,   *)
(* that no start is lost, and that the transmit path implements ByteFifo,  *)
(* whatever transfers uart_tx refuses and the driver aborts.               *)
(***************************************************************************)
EXTENDS UartTx, SequenceTheorems, TLAPS

Byte == 1..MaxBytes

(* TypeOK leaves out the logs. *)
TypeLogs == accepted \in Seq(Byte) /\ wire \in Seq(Byte)

(* Where the thread is while TX is enabled, and while it calls pipe_transmit. *)
Calling == {"put", "take", "reset", "wait"}
Enabled == Calling \cup {"idle", "txDisable"}

(* The bytes accepted are older than those of the message still to accept,  *)
(* of which there are no more than were produced; a call has retries left,  *)
(* and it only waits when nothing was accepted.                             *)
CallBounds ==
    /\ rem <= produced
    /\ \A i \in DOMAIN accepted : accepted[i] <= produced - rem + sent
    /\ pc \in Calling => retries > 0
    /\ pc \in {"reset", "wait"} => sent = 0

(* TX is enabled exactly outside a close; an abort is only under way during *)
(* one; past tx_disable, every transfer left is being aborted.              *)
CloseProgress ==
    /\ txEnabled <=> pc \in Enabled
    /\ aborting => ~txEnabled /\ pc # "txWait"
    /\ ~txEnabled /\ pc # "txWait" /\ active > 0 => aborting
    /\ pc = "txWait" /\ tx_done_sem = 1 => active = 0
    /\ closes = 0 => ~aborting /\ pc \in Calling \cup {"configure", "idle"}
    /\ closes = 0 /\ pc = "configure" => failed = "none"

IInv == /\ TypeOK /\ TypeLogs /\ CallBounds /\ CloseProgress
        /\ TransmitIntact /\ StartTokenExact /\ NoLostStart

-----------------------------------------------------------------------------
(* Lemmas on sequences and on the ring.                                     *)

(* A sequence cut after its first n elements. *)
LEMMA CutSeq ==
    ASSUME NEW S, NEW s \in Seq(S), NEW n \in 0..Len(s)
    PROVE  /\ SubSeq(s, 1, n) \in Seq(S) /\ Len(SubSeq(s, 1, n)) = n
           /\ SubSeq(s, n + 1, Len(s)) \in Seq(S)
           /\ Len(SubSeq(s, n + 1, Len(s))) = Len(s) - n
           /\ SubSeq(s, 1, n) \o SubSeq(s, n + 1, Len(s)) = s
  <1>1. Len(s) \in Nat /\ \A i \in 1..Len(s) : s[i] \in S
    BY LenProperties, ElementOfSeq
  <1>2. SubSeq(s, 1, n) \in Seq(S) /\ Len(SubSeq(s, 1, n)) = n
    <2>1. \A i \in 1..n : s[i] \in S
      BY <1>1
    <2> QED  BY <1>1, <2>1, SubSeqProperties
  <1>3. /\ SubSeq(s, n + 1, Len(s)) \in Seq(S)
        /\ Len(SubSeq(s, n + 1, Len(s))) = Len(s) - n
    <2>1. \A i \in (n + 1)..Len(s) : s[i] \in S
      BY <1>1
    <2> QED  BY <1>1, <2>1, SubSeqProperties
  <1>4. SubSeq(s, 1, n) \o SubSeq(s, n + 1, Len(s)) = SubSeq(s, 1, Len(s))
    <2>1. 1 \in 1..Len(s) + 1 /\ n \in 1 - 1..Len(s) /\ Len(s) \in n..Len(s)
      BY <1>1
    <2> QED  BY <2>1, ConcatAdjacentSubSeq
  <1> QED  BY <1>2, <1>3, <1>4, SubSeqFull

(* The first n elements of s moved to the end of t. *)
LEMMA MoveFront ==
    ASSUME NEW S, NEW t \in Seq(S), NEW s \in Seq(S), NEW n \in 0..Len(s)
    PROVE  /\ t \o SubSeq(s, 1, n) \in Seq(S)
           /\ (t \o SubSeq(s, 1, n)) \o SubSeq(s, n + 1, Len(s)) = t \o s
  <1> DEFINE a == SubSeq(s, 1, n)
             b == SubSeq(s, n + 1, Len(s))
  <1>1. a \in Seq(S) /\ b \in Seq(S)
    BY CutSeq
  <1>2. a \o b = s
    BY CutSeq
  <1> HIDE DEF a, b
  <1>3. (t \o a) \o b = t \o (a \o b)
    BY <1>1, ConcatAssociative, SMTT(30)
  <1>4. t \o a \in Seq(S)
    BY <1>1, ConcatProperties
  <1> QED  BY <1>3, <1>4, <1>2 DEF a, b

(* A claim of tx_start lies in the ring and is not empty if the ring is not. *)
LEMMA ContiguousClaim ==
    ASSUME NEW buf \in Seq(Byte), NEW pos \in 0..Capacity - 1, Len(buf) <= Capacity
    PROVE  /\ Contiguous(buf, pos) \in 0..Len(buf) /\ Contiguous(buf, pos) \in 0..Capacity
           /\ buf # <<>> => Contiguous(buf, pos) > 0
  <1>1. Len(buf) \in Nat /\ (buf # <<>> => Len(buf) > 0)
    BY EmptySeq, LenProperties
  <1> QED  BY <1>1, TxAssumption DEF Contiguous, Least

(* What the invariant says of the ring, the logs and the transfer. *)
LEMMA TypeFacts ==
    ASSUME IInv
    PROVE  /\ tx_buf \in Seq(Byte) /\ accepted \in Seq(Byte) /\ wire \in Seq(Byte)
           /\ Len(tx_buf) \in Nat /\ Len(tx_buf) <= Capacity
           /\ getPos \in 0..Capacity - 1
           /\ active = claimed /\ claimed \in 0..Capacity /\ claimed \in 0..Len(tx_buf)
           /\ wire \o tx_buf = accepted
           /\ txEnabled \in BOOLEAN /\ aborting \in BOOLEAN
           /\ rem \in 0..MaxBytes /\ sent \in 0..rem /\ produced \in 0..MaxBytes
  <1>1. tx_buf \in Seq(Byte)
    BY DEF IInv, TypeOK, TypeRing, Byte
  <1>2. accepted \in Seq(Byte) /\ wire \in Seq(Byte)
    BY DEF IInv, TypeLogs
  <1>3. Len(tx_buf) \in Nat
    BY <1>1, LenProperties
  <1>4. /\ Len(tx_buf) <= Capacity /\ getPos \in 0..Capacity - 1
        /\ claimed \in 0..Capacity
    BY DEF IInv, TypeOK, TypeRing
  <1>5. active = claimed /\ claimed <= Len(tx_buf) /\ wire \o tx_buf = accepted
    BY DEF IInv, TransmitIntact
  <1>6. claimed \in 0..Len(tx_buf)
    BY <1>3, <1>4, <1>5, TxAssumption
  <1>7. txEnabled \in BOOLEAN /\ aborting \in BOOLEAN
    BY DEF IInv, TypeOK, TypeFlags
  <1>8. rem \in 0..MaxBytes /\ sent \in 0..rem /\ produced \in 0..MaxBytes
    BY DEF IInv, TypeOK, TypeCall
  <1> QED  BY <1>1, <1>2, <1>3, <1>4, <1>5, <1>6, <1>7, <1>8

(* What is appended to the ring is appended to what was accepted. *)
LEMMA RingAppend ==
    ASSUME IInv, NEW x \in Seq(Byte)
    PROVE  wire \o (tx_buf \o x) = accepted \o x
  <1>1. wire \in Seq(Byte) /\ tx_buf \in Seq(Byte)
    BY TypeFacts
  <1>2. (wire \o tx_buf) \o x = wire \o (tx_buf \o x)
    BY <1>1, ConcatAssociative, SMTT(30)
  <1>3. wire \o tx_buf = accepted
    BY TypeFacts
  <1> QED  BY <1>2, <1>3

(* What the end of a transfer does to the ring: exactly the n bytes sent    *)
(* move from its front to the wire, and the next claim lies within it.      *)
LEMMA TransferRing ==
    ASSUME IInv, NEW n \in 0..active, NEW evt, TransferEnds(n, evt)
    PROVE  /\ tx_buf' = SubSeq(tx_buf, n + 1, Len(tx_buf))
           /\ wire' = wire \o SubSeq(tx_buf, 1, n)
           /\ tx_buf' \in Seq(Byte) /\ Len(tx_buf') = Len(tx_buf) - n
           /\ Len(tx_buf) \in Nat /\ Len(tx_buf') \in Nat
           /\ wire' \in Seq(Byte)
           /\ wire' \o tx_buf' = accepted
           /\ getPos' \in 0..Capacity - 1
           /\ active' = claimed' /\ claimed' \in 0..Len(tx_buf')
           /\ claimed' \in 0..Capacity
           /\ txEnabled /\ tx_buf' # <<>> => claimed' > 0 \/ failed' = "token"
  <1>1. /\ tx_buf \in Seq(Byte) /\ Len(tx_buf) <= Capacity /\ wire \in Seq(Byte)
        /\ active = claimed /\ n <= claimed /\ n \in Nat /\ claimed \in Nat
        /\ claimed <= Len(tx_buf) /\ getPos \in 0..Capacity - 1
        /\ wire \o tx_buf = accepted /\ txEnabled \in BOOLEAN
    BY TypeFacts
  <1>2. Len(tx_buf) \in Nat /\ n \in 0..Len(tx_buf)
    BY <1>1, LenProperties
  <1>3. tx_buf' = SubSeq(tx_buf, n + 1, Len(tx_buf))
    BY <1>1 DEF TransferEnds, Finished
  <1>4. wire' = wire \o SubSeq(tx_buf, 1, n)
    BY DEF TransferEnds
  <1>5. wire' \in Seq(Byte) /\ wire' \o tx_buf' = accepted
    BY <1>1, <1>2, <1>3, <1>4, MoveFront
  <1>6. getPos' \in 0..Capacity - 1
    <2>1. (getPos + n) % Capacity \in 0..Capacity - 1
      BY <1>1, TxAssumption
    <2> QED  BY <1>1, <2>1 DEF TransferEnds, FinishedPos
  <1>8. tx_buf' \in Seq(Byte) /\ Len(tx_buf') = Len(tx_buf) - n /\ Len(tx_buf') \in Nat
    BY <1>1, <1>2, <1>3, CutSeq
  <1>9. /\ active' = claimed' /\ claimed' \in 0..Len(tx_buf') /\ claimed' \in 0..Capacity
        /\ txEnabled /\ tx_buf' # <<>> => claimed' > 0 \/ failed' = "token"
    <2>1. /\ Contiguous(tx_buf', getPos') \in 0..Len(tx_buf')
          /\ Contiguous(tx_buf', getPos') \in 0..Capacity
          /\ tx_buf' # <<>> => Contiguous(tx_buf', getPos') > 0
      BY <1>1, <1>2, <1>6, <1>8, ContiguousClaim, TxAssumption
    <2>2. CASE not_started /\ (tx_buf' = <<>> \/ ~txEnabled \/ failed' = "token")
      BY <1>8, <2>2, TxAssumption DEF not_started
    <2>3. CASE tx_start(tx_buf', getPos')
      BY <2>1, <2>3 DEF tx_start
    <2> QED  BY <2>2, <2>3 DEF TransferEnds
  <1> QED  BY <1>2, <1>3, <1>4, <1>5, <1>6, <1>8, <1>9

(* Consecutive numbers from f + 1 on. *)
LEMMA Consecutive ==
    ASSUME NEW n \in Nat, NEW f \in Nat, f + n <= MaxBytes
    PROVE  LET new == [i \in 1..n |-> f + i]
           IN  new \in Seq(Byte) /\ Len(new) = n
  <1> DEFINE new == [i \in 1..n |-> f + i]
  <1>1. \A i \in 1..n : f + i \in Byte
    BY TxAssumption DEF Byte
  <1>2. new \in [1..n -> Byte]
    BY <1>1
  <1>3. new \in Seq(Byte)
    BY <1>2, SeqDef
  <1>4. Len(new) = n
    OBVIOUS
  <1> QED  BY <1>3, <1>4

(* t with larger numbers appended to an increasing s. *)
LEMMA IncreasingConcat ==
    ASSUME NEW s \in Seq(Byte), NEW t \in Seq(Byte), NEW f \in Nat, NEW n \in Nat,
           Len(t) = n, \A i \in 1..n : t[i] = f + i,
           \A i \in DOMAIN s : s[i] <= f,
           \A i, j \in DOMAIN s : i < j => s[i] < s[j]
    PROVE  /\ \A i, j \in DOMAIN (s \o t) : i < j => (s \o t)[i] < (s \o t)[j]
           /\ \A i \in DOMAIN (s \o t) : (s \o t)[i] <= f + n
  <1> DEFINE u == s \o t
  <1>1. /\ DOMAIN s = 1..Len(s) /\ Len(s) \in Nat
        /\ \A i \in 1..Len(s) : s[i] \in Int
    <2>1. \A i \in 1..Len(s) : s[i] \in Byte
      BY ElementOfSeq
    <2>2. DOMAIN s = 1..Len(s) /\ Len(s) \in Nat
      BY LenProperties
    <2> QED  BY <2>1, <2>2, TxAssumption DEF Byte
  <1>2. /\ u \in Seq(Byte) /\ Len(u) = Len(s) + n
        /\ \A i \in 1..Len(s) + n : u[i] = IF i <= Len(s) THEN s[i] ELSE t[i - Len(s)]
    BY ConcatProperties
  <1>3. DOMAIN u = 1..Len(s) + n
    BY <1>2, LenProperties
  <1> HIDE DEF u
  <1>4. \A i \in 1..Len(s) + n : i > Len(s) => u[i] = f + (i - Len(s))
    <2> TAKE i \in 1..Len(s) + n
    <2> HAVE i > Len(s)
    <2>1. i - Len(s) \in 1..n
      BY <1>1
    <2> QED  BY <1>1, <1>2, <2>1
  <1>5. \A i \in 1..Len(s) : u[i] = s[i]
    BY <1>1, <1>2
  <1>6. ASSUME NEW i \in DOMAIN u, NEW j \in DOMAIN u, i < j  PROVE u[i] < u[j]
    <2>1. CASE j <= Len(s)
      BY <1>1, <1>3, <1>5, <1>6, <2>1
    <2>2. CASE i <= Len(s) /\ j > Len(s)
      <3>1. u[i] <= f /\ u[i] \in Int
        BY <1>1, <1>3, <1>5, <2>2
      <3> QED  BY <1>1, <1>3, <1>4, <2>2, <3>1
    <2>3. CASE i > Len(s)
      BY <1>1, <1>3, <1>4, <1>6, <2>3
    <2> QED  BY <1>1, <1>3, <2>1, <2>2, <2>3
  <1>7. ASSUME NEW i \in DOMAIN u  PROVE u[i] <= f + n
    <2>1. CASE i <= Len(s)
      <3>1. u[i] <= f /\ u[i] \in Int
        BY <1>1, <1>3, <1>5, <2>1
      <3> QED  BY <3>1
    <2>2. CASE i > Len(s)
      BY <1>1, <1>3, <1>4, <2>2
    <2> QED  BY <1>1, <1>3, <2>1, <2>2
  <1> QED  BY <1>6, <1>7 DEF u

(* The elements of both parts of a concatenation are bounded by its bound.  *)
LEMMA ConcatParts ==
    ASSUME NEW s \in Seq(Byte), NEW t \in Seq(Byte), NEW f \in Nat,
           \A i \in DOMAIN (s \o t) : (s \o t)[i] <= f
    PROVE  /\ \A i \in DOMAIN s : s[i] < f + 1
           /\ \A i \in DOMAIN t : t[i] < f + 1
  <1> DEFINE u == s \o t
  <1>1. /\ DOMAIN s = 1..Len(s) /\ Len(s) \in Nat
        /\ DOMAIN t = 1..Len(t) /\ Len(t) \in Nat
    BY LenProperties
  <1>2. /\ u \in Seq(Byte) /\ Len(u) = Len(s) + Len(t)
        /\ \A i \in 1..Len(s) + Len(t) :
             u[i] = IF i <= Len(s) THEN s[i] ELSE t[i - Len(s)]
    BY ConcatProperties
  <1>3. DOMAIN u = 1..Len(s) + Len(t) /\ \A i \in DOMAIN u : u[i] \in Int
    <2>1. DOMAIN u = 1..Len(s) + Len(t) /\ \A i \in DOMAIN u : u[i] \in Byte
      BY <1>2, LenProperties, ElementOfSeq
    <2> QED  BY <2>1, TxAssumption DEF Byte
  <1>4. \A i \in DOMAIN u : u[i] <= f
    OBVIOUS
  <1> HIDE DEF u
  <1>5. ASSUME NEW i \in DOMAIN s  PROVE s[i] < f + 1
    <2>1. i \in DOMAIN u /\ u[i] = s[i]
      BY <1>1, <1>2, <1>3
    <2> QED  BY <1>3, <1>4, <2>1
  <1>6. ASSUME NEW i \in DOMAIN t  PROVE t[i] < f + 1
    <2>1. Len(s) + i \in DOMAIN u /\ u[Len(s) + i] = t[i]
      BY <1>1, <1>2, <1>3
    <2> QED  BY <1>3, <1>4, <2>1
  <1> QED  BY <1>5, <1>6

(* What ring_buf_put does: the next bytes of the message enter the ring.    *)
LEMMA PutRing ==
    ASSUME IInv, TransmitPut
    PROVE  \/ UNCHANGED <<tx_buf, accepted, sent>> /\ pc' = "take"
           \/ \E n \in 1..Capacity :
                /\ n <= Capacity - Len(tx_buf) /\ n <= rem - sent
                /\ LET f == produced - rem + sent
                       new == [i \in 1..n |-> f + i]
                   IN  /\ f \in Nat /\ f + n <= MaxBytes
                       /\ tx_buf' = tx_buf \o new /\ accepted' = accepted \o new
                /\ sent' = sent + n /\ pc' = "put"
  <1>1. /\ rem \in Nat /\ sent \in 0..rem /\ produced \in 0..MaxBytes
        /\ rem <= produced /\ tx_buf \in Seq(Byte) /\ Len(tx_buf) <= Capacity
        /\ pc = "put"
    BY TypeFacts, TxAssumption DEF IInv, CallBounds, TransmitPut
  <1>2. Len(tx_buf) \in Nat
    BY <1>1, LenProperties
  <1> DEFINE n == Least(rem - sent, Space)
             f == produced - rem + sent
             new == [i \in 1..n |-> f + i]
  <1>3. n \in Nat /\ n <= Capacity - Len(tx_buf) /\ n <= rem - sent
    <2>1. rem - sent \in Nat /\ Capacity - Len(tx_buf) \in Nat
      BY <1>1, <1>2, TxAssumption
    <2> QED  BY <2>1 DEF Least, Space
  <1>4. f \in Nat /\ f + (rem - sent) <= MaxBytes
    BY <1>1, TxAssumption
  <1>5. \/ n > 0 /\ tx_buf' = tx_buf \o new /\ accepted' = accepted \o new
           /\ sent' = sent + n /\ pc' = "put"
        \/ n = 0 /\ pc' = "take" /\ UNCHANGED <<tx_buf, accepted, sent>>
    BY <1>1 DEF TransmitPut
  <1> HIDE DEF n
  <1>6. CASE n > 0
    <2>1. n \in 1..Capacity /\ f + n <= MaxBytes
      BY <1>1, <1>2, <1>3, <1>4, <1>6, TxAssumption
    <2> QED  BY <1>3, <1>4, <1>5, <1>6, <2>1
  <1> QED  BY <1>3, <1>5, <1>6

-----------------------------------------------------------------------------
(* The invariant is inductive.                                              *)

(* It holds initially. *)
LEMMA InitIInv == Init => IInv
  <1> SUFFICES ASSUME Init PROVE IInv
    OBVIOUS
  <1> USE TxAssumption DEF Init
  <1>1. TypeOK
    <2>1. TypeRing   BY EmptySeq DEF TypeRing
    <2>2. TypeFlags  BY DEF TypeFlags
    <2>3. TypeCall   BY DEF TypeCall
    <2> QED  BY <2>1, <2>2, <2>3 DEF TypeOK
  <1>2. TypeLogs
    BY EmptySeq DEF TypeLogs
  <1>3. CallBounds
    BY DEF CallBounds, Calling
  <1>4. CloseProgress
    BY DEF CloseProgress, Calling, Enabled
  <1>5. TransmitIntact
    BY EmptySeq DEF TransmitIntact
  <1>6. StartTokenExact
    BY DEF StartTokenExact
  <1>7. NoLostStart
    BY DEF NoLostStart
  <1> QED  BY <1>1, <1>2, <1>3, <1>4, <1>5, <1>6, <1>7 DEF IInv

(* Both events end a transfer of which they report n bytes as sent. *)
LEMMA TransferCases ==
    ASSUME IInv, TxDone \/ TxAborted
    PROVE  \E n \in 0..active, evt \in BOOLEAN :
             TransferEnds(n, evt) /\ active > 0
  <1>1. CASE TxDone
    <2>1. active \in 0..active /\ FALSE \in BOOLEAN
      BY DEF IInv, TypeOK, TypeRing
    <2> QED  BY <1>1, <2>1 DEF TxDone
  <1>2. CASE TxAborted
    BY <1>2 DEF TxAborted
  <1> QED  BY <1>1, <1>2

(* The end of a transfer: UART_TX_DONE has sent all of it, UART_TX_ABORTED  *)
(* any part.                                                                *)
LEMMA NextTransfer == IInv /\ (TxDone \/ TxAborted) => IInv'
  <1> SUFFICES ASSUME IInv, TxDone \/ TxAborted PROVE IInv'
    OBVIOUS
  <1>1. PICK n \in 0..active, evt \in BOOLEAN :
          TransferEnds(n, evt) /\ active > 0
    BY TransferCases
  <1>2. TransferEnds(n, evt)
    BY <1>1
  <1>3. /\ tx_buf' \in Seq(Byte) /\ Len(tx_buf') = Len(tx_buf) - n
        /\ Len(tx_buf) \in Nat /\ Len(tx_buf') \in Nat
        /\ wire' \in Seq(Byte)
        /\ wire' \o tx_buf' = accepted
        /\ getPos' \in 0..Capacity - 1
        /\ active' = claimed' /\ claimed' \in 0..Len(tx_buf')
        /\ claimed' \in 0..Capacity
        /\ txEnabled /\ tx_buf' # <<>> => claimed' > 0 \/ failed' = "token"
    BY <1>2, TransferRing
  <1>4. /\ UNCHANGED <<bitVars, rxStop, idleEvt, closedEvt, pc, callVars,
                       produced, accepted, closes>>
        /\ aborting' = FALSE
        /\ idleWork' = (idleWork \/ open)
        /\ closedWork' = (closedWork \/ (~open /\ ~rxEnabled /\ ~txEnabled))
    BY <1>2 DEF TransferEnds, notify_pipe_transmit_idle, notify_pipe_closure
  <1>5. IF tx_buf' = <<>> \/ (evt /\ ~txEnabled)
        THEN tx_done_sem' = 1 /\ active' = 0 /\ failed' = failed
        ELSE /\ UNCHANGED tx_done_sem
             /\ ~txEnabled => active' = 0
             /\ failed' = failed \/ (failed' = "token" /\ active' = 0)
    BY <1>2 DEF TransferEnds, not_started
  <1>6. TypeOK'
    <2>1. TypeRing'
      BY <1>3, TxAssumption DEF IInv, TypeOK, TypeRing, Byte
    <2>2. TypeFlags'
      BY <1>4 DEF IInv, TypeOK, TypeFlags, bitVars
    <2>3. TypeCall'
      BY <1>4, <1>5 DEF IInv, TypeOK, TypeCall, callVars
    <2> QED  BY <2>1, <2>2, <2>3 DEF TypeOK
  <1>7. TypeLogs'
    BY <1>3, <1>4 DEF IInv, TypeLogs
  <1>8. CallBounds'
    BY <1>4 DEF IInv, CallBounds, callVars
  <1>9. CloseProgress'
    <2>1. /\ txEnabled' <=> txEnabled
          /\ ~aborting' /\ pc' = pc /\ closes' = closes
      BY <1>4 DEF bitVars
    <2>2. ~txEnabled => active' = 0
      BY <1>5
    <2>3. pc = "txWait" => ~txEnabled
      BY DEF IInv, CloseProgress, Enabled, Calling
    <2>4. /\ txEnabled <=> pc \in Enabled
          /\ closes = 0 => pc \in Calling \cup {"configure", "idle"}
      BY DEF IInv, CloseProgress
    <2>5. active' > 0 => active' # 0
      OBVIOUS
    <2>6. closes = 0 => pc # "configure"
      BY <1>1 DEF IInv, CloseProgress, Enabled, Calling
    <2> QED  BY <2>1, <2>2, <2>3, <2>4, <2>5, <2>6 DEF CloseProgress
  <1>10. TransmitIntact'
    BY <1>3, <1>4 DEF IInv, TransmitIntact
  <1>11. StartTokenExact'
    BY <1>1, <1>3, <1>4, <1>5, SMTT(30)
       DEF IInv, StartTokenExact, One, CloseProgress, TypeOK, TypeRing, TypeFlags, TypeCall,
           bitVars
  <1>12. NoLostStart'
    BY <1>1, <1>3, <1>4, <1>5
       DEF IInv, NoLostStart, CloseProgress, TypeOK, TypeRing, TypeFlags, TypeCall,
           Enabled, Calling, bitVars
  <1> QED  BY <1>6, <1>7, <1>8, <1>9, <1>10, <1>11, <1>12 DEF IInv

(* ring_buf_put *)
LEMMA NextPut == IInv /\ TransmitPut => IInv'
  <1> SUFFICES ASSUME IInv, TransmitPut PROVE IInv'
    OBVIOUS
  <1>0. /\ UNCHANGED <<getPos, claimed, bitVars, tx_done_sem, uartVars, notifyVars, rem,
                       retries, produced, wire, closes>>
        /\ pc = "put"
    BY DEF TransmitPut
  <1>1. CASE UNCHANGED <<tx_buf, accepted, sent>> /\ pc' = "take"
    <2>1. TypeOK'
      BY <1>0, <1>1 DEF IInv, TypeOK, TypeRing, TypeFlags, TypeCall, bitVars, uartVars,
         notifyVars
    <2>2. TypeLogs' /\ CallBounds' /\ TransmitIntact'
      BY <1>0, <1>1 DEF IInv, TypeLogs, CallBounds, Calling, TransmitIntact, uartVars
    <2>3. CloseProgress' /\ StartTokenExact' /\ NoLostStart'
      BY <1>0, <1>1 DEF IInv, CloseProgress, StartTokenExact, NoLostStart, Enabled,
         Calling, bitVars, uartVars
    <2> QED  BY <2>1, <2>2, <2>3 DEF IInv
  <1>2. ASSUME NEW n \in 1..Capacity,
               n <= Capacity - Len(tx_buf), n <= rem - sent,
               NEW f \in Nat, f = produced - rem + sent, f + n <= MaxBytes,
               tx_buf' = tx_buf \o [i \in 1..n |-> f + i],
               accepted' = accepted \o [i \in 1..n |-> f + i],
               sent' = sent + n, pc' = "put"
        PROVE  IInv'
    <2> DEFINE new == [i \in 1..n |-> f + i]
    <2>1. /\ n \in Nat
          /\ rem \in 0..MaxBytes /\ sent \in 0..rem /\ produced \in 0..MaxBytes
          /\ active = claimed /\ claimed \in Nat /\ claimed <= Len(tx_buf)
      BY TypeFacts, TxAssumption
    <2>2. new \in Seq(Byte) /\ Len(new) = n /\ \A i \in 1..n : new[i] = f + i
      BY <1>2, <2>1, Consecutive
    <2>3. /\ tx_buf \in Seq(Byte) /\ accepted \in Seq(Byte) /\ wire \in Seq(Byte)
          /\ Len(tx_buf) \in Nat
      BY TypeFacts
    <2> HIDE DEF new
    <2>4. tx_buf' \in Seq(Byte) /\ Len(tx_buf') = Len(tx_buf) + n
      BY <1>2, <2>2, <2>3, ConcatProperties DEF new
    <2>5. accepted' \in Seq(Byte)
      BY <1>2, <2>2, <2>3, ConcatProperties DEF new
    <2>6. wire' \o tx_buf' = accepted'
      <3>1. wire \o (tx_buf \o new) = accepted \o new
        BY <2>2, RingAppend
      <3> QED  BY <1>0, <1>2, <3>1 DEF new
    <2>7. /\ \A i, j \in DOMAIN accepted' : i < j => accepted'[i] < accepted'[j]
          /\ \A i \in DOMAIN accepted' : accepted'[i] <= f + n
      BY <1>2, <2>1, <2>2, <2>3, IncreasingConcat
         DEF IInv, TransmitIntact, CallBounds, new
    <2>11. TypeOK'
      <3>1. TypeRing'
        BY <1>0, <1>2, <2>1, <2>3, <2>4, TxAssumption
           DEF IInv, TypeOK, TypeRing, Byte, uartVars
      <3>2. TypeFlags'
        BY <1>0 DEF IInv, TypeOK, TypeFlags, bitVars, uartVars, notifyVars
      <3>3. TypeCall'
        BY <1>0, <1>2, <2>1 DEF IInv, TypeOK, TypeCall, uartVars
      <3> QED  BY <3>1, <3>2, <3>3 DEF TypeOK
    <2>12. TypeLogs'
      BY <1>0, <2>3, <2>5 DEF TypeLogs
    <2>13. CallBounds'
      <3>1. produced' - rem' + sent' = f + n
        BY <1>0, <1>2, <2>1
      <3>2. \A i \in DOMAIN accepted' : accepted'[i] <= produced' - rem' + sent'
        BY <2>7, <3>1
      <3>3. rem' <= produced' /\ (pc' \in Calling => retries' > 0) /\ pc' = "put"
        BY <1>0, <1>2 DEF IInv, CallBounds, Calling
      <3> QED  BY <3>2, <3>3 DEF CallBounds
    <2>14. TransmitIntact'
      BY <1>0, <2>1, <2>3, <2>4, <2>6, <2>7 DEF TransmitIntact, uartVars
    <2>15. CloseProgress' /\ StartTokenExact' /\ NoLostStart'
      BY <1>0, <1>2 DEF IInv, CloseProgress, StartTokenExact, NoLostStart, Enabled,
         Calling, bitVars, uartVars
    <2> QED  BY <2>11, <2>12, <2>13, <2>14, <2>15 DEF IInv
  <1> QED  BY <1>1, <1>2, PutRing

(* The start of a transfer by the holder of the semaphore. *)
LEMMA NextStart == IInv /\ TransmitStart => IInv'
  <1> SUFFICES ASSUME IInv, TransmitStart PROVE IInv'
    OBVIOUS
  <1>0. /\ UNCHANGED <<tx_buf, getPos, bitVars, aborting, rxStop, closedWork, idleEvt,
                       closedEvt, retries, logVars>>
        /\ pc = "take" /\ rem' = rem - sent /\ sent' = 0
        /\ pc' = IF sent = 0 THEN "reset" ELSE IF sent = rem THEN "idle" ELSE "put"
    BY DEF TransmitStart
  <1>1. /\ txEnabled = TRUE /\ tx_buf \in Seq(Byte) /\ Len(tx_buf) \in Nat
        /\ claimed \in 0..Capacity /\ active = claimed /\ claimed <= Len(tx_buf)
        /\ open \in BOOLEAN /\ idleWork \in BOOLEAN
        /\ sent \in 0..rem /\ rem \in 0..MaxBytes /\ tx_done_sem \in {0, 1}
    BY <1>0, LenProperties
       DEF IInv, TypeOK, TypeRing, TypeFlags, TypeCall, CloseProgress, Enabled, Calling,
           TransmitIntact, Byte
  <1>2. /\ active' = claimed' /\ claimed' \in 0..Capacity /\ claimed' <= Len(tx_buf)
        /\ tx_done_sem' \in {0, 1} /\ failed' \in {"none", "start", "token"}
        /\ tx_done_sem' + One(active' > 0) + One(failed' = "token") = 1
        /\ idleWork' \in BOOLEAN
        /\ tx_buf # <<>> => active' > 0 \/ failed' = "token"
    <2>1. /\ Contiguous(tx_buf, getPos) \in 0..Len(tx_buf)
          /\ Contiguous(tx_buf, getPos) \in 0..Capacity
          /\ tx_buf # <<>> => Contiguous(tx_buf, getPos) > 0
      BY <1>1, ContiguousClaim DEF IInv, TypeOK, TypeRing, TypeFlags, TypeCall
    <2>2. /\ tx_done_sem + One(active > 0) + One(failed = "token") = 1
          /\ failed \in {"none", "start", "token"}
      BY <1>1 DEF IInv, StartTokenExact, TypeOK, TypeCall
    <2>3. CASE tx_done_sem = 1 /\ tx_buf # <<>>
      BY <1>1, <2>1, <2>3 DEF TransmitStart, tx_start, One
    <2>4. CASE tx_done_sem = 1 /\ tx_buf = <<>>
      BY <1>1, <2>2, <2>4 DEF TransmitStart, notify_pipe_transmit_idle, One
    <2>5. CASE tx_done_sem # 1
      BY <1>1, <2>2, <2>5 DEF TransmitStart, One
    <2> QED  BY <2>3, <2>4, <2>5
  <1>3. TypeOK'
    <2>1. TypeRing'
      BY <1>0, <1>2 DEF IInv, TypeOK, TypeRing
    <2>2. TypeFlags'
      BY <1>0, <1>2 DEF IInv, TypeOK, TypeFlags, bitVars
    <2>3. TypeCall'
      BY <1>0, <1>1, <1>2, TxAssumption DEF IInv, TypeOK, TypeCall, logVars
    <2> QED  BY <2>1, <2>2, <2>3 DEF TypeOK
  <1>4. TypeLogs' /\ TransmitIntact'
    BY <1>0, <1>2 DEF IInv, TypeLogs, TransmitIntact, logVars
  <1>5. CallBounds'
    BY <1>0, <1>1 DEF IInv, TypeOK, TypeRing, TypeFlags, TypeCall, CallBounds, Calling, logVars
  <1>6. CloseProgress'
    BY <1>0, <1>1 DEF IInv, CloseProgress, Enabled, Calling, bitVars, logVars
  <1>7. StartTokenExact' /\ NoLostStart'
    BY <1>0, <1>2 DEF StartTokenExact, NoLostStart, logVars
  <1> QED  BY <1>3, <1>4, <1>5, <1>6, <1>7 DEF IInv

(* Nothing is accepted that was not produced. *)
LEMMA AcceptedProduced ==
    ASSUME IInv  PROVE \A i \in DOMAIN accepted : accepted[i] <= produced
  <1> TAKE i \in DOMAIN accepted
  <1>1. accepted[i] \in Byte
    BY TypeFacts, ElementOfSeq, LenProperties
  <1>2. accepted[i] \in Int
    BY <1>1, TxAssumption DEF Byte
  <1>3. accepted[i] <= produced - rem + sent
    BY DEF IInv, CallBounds
  <1>4. produced \in Nat /\ rem \in Nat /\ sent \in 0..rem
    BY TypeFacts, TxAssumption
  <1> QED  BY <1>2, <1>3, <1>4

(* uart_tx fails in pipe_transmit: what was put waits in the ring. *)
LEMMA NextFails == IInv /\ TransmitFails => IInv'
  <1> SUFFICES ASSUME IInv, TransmitFails PROVE IInv'
    OBVIOUS
  <1>1. /\ UNCHANGED <<tx_buf, getPos, bitVars, tx_done_sem, aborting, rxStop, notifyVars,
                       retries, logVars>>
        /\ pc = "take" /\ pc' = "idle" /\ tx_done_sem = 1 /\ txEnabled
        /\ claimed' = 0 /\ active' = 0 /\ failed' = "start" /\ rem' = 0 /\ sent' = 0
    BY DEF TransmitFails, not_started
  <1>2. /\ produced \in Nat /\ Len(tx_buf) \in Nat /\ 0 \in 0..Capacity
    BY TypeFacts, TxAssumption
  <1>3. TypeOK'
    <2>1. TypeRing'
      BY <1>1, <1>2 DEF IInv, TypeOK, TypeRing
    <2>2. TypeFlags'
      BY <1>1 DEF IInv, TypeOK, TypeFlags, bitVars, notifyVars
    <2>3. TypeCall'
      BY <1>1, TxAssumption DEF IInv, TypeOK, TypeCall, logVars
    <2> QED  BY <2>1, <2>2, <2>3 DEF TypeOK
  <1>4. TypeLogs' /\ TransmitIntact'
    BY <1>1, <1>2 DEF IInv, TypeLogs, TransmitIntact, logVars
  <1>5. CallBounds'
    <2>1. produced' - rem' + sent' = produced /\ rem' <= produced'
      BY <1>1, <1>2 DEF logVars
    <2> QED  BY <1>1, <2>1, AcceptedProduced DEF CallBounds, Calling, logVars
  <1>6. CloseProgress' /\ StartTokenExact' /\ NoLostStart'
    BY <1>1 DEF IInv, CloseProgress, StartTokenExact, One, NoLostStart, Enabled, Calling,
       bitVars, logVars
  <1> QED  BY <1>3, <1>4, <1>5, <1>6 DEF IInv

(* Every other step leaves the ring, the transfer and the logs alone. *)
LEMMA OtherKeeps ==
    ASSUME [Next]_vars, ~TxDone, ~TxAborted, ~TransmitPut, ~TransmitStart, ~TransmitFails
    PROVE  UNCHANGED <<tx_buf, getPos, claimed, active, accepted, wire>>
  BY DEF Next, Interrupt, SystemWorkQueue, Transmit, CloseAndOpen, RxDisabled,
     NotifyTransmitIdle, NotifyClosed, TxBlocking, WaitReset, WaitDone, PipeClose,
     TxDisable, TxWait, RxDisable, RxWait, AwaitClosed, PipeOpen, RxRecovery,
     vars, ringVars, uartVars, logVars

(* So the invariant only depends on the thread and the notifications. *)
LEMMA NextOther ==
    ASSUME IInv, [Next]_vars, ~TxDone, ~TxAborted, ~TransmitPut, ~TransmitStart,
           ~TransmitFails
    PROVE  IInv'
  <1> USE DEF One, bitVars, uartVars, notifyVars, callVars, logVars
  <1>1. UNCHANGED <<tx_buf, getPos, claimed, active, accepted, wire>>
    BY OtherKeeps
  <1>2. TypeRing' /\ TypeLogs' /\ TransmitIntact'
    BY <1>1 DEF IInv, TypeOK, TypeRing, TypeLogs, TransmitIntact
  <1>3. active \in Nat /\ tx_done_sem \in {0, 1} /\ closes \in Nat
    BY TypeFacts, TxAssumption DEF IInv, TypeOK, TypeCall
  <1>4. SUFFICES TypeFlags' /\ TypeCall' /\ CallBounds' /\ CloseProgress'
                 /\ StartTokenExact' /\ NoLostStart'
    BY <1>2 DEF IInv, TypeOK
  <1>5. CASE RxDisabled
    <2>1. TypeFlags'
      BY <1>5 DEF RxDisabled, notify_pipe_closure, IInv, TypeOK, TypeFlags
    <2>2. TypeCall'
      BY <1>5, TxAssumption DEF RxDisabled, IInv, TypeOK, TypeCall
    <2>3. CallBounds'
      BY <1>1, <1>5 DEF RxDisabled, IInv, CallBounds, Calling
    <2>4. CloseProgress' /\ StartTokenExact' /\ NoLostStart'
      BY <1>1, <1>3, <1>5 DEF RxDisabled, IInv, CloseProgress, StartTokenExact,
         NoLostStart, Enabled, Calling
    <2> QED  BY <2>1, <2>2, <2>3, <2>4
  <1>6. CASE NotifyTransmitIdle
    <2>1. TypeFlags'
      BY <1>6 DEF NotifyTransmitIdle, IInv, TypeOK, TypeFlags
    <2>2. TypeCall'
      BY <1>6, TxAssumption DEF NotifyTransmitIdle, IInv, TypeOK, TypeCall
    <2>3. CallBounds'
      BY <1>1, <1>6 DEF NotifyTransmitIdle, IInv, CallBounds, Calling
    <2>4. CloseProgress' /\ StartTokenExact' /\ NoLostStart'
      BY <1>1, <1>3, <1>6 DEF NotifyTransmitIdle, IInv, CloseProgress, StartTokenExact,
         NoLostStart, Enabled, Calling
    <2> QED  BY <2>1, <2>2, <2>3, <2>4
  <1>7. CASE NotifyClosed
    <2>1. TypeFlags'
      BY <1>7 DEF NotifyClosed, IInv, TypeOK, TypeFlags
    <2>2. TypeCall'
      BY <1>7, TxAssumption DEF NotifyClosed, IInv, TypeOK, TypeCall
    <2>3. CallBounds'
      BY <1>1, <1>7 DEF NotifyClosed, IInv, CallBounds, Calling
    <2>4. CloseProgress' /\ StartTokenExact' /\ NoLostStart'
      BY <1>1, <1>3, <1>7 DEF NotifyClosed, IInv, CloseProgress, StartTokenExact,
         NoLostStart, Enabled, Calling
    <2> QED  BY <2>1, <2>2, <2>3, <2>4
  <1>8. CASE TxBlocking
    <2>1. TypeFlags'
      BY <1>8 DEF TxBlocking, IInv, TypeOK, TypeFlags
    <2>2. PICK n \in MsgSizes : /\ produced + n <= MaxBytes
                                /\ produced' = produced + n /\ rem' = n
      BY <1>8 DEF TxBlocking
    <2>3. /\ n \in Nat \ {0} /\ produced \in Nat /\ rem \in Nat /\ sent \in 0..rem
          /\ sent' = 0 /\ retries' = Retries /\ pc' = "put" /\ closes' = closes
      BY <1>8, TypeFacts, TxAssumption DEF TxBlocking
    <2>4. TypeCall'
      BY <1>3, <1>8, <2>2, <2>3, TxAssumption DEF TxBlocking, IInv, TypeOK, TypeCall
    <2>5. CallBounds'
      <3>2. produced' - rem' + sent' = produced
        BY <2>2, <2>3
      <3>3. \A i \in DOMAIN accepted' : accepted'[i] <= produced' - rem' + sent'
        BY <1>1, <3>2, AcceptedProduced
      <3>4. rem' <= produced' /\ retries' > 0 /\ pc' = "put"
        BY <2>2, <2>3, TxAssumption
      <3> QED  BY <3>3, <3>4 DEF CallBounds
    <2>6. CloseProgress' /\ StartTokenExact' /\ NoLostStart'
      BY <1>1, <1>3, <1>8 DEF TxBlocking, IInv, CloseProgress, StartTokenExact,
         NoLostStart, Enabled, Calling
    <2> QED  BY <2>1, <2>4, <2>5, <2>6
  <1>9. CASE WaitReset
    <2>1. TypeFlags'
      BY <1>9 DEF WaitReset, IInv, TypeOK, TypeFlags
    <2>2. TypeCall'
      BY <1>9, TxAssumption DEF WaitReset, IInv, TypeOK, TypeCall
    <2>3. CallBounds'
      BY <1>1, <1>9 DEF WaitReset, IInv, CallBounds, Calling
    <2>4. CloseProgress' /\ StartTokenExact' /\ NoLostStart'
      BY <1>1, <1>3, <1>9 DEF WaitReset, IInv, CloseProgress, StartTokenExact,
         NoLostStart, Enabled, Calling
    <2> QED  BY <2>1, <2>2, <2>3, <2>4
  <1>10. CASE WaitDone
    <2>1. TypeFlags'
      BY <1>10 DEF WaitDone, IInv, TypeOK, TypeFlags
    <2>2. /\ rem \in 0..MaxBytes /\ sent \in 0..rem /\ produced \in 0..MaxBytes
          /\ retries \in 0..Retries /\ retries > 0 /\ sent = 0
      BY <1>10, TypeFacts DEF WaitDone, IInv, TypeOK, TypeCall, CallBounds, Calling
    <2>3. TypeCall'
      BY <1>10, <2>2, TxAssumption DEF WaitDone, IInv, TypeOK, TypeCall
    <2>4. CallBounds'
      <3>1. CASE UNCHANGED rem
        BY <1>1, <1>10, <2>2, <3>1, TxAssumption DEF WaitDone, IInv, CallBounds, Calling
      <3>2. CASE rem' = 0 /\ pc' = "idle"
        <4>1. produced' - rem' + sent' = produced /\ rem' <= produced'
          BY <1>10, <2>2, <3>2 DEF WaitDone
        <4> QED  BY <1>1, <3>2, <4>1, AcceptedProduced DEF CallBounds, Calling
      <3> QED  BY <1>10, <3>1, <3>2 DEF WaitDone
    <2>5. CloseProgress' /\ StartTokenExact' /\ NoLostStart'
      BY <1>1, <1>3, <1>10 DEF WaitDone, IInv, CloseProgress, StartTokenExact,
         NoLostStart, Enabled, Calling
    <2> QED  BY <2>1, <2>3, <2>4, <2>5
  <1>11. CASE PipeClose
    <2>1. TypeFlags'
      BY <1>11 DEF PipeClose, IInv, TypeOK, TypeFlags
    <2>2. TypeCall'
      BY <1>11, TxAssumption DEF PipeClose, IInv, TypeOK, TypeCall
    <2>3. CallBounds'
      BY <1>1, <1>11 DEF PipeClose, IInv, CallBounds, Calling
    <2>4. CloseProgress' /\ StartTokenExact' /\ NoLostStart'
      BY <1>1, <1>3, <1>11 DEF PipeClose, IInv, CloseProgress, StartTokenExact,
         NoLostStart, Enabled, Calling
    <2> QED  BY <2>1, <2>2, <2>3, <2>4
  <1>12. CASE TxDisable
    <2>1. TypeFlags'
      BY <1>12 DEF TxDisable, IInv, TypeOK, TypeFlags
    <2>2. TypeCall'
      BY <1>12, TxAssumption DEF TxDisable, IInv, TypeOK, TypeCall
    <2>3. CallBounds'
      BY <1>1, <1>12 DEF TxDisable, IInv, CallBounds, Calling
    <2>4. CloseProgress' /\ StartTokenExact' /\ NoLostStart'
      BY <1>1, <1>3, <1>12 DEF TxDisable, IInv, CloseProgress, StartTokenExact,
         NoLostStart, Enabled, Calling
    <2> QED  BY <2>1, <2>2, <2>3, <2>4
  <1>13. CASE TxWait
    <2>0. /\ pc = "txWait" /\ pc' = "rxDisable" /\ ~txEnabled /\ ~txEnabled'
          /\ ~aborting /\ closes # 0 /\ closes' = closes /\ (tx_done_sem = 1 => active = 0)
      BY <1>13, <1>3 DEF TxWait, IInv, CloseProgress, Enabled, Calling
    <2>1. aborting' \in BOOLEAN /\ (aborting' <=> active > 0)
      <3>1. CASE tx_done_sem = 1
        <4>1. aborting' = aborting /\ active = 0
          BY <1>13, <2>0, <3>1 DEF TxWait
        <4> QED  BY <2>0, <4>1, TypeFacts
      <3>2. CASE tx_done_sem = 0
        <4>1. aborting' = (active > 0)
          BY <1>13, <3>2 DEF TxWait
        <4>2. aborting' \in BOOLEAN
          BY <4>1
        <4>3. ASSUME aborting'  PROVE active > 0
          BY <4>1, <4>3
        <4>4. ASSUME active > 0  PROVE aborting'
          BY <4>1, <4>4
        <4> QED  BY <4>2, <4>3, <4>4
      <3> QED  BY <1>3, <3>1, <3>2
    <2>2. TypeFlags'
      BY <1>13, <2>1 DEF TxWait, IInv, TypeOK, TypeFlags
    <2>3. TypeCall'
      BY <1>13, TxAssumption DEF TxWait, IInv, TypeOK, TypeCall
    <2>4. CallBounds'
      BY <1>1, <1>13 DEF TxWait, IInv, CallBounds, Calling
    <2>5. CloseProgress'
      BY <1>1, <2>0, <2>1 DEF CloseProgress, Enabled, Calling
    <2>6. StartTokenExact' /\ NoLostStart'
      BY <2>0 DEF StartTokenExact, NoLostStart
    <2> QED  BY <2>2, <2>3, <2>4, <2>5, <2>6
  <1>14. CASE RxDisable
    <2>1. TypeFlags'
      BY <1>14 DEF RxDisable, IInv, TypeOK, TypeFlags
    <2>2. TypeCall'
      BY <1>14, TxAssumption DEF RxDisable, IInv, TypeOK, TypeCall
    <2>3. CallBounds'
      BY <1>1, <1>14 DEF RxDisable, IInv, CallBounds, Calling
    <2>4. CloseProgress' /\ StartTokenExact' /\ NoLostStart'
      BY <1>1, <1>3, <1>14 DEF RxDisable, IInv, CloseProgress, StartTokenExact,
         NoLostStart, Enabled, Calling
    <2> QED  BY <2>1, <2>2, <2>3, <2>4
  <1>15. CASE RxWait
    <2>1. TypeFlags'
      BY <1>15 DEF RxWait, IInv, TypeOK, TypeFlags
    <2>2. TypeCall'
      BY <1>15, TxAssumption DEF RxWait, IInv, TypeOK, TypeCall
    <2>3. CallBounds'
      BY <1>1, <1>15 DEF RxWait, IInv, CallBounds, Calling
    <2>4. CloseProgress' /\ StartTokenExact' /\ NoLostStart'
      BY <1>1, <1>3, <1>15 DEF RxWait, IInv, CloseProgress, StartTokenExact,
         NoLostStart, Enabled, Calling
    <2> QED  BY <2>1, <2>2, <2>3, <2>4
  <1>16. CASE AwaitClosed
    <2>1. TypeFlags'
      BY <1>16 DEF AwaitClosed, IInv, TypeOK, TypeFlags
    <2>2. TypeCall'
      BY <1>16, TxAssumption DEF AwaitClosed, IInv, TypeOK, TypeCall
    <2>3. CallBounds'
      BY <1>1, <1>16 DEF AwaitClosed, IInv, CallBounds, Calling
    <2>4. CloseProgress' /\ StartTokenExact' /\ NoLostStart'
      BY <1>1, <1>3, <1>16 DEF AwaitClosed, IInv, CloseProgress, StartTokenExact,
         NoLostStart, Enabled, Calling
    <2> QED  BY <2>1, <2>2, <2>3, <2>4
  <1>17. CASE PipeOpen
    <2>1. TypeFlags'
      BY <1>17 DEF PipeOpen, IInv, TypeOK, TypeFlags
    <2>2. TypeCall'
      BY <1>17, TxAssumption DEF PipeOpen, IInv, TypeOK, TypeCall
    <2>3. CallBounds'
      BY <1>1, <1>17 DEF PipeOpen, IInv, CallBounds, Calling
    <2>4. CloseProgress'
      BY <1>1, <1>3, <1>17 DEF PipeOpen, IInv, CloseProgress, Enabled, Calling
    <2>5. active = 0 /\ ~txEnabled
      BY <1>3, <1>17 DEF PipeOpen, IInv, CloseProgress, Enabled, Calling
    <2>6. active' = 0 /\ tx_done_sem' = 1 /\ failed' = "none"
      BY <1>1, <1>17, <2>5 DEF PipeOpen
    <2>7. StartTokenExact'
      BY <2>6 DEF StartTokenExact
    <2>8. NoLostStart'
      <3>1. CASE closes = 0
        BY <1>1, <1>17, <2>5, <3>1 DEF PipeOpen, IInv, NoLostStart, CloseProgress
      <3>2. CASE closes # 0
        BY <1>17, <3>2 DEF PipeOpen, NoLostStart
      <3> QED  BY <3>1, <3>2
    <2> QED  BY <2>1, <2>2, <2>3, <2>4, <2>7, <2>8
  <1>18. CASE RxRecovery
    <2>1. TypeFlags'
      BY <1>18 DEF RxRecovery, IInv, TypeOK, TypeFlags
    <2>2. TypeCall'
      BY <1>18, TxAssumption DEF RxRecovery, IInv, TypeOK, TypeCall
    <2>3. CallBounds'
      BY <1>1, <1>18 DEF RxRecovery, IInv, CallBounds, Calling
    <2>4. CloseProgress' /\ StartTokenExact' /\ NoLostStart'
      BY <1>1, <1>3, <1>18 DEF RxRecovery, IInv, CloseProgress, StartTokenExact,
         NoLostStart, Enabled, Calling
    <2> QED  BY <2>1, <2>2, <2>3, <2>4
  <1>19. CASE UNCHANGED vars
    BY <1>19 DEF IInv, TypeOK, TypeFlags, TypeCall, CallBounds, CloseProgress,
       StartTokenExact, NoLostStart, vars, ringVars
  <1> QED
    BY <1>5, <1>6, <1>7, <1>8, <1>9, <1>10, <1>11, <1>12, <1>13, <1>14, <1>15, <1>16,
       <1>17, <1>18, <1>19
       DEF Next, Interrupt, SystemWorkQueue, Transmit, CloseAndOpen

(* IInv is an inductive invariant of the transmit path. *)
THEOREM IInvInvariant == Spec => []IInv
  <1>1. Init => IInv
    BY InitIInv
  <1>2. IInv /\ [Next]_vars => IInv'
    BY NextTransfer, NextPut, NextStart, NextFails, NextOther
  <1> QED  BY <1>1, <1>2, PTL DEF Spec

(* For every ring size and message size, the ring, a claim and a transfer   *)
(* stay within CONFIG_SM_UART_TX_BUF_SIZE, and the retries of               *)
(* sm_at_host_pipe_tx_blocking within their number.                         *)
THEOREM TypeCorrect == Spec => []TypeOK
  <1>1. IInv => TypeOK
    BY DEF IInv
  <1> QED  BY <1>1, IInvInvariant, PTL

(* Whatever the interleaving of pipe_transmit with the UART's events, and   *)
(* with aborts, closes and reopens, what was accepted is on the wire or in  *)
(* the ring, in order and once.                                             *)
THEOREM TransmitCorrect == Spec => []TransmitIntact
  <1>1. IInv => TransmitIntact
    BY DEF IInv
  <1> QED  BY <1>1, IInvInvariant, PTL

(* tx_done_sem and the transfers of uart_callback: while TX is enabled the  *)
(* right to start a transfer exists exactly once.                           *)
THEOREM StartTokenCorrect == Spec => []StartTokenExact
  <1>1. IInv => StartTokenExact
    BY DEF IInv
  <1> QED  BY <1>1, IInvInvariant, PTL

(* Until the pipe is first closed, bytes in the ring are being sent or      *)
(* pipe_transmit is about to start them.                                    *)
THEOREM StartsNotLost == Spec => []NoLostStart
  <1>1. IInv => NoLostStart
    BY DEF IInv
  <1> QED  BY <1>1, IInvInvariant, PTL

-----------------------------------------------------------------------------
(* The transmit path implements ByteFifo.                                   *)

(* ring_buf_put is a Put of the queue, or nothing. *)
LEMMA PutSimulation == IInv /\ TransmitPut => [Fifo!Next]_(Fifo!vars)
  <1> SUFFICES ASSUME IInv, TransmitPut PROVE Fifo!Put \/ UNCHANGED Fifo!vars
    BY DEF Fifo!Next
  <1>0. UNCHANGED wire
    BY DEF TransmitPut
  <1>1. CASE UNCHANGED tx_buf
    BY <1>0, <1>1 DEF Fifo!vars
  <1>2. ASSUME NEW n \in 1..Capacity,
               n <= Capacity - Len(tx_buf), n <= rem - sent,
               NEW f \in Nat, f = produced - rem + sent, f + n <= MaxBytes,
               tx_buf' = tx_buf \o [i \in 1..n |-> f + i]
        PROVE  Fifo!Put
    <2>1. /\ tx_buf \in Seq(Byte) /\ wire \in Seq(Byte)
          /\ wire \o tx_buf = accepted
          /\ \A i \in DOMAIN accepted : accepted[i] <= f
      BY <1>2, TypeFacts DEF IInv, CallBounds
    <2>2. /\ \A i \in DOMAIN tx_buf : tx_buf[i] < f + 1
          /\ \A i \in DOMAIN wire : wire[i] < f + 1
      BY <2>1, ConcatParts
    <2>3. f + 1 \in 1..MaxBytes /\ Len(tx_buf) + n <= Capacity
      <3>1. Len(tx_buf) \in Nat
        BY <2>1, LenProperties
      <3> QED  BY <1>2, <3>1, TxAssumption
    <2>4. [i \in 1..n |-> f + i] = [i \in 1..n |-> (f + 1) + i - 1]
      OBVIOUS
    <2> QED  BY <1>0, <1>2, <2>2, <2>3, <2>4 DEF Fifo!Put
  <1> QED  BY <1>1, <1>2, PutRing

(* The end of a transfer is a Get of what was sent, or nothing was sent. *)
LEMMA GetSimulation == IInv /\ (TxDone \/ TxAborted) => [Fifo!Next]_(Fifo!vars)
  <1> SUFFICES ASSUME IInv, TxDone \/ TxAborted PROVE Fifo!Get \/ UNCHANGED Fifo!vars
    BY DEF Fifo!Next
  <1>1. PICK n \in 0..active, evt \in BOOLEAN : TransferEnds(n, evt)
    BY TransferCases
  <1>2. /\ tx_buf' = SubSeq(tx_buf, n + 1, Len(tx_buf))
        /\ wire' = wire \o SubSeq(tx_buf, 1, n)
    BY <1>1, TransferRing
  <1>3. /\ tx_buf \in Seq(Byte) /\ wire \in Seq(Byte) /\ Len(tx_buf) \in Nat
        /\ active \in Nat /\ active <= Len(tx_buf)
    BY TypeFacts, TxAssumption
  <1>4. CASE n > 0
    <2>1. n \in 1..Len(tx_buf)
      BY <1>3, <1>4
    <2> QED  BY <1>2, <2>1 DEF Fifo!Get
  <1>5. CASE n = 0
    <2>1. SubSeq(tx_buf, 1, 0) = <<>>
      BY SubSeqEmpty
    <2>2. wire \o <<>> = wire
      BY <1>3, ConcatEmptySeq
    <2>3. SubSeq(tx_buf, 1, Len(tx_buf)) = tx_buf
      BY <1>3, SubSeqFull
    <2>4. n + 1 = 1
      BY <1>5
    <2>5. UNCHANGED <<tx_buf, wire>>
      BY <1>2, <1>5, <2>1, <2>2, <2>3, <2>4
    <2> QED  BY <2>5 DEF Fifo!vars
  <1> QED  BY <1>3, <1>4, <1>5

(* Every step of the transmit path is a step of the queue or leaves it as   *)
(* it is.                                                                   *)
LEMMA StepSimulation == IInv /\ [Next]_vars => [Fifo!Next]_(Fifo!vars)
  <1> SUFFICES ASSUME IInv, [Next]_vars, ~TxDone, ~TxAborted, ~TransmitPut
               PROVE  UNCHANGED Fifo!vars
    BY PutSimulation, GetSimulation
  <1>1. UNCHANGED <<tx_buf, wire>>
    BY DEF Next, Interrupt, SystemWorkQueue, Transmit, CloseAndOpen, vars, RxDisabled,
       NotifyTransmitIdle, NotifyClosed, TxBlocking, TransmitStart, TransmitFails, WaitReset,
       WaitDone,
       PipeClose, TxDisable, TxWait, RxDisable, RxWait, AwaitClosed, PipeOpen, RxRecovery,
       ringVars, logVars
  <1> QED  BY <1>1 DEF Fifo!vars

(* For every ring size, message size and interleaving, with aborted         *)
(* transfers, closes and reopens, the transmit path of sm_uart_handler.c    *)
(* implements the lossless bounded queue of ByteFifo.                       *)
THEOREM Refinement == Spec => ImplementsFifo
  <1>1. Init => Fifo!Init
    BY DEF Init, Fifo!Init
  <1>2. IInv /\ [Next]_vars => [Fifo!Next]_(Fifo!vars)
    BY StepSimulation
  <1> QED  BY <1>1, <1>2, IInvInvariant, PTL DEF Spec, ImplementsFifo, Fifo!Spec
=============================================================================
