---------------------------- MODULE AtHostProofs ----------------------------
(***************************************************************************)
(* Proofs about AtHost, for every size of the URC buffer and of the        *)
(* message queue and every number of inputs.  The inductive invariant has  *)
(* two halves that share no argument: the thread's control (where          *)
(* sm_work_q is decides how often executing_lock is held, and what was     *)
(* last sent) and the URCs (where each of them is).                        *)
(***************************************************************************)
EXTENDS AtHost, TLAPS

Items == {"rx", "host", "poll", "done"}

(* How often the thread itself holds the executing lock. *)
Held(at) ==
    IF at \in {"header", "headerSend", "data", "dataSend"} THEN 2
    ELSE IF at \in {"exec", "recv", "crlf", "crlfSend"} THEN 1 ELSE 0

Flushing  == {"flush", "flushSend", "flushList"}
Receiving == {"lock", "locked", "recv", "header", "headerSend", "data", "dataSend",
              "crlf", "crlfSend"}
Reading   == {"exec", "refuse", "error", "exit", "xdatamode"}

(* A work queue with no item twice, and the end of a background command     *)
(* only if there is one (b).                                                *)
GoodQueue(q, b) ==
    /\ q \in Seq(Items)
    /\ \A i, j \in 1..Len(q) : q[i] = q[j] => i = j
    /\ \A i \in 1..Len(q) : q[i] = "done" => b

QueueInv == GoodQueue(wq, background)

(* Every hold of the lock has its owner; URCs are flushed and a socket is   *)
(* read only from an idle context.                                          *)
LockInv ==
    /\ executing_lock = Held(pc) + (IF background THEN 1 ELSE 0)
    /\ pc \in Flushing =>
         /\ executing_lock = 0 /\ ~dataMode
         /\ after \in {"error", "xdatamode", "works", "locked"}
    /\ pc \in Receiving => ~background /\ ~dataMode
    /\ pc \in Reading => ~dataMode
    /\ ret \in {"none", "works"}

(* What was last sent tells where the thread is. *)
BlockInv ==
    /\ out = "header" => pc \in {"data", "dataSend"}
    /\ out = "data" => pc \in {"crlf", "crlfSend"}

(* Without pipelining, nothing is read while a command is executed, also in *)
(* the background, so that nothing but its response is sent.                *)
CommandInv ==
    /\ pc = "exec" => pipe = <<>>
    /\ (background /\ pc \in {"finish", "rx"}) => pipe = <<>>
    /\ pc \in Reading => ~background
    /\ dataMode => ~background
    /\ out = "begin" => pc = "exec" \/ background
    /\ out = "connect" => dataMode

(* ... as a batch ends with the end of a command. *)
LastTerm(p) == \A i \in 1..Len(p) : p[i] = "term" => i = Len(p)

ControlInv == TypeQueue /\ TypeCommand /\ QueueInv /\ LockInv /\ BlockInv

-----------------------------------------------------------------------------
(* The URCs. *)

(* The URCs in a sequence, where 0 is memory that was overwritten, and      *)
(* those after its first k.                                                 *)
Elems(q) == {q[i] : i \in 1..Len(q)} \ {0}
Rest(q, k) == {q[i] : i \in k + 1 .. Len(q)}

Unclaimed == Rest(urc_buf, claimed)
InFlight  == Elems(sending)
OwnUrcs   == sentTo \cup Elems(buffered_urcs)
Gone      == dropped \cup lost

(* Only send_urcs claims URCs, and only of the URC context; each that it    *)
(* claimed was sent, will be, or was lost.  Memory that is transmitted      *)
(* unclaimed was reset under an overflow.                                   *)
ClaimInv ==
    /\ urcs \in 0..MaxUrcs /\ faults \in Nat /\ selects \in Nat
    /\ pc # "flushSend" => claimed = 0 /\ sending = <<>>
    /\ pc = "flushSend" => urc_ctx
    /\ ~urc_ctx => selects > 0
    /\ \A i \in 1..claimed : urc_buf[i] \in sent \cup InFlight \cup lost
    /\ (claimed = 0 /\ sending # <<>>) => urcs > UrcCap

(* URCs are numbered in the order they are put, in urc_buf (b) and in what  *)
(* is transmitted from it (s).                                              *)
Numbered(b, n) ==
    /\ \A i \in 1..Len(b) : i <= b[i] /\ b[i] <= n
    /\ \A i, j \in 1..Len(b) : i < j => b[i] < b[j]

Increasing(s) ==
    \A i, j \in 1..Len(s) : (i < j /\ s[i] # 0 /\ s[j] # 0) => s[i] < s[j]

(* URCs in flight (fl) are older than those unclaimed (un), and both        *)
(* younger than those sent (sn).                                            *)
Ordered(sn, fl, un) ==
    /\ \A m \in fl, n \in un : m < n
    /\ \A m \in sn, n \in fl \cup un : m = 0 \/ m < n

(* A URC is in one place: sent, in this context's list (ow), gone (dr),     *)
(* unclaimed or in flight.                                                  *)
Placed(sn, ow, dr, un, fl, n) ==
    /\ (sn \cup ow \cup dr \cup un \cup fl) \ {0} = 1..n
    /\ 0 \notin ow /\ 0 \notin dr
    /\ \A x \in ow : x \notin sn /\ x \notin fl /\ x \notin un /\ x \notin dr
    /\ \A x \in dr : x \notin sn /\ x \notin fl /\ x \notin un

OrderInv == /\ Numbered(urc_buf, urcs) /\ Increasing(sending)
            /\ Ordered(sent, InFlight, Unclaimed)

(* So are those of this context's list (l), where those sent (sn) are older. *)
Listed(l, sn) == /\ Increasing(l)
                 /\ \A m \in sn, n \in Elems(l) : m < n

PlaceInv == /\ Placed(sent, OwnUrcs, Gone, Unclaimed, InFlight, urcs)
            /\ Listed(buffered_urcs, sentTo)
            /\ lost \cap dropped = {}
            /\ dropped # {} => urcs > UrcCap
            /\ lost # {} => faults > 0 \/ selects > 0

UrcInv == TypeUrcs /\ ClaimInv /\ OrderInv /\ PlaceInv

-----------------------------------------------------------------------------
(* The work queue. *)

(* Four different items fill the queue. *)
LEMMA QueueShort ==
    ASSUME NEW q, NEW b, GoodQueue(q, b)
    PROVE  Len(q) <= 4
<1>1. q \in Seq(Items) /\ Len(q) \in Nat
  BY DEF GoodQueue
<1>2. SUFFICES ASSUME Len(q) > 4 PROVE FALSE
  BY <1>1
<1>3. 1 \in 1..Len(q) /\ 2 \in 1..Len(q) /\ 3 \in 1..Len(q) /\ 4 \in 1..Len(q) /\ 5 \in 1..Len(q)
  BY <1>1, <1>2
<1>4. q[1] \in Items /\ q[2] \in Items /\ q[3] \in Items /\ q[4] \in Items /\ q[5] \in Items
  BY <1>1, <1>3
<1>5. /\ q[1] # q[2] /\ q[1] # q[3] /\ q[1] # q[4] /\ q[1] # q[5]
      /\ q[2] # q[3] /\ q[2] # q[4] /\ q[2] # q[5]
      /\ q[3] # q[4] /\ q[3] # q[5] /\ q[4] # q[5]
  BY <1>3 DEF GoodQueue
<1> QED BY <1>4, <1>5 DEF Items

(* k_work_submit keeps the queue good. *)
LEMMA SubmitGood ==
    ASSUME NEW q, NEW b \in BOOLEAN, GoodQueue(q, b), NEW w \in Items, w = "done" => b
    PROVE  GoodQueue(Submit(q, w), b)
<1>1. q \in Seq(Items) /\ Len(q) \in Nat /\ DOMAIN q = 1..Len(q)
  BY DEF GoodQueue
<1>2. CASE \E i \in DOMAIN q : q[i] = w
  BY <1>2 DEF Submit
<1>3. CASE ~\E i \in DOMAIN q : q[i] = w
  <2> DEFINE r == Append(q, w)
  <2>1. Submit(q, w) = r
    BY <1>3 DEF Submit
  <2>2. /\ r \in Seq(Items) /\ Len(r) = Len(q) + 1 /\ r[Len(q) + 1] = w
        /\ \A i \in 1..Len(q) : r[i] = q[i]
    BY <1>1
  <2> HIDE DEF r
  <2>3. \A i \in 1..Len(r) : i \in 1..Len(q) \/ i = Len(q) + 1
    BY <1>1, <2>2
  <2>4. \A i, j \in 1..Len(r) : r[i] = r[j] => i = j
    BY <1>1, <1>3, <2>2, <2>3 DEF GoodQueue
  <2>5. \A i \in 1..Len(r) : r[i] = "done" => b
    BY <2>2, <2>3 DEF GoodQueue
  <2> QED BY <2>1, <2>2, <2>4, <2>5 DEF GoodQueue
<1> QED BY <1>2, <1>3

(* Taking the first item keeps the queue good; once it is the end of the    *)
(* background command, no other such item is left.                          *)
LEMMA TailGood ==
    ASSUME NEW q, NEW b \in BOOLEAN, GoodQueue(q, b), q # <<>>
    PROVE  /\ GoodQueue(Tail(q), b)
           /\ Head(q) = "done" => b /\ GoodQueue(Tail(q), FALSE)
<1>1. q \in Seq(Items) /\ Len(q) \in Nat /\ Len(q) > 0
  BY DEF GoodQueue
<1> DEFINE r == Tail(q)
<1>2. /\ r \in Seq(Items) /\ Len(r) = Len(q) - 1
      /\ \A i \in 1..Len(r) : r[i] = q[i + 1]
      /\ Head(q) = q[1]
  BY <1>1
<1> HIDE DEF r
<1>3. \A i \in 1..Len(r) : i + 1 \in 1..Len(q) /\ i + 1 # 1 /\ 1 \in 1..Len(q)
  BY <1>1, <1>2
<1>4. \A i, j \in 1..Len(r) : r[i] = r[j] => i = j
  <2> TAKE i, j \in 1..Len(r)
  <2> HAVE r[i] = r[j]
  <2>1. q[i + 1] = q[j + 1] /\ i + 1 \in 1..Len(q) /\ j + 1 \in 1..Len(q)
    BY <1>2, <1>3
  <2>2. i + 1 = j + 1
    BY <2>1 DEF GoodQueue
  <2> QED BY <1>1, <1>2, <2>2
<1>5. \A i \in 1..Len(r) : r[i] = "done" => b
  BY <1>2, <1>3 DEF GoodQueue
<1>6. ASSUME Head(q) = "done" PROVE b /\ \A i \in 1..Len(r) : r[i] # "done"
  <2>1. 1 \in 1..Len(q) /\ q[1] = "done"
    BY <1>1, <1>2, <1>6
  <2>2. b
    BY <2>1 DEF GoodQueue
  <2>3. ASSUME NEW i \in 1..Len(r), r[i] = "done" PROVE FALSE
    BY <1>2, <1>3, <2>1, <2>3 DEF GoodQueue
  <2> QED BY <2>2, <2>3
<1>7. GoodQueue(r, b)
  BY <1>2, <1>4, <1>5 DEF GoodQueue
<1>8. Head(q) = "done" => b /\ GoodQueue(r, FALSE)
  BY <1>2, <1>4, <1>6 DEF GoodQueue
<1> QED BY <1>7, <1>8 DEF r

(* The message queue keeps to its length: a full one is purged. *)
LEMMA PostedFits == msgs \in 0..MsgqLen => Posted \in 0..MsgqLen
BY AtHostAssumption DEF Posted

(* cmd_done submits, or leaves the queue alone. *)
LEMMA CmdDoneGood ==
    ASSUME NEW q, NEW b \in BOOLEAN, GoodQueue(q, b), msgs \in 0..MsgqLen, cmd_done(q)
    PROVE  GoodQueue(wq', b) /\ msgs' \in 0..MsgqLen
<1>1. GoodQueue(Submit(q, "host"), b)
  BY SubmitGood DEF Items
<1>2. GoodQueue(Submit(Submit(q, "host"), "rx"), b)
  BY <1>1, SubmitGood DEF Items
<1> QED BY <1>1, <1>2, PostedFits DEF cmd_done

(* Every step keeps the work queue and the message queue good. *)
LEMMA QueueStep == ControlInv /\ [Next]_vars => TypeQueue' /\ QueueInv'
<1> SUFFICES ASSUME ControlInv, [Next]_vars PROVE TypeQueue' /\ QueueInv'
  OBVIOUS
<1> USE DEF queueVars, cmdVars, urcVars, sockVars, sendVars, envVars
<1>1. /\ GoodQueue(wq, background) /\ background \in BOOLEAN /\ msgs \in 0..MsgqLen
      /\ started \in BOOLEAN
  BY DEF ControlInv, QueueInv, TypeCommand, TypeQueue
<1>2. ASSUME NEW w \in Items, w # "done" PROVE GoodQueue(Submit(wq, w), background)
  BY <1>1, <1>2, SubmitGood
<1>3. SUFFICES /\ GoodQueue(wq', background') /\ msgs' \in 0..MsgqLen
               /\ started' \in BOOLEAN
  <2>1. wq' \in Seq(Items) /\ Len(wq') <= 4
    BY <1>3, QueueShort DEF GoodQueue
  <2> QED BY <1>3, <2>1 DEF TypeQueue, QueueInv, Items
<1>4. CASE UNCHANGED <<started, wq, msgs, background>>
  BY <1>1, <1>4
<1>5. CASE HostSends
  BY <1>1, <1>2, <1>5 DEF HostSends, Items
<1>6. CASE PollCallback
  BY <1>1, <1>2, <1>6 DEF PollCallback, Items
<1>7. CASE BackgroundReady
  BY <1>1, <1>7, SubmitGood DEF BackgroundReady, Items
<1>8. CASE UrcNotify
  BY <1>1, <1>2, <1>8, PostedFits DEF UrcNotify, notify_any, Items
<1>9. CASE IdleTimer
  BY <1>1, <1>2, <1>9, PostedFits DEF IdleTimer, notify_any, Items
<1>10. CASE CommandFinish \/ XDataMode \/ PollQueue
  BY <1>1, <1>2, <1>10, PostedFits DEF CommandFinish, XDataMode, PollQueue, notify, Items
<1>11. CASE RxStart \/ HostStart \/ PollStart
  BY <1>1, <1>11, TailGood DEF RxStart, HostStart, PollStart, Dispatch
<1>12. CASE CommandDone
  <2>1. GoodQueue(Tail(wq), FALSE)
    BY <1>1, <1>12, TailGood DEF CommandDone, Dispatch
  <2>2. cmd_done(Tail(wq)) /\ background' = FALSE /\ started' = started
    BY <1>12 DEF CommandDone
  <2> QED BY <1>1, <2>1, <2>2, CmdDoneGood
<1>13. CASE RecvData \/ RecvEnd \/ RecvFails
  <2>1. cmd_done(wq) \/ UNCHANGED <<wq, msgs>>
    BY <1>13 DEF RecvData, RecvEnd, RecvFails
  <2>2. background' = background /\ started' = started
    BY <1>13 DEF RecvData, RecvEnd, RecvFails
  <2> QED BY <1>1, <2>1, <2>2, CmdDoneGood
<1>14. CASE CommandContinues
  BY <1>1, <1>14 DEF CommandContinues, GoodQueue
<1>15. CASE \/ StartWorkQueue \/ SocketEvent \/ SelectUrcChannel \/ UrcPut \/ UrcPutTo
            \/ UrcCheck
  BY <1>1, <1>15 DEF StartWorkQueue, SocketEvent, SelectUrcChannel, UrcPut, UrcPutTo, UrcCheck
<1>16. CASE \/ RxEnd \/ RxChar \/ RxCommand \/ RxInvalid \/ rsp_send \/ RefuseSend
            \/ CommandAnswered \/ RxData \/ ExitDataMode
  BY <1>4, <1>16 DEF RxEnd, RxChar, RxCommand, RxInvalid, rsp_send, RefuseSend,
                     CommandAnswered, RxData, ExitDataMode
<1>17. CASE HostMessage
  BY <1>1, <1>17, AtHostAssumption DEF HostMessage
<1>18. CASE HostEnd \/ FlushClaim \/ FlushSend \/ FlushFinish \/ FlushList \/ IdleWorks
  BY <1>4, <1>18 DEF HostEnd, FlushClaim, FlushSend, FlushFinish, FlushList, IdleWorks
<1>19. CASE PollWork \/ Lock \/ Locked \/ RecvStart \/ RecvHeader
  BY <1>4, <1>19 DEF PollWork, Lock, Locked, RecvStart, RecvHeader
<1>20. CASE UNCHANGED vars
  BY <1>4, <1>20 DEF vars
<1> QED
  BY <1>5, <1>6, <1>7, <1>8, <1>9, <1>10, <1>11, <1>12, <1>13, <1>14, <1>15, <1>16,
     <1>17, <1>18, <1>19, <1>20 DEF Next, UrcSender, Thread, Read, Work, Poll

-----------------------------------------------------------------------------
(* The thread's control. *)

(* Every step but the thread's. *)
Environment ==
    \/ StartWorkQueue \/ HostSends \/ SocketEvent \/ PollCallback \/ BackgroundReady
    \/ SelectUrcChannel \/ UrcPut \/ UrcPutTo \/ UrcCheck \/ UrcNotify \/ IdleTimer
    \/ UNCHANGED vars

(* The thread alone moves itself, takes the lock and sends. *)
LEMMA EnvironmentFrame ==
    Environment => UNCHANGED <<pc, after, ret, dataMode, at_cmd_len, executing_lock,
                               background, out>>
BY DEF Environment, SelectUrcChannel, StartWorkQueue, HostSends, SocketEvent, PollCallback,
       BackgroundReady, UrcPut, UrcPutTo, UrcCheck, UrcNotify, IdleTimer, vars,
       queueVars, cmdVars, urcVars, sockVars, sendVars, envVars

(* A step is the environment's or the thread's. *)
LEMMA NextSplit == [Next]_vars => Environment \/ Read \/ Work \/ Poll
BY DEF Next, UrcSender, Thread, Environment

(* Every step keeps the lock's owners. *)
LEMMA LockStep ==
    ControlInv /\ [Next]_vars => LockInv' /\ executing_lock' \in 0..3
<1> SUFFICES ASSUME ControlInv, [Next]_vars PROVE LockInv' /\ executing_lock' \in 0..3
  OBVIOUS
<1> USE DEF queueVars, cmdVars, urcVars, sockVars, sendVars, envVars, Held,
            Flushing, Receiving, Reading
<1>1. LockInv /\ background \in BOOLEAN /\ dataMode \in BOOLEAN /\ executing_lock \in 0..3
  BY DEF ControlInv, TypeCommand
<1>2. SUFFICES LockInv'
  <2>1. executing_lock' = Held(pc') + (IF background' THEN 1 ELSE 0)
    BY <1>2 DEF LockInv
  <2> QED BY <1>2, <2>1
<1>3. CASE Environment
  BY <1>1, <1>3, EnvironmentFrame DEF LockInv
<1>4. CASE Read
  <2>1. CASE RxStart
    BY <1>1, <2>1 DEF RxStart, LockInv, Dispatch
  <2>2. CASE RxEnd
    BY <1>1, <2>2 DEF RxEnd, LockInv
  <2>3. CASE RxChar
    BY <1>1, <2>3 DEF RxChar, LockInv
  <2>4. CASE RxCommand
    BY <1>1, <2>4 DEF RxCommand, LockInv
  <2>5. CASE RxInvalid
    BY <1>1, <2>5 DEF RxInvalid, LockInv
  <2>6. CASE rsp_send
    BY <1>1, <2>6 DEF rsp_send, LockInv, Sending, is_idle
  <2>7. CASE RefuseSend
    BY <1>1, <2>7 DEF RefuseSend, LockInv
  <2>8. CASE CommandAnswered
    BY <1>1, <2>8 DEF CommandAnswered, LockInv
  <2>9. CASE CommandContinues
    BY <1>1, <2>9 DEF CommandContinues, LockInv
  <2>10. CASE CommandFinish
    BY <1>1, <2>10 DEF CommandFinish, LockInv
  <2>11. CASE CommandDone
    <3>1. background
      BY <2>11, TailGood DEF CommandDone, Dispatch, ControlInv, QueueInv, TypeCommand
    <3>2. pc = "none" /\ pc' = "none" /\ background' = FALSE
          /\ executing_lock' = executing_lock - 1
          /\ UNCHANGED <<after, ret, dataMode>>
      BY <2>11 DEF CommandDone, Dispatch, cmd_done
    <3> QED BY <1>1, <3>1, <3>2 DEF LockInv
  <2>12. CASE RxData
    BY <1>1, <2>12 DEF RxData, LockInv
  <2>13. CASE ExitDataMode
    BY <1>1, <2>13 DEF ExitDataMode, LockInv
  <2>14. CASE XDataMode
    BY <1>1, <2>14 DEF XDataMode, LockInv
  <2> QED BY <1>4, <2>1, <2>2, <2>3, <2>4, <2>5, <2>6, <2>7, <2>8, <2>9, <2>10,
                   <2>11, <2>12, <2>13, <2>14 DEF Read
<1>5. CASE Work
  <2>1. CASE HostStart
    BY <1>1, <2>1 DEF HostStart, LockInv, Dispatch
  <2>2. CASE HostMessage
    BY <1>1, <2>2 DEF HostMessage, LockInv, is_idle
  <2>3. CASE HostEnd
    BY <1>1, <2>3 DEF HostEnd, LockInv
  <2>4. CASE FlushClaim
    BY <1>1, <2>4 DEF FlushClaim, LockInv
  <2>5. CASE FlushSend
    BY <1>1, <2>5 DEF FlushSend, LockInv
  <2>6. CASE FlushFinish
    BY <1>1, <2>6 DEF FlushFinish, LockInv
  <2>7. CASE FlushList
    BY <1>1, <2>7 DEF FlushList, LockInv
  <2>8. CASE IdleWorks
    BY <1>1, <2>8 DEF IdleWorks, LockInv, is_idle
  <2> QED BY <1>5, <2>1, <2>2, <2>3, <2>4, <2>5, <2>6, <2>7, <2>8 DEF Work
<1>6. CASE Poll
  <2>1. CASE PollStart
    BY <1>1, <2>1 DEF PollStart, LockInv, Dispatch
  <2>2. CASE PollWork
    BY <1>1, <2>2 DEF PollWork, LockInv, is_idle
  <2>3. CASE PollQueue
    BY <1>1, <2>3 DEF PollQueue, LockInv
  <2>4. CASE Lock
    BY <1>1, <2>4 DEF Lock, LockInv, is_idle
  <2>5. CASE Locked
    BY <1>1, <2>5 DEF Locked, LockInv
  <2>6. CASE RecvStart
    BY <1>1, <2>6 DEF RecvStart, LockInv
  <2>7. CASE RecvHeader
    BY <1>1, <2>7 DEF RecvHeader, LockInv
  <2>8. CASE RecvData
    BY <1>1, <2>8 DEF RecvData, LockInv, cmd_done
  <2>9. CASE RecvEnd
    BY <1>1, <2>9 DEF RecvEnd, LockInv, cmd_done
  <2>10. CASE RecvFails
    BY <1>1, <2>10 DEF RecvFails, LockInv, cmd_done
  <2> QED BY <1>6, <2>1, <2>2, <2>3, <2>4, <2>5, <2>6, <2>7, <2>8, <2>9, <2>10 DEF Poll
<1> QED BY <1>3, <1>4, <1>5, <1>6, NextSplit

(* Every step keeps the types of the command reader's variables. *)
LEMMA CommandTypes == ControlInv /\ [Next]_vars => TypeCommand'
<1> SUFFICES ASSUME ControlInv, [Next]_vars PROVE TypeCommand'
  OBVIOUS
<1> USE DEF queueVars, cmdVars, urcVars, sockVars, sendVars, envVars
<1>1. TypeCommand
  BY DEF ControlInv
<1>2. executing_lock' \in 0..3
  BY LockStep
<1>3. CASE Environment
  <2>1. pipe' \in Seq({"char", "term"})
    <3>1. CASE HostSends
      <4>1. PICK t \in {"char", "term"} : pipe' = Append(pipe, t)
        BY <3>1 DEF HostSends
      <4>2. pipe \in Seq({"char", "term"})
        BY <1>1 DEF TypeCommand
      <4> QED BY <4>1, <4>2
    <3>2. CASE ~HostSends
      <4>1. pipe' = pipe
        BY <1>3, <3>2 DEF Environment, SelectUrcChannel, StartWorkQueue, SocketEvent, PollCallback,
           BackgroundReady, UrcPut, UrcPutTo, UrcCheck, UrcNotify, IdleTimer, vars
      <4> QED BY <1>1, <4>1 DEF TypeCommand
    <3> QED BY <3>1, <3>2
  <2>2. idle_timer' \in BOOLEAN
    <3>1. ASSUME NEW t \in BOOLEAN, notify_any(t) PROVE idle_timer' \in BOOLEAN
      BY <3>1 DEF notify_any
    <3>2. CASE UrcNotify
      BY <1>1, <3>1, <3>2 DEF UrcNotify, TypeCommand
    <3>3. CASE IdleTimer
      BY <3>1, <3>3 DEF IdleTimer
    <3>4. CASE ~UrcNotify /\ ~IdleTimer
      BY <1>1, <1>3, <3>4 DEF TypeCommand, Environment, SelectUrcChannel, StartWorkQueue, HostSends,
         SocketEvent, PollCallback, BackgroundReady, UrcPut, UrcPutTo, UrcCheck, vars
    <3> QED BY <3>2, <3>3, <3>4
  <2> QED BY <1>1, <1>2, <1>3, <2>1, <2>2, EnvironmentFrame DEF TypeCommand
<1>4. CASE Read
  <2>1. CASE RxStart
    BY <1>1, <1>2, <2>1 DEF RxStart, TypeCommand
  <2>2. CASE RxEnd
    BY <1>1, <1>2, <2>2 DEF RxEnd, TypeCommand
  <2>3. CASE RxChar
    BY <1>1, <1>2, <2>3 DEF RxChar, TypeCommand
  <2>4. CASE RxCommand
    BY <1>1, <1>2, <2>4 DEF RxCommand, TypeCommand
  <2>5. CASE RxInvalid
    BY <1>1, <1>2, <2>5 DEF RxInvalid, TypeCommand
  <2>6. CASE rsp_send
    BY <1>1, <1>2, <2>6 DEF rsp_send, TypeCommand
  <2>7. CASE RefuseSend
    BY <1>1, <1>2, <2>7 DEF RefuseSend, TypeCommand
  <2>8. CASE CommandAnswered
    BY <1>1, <1>2, <2>8 DEF CommandAnswered, TypeCommand
  <2>9. CASE CommandContinues
    BY <1>1, <1>2, <2>9 DEF CommandContinues, TypeCommand
  <2>10. CASE CommandFinish
    BY <1>1, <1>2, <2>10 DEF CommandFinish, TypeCommand
  <2>11. CASE CommandDone
    BY <1>1, <1>2, <2>11 DEF CommandDone, TypeCommand
  <2>12. CASE RxData
    BY <1>1, <1>2, <2>12 DEF RxData, TypeCommand
  <2>13. CASE ExitDataMode
    <3>1. pipe # <<>> /\ pipe' = Tail(pipe) /\ pipe \in Seq({"char", "term"})
      BY <1>1, <2>13 DEF ExitDataMode, TypeCommand
    <3>2. pipe' \in Seq({"char", "term"})
      BY <3>1
    <3> QED BY <1>1, <1>2, <2>13, <3>2 DEF ExitDataMode, TypeCommand
  <2>14. CASE XDataMode
    BY <1>1, <1>2, <2>14 DEF XDataMode, TypeCommand
  <2> QED BY <1>4, <2>1, <2>2, <2>3, <2>4, <2>5, <2>6, <2>7, <2>8, <2>9, <2>10,
                   <2>11, <2>12, <2>13, <2>14 DEF Read
<1>5. CASE Work
  <2>1. CASE HostStart
    BY <1>1, <1>2, <2>1 DEF HostStart, TypeCommand
  <2>2. CASE HostMessage
    BY <1>1, <1>2, <2>2 DEF HostMessage, TypeCommand
  <2>3. CASE HostEnd
    BY <1>1, <1>2, <2>3 DEF HostEnd, TypeCommand
  <2>4. CASE FlushClaim
    BY <1>1, <1>2, <2>4 DEF FlushClaim, TypeCommand
  <2>5. CASE FlushSend
    BY <1>1, <1>2, <2>5 DEF FlushSend, TypeCommand
  <2>6. CASE FlushFinish
    BY <1>1, <1>2, <2>6 DEF FlushFinish, TypeCommand
  <2>7. CASE FlushList
    BY <1>1, <1>2, <2>7 DEF FlushList, TypeCommand
  <2>8. CASE IdleWorks
    BY <1>1, <1>2, <2>8 DEF IdleWorks, TypeCommand
  <2> QED BY <1>5, <2>1, <2>2, <2>3, <2>4, <2>5, <2>6, <2>7, <2>8 DEF Work
<1>6. CASE Poll
  <2>1. CASE PollStart
    BY <1>1, <1>2, <2>1 DEF PollStart, TypeCommand
  <2>2. CASE PollWork
    BY <1>1, <1>2, <2>2 DEF PollWork, TypeCommand
  <2>3. CASE PollQueue
    BY <1>1, <1>2, <2>3 DEF PollQueue, TypeCommand
  <2>4. CASE Lock
    BY <1>1, <1>2, <2>4 DEF Lock, TypeCommand
  <2>5. CASE Locked
    BY <1>1, <1>2, <2>5 DEF Locked, TypeCommand
  <2>6. CASE RecvStart
    BY <1>1, <1>2, <2>6 DEF RecvStart, TypeCommand
  <2>7. CASE RecvHeader
    BY <1>1, <1>2, <2>7 DEF RecvHeader, TypeCommand
  <2>8. CASE RecvData
    BY <1>1, <1>2, <2>8 DEF RecvData, TypeCommand
  <2>9. CASE RecvEnd
    BY <1>1, <1>2, <2>9 DEF RecvEnd, TypeCommand
  <2>10. CASE RecvFails
    BY <1>1, <1>2, <2>10 DEF RecvFails, TypeCommand
  <2> QED BY <1>6, <2>1, <2>2, <2>3, <2>4, <2>5, <2>6, <2>7, <2>8, <2>9, <2>10 DEF Poll
<1> QED BY <1>3, <1>4, <1>5, <1>6, NextSplit

(* Every step keeps the place of the thread after a header and after data.  *)
(* It holds the lock there, so no URC is flushed in between.                *)
LEMMA BlockStep == ControlInv /\ [Next]_vars => BlockInv'
<1> SUFFICES ASSUME ControlInv, [Next]_vars PROVE BlockInv'
  OBVIOUS
<1> USE DEF queueVars, cmdVars, urcVars, sockVars, sendVars, envVars
<1>1. BlockInv /\ LockInv
  BY DEF ControlInv
<1>2. pc \in {"data", "crlf"} => ~is_idle
  BY <1>1 DEF LockInv, Held, is_idle, ControlInv, TypeCommand
<1>3. CASE Environment
  BY <1>1, <1>3, EnvironmentFrame DEF BlockInv
<1>4. CASE Read
  <2>1. CASE RxStart
    BY <1>1, <1>2, <2>1 DEF RxStart, Dispatch, BlockInv
  <2>2. CASE RxEnd
    BY <1>1, <1>2, <2>2 DEF RxEnd, BlockInv
  <2>3. CASE RxChar
    BY <1>1, <1>2, <2>3 DEF RxChar, BlockInv
  <2>4. CASE RxCommand
    BY <1>1, <1>2, <2>4 DEF RxCommand, BlockInv
  <2>5. CASE RxInvalid
    BY <1>1, <1>2, <2>5 DEF RxInvalid, BlockInv
  <2>6. CASE rsp_send
    BY <1>1, <1>2, <2>6 DEF rsp_send, Sending, BlockInv
  <2>7. CASE RefuseSend
    BY <1>1, <1>2, <2>7 DEF RefuseSend, BlockInv
  <2>8. CASE CommandAnswered
    BY <1>1, <1>2, <2>8 DEF CommandAnswered, BlockInv
  <2>9. CASE CommandContinues
    BY <1>1, <1>2, <2>9 DEF CommandContinues, BlockInv
  <2>10. CASE CommandFinish
    BY <1>1, <1>2, <2>10 DEF CommandFinish, BlockInv
  <2>11. CASE CommandDone
    BY <1>1, <1>2, <2>11 DEF CommandDone, cmd_done, Dispatch, BlockInv
  <2>12. CASE RxData
    BY <1>1, <1>2, <2>12 DEF RxData, BlockInv
  <2>13. CASE ExitDataMode
    BY <1>1, <1>2, <2>13 DEF ExitDataMode, BlockInv
  <2>14. CASE XDataMode
    BY <1>1, <1>2, <2>14 DEF XDataMode, BlockInv
  <2> QED BY <1>4, <2>1, <2>2, <2>3, <2>4, <2>5, <2>6, <2>7, <2>8, <2>9, <2>10,
                   <2>11, <2>12, <2>13, <2>14 DEF Read
<1>5. CASE Work
  <2>1. CASE HostStart
    BY <1>1, <1>2, <2>1 DEF HostStart, Dispatch, BlockInv
  <2>2. CASE HostMessage
    BY <1>1, <1>2, <2>2 DEF HostMessage, BlockInv
  <2>3. CASE HostEnd
    BY <1>1, <1>2, <2>3 DEF HostEnd, BlockInv
  <2>4. CASE FlushClaim
    BY <1>1, <1>2, <2>4 DEF FlushClaim, BlockInv
  <2>5. CASE FlushSend
    BY <1>1, <1>2, <2>5 DEF FlushSend, BlockInv
  <2>6. CASE FlushFinish
    BY <1>1, <1>2, <2>6 DEF FlushFinish, BlockInv
  <2>7. CASE FlushList
    BY <1>1, <1>2, <2>7 DEF FlushList, BlockInv
  <2>8. CASE IdleWorks
    BY <1>1, <1>2, <2>8 DEF IdleWorks, BlockInv
  <2> QED BY <1>5, <2>1, <2>2, <2>3, <2>4, <2>5, <2>6, <2>7, <2>8 DEF Work
<1>6. CASE Poll
  <2>1. CASE PollStart
    BY <1>1, <1>2, <2>1 DEF PollStart, Dispatch, BlockInv
  <2>2. CASE PollWork
    BY <1>1, <1>2, <2>2 DEF PollWork, BlockInv
  <2>3. CASE PollQueue
    BY <1>1, <1>2, <2>3 DEF PollQueue, BlockInv
  <2>4. CASE Lock
    BY <1>1, <1>2, <2>4 DEF Lock, BlockInv
  <2>5. CASE Locked
    BY <1>1, <1>2, <2>5 DEF Locked, BlockInv
  <2>6. CASE RecvStart
    BY <1>1, <1>2, <2>6 DEF RecvStart, BlockInv
  <2>7. CASE RecvHeader
    BY <1>1, <1>2, <2>7 DEF RecvHeader, BlockInv
  <2>8. CASE RecvData
    BY <1>1, <1>2, <2>8 DEF RecvData, cmd_done, BlockInv
  <2>9. CASE RecvEnd
    BY <1>1, <1>2, <2>9 DEF RecvEnd, cmd_done, BlockInv
  <2>10. CASE RecvFails
    BY <1>1, <1>2, <2>10 DEF RecvFails, cmd_done, BlockInv
  <2> QED BY <1>6, <2>1, <2>2, <2>3, <2>4, <2>5, <2>6, <2>7, <2>8, <2>9, <2>10 DEF Poll
<1> QED BY <1>3, <1>4, <1>5, <1>6, NextSplit

-----------------------------------------------------------------------------
(* Commands, without pipelining. *)

(* Reading and adding a token keep the end of a command last. *)
LEMMA TailTerm ==
    ASSUME NEW S, NEW p \in Seq(S), p # <<>>, LastTerm(p)
    PROVE  LastTerm(Tail(p)) /\ (Head(p) = "term" => Tail(p) = <<>>)
<1> DEFINE r == Tail(p)
<1>1. /\ Len(p) \in Nat /\ Len(p) > 0 /\ r \in Seq(S) /\ Len(r) = Len(p) - 1
      /\ \A i \in 1..Len(r) : r[i] = p[i + 1]
      /\ Head(p) = p[1]
  OBVIOUS
<1> HIDE DEF r
<1>2. Len(r) = 0 => r = <<>>
  BY <1>1
<1>3. \A i \in 1..Len(r) : i + 1 \in 1..Len(p)
  BY <1>1
<1>4. LastTerm(r)
  <2> SUFFICES ASSUME NEW i \in 1..Len(r), r[i] = "term" PROVE i = Len(r)
    BY DEF LastTerm
  <2>1. i + 1 = Len(p)
    BY <1>1, <1>3 DEF LastTerm
  <2> QED BY <1>1, <2>1
<1>5. Head(p) = "term" => r = <<>>
  <2> HAVE Head(p) = "term"
  <2>1. 1 \in 1..Len(p) /\ p[1] = "term"
    BY <1>1
  <2>2. 1 = Len(p)
    BY <2>1 DEF LastTerm
  <2> QED BY <1>1, <1>2, <2>2
<1> QED BY <1>4, <1>5 DEF r

(* A token that is added to a batch without an end of a command. *)
LEMMA AppendTerm ==
    ASSUME NEW S, NEW p \in Seq(S), "term" \notin Range(p), NEW t \in S
    PROVE  LastTerm(Append(p, t))
<1> DEFINE r == Append(p, t)
<1>1. /\ Len(p) \in Nat /\ Len(r) = Len(p) + 1
      /\ \A i \in 1..Len(p) : r[i] = p[i]
  OBVIOUS
<1>2. \A i \in 1..Len(p) : p[i] # "term"
  BY DEF Range
<1> HIDE DEF r
<1>3. \A i \in 1..Len(r) : i \in 1..Len(p) \/ i = Len(r)
  BY <1>1
<1>4. LastTerm(r)
  BY <1>1, <1>2, <1>3 DEF LastTerm
<1> QED BY <1>4 DEF r

(* Every step keeps the end of a command last. *)
LEMMA PipeStep ==
    ~Pipelining /\ ControlInv /\ LastTerm(pipe) /\ [Next]_vars => LastTerm(pipe')
<1> SUFFICES ASSUME ~Pipelining, ControlInv, LastTerm(pipe), [Next]_vars
             PROVE  LastTerm(pipe')
  OBVIOUS
<1> USE DEF queueVars, cmdVars, urcVars, sockVars, sendVars, envVars
<1>1. pipe \in Seq({"char", "term"})
  BY DEF ControlInv, TypeCommand
<1>2. CASE HostSends
  <2>1. PICK t \in {"char", "term"} : pipe' = Append(pipe, t)
    BY <1>2 DEF HostSends
  <2>2. "term" \notin Range(pipe)
    BY <1>2 DEF HostSends
  <2> QED BY <1>1, <2>1, <2>2, AppendTerm
<1>3. CASE pipe # <<>> /\ pipe' = Tail(pipe)
  BY <1>1, <1>3, TailTerm
<1>4. CASE pipe' = pipe
  BY <1>4
<1>5. CASE Environment
  <2>1. CASE ~HostSends
    BY <1>4, <1>5, <2>1
    DEF Environment, SelectUrcChannel, StartWorkQueue, SocketEvent, PollCallback, BackgroundReady,
        UrcPut, UrcPutTo, UrcCheck, UrcNotify, IdleTimer, vars
  <2> QED BY <1>2, <2>1
<1>6. CASE Read
  <2>1. CASE RxStart
    BY <1>3, <1>4, <2>1 DEF RxStart
  <2>2. CASE RxEnd
    BY <1>3, <1>4, <2>2 DEF RxEnd
  <2>3. CASE RxChar
    BY <1>3, <1>4, <2>3 DEF RxChar
  <2>4. CASE RxCommand
    BY <1>3, <1>4, <2>4 DEF RxCommand
  <2>5. CASE RxInvalid
    BY <1>3, <1>4, <2>5 DEF RxInvalid
  <2>6. CASE rsp_send
    BY <1>3, <1>4, <2>6 DEF rsp_send
  <2>7. CASE RefuseSend
    BY <1>3, <1>4, <2>7 DEF RefuseSend
  <2>8. CASE CommandAnswered
    BY <1>3, <1>4, <2>8 DEF CommandAnswered
  <2>9. CASE CommandContinues
    BY <1>3, <1>4, <2>9 DEF CommandContinues
  <2>10. CASE CommandFinish
    BY <1>3, <1>4, <2>10 DEF CommandFinish
  <2>11. CASE CommandDone
    BY <1>3, <1>4, <2>11 DEF CommandDone
  <2>12. CASE RxData
    BY <1>3, <1>4, <2>12 DEF RxData
  <2>13. CASE ExitDataMode
    BY <1>3, <1>4, <2>13 DEF ExitDataMode
  <2>14. CASE XDataMode
    BY <1>3, <1>4, <2>14 DEF XDataMode
  <2> QED BY <1>6, <2>1, <2>2, <2>3, <2>4, <2>5, <2>6, <2>7, <2>8, <2>9, <2>10,
                   <2>11, <2>12, <2>13, <2>14 DEF Read
<1>7. CASE Work
  <2>1. CASE HostStart
    BY <1>3, <1>4, <2>1 DEF HostStart
  <2>2. CASE HostMessage
    BY <1>3, <1>4, <2>2 DEF HostMessage
  <2>3. CASE HostEnd
    BY <1>3, <1>4, <2>3 DEF HostEnd
  <2>4. CASE FlushClaim
    BY <1>3, <1>4, <2>4 DEF FlushClaim
  <2>5. CASE FlushSend
    BY <1>3, <1>4, <2>5 DEF FlushSend
  <2>6. CASE FlushFinish
    BY <1>3, <1>4, <2>6 DEF FlushFinish
  <2>7. CASE FlushList
    BY <1>3, <1>4, <2>7 DEF FlushList
  <2>8. CASE IdleWorks
    BY <1>3, <1>4, <2>8 DEF IdleWorks
  <2> QED BY <1>7, <2>1, <2>2, <2>3, <2>4, <2>5, <2>6, <2>7, <2>8 DEF Work
<1>8. CASE Poll
  <2>1. CASE PollStart
    BY <1>3, <1>4, <2>1 DEF PollStart
  <2>2. CASE PollWork
    BY <1>3, <1>4, <2>2 DEF PollWork
  <2>3. CASE PollQueue
    BY <1>3, <1>4, <2>3 DEF PollQueue
  <2>4. CASE Lock
    BY <1>3, <1>4, <2>4 DEF Lock
  <2>5. CASE Locked
    BY <1>3, <1>4, <2>5 DEF Locked
  <2>6. CASE RecvStart
    BY <1>3, <1>4, <2>6 DEF RecvStart
  <2>7. CASE RecvHeader
    BY <1>3, <1>4, <2>7 DEF RecvHeader
  <2>8. CASE RecvData
    BY <1>3, <1>4, <2>8 DEF RecvData
  <2>9. CASE RecvEnd
    BY <1>3, <1>4, <2>9 DEF RecvEnd
  <2>10. CASE RecvFails
    BY <1>3, <1>4, <2>10 DEF RecvFails
  <2> QED BY <1>8, <2>1, <2>2, <2>3, <2>4, <2>5, <2>6, <2>7, <2>8, <2>9, <2>10 DEF Poll
<1> QED BY <1>5, <1>6, <1>7, <1>8, NextSplit

(* Every step keeps a command undisturbed. *)
LEMMA CommandStep ==
    ~Pipelining /\ ControlInv /\ LastTerm(pipe) /\ CommandInv /\ [Next]_vars => CommandInv'
<1> SUFFICES ASSUME ~Pipelining, ControlInv, LastTerm(pipe), CommandInv, [Next]_vars
             PROVE  CommandInv'
  OBVIOUS
<1> USE DEF queueVars, cmdVars, urcVars, sockVars, sendVars, envVars, Reading
<1>1. /\ pipe \in Seq({"char", "term"})
      /\ background \in BOOLEAN /\ dataMode \in BOOLEAN /\ CommandInv
  BY DEF ControlInv, TypeCommand
<1>2. pipe # <<>> /\ Head(pipe) = "term" => Tail(pipe) = <<>>
  BY <1>1, TailTerm
<1>3. /\ executing_lock > 0 <=> background \/ Held(pc) > 0
      /\ pc \in Flushing => ~background /\ ~dataMode
                           /\ after \in {"error", "xdatamode", "works", "locked"}
      /\ pc \in Receiving => ~background /\ ~dataMode
      /\ pc \in Reading => ~dataMode
      /\ ret \in {"none", "works"}
  BY <1>1 DEF ControlInv, LockInv, Held, Flushing, Receiving
<1>4. is_idle => ~background /\ ~dataMode
  BY <1>1 DEF ControlInv, LockInv, Held, is_idle
<1>5. CASE Environment
  <2>1. CASE HostSends
    BY <1>1, <1>5, <2>1, EnvironmentFrame DEF HostSends, CommandInv
  <2>2. CASE ~HostSends
    <3>1. pipe' = pipe
      BY <1>5, <2>2 DEF Environment, SelectUrcChannel, StartWorkQueue, SocketEvent, PollCallback,
         BackgroundReady, UrcPut, UrcPutTo, UrcCheck, UrcNotify, IdleTimer, vars
    <3> QED BY <1>1, <1>5, <3>1, EnvironmentFrame DEF CommandInv
  <2> QED BY <2>1, <2>2
<1>6. CASE Read
  <2>1. CASE RxStart
    BY <1>1, <1>2, <1>3, <1>4, <2>1 DEF RxStart, Dispatch, Held, CommandInv
  <2>2. CASE RxEnd
    BY <1>1, <1>2, <1>3, <1>4, <2>2 DEF RxEnd, CommandInv
  <2>3. CASE RxChar
    BY <1>1, <1>2, <1>3, <1>4, <2>3 DEF RxChar, CommandInv
  <2>4. CASE RxCommand
    BY <1>1, <1>2, <1>3, <1>4, <2>4 DEF RxCommand, CommandInv
  <2>5. CASE RxInvalid
    BY <1>1, <1>2, <1>3, <1>4, <2>5 DEF RxInvalid, CommandInv
  <2>6. CASE rsp_send
    BY <1>1, <1>2, <1>3, <1>4, <2>6 DEF rsp_send, Sending, CommandInv
  <2>7. CASE RefuseSend
    BY <1>1, <1>2, <1>3, <1>4, <2>7 DEF RefuseSend, CommandInv
  <2>8. CASE CommandAnswered
    BY <1>1, <1>2, <1>3, <1>4, <2>8 DEF CommandAnswered, CommandInv
  <2>9. CASE CommandContinues
    BY <1>1, <1>2, <1>3, <1>4, <2>9 DEF CommandContinues, CommandInv
  <2>10. CASE CommandFinish
    BY <1>1, <1>2, <1>3, <1>4, <2>10 DEF CommandFinish, CommandInv
  <2>11. CASE CommandDone
    BY <1>1, <1>2, <1>3, <1>4, <2>11 DEF CommandDone, cmd_done, Dispatch, CommandInv
  <2>12. CASE RxData
    BY <1>1, <1>2, <1>3, <1>4, <2>12 DEF RxData, CommandInv
  <2>13. CASE ExitDataMode
    BY <1>1, <1>2, <1>3, <1>4, <2>13 DEF ExitDataMode, CommandInv
  <2>14. CASE XDataMode
    BY <1>1, <1>2, <1>3, <1>4, <2>14 DEF XDataMode, CommandInv
  <2> QED BY <1>6, <2>1, <2>2, <2>3, <2>4, <2>5, <2>6, <2>7, <2>8, <2>9, <2>10,
                   <2>11, <2>12, <2>13, <2>14 DEF Read
<1>7. CASE Work
  <2>1. CASE HostStart
    BY <1>1, <1>2, <1>3, <1>4, <2>1 DEF HostStart, Dispatch, CommandInv
  <2>2. CASE HostMessage
    BY <1>1, <1>2, <1>3, <1>4, <2>2 DEF HostMessage, CommandInv
  <2>3. CASE HostEnd
    BY <1>1, <1>2, <1>3, <1>4, <2>3 DEF HostEnd, CommandInv
  <2>4. CASE FlushClaim
    BY <1>1, <1>2, <1>3, <1>4, <2>4 DEF FlushClaim, Flushing, CommandInv
  <2>5. CASE FlushSend
    BY <1>1, <1>2, <1>3, <1>4, <2>5 DEF FlushSend, Flushing, CommandInv
  <2>6. CASE FlushFinish
    BY <1>1, <1>2, <1>3, <1>4, <2>6 DEF FlushFinish, Flushing, CommandInv
  <2>7. CASE FlushList
    BY <1>1, <1>2, <1>3, <1>4, <2>7 DEF FlushList, Flushing, CommandInv
  <2>8. CASE IdleWorks
    BY <1>1, <1>2, <1>3, <1>4, <2>8 DEF IdleWorks, CommandInv
  <2> QED BY <1>7, <2>1, <2>2, <2>3, <2>4, <2>5, <2>6, <2>7, <2>8 DEF Work
<1>8. CASE Poll
  <2>1. CASE PollStart
    BY <1>1, <1>2, <1>3, <1>4, <2>1 DEF PollStart, Dispatch, CommandInv
  <2>2. CASE PollWork
    BY <1>1, <1>2, <1>3, <1>4, <2>2 DEF PollWork, CommandInv
  <2>3. CASE PollQueue
    BY <1>1, <1>2, <1>3, <1>4, <2>3 DEF PollQueue, CommandInv
  <2>4. CASE Lock
    BY <1>1, <1>2, <1>3, <1>4, <2>4 DEF Lock, Receiving, CommandInv
  <2>5. CASE Locked
    BY <1>1, <1>2, <1>3, <1>4, <2>5 DEF Locked, Receiving, CommandInv
  <2>6. CASE RecvStart
    BY <1>1, <1>2, <1>3, <1>4, <2>6 DEF RecvStart, Receiving, CommandInv
  <2>7. CASE RecvHeader
    BY <1>1, <1>2, <1>3, <1>4, <2>7 DEF RecvHeader, Receiving, CommandInv
  <2>8. CASE RecvData
    BY <1>1, <1>2, <1>3, <1>4, <2>8 DEF RecvData, cmd_done, Receiving, CommandInv
  <2>9. CASE RecvEnd
    BY <1>1, <1>2, <1>3, <1>4, <2>9 DEF RecvEnd, cmd_done, Receiving, CommandInv
  <2>10. CASE RecvFails
    BY <1>1, <1>2, <1>3, <1>4, <2>10 DEF RecvFails, cmd_done, Receiving, CommandInv
  <2> QED BY <1>8, <2>1, <2>2, <2>3, <2>4, <2>5, <2>6, <2>7, <2>8, <2>9, <2>10 DEF Poll
<1> QED BY <1>5, <1>6, <1>7, <1>8, NextSplit

-----------------------------------------------------------------------------
(* The theorems about control. *)

(* The control invariant holds initially. *)
LEMMA InitControl == Init => ControlInv /\ CommandInv /\ LastTerm(pipe)
<1> SUFFICES ASSUME Init PROVE ControlInv /\ CommandInv /\ LastTerm(pipe)
  OBVIOUS
<1>1. GoodQueue(wq, background) /\ Len(wq) = 0 /\ LastTerm(pipe)
  BY DEF Init, GoodQueue, LastTerm
<1>2. TypeQueue
  <2>1. wq \in Seq({"rx", "host", "poll", "done"}) /\ Len(wq) <= 4
    BY <1>1 DEF GoodQueue, Items
  <2>2. started \in BOOLEAN
    BY Zenon DEF Init
  <2>3. msgs = 0
    BY DEF Init
  <2>4. msgs \in 0..MsgqLen
    BY <2>3, AtHostAssumption
  <2> QED BY <2>1, <2>2, <2>4 DEF TypeQueue
<1>3. TypeCommand
  <2>1. <<>> \in Seq({"char", "term"})
    OBVIOUS
  <2>2. pipe = <<>> /\ at_cmd_len = 0 /\ executing_lock = 0
    BY DEF Init
  <2>3. dataMode \in BOOLEAN /\ idle_timer \in BOOLEAN /\ background \in BOOLEAN
    BY Zenon DEF Init
  <2> QED BY <2>1, <2>2, <2>3 DEF TypeCommand
<1>4. LockInv /\ BlockInv /\ CommandInv
  BY DEF Init, LockInv, BlockInv, CommandInv, Held, Flushing, Receiving, Reading
<1> QED BY <1>1, <1>2, <1>3, <1>4 DEF ControlInv, QueueInv

(* The control invariant is inductive, with or without pipelining: every    *)
(* hold of executing_lock has its owner.                                    *)
THEOREM ControlInvariant == Spec => []ControlInv
<1>1. ControlInv /\ [Next]_vars => ControlInv'
  BY QueueStep, CommandTypes, LockStep, BlockStep DEF ControlInv
<1> QED BY <1>1, InitControl, PTL DEF Spec

(* A block of received data is sent in one piece, because the lock is held  *)
(* from before its header to after its line end and URCs are flushed only   *)
(* from an idle context.                                                    *)
THEOREM BlocksCorrect == Spec => BlocksWhole
<1>1. ControlInv /\ [Next]_vars =>
        [/\ out = "header" => out' \in {"header", "data"}
         /\ out = "data" => out' \in {"data", "crlf"}]_vars
  <2> SUFFICES ASSUME ControlInv, [Next]_vars
               PROVE  /\ out = "header" => out' \in {"header", "data"}
                      /\ out = "data" => out' \in {"data", "crlf"}
    OBVIOUS
  <2> USE DEF queueVars, cmdVars, urcVars, sockVars, sendVars, envVars
  <2>1. BlockInv
    BY DEF ControlInv
  <2>2. CASE Environment
    BY <2>2, EnvironmentFrame
  <2>3. CASE Read
    BY <2>1, <2>3 DEF BlockInv, Read, RxStart, RxEnd, RxChar, RxCommand, RxInvalid,
       rsp_send, RefuseSend, CommandAnswered, CommandContinues, CommandFinish,
       CommandDone, RxData, ExitDataMode, XDataMode, Dispatch
  <2>4. CASE Work
    BY <2>1, <2>4 DEF BlockInv, Work, HostStart, HostMessage, HostEnd, FlushClaim,
       FlushSend, FlushFinish, FlushList, IdleWorks, Dispatch
  <2>5. CASE Poll
    BY <2>1, <2>5 DEF BlockInv, Poll, PollStart, PollWork, PollQueue, Lock, Locked,
       RecvStart, RecvHeader, RecvData, RecvEnd, RecvFails, Dispatch
  <2> QED BY <2>2, <2>3, <2>4, <2>5, NextSplit
<1> QED BY <1>1, ControlInvariant, PTL DEF Spec, BlocksWhole

(* Without pipelining, a command is undisturbed to its response, also in    *)
(* the background, and data mode to its end.  (With pipelining it is not:   *)
(* MCAtHostPipelining.)                                                     *)
THEOREM CommandsCorrect ==
    ASSUME ~Pipelining
    PROVE  Spec => CommandsUndisturbed
<1> DEFINE Inv == ControlInv /\ CommandInv /\ LastTerm(pipe)
<1>1. Inv /\ [Next]_vars => Inv'
  <2> SUFFICES ASSUME Inv, [Next]_vars PROVE Inv'
    OBVIOUS
  <2>1. ControlInv'
    BY QueueStep, CommandTypes, LockStep, BlockStep DEF ControlInv
  <2>2. CommandInv'
    BY CommandStep
  <2>3. LastTerm(pipe')
    BY PipeStep
  <2> QED BY <2>1, <2>2, <2>3
<1>2. Inv /\ [Next]_vars =>
        [/\ (pc # "exec" /\ pc' = "exec") => ~background
         /\ out = "begin" => out' \in {"begin", "rsp", "connect", "silent"}
         /\ out = "connect" => out' \in {"connect", "exit"}]_vars
  <2> SUFFICES ASSUME ControlInv, CommandInv, [Next]_vars
               PROVE  /\ (pc # "exec" /\ pc' = "exec") => ~background
                      /\ out = "begin" => out' \in {"begin", "rsp", "connect", "silent"}
                      /\ out = "connect" => out' \in {"connect", "exit"}
    OBVIOUS
  <2> USE DEF queueVars, cmdVars, urcVars, sockVars, sendVars, envVars
  <2>1. /\ CommandInv /\ background \in BOOLEAN /\ dataMode \in BOOLEAN
        /\ pc \in Flushing => ~background /\ ~dataMode
        /\ pc \in Flushing => after \in {"error", "xdatamode", "works", "locked"}
        /\ pc \in Receiving => ~background /\ ~dataMode
        /\ pc \in Reading => ~dataMode
        /\ ret \in {"none", "works"}
    BY DEF ControlInv, LockInv, TypeCommand, Held, Flushing, Receiving
  <2>2. CASE Environment
    BY <2>2, EnvironmentFrame
  <2>3. CASE Read
    <3>1. CASE CommandDone
      <4>1. background
        BY <3>1, TailGood DEF CommandDone, Dispatch, ControlInv, QueueInv, TypeCommand
      <4> QED BY <2>1, <3>1, <4>1 DEF CommandInv, CommandDone, Dispatch
    <3>2. CASE ~CommandDone
      BY <2>1, <2>3, <3>2 DEF CommandInv, Read, RxStart, RxEnd, RxChar, RxCommand, RxInvalid,
         rsp_send, Sending, RefuseSend, CommandAnswered, CommandContinues, CommandFinish,
         RxData, ExitDataMode, XDataMode, Dispatch, Reading
    <3> QED BY <3>1, <3>2
  <2>4. CASE Work
    BY <2>1, <2>4 DEF CommandInv, Work, HostStart, HostMessage, HostEnd, FlushClaim,
       FlushSend, FlushFinish, FlushList, IdleWorks, Dispatch, Flushing
  <2>5. CASE Poll
    BY <2>1, <2>5 DEF CommandInv, Poll, PollStart, PollWork, PollQueue, Lock, Locked,
       RecvStart, RecvHeader, RecvData, RecvEnd, RecvFails, Dispatch, Receiving
  <2> QED BY <2>2, <2>3, <2>4, <2>5, NextSplit
<1>3. Init => Inv
  BY InitControl
<1> QED BY <1>1, <1>2, <1>3, PTL DEF Spec, CommandsUndisturbed

-----------------------------------------------------------------------------
(* Sequences of URCs. *)

(* What a sequence holds after one was put ... *)
LEMMA ElemsAppend ==
    ASSUME NEW S, NEW q \in Seq(S), NEW x \in S, x # 0
    PROVE  Elems(Append(q, x)) = Elems(q) \cup {x}
<1> DEFINE r == Append(q, x)
<1>1. /\ Len(q) \in Nat /\ Len(r) = Len(q) + 1 /\ r[Len(q) + 1] = x
      /\ \A i \in 1..Len(q) : r[i] = q[i]
  OBVIOUS
<1> HIDE DEF r
<1>2. /\ \A i \in 1..Len(r) : i \in 1..Len(q) \/ i = Len(q) + 1
      /\ \A i \in 1..Len(q) : i \in 1..Len(r)
      /\ Len(q) + 1 \in 1..Len(r)
  BY <1>1
<1>3. Elems(r) = Elems(q) \cup {x}
  BY <1>1, <1>2 DEF Elems
<1> QED BY <1>3 DEF r

(* ... and one was taken: all others are later. *)
LEMMA ElemsTail ==
    ASSUME NEW S, NEW q \in Seq(S), q # <<>>
    PROVE  /\ Tail(q) \in Seq(S) /\ Head(q) \in S
           /\ Elems(q) = Elems(Tail(q)) \cup ({Head(q)} \ {0})
           /\ Increasing(q) => /\ Increasing(Tail(q))
                               /\ \A n \in Elems(Tail(q)) : Head(q) = 0 \/ Head(q) < n
<1> DEFINE r == Tail(q)
<1>1. /\ Len(q) \in Nat /\ Len(q) > 0 /\ r \in Seq(S) /\ Len(r) = Len(q) - 1
      /\ \A i \in 1..Len(r) : r[i] = q[i + 1]
      /\ Head(q) = q[1] /\ q[1] \in S
  OBVIOUS
<1> HIDE DEF r
<1>2. /\ \A i \in 1..Len(r) : i \in Nat /\ i + 1 \in 1..Len(q) /\ 1 < i + 1
      /\ \A i \in 1..Len(q) : i = 1 \/ (i - 1 \in 1..Len(r) /\ (i - 1) + 1 = i)
      /\ 1 \in 1..Len(q)
  BY <1>1
<1>3. Elems(q) = Elems(r) \cup ({Head(q)} \ {0})
  <2>1. ASSUME NEW x \in Elems(q) PROVE x \in Elems(r) \cup ({Head(q)} \ {0})
    <3>1. PICK i \in 1..Len(q) : x = q[i] /\ x # 0
      BY DEF Elems
    <3>2. CASE i = 1
      BY <1>1, <3>1, <3>2
    <3>3. CASE i # 1
      <4>1. i - 1 \in 1..Len(r) /\ r[i - 1] = q[i]
        BY <1>1, <1>2, <3>3
      <4> QED BY <3>1, <4>1 DEF Elems
    <3> QED BY <3>2, <3>3
  <2>2. ASSUME NEW x \in Elems(r) PROVE x \in Elems(q)
    BY <1>1, <1>2 DEF Elems
  <2>3. ASSUME NEW x \in {Head(q)} \ {0} PROVE x \in Elems(q)
    BY <1>1, <1>2 DEF Elems
  <2> QED BY <2>1, <2>2, <2>3
<1>4. Increasing(q) => Increasing(r)
  <2> SUFFICES ASSUME Increasing(q), NEW i \in 1..Len(r), NEW j \in 1..Len(r),
                      i < j, r[i] # 0, r[j] # 0
               PROVE  r[i] < r[j]
    BY DEF Increasing
  <2>1. i + 1 < j + 1 /\ i + 1 \in 1..Len(q) /\ j + 1 \in 1..Len(q)
    BY <1>2
  <2> QED BY <1>1, <2>1 DEF Increasing
<1>5. Increasing(q) => \A n \in Elems(r) : Head(q) = 0 \/ Head(q) < n
  <2> SUFFICES ASSUME Increasing(q), NEW n \in Elems(r), Head(q) # 0 PROVE Head(q) < n
    OBVIOUS
  <2>1. PICK i \in 1..Len(r) : n = r[i] /\ n # 0
    BY DEF Elems
  <2>2. 1 < i + 1 /\ i + 1 \in 1..Len(q) /\ q[i + 1] = n
    BY <1>1, <1>2, <2>1
  <2> QED BY <1>1, <1>2, <2>1, <2>2 DEF Increasing
<1> QED BY <1>1, <1>3, <1>4, <1>5 DEF r

(* Putting one to urc_buf. *)
LEMMA PutNumbered ==
    ASSUME NEW M \in Nat, NEW b \in Seq(1..M), NEW n \in Nat, Numbered(b, n),
           NEW k \in 0..Len(b)
    PROVE  /\ Numbered(Append(b, n + 1), n + 1)
           /\ Rest(Append(b, n + 1), k) = Rest(b, k) \cup {n + 1}
           /\ Len(b) <= n
<1> DEFINE x == n + 1
           r == Append(b, x)
<1>1. /\ Len(b) \in Nat /\ Len(r) = Len(b) + 1 /\ r[Len(b) + 1] = x
      /\ \A i \in 1..Len(b) : r[i] = b[i] /\ b[i] \in Nat
  OBVIOUS
<1>2. Len(b) <= n
  <2>1. CASE Len(b) = 0
    BY <2>1
  <2>2. CASE Len(b) # 0
    <3>1. Len(b) \in 1..Len(b)
      BY <1>1, <2>2
    <3>2. Len(b) <= b[Len(b)] /\ b[Len(b)] <= n /\ b[Len(b)] \in Nat
      BY <1>1, <3>1 DEF Numbered
    <3> QED BY <1>1, <3>2
  <2> QED BY <2>1, <2>2
<1>3. x \in Nat /\ x = n + 1
  OBVIOUS
<1> HIDE DEF r, x
<1>4. /\ \A i \in 1..Len(r) : i \in 1..Len(b) \/ i = Len(b) + 1
      /\ \A i \in 1..Len(b) : i \in 1..Len(r) /\ i < Len(b) + 1
      /\ Len(b) + 1 \in 1..Len(r)
  BY <1>1
<1>5. \A i \in 1..Len(r) : i <= r[i] /\ r[i] <= x
  <2> TAKE i \in 1..Len(r)
  <2>1. CASE i \in 1..Len(b)
    <3>1. i <= b[i] /\ b[i] <= n /\ r[i] = b[i] /\ b[i] \in Nat
      BY <1>1, <2>1 DEF Numbered
    <3> QED BY <1>3, <3>1
  <2>2. CASE i = Len(b) + 1
    BY <1>1, <1>2, <1>3, <2>2
  <2> QED BY <1>4, <2>1, <2>2
<1>6. \A i, j \in 1..Len(r) : i < j => r[i] < r[j]
  <2> SUFFICES ASSUME NEW i \in 1..Len(r), NEW j \in 1..Len(r), i < j PROVE r[i] < r[j]
    OBVIOUS
  <2>1. i \in 1..Len(b)
    BY <1>1, <1>4
  <2>2. CASE j \in 1..Len(b)
    BY <1>1, <2>1, <2>2 DEF Numbered
  <2>3. CASE j = Len(b) + 1
    <3>1. b[i] <= n /\ r[i] = b[i] /\ b[i] \in Nat /\ r[j] = x
      BY <1>1, <2>1, <2>3 DEF Numbered
    <3> QED BY <1>3, <3>1
  <2> QED BY <1>4, <2>2, <2>3
<1>7. Rest(r, k) = Rest(b, k) \cup {x}
  <2>1. ASSUME NEW i \in k + 1 .. Len(r)
        PROVE  i \in 1..Len(r) /\ (i \in k + 1 .. Len(b) \/ i = Len(b) + 1)
    BY <1>1
  <2>2. ASSUME NEW i \in k + 1 .. Len(b) PROVE i \in k + 1 .. Len(r) /\ i \in 1..Len(b)
    BY <1>1
  <2>3. Len(b) + 1 \in k + 1 .. Len(r)
    BY <1>1
  <2>4. ASSUME NEW y \in Rest(r, k) PROVE y \in Rest(b, k) \cup {x}
    <3>1. PICK i \in k + 1 .. Len(r) : y = r[i]
      BY DEF Rest
    <3>2. CASE i \in k + 1 .. Len(b)
      BY <1>1, <2>2, <3>1, <3>2 DEF Rest
    <3>3. CASE i = Len(b) + 1
      BY <1>1, <3>1, <3>3
    <3> QED BY <2>1, <3>2, <3>3
  <2>5. ASSUME NEW y \in Rest(b, k) PROVE y \in Rest(r, k)
    <3>1. PICK i \in k + 1 .. Len(b) : y = b[i]
      BY DEF Rest
    <3>2. i \in k + 1 .. Len(r) /\ r[i] = y
      BY <1>1, <2>2, <3>1
    <3> QED BY <3>2 DEF Rest
  <2>6. x \in Rest(r, k)
    BY <1>1, <2>3 DEF Rest
  <2> QED BY <2>4, <2>5, <2>6
<1>8. Numbered(r, x)
  BY <1>5, <1>6 DEF Numbered
<1> QED BY <1>2, <1>7, <1>8 DEF r, x

(* Memory that is overwritten while it is transmitted. *)
Overwritten(q, W) == [i \in DOMAIN q |-> IF i \in W THEN 0 ELSE q[i]]
Lost(q, W) == {q[i] : i \in W} \ {0}

(* What is lost of it was in flight, and nothing else is. *)
LEMMA Overwrite ==
    ASSUME NEW M \in Nat, NEW q \in Seq(0..M), Increasing(q), NEW W \in SUBSET DOMAIN q,
           NEW r, r = Overwritten(q, W), NEW X, X = Lost(q, W)
    PROVE  /\ r \in Seq(0..M) /\ Increasing(r)
           /\ r = <<>> => q = <<>>
           /\ q = <<>> => r = <<>> /\ X = {}
           /\ Elems(q) = Elems(r) \cup X /\ Elems(r) \cap X = {}
           /\ W = {} => Elems(r) = Elems(q) /\ X = {}
<1>1. DOMAIN q = 1..Len(q) /\ Len(q) \in Nat /\ \A i \in 1..Len(q) : q[i] \in 0..M
  OBVIOUS
<1> USE DEF Overwritten, Lost
<1>2. r \in Seq(0..M) /\ Len(r) = Len(q)
  <2>1. r = [i \in 1..Len(q) |-> IF i \in W THEN 0 ELSE q[i]]
    BY <1>1
  <2>2. \A i \in 1..Len(q) : (IF i \in W THEN 0 ELSE q[i]) \in 0..M
    BY <1>1
  <2>3. r \in [1..Len(q) -> 0..M]
    BY <2>1, <2>2
  <2> QED BY <1>1, <2>3
<1>3. \A i \in 1..Len(q) : (i \in W => r[i] = 0) /\ (i \notin W => r[i] = q[i])
  BY <1>1
<1>4. Increasing(r)
  BY <1>2, <1>3 DEF Increasing
<1>5. (r = <<>> => q = <<>>) /\ (q = <<>> => r = <<>> /\ X = {})
  <2>1. q = <<>> <=> Len(q) = 0
    BY <1>1
  <2>2. r = <<>> <=> Len(r) = 0
    BY <1>2
  <2>3. Len(q) = 0 => W = {}
    BY <1>1
  <2> QED BY <1>2, <2>1, <2>2, <2>3
<1>6. Elems(r) \subseteq Elems(q) /\ X \subseteq Elems(q)
  BY <1>1, <1>2, <1>3 DEF Elems
<1>7. Elems(q) \subseteq Elems(r) \cup X
  <2> SUFFICES ASSUME NEW y \in Elems(q) PROVE y \in Elems(r) \cup X
    OBVIOUS
  <2>1. PICK i \in 1..Len(q) : y = q[i] /\ y # 0
    BY DEF Elems
  <2>2. CASE i \in W
    BY <2>1, <2>2
  <2>3. CASE i \notin W
    <3>1. r[i] = y /\ i \in 1..Len(r)
      BY <1>2, <1>3, <2>1, <2>3
    <3> QED BY <2>1, <3>1 DEF Elems
  <2> QED BY <2>2, <2>3
<1>8. Elems(r) \cap X = {}
  <2> SUFFICES ASSUME NEW y \in Elems(r), y \in X PROVE FALSE
    OBVIOUS
  <2>1. PICK i \in 1..Len(q) : y = r[i] /\ y # 0
    BY <1>2 DEF Elems
  <2>2. PICK j \in W : y = q[j]
    OBVIOUS
  <2>3. i \notin W /\ y = q[i] /\ j \in 1..Len(q) /\ i # j
    BY <1>1, <1>3, <2>1, <2>2
  <2>4. i < j \/ j < i
    BY <2>3
  <2>5. y \in Nat
    BY <1>1, <2>3
  <2>6. q[i] = y /\ q[j] = y /\ y # 0 /\ ~(y < y)
    BY <2>1, <2>2, <2>3, <2>5
  <2>7. CASE i < j
    BY <2>3, <2>6, <2>7 DEF Increasing
  <2>8. CASE j < i
    BY <2>3, <2>6, <2>8 DEF Increasing
  <2> QED BY <2>4, <2>7, <2>8
<1>9. W = {} => X = {}
  OBVIOUS
<1> QED BY <1>2, <1>4, <1>5, <1>6, <1>7, <1>8, <1>9

(* What send_urcs claims and removes. *)
LEMMA RestFacts ==
    ASSUME NEW M \in Nat, NEW b \in Seq(1..M), NEW n \in Nat, Numbered(b, n),
           NEW k \in 0..Len(b)
    PROVE  /\ Rest(b, Len(b)) = {} /\ Rest(b, 0) = Elems(b) /\ Increasing(b)
           /\ \A i \in 1..Len(b) : i <= k \/ b[i] \in Rest(b, k)
           /\ LET r == SubSeq(b, k + 1, Len(b))
              IN  /\ r \in Seq(1..M) /\ Len(r) = Len(b) - k /\ Numbered(r, n)
                  /\ Rest(r, 0) = Rest(b, k)
<1>1. Len(b) \in Nat /\ \A i \in 1..Len(b) : b[i] \in 1..M
  OBVIOUS
<1>2. Rest(b, Len(b)) = {}
  BY <1>1 DEF Rest
<1>3. Rest(b, 0) = Elems(b)
  <2>1. 0 \notin Rest(b, 0)
    BY <1>1 DEF Rest
  <2>2. Elems(b) = Rest(b, 0) \ {0}
    BY <1>1 DEF Elems, Rest
  <2> QED BY <2>1, <2>2
<1>4. Increasing(b)
  BY DEF Increasing, Numbered
<1>5. \A i \in 1..Len(b) : i <= k \/ b[i] \in Rest(b, k)
  <2> TAKE i \in 1..Len(b)
  <2>1. i <= k \/ i \in k + 1 .. Len(b)
    BY <1>1
  <2> QED BY <2>1 DEF Rest
<1> DEFINE r == SubSeq(b, k + 1, Len(b))
<1>6. /\ r \in Seq(1..M) /\ Len(r) = Len(b) - k
      /\ \A i \in 1..Len(r) : r[i] = b[i + k]
  BY <1>1
<1> HIDE DEF r
<1>7. \A i \in 1..Len(r) : i + k \in k + 1 .. Len(b) /\ i + k \in 1..Len(b) /\ i <= i + k
  BY <1>1, <1>6
<1>8. \A i \in k + 1 .. Len(b) : i - k \in 1..Len(r) /\ (i - k) + k = i
  BY <1>1, <1>6
<1>9. Numbered(r, n)
  <2>1. ASSUME NEW i \in 1..Len(r) PROVE i <= r[i] /\ r[i] <= n
    <3>1. i + k <= b[i + k] /\ b[i + k] <= n /\ b[i + k] \in Nat
      BY <1>1, <1>7 DEF Numbered
    <3>2. r[i] = b[i + k] /\ i \in Nat /\ k \in Nat
      BY <1>1, <1>6
    <3> QED BY <3>1, <3>2
  <2>2. ASSUME NEW i \in 1..Len(r), NEW j \in 1..Len(r), i < j PROVE r[i] < r[j]
    <3>1. i + k < j + k
      BY <2>2
    <3> QED BY <1>6, <1>7, <3>1 DEF Numbered
  <2> QED BY <2>1, <2>2 DEF Numbered
<1>10. Rest(r, 0) = Rest(b, k)
  <2>1. ASSUME NEW y \in Rest(r, 0) PROVE y \in Rest(b, k)
    <3>1. PICK i \in 1..Len(r) : y = r[i]
      BY DEF Rest
    <3> QED BY <1>6, <1>7, <3>1 DEF Rest
  <2>2. ASSUME NEW y \in Rest(b, k) PROVE y \in Rest(r, 0)
    <3>1. PICK i \in k + 1 .. Len(b) : y = b[i]
      BY DEF Rest
    <3>2. i - k \in 1..Len(r) /\ r[i - k] = y
      BY <1>6, <1>8, <3>1
    <3> QED BY <3>2 DEF Rest
  <2> QED BY <2>1, <2>2
<1> QED BY <1>2, <1>3, <1>4, <1>5, <1>6, <1>9, <1>10 DEF r

-----------------------------------------------------------------------------
(* The places of the URCs. *)

(* URCs stay where they are, and send_urcs where it is. *)
UrcStays ==
    /\ UNCHANGED <<urc_buf, claimed, sending, buffered_urcs, urc_ctx, sent, sentTo,
                   urcs, dropped, lost, faults, selects>>
    /\ pc = "flushSend" <=> pc' = "flushSend"
    /\ urcPc \in {"none", "check", "notify", "arm"} =>
          urcPc' \in {"none", "check", "notify", "arm"}

(* That is what the steps do that neither buffer nor send a URC, nor change *)
(* the channel for them.                                                    *)
LEMMA UrcFrame ==
    LockInv /\ [Next]_vars =>
        \/ UrcPut \/ UrcPutTo \/ FlushClaim \/ FlushSend \/ FlushFinish \/ FlushList
        \/ SelectUrcChannel \/ UrcStays
<1> SUFFICES ASSUME LockInv, [Next]_vars, ~UrcPut, ~UrcPutTo, ~FlushClaim, ~FlushSend,
                    ~FlushFinish, ~FlushList, ~SelectUrcChannel
             PROVE  UrcStays
  OBVIOUS
<1> USE DEF queueVars, cmdVars, urcVars, sockVars, sendVars, envVars, UrcStays
<1>0. ret \in {"none", "works"}
  BY DEF LockInv
<1>1. CASE Environment
  BY <1>1 DEF Environment, SelectUrcChannel, StartWorkQueue, HostSends, SocketEvent, PollCallback,
     BackgroundReady, UrcCheck, UrcNotify, IdleTimer, vars
<1>2. CASE Read
  BY <1>2 DEF Read, RxStart, RxEnd, RxChar, RxCommand, RxInvalid, rsp_send, Sending,
     RefuseSend, CommandAnswered, CommandContinues, CommandFinish, CommandDone,
     RxData, ExitDataMode, XDataMode, Dispatch
<1>3. CASE Work
  BY <1>3 DEF Work, HostStart, HostMessage, HostEnd, IdleWorks, Dispatch
<1>4. CASE Poll
  BY <1>0, <1>4 DEF Poll, PollStart, PollWork, PollQueue, Lock, Locked, RecvStart,
     RecvHeader, RecvData, RecvEnd, RecvFails, Dispatch
<1> QED BY <1>1, <1>2, <1>3, <1>4, NextSplit

(* What the invariant says of the numbers. *)
LEMMA UrcFacts ==
    ASSUME UrcInv
    PROVE  /\ MaxUrcs \in Nat /\ UrcCap \in Nat /\ urcs \in 0..MaxUrcs /\ urcs \in Nat
           /\ urc_buf \in Seq(1..MaxUrcs) /\ Len(urc_buf) <= UrcCap /\ Len(urc_buf) \in Nat
           /\ claimed \in 0..Len(urc_buf) /\ buffered_urcs \in Seq(1..MaxUrcs)
           /\ sending \in Seq(0..MaxUrcs)
           /\ urcPc \in {"none", "check", "notify", "arm"}
           /\ Numbered(urc_buf, urcs) /\ Increasing(sending)
           /\ Ordered(sent, InFlight, Unclaimed)
           /\ Placed(sent, OwnUrcs, Gone, Unclaimed, InFlight, urcs)
           /\ Listed(buffered_urcs, sentTo) /\ faults \in Nat /\ selects \in Nat
           /\ urc_ctx \in BOOLEAN
BY AtHostAssumption DEF UrcInv, TypeUrcs, ClaimInv, OrderInv, PlaceInv

(* Placing a new URC on this context's list, in urc_buf, or nowhere; taking *)
(* some from where they are.                                                *)
LEMMA PlaceNew ==
    ASSUME NEW sn, NEW ow, NEW dr, NEW un, NEW fl, NEW n \in Nat,
           Placed(sn, ow, dr, un, fl, n), Ordered(sn, fl, un), 0 \notin un
    PROVE  /\ Placed(sn, ow \cup {n + 1}, dr, un, fl, n + 1)
           /\ Placed(sn, ow, dr, un \cup {n + 1}, fl, n + 1)
           /\ Placed(sn, ow, dr \cup {n + 1} \cup un, {}, fl, n + 1)
           /\ Placed(sn, ow, dr \cup {n + 1}, un, fl, n + 1)
           /\ Ordered(sn, fl, un \cup {n + 1})
<1>1. \A x : x \in sn \cup ow \cup dr \cup un \cup fl => x = 0 \/ x \in 1..n
  BY DEF Placed
<1>2. /\ n + 1 # 0 /\ n + 1 \notin 1..n /\ 1..n + 1 = (1..n) \cup {n + 1} /\ 0 \notin 1..n
      /\ \A x \in 1..n : x < n + 1
  OBVIOUS
<1>3. n + 1 \notin sn \cup ow \cup dr \cup un \cup fl
  BY <1>1, <1>2
<1>4. \A x \in un : x \notin sn /\ x \notin fl /\ x \notin ow /\ x # 0
  <2> TAKE x \in un
  <2>1. x \in Nat /\ x # 0
    BY <1>1
  <2>2. x \notin sn /\ x \notin fl
    BY <2>1 DEF Ordered
  <2> QED BY <2>1, <2>2 DEF Placed
<1>5. Placed(sn, ow \cup {n + 1}, dr, un, fl, n + 1)
  <2>1. (sn \cup (ow \cup {n + 1}) \cup dr \cup un \cup fl) \ {0} = 1..n + 1
    BY <1>2 DEF Placed
  <2> QED BY <1>2, <1>3, <2>1 DEF Placed
<1>6. Placed(sn, ow, dr, un \cup {n + 1}, fl, n + 1)
  <2>1. (sn \cup ow \cup dr \cup (un \cup {n + 1}) \cup fl) \ {0} = 1..n + 1
    BY <1>2 DEF Placed
  <2> QED BY <1>2, <1>3, <2>1 DEF Placed
<1>7. Placed(sn, ow, dr \cup {n + 1} \cup un, {}, fl, n + 1)
  <2>1. (sn \cup ow \cup (dr \cup {n + 1} \cup un) \cup {} \cup fl) \ {0} = 1..n + 1
    BY <1>2 DEF Placed
  <2> QED BY <1>2, <1>3, <1>4, <2>1 DEF Placed
<1>8. Ordered(sn, fl, un \cup {n + 1})
  <2>1. \A m \in fl : m = 0 \/ m < n + 1
    BY <1>1, <1>2
  <2>2. \A m \in fl : m < n + 1
    BY <2>1
  <2>3. \A m \in sn : m = 0 \/ m < n + 1
    BY <1>1, <1>2
  <2> QED BY <2>2, <2>3 DEF Ordered
<1>9. Placed(sn, ow, dr \cup {n + 1}, un, fl, n + 1)
  <2>1. (sn \cup ow \cup (dr \cup {n + 1}) \cup un \cup fl) \ {0} = 1..n + 1
    BY <1>2 DEF Placed
  <2> QED BY <1>2, <1>3, <2>1 DEF Placed
<1> QED BY <1>5, <1>6, <1>7, <1>8, <1>9

(* This context's list after one more URC than n. *)
LEMMA ListNew ==
    ASSUME NEW M \in Nat, NEW n \in Nat, n + 1 \in 1..M, NEW l \in Seq(1..M), NEW sn,
           sn \cup Elems(l) \subseteq 1..n, Listed(l, sn)
    PROVE  Listed(Append(l, n + 1), sn)
<1> DEFINE r == Append(l, n + 1)
<1>1. Elems(r) = Elems(l) \cup {n + 1}
  BY ElemsAppend
<1>2. /\ Len(l) \in Nat /\ Len(r) = Len(l) + 1 /\ r[Len(l) + 1] = n + 1
      /\ \A i \in 1..Len(l) : r[i] = l[i] /\ l[i] \in 1..M
  OBVIOUS
<1> HIDE DEF r
<1>3. \A i \in 1..Len(l) : l[i] <= n
  <2> TAKE i \in 1..Len(l)
  <2>1. l[i] \in Elems(l)
    BY <1>2 DEF Elems
  <2> QED BY <2>1
<1>4. Increasing(r)
  <2> SUFFICES ASSUME NEW i \in 1..Len(r), NEW j \in 1..Len(r), i < j PROVE r[i] < r[j]
    BY DEF Increasing
  <2>1. i \in 1..Len(l) /\ (j \in 1..Len(l) \/ j = Len(l) + 1)
    BY <1>2
  <2>2. CASE j \in 1..Len(l)
    <3>1. l[i] # 0 /\ l[j] # 0
      BY <1>2, <2>1, <2>2
    <3> QED BY <1>2, <2>1, <2>2, <3>1 DEF Listed, Increasing
  <2>3. CASE j = Len(l) + 1
    BY <1>2, <1>3, <2>1, <2>3
  <2> QED BY <2>1, <2>2, <2>3
<1>5. \A m \in sn, x \in Elems(r) : m < x
  BY <1>1 DEF Listed
<1> QED BY <1>4, <1>5 DEF Listed, r

(* ... and after one was sent, or lost. *)
LEMMA ListTaken ==
    ASSUME NEW M \in Nat, NEW l \in Seq(1..M), l # <<>>, NEW sn, sn \subseteq Nat,
           Listed(l, sn)
    PROVE  /\ Tail(l) \in Seq(1..M) /\ Head(l) \in 1..M
           /\ Elems(l) = Elems(Tail(l)) \cup {Head(l)}
           /\ Head(l) \notin Elems(Tail(l)) \cup sn
           /\ Listed(Tail(l), sn) /\ Listed(Tail(l), sn \cup {Head(l)})
<1> DEFINE h == Head(l)
           r == Tail(l)
<1>1. /\ r \in Seq(1..M) /\ h \in 1..M
      /\ Elems(l) = Elems(r) \cup ({h} \ {0})
      /\ Increasing(r) /\ \A x \in Elems(r) : h = 0 \/ h < x
  BY ElemsTail DEF Listed
<1> HIDE DEF h, r
<1>2. h # 0 /\ Elems(l) = Elems(r) \cup {h}
  BY <1>1
<1>3. \A x \in Elems(r) : h < x
  BY <1>1, <1>2
<1>4. \A m \in sn : m < h /\ \A x \in Elems(r) : m < x
  BY <1>2 DEF Listed
<1>5. h \notin Elems(r) \cup sn
  <2>1. ~(h < h)
    BY <1>1
  <2> QED BY <1>3, <1>4, <2>1
<1> QED BY <1>1, <1>2, <1>3, <1>4, <1>5 DEF Listed, h, r

(* URCs in flight that are overwritten or not transmitted are gone. *)
LEMMA PlaceOverwritten ==
    ASSUME NEW sn, NEW ow, NEW dr, NEW un, NEW fl, NEW n \in Nat, NEW X, NEW rest,
           Placed(sn, ow, dr, un, fl, n), Ordered(sn, fl, un),
           fl = rest \cup X, rest \cap X = {}, 0 \notin fl
    PROVE  Placed(sn, ow, dr \cup X, un, rest, n) /\ Ordered(sn, rest, un)
<1>1. \A x \in X : x \in fl /\ x \in Nat /\ x # 0
  BY DEF Placed
<1>2. \A x \in X : x \notin sn /\ x \notin un /\ x \notin ow /\ x \notin rest
  <2> TAKE x \in X
  <2>1. ~(x < x) /\ x # 0 /\ x \in fl
    BY <1>1
  <2> QED BY <2>1 DEF Ordered, Placed
<1>3. (sn \cup ow \cup (dr \cup X) \cup un \cup rest) \ {0} = 1..n
  BY DEF Placed
<1>4. Ordered(sn, rest, un)
  BY DEF Ordered
<1> QED BY <1>1, <1>2, <1>3, <1>4 DEF Placed

(* A URC for the default context. *)
LEMMA PutKeeps == UrcInv /\ UrcPut => UrcInv'
<1> SUFFICES ASSUME UrcInv, UrcPut PROVE UrcInv'
  OBVIOUS
<1>1. /\ urcs < MaxUrcs /\ urcs' = urcs + 1 /\ pc' = pc
      /\ UNCHANGED <<buffered_urcs, urc_ctx, sent, sentTo, faults, selects>>
  BY DEF UrcPut, envVars
<1>2. /\ MaxUrcs \in Nat /\ UrcCap \in Nat /\ urcs \in Nat /\ urcs' \in 1..MaxUrcs
      /\ urcs' \in 0..MaxUrcs
  BY <1>1, UrcFacts
<1>3. 0 \notin Unclaimed /\ 0 \notin InFlight
  <2>1. \A i \in claimed + 1 .. Len(urc_buf) : i \in 1..Len(urc_buf)
    BY UrcFacts
  <2>2. \A i \in 1..Len(urc_buf) : urc_buf[i] # 0
    BY UrcFacts
  <2> QED BY <2>1, <2>2 DEF Unclaimed, InFlight, Rest, Elems
<1>4. OwnUrcs' = OwnUrcs
  BY <1>1 DEF OwnUrcs
<1>5. Len(urc_buf) <= urcs
  BY UrcFacts, PutNumbered
<1>10. /\ lost \cap dropped = {} /\ urcs + 1 \notin lost \cup dropped
       /\ \A x \in lost : x \notin Unclaimed /\ x \notin InFlight
       /\ \A x \in dropped : x \notin Unclaimed
       /\ dropped # {} => urcs > UrcCap
       /\ lost # {} => faults > 0 \/ selects > 0
  <2>1. Placed(sent, OwnUrcs, Gone, Unclaimed, InFlight, urcs)
    BY UrcFacts
  <2>2. \A x \in lost \cup dropped : x \in 1..urcs
    BY <2>1 DEF Placed, Gone
  <2>3. urcs + 1 \notin 1..urcs
    BY <1>2
  <2> QED BY <2>1, <2>2, <2>3 DEF Placed, Gone, UrcInv, PlaceInv
<1>6. CASE /\ Len(urc_buf) < UrcCap
           /\ urc_buf' = Append(urc_buf, urcs + 1)
           /\ urcPc' = "check"
           /\ \E S \in SUBSET DOMAIN sending :
                 /\ claimed > 0 => S = {}
                 /\ sending' = [i \in DOMAIN sending |-> IF i \in S THEN 0 ELSE sending[i]]
                 /\ dropped' = dropped \cup ({sending[i] : i \in S} \ {0})
           /\ UNCHANGED <<claimed, lost>>
  <2>1. PICK S \in SUBSET DOMAIN sending :
          /\ claimed > 0 => S = {}
          /\ sending' = [i \in DOMAIN sending |-> IF i \in S THEN 0 ELSE sending[i]]
          /\ dropped' = dropped \cup ({sending[i] : i \in S} \ {0})
    BY <1>6
  <2> DEFINE X == Lost(sending, S)
  <2>2. /\ sending' \in Seq(0..MaxUrcs) /\ Increasing(sending')
        /\ sending = <<>> => sending' = <<>> /\ X = {}
        /\ Elems(sending) = Elems(sending') \cup X /\ Elems(sending') \cap X = {}
        /\ S = {} => Elems(sending') = Elems(sending) /\ X = {}
    <3>1. sending' = Overwritten(sending, S)
      BY <2>1 DEF Overwritten
    <3>2. MaxUrcs \in Nat /\ sending \in Seq(0..MaxUrcs) /\ Increasing(sending)
      BY UrcFacts
    <3> QED BY <3>1, <3>2, Overwrite
  <2>3. dropped' = dropped \cup X /\ Gone' = Gone \cup X /\ lost' = lost
    BY <1>6, <2>1 DEF Lost, Gone
  <2> HIDE DEF X
  <2>4. /\ urc_buf' \in Seq(1..MaxUrcs) /\ Len(urc_buf') = Len(urc_buf) + 1
        /\ \A i \in 1..Len(urc_buf) : urc_buf'[i] = urc_buf[i]
    <3>1. urc_buf \in Seq(1..MaxUrcs) /\ urcs + 1 \in 1..MaxUrcs
      BY <1>1, <1>2, UrcFacts
    <3>2. urc_buf' = Append(urc_buf, urcs + 1)
      BY <1>6
    <3> QED BY <3>1, <3>2
  <2>5. /\ Numbered(urc_buf', urcs') /\ Unclaimed' = Unclaimed \cup {urcs + 1}
    <3>1. claimed' = claimed /\ urc_buf' = Append(urc_buf, urcs + 1)
      BY <1>6
    <3>2. /\ Numbered(Append(urc_buf, urcs + 1), urcs + 1)
          /\ Rest(Append(urc_buf, urcs + 1), claimed) = Rest(urc_buf, claimed) \cup {urcs + 1}
      BY UrcFacts, PutNumbered
    <3> QED BY <1>1, <3>1, <3>2 DEF Unclaimed
  <2>6. TypeUrcs'
    <3>1. Len(urc_buf') <= UrcCap /\ claimed' \in 0..Len(urc_buf')
      BY <1>2, <1>6, <2>4, UrcFacts
    <3> QED BY <1>1, <1>6, <2>2, <2>4, <3>1, UrcFacts DEF TypeUrcs
  <2>7. /\ Placed(sent, OwnUrcs, Gone', Unclaimed, InFlight', urcs)
        /\ Ordered(sent, InFlight', Unclaimed)
    <3>1. InFlight = InFlight' \cup X /\ InFlight' \cap X = {}
      BY <2>2 DEF InFlight
    <3> QED BY <1>2, <1>3, <2>3, <3>1, UrcFacts, PlaceOverwritten
  <2>8. /\ Placed(sent, OwnUrcs, Gone', Unclaimed', InFlight', urcs')
        /\ Ordered(sent, InFlight', Unclaimed')
    BY <1>1, <1>2, <1>3, <2>5, <2>7, PlaceNew
  <2>9. OrderInv'
    BY <1>1, <2>2, <2>5, <2>8 DEF OrderInv
  <2>10. X # {} => claimed = 0 /\ sending # <<>>
    BY <2>1, <2>2, UrcFacts, SMTT(30)
  <2>11. dropped' # {} => urcs' > UrcCap
    <3>1. dropped' # {} => urcs > UrcCap
      BY <2>3, <2>10 DEF UrcInv, ClaimInv, PlaceInv
    <3> QED BY <1>1, <1>2, <3>1
  <2>12. PlaceInv'
    <3>1. lost' \cap dropped' = {}
      BY <1>10, <2>2, <2>3 DEF InFlight
    <3> QED BY <1>1, <1>4, <1>10, <2>3, <2>8, <2>11, <3>1, UrcFacts DEF PlaceInv
  <2>13. ClaimInv'
    <3>1. pc' # "flushSend" => claimed' = 0 /\ sending' = <<>>
      BY <1>1, <1>6, <2>2 DEF UrcInv, ClaimInv
    <3>2. \A i \in 1..claimed' : urc_buf'[i] \in sent' \cup InFlight' \cup lost'
      <4>1. CASE claimed > 0
        <5>1. InFlight' = InFlight
          BY <2>1, <2>2, <4>1 DEF InFlight
        <5>2. \A i \in 1..claimed : i \in 1..Len(urc_buf)
          BY UrcFacts
        <5> QED BY <1>1, <1>6, <2>3, <2>4, <5>1, <5>2 DEF UrcInv, ClaimInv
      <4>2. CASE ~(claimed > 0)
        BY <1>6, <4>2, UrcFacts
      <4> QED BY <4>1, <4>2
    <3>3. (claimed' = 0 /\ sending' # <<>>) => urcs' > UrcCap
      <4>1. (claimed' = 0 /\ sending' # <<>>) => urcs > UrcCap
        BY <1>6, <2>2 DEF UrcInv, ClaimInv
      <4> QED BY <1>1, <1>2, <4>1
    <3> QED BY <1>1, <1>2, <3>1, <3>2, <3>3 DEF UrcInv, ClaimInv
  <2> QED BY <2>6, <2>9, <2>12, <2>13 DEF UrcInv
<1>7. CASE /\ urc_buf' = <<>> /\ claimed' = 0
           /\ \/ /\ Len(urc_buf) >= UrcCap
                 /\ dropped' = dropped \cup {urcs + 1} \cup Unsent
                 /\ UNCHANGED <<urcPc, sending, lost>>
              \/ /\ ~urc_ctx
                 /\ lost' = lost \cup {urcs + 1} \cup Unsent
                 /\ UNCHANGED <<urcPc, sending, dropped>>
  <2>1. Gone' = Gone \cup {urcs + 1} \cup Unclaimed
    BY <1>7 DEF Unclaimed, Rest, Gone, Unsent
  <2>2. /\ urc_buf' \in Seq(1..MaxUrcs) /\ Len(urc_buf') = 0 /\ claimed' = 0
        /\ InFlight' = InFlight /\ sending' = sending
    BY <1>7 DEF InFlight
  <2>3. Unclaimed' = {} /\ Numbered(urc_buf', urcs')
    BY <2>2 DEF Unclaimed, Rest, Numbered
  <2>4. /\ dropped' # {} => urcs' > UrcCap
        /\ sending # <<>> => urcs' > UrcCap
        /\ lost' # {} => faults' > 0 \/ selects' > 0
        /\ lost' \cap dropped' = {}
    <3>1. CASE /\ Len(urc_buf) >= UrcCap /\ lost' = lost
               /\ dropped' = dropped \cup {urcs + 1} \cup Unsent
      <4>1. urcs' > UrcCap
        BY <1>1, <1>2, <1>5, <3>1, UrcFacts
      <4> QED BY <1>1, <1>10, <3>1, <4>1 DEF Unclaimed, Rest, Unsent
    <3>2. CASE ~urc_ctx /\ dropped' = dropped /\ lost' = lost \cup {urcs + 1} \cup Unsent
      <4>1. selects > 0 /\ sending = <<>>
        BY <3>2 DEF UrcInv, ClaimInv
      <4>2. dropped # {} => urcs' > UrcCap
        BY <1>1, <1>2, <1>10
      <4> QED BY <1>1, <1>10, <3>2, <4>1, <4>2 DEF Unclaimed, Rest, Unsent
    <3> QED BY <1>7, <3>1, <3>2
  <2>5. Placed(sent, OwnUrcs, Gone', {}, InFlight, urcs')
    BY <1>1, <1>2, <1>3, <2>1, UrcFacts, PlaceNew
  <2>6. TypeUrcs'
    BY <1>1, <1>2, <1>7, <2>2, UrcFacts DEF TypeUrcs
  <2>7. OrderInv'
    <3>1. Ordered(sent, InFlight, {})
      BY UrcFacts DEF Ordered
    <3> QED BY <1>1, <2>2, <2>3, <3>1, UrcFacts DEF OrderInv
  <2>8. PlaceInv'
    BY <1>1, <1>4, <2>2, <2>3, <2>4, <2>5, UrcFacts DEF PlaceInv
  <2>9. ClaimInv'
    <3>1. \A i \in 1..claimed' : urc_buf'[i] \in sent' \cup InFlight' \cup lost'
      BY <2>2
    <3>2. pc' # "flushSend" => claimed' = 0 /\ sending' = <<>>
      BY <1>1, <2>2 DEF UrcInv, ClaimInv
    <3> QED BY <1>1, <1>2, <2>2, <2>4, <3>1, <3>2 DEF UrcInv, ClaimInv
  <2> QED BY <2>6, <2>7, <2>8, <2>9 DEF UrcInv
<1> QED BY <1>6, <1>7 DEF UrcPut

(* A URC for this context. *)
LEMMA PutToKeeps == UrcInv /\ UrcPutTo => UrcInv'
<1> SUFFICES ASSUME UrcInv, UrcPutTo PROVE UrcInv'
  OBVIOUS
<1>1. /\ urcs < MaxUrcs /\ urcs' = urcs + 1 /\ pc' = pc /\ urcPc' \in {"check", urcPc}
      /\ UNCHANGED <<urc_buf, claimed, sending, urc_ctx, sent, sentTo, dropped, selects>>
  BY DEF UrcPutTo
<1>2. /\ MaxUrcs \in Nat /\ UrcCap \in Nat /\ urcs \in Nat /\ urcs + 1 \in 1..MaxUrcs
      /\ urcs' \in 0..MaxUrcs /\ buffered_urcs \in Seq(1..MaxUrcs)
  BY <1>1, UrcFacts
<1>3. Unclaimed' = Unclaimed /\ InFlight' = InFlight
  BY <1>1 DEF Unclaimed, InFlight
<1>4. /\ Elems(Append(buffered_urcs, urcs + 1)) = Elems(buffered_urcs) \cup {urcs + 1}
      /\ Append(buffered_urcs, urcs + 1) \in Seq(1..MaxUrcs)
      /\ Listed(Append(buffered_urcs, urcs + 1), sentTo)
  <2>1. Placed(sent, OwnUrcs, Gone, Unclaimed, InFlight, urcs)
    BY UrcFacts
  <2>2. sentTo \cup Elems(buffered_urcs) \subseteq 1..urcs
    BY <2>1 DEF Placed, OwnUrcs
  <2>3. Listed(buffered_urcs, sentTo)
    BY UrcFacts
  <2>4. /\ Elems(Append(buffered_urcs, urcs + 1)) = Elems(buffered_urcs) \cup {urcs + 1}
        /\ Append(buffered_urcs, urcs + 1) \in Seq(1..MaxUrcs)
    BY <1>2, ElemsAppend
  <2>5. Listed(Append(buffered_urcs, urcs + 1), sentTo)
    BY <1>2, <2>2, <2>3, ListNew
  <2> QED BY <2>4, <2>5
<1>5. 0 \notin Unclaimed
  <2>1. \A i \in claimed + 1 .. Len(urc_buf) : urc_buf[i] # 0
    BY UrcFacts
  <2> QED BY <2>1 DEF Unclaimed, Rest
<1>6. /\ Placed(sent, OwnUrcs \cup {urcs + 1}, Gone, Unclaimed, InFlight, urcs + 1)
      /\ Placed(sent, OwnUrcs, Gone \cup {urcs + 1}, Unclaimed, InFlight, urcs + 1)
      /\ urcs + 1 \notin dropped
  <2>1. Placed(sent, OwnUrcs, Gone, Unclaimed, InFlight, urcs)
    BY UrcFacts
  <2>2. dropped \subseteq 1..urcs /\ urcs + 1 \notin 1..urcs
    BY <1>2, <2>1 DEF Placed, Gone
  <2> QED BY <1>2, <1>5, <2>2, UrcFacts, PlaceNew
<1>7. urcs > UrcCap => urcs' > UrcCap
  BY <1>1, <1>2
<1>8. Numbered(urc_buf, urcs')
  <2>1. \A i \in 1..Len(urc_buf) : urc_buf[i] \in Nat
    BY UrcFacts
  <2>2. Numbered(urc_buf, urcs)
    BY UrcFacts
  <2>3. \A i \in 1..Len(urc_buf) : urc_buf[i] <= urcs + 1
    BY <1>2, <2>1, <2>2 DEF Numbered
  <2> QED BY <1>1, <2>2, <2>3 DEF Numbered
<1>9. OrderInv'
  BY <1>1, <1>3, <1>8, UrcFacts DEF OrderInv
<1>10. CASE /\ buffered_urcs' = Append(buffered_urcs, urcs + 1)
            /\ UNCHANGED <<lost, faults>>
  <2>1. OwnUrcs' = OwnUrcs \cup {urcs + 1} /\ Gone' = Gone
    BY <1>1, <1>4, <1>10 DEF OwnUrcs, Gone
  <2>2. TypeUrcs'
    BY <1>1, <1>4, <1>10, UrcFacts DEF TypeUrcs
  <2>3. ClaimInv'
    BY <1>1, <1>2, <1>3, <1>7, <1>10 DEF UrcInv, ClaimInv
  <2>4. PlaceInv'
    BY <1>1, <1>3, <1>4, <1>6, <1>7, <1>10, <2>1 DEF UrcInv, PlaceInv
  <2> QED BY <1>9, <2>2, <2>3, <2>4 DEF UrcInv
<1>11. CASE /\ lost' = lost \cup {urcs + 1} /\ faults' = faults + 1
            /\ UNCHANGED buffered_urcs
  <2>1. OwnUrcs' = OwnUrcs /\ Gone' = Gone \cup {urcs + 1}
    BY <1>1, <1>11 DEF OwnUrcs, Gone
  <2>2. TypeUrcs'
    BY <1>1, <1>11, UrcFacts DEF TypeUrcs
  <2>3. ClaimInv'
    BY <1>1, <1>2, <1>3, <1>7, <1>11 DEF UrcInv, ClaimInv
  <2>4. faults' > 0
    BY <1>11, UrcFacts
  <2>5. PlaceInv'
    BY <1>1, <1>3, <1>6, <1>7, <1>11, <2>1, <2>4 DEF UrcInv, PlaceInv
  <2> QED BY <1>9, <2>2, <2>3, <2>5 DEF UrcInv
<1> QED BY <1>10, <1>11 DEF UrcPutTo, Fault

(* send_urcs claims all of urc_buf. *)
LEMMA ClaimKeeps == UrcInv /\ FlushClaim => UrcInv'
<1> SUFFICES ASSUME UrcInv, FlushClaim PROVE UrcInv'
  OBVIOUS
<1>1. /\ pc = "flush" /\ claimed = 0 /\ sending = <<>>
      /\ UNCHANGED <<urc_buf, buffered_urcs, urc_ctx, sent, sentTo, urcs, dropped, lost,
                     urcPc, faults, selects>>
  BY DEF FlushClaim, UrcInv, ClaimInv, queueVars, cmdVars, sockVars, sendVars, envVars
<1>2. CASE /\ claimed' = Len(urc_buf) /\ sending' = urc_buf /\ pc' = "flushSend"
           /\ urc_ctx /\ urc_buf # <<>>
  <2>1. /\ Rest(urc_buf, Len(urc_buf)) = {} /\ Rest(urc_buf, 0) = Elems(urc_buf)
        /\ Increasing(urc_buf) /\ \A i \in 1..Len(urc_buf) : urc_buf[i] \in Rest(urc_buf, 0)
    <3>1. 0 \in 0..Len(urc_buf) /\ \A i \in 1..Len(urc_buf) : ~(i <= 0)
      BY UrcFacts
    <3> QED BY <3>1, UrcFacts, RestFacts
  <2>2. Unclaimed' = {} /\ InFlight' = Unclaimed /\ OwnUrcs' = OwnUrcs /\ Gone' = Gone
    BY <1>1, <1>2, <2>1 DEF Unclaimed, InFlight, OwnUrcs, Gone
  <2>3. InFlight = {}
    BY <1>1 DEF InFlight, Elems
  <2>4. Placed(sent, OwnUrcs, Gone, {}, Unclaimed, urcs)
    <3>1. Placed(sent, OwnUrcs, Gone, Unclaimed, {}, urcs)
      BY <2>3, UrcFacts
    <3>2. (sent \cup OwnUrcs \cup Gone \cup {} \cup Unclaimed) \ {0} = 1..urcs
      BY <3>1 DEF Placed
    <3> QED BY <3>1, <3>2 DEF Placed
  <2>5. Ordered(sent, Unclaimed, {})
    BY UrcFacts DEF Ordered
  <2>6. /\ TypeUrcs'
    <3>1. urc_buf \in Seq(0..MaxUrcs) /\ Len(urc_buf) \in 0..Len(urc_buf)
      BY UrcFacts
    <3> QED BY <1>1, <1>2, <3>1, UrcFacts DEF TypeUrcs
  <2>7. OrderInv'
    BY <1>1, <1>2, <2>1, <2>2, <2>5, UrcFacts DEF OrderInv
  <2>8. PlaceInv'
    BY <1>1, <2>2, <2>4 DEF UrcInv, PlaceInv
  <2>9. ClaimInv'
    <3>1. \A i \in 1..claimed' : urc_buf'[i] \in sent' \cup InFlight' \cup lost'
      BY <1>1, <1>2, <2>1, <2>2 DEF Unclaimed
    <3>2. claimed' # 0
      <4>1. urc_buf \in Seq(1..MaxUrcs)
        BY UrcFacts
      <4>2. Len(urc_buf) # 0
        BY <1>2, <4>1
      <4> QED BY <1>2, <4>2
    <3> QED BY <1>1, <1>2, <3>1, <3>2, UrcFacts DEF ClaimInv
  <2> QED BY <2>6, <2>7, <2>8, <2>9 DEF UrcInv
<1>3. CASE UNCHANGED <<claimed, sending>> /\ pc' = "flushList"
  <2>1. Unclaimed' = Unclaimed /\ InFlight' = InFlight /\ OwnUrcs' = OwnUrcs /\ Gone' = Gone
    BY <1>1, <1>3 DEF Unclaimed, InFlight, OwnUrcs, Gone
  <2> QED BY <1>1, <1>3, <2>1 DEF UrcInv, TypeUrcs, ClaimInv, OrderInv, PlaceInv
<1> QED BY <1>2, <1>3 DEF FlushClaim

(* send_urcs transmits the next URC, or memory that was overwritten. *)
LEMMA SendKeeps ==
    UrcInv /\ FlushSend /\ sent' = sent \cup {Head(sending)} /\ sending' = Tail(sending)
       /\ UNCHANGED <<lost, faults>> => UrcInv'
<1> SUFFICES ASSUME UrcInv, FlushSend, sent' = sent \cup {Head(sending)},
                    sending' = Tail(sending), UNCHANGED <<lost, faults>>
             PROVE  UrcInv'
  OBVIOUS
<1>1. /\ pc = "flushSend" /\ pc' = pc /\ sending # <<>> /\ sent' = sent \cup {Head(sending)}
      /\ sending' = Tail(sending)
      /\ UNCHANGED <<urc_buf, claimed, buffered_urcs, urc_ctx, sentTo, urcs, dropped, lost,
                     urcPc, faults, selects>>
  BY DEF FlushSend, queueVars, cmdVars, sockVars, sendVars
<1> DEFINE h == Head(sending)
<1>2. /\ sending' \in Seq(0..MaxUrcs) /\ h \in 0..MaxUrcs /\ Increasing(sending')
      /\ InFlight = InFlight' \cup ({h} \ {0})
      /\ \A n \in InFlight' : h = 0 \/ h < n
  BY <1>1, UrcFacts, ElemsTail DEF InFlight
<1>3. Unclaimed' = Unclaimed /\ OwnUrcs' = OwnUrcs /\ Gone' = Gone
  BY <1>1 DEF Unclaimed, OwnUrcs, Gone
<1>4. /\ Placed(sent, OwnUrcs, Gone, Unclaimed, InFlight, urcs)
      /\ Ordered(sent, InFlight, Unclaimed)
  BY UrcFacts
<1>5. sent' = sent \cup {h}
  BY <1>1
<1> HIDE DEF h
<1>6. Placed(sent', OwnUrcs, Gone, Unclaimed, InFlight', urcs)
  <2>1. (sent' \cup OwnUrcs \cup Gone \cup Unclaimed \cup InFlight') \ {0} = 1..urcs
    BY <1>2, <1>4, <1>5 DEF Placed
  <2>2. h \notin Gone
    BY <1>2, <1>4 DEF Placed
  <2> QED BY <1>2, <1>4, <1>5, <2>1, <2>2 DEF Placed
<1>7. Ordered(sent', InFlight', Unclaimed)
  <2>1. \A m \in InFlight', n \in Unclaimed : m < n
    BY <1>2, <1>4 DEF Ordered
  <2>2. \A n \in Unclaimed : h = 0 \/ h < n
    BY <1>2, <1>4 DEF Ordered
  <2>3. \A m \in sent, n \in InFlight' \cup Unclaimed : m = 0 \/ m < n
    BY <1>2, <1>4 DEF Ordered
  <2> QED BY <1>2, <1>5, <2>1, <2>2, <2>3 DEF Ordered
<1>8. TypeUrcs'
  BY <1>1, <1>2, UrcFacts DEF TypeUrcs
<1>9. OrderInv'
  BY <1>1, <1>2, <1>3, <1>7, UrcFacts DEF OrderInv
<1>10. PlaceInv'
  BY <1>1, <1>3, <1>6 DEF UrcInv, PlaceInv
<1>11. ClaimInv'
  <2>1. \A i \in 1..claimed : urc_buf[i] \in sent' \cup InFlight' \cup lost
    <3>1. \A i \in 1..claimed : urc_buf[i] \in sent \cup InFlight \cup lost
      BY DEF UrcInv, ClaimInv
    <3>2. sent \cup InFlight \subseteq sent' \cup InFlight'
      BY <1>2, <1>5
    <3> QED BY <3>1, <3>2
  <2> QED BY <1>1, <2>1 DEF UrcInv, ClaimInv
<1> QED BY <1>8, <1>9, <1>10, <1>11 DEF UrcInv

(* What cannot be transmitted is lost, with all that was claimed after it. *)
LEMMA SendFails ==
    UrcInv /\ FlushSend /\ lost' = lost \cup (Range(sending) \ {0}) /\ sending' = <<>>
       /\ faults' = faults + 1 /\ sent' = sent => UrcInv'
<1> SUFFICES ASSUME UrcInv, FlushSend, lost' = lost \cup (Range(sending) \ {0}),
                    sending' = <<>>, faults' = faults + 1, sent' = sent
             PROVE  UrcInv'
  OBVIOUS
<1>1. /\ pc = "flushSend" /\ pc' = pc /\ sending' = <<>> /\ sent' = sent
      /\ faults' = faults + 1
      /\ UNCHANGED <<urc_buf, claimed, buffered_urcs, urc_ctx, sentTo, urcs, dropped,
                     urcPc, selects>>
  BY DEF FlushSend, queueVars, cmdVars, sockVars, sendVars
<1>2. Range(sending) \ {0} = InFlight
  BY UrcFacts, SMTT(30) DEF Range, InFlight, Elems
<1>3. /\ lost' = lost \cup InFlight /\ Gone' = Gone \cup InFlight
      /\ Unclaimed' = Unclaimed /\ OwnUrcs' = OwnUrcs /\ 0 \notin InFlight
  BY <1>1, <1>2 DEF Unclaimed, OwnUrcs, Gone
<1>4. InFlight' = {} /\ Increasing(sending') /\ sending' \in Seq(0..MaxUrcs)
  <2>1. <<>> \in Seq(0..MaxUrcs) /\ Len(<<>>) = 0 /\ 1..0 = {}
    OBVIOUS
  <2> QED BY <1>1, <2>1 DEF InFlight, Elems, Increasing
<1>5. /\ Placed(sent, OwnUrcs, Gone, Unclaimed, InFlight, urcs)
      /\ Ordered(sent, InFlight, Unclaimed) /\ urcs \in Nat
  BY UrcFacts
<1>6. /\ Placed(sent, OwnUrcs, Gone \cup InFlight, Unclaimed, {}, urcs)
      /\ Ordered(sent, {}, Unclaimed)
  <2>1. InFlight = {} \cup InFlight /\ {} \cap InFlight = {}
    OBVIOUS
  <2> QED BY <1>3, <1>5, <2>1, PlaceOverwritten
<1>7. TypeUrcs'
  BY <1>1, <1>4, UrcFacts DEF TypeUrcs
<1>8. OrderInv'
  BY <1>1, <1>3, <1>4, <1>6, UrcFacts DEF OrderInv
<1>9. PlaceInv'
  <2>1. lost' \cap dropped' = {}
    BY <1>1, <1>3, <1>5 DEF UrcInv, PlaceInv, Placed, Gone
  <2>2. faults' > 0
    BY <1>1, UrcFacts
  <2> QED BY <1>1, <1>3, <1>4, <1>6, <2>1, <2>2 DEF UrcInv, PlaceInv
<1>10. ClaimInv'
  <2>1. \A i \in 1..claimed : urc_buf[i] \in sent \cup InFlight \cup lost
    BY DEF UrcInv, ClaimInv
  <2>2. faults' \in Nat
    BY <1>1, UrcFacts
  <2> QED BY <1>1, <1>3, <1>4, <2>1, <2>2 DEF UrcInv, ClaimInv
<1> QED BY <1>7, <1>8, <1>9, <1>10 DEF UrcInv

(* ring_buf_get_finish removes what was claimed, if it was not reset. *)
LEMMA FinishKeeps == UrcInv /\ FlushFinish => UrcInv'
<1> SUFFICES ASSUME UrcInv, FlushFinish PROVE UrcInv'
  OBVIOUS
<1>1. /\ pc' = "flush" /\ sending = <<>> /\ claimed' = 0
      /\ urc_buf' = SubSeq(urc_buf, claimed + 1, Len(urc_buf))
      /\ UNCHANGED <<sending, buffered_urcs, urc_ctx, sent, sentTo, urcs, dropped, lost,
                     urcPc, faults, selects>>
  BY DEF FlushFinish, queueVars, cmdVars, sockVars, sendVars, envVars
<1>2. /\ urc_buf' \in Seq(1..MaxUrcs) /\ Len(urc_buf') = Len(urc_buf) - claimed
      /\ Numbered(urc_buf', urcs) /\ Rest(urc_buf', 0) = Rest(urc_buf, claimed)
  <2>1. /\ MaxUrcs \in Nat /\ urcs \in Nat /\ urc_buf \in Seq(1..MaxUrcs)
        /\ Numbered(urc_buf, urcs) /\ claimed \in 0..Len(urc_buf)
    BY UrcFacts
  <2> DEFINE r == SubSeq(urc_buf, claimed + 1, Len(urc_buf))
  <2>2. /\ r \in Seq(1..MaxUrcs) /\ Len(r) = Len(urc_buf) - claimed
        /\ Numbered(r, urcs) /\ Rest(r, 0) = Rest(urc_buf, claimed)
    BY <2>1, RestFacts
  <2> HIDE DEF r
  <2>3. urc_buf' = r
    BY <1>1 DEF r
  <2> QED BY <2>2, <2>3
<1>3. Unclaimed' = Unclaimed /\ InFlight' = InFlight /\ OwnUrcs' = OwnUrcs /\ Gone' = Gone
  BY <1>1, <1>2 DEF Unclaimed, InFlight, OwnUrcs, Gone
<1>4. TypeUrcs'
  <2>1. Len(urc_buf') <= UrcCap /\ 0 \in 0..Len(urc_buf')
    BY <1>2, UrcFacts
  <2> QED BY <1>1, <1>2, <2>1, UrcFacts DEF TypeUrcs
<1>5. OrderInv'
  BY <1>1, <1>2, <1>3, UrcFacts DEF OrderInv
<1>6. PlaceInv'
  BY <1>1, <1>3 DEF UrcInv, PlaceInv
<1>7. ClaimInv'
  <2>1. \A i \in 1..claimed' : urc_buf'[i] \in sent' \cup InFlight' \cup lost'
    BY <1>1
  <2> QED BY <1>1, <2>1, UrcFacts DEF UrcInv, ClaimInv
<1> QED BY <1>4, <1>5, <1>6, <1>7 DEF UrcInv

(* The next URC of this context is sent, or lost. *)
LEMMA ListKeeps == UrcInv /\ ControlInv /\ FlushList => UrcInv'
<1> SUFFICES ASSUME UrcInv, ControlInv, FlushList PROVE UrcInv'
  OBVIOUS
<1>1. /\ pc = "flushList" /\ claimed = 0 /\ sending = <<>>
      /\ UNCHANGED <<urc_buf, claimed, sending, urc_ctx, sent, urcs, dropped, urcPc, selects>>
  BY DEF FlushList, UrcInv, ClaimInv, queueVars, cmdVars, sockVars, sendVars
<1>2. pc' # "flushSend"
  BY <1>1 DEF FlushList, ControlInv, LockInv, Flushing
<1>3. Unclaimed' = Unclaimed /\ InFlight' = InFlight
  BY <1>1 DEF Unclaimed, InFlight
<1>4. OrderInv'
  BY <1>1, <1>3 DEF UrcInv, OrderInv
<1>5. CASE UNCHANGED <<sentTo, lost, buffered_urcs, faults>>
  <2>1. OwnUrcs' = OwnUrcs /\ Gone' = Gone
    BY <1>1, <1>5 DEF OwnUrcs, Gone
  <2> QED BY <1>1, <1>2, <1>3, <1>4, <1>5, <2>1 DEF UrcInv, TypeUrcs, ClaimInv, PlaceInv
<1>6. CASE buffered_urcs # <<>> /\ buffered_urcs' = Tail(buffered_urcs)
  <2> DEFINE h == Head(buffered_urcs)
  <2>1. /\ buffered_urcs \in Seq(1..MaxUrcs) /\ Listed(buffered_urcs, sentTo)
        /\ Placed(sent, OwnUrcs, Gone, Unclaimed, InFlight, urcs)
    BY UrcFacts
  <2>2. sentTo \subseteq Nat
    BY <2>1 DEF Placed, OwnUrcs
  <2>3. /\ buffered_urcs' \in Seq(1..MaxUrcs) /\ h \in 1..MaxUrcs
        /\ Elems(buffered_urcs) = Elems(buffered_urcs') \cup {h}
        /\ h \notin Elems(buffered_urcs') \cup sentTo
        /\ Listed(buffered_urcs', sentTo) /\ Listed(buffered_urcs', sentTo \cup {h})
    BY <1>6, <2>1, <2>2, UrcFacts, ListTaken
  <2>4. TypeUrcs'
    BY <1>1, <2>3, UrcFacts DEF TypeUrcs
  <2>5. CASE sentTo' = sentTo \cup {h} /\ UNCHANGED <<lost, faults>>
    <3>1. OwnUrcs' = OwnUrcs /\ Gone' = Gone
      BY <1>1, <2>3, <2>5 DEF OwnUrcs, Gone
    <3>2. ClaimInv'
      BY <1>1, <1>2, <1>3, <2>5 DEF UrcInv, ClaimInv
    <3>3. PlaceInv'
      BY <1>1, <1>3, <2>3, <2>5, <3>1 DEF UrcInv, PlaceInv
    <3> QED BY <1>4, <2>4, <3>2, <3>3 DEF UrcInv
  <2>6. CASE lost' = lost \cup {h} /\ faults' = faults + 1 /\ UNCHANGED sentTo
    <3>1. Gone' = Gone \cup {h} /\ OwnUrcs = OwnUrcs' \cup {h} /\ h \notin OwnUrcs'
      BY <1>1, <2>3, <2>6 DEF OwnUrcs, Gone
    <3>2. h \notin Gone /\ h \notin Unclaimed /\ h \notin InFlight /\ h # 0
      BY <2>1, <2>3, <3>1 DEF Placed
    <3>3. h \notin sent
      BY <2>1, <3>1 DEF Placed
    <3>4. Placed(sent, OwnUrcs', Gone', Unclaimed, InFlight, urcs)
      <4>1. (sent \cup OwnUrcs' \cup Gone' \cup Unclaimed \cup InFlight) \ {0} = 1..urcs
        BY <2>1, <3>1 DEF Placed
      <4> QED BY <2>1, <3>1, <3>2, <3>3, <4>1 DEF Placed
    <3>5. ClaimInv'
      BY <1>1, <1>2, <1>3, <2>6, UrcFacts DEF UrcInv, ClaimInv
    <3>6. lost' \cap dropped' = {} /\ faults' > 0
      BY <1>1, <2>6, <3>2, UrcFacts DEF UrcInv, PlaceInv, Gone
    <3>7. PlaceInv'
      BY <1>1, <1>3, <2>3, <2>6, <3>4, <3>6 DEF UrcInv, PlaceInv
    <3> QED BY <1>4, <2>4, <3>5, <3>7 DEF UrcInv
  <2> QED BY <1>6, <2>5, <2>6 DEF FlushList, Fault
<1> QED BY <1>5, <1>6 DEF FlushList

(* The channel for URCs changes only when none is transmitted. *)
LEMMA SelectKeeps == UrcInv /\ SelectUrcChannel => UrcInv'
<1> SUFFICES ASSUME UrcInv, SelectUrcChannel PROVE UrcInv'
  OBVIOUS
<1>1. /\ pc = "none" /\ pc' = pc /\ selects' = selects + 1 /\ selects \in Nat
      /\ UNCHANGED <<urc_buf, claimed, sending, buffered_urcs, sent, sentTo, urcs, dropped,
                     lost, urcPc, faults>>
  BY UrcFacts DEF SelectUrcChannel, sendVars
<1>2. urc_ctx' \in BOOLEAN
  BY DEF SelectUrcChannel
<1>3. /\ Unclaimed' = Unclaimed /\ InFlight' = InFlight /\ OwnUrcs' = OwnUrcs /\ Gone' = Gone
  BY <1>1 DEF Unclaimed, InFlight, OwnUrcs, Gone
<1>4. selects' \in Nat /\ selects' > 0
  BY <1>1
<1>5. TypeUrcs' /\ OrderInv'
  BY <1>1, <1>2, <1>3, UrcFacts DEF UrcInv, TypeUrcs, OrderInv
<1>6. ClaimInv'
  BY <1>1, <1>3, <1>4 DEF UrcInv, ClaimInv
<1>7. PlaceInv'
  BY <1>1, <1>3, <1>4 DEF UrcInv, PlaceInv
<1> QED BY <1>5, <1>6, <1>7 DEF UrcInv

-----------------------------------------------------------------------------
(* The theorems about URCs. *)

(* Where each URC is stays known, in every step. *)
THEOREM UrcInvariant == Spec => []UrcInv
<1>1. Init => UrcInv
  <2> SUFFICES ASSUME Init PROVE UrcInv
    OBVIOUS
  <2>1. /\ urc_buf = <<>> /\ claimed = 0 /\ sending = <<>> /\ buffered_urcs = <<>>
        /\ urcPc = "none" /\ sent = {} /\ sentTo = {} /\ urcs = 0 /\ dropped = {}
        /\ lost = {} /\ faults = 0 /\ selects = 0 /\ pc = "none"
    BY DEF Init
  <2>2. /\ Unclaimed = {} /\ InFlight = {} /\ OwnUrcs = {} /\ Gone = {} /\ 1..urcs = {}
        /\ Listed(buffered_urcs, sentTo)
    BY <2>1 DEF Unclaimed, InFlight, OwnUrcs, Gone, Rest, Elems, Listed, Increasing
  <2>3. UrcCap \in Nat /\ MaxUrcs \in Nat
    BY AtHostAssumption
  <2>4. TypeUrcs
    <3>1. <<>> \in Seq(1..MaxUrcs) /\ <<>> \in Seq(0..MaxUrcs) /\ Len(<<>>) = 0
      OBVIOUS
    <3>2. urc_ctx \in BOOLEAN
      BY Zenon DEF Init
    <3> QED BY <2>1, <2>3, <3>1, <3>2 DEF TypeUrcs
  <2>5. ClaimInv
    <3>1. urc_ctx = TRUE
      BY Zenon DEF Init
    <3> QED BY <2>1, <2>3, <3>1 DEF ClaimInv
  <2>6. OrderInv
    BY <2>1, <2>2 DEF OrderInv, Numbered, Increasing, Ordered
  <2>7. PlaceInv
    BY <2>1, <2>2 DEF PlaceInv, Placed
  <2> QED BY <2>4, <2>5, <2>6, <2>7 DEF UrcInv
<1>2. UrcInv /\ ControlInv /\ [Next]_vars => UrcInv'
  <2> SUFFICES ASSUME UrcInv, ControlInv, [Next]_vars PROVE UrcInv'
    OBVIOUS
  <2>1. CASE UrcStays
    <3>1. Unclaimed' = Unclaimed /\ InFlight' = InFlight /\ OwnUrcs' = OwnUrcs /\ Gone' = Gone
      BY <2>1 DEF UrcStays, Unclaimed, InFlight, OwnUrcs, Gone
    <3> QED BY <2>1, <3>1 DEF UrcStays, UrcInv, TypeUrcs, ClaimInv, OrderInv, PlaceInv
  <2>2. CASE FlushSend
    BY <2>2, SendKeeps, SendFails DEF FlushSend, Fault
  <2>3. LockInv
    BY DEF ControlInv
  <2> QED BY <2>1, <2>2, <2>3, UrcFrame, PutKeeps, PutToKeeps, ClaimKeeps, FinishKeeps,
             ListKeeps, SelectKeeps
<1> QED BY <1>1, <1>2, ControlInvariant, PTL DEF Spec

(* Every URC is sent, buffered, dropped or lost, and those of urc_buf are   *)
(* sent in their order, also when it is reset or put to while send_urcs     *)
(* transmits from it.  One is dropped only if urc_buf overflows, and lost   *)
(* only after a failed transmission or allocation or a change of the URC    *)
(* channel, and not sent later.                                             *)
THEOREM UrcsCorrect == Spec => []UrcsAccounted
<1>1. UrcInv => UrcsAccounted
  <2> SUFFICES ASSUME UrcInv PROVE UrcsAccounted
    OBVIOUS
  <2> DEFINE rest == SubSeq(urc_buf, claimed + 1, Len(urc_buf))
  <2>1. /\ \A i \in 1..Len(urc_buf) : i <= claimed \/ urc_buf[i] \in Unclaimed
        /\ rest \in Seq(1..MaxUrcs) /\ Rest(rest, 0) = Unclaimed
    BY UrcFacts, RestFacts, SMTT(30) DEF Unclaimed
  <2> HIDE DEF rest
  <2>2. Range(rest) = Unclaimed
    BY <2>1 DEF Range, Rest
  <2>3. Range(sending) \ {0} = InFlight /\ Range(buffered_urcs) \ {0} = Elems(buffered_urcs)
    BY UrcFacts, SMTT(30) DEF Range, InFlight, Elems
  <2>4. /\ Unclaimed \subseteq Range(urc_buf)
        /\ Range(urc_buf) \subseteq Unclaimed \cup sent \cup InFlight \cup lost
    <3>1. /\ DOMAIN urc_buf = 1..Len(urc_buf)
          /\ \A i \in claimed + 1 .. Len(urc_buf) : i \in 1..Len(urc_buf)
      BY UrcFacts
    <3>2. \A i \in 1..Len(urc_buf) : i <= claimed => i \in 1..claimed
      BY UrcFacts
    <3>3. \A i \in 1..claimed : urc_buf[i] \in sent \cup InFlight \cup lost
      BY DEF UrcInv, ClaimInv
    <3>4. Unclaimed \subseteq Range(urc_buf)
      BY <3>1 DEF Unclaimed, Rest, Range
    <3>5. Range(urc_buf) \subseteq Unclaimed \cup sent \cup InFlight \cup lost
      BY <2>1, <3>1, <3>2, <3>3 DEF Range
    <3> QED BY <3>4, <3>5
  <2>5. /\ Placed(sent, OwnUrcs, Gone, Unclaimed, InFlight, urcs)
        /\ Ordered(sent, InFlight, Unclaimed)
    BY UrcFacts
  <2>6. (sent \cup sentTo \cup dropped \cup lost \cup Range(urc_buf)
           \cup Range(sending) \cup Range(buffered_urcs)) \ {0} = 1..urcs
    <3>1. (sent \cup OwnUrcs \cup Gone \cup Unclaimed \cup InFlight) \ {0} = 1..urcs
      BY <2>5 DEF Placed
    <3> QED BY <2>3, <2>4, <3>1 DEF OwnUrcs, Gone
  <2>7. \A n \in Range(sending) \cup Range(rest) : n = 0 \/ \A m \in sent : m < n
    <3> SUFFICES ASSUME NEW n \in Range(sending) \cup Range(rest), n # 0, NEW m \in sent
                 PROVE  m < n
      OBVIOUS
    <3>1. n \in InFlight \cup Unclaimed
      BY <2>2, <2>3
    <3>2. m = 0 \/ m < n
      BY <2>5, <3>1 DEF Ordered
    <3>3. n \in Nat /\ n > 0
      BY <2>5, <3>1 DEF Placed
    <3> QED BY <3>2, <3>3
  <2>8. /\ (sent \cup sentTo) \cap (dropped \cup lost) = {}
        /\ lost \cap (dropped \cup Unsent \cup Range(buffered_urcs)) = {}
    <3>1. Unsent = Unclaimed
      BY DEF Unsent, Unclaimed, Rest
    <3>2. lost \cap dropped = {}
      BY DEF UrcInv, PlaceInv
    <3>3. \A x \in Range(buffered_urcs) : x \in OwnUrcs \/ x = 0
      BY <2>3 DEF OwnUrcs
    <3> QED BY <2>5, <3>1, <3>2, <3>3 DEF Placed, OwnUrcs, Gone
  <2>9. /\ dropped # {} => urcs > UrcCap
        /\ lost # {} => faults > 0 \/ selects > 0
    BY DEF UrcInv, PlaceInv
  <2> QED BY <2>6, <2>7, <2>8, <2>9 DEF UrcsAccounted, rest
<1> QED BY <1>1, UrcInvariant, PTL

(* The socket's flags keep their types. *)
LEMMA SocketStep == TypeSocket /\ [Next]_vars => TypeSocket'
<1> SUFFICES ASSUME TypeSocket, [Next]_vars PROVE TypeSocket'
  OBVIOUS
<1> USE DEF queueVars, cmdVars, urcVars, sockVars, sendVars, envVars, TypeSocket
<1>1. CASE Environment
  BY <1>1 DEF Environment, SelectUrcChannel, StartWorkQueue, HostSends, SocketEvent, PollCallback,
     BackgroundReady, UrcPut, UrcPutTo, UrcCheck, UrcNotify, IdleTimer, vars
<1>2. CASE Read
  BY <1>2 DEF Read, RxStart, RxEnd, RxChar, RxCommand, RxInvalid, rsp_send,
     RefuseSend, CommandAnswered, CommandContinues, CommandFinish, CommandDone,
     RxData, ExitDataMode, XDataMode
<1>3. CASE Work
  BY <1>3 DEF Work, HostStart, HostMessage, HostEnd, FlushClaim, FlushSend,
     FlushFinish, FlushList, IdleWorks
<1>4. CASE Poll
  BY <1>4 DEF Poll, PollStart, PollWork, PollQueue, Lock, Locked, RecvStart,
     RecvHeader, RecvData, RecvEnd, RecvFails
<1> QED BY <1>1, <1>2, <1>3, <1>4, NextSplit

(* Every variable keeps its type: no work item is queued twice, urc_buf and *)
(* sm_at_host_msgq stay within their size, and executing_lock is never      *)
(* released more often than it was taken.                                   *)
THEOREM TypeCorrect == Spec => []TypeOK
<1>1. Init => TypeSocket
  <2>1. Init => idle_work_list \in BOOLEAN
    BY Zenon DEF Init
  <2>2. Init => sock \in [unread : BOOLEAN, armed : BOOLEAN, revents : BOOLEAN,
                         delayed_revents : BOOLEAN, dull : BOOLEAN]
    BY DEF Init
  <2> QED BY <2>1, <2>2 DEF TypeSocket
<1>2. ControlInv /\ UrcInv /\ TypeSocket => TypeOK
  BY DEF ControlInv, UrcInv, TypeOK
<1> QED BY <1>1, <1>2, SocketStep, ControlInvariant, UrcInvariant, PTL DEF Spec
=============================================================================
