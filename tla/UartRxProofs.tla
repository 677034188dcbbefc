---------------------------- MODULE UartRxProofs ----------------------------
(***************************************************************************)
(* Proofs about UartRx, for every number of blocks, buffer size and byte   *)
(* bound: the type invariant and the exactness of the reference counters,  *)
(* on which the rest depends; that the event queue never overflows while   *)
(* no block is cut into more events than it is budgeted for; and that the  *)
(* reader of the pipe gets the host's bytes in order, none twice and none  *)
(* lost without being counted.                                             *)
(***************************************************************************)
EXTENDS UartRx, FiniteSetTheorems, FunctionTheorems, SequenceTheorems, TLAPS

(* What ties the driver and the thread to the buffers they hold. *)
BuffersHeld ==
    /\ drv \in {"off", "ended"} => cur = None
    /\ drv = "on" => cur # None
    /\ cur = None => nxt = None /\ wr = 0 /\ rd = 0
    /\ req => nxt = None /\ drv = "on"
    /\ pc = "copy" => ev \in Event
    /\ pc # "copy" => ev = NoEvent

IInv == TypeOK /\ BuffersHeld /\ RefCountsExact

-----------------------------------------------------------------------------
(* Lemmas on the number of queued events of a block.                        *)

(* The events of a block are a finite set of queue positions. *)
LEMMA QueuedFinite ==
    ASSUME NEW q \in Seq(Event), NEW b
    PROVE  /\ IsFiniteSet(Queued(q, b))
           /\ Cardinality(Queued(q, b)) \in Nat
  <1>1. Queued(q, b) \in SUBSET (1..Len(q))
    BY LenProperties DEF Queued
  <1>2. IsFiniteSet(1..Len(q))
    BY FS_Interval, LenProperties
  <1>3. IsFiniteSet(Queued(q, b))
    BY <1>1, <1>2, FS_Subset
  <1> QED  BY <1>3, FS_CardinalityType

(* k_msgq_put: the event added counts for its block. *)
LEMMA QueuedAppend ==
    ASSUME NEW q \in Seq(Event), NEW e \in Event, NEW b
    PROVE  Cardinality(Queued(Append(q, e), b))
             = Cardinality(Queued(q, b)) + One(e.blk = b)
  <1> DEFINE n == Len(q) + 1
             Q == Queued(q, b)
  <1>1. /\ DOMAIN Append(q, e) = 1..n
        /\ DOMAIN q = 1..Len(q)
        /\ Len(q) \in Nat
        /\ \A i \in 1..Len(q) : Append(q, e)[i] = q[i]
        /\ Append(q, e)[n] = e
    BY AppendProperties, LenProperties
  <1>2. IsFiniteSet(Q) /\ Cardinality(Q) \in Nat
    BY QueuedFinite
  <1>3. n \notin Q
    BY <1>1 DEF Queued
  <1>4. CASE e.blk = b
    <2>1. Queued(Append(q, e), b) = Q \cup {n}
      BY <1>1, <1>4 DEF Queued
    <2> QED  BY <1>2, <1>3, <1>4, <2>1, FS_AddElement, ZenonT(30) DEF One
  <1>5. CASE e.blk # b
    <2>1. Queued(Append(q, e), b) = Q
      BY <1>1, <1>5 DEF Queued
    <2> QED  BY <1>2, <1>5, <2>1 DEF One
  <1> QED  BY <1>4, <1>5

(* k_msgq_get: the event taken no longer counts. *)
LEMMA QueuedTail ==
    ASSUME NEW q \in Seq(Event), q # <<>>, NEW b
    PROVE  Cardinality(Queued(q, b))
             = Cardinality(Queued(Tail(q), b)) + One(Head(q).blk = b)
  <1> DEFINE S == Queued(Tail(q), b)
             T == Queued(q, b) \ {1}
             f == [i \in S |-> i + 1]
  <1>1. /\ DOMAIN q = 1..Len(q)
        /\ Len(q) \in Nat \ {0}
        /\ Tail(q) \in Seq(Event)
        /\ DOMAIN Tail(q) = 1..(Len(q) - 1)
        /\ \A i \in 1..(Len(q) - 1) : Tail(q)[i] = q[i + 1]
        /\ Head(q) = q[1]
    <2>1. Tail(q) \in Seq(Event) /\ Len(Tail(q)) = Len(q) - 1
          /\ \A i \in 1..Len(Tail(q)) : Tail(q)[i] = q[i + 1]
      BY HeadTailProperties
    <2>2. DOMAIN Tail(q) = 1..Len(Tail(q))
      BY <2>1, LenProperties
    <2> QED  BY <2>1, <2>2, LenProperties, EmptySeq
  <1>2. \A i \in S : i \in Int /\ i + 1 \in T
    BY <1>1 DEF Queued
  <1>3. \A j \in T : j - 1 \in S /\ (j - 1) + 1 = j
    BY <1>1 DEF Queued
  <1>4. f \in Bijection(S, T)
    <2>1. f \in [S -> T]
      BY <1>2
    <2>2. \A i, j \in S : f[i] = f[j] => i = j
      BY <1>2
    <2>3. \A j \in T : \E i \in S : f[i] = j
      BY <1>3
    <2> QED  BY <2>1, <2>2, <2>3 DEF Bijection, Injection, Surjection, IsInjective
  <1>5. IsFiniteSet(S) /\ Cardinality(S) \in Nat
    BY <1>1, QueuedFinite
  <1>6. Cardinality(T) = Cardinality(S)
    BY <1>4, <1>5, FS_Bijection DEF ExistsBijection
  <1>7. IsFiniteSet(Queued(q, b)) /\ Cardinality(Queued(q, b)) \in Nat
    BY QueuedFinite
  <1>8. 1 \in Queued(q, b) <=> Head(q).blk = b
    BY <1>1 DEF Queued
  <1> HIDE DEF S, T, f
  <1>9. Cardinality(T) = IF 1 \in Queued(q, b) THEN Cardinality(Queued(q, b)) - 1
                                               ELSE Cardinality(Queued(q, b))
    BY <1>7, FS_RemoveElement DEF T
  <1> QED  BY <1>5, <1>6, <1>7, <1>8, <1>9 DEF One, S

(* k_msgq_put_front: the event put back counts again. *)
LEMMA QueuedPutFront ==
    ASSUME NEW q \in Seq(Event), NEW e \in Event, NEW b
    PROVE  /\ <<e>> \o q \in Seq(Event)
           /\ Cardinality(Queued(<<e>> \o q, b))
                = Cardinality(Queued(q, b)) + One(e.blk = b)
  <1> DEFINE p == <<e>> \o q
  <1>1. <<e>> \in Seq(Event) /\ Len(<<e>>) = 1 /\ <<e>>[1] = e
    OBVIOUS
  <1>2. /\ p \in Seq(Event)
        /\ Len(p) = Len(q) + 1
        /\ \A i \in 1..(Len(q) + 1) : p[i] = IF i <= 1 THEN e ELSE q[i - 1]
    BY <1>1, ConcatProperties
  <1>3. Len(q) \in Nat
    BY LenProperties
  <1>4. p # <<>> /\ Head(p) = e
    BY <1>2, <1>3
  <1> HIDE DEF p
  <1>5. Tail(p) = q
    <2>1. Tail(p) \in Seq(Event) /\ Len(Tail(p)) = Len(q)
          /\ \A i \in 1..Len(Tail(p)) : Tail(p)[i] = p[i + 1]
      BY <1>2, <1>3, <1>4, HeadTailProperties
    <2>2. \A i \in 1..Len(q) : Tail(p)[i] = q[i]
      BY <1>2, <1>3, <2>1
    <2> QED  BY <2>1, <2>2, SeqEqual
  <1>6. Cardinality(Queued(p, b))
          = Cardinality(Queued(Tail(p), b)) + One(Head(p).blk = b)
    BY <1>2, <1>4, QueuedTail
  <1> QED  BY <1>2, <1>4, <1>5, <1>6 DEF p

-----------------------------------------------------------------------------
(* The type invariant and what the driver and the thread hold.              *)

(* They hold initially. *)
LEMMA InitIInv == Init => IInv
  <1> SUFFICES ASSUME Init PROVE IInv
    OBVIOUS
  <1> USE DEF Init
  <1>1. TypeOK
    <2>1. TypeSlab    BY DEF TypeSlab
    <2>2. TypeMem     BY SizeAssumption DEF TypeMem
    <2>3. TypeQueue   BY EmptySeq DEF TypeQueue
    <2>4. TypeFlags   BY DEF TypeFlags
    <2>5. TypeThread  BY DEF TypeThread
    <2>6. TypeDriver  BY SizeAssumption DEF TypeDriver
    <2> QED  BY <2>1, <2>2, <2>3, <2>4, <2>5, <2>6 DEF TypeOK
  <1>2. BuffersHeld
    BY DEF BuffersHeld
  <1>3. RefCountsExact
    <2> SUFFICES ASSUME NEW b \in Blocks
                 PROVE  ref[b] = Holders(b) /\ (b \in free <=> ref[b] = 0)
      BY DEF RefCountsExact
    <2>1. Queued(rx_event_queue, b) = {}
      BY DEF Queued
    <2>2. Cardinality(Queued(rx_event_queue, b)) = 0
      BY <2>1, FS_EmptySet
    <2> QED  BY <2>2, SlabAssumption DEF Holders, One, NoEvent
  <1> QED  BY <1>1, <1>2, <1>3 DEF IInv

(* Only the driver writes a block, and only within its bounds. *)
LEMMA NextTypeMem == IInv /\ [Next]_vars => TypeMem'
  <1> SUFFICES ASSUME IInv, [Next]_vars PROVE TypeMem'
    OBVIOUS
  <1>1. CASE DriverByte
    <2>1. cur \in Blocks /\ wr + 1 \in 1..BufSize /\ sent + 1 \in 0..MaxBytes
      BY <1>1, SizeAssumption DEF DriverByte, IInv, TypeOK, TypeDriver, BuffersHeld
    <2> QED  BY <1>1, <2>1 DEF DriverByte, IInv, TypeOK, TypeMem
  <1>2. CASE ~DriverByte
    <2>1. UNCHANGED mem
      BY <1>2 DEF Next, Driver, Thread, RxRdy, RxBufRequest, RxBufReleased,
         RxBufReleasedOnStop, RxDisabled, ReaderRuns, ReceiveGet, ReceiveCopy,
         ReceiveCheck, ReceiveReturn, RxEnable, RxEnableSetBit, PipeOpen,
         StartWorkQueue, PipeClose, RxDisable, RxDisableDone, vars
    <2> QED  BY <2>1 DEF IInv, TypeOK, TypeMem
  <1> QED  BY <1>1, <1>2

(* An event is queued by RxRdy, taken by ReceiveGet, put back by            *)
(* ReceiveCopy, and well-formed throughout.                                 *)
LEMMA NextTypeQueue == IInv /\ [Next]_vars => TypeQueue'
  <1> SUFFICES ASSUME IInv, [Next]_vars PROVE TypeQueue'
    OBVIOUS
  <1>0. rx_event_queue \in Seq(Event)
    BY DEF IInv, TypeOK, TypeQueue
  <1>1. CASE RxRdy
    <2> DEFINE e == [blk |-> cur, off |-> rd, len |-> wr - rd]
    <2>1. e \in Event
      BY <1>1, SizeAssumption DEF RxRdy, Event, IInv, TypeOK, TypeDriver, BuffersHeld
    <2> HIDE DEF e
    <2>2. Append(rx_event_queue, e) \in Seq(Event)
      BY <1>0, <2>1, AppendProperties
    <2> QED  BY <1>0, <1>1, <2>2 DEF RxRdy, TypeQueue, e
  <1>2. CASE ReceiveGet
    BY <1>0, <1>2, HeadTailProperties DEF ReceiveGet, TypeQueue
  <1>3. CASE ReceiveCopy
    <2> DEFINE n == CopySize(want, ev.len)
               rest == [blk |-> ev.blk, off |-> ev.off + n, len |-> ev.len - n]
    <2>0. ev \in Event /\ want \in Nat
      BY <1>3 DEF ReceiveCopy, IInv, TypeOK, TypeThread, BuffersHeld
    <2>1. rest \in Event
      BY <2>0 DEF Event, CopySize
    <2> HIDE DEF rest, n
    <2>2. <<rest>> \o rx_event_queue \in Seq(Event)
      BY <1>0, <2>1, QueuedPutFront
    <2> QED  BY <1>0, <1>3, <2>2 DEF ReceiveCopy, k_msgq_put_front, TypeQueue, rest, n
  <1>4. CASE ~RxRdy /\ ~ReceiveGet /\ ~ReceiveCopy
    <2>1. UNCHANGED rx_event_queue
      BY <1>4 DEF Next, Driver, Thread, DriverByte, RxBufRequest, RxBufReleased,
         RxBufReleasedOnStop, RxDisabled, ReaderRuns,
         ReceiveCheck, ReceiveReturn, RxEnable, RxEnableSetBit, PipeOpen,
         StartWorkQueue, PipeClose, RxDisable, RxDisableDone, vars
    <2> QED  BY <1>0, <2>1 DEF TypeQueue
  <1> QED  BY <1>1, <1>2, <1>3, <1>4

(* The remaining types, and what the driver and the thread hold. *)
LEMMA NextHeld == IInv /\ [Next]_vars =>
                    TypeSlab' /\ TypeFlags' /\ TypeThread' /\ TypeDriver' /\ BuffersHeld'
  <1> SUFFICES ASSUME TypeSlab, TypeFlags, TypeThread, TypeDriver, TypeQueue,
                      BuffersHeld, [Next]_vars
               PROVE  TypeSlab' /\ TypeFlags' /\ TypeThread' /\ TypeDriver'
                        /\ BuffersHeld'
    BY DEF IInv, TypeOK
  <1> USE SlabAssumption, SizeAssumption
  <1>1. CASE DriverByte
    BY <1>1 DEF TypeSlab, TypeFlags, TypeThread, TypeDriver, BuffersHeld,
         DriverByte, slabVars, bitVars, pipeVars, threadVars, ghostVars
  <1>2. CASE RxRdy
    <2>11. TypeSlab'
      BY <1>2 DEF RxRdy, rx_buf_ref, slabVars, TypeSlab
    <2>12. TypeFlags'
      BY <1>2 DEF RxRdy, bitVars, pipeVars, TypeFlags
    <2>13. TypeThread'
      BY <1>2 DEF RxRdy, threadVars, TypeThread
    <2>14. TypeDriver'
      BY <1>2 DEF RxRdy, threadVars, TypeDriver
    <2>15. BuffersHeld'
      BY <1>2 DEF RxRdy, threadVars, TypeDriver, BuffersHeld
    <2> QED  BY <2>11, <2>12, <2>13, <2>14, <2>15
  <1>3. CASE RxBufRequest
    <2>11. TypeSlab'
      BY <1>3 DEF RxBufRequest, rx_buf_alloc, slabVars, ghostVars, TypeSlab
    <2>12. TypeFlags'
      BY <1>3 DEF RxBufRequest, bitVars, pipeVars, TypeFlags
    <2>13. TypeThread'
      BY <1>3 DEF RxBufRequest, threadVars, TypeThread
    <2>14. TypeDriver'
      BY <1>3 DEF RxBufRequest, rx_buf_alloc, TypeSlab, TypeDriver
    <2>15. BuffersHeld'
      BY <1>3 DEF RxBufRequest, threadVars, BuffersHeld
    <2> QED  BY <2>11, <2>12, <2>13, <2>14, <2>15
  <1>4. CASE RxBufReleased
    BY <1>4 DEF TypeSlab, TypeFlags, TypeThread, TypeDriver, BuffersHeld,
         RxBufReleased, rx_buf_unref, slabVars, bitVars, pipeVars, threadVars,
         ghostVars
  <1>5. CASE RxBufReleasedOnStop
    BY <1>5 DEF TypeSlab, TypeFlags, TypeThread, TypeDriver, BuffersHeld,
         RxBufReleasedOnStop, rx_buf_unref, slabVars, bitVars, pipeVars,
         threadVars, ghostVars
  <1>6. CASE RxDisabled
    BY <1>6, ZenonT(30) DEF TypeSlab, TypeFlags, TypeThread, TypeDriver, BuffersHeld,
         RxDisabled, slabVars, bitVars, pipeVars, threadVars, ghostVars
  <1>7. CASE ReaderRuns
    BY <1>7 DEF TypeSlab, TypeFlags, TypeThread, TypeDriver, BuffersHeld,
         ReaderRuns, slabVars, bitVars, pipeVars, drvVars, ghostVars
  <1>8. CASE ReceiveGet
    <2>1. rx_event_queue # <<>> => Head(rx_event_queue) \in Event
      BY HeadTailProperties DEF TypeQueue
    <2> QED  BY <1>8, <2>1 DEF TypeSlab, TypeFlags, TypeThread, TypeDriver, BuffersHeld,
         ReceiveGet, slabVars, bitVars, pipeVars, drvVars, ghostVars
  <1>9. CASE ReceiveCopy
    <2> DEFINE n == CopySize(want, ev.len)
    <2>0. ev \in Event /\ want \in Nat /\ received \in Nat
      BY <1>9 DEF ReceiveCopy, TypeThread, BuffersHeld
    <2>1. want - n \in Nat /\ received + n \in Nat
      BY <2>0 DEF Event, CopySize
    <2>2. want' = want - n /\ received' = received + n
      BY <1>9 DEF ReceiveCopy
    <2> HIDE DEF n
    <2>11. TypeSlab'
      BY <1>9, <2>0, SMTT(30) DEF ReceiveCopy, rx_buf_unref, slabVars, TypeSlab, Event
    <2>12. TypeFlags'
      BY <1>9 DEF ReceiveCopy, bitVars, pipeVars, drvVars, TypeFlags
    <2>13. TypeThread'
      BY <1>9, <2>1, <2>2 DEF ReceiveCopy, n, TypeThread
    <2>14. TypeDriver'
      BY <1>9 DEF ReceiveCopy, drvVars, TypeDriver
    <2>15. BuffersHeld'
      BY <1>9 DEF ReceiveCopy, drvVars, BuffersHeld
    <2> QED  BY <2>11, <2>12, <2>13, <2>14, <2>15
  <1>10. CASE ReceiveCheck
    <2>11. TypeSlab'
      BY <1>10 DEF ReceiveCheck, ghostVars, slabVars, TypeSlab
    <2>12. TypeFlags'
      BY <1>10 DEF ReceiveCheck, bitVars, pipeVars, drvVars, ghostVars, TypeFlags
    <2>13. TypeThread'
      BY <1>10 DEF ReceiveCheck, threadVars, TypeThread
    <2>14. TypeDriver'
      BY <1>10 DEF ReceiveCheck, drvVars, TypeDriver
    <2>15. BuffersHeld'
      BY <1>10 DEF ReceiveCheck, drvVars, BuffersHeld
    <2> QED  BY <2>11, <2>12, <2>13, <2>14, <2>15
  <1>11. CASE ReceiveReturn
    <2>11. TypeSlab'
      BY <1>11 DEF ReceiveReturn, ghostVars, slabVars, TypeSlab
    <2>12. TypeFlags'
      BY <1>11 DEF ReceiveReturn, bitVars, pipeVars, drvVars, ghostVars, TypeFlags
    <2>13. TypeThread'
      BY <1>11 DEF ReceiveReturn, threadVars, TypeThread
    <2>14. TypeDriver'
      BY <1>11 DEF ReceiveReturn, drvVars, TypeDriver
    <2>15. BuffersHeld'
      BY <1>11 DEF ReceiveReturn, drvVars, BuffersHeld
    <2> QED  BY <2>11, <2>12, <2>13, <2>14, <2>15
  <1>12. CASE RxEnable
    <2>11. TypeSlab'
      BY <1>12 DEF RxEnable, rx_buf_alloc, slabVars, TypeSlab
    <2>12. TypeFlags'
      BY <1>12 DEF RxEnable, EnableReturns, TypeFlags
    <2>13. TypeThread'
      BY <1>12 DEF RxEnable, EnableReturns, TypeThread
    <2>14. TypeDriver'
      BY <1>12 DEF RxEnable, rx_buf_alloc, TypeSlab, TypeDriver
    <2>15. BuffersHeld'
      BY <1>12 DEF RxEnable, EnableReturns, rx_buf_alloc, TypeSlab, BuffersHeld
    <2> QED  BY <2>11, <2>12, <2>13, <2>14, <2>15
  <1>13. CASE RxEnableSetBit
    BY <1>13, ZenonT(30) DEF TypeSlab, TypeFlags, TypeThread, TypeDriver, BuffersHeld,
         RxEnableSetBit, EnableReturns, slabVars, drvVars, ghostVars
  <1>14. CASE PipeOpen
    BY <1>14 DEF TypeSlab, TypeFlags, TypeThread, TypeDriver, BuffersHeld,
         PipeOpen, slabVars, drvVars, ghostVars
  <1>15. CASE StartWorkQueue
    BY <1>15 DEF TypeSlab, TypeFlags, TypeThread, TypeDriver, BuffersHeld,
         StartWorkQueue, slabVars, bitVars, threadVars, drvVars, ghostVars
  <1>16. CASE PipeClose
    BY <1>16 DEF TypeSlab, TypeFlags, TypeThread, TypeDriver, BuffersHeld,
         PipeClose, slabVars, drvVars, ghostVars
  <1>17. CASE RxDisable
    BY <1>17, ZenonT(30) DEF TypeSlab, TypeFlags, TypeThread, TypeDriver, BuffersHeld,
         RxDisable, slabVars, bitVars, pipeVars, ghostVars
  <1>18. CASE RxDisableDone
    BY <1>18 DEF TypeSlab, TypeFlags, TypeThread, TypeDriver, BuffersHeld,
         RxDisableDone, slabVars, bitVars, drvVars, ghostVars
  <1>19. CASE UNCHANGED vars
    BY <1>19 DEF TypeSlab, TypeFlags, TypeThread, TypeDriver, BuffersHeld,
         vars, slabVars, bitVars, pipeVars, threadVars, drvVars, ghostVars
  <1> QED
    BY <1>1, <1>2, <1>3, <1>4, <1>5, <1>6, <1>7, <1>8, <1>9, <1>10, <1>11, <1>12,
       <1>13, <1>14, <1>15, <1>16, <1>17, <1>18, <1>19 DEF Next, Driver, Thread

-----------------------------------------------------------------------------
(* The reference counters.                                                  *)

(* No step breaks the counters of any block. *)
LEMMA NextRefCounts == IInv /\ [Next]_vars => RefCountsExact'
  <1> SUFFICES ASSUME IInv, [Next]_vars, NEW b \in Blocks
               PROVE  /\ ref'[b] = Holders(b)'
                      /\ b \in free' <=> ref'[b] = 0
    BY DEF RefCountsExact
  <1> DEFINE Q == Cardinality(Queued(rx_event_queue, b))
  <1>1. rx_event_queue \in Seq(Event) /\ Q \in Nat
    BY QueuedFinite DEF IInv, TypeOK, TypeQueue
  <1>2. /\ ref \in [Blocks -> Int] /\ free \subseteq Blocks
        /\ \A x \in Blocks : x \in free <=> ref[x] = 0
        /\ ref[b] = One(cur = b) + One(nxt = b) + Q + One(ev.blk = b)
        /\ None \notin Blocks
        /\ cur \in Blocks \cup {None} /\ nxt \in Blocks \cup {None}
    BY SlabAssumption DEF IInv, RefCountsExact, Holders, TypeOK, TypeSlab, TypeDriver
  <1>3. ASSUME NEW n \in Nat, Cardinality(Queued(rx_event_queue, b))' = n
        PROVE  Holders(b)' = One(cur' = b) + One(nxt' = b) + n + One(ev'.blk = b)
    BY <1>3 DEF Holders
  <1> HIDE DEF Q
  (* Steps that touch neither the slab nor what refers to it. *)
  <1>4. ASSUME UNCHANGED <<free, ref, rx_event_queue, cur, nxt, ev>>
        PROVE  /\ ref'[b] = Holders(b)'
               /\ b \in free' <=> ref'[b] = 0
    BY <1>4, <1>2 DEF Holders, Q
  <1>5. CASE RxRdy
    <2> DEFINE e == [blk |-> cur, off |-> rd, len |-> wr - rd]
    <2>0. UNCHANGED <<cur, nxt, ev>>
      BY <1>5 DEF RxRdy, threadVars
    <2>1. CASE UNCHANGED <<free, ref, rx_event_queue>>
      BY <2>0, <2>1, <1>4
    <2>2. CASE rx_buf_ref(cur) /\ rx_event_queue' = Append(rx_event_queue, e)
      <3>1. cur \in Blocks /\ e \in Event
        BY <1>5, SizeAssumption DEF RxRdy, Event, IInv, TypeOK, TypeDriver, BuffersHeld
      <3> HIDE DEF e
      <3>2. Cardinality(Queued(Append(rx_event_queue, e), b)) = Q + One(e.blk = b)
        BY <1>1, <3>1, QueuedAppend DEF Q
      <3>3. Cardinality(Queued(rx_event_queue, b))' = Q + One(cur = b)
        BY <2>2, <3>2 DEF e
      <3>4. Holders(b)' = One(cur = b) + One(nxt = b) + (Q + One(cur = b)) + One(ev.blk = b)
        BY <1>3, <1>1, <2>0, <3>3, SMTT(30) DEF One
      <3> QED  BY <1>1, <1>2, <2>2, <3>1, <3>4 DEF rx_buf_ref, One
    <2> QED  BY <1>5, <2>1, <2>2 DEF RxRdy, slabVars
  <1>6. CASE RxBufRequest
    <2>0. UNCHANGED <<cur, ev, rx_event_queue>> /\ nxt = None
      BY <1>6 DEF RxBufRequest, threadVars, IInv, BuffersHeld
    <2>1. CASE UNCHANGED <<slabVars, nxt>>
      BY <2>0, <2>1, <1>4 DEF slabVars
    <2>2. ASSUME NEW x \in free, rx_buf_alloc(x), nxt' = x
          PROVE  /\ ref'[b] = Holders(b)'
                 /\ b \in free' <=> ref'[b] = 0
      <3>1. Holders(b)' = One(cur = b) + One(x = b) + Q + One(ev.blk = b)
        BY <1>3, <1>1, <2>0, <2>2 DEF Q
      <3> QED  BY <1>1, <1>2, <2>0, <2>2, <3>1 DEF rx_buf_alloc, One
    <2> QED  BY <1>6, <2>1, <2>2 DEF RxBufRequest
  <1>7. CASE RxBufReleased \/ RxBufReleasedOnStop
    <2>0. /\ UNCHANGED <<ev, rx_event_queue>>
          /\ cur \in Blocks /\ cur' = nxt /\ nxt' = None /\ rx_buf_unref(cur)
      BY <1>7, <1>2 DEF RxBufReleased, RxBufReleasedOnStop, threadVars, IInv, BuffersHeld
    <2>1. Holders(b)' = One(nxt = b) + One(None = b) + Q + One(ev.blk = b)
      BY <1>3, <1>1, <2>0 DEF Q
    <2> QED  BY <1>1, <1>2, <2>0, <2>1 DEF rx_buf_unref, One
  <1>8. CASE ReceiveGet
    <2>0. UNCHANGED <<free, ref, cur, nxt>> /\ ev = NoEvent
      BY <1>8 DEF ReceiveGet, slabVars, drvVars, IInv, BuffersHeld
    <2>1. CASE UNCHANGED <<ev, rx_event_queue>>
      BY <2>0, <2>1, <1>4
    <2>2. CASE /\ rx_event_queue # <<>>
               /\ ev' = Head(rx_event_queue)
               /\ rx_event_queue' = Tail(rx_event_queue)
      <3> DEFINE R == Cardinality(Queued(Tail(rx_event_queue), b))
      <3>1. Q = R + One(ev'.blk = b)
        BY <1>1, <2>2, QueuedTail DEF Q
      <3>2. R \in Nat
        BY <1>1, <2>2, HeadTailProperties, QueuedFinite
      <3>3. Cardinality(Queued(rx_event_queue, b))' = R
        BY <2>2
      <3> HIDE DEF R
      <3>4. Holders(b)' = One(cur = b) + One(nxt = b) + R + One(ev'.blk = b)
        BY <1>3, <2>0, <3>2, <3>3
      <3> QED  BY <1>1, <1>2, <2>0, <3>1, <3>2, <3>4 DEF One, NoEvent
    <2> QED  BY <1>8, <2>1, <2>2 DEF ReceiveGet
  <1>9. CASE ReceiveCopy
    <2> DEFINE n == CopySize(want, ev.len)
               rest == [blk |-> ev.blk, off |-> ev.off + n, len |-> ev.len - n]
    <2>0. /\ UNCHANGED <<cur, nxt>> /\ ev' = NoEvent
          /\ ev \in Event /\ want \in Nat
      BY <1>9 DEF ReceiveCopy, drvVars, IInv, TypeOK, TypeThread, BuffersHeld
    <2>1. rest \in Event /\ rest.blk = ev.blk /\ ev.blk \in Blocks
      BY <2>0 DEF Event, CopySize
    <2> HIDE DEF rest, n
    <2>2. CASE rx_buf_unref(ev.blk) /\ UNCHANGED rx_event_queue
      <3>1. Holders(b)' = One(cur = b) + One(nxt = b) + Q + One(None = b)
        BY <1>3, <1>1, <2>0, <2>2 DEF Q, NoEvent
      <3> QED  BY <1>1, <1>2, <2>1, <2>2, <3>1 DEF rx_buf_unref, One
    <2>3. CASE UNCHANGED slabVars /\ rx_event_queue' = <<rest>> \o rx_event_queue
      <3>1. Cardinality(Queued(<<rest>> \o rx_event_queue, b)) = Q + One(ev.blk = b)
        BY <1>1, <2>1, QueuedPutFront DEF Q
      <3>2. Cardinality(Queued(rx_event_queue, b))' = Q + One(ev.blk = b)
        BY <2>3, <3>1
      <3>3. Holders(b)' = One(cur = b) + One(nxt = b) + (Q + One(ev.blk = b)) + One(None = b)
        BY <1>3, <1>1, <2>0, <3>2 DEF One, NoEvent
      <3> QED  BY <1>1, <1>2, <2>3, <3>3 DEF slabVars, One
    <2> QED  BY <1>9, <2>2, <2>3 DEF ReceiveCopy, k_msgq_put_front, rest, n
  <1>10. CASE RxEnable
    <2>0. UNCHANGED <<ev, nxt, rx_event_queue>>
      BY <1>10 DEF RxEnable
    <2>1. CASE UNCHANGED <<slabVars, cur>>
      BY <2>0, <2>1, <1>4 DEF slabVars
    <2>2. ASSUME NEW x \in free, rx_buf_alloc(x), cur' = x, drv = "off"
          PROVE  /\ ref'[b] = Holders(b)'
                 /\ b \in free' <=> ref'[b] = 0
      <3>1. Holders(b)' = One(x = b) + One(nxt = b) + Q + One(ev.blk = b)
        BY <1>3, <1>1, <2>0, <2>2 DEF Q
      <3>2. cur = None
        BY <2>2 DEF IInv, BuffersHeld
      <3> QED  BY <1>1, <1>2, <2>2, <3>1, <3>2 DEF rx_buf_alloc, One
    <2> QED  BY <1>10, <2>1, <2>2 DEF RxEnable
  <1>11. CASE \/ DriverByte \/ RxDisabled \/ ReaderRuns \/ ReceiveCheck \/ ReceiveReturn
             \/ RxEnableSetBit \/ PipeOpen \/ StartWorkQueue \/ PipeClose \/ RxDisable
             \/ RxDisableDone \/ UNCHANGED vars
    <2>1. UNCHANGED <<free, ref, rx_event_queue, cur, nxt, ev>>
      BY <1>11 DEF DriverByte, RxDisabled, ReaderRuns, ReceiveCheck, ReceiveReturn,
         RxEnableSetBit, PipeOpen, StartWorkQueue, PipeClose, RxDisable, RxDisableDone,
         vars, slabVars, threadVars, drvVars
    <2> QED  BY <2>1, <1>4
  <1> QED  BY <1>5, <1>6, <1>7, <1>8, <1>9, <1>10, <1>11 DEF Next, Driver, Thread

-----------------------------------------------------------------------------
(* Every step of the receive path preserves IInv. *)
LEMMA IInvStep == IInv /\ [Next]_vars => IInv'
  BY NextTypeMem, NextTypeQueue, NextHeld, NextRefCounts DEF IInv, TypeOK

(* IInv is an inductive invariant of the receive path. *)
THEOREM IInvInvariant == Spec => []IInv
  <1>1. Init => IInv
    BY InitIInv
  <1>2. IInv /\ [Next]_vars => IInv'
    BY IInvStep
  <1> QED  BY <1>1, <1>2, PTL DEF Spec

(* The type invariant holds for every slab size, buffer size and request    *)
(* size of sm_uart_handler.c.                                               *)
THEOREM TypeCorrect == Spec => []TypeOK
  <1>1. IInv => TypeOK
    BY DEF IInv
  <1> QED  BY <1>1, IInvInvariant, PTL

(* For any number of blocks and any interleaving of the UART interrupt with *)
(* pipe_receive, rx_enable and rx_disable, also with driver errors and with *)
(* preemption inside rx_enable, the reference counter of a block is exactly *)
(* the number of references to it and the slab holds exactly the others.    *)
THEOREM RefCountsCorrect == Spec => []RefCountsExact
  <1>1. IInv => RefCountsExact
    BY DEF IInv
  <1> QED  BY <1>1, IInvInvariant, PTL

-----------------------------------------------------------------------------
(* The budget of the event queue.                                           *)

(* No block has more events queued or being copied than were reported since *)
(* it was allocated, and without a burst those are within its share.        *)
EventsReported ==
    /\ \A b \in Blocks :
         Cardinality(Queued(rx_event_queue, b)) + One(ev.blk = b) <= rdys[b]
    /\ ~burst => \A b \in Blocks : rdys[b] <= UART_RX_EVENT_COUNT_FOR_BUF

BudgetInv == IInv /\ EventsReported /\ NoDropWithinBudget

(* A finite set of at most k elements can be numbered within 1..k. *)
LEMMA Numbering ==
    ASSUME NEW S, IsFiniteSet(S), NEW k \in Nat, Cardinality(S) <= k
    PROVE  \E f \in [S -> 1..k] : \A x, y \in S : f[x] = f[y] => x = y
  <1> DEFINE n == Cardinality(S)
  <1>1. n \in Nat /\ ExistsBijection(1..n, S)
    BY FS_CardinalityType
  <1>2. IsFiniteSet(1..n) /\ Cardinality(1..n) = n
    BY <1>1, FS_Interval
  <1>3. ExistsBijection(S, 1..n)
    BY <1>2, FS_SameCardinalityBij
  <1>4. PICK f : f \in Bijection(S, 1..n)
    BY <1>3 DEF ExistsBijection
  <1>5. f \in [S -> 1..n] /\ \A x, y \in S : f[x] = f[y] => x = y
    BY <1>4 DEF Bijection, Injection, IsInjective
  <1>6. 1..n \subseteq 1..k
    BY <1>1
  <1>7. f \in [S -> 1..k]
    BY <1>5, <1>6
  <1> QED  BY <1>5, <1>7

(* If no block has more than k events in a queue and one has fewer, the     *)
(* queue is shorter than k entries per block.                               *)
LEMMA QueueBudget ==
    ASSUME NEW q \in Seq(Event), NEW k \in Nat, NEW c \in Blocks,
           \A b \in Blocks : Cardinality(Queued(q, b)) <= k,
           Cardinality(Queued(q, c)) < k
    PROVE  Len(q) < Cardinality(Blocks) * k
  <1> DEFINE Room(b) == IF b = c THEN k - 1 ELSE k
             Num(b) == {f \in [Queued(q, b) -> 1..Room(b)] :
                          \A x, y \in Queued(q, b) : f[x] = f[y] => x = y}
             num == [b \in Blocks |-> CHOOSE f \in Num(b) : TRUE]
             S == 1..Len(q)
             T == Blocks \X (1..k)
             h == [i \in S |-> <<q[i].blk, num[q[i].blk][i]>>]
  <1>1. Len(q) \in Nat /\ DOMAIN q = S /\ \A i \in S : q[i] \in Event
    BY LenProperties, ElementOfSeq
  <1>2. \A i \in S : q[i].blk \in Blocks /\ i \in Queued(q, q[i].blk)
    BY <1>1 DEF Event, Queued
  <1>3. \A b \in Blocks : num[b] \in Num(b)
    <2> TAKE b \in Blocks
    <2>1. IsFiniteSet(Queued(q, b)) /\ Cardinality(Queued(q, b)) \in Nat
      BY QueuedFinite
    <2>2. Room(b) \in Nat /\ Cardinality(Queued(q, b)) <= Room(b)
      <3>1. Cardinality(Queued(q, c)) \in Nat
        BY QueuedFinite
      <3> QED  BY <2>1, <3>1
    <2> HIDE DEF Room
    <2>3. \E f \in [Queued(q, b) -> 1..Room(b)] :
            \A x, y \in Queued(q, b) : f[x] = f[y] => x = y
      BY <2>1, <2>2, Numbering
    <2>4. \E f \in Num(b) : TRUE
      BY <2>3
    <2> HIDE DEF Num
    <2> QED  BY <2>4
  <1>4. \A i \in S : /\ num[q[i].blk][i] \in 1..k
                     /\ <<q[i].blk, num[q[i].blk][i]>> # <<c, k>>
    <2> TAKE i \in S
    <2> DEFINE b == q[i].blk
    <2>1. num[b] \in Num(b) /\ i \in Queued(q, b)
      BY <1>2, <1>3
    <2> HIDE DEF num, b
    <2>2. num[b][i] \in 1..Room(b)
      BY <2>1
    <2>3. num[b][i] \in 1..k /\ (b = c => num[b][i] # k)
      BY <2>2
    <2> QED  BY <2>3 DEF b
  <1>5. h \in [S -> T \ {<<c, k>>}]
    <2> HIDE DEF num
    <2> QED  BY <1>2, <1>4
  <1>6. \A i, j \in S : h[i] = h[j] => i = j
    <2> TAKE i, j \in S
    <2> HAVE h[i] = h[j]
    <2>1. q[i].blk = q[j].blk /\ num[q[i].blk][i] = num[q[i].blk][j]
      <3> HIDE DEF num
      <3> QED  BY DEF h
    <2>2. num[q[i].blk] \in Num(q[i].blk)
      BY <1>2, <1>3
    <2>3. i \in Queued(q, q[i].blk) /\ j \in Queued(q, q[i].blk)
      BY <1>2, <2>1
    <2> HIDE DEF num
    <2> QED  BY <2>1, <2>2, <2>3
  <1> HIDE DEF h
  <1>7. h \in Injection(S, T \ {<<c, k>>})
    BY <1>5, <1>6, Fun_IsInj
  <1>8. k \in 1..k /\ IsFiniteSet(1..k) /\ Cardinality(1..k) = k
    <2>1. k > 0
      BY QueuedFinite
    <2>2. IsFiniteSet(1..k) /\ Cardinality(1..k) = k
      BY <2>1, FS_Interval
    <2> QED  BY <2>1, <2>2
  <1>9. IsFiniteSet(T) /\ Cardinality(T) = Cardinality(Blocks) * k
    BY <1>8, FS_Product, SlabAssumption
  <1>10. <<c, k>> \in T
    BY <1>8
  <1> HIDE DEF T
  <1>11. /\ IsFiniteSet(T \ {<<c, k>>})
         /\ Cardinality(T \ {<<c, k>>}) = Cardinality(T) - 1
    BY <1>9, <1>10, FS_RemoveElement
  <1>12. Cardinality(S) <= Cardinality(T) - 1
    BY <1>7, <1>11, FS_Injection
  <1>13. Cardinality(S) = Len(q)
    <2>1. Len(q) \in Int /\ 1 \in Int /\ ~(1 > Len(q) /\ Len(q) # 0)
      BY <1>1
    <2>2. Cardinality(1..Len(q)) = IF 1 > Len(q) THEN 0 ELSE Len(q) - 1 + 1
      BY <2>1, FS_Interval
    <2> QED  BY <2>1, <2>2
  <1>14. Cardinality(T) \in Nat
    BY <1>9, FS_CardinalityType
  <1>15. Len(q) < Cardinality(T)
    BY <1>1, <1>12, <1>13, <1>14
  <1> QED  BY <1>9, <1>15

(* The shares of all blocks fit the queue. *)
LEMMA SharesFit ==
    /\ UART_RX_EVENT_COUNT_FOR_BUF \in Nat
    /\ Cardinality(Blocks) * UART_RX_EVENT_COUNT_FOR_BUF <= UART_RX_EVENT_COUNT
  <1> DEFINE n == Cardinality(Blocks)
             m == UART_RX_EVENT_COUNT
  <1>1. n \in Nat \ {0} /\ m \in Nat
    <2>1. n \in Nat
      BY FS_CardinalityType, SlabAssumption
    <2>2. n # 0
      BY FS_EmptySet, SlabAssumption
    <2> QED  BY <2>1, <2>2, SizeAssumption
  <1> HIDE DEF n, m
  <1>2. m \div n \in Nat /\ n * (m \div n) <= m
    BY <1>1
  <1> QED  BY <1>2 DEF UART_RX_EVENT_COUNT_FOR_BUF, n, m

(* Nothing refers to a free block. *)
LEMMA FreeUnused ==
    ASSUME IInv, NEW b \in free
    PROVE  /\ b \in Blocks /\ Queued(rx_event_queue, b) = {}
           /\ Cardinality(Queued(rx_event_queue, b)) = 0
           /\ ev.blk # b /\ cur # b /\ nxt # b
  <1> DEFINE Q == Cardinality(Queued(rx_event_queue, b))
  <1>1. b \in Blocks
    BY DEF IInv, TypeOK, TypeSlab
  <1>2. IsFiniteSet(Queued(rx_event_queue, b)) /\ Q \in Nat
    BY QueuedFinite DEF IInv, TypeOK, TypeQueue
  <1>3. One(cur = b) + One(nxt = b) + Q + One(ev.blk = b) = 0
    BY <1>1 DEF IInv, RefCountsExact, Holders
  <1> HIDE DEF Q
  <1>4. Q = 0 /\ ev.blk # b /\ cur # b /\ nxt # b
    BY <1>2, <1>3 DEF One
  <1> QED  BY <1>1, <1>2, <1>4, FS_EmptySet DEF Q

(* The steps that touch neither the queue, the event being copied nor what  *)
(* the driver has written and reported.                                     *)
Bystander ==
    \/ RxDisabled \/ ReaderRuns \/ ReceiveCheck \/ ReceiveReturn
    \/ RxEnableSetBit \/ PipeOpen \/ StartWorkQueue \/ PipeClose \/ RxDisable
    \/ RxDisableDone \/ UNCHANGED vars

(* Bystanders leave the queue, the blocks and the stream alone. *)
LEMMA BystanderKeeps ==
    ASSUME Bystander
    PROVE  /\ UNCHANGED <<rx_event_queue, ev, rdys, burst, dropped, discarded, mem,
                          cur, nxt, wr, rd, sent, delivered>>
           /\ pc = "copy" <=> pc' = "copy"
  <1>1. UNCHANGED <<rx_event_queue, ev, rdys, burst, dropped, discarded, mem,
                    cur, nxt, wr, rd, sent, delivered>>
    BY DEF Bystander, RxDisabled, ReaderRuns, ReceiveCheck, ReceiveReturn,
       RxEnableSetBit, PipeOpen, StartWorkQueue, PipeClose, RxDisable, RxDisableDone,
       vars, threadVars, drvVars, ghostVars
  <1>2. pc = "copy" <=> pc' = "copy"
    BY DEF Bystander, RxDisabled, ReaderRuns, ReceiveCheck, ReceiveReturn,
       RxEnableSetBit, EnableReturns, PipeOpen, StartWorkQueue, PipeClose, RxDisable,
       RxDisableDone, vars, threadVars
  <1> QED  BY <1>1, <1>2

(* EventsReported is inductive. *)
LEMMA NextReported == IInv /\ EventsReported /\ [Next]_vars => EventsReported'
  <1> SUFFICES ASSUME IInv, EventsReported, [Next]_vars PROVE EventsReported'
    OBVIOUS
  <1> DEFINE Q(b) == Cardinality(Queued(rx_event_queue, b))
  <1>1. rx_event_queue \in Seq(Event) /\ \A b \in Blocks : Q(b) \in Nat
    BY QueuedFinite DEF IInv, TypeOK, TypeQueue
  <1>2. /\ rdys \in [Blocks -> Nat] /\ None \notin Blocks /\ burst \in BOOLEAN
        /\ free \subseteq Blocks /\ cur \in Blocks \cup {None}
    BY SlabAssumption DEF IInv, TypeOK, TypeSlab, TypeFlags, TypeDriver
  <1>3. /\ \A b \in Blocks : Q(b) + One(ev.blk = b) <= rdys[b]
        /\ ~burst => \A b \in Blocks : rdys[b] <= UART_RX_EVENT_COUNT_FOR_BUF
    BY DEF EventsReported
  <1>4. UART_RX_EVENT_COUNT_FOR_BUF \in Nat
    BY SharesFit
  <1> HIDE DEF Q
  (* Fewer events or as many, and the same reports. *)
  <1>5. ASSUME UNCHANGED <<rdys, burst>>,
               \A b \in Blocks : Q(b)' + One(ev'.blk = b) <= Q(b) + One(ev.blk = b)
                                 /\ Q(b)' \in Nat
        PROVE  EventsReported'
    <2>1. ASSUME NEW b \in Blocks  PROVE Q(b)' + One(ev'.blk = b) <= rdys'[b]
      BY <1>1, <1>2, <1>3, <1>5, <2>1 DEF One
    <2> QED  BY <1>3, <1>5, <2>1 DEF EventsReported, Q
  (* A block newly allocated has no events. *)
  <1>6. ASSUME NEW x \in free, rdys' = [rdys EXCEPT ![x] = 0],
               UNCHANGED <<rx_event_queue, ev, burst>>
        PROVE  EventsReported'
    <2>1. x \in Blocks /\ Q(x) = 0 /\ ev.blk # x
      BY FreeUnused DEF Q
    <2>2. \A b \in Blocks : Q(b)' = Q(b)
      BY <1>6 DEF Q
    <2>3. ASSUME NEW b \in Blocks  PROVE Q(b)' + One(ev'.blk = b) <= rdys'[b]
      BY <1>6, <1>1, <1>2, <1>3, <2>1, <2>2 DEF One
    <2>4. ~burst' => \A b \in Blocks : rdys'[b] <= UART_RX_EVENT_COUNT_FOR_BUF
      BY <1>6, <1>2, <1>3, <1>4
    <2> QED  BY <2>3, <2>4 DEF EventsReported, Q
  <1>7. CASE RxRdy
    <2> DEFINE e == [blk |-> cur, off |-> rd, len |-> wr - rd]
    <2>0. UNCHANGED ev
      BY <1>7 DEF RxRdy, threadVars
    <2>1. CASE ~workq
      <3>1. UNCHANGED <<rdys, burst, rx_event_queue>>
        BY <1>7, <2>1 DEF RxRdy
      <3> QED  BY <1>5, <1>1, <2>0, <3>1 DEF Q, One
    <2>2. CASE workq
      <3>1. cur \in Blocks /\ e \in Event
        BY <1>7, SizeAssumption DEF RxRdy, Event, IInv, TypeOK, TypeDriver, BuffersHeld
      <3>2. /\ rdys' = [rdys EXCEPT ![cur] = @ + 1]
            /\ burst' = (burst \/ rdys[cur] + 1 > UART_RX_EVENT_COUNT_FOR_BUF)
        BY <1>7, <2>2 DEF RxRdy
      <3>3. ASSUME NEW b \in Blocks
            PROVE  Q(b)' \in Nat /\ Q(b)' <= Q(b) + One(cur = b)
        <4>1. CASE UNCHANGED rx_event_queue
          BY <1>1, <4>1 DEF Q, One
        <4>2. CASE rx_event_queue' = Append(rx_event_queue, e)
          <5>1. Cardinality(Queued(Append(rx_event_queue, e), b)) = Q(b) + One(e.blk = b)
            BY <1>1, <3>1, QueuedAppend DEF Q
          <5> QED  BY <1>1, <4>2, <5>1 DEF Q, One
        <4> QED  BY <1>7, <2>2, <4>1, <4>2 DEF RxRdy
      <3>4. ASSUME NEW b \in Blocks  PROVE Q(b)' + One(ev'.blk = b) <= rdys'[b]
        BY <1>1, <1>2, <1>3, <2>0, <3>1, <3>2, <3>3 DEF One
      <3>5. ~burst' => ~burst /\ rdys[cur] + 1 <= UART_RX_EVENT_COUNT_FOR_BUF
        <4>1. ASSUME burst \/ rdys[cur] + 1 > UART_RX_EVENT_COUNT_FOR_BUF  PROVE burst'
          BY <3>2, <4>1
        <4>2. rdys[cur] + 1 \in Nat
          BY <1>2, <3>1
        <4> QED  BY <1>4, <4>1, <4>2
      <3>6. ~burst' => \A b \in Blocks : rdys'[b] <= UART_RX_EVENT_COUNT_FOR_BUF
        BY <1>2, <1>3, <3>1, <3>2, <3>5
      <3> QED  BY <3>4, <3>6 DEF EventsReported, Q
    <2> QED  BY <2>1, <2>2
  <1>8. CASE RxBufRequest
    <2>1. UNCHANGED <<rx_event_queue, ev, burst>>
      BY <1>8 DEF RxBufRequest, threadVars
    <2>2. CASE UNCHANGED rdys
      BY <1>5, <1>1, <2>1, <2>2 DEF Q, One
    <2> QED  BY <1>8, <1>6, <2>1, <2>2 DEF RxBufRequest
  <1>9. CASE RxEnable
    <2>1. UNCHANGED <<rx_event_queue, ev, burst>>
      BY <1>9 DEF RxEnable
    <2>2. CASE UNCHANGED rdys
      BY <1>5, <1>1, <2>1, <2>2 DEF Q, One
    <2> QED  BY <1>9, <1>6, <2>1, <2>2 DEF RxEnable
  <1>10. CASE ReceiveGet
    <2>0. UNCHANGED <<rdys, burst>> /\ ev = NoEvent
      BY <1>10 DEF ReceiveGet, ghostVars, IInv, BuffersHeld
    <2>1. CASE UNCHANGED <<ev, rx_event_queue>>
      BY <1>5, <1>1, <2>0, <2>1 DEF Q, One
    <2>2. CASE /\ rx_event_queue # <<>>
               /\ ev' = Head(rx_event_queue)
               /\ rx_event_queue' = Tail(rx_event_queue)
      <3>1. ASSUME NEW b \in Blocks
            PROVE  Q(b)' + One(ev'.blk = b) <= Q(b) + One(ev.blk = b) /\ Q(b)' \in Nat
        <4>1. Q(b) = Cardinality(Queued(Tail(rx_event_queue), b)) + One(ev'.blk = b)
          BY <1>1, <2>2, QueuedTail DEF Q
        <4>2. Cardinality(Queued(Tail(rx_event_queue), b)) \in Nat
          BY <1>1, <2>2, HeadTailProperties, QueuedFinite
        <4>3. Q(b)' = Cardinality(Queued(Tail(rx_event_queue), b))
          BY <2>2 DEF Q
        <4> QED  BY <1>1, <4>1, <4>2, <4>3 DEF One
      <3> QED  BY <1>5, <2>0, <3>1
    <2> QED  BY <1>10, <2>1, <2>2 DEF ReceiveGet
  <1>11. CASE ReceiveCopy
    <2> DEFINE n == CopySize(want, ev.len)
               rest == [blk |-> ev.blk, off |-> ev.off + n, len |-> ev.len - n]
    <2>0. UNCHANGED <<rdys, burst>> /\ ev' = NoEvent /\ ev \in Event /\ want \in Nat
      BY <1>11 DEF ReceiveCopy, IInv, TypeOK, TypeThread, BuffersHeld
    <2>1. rest \in Event /\ rest.blk = ev.blk
      BY <2>0 DEF Event, CopySize
    <2> HIDE DEF rest, n
    <2>2. CASE UNCHANGED rx_event_queue
      BY <1>5, <1>1, <1>2, <2>0, <2>2 DEF Q, One, NoEvent
    <2>3. CASE rx_event_queue' = <<rest>> \o rx_event_queue
      <3>1. ASSUME NEW b \in Blocks
            PROVE  Q(b)' + One(ev'.blk = b) <= Q(b) + One(ev.blk = b) /\ Q(b)' \in Nat
        <4>1. Cardinality(Queued(<<rest>> \o rx_event_queue, b)) = Q(b) + One(ev.blk = b)
          BY <1>1, <2>1, QueuedPutFront DEF Q
        <4>2. Q(b)' = Q(b) + One(ev.blk = b)
          BY <2>3, <4>1 DEF Q
        <4> QED  BY <1>1, <1>2, <2>0, <4>2 DEF One, NoEvent
      <3> QED  BY <1>5, <2>0, <3>1
    <2> QED  BY <1>11, <2>2, <2>3 DEF ReceiveCopy, k_msgq_put_front, rest, n
  <1>12. CASE DriverByte \/ RxBufReleased \/ RxBufReleasedOnStop \/ Bystander
    <2>1. UNCHANGED <<rx_event_queue, ev, rdys, burst>>
      BY <1>12, BystanderKeeps
         DEF DriverByte, RxBufReleased, RxBufReleasedOnStop, threadVars, ghostVars
    <2> QED  BY <1>5, <1>1, <2>1 DEF Q, One
  <1> QED  BY <1>7, <1>8, <1>9, <1>10, <1>11, <1>12 DEF Next, Driver, Thread, Bystander

(* Within the budget, the queue has room for an event of block c whenever c *)
(* has fewer events queued than its share.                                  *)
LEMMA RoomWithinShare ==
    ASSUME IInv, EventsReported, ~burst, NEW c \in Blocks,
           Cardinality(Queued(rx_event_queue, c)) < UART_RX_EVENT_COUNT_FOR_BUF
    PROVE  Len(rx_event_queue) < UART_RX_EVENT_COUNT
  <1> DEFINE k == UART_RX_EVENT_COUNT_FOR_BUF
  <1>1. rx_event_queue \in Seq(Event) /\ k \in Nat /\ rdys \in [Blocks -> Nat]
    BY SharesFit DEF IInv, TypeOK, TypeQueue, TypeSlab
  <1>2. ASSUME NEW b \in Blocks  PROVE Cardinality(Queued(rx_event_queue, b)) <= k
    <2>1. Cardinality(Queued(rx_event_queue, b)) \in Nat
      BY <1>1, QueuedFinite
    <2>2. /\ Cardinality(Queued(rx_event_queue, b)) + One(ev.blk = b) <= rdys[b]
          /\ rdys[b] <= k /\ rdys[b] \in Nat
      BY <1>1 DEF EventsReported
    <2> QED  BY <1>1, <2>1, <2>2 DEF One
  <1>3. Len(rx_event_queue) < Cardinality(Blocks) * k
    BY <1>1, <1>2, QueueBudget
  <1>4. /\ Len(rx_event_queue) \in Nat /\ Cardinality(Blocks) * k \in Int
        /\ UART_RX_EVENT_COUNT \in Nat /\ Cardinality(Blocks) * k <= UART_RX_EVENT_COUNT
    <2>1. Cardinality(Blocks) \in Nat
      BY SlabAssumption, FS_CardinalityType
    <2>2. Cardinality(Blocks) * k \in Int
      BY <1>1, <2>1
    <2> QED  BY <1>1, <2>2, LenProperties, SizeAssumption, SharesFit
  <1> HIDE DEF k
  <1> QED  BY <1>3, <1>4

(* While no buffer gives more than its share of events, no step drops one. *)
LEMMA NextNoDrop == BudgetInv /\ [Next]_vars => NoDropWithinBudget'
  <1> SUFFICES ASSUME BudgetInv, [Next]_vars, ~burst' PROVE dropped' = {}
    BY DEF NoDropWithinBudget
  <1> DEFINE k == UART_RX_EVENT_COUNT_FOR_BUF
  <1>0. IInv /\ EventsReported /\ (~burst => dropped = {})
    BY DEF BudgetInv, NoDropWithinBudget
  <1>1. k \in Nat /\ rdys \in [Blocks -> Nat] /\ rx_event_queue \in Seq(Event)
        /\ Len(rx_event_queue) \in Nat /\ UART_RX_EVENT_COUNT \in Nat
    BY <1>0, SharesFit, LenProperties, SizeAssumption DEF IInv, TypeOK, TypeSlab, TypeQueue
  <1> HIDE DEF k
  (* uart_callback with UART_RX_RDY *)
  <1>2. CASE RxRdy
    <2>1. CASE UNCHANGED <<dropped, burst>>
      BY <1>0, <2>1
    <2>2. CASE workq
      <3>1. burst' = (burst \/ rdys[cur] + 1 > k) /\ cur \in Blocks
        BY <1>0, <1>2, <2>2 DEF RxRdy, k, IInv, TypeOK, TypeDriver, BuffersHeld
      <3>2. ASSUME burst \/ rdys[cur] + 1 > k  PROVE FALSE
        BY <3>1, <3>2
      <3>3. ~burst /\ rdys[cur] < k
        <4>1. rdys[cur] \in Nat
          BY <1>1, <3>1
        <4> QED  BY <1>1, <3>2, <4>1
      <3>4. Cardinality(Queued(rx_event_queue, cur)) < k
        <4>1. Cardinality(Queued(rx_event_queue, cur)) \in Nat
          BY <1>1, QueuedFinite
        <4>2. Cardinality(Queued(rx_event_queue, cur)) + One(ev.blk = cur) <= rdys[cur]
          BY <1>0, <3>1 DEF EventsReported
        <4>3. rdys[cur] \in Nat
          BY <1>1, <3>1
        <4> QED  BY <1>1, <3>3, <4>1, <4>2, <4>3 DEF One
      <3>5. Len(rx_event_queue) < UART_RX_EVENT_COUNT
        BY <1>0, <3>1, <3>3, <3>4, RoomWithinShare DEF k
      <3>6. UNCHANGED dropped
        BY <1>1, <1>2, <2>2, <3>5 DEF RxRdy
      <3> QED  BY <1>0, <3>3, <3>6
    <2> QED  BY <1>2, <2>1, <2>2 DEF RxRdy
  (* pipe_receive putting the rest of an event back *)
  <1>3. CASE ReceiveCopy
    <2>1. ~burst /\ ev \in Event
      BY <1>0, <1>3 DEF ReceiveCopy, IInv, BuffersHeld
    <2>2. ev.blk \in Blocks
      BY <2>1 DEF Event
    <2>3. Cardinality(Queued(rx_event_queue, ev.blk)) < k
      <3>1. Cardinality(Queued(rx_event_queue, ev.blk)) \in Nat
        BY <1>1, QueuedFinite
      <3>2. /\ Cardinality(Queued(rx_event_queue, ev.blk)) + One(ev.blk = ev.blk)
                 <= rdys[ev.blk]
            /\ rdys[ev.blk] <= k
        BY <1>0, <2>1, <2>2 DEF EventsReported, k
      <3>3. rdys[ev.blk] \in Nat
        BY <1>1, <2>2
      <3> QED  BY <1>1, <3>1, <3>2, <3>3 DEF One
    <2>4. Len(rx_event_queue) < UART_RX_EVENT_COUNT
      BY <1>0, <2>1, <2>2, <2>3, RoomWithinShare DEF k
    <2>5. UNCHANGED dropped
      BY <1>1, <1>3, <2>4 DEF ReceiveCopy
    <2> QED  BY <1>0, <2>1, <2>5
  <1>4. CASE ~RxRdy /\ ~ReceiveCopy
    <2>1. CASE Bystander
      BY <1>0, <2>1, BystanderKeeps
    <2>2. CASE ~Bystander
      <3>1. UNCHANGED <<dropped, burst>>
        BY <1>4, <2>2 DEF Next, Driver, Thread, Bystander, DriverByte, RxBufRequest,
           RxBufReleased, RxBufReleasedOnStop, ReceiveGet, RxEnable, ghostVars
      <3> QED  BY <1>0, <3>1
    <2> QED  BY <2>1, <2>2
  <1> QED  BY <1>2, <1>3, <1>4

(* UART_RX_EVENT_COUNT suffices for every number of blocks, buffer size and *)
(* interleaving: as long as no block is reported in more pieces than        *)
(* UART_RX_EVENT_COUNT_FOR_BUF, neither uart_callback nor pipe_receive      *)
(* loses a byte to a full event queue.                                      *)
THEOREM NoDropCorrect == Spec => []NoDropWithinBudget
  <1>1. Init => BudgetInv
    <2>1. ASSUME Init  PROVE EventsReported
      <3>1. ASSUME NEW b \in Blocks
            PROVE  Cardinality(Queued(rx_event_queue, b)) + One(ev.blk = b) <= rdys[b]
        <4>1. Queued(rx_event_queue, b) = {}
          BY <2>1 DEF Init, Queued
        <4>2. Cardinality(Queued(rx_event_queue, b)) = 0
          BY <4>1, FS_EmptySet
        <4> QED  BY <2>1, <4>2, SlabAssumption DEF Init, One, NoEvent
      <3> QED  BY <2>1, <3>1, SharesFit DEF Init, EventsReported
    <2> QED  BY <2>1, InitIInv DEF BudgetInv, NoDropWithinBudget, Init
  <1>2. BudgetInv /\ [Next]_vars => BudgetInv'
    BY IInvStep, NextReported, NextNoDrop DEF BudgetInv
  <1>3. BudgetInv => NoDropWithinBudget
    BY DEF BudgetInv
  <1> QED  BY <1>1, <1>2, <1>3, PTL DEF Spec

-----------------------------------------------------------------------------
(* The stream of bytes.                                                     *)

(* The bytes of event e in memory m, and that they are in the order sent. *)
Vals(m, e) == {m[e.blk][e.off + i] : i \in 1..e.len}
Rising(m, e) ==
    \A i, j \in 1..e.len : i < j => m[e.blk][e.off + i] < m[e.blk][e.off + j]

Below(S, T) == \A x \in S : \A y \in T : x < y
Apart(S, T) == \A x \in S : x \notin T

(* The s bytes sent are divided into those got by the reader (G), those of  *)
(* the event being copied (E), of the n queued events (Q), the driver's (C) *)
(* and the lost ones (L); on the way from C to G they keep their order.     *)
Bounded(G, E, Q, n, C, L, s) ==
    /\ \A x \in G : x \in 1..s
    /\ \A x \in E : x \in 1..s
    /\ \A x \in C : x \in 1..s
    /\ \A x \in L : x \in 1..s
    /\ \A i \in 1..n : \A x \in Q[i] : x \in 1..s
Ordered(G, E, Q, n, C) ==
    /\ Below(G, E) /\ Below(G, C) /\ Below(E, C)
    /\ \A i \in 1..n : Below(G, Q[i]) /\ Below(E, Q[i]) /\ Below(Q[i], C)
    /\ \A i, j \in 1..n : i < j => Below(Q[i], Q[j])
Unlost(G, E, Q, n, C, L) ==
    /\ Apart(G, L) /\ Apart(E, L) /\ Apart(C, L)
    /\ \A i \in 1..n : Apart(Q[i], L)
Complete(G, E, Q, n, C, L, s) ==
    \A x \in 1..s : \/ x \in G \/ x \in E \/ x \in C \/ x \in L
                    \/ \E i \in 1..n : x \in Q[i]
Lanes(G, E, Q, n, C, L, s) ==
    /\ Bounded(G, E, Q, n, C, L, s) /\ Ordered(G, E, Q, n, C)
    /\ Unlost(G, E, Q, n, C, L) /\ Complete(G, E, Q, n, C, L, s)

(* A byte arrives at the driver. *)
LEMMA LanesByte ==
    ASSUME NEW G, NEW E, NEW Q, NEW n \in Nat, NEW C, NEW L, NEW s \in Nat,
           Lanes(G, E, Q, n, C, L, s)
    PROVE  Lanes(G, E, Q, n, C \cup {s + 1}, L, s + 1)
  <1>1. Bounded(G, E, Q, n, C \cup {s + 1}, L, s + 1)
    BY DEF Lanes, Bounded
  <1>2. Ordered(G, E, Q, n, C \cup {s + 1})
    <2>1. \A x : x \in 1..s => x < s + 1
      OBVIOUS
    <2>2. ASSUME NEW S, \A x \in S : x \in 1..s, Below(S, C)  PROVE Below(S, C \cup {s + 1})
      BY <2>1, <2>2 DEF Below
    <2>3. Below(G, C \cup {s + 1}) /\ Below(E, C \cup {s + 1})
      BY <2>2 DEF Lanes, Bounded, Ordered
    <2>4. \A i \in 1..n : Below(Q[i], C \cup {s + 1})
      BY <2>2 DEF Lanes, Bounded, Ordered
    <2> QED  BY <2>3, <2>4 DEF Lanes, Ordered
  <1>3. Unlost(G, E, Q, n, C \cup {s + 1}, L)
    <2>1. s + 1 \notin L
      BY DEF Lanes, Bounded
    <2> QED  BY <2>1 DEF Lanes, Unlost, Apart
  <1>4. Complete(G, E, Q, n, C \cup {s + 1}, L, s + 1)
    <2>1. \A x \in 1..s + 1 : x = s + 1 \/ x \in 1..s
      OBVIOUS
    <2> QED  BY <2>1 DEF Lanes, Complete
  <1> QED  BY <1>1, <1>2, <1>3, <1>4 DEF Lanes

(* The driver's bytes become the last event of the queue. *)
LEMMA LanesQueued ==
    ASSUME NEW G, NEW E, NEW Q, NEW n \in Nat, NEW C, NEW L, NEW s \in Nat,
           Lanes(G, E, Q, n, C, L, s),
           NEW R, \A i \in 1..n : R[i] = Q[i], R[n + 1] = C
    PROVE  Lanes(G, E, R, n + 1, {}, L, s)
  <1>0. \A i \in 1..n + 1 : (i \in 1..n /\ R[i] = Q[i]) \/ (i = n + 1 /\ R[i] = C)
    OBVIOUS
  <1>1. Bounded(G, E, R, n + 1, {}, L, s)
    BY <1>0 DEF Lanes, Bounded
  <1>2. Ordered(G, E, R, n + 1, {})
    <2>1. \A i \in 1..n + 1 : Below(G, R[i]) /\ Below(E, R[i])
      BY <1>0 DEF Lanes, Ordered
    <2>2. \A i, j \in 1..n + 1 : i < j => Below(R[i], R[j])
      <3> TAKE i, j \in 1..n + 1
      <3> HAVE i < j
      <3>1. i \in 1..n /\ R[i] = Q[i]
        OBVIOUS
      <3>2. CASE j = n + 1
        BY <3>1, <3>2 DEF Lanes, Ordered
      <3>3. CASE j \in 1..n
        BY <3>1, <3>3 DEF Lanes, Ordered
      <3> QED  BY <3>2, <3>3
    <2> QED  BY <2>1, <2>2 DEF Lanes, Ordered, Below
  <1>3. Unlost(G, E, R, n + 1, {}, L)
    BY <1>0 DEF Lanes, Unlost, Apart
  <1>4. Complete(G, E, R, n + 1, {}, L, s)
    <2>1. \A i \in 1..n : i \in 1..n + 1
      OBVIOUS
    <2>2. n + 1 \in 1..n + 1
      OBVIOUS
    <2> QED  BY <2>1, <2>2 DEF Lanes, Complete
  <1> QED  BY <1>1, <1>2, <1>3, <1>4 DEF Lanes

(* The driver's bytes are lost. *)
LEMMA LanesLost ==
    ASSUME NEW G, NEW E, NEW Q, NEW n \in Nat, NEW C, NEW L, NEW s \in Nat,
           Lanes(G, E, Q, n, C, L, s)
    PROVE  Lanes(G, E, Q, n, {}, L \cup C, s)
  <1>0. ASSUME NEW S, Below(S, C), \A x \in S : x \in 1..s  PROVE Apart(S, C)
    <2>1. ASSUME NEW x \in S, x \in C  PROVE FALSE
      <3>1. x < x /\ x \in 1..s
        BY <1>0, <2>1 DEF Below
      <3> QED  BY <3>1
    <2> QED  BY <2>1 DEF Apart
  <1>1. Bounded(G, E, Q, n, {}, L \cup C, s)
    BY DEF Lanes, Bounded
  <1>2. Ordered(G, E, Q, n, {})
    BY DEF Lanes, Ordered, Below
  <1>3. Unlost(G, E, Q, n, {}, L \cup C)
    <2>1. Apart(G, C) /\ Apart(E, C) /\ \A i \in 1..n : Apart(Q[i], C)
      BY <1>0 DEF Lanes, Ordered, Bounded
    <2> QED  BY <2>1 DEF Lanes, Unlost, Apart
  <1>4. Complete(G, E, Q, n, {}, L \cup C, s)
    BY DEF Lanes, Complete
  <1> QED  BY <1>1, <1>2, <1>3, <1>4 DEF Lanes

(* The first event of the queue is taken to be copied. *)
LEMMA LanesTaken ==
    ASSUME NEW G, NEW Q, NEW n \in Nat, NEW C, NEW L, NEW s \in Nat,
           Lanes(G, {}, Q, n + 1, C, L, s),
           NEW R, \A i \in 1..n : R[i] = Q[i + 1]
    PROVE  Lanes(G, Q[1], R, n, C, L, s)
  <1>0. /\ 1 \in 1..n + 1
        /\ \A i \in 1..n : i + 1 \in 1..n + 1 /\ 1 < i + 1
        /\ \A x \in 1..n + 1 : x = 1 \/ (x - 1 \in 1..n /\ x = (x - 1) + 1)
    OBVIOUS
  <1>1. Bounded(G, Q[1], R, n, C, L, s)
    BY <1>0 DEF Lanes, Bounded
  <1>2. Ordered(G, Q[1], R, n, C)
    <2>1. \A i \in 1..n : Below(G, R[i]) /\ Below(Q[1], R[i]) /\ Below(R[i], C)
      BY <1>0 DEF Lanes, Ordered
    <2>2. \A i, j \in 1..n : i < j => Below(R[i], R[j])
      <3> TAKE i, j \in 1..n
      <3> HAVE i < j
      <3>1. i + 1 < j + 1 /\ i + 1 \in 1..n + 1 /\ j + 1 \in 1..n + 1
        OBVIOUS
      <3>2. Below(Q[i + 1], Q[j + 1])
        BY <3>1 DEF Lanes, Ordered
      <3> QED  BY <3>2
    <2>3. Below(G, Q[1]) /\ Below(G, C) /\ Below(Q[1], C)
      BY <1>0 DEF Lanes, Ordered
    <2> QED  BY <2>1, <2>2, <2>3 DEF Ordered
  <1>3. Unlost(G, Q[1], R, n, C, L)
    BY <1>0 DEF Lanes, Unlost
  <1>4. Complete(G, Q[1], R, n, C, L, s)
    <2> SUFFICES ASSUME NEW x \in 1..s, ~(x \in G \/ x \in C \/ x \in L), x \notin Q[1]
                 PROVE  \E i \in 1..n : x \in R[i]
      BY DEF Complete
    <2>1. PICK i \in 1..n + 1 : x \in Q[i]
      BY DEF Lanes, Complete
    <2>2. i - 1 \in 1..n /\ (i - 1) + 1 = i
      BY <1>0, <2>1
    <2> QED  BY <2>1, <2>2
  <1> QED  BY <1>1, <1>2, <1>3, <1>4 DEF Lanes

(* Of the event being copied, the reader gets A; the rest B is lost. *)
LEMMA LanesCopied ==
    ASSUME NEW G, NEW E, NEW Q, NEW n \in Nat, NEW C, NEW L, NEW s \in Nat,
           Lanes(G, E, Q, n, C, L, s), NEW A, NEW B, E = A \cup B, Below(A, B)
    PROVE  Lanes(G \cup A, {}, Q, n, C, L \cup B, s)
  <1>0. ASSUME NEW S, Below(B, S) \/ Below(S, B), \A x \in S : x \in 1..s
        PROVE  Apart(S, B)
    <2>1. ASSUME NEW x \in S, x \in B  PROVE FALSE
      <3>1. x < x /\ x \in 1..s
        BY <1>0, <2>1 DEF Below
      <3> QED  BY <3>1
    <2> QED  BY <2>1 DEF Apart
  <1>1. Bounded(G \cup A, {}, Q, n, C, L \cup B, s)
    BY DEF Lanes, Bounded
  <1>2. Ordered(G \cup A, {}, Q, n, C)
    BY DEF Lanes, Ordered, Below
  <1>3. Unlost(G \cup A, {}, Q, n, C, L \cup B)
    <2>1. /\ Below(G, B) /\ Below(B, C)
          /\ \A i \in 1..n : Below(B, Q[i])
      BY DEF Lanes, Ordered, Below
    <2>2. Apart(G, B) /\ Apart(A, B) /\ Apart(C, B)
      BY <1>0, <2>1 DEF Lanes, Bounded
    <2>3. \A i \in 1..n : Apart(Q[i], B)
      BY <1>0, <2>1 DEF Lanes, Bounded
    <2> QED  BY <2>2, <2>3 DEF Lanes, Unlost, Apart
  <1>4. Complete(G \cup A, {}, Q, n, C, L \cup B, s)
    BY DEF Lanes, Complete
  <1> QED  BY <1>1, <1>2, <1>3, <1>4 DEF Lanes

(* Of the event being copied, the reader gets A; the rest B is put back. *)
LEMMA LanesPutBack ==
    ASSUME NEW G, NEW E, NEW Q, NEW n \in Nat, NEW C, NEW L, NEW s \in Nat,
           Lanes(G, E, Q, n, C, L, s), NEW A, NEW B, E = A \cup B, Below(A, B),
           NEW R, R[1] = B, \A i \in 1..n : R[i + 1] = Q[i]
    PROVE  Lanes(G \cup A, {}, R, n + 1, C, L, s)
  <1>1. \A i \in 1..n + 1 : \/ i = 1 /\ R[i] = B
                            \/ i - 1 \in 1..n /\ R[i] = Q[i - 1]
    <2> TAKE i \in 1..n + 1
    <2>1. CASE i = 1
      BY <2>1
    <2>2. CASE i # 1
      <3>1. i - 1 \in 1..n /\ (i - 1) + 1 = i
        BY <2>2
      <3> QED  BY <3>1
    <2> QED  BY <2>1, <2>2
  <1>2. /\ Below(G, B) /\ Below(B, C)
        /\ \A i \in 1..n : Below(B, Q[i]) /\ Below(A, Q[i])
    BY DEF Lanes, Ordered, Below
  <1>3. Bounded(G \cup A, {}, R, n + 1, C, L, s)
    BY <1>1 DEF Lanes, Bounded
  <1>4. Ordered(G \cup A, {}, R, n + 1, C)
    <2>1. \A i \in 1..n + 1 : Below(G \cup A, R[i]) /\ Below(R[i], C)
      <3> TAKE i \in 1..n + 1
      <3>1. CASE i = 1 /\ R[i] = B
        BY <1>2, <3>1 DEF Below
      <3>2. CASE i - 1 \in 1..n /\ R[i] = Q[i - 1]
        BY <1>2, <3>2 DEF Lanes, Ordered, Below
      <3> QED  BY <1>1, <3>1, <3>2
    <2>2. \A i, j \in 1..n + 1 : i < j => Below(R[i], R[j])
      <3> TAKE i, j \in 1..n + 1
      <3> HAVE i < j
      <3>1. j - 1 \in 1..n /\ R[j] = Q[j - 1]
        BY <1>1
      <3>2. CASE i = 1
        BY <1>2, <3>1, <3>2
      <3>3. CASE i # 1
        <4>1. i - 1 \in 1..n /\ R[i] = Q[i - 1] /\ i - 1 < j - 1
          BY <1>1, <3>3
        <4>2. Below(Q[i - 1], Q[j - 1])
          BY <3>1, <4>1 DEF Lanes, Ordered
        <4> QED  BY <3>1, <4>1, <4>2
      <3> QED  BY <3>2, <3>3
    <2>3. Below(G \cup A, {}) /\ Below({}, C) /\ Below(G \cup A, C)
          /\ \A i \in 1..n + 1 : Below({}, R[i])
      BY DEF Lanes, Ordered, Below
    <2> QED  BY <2>1, <2>2, <2>3 DEF Ordered
  <1>5. Unlost(G \cup A, {}, R, n + 1, C, L)
    BY <1>1 DEF Lanes, Unlost, Apart
  <1>6. Complete(G \cup A, {}, R, n + 1, C, L, s)
    <2>1. 1 \in 1..n + 1 /\ \A i \in 1..n : i + 1 \in 1..n + 1
      OBVIOUS
    <2> QED  BY <2>1 DEF Lanes, Complete
  <1> QED  BY <1>3, <1>4, <1>5, <1>6 DEF Lanes

(* An event of no bytes. *)
LEMMA ValsNone ==
    ASSUME NEW m, NEW e, e.len = 0
    PROVE  Vals(m, e) = {} /\ Rising(m, e)
  <1>1. 1..e.len = {}
    OBVIOUS
  <1> QED  BY <1>1 DEF Vals, Rising

(* The first k bytes of an event, and the rest. *)
LEMMA ValsSplit ==
    ASSUME NEW m, NEW e \in Event, NEW k \in 0..e.len, Rising(m, e),
           NEW front, front.blk = e.blk, front.off = e.off, front.len = k,
           NEW rest, rest.blk = e.blk, rest.off = e.off + k, rest.len = e.len - k
    PROVE  /\ Vals(m, e) = Vals(m, front) \cup Vals(m, rest)
           /\ Below(Vals(m, front), Vals(m, rest))
           /\ Rising(m, front) /\ Rising(m, rest)
  <1>1. /\ front.blk = e.blk /\ front.off = e.off /\ front.len = k
        /\ rest.blk = e.blk /\ rest.off = e.off + k /\ rest.len = e.len - k
        /\ e.off \in Nat /\ e.len \in Nat /\ k \in Nat /\ k <= e.len
    BY DEF Event
  <1> DEFINE v(i) == m[e.blk][e.off + i]
  <1>2. Vals(m, e) = {v(i) : i \in 1..e.len}
    BY DEF Vals
  <1>3. Vals(m, front) = {v(i) : i \in 1..k}
    BY <1>1 DEF Vals
  <1>4. Vals(m, rest) = {v(i) : i \in (k + 1)..e.len}
    <2>1. Vals(m, rest) = {m[e.blk][(e.off + k) + i] : i \in 1..(e.len - k)}
      BY <1>1 DEF Vals
    <2>2. ASSUME NEW i \in 1..(e.len - k)
          PROVE  k + i \in (k + 1)..e.len /\ m[e.blk][(e.off + k) + i] = v(k + i)
      <3>1. (e.off + k) + i = e.off + (k + i)
        BY <1>1
      <3> QED  BY <1>1, <3>1
    <2>3. ASSUME NEW i \in (k + 1)..e.len
          PROVE  i - k \in 1..(e.len - k) /\ v(i) = m[e.blk][(e.off + k) + (i - k)]
      <3>1. (e.off + k) + (i - k) = e.off + i
        BY <1>1
      <3> QED  BY <1>1, <3>1
    <2> HIDE DEF v
    <2> QED  BY <2>1, <2>2, <2>3
  <1>5. \A i, j \in 1..e.len : i < j => v(i) < v(j)
    BY DEF Rising
  <1>6. Rising(m, front)
    BY <1>1, <1>5 DEF Rising
  <1>7. Rising(m, rest)
    <2> SUFFICES ASSUME NEW i \in 1..(e.len - k), NEW j \in 1..(e.len - k), i < j
                 PROVE  m[e.blk][(e.off + k) + i] < m[e.blk][(e.off + k) + j]
      BY <1>1 DEF Rising
    <2>1. /\ k + i \in 1..e.len /\ k + j \in 1..e.len /\ k + i < k + j
          /\ (e.off + k) + i = e.off + (k + i) /\ (e.off + k) + j = e.off + (k + j)
      BY <1>1
    <2> QED  BY <1>5, <2>1
  <1> HIDE DEF v
  <1>8. 1..e.len = 1..k \cup (k + 1)..e.len
    BY <1>1
  <1>9. Vals(m, e) = Vals(m, front) \cup Vals(m, rest)
    BY <1>2, <1>3, <1>4, <1>8
  <1>10. \A i \in 1..k, j \in (k + 1)..e.len : v(i) < v(j)
    BY <1>1, <1>5
  <1>11. Below(Vals(m, front), Vals(m, rest))
    BY <1>3, <1>4, <1>10 DEF Below
  <1> QED  BY <1>6, <1>7, <1>9, <1>11

(* What is delivered: the bytes t appended to s. *)
LEMMA DeliveredConcat ==
    ASSUME NEW s \in Seq(Nat), NEW t \in Seq(Nat),
           \A i, j \in DOMAIN s : i < j => s[i] < s[j],
           \A i, j \in DOMAIN t : i < j => t[i] < t[j],
           \A i \in DOMAIN s, j \in DOMAIN t : s[i] < t[j]
    PROVE  /\ s \o t \in Seq(Nat)
           /\ \A i, j \in DOMAIN (s \o t) : i < j => (s \o t)[i] < (s \o t)[j]
           /\ {(s \o t)[i] : i \in DOMAIN (s \o t)}
                = {s[i] : i \in DOMAIN s} \cup {t[i] : i \in DOMAIN t}
  <1> DEFINE u == s \o t
  <1>1. /\ DOMAIN s = 1..Len(s) /\ Len(s) \in Nat
        /\ DOMAIN t = 1..Len(t) /\ Len(t) \in Nat
    BY LenProperties
  <1>2. /\ u \in Seq(Nat) /\ Len(u) = Len(s) + Len(t)
        /\ \A i \in 1..Len(s) + Len(t) :
             u[i] = IF i <= Len(s) THEN s[i] ELSE t[i - Len(s)]
    BY ConcatProperties
  <1>3. DOMAIN u = 1..Len(s) + Len(t)
    BY <1>2, LenProperties
  <1> HIDE DEF u
  <1>4. \A i \in DOMAIN s : i \in DOMAIN u /\ u[i] = s[i]
    BY <1>1, <1>2, <1>3
  <1>5. \A i \in DOMAIN t : Len(s) + i \in DOMAIN u /\ u[Len(s) + i] = t[i]
    <2> TAKE i \in DOMAIN t
    <2>1. /\ Len(s) + i \in 1..Len(s) + Len(t) /\ ~(Len(s) + i <= Len(s))
          /\ (Len(s) + i) - Len(s) = i
      BY <1>1
    <2> QED  BY <1>2, <1>3, <2>1
  <1>6. \A i \in DOMAIN u : \/ i \in DOMAIN s /\ i <= Len(s)
                            \/ i > Len(s) /\ i - Len(s) \in DOMAIN t
                                 /\ u[i] = t[i - Len(s)]
    BY <1>1, <1>2, <1>3
  <1>7. ASSUME NEW i \in DOMAIN u, NEW j \in DOMAIN u, i < j  PROVE u[i] < u[j]
    <2>1. CASE j \in DOMAIN s
      <3>1. i \in DOMAIN s
        BY <1>1, <1>3, <1>7, <2>1
      <3> QED  BY <1>4, <1>7, <2>1, <3>1
    <2>2. CASE i \in DOMAIN s /\ j > Len(s)
      <3>1. j - Len(s) \in DOMAIN t /\ u[j] = t[j - Len(s)]
        BY <1>1, <1>6, <2>2
      <3> QED  BY <1>4, <2>2, <3>1
    <2>3. CASE i > Len(s)
      <3>1. /\ j - Len(s) \in DOMAIN t /\ u[j] = t[j - Len(s)]
            /\ i - Len(s) \in DOMAIN t /\ u[i] = t[i - Len(s)]
            /\ i - Len(s) < j - Len(s)
        BY <1>1, <1>3, <1>6, <1>7, <2>3
      <3> QED  BY <3>1
    <2> QED  BY <1>1, <1>6, <2>1, <2>2, <2>3
  <1>8. {u[i] : i \in DOMAIN u} = {s[i] : i \in DOMAIN s} \cup {t[i] : i \in DOMAIN t}
    BY <1>4, <1>5, <1>6
  <1> QED  BY <1>2, <1>7, <1>8 DEF u

(* The bytes the driver has written and not yet reported. *)
Unreported == [blk |-> cur, off |-> rd, len |-> wr - rd]

(* An event lies in its block, before what the driver still writes in it    *)
(* and not in the block it continues with, and its bytes are in order.      *)
Sound(m, c, x, r, e) ==
    /\ e.off + e.len <= BufSize
    /\ e.blk = c => e.off + e.len <= r
    /\ e.blk = x => e.off + e.len = 0
    /\ Rising(m, e)

EventsSound ==
    /\ \A i \in DOMAIN rx_event_queue : Sound(mem, cur, nxt, rd, rx_event_queue[i])
    /\ Sound(mem, cur, nxt, rd, ev)
    /\ rd <= wr /\ Rising(mem, Unreported)
    /\ cur = None \/ cur # nxt

Got == {delivered[i] : i \in DOMAIN delivered}
QueueVals == [i \in DOMAIN rx_event_queue |-> Vals(mem, rx_event_queue[i])]

BytesInLanes ==
    Lanes(Got, Vals(mem, ev), QueueVals, Len(rx_event_queue), Vals(mem, Unreported),
          dropped \cup discarded, sent)

InOrder ==
    /\ delivered \in Seq(Nat)
    /\ \A i, j \in DOMAIN delivered : i < j => delivered[i] < delivered[j]

StreamInv == InOrder /\ EventsSound /\ BytesInLanes

(* What the types say, for the steps below. *)
LEMMA StreamTypes ==
    ASSUME IInv
    PROVE  /\ rx_event_queue \in Seq(Event) /\ Len(rx_event_queue) \in Nat
           /\ DOMAIN rx_event_queue = 1..Len(rx_event_queue)
           /\ \A i \in DOMAIN rx_event_queue : rx_event_queue[i] \in Event
           /\ ev \in Event \cup {NoEvent}
           /\ mem \in [Blocks -> [1..BufSize -> 0..MaxBytes]]
           /\ cur \in Blocks \cup {None} /\ nxt \in Blocks \cup {None}
           /\ wr \in 0..BufSize /\ rd \in 0..BufSize /\ wr \in Nat /\ rd \in Nat
           /\ sent \in Nat /\ sent \in 0..MaxBytes
           /\ None \notin Blocks
  <1>1. rx_event_queue \in Seq(Event)
    BY DEF IInv, TypeOK, TypeQueue
  <1>2. /\ Len(rx_event_queue) \in Nat
        /\ DOMAIN rx_event_queue = 1..Len(rx_event_queue)
        /\ \A i \in DOMAIN rx_event_queue : rx_event_queue[i] \in Event
    BY <1>1, LenProperties, ElementOfSeq
  <1>3. mem \in [Blocks -> [1..BufSize -> 0..MaxBytes]]
    BY DEF IInv, TypeOK, TypeMem
  <1>4. ev \in Event \cup {NoEvent}
    BY DEF IInv, TypeOK, TypeThread
  <1>5. /\ cur \in Blocks \cup {None} /\ nxt \in Blocks \cup {None}
        /\ wr \in 0..BufSize /\ rd \in 0..BufSize /\ wr \in Nat /\ rd \in Nat
        /\ sent \in Nat /\ sent \in 0..MaxBytes
    BY SizeAssumption DEF IInv, TypeOK, TypeDriver
  <1> QED  BY <1>1, <1>2, <1>3, <1>4, <1>5, SlabAssumption

(* A block is allocated, or the driver releases one: no byte moves. *)
LEMMA StreamBlocks ==
    ASSUME IInv, StreamInv,
           UNCHANGED <<rx_event_queue, ev, mem, sent, delivered, dropped, discarded>>,
           \/ UNCHANGED <<cur, wr, rd>>
           \/ wr = rd /\ wr' = 0 /\ rd' = 0,
           cur' = None \/ cur' # nxt',
           \A e \in Event \cup {NoEvent} :
             Sound(mem, cur, nxt, rd, e)
               /\ (e = ev \/ \E i \in DOMAIN rx_event_queue : e = rx_event_queue[i])
             => /\ e.blk = cur' => e.off + e.len <= rd'
                /\ e.blk = nxt' => e.off + e.len = 0
    PROVE  StreamInv'
  <1>1. InOrder'
    BY DEF StreamInv, InOrder
  <1>2. \A i \in DOMAIN rx_event_queue : Sound(mem, cur', nxt', rd', rx_event_queue[i])
    BY StreamTypes DEF StreamInv, EventsSound, Sound
  <1>3. Sound(mem, cur', nxt', rd', ev)
    BY StreamTypes DEF StreamInv, EventsSound, Sound
  <1>4. rd' <= wr' /\ Rising(mem, Unreported') /\ Vals(mem, Unreported') = Vals(mem, Unreported)
    <2>1. CASE UNCHANGED <<cur, wr, rd>>
      BY <2>1 DEF StreamInv, EventsSound, Unreported
    <2>2. CASE wr = rd /\ wr' = 0 /\ rd' = 0
      <3>1. Unreported.len = 0 /\ Unreported'.len = 0
        BY <2>2, StreamTypes DEF Unreported
      <3>2. Rising(mem, Unreported') /\ Vals(mem, Unreported') = {}
        BY <3>1, ValsNone
      <3>3. Vals(mem, Unreported) = {}
        BY <3>1, ValsNone
      <3> QED  BY <2>2, <3>2, <3>3
    <2> QED  BY <2>1, <2>2
  <1>5. EventsSound'
    BY <1>2, <1>3, <1>4 DEF EventsSound
  <1>6. BytesInLanes'
    <2>1. Got' = Got /\ QueueVals' = QueueVals
      BY DEF Got, QueueVals
    <2> QED  BY <1>4, <2>1 DEF StreamInv, BytesInLanes
  <1> QED  BY <1>1, <1>5, <1>6 DEF StreamInv

(* A byte arrives. *)
LEMMA StreamByte == IInv /\ StreamInv /\ DriverByte => StreamInv'
  <1> SUFFICES ASSUME IInv, StreamInv, DriverByte PROVE StreamInv'
    OBVIOUS
  <1>1. /\ UNCHANGED <<rx_event_queue, ev, cur, nxt, rd, delivered, dropped, discarded>>
        /\ sent' = sent + 1 /\ wr' = wr + 1 /\ wr < BufSize
        /\ mem' = [mem EXCEPT ![cur][wr + 1] = sent + 1]
        /\ cur # None
    BY DEF DriverByte, threadVars, ghostVars, IInv, BuffersHeld
  <1>2. cur \in Blocks /\ wr + 1 \in 1..BufSize /\ rd <= wr /\ wr \in Nat /\ rd \in Nat
    BY <1>1, StreamTypes, SizeAssumption DEF StreamInv, EventsSound
  <1>3. ASSUME NEW e \in Event \cup {NoEvent}, Sound(mem, cur, nxt, rd, e)
        PROVE  Vals(mem', e) = Vals(mem, e) /\ Sound(mem', cur, nxt, rd, e)
    <2>1. e.off + e.len \in Int
      BY DEF Event, NoEvent
    <2>2. e.off + e.len <= BufSize /\ (e.blk = cur => e.off + e.len < wr + 1) /\ Rising(mem, e)
      BY <1>2, <1>3, <2>1 DEF Sound
    <2>3. Vals(mem', e) = Vals(mem, e) /\ Rising(mem', e)
      <3>1. ASSUME NEW i \in 1..e.len
            PROVE  mem'[e.blk][e.off + i] = mem[e.blk][e.off + i]
        <4>1. e \in Event
          <5>1. e.len # 0
            BY <3>1
          <5> QED  BY <5>1 DEF NoEvent
        <4>2. e.blk \in Blocks /\ e.off \in Nat /\ e.len \in Nat
          BY <4>1 DEF Event
        <4>3. e.off + i \in 1..BufSize /\ (e.blk = cur => e.off + i # wr + 1)
          BY <1>2, <2>2, <4>2, SizeAssumption
        <4>4. mem \in [Blocks -> [1..BufSize -> 0..MaxBytes]]
          BY StreamTypes
        <4> QED  BY <1>1, <1>2, <4>2, <4>3, <4>4
      <3> QED  BY <2>2, <3>1 DEF Vals, Rising
    <2> QED  BY <1>3, <2>3 DEF Sound
  <1>4. \A i \in DOMAIN rx_event_queue : Sound(mem, cur, nxt, rd, rx_event_queue[i])
    BY DEF StreamInv, EventsSound
  <1>5. \A i \in DOMAIN rx_event_queue :
          /\ Vals(mem', rx_event_queue[i]) = Vals(mem, rx_event_queue[i])
          /\ Sound(mem', cur, nxt, rd, rx_event_queue[i])
    BY <1>3, <1>4, StreamTypes
  <1>6. Vals(mem', ev) = Vals(mem, ev) /\ Sound(mem', cur, nxt, rd, ev)
    BY <1>3, StreamTypes DEF StreamInv, EventsSound
  <1> DEFINE n == wr - rd
             v(i) == mem[cur][rd + i]
             w(i) == mem'[cur][rd + i]
  <1>7. n \in Nat /\ \A i \in 1..n : rd + i \in 1..BufSize /\ rd + i # wr + 1
    BY <1>2, SizeAssumption
  <1>8. (\A i \in 1..n : w(i) = v(i)) /\ w(n + 1) = sent + 1
    <2>1. /\ mem[cur] \in [1..BufSize -> 0..MaxBytes]
          /\ mem'[cur] = [mem[cur] EXCEPT ![wr + 1] = sent + 1]
      BY <1>1, <1>2, StreamTypes
    <2>2. rd + (n + 1) = wr + 1
      BY <1>2
    <2> QED  BY <1>2, <1>7, <2>1, <2>2
  <1>9. /\ Vals(mem, Unreported) = {v(i) : i \in 1..n}
        /\ Vals(mem', Unreported') = {w(i) : i \in 1..(n + 1)}
        /\ Rising(mem, Unreported) <=> \A i, j \in 1..n : i < j => v(i) < v(j)
        /\ Rising(mem', Unreported') <=> \A i, j \in 1..(n + 1) : i < j => w(i) < w(j)
    <2>1. wr' - rd' = n + 1
      BY <1>1, <1>2
    <2> QED  BY <1>1, <2>1 DEF Vals, Rising, Unreported
  <1> HIDE DEF v, w, n
  <1>10. 1..(n + 1) = 1..n \cup {n + 1}
    BY <1>7
  <1>11. Vals(mem', Unreported') = Vals(mem, Unreported) \cup {sent + 1}
    BY <1>8, <1>9, <1>10
  <1>12. \A i \in 1..n : v(i) \in 1..sent
    BY <1>9 DEF StreamInv, BytesInLanes, Lanes, Bounded
  <1>13. Rising(mem', Unreported')
    <2> SUFFICES ASSUME NEW i \in 1..(n + 1), NEW j \in 1..(n + 1), i < j
                 PROVE  w(i) < w(j)
      BY <1>9
    <2>1. i \in 1..n
      BY <1>7
    <2>2. CASE j = n + 1
      <3>1. v(i) < sent + 1
        BY <1>12, <2>1, StreamTypes
      <3> QED  BY <1>8, <2>1, <2>2, <3>1
    <2>3. CASE j # n + 1
      <3>1. j \in 1..n
        BY <1>7, <2>3
      <3> QED  BY <1>8, <1>9, <2>1, <3>1 DEF StreamInv, EventsSound
    <2> QED  BY <2>2, <2>3
  <1>14. EventsSound'
    <2>1. rd' <= wr'
      BY <1>1, <1>2
    <2>2. cur' = None \/ cur' # nxt'
      BY <1>1 DEF StreamInv, EventsSound
    <2> QED  BY <1>1, <1>5, <1>6, <1>13, <2>1, <2>2 DEF EventsSound
  <1>15. BytesInLanes'
    <2>1. Got' = Got /\ QueueVals' = QueueVals
      BY <1>1, <1>5 DEF Got, QueueVals
    <2>2. Lanes(Got, Vals(mem, ev), QueueVals, Len(rx_event_queue),
                Vals(mem, Unreported) \cup {sent + 1}, dropped \cup discarded, sent + 1)
      BY LanesByte, StreamTypes DEF StreamInv, BytesInLanes
    <2> QED  BY <1>1, <1>6, <1>11, <2>1, <2>2 DEF BytesInLanes
  <1>16. InOrder'
    BY <1>1 DEF StreamInv, InOrder
  <1> QED  BY <1>14, <1>15, <1>16 DEF StreamInv

(* The driver reports the bytes received. *)
LEMMA StreamRdy == IInv /\ StreamInv /\ RxRdy => StreamInv'
  <1> SUFFICES ASSUME IInv, StreamInv, RxRdy PROVE StreamInv'
    OBVIOUS
  <1> DEFINE e == Unreported
             n == Len(rx_event_queue)
  <1>1. /\ UNCHANGED <<mem, ev, cur, nxt, wr, sent, delivered>>
        /\ rd' = wr /\ rd < wr
    BY DEF RxRdy, threadVars
  <1>2. /\ e.blk = cur /\ e.off = rd /\ e.len = wr - rd
        /\ e \in Event /\ e.off + e.len = wr /\ wr <= BufSize
        /\ cur \in Blocks /\ cur # nxt
    <2>1. e.blk = cur /\ e.off = rd /\ e.len = wr - rd
      BY DEF Unreported
    <2>2. rd \in Nat /\ wr \in Nat /\ wr - rd \in Nat /\ rd + (wr - rd) = wr /\ wr <= BufSize
      BY <1>1, StreamTypes, SizeAssumption
    <2>3. cur # None
      BY <1>1 DEF IInv, BuffersHeld
    <2>4. cur \in Blocks /\ cur # nxt
      BY <2>3, StreamTypes DEF StreamInv, EventsSound
    <2>5. e \in Event
      BY <2>2, <2>4 DEF Unreported, Event
    <2> HIDE DEF e
    <2> QED  BY <2>1, <2>2, <2>4, <2>5
  <1>3. Unreported'.len = 0
    BY <1>1, StreamTypes DEF Unreported
  <1>4. Rising(mem, Unreported') /\ Vals(mem, Unreported') = {}
    BY <1>3, ValsNone
  <1>5. Sound(mem, cur, nxt, wr, e)
    <2>1. Rising(mem, e)
      BY DEF StreamInv, EventsSound
    <2> HIDE DEF e
    <2>2. wr \in Nat
      BY StreamTypes
    <2> QED  BY <1>2, <2>1, <2>2 DEF Sound
  <1>6. ASSUME NEW x \in Event \cup {NoEvent}, Sound(mem, cur, nxt, rd, x)
        PROVE  Sound(mem, cur, nxt, wr, x)
    <2>1. x.off + x.len \in Int
      BY DEF Event, NoEvent
    <2>2. rd \in Nat /\ wr \in Nat
      BY StreamTypes
    <2> QED  BY <1>1, <1>6, <2>1, <2>2 DEF Sound
  <1>7. /\ Sound(mem, cur, nxt, wr, ev)
        /\ \A i \in 1..n : Sound(mem, cur, nxt, wr, rx_event_queue[i])
    BY <1>6, StreamTypes DEF StreamInv, EventsSound
  <1>8. InOrder'
    BY <1>1 DEF StreamInv, InOrder
  <1>9. rd' <= wr' /\ (cur' = None \/ cur' # nxt') /\ Got' = Got
    BY <1>1, <1>2, StreamTypes DEF Got
  <1>10. Lanes(Got, Vals(mem, ev), QueueVals, n, Vals(mem, e), dropped \cup discarded, sent)
    BY DEF StreamInv, BytesInLanes
  <1>11. n \in Nat /\ DOMAIN rx_event_queue = 1..n /\ rx_event_queue \in Seq(Event)
        /\ sent \in Nat
    BY StreamTypes
  <1>12. CASE /\ UNCHANGED rx_event_queue
              /\ dropped' \cup discarded' = (dropped \cup discarded) \cup Vals(mem, e)
    <2>1. EventsSound'
      BY <1>1, <1>4, <1>7, <1>9, <1>12, <1>11 DEF EventsSound
    <2>2. QueueVals' = QueueVals
      BY <1>1, <1>12 DEF QueueVals
    <2>3. Lanes(Got, Vals(mem, ev), QueueVals, n, {},
                (dropped \cup discarded) \cup Vals(mem, e), sent)
      BY <1>10, <1>11, LanesLost
    <2>4. BytesInLanes'
      BY <1>1, <1>4, <1>9, <1>12, <2>2, <2>3 DEF BytesInLanes
    <2> QED  BY <1>8, <2>1, <2>4 DEF StreamInv
  <1>13. CASE /\ rx_event_queue' = Append(rx_event_queue, e)
              /\ UNCHANGED <<dropped, discarded>>
    <2>1. /\ Len(rx_event_queue') = n + 1 /\ DOMAIN rx_event_queue' = 1..(n + 1)
          /\ \A i \in 1..n : rx_event_queue'[i] = rx_event_queue[i]
          /\ rx_event_queue'[n + 1] = e
      <3>1. /\ Append(rx_event_queue, e) \in Seq(Event)
            /\ Len(Append(rx_event_queue, e)) = n + 1
            /\ \A i \in 1..n : Append(rx_event_queue, e)[i] = rx_event_queue[i]
            /\ Append(rx_event_queue, e)[n + 1] = e
        BY <1>2, <1>11, AppendProperties
      <3>2. DOMAIN Append(rx_event_queue, e) = 1..(n + 1)
        BY <3>1, LenProperties
      <3> QED  BY <1>13, <3>1, <3>2
    <2>2. \A i \in 1..(n + 1) : i \in 1..n \/ i = n + 1
      BY <1>11
    <2>3. \A i \in DOMAIN rx_event_queue' :
            Sound(mem, cur, nxt, wr, rx_event_queue'[i])
      BY <1>5, <1>7, <2>1, <2>2
    <2>4. EventsSound'
      BY <1>1, <1>4, <1>7, <1>9, <2>3 DEF EventsSound
    <2>5. /\ \A i \in 1..n : QueueVals'[i] = QueueVals[i]
          /\ QueueVals'[n + 1] = Vals(mem, e)
      <3>1. \A i \in 1..n : i \in 1..(n + 1)
        BY <1>11
      <3>2. n + 1 \in 1..(n + 1)
        BY <1>11
      <3> QED  BY <1>1, <1>11, <2>1, <3>1, <3>2 DEF QueueVals
    <2>6. Lanes(Got, Vals(mem, ev), QueueVals', n + 1, {}, dropped \cup discarded, sent)
      BY <1>10, <1>11, <2>5, LanesQueued
    <2>7. BytesInLanes'
      BY <1>1, <1>4, <1>9, <1>13, <2>1, <2>6 DEF BytesInLanes
    <2> QED  BY <1>8, <2>4, <2>7 DEF StreamInv
  <1>14. ByteSet(e) = Vals(mem, e)
    BY DEF ByteSet, Vals
  <1>15. \/ dropped' = dropped /\ discarded' = discarded \cup ByteSet(e)
                               /\ UNCHANGED rx_event_queue
         \/ UNCHANGED <<dropped, discarded>>
               /\ rx_event_queue' = Append(rx_event_queue, e)
         \/ dropped' = dropped \cup ByteSet(e) /\ discarded' = discarded
                               /\ UNCHANGED rx_event_queue
    BY DEF RxRdy, Unreported
  <1> HIDE DEF e
  <1> QED  BY <1>12, <1>13, <1>14, <1>15

(* The reader takes the first event of the queue. *)
LEMMA StreamGet == IInv /\ StreamInv /\ ReceiveGet => StreamInv'
  <1> SUFFICES ASSUME IInv, StreamInv, ReceiveGet PROVE StreamInv'
    OBVIOUS
  <1> DEFINE q == rx_event_queue
             n == Len(q) - 1
  <1>1. /\ UNCHANGED <<mem, cur, nxt, wr, rd, sent, delivered, dropped, discarded>>
        /\ ev = NoEvent
    BY DEF ReceiveGet, drvVars, ghostVars, IInv, BuffersHeld
  <1>2. InOrder' /\ Got' = Got
    BY <1>1 DEF StreamInv, InOrder, Got
  <1>3. Unreported' = Unreported
    BY <1>1 DEF Unreported
  <1>4. CASE UNCHANGED <<ev, rx_event_queue>>
    <2>1. EventsSound'
      BY <1>1, <1>3, <1>4 DEF StreamInv, EventsSound
    <2>2. QueueVals' = QueueVals
      BY <1>1, <1>4 DEF QueueVals
    <2>3. BytesInLanes'
      BY <1>1, <1>2, <1>3, <1>4, <2>2 DEF StreamInv, BytesInLanes
    <2> QED  BY <1>2, <2>1, <2>3 DEF StreamInv
  <1>5. CASE q # <<>> /\ ev' = Head(q) /\ q' = Tail(q)
    <2>1. /\ q \in Seq(Event) /\ Len(q) \in Nat /\ DOMAIN q = 1..Len(q) /\ sent \in Nat
      BY StreamTypes
    <2>2. /\ n \in Nat /\ Len(q) = n + 1
          /\ Len(q') = n /\ DOMAIN q' = 1..n
          /\ \A i \in 1..n : q'[i] = q[i + 1]
          /\ ev' = q[1]
      <3>1. Len(q) # 0
        BY <1>5, <2>1, EmptySeq
      <3>2. /\ Tail(q) \in Seq(Event) /\ Len(Tail(q)) = n /\ Head(q) = q[1]
            /\ \A i \in 1..n : Tail(q)[i] = q[i + 1]
        BY <1>5, <2>1, HeadTailProperties
      <3>3. DOMAIN Tail(q) = 1..n
        BY <3>2, LenProperties
      <3> QED  BY <1>5, <2>1, <3>1, <3>2, <3>3
    <2> HIDE DEF n
    <2>3. 1 \in 1..(n + 1) /\ \A i \in 1..n : i + 1 \in 1..(n + 1)
      BY <2>2
    <2>4. \A i \in 1..(n + 1) : Sound(mem, cur, nxt, rd, q[i])
      BY <2>1, <2>2 DEF StreamInv, EventsSound
    <2>5. EventsSound'
      <3>1. \A i \in DOMAIN q' : Sound(mem, cur, nxt, rd, q'[i])
        BY <2>2, <2>3, <2>4
      <3>2. Sound(mem, cur, nxt, rd, ev')
        BY <2>2, <2>3, <2>4
      <3> QED  BY <1>1, <1>3, <3>1, <3>2 DEF StreamInv, EventsSound
    <2>6. Vals(mem, ev) = {}
      <3>1. ev.len = 0
        BY <1>1 DEF NoEvent
      <3> QED  BY <3>1, ValsNone
    <2>7. Lanes(Got, {}, QueueVals, n + 1, Vals(mem, Unreported), dropped \cup discarded, sent)
      BY <2>2, <2>6 DEF StreamInv, BytesInLanes
    <2>8. QueueVals[1] = Vals(mem, ev') /\ \A i \in 1..n : QueueVals'[i] = QueueVals[i + 1]
      BY <1>1, <2>1, <2>2, <2>3 DEF QueueVals
    <2>9. Lanes(Got, QueueVals[1], QueueVals', n, Vals(mem, Unreported),
                dropped \cup discarded, sent)
      BY <2>1, <2>2, <2>7, <2>8, LanesTaken
    <2>10. BytesInLanes'
      BY <1>1, <1>2, <1>3, <2>2, <2>8, <2>9 DEF BytesInLanes
    <2> QED  BY <1>2, <2>5, <2>10 DEF StreamInv
  <1> QED  BY <1>4, <1>5 DEF ReceiveGet

(* pipe_receive copies what fits to the reader's buffer and releases the    *)
(* event, puts its rest back, or loses the rest to a full queue.            *)
LEMMA StreamCopy == IInv /\ StreamInv /\ ReceiveCopy => StreamInv'
  <1> SUFFICES ASSUME IInv, StreamInv, ReceiveCopy PROVE StreamInv'
    OBVIOUS
  <1> DEFINE k == CopySize(want, ev.len)
             front == [ev EXCEPT !.len = k]
             rest == [blk |-> ev.blk, off |-> ev.off + k, len |-> ev.len - k]
             q == rx_event_queue
             n == Len(q)
             A == Vals(mem, front)
             B == Vals(mem, rest)
  <1>1. /\ UNCHANGED <<mem, cur, nxt, wr, rd, sent, discarded>>
        /\ ev' = NoEvent /\ ev \in Event /\ want \in Nat
        /\ delivered' = delivered \o Bytes(front)
    BY DEF ReceiveCopy, drvVars, IInv, TypeOK, TypeThread, BuffersHeld
  <1>2. \/ rest.len = 0 /\ UNCHANGED <<rx_event_queue, dropped>>
        \/ rx_event_queue' = <<rest>> \o rx_event_queue /\ UNCHANGED dropped
        \/ dropped' = dropped \cup ByteSet(rest) /\ UNCHANGED rx_event_queue
    BY DEF ReceiveCopy, k_msgq_put_front
  <1>3. k \in 0..ev.len /\ ev.len \in Nat /\ ev.off \in Nat /\ ev.blk \in Blocks
    <2>1. ev.len \in Nat /\ ev.off \in Nat /\ ev.blk \in Blocks
      BY <1>1 DEF Event
    <2> QED  BY <1>1, <2>1 DEF CopySize
  <1> HIDE DEF k
  <1>4. /\ front.blk = ev.blk /\ front.off = ev.off /\ front.len = k
        /\ rest.blk = ev.blk /\ rest.off = ev.off + k /\ rest.len = ev.len - k
        /\ rest \in Event /\ rest.off + rest.len = ev.off + ev.len
    BY <1>1, <1>3 DEF Event
  <1>5. Sound(mem, cur, nxt, rd, ev) /\ Rising(mem, ev)
    BY DEF StreamInv, EventsSound, Sound
  <1>6. /\ Vals(mem, ev) = A \cup B /\ Below(A, B)
        /\ Rising(mem, front) /\ Rising(mem, rest)
    <2> HIDE DEF front, rest
    <2> QED  BY <1>1, <1>3, <1>4, <1>5, ValsSplit
  <1>7. Sound(mem, cur, nxt, rd, rest)
    BY <1>4, <1>5, <1>6 DEF Sound
  <1> HIDE DEF rest
  <1>8. Lanes(Got, Vals(mem, ev), QueueVals, n, Vals(mem, Unreported),
              dropped \cup discarded, sent)
    BY DEF StreamInv, BytesInLanes
  <1>9. n \in Nat /\ DOMAIN q = 1..n /\ q \in Seq(Event) /\ sent \in Nat
    BY StreamTypes
  <1>10. InOrder' /\ Got' = Got \cup A
    <2> DEFINE t == Bytes(front)
    <2>1. t = [i \in 1..k |-> mem[ev.blk][ev.off + i]]
      BY <1>4 DEF Bytes
    <2>2. \A i \in 1..k : mem[ev.blk][ev.off + i] \in A
      BY <1>4 DEF Vals
    <2>3. A \subseteq Nat
      <3>1. \A x \in Vals(mem, ev) : x \in 1..sent
        BY <1>8 DEF Lanes, Bounded
      <3> QED  BY <1>6, <1>9, <3>1
    <2>4. A = {mem[ev.blk][ev.off + i] : i \in 1..k}
      BY <1>4 DEF Vals
    <2> HIDE DEF A
    <2>5. t \in Seq(Nat) /\ DOMAIN t = 1..k
      <3>1. t \in [1..k -> Nat]
        BY <2>1, <2>2, <2>3
      <3>2. k \in Nat
        BY <1>3
      <3>3. t \in Seq(Nat)
        BY <3>1, <3>2, SeqDef
      <3> QED  BY <2>1, <3>3
    <2>6. \A i, j \in DOMAIN t : i < j => t[i] < t[j]
      BY <1>4, <1>6, <2>1, <2>5 DEF Rising
    <2>7. {t[i] : i \in DOMAIN t} = A
      BY <2>1, <2>4, <2>5
    <2>8. Below(Got, A)
      BY <1>6, <1>8 DEF Lanes, Ordered, Below
    <2>9. \A i \in DOMAIN delivered, j \in DOMAIN t : delivered[i] < t[j]
      BY <2>7, <2>8 DEF Below, Got
    <2>10. /\ delivered \in Seq(Nat)
           /\ \A i, j \in DOMAIN delivered : i < j => delivered[i] < delivered[j]
      BY DEF StreamInv, InOrder
    <2> HIDE DEF t
    <2>11. /\ delivered \o t \in Seq(Nat)
           /\ \A i, j \in DOMAIN (delivered \o t) :
                i < j => (delivered \o t)[i] < (delivered \o t)[j]
           /\ {(delivered \o t)[i] : i \in DOMAIN (delivered \o t)}
                = {delivered[i] : i \in DOMAIN delivered} \cup {t[i] : i \in DOMAIN t}
      BY <2>5, <2>6, <2>9, <2>10, DeliveredConcat
    <2>12. delivered' = delivered \o t
      BY <1>1 DEF t
    <2> QED  BY <2>7, <2>11, <2>12 DEF InOrder, Got
  <1>11. Vals(mem, ev') = {} /\ Sound(mem, cur, nxt, rd, ev')
    <2>1. ev'.blk = None /\ ev'.off = 0 /\ ev'.len = 0
      BY <1>1 DEF NoEvent
    <2>2. Vals(mem, ev') = {} /\ Rising(mem, ev')
      BY <2>1, ValsNone
    <2>3. rd \in Nat /\ BufSize \in Nat
      BY StreamTypes, SizeAssumption
    <2> QED  BY <2>1, <2>2, <2>3 DEF Sound
  <1>12. Unreported' = Unreported
    BY <1>1 DEF Unreported
  <1>13. ASSUME UNCHANGED rx_event_queue, NEW L, L = (dropped \cup discarded) \cup B,
                dropped' \cup discarded' = L
         PROVE  StreamInv'
    <2>1. EventsSound'
      BY <1>1, <1>11, <1>12, <1>13 DEF StreamInv, EventsSound
    <2>2. QueueVals' = QueueVals
      BY <1>1, <1>13 DEF QueueVals
    <2>3. Lanes(Got \cup A, {}, QueueVals, n, Vals(mem, Unreported),
                (dropped \cup discarded) \cup B, sent)
      BY <1>6, <1>8, <1>9, LanesCopied
    <2>4. BytesInLanes'
      BY <1>1, <1>10, <1>11, <1>12, <1>13, <2>2, <2>3 DEF BytesInLanes
    <2> QED  BY <1>10, <2>1, <2>4 DEF StreamInv
  <1>14. CASE rest.len = 0 /\ UNCHANGED <<rx_event_queue, dropped>>
    <2>1. B = {}
      BY <1>14, ValsNone
    <2> QED  BY <1>1, <1>13, <1>14, <2>1
  <1>15. CASE dropped' = dropped \cup ByteSet(rest) /\ UNCHANGED rx_event_queue
    <2>1. ByteSet(rest) = B
      BY DEF ByteSet, Vals
    <2> QED  BY <1>1, <1>13, <1>15, <2>1
  <1>16. CASE rx_event_queue' = <<rest>> \o rx_event_queue /\ UNCHANGED dropped
    <2>1. /\ Len(q') = n + 1 /\ DOMAIN q' = 1..(n + 1)
          /\ q'[1] = rest
          /\ \A i \in 1..n : q'[i + 1] = q[i]
      <3>1. <<rest>> \in Seq(Event) /\ Len(<<rest>>) = 1 /\ <<rest>>[1] = rest
        BY <1>4
      <3>2. /\ <<rest>> \o q \in Seq(Event) /\ Len(<<rest>> \o q) = n + 1
            /\ \A i \in 1..(n + 1) :
                 (<<rest>> \o q)[i] = IF i <= 1 THEN rest ELSE q[i - 1]
        BY <1>9, <3>1, ConcatProperties
      <3>3. DOMAIN (<<rest>> \o q) = 1..(n + 1)
        BY <3>2, LenProperties
      <3>4. 1 \in 1..(n + 1) /\ \A i \in 1..n :
              i + 1 \in 1..(n + 1) /\ ~(i + 1 <= 1) /\ (i + 1) - 1 = i
        BY <1>9
      <3> QED  BY <1>16, <3>2, <3>3, <3>4
    <2>2. \A i \in 1..(n + 1) : i = 1 \/ (i - 1 \in 1..n /\ (i - 1) + 1 = i)
      BY <1>9
    <2>3. \A i \in DOMAIN q' : Sound(mem, cur, nxt, rd, q'[i])
      <3> TAKE i \in DOMAIN q'
      <3>1. CASE i = 1
        BY <1>7, <2>1, <3>1
      <3>2. CASE i - 1 \in 1..n /\ (i - 1) + 1 = i
        <4>1. q'[i] = q[i - 1] /\ i - 1 \in DOMAIN q
          BY <1>9, <2>1, <3>2
        <4> QED  BY <4>1 DEF StreamInv, EventsSound
      <3> QED  BY <2>1, <2>2, <3>1, <3>2
    <2>4. EventsSound'
      BY <1>1, <1>11, <1>12, <2>3 DEF StreamInv, EventsSound
    <2>5. QueueVals'[1] = B /\ \A i \in 1..n : QueueVals'[i + 1] = QueueVals[i]
      <3>1. 1 \in 1..(n + 1) /\ \A i \in 1..n : i + 1 \in 1..(n + 1)
        BY <1>9
      <3> QED  BY <1>1, <1>9, <2>1, <3>1 DEF QueueVals
    <2>6. Lanes(Got \cup A, {}, QueueVals', n + 1, Vals(mem, Unreported),
                dropped \cup discarded, sent)
      <3>1. Vals(mem, ev) = A \cup B /\ Below(A, B)
        BY <1>6
      <3> HIDE DEF A, B
      <3> QED  BY <1>8, <1>9, <2>5, <3>1, LanesPutBack
    <2>7. BytesInLanes'
      BY <1>1, <1>10, <1>11, <1>12, <1>16, <2>1, <2>6 DEF BytesInLanes
    <2> QED  BY <1>10, <2>4, <2>7 DEF StreamInv
  <1> QED  BY <1>2, <1>14, <1>15, <1>16

(* Every step keeps the stream. *)
LEMMA NextStream == IInv /\ StreamInv /\ [Next]_vars => StreamInv'
  <1> SUFFICES ASSUME IInv, StreamInv, [Next]_vars PROVE StreamInv'
    OBVIOUS
  (* A block newly allocated holds no event. *)
  <1>1. ASSUME NEW b \in free, NEW e,
               e = ev \/ \E i \in DOMAIN rx_event_queue : e = rx_event_queue[i]
        PROVE  e.blk # b /\ b # cur /\ b # nxt /\ b # None /\ b \in Blocks
    <2>1. b \in Blocks /\ Queued(rx_event_queue, b) = {} /\ ev.blk # b /\ cur # b /\ nxt # b
      BY FreeUnused
    <2> QED  BY <1>1, <2>1, SlabAssumption DEF Queued
  <1>2. CASE DriverByte
    BY <1>2, StreamByte
  <1>3. CASE RxRdy
    BY <1>3, StreamRdy
  <1>4. CASE ReceiveGet
    BY <1>4, StreamGet
  <1>5. CASE ReceiveCopy
    BY <1>5, StreamCopy
  <1>6. CASE RxBufRequest
    <2>1. UNCHANGED <<rx_event_queue, ev, mem, sent, delivered, dropped, discarded,
                      cur, wr, rd>>
      BY <1>6 DEF RxBufRequest, threadVars
    <2>2. CASE UNCHANGED nxt
      BY <2>1, <2>2, StreamBlocks DEF Sound, StreamInv, EventsSound
    <2>3. ASSUME NEW b \in free, nxt' = b  PROVE StreamInv'
      BY <1>1, <2>1, <2>3, StreamBlocks DEF Sound
    <2> QED  BY <1>6, <2>2, <2>3 DEF RxBufRequest
  <1>7. CASE RxEnable
    <2>1. UNCHANGED <<rx_event_queue, ev, mem, sent, delivered, dropped, discarded, nxt>>
      BY <1>7 DEF RxEnable
    <2>2. CASE UNCHANGED <<cur, wr, rd>>
      BY <2>1, <2>2, StreamBlocks DEF Sound, StreamInv, EventsSound
    <2>3. ASSUME NEW b \in free, cur' = b, wr' = 0, rd' = 0, drv = "off"  PROVE StreamInv'
      <3>1. wr = rd
        BY <2>3 DEF IInv, BuffersHeld
      <3> QED  BY <1>1, <2>1, <2>3, <3>1, StreamBlocks DEF Sound
    <2> QED  BY <1>7, <2>2, <2>3 DEF RxEnable
  <1>8. CASE RxBufReleased \/ RxBufReleasedOnStop
    <2>1. /\ UNCHANGED <<rx_event_queue, ev, mem, sent, delivered, dropped, discarded>>
          /\ cur' = nxt /\ nxt' = None /\ wr' = 0 /\ rd' = 0 /\ rd = wr
      BY <1>8 DEF RxBufReleased, RxBufReleasedOnStop, threadVars, ghostVars
    <2>2. cur' = None \/ cur' # nxt'
      BY <2>1
    <2>3. ASSUME NEW e \in Event \cup {NoEvent}, Sound(mem, cur, nxt, rd, e)
          PROVE  /\ e.blk = cur' => e.off + e.len <= rd'
                 /\ e.blk = nxt' => e.off + e.len = 0
      <3>1. e.blk = nxt => e.off + e.len = 0
        BY <2>3 DEF Sound
      <3>2. e.blk = None => e.off + e.len = 0
        BY SlabAssumption DEF Event, NoEvent
      <3> QED  BY <2>1, <3>1, <3>2
    <2> QED  BY <2>1, <2>2, <2>3, StreamBlocks
  <1>9. CASE Bystander
    <2>1. UNCHANGED <<rx_event_queue, ev, mem, sent, delivered, dropped, discarded,
                      cur, nxt, wr, rd>>
      BY <1>9, BystanderKeeps
    <2> QED  BY <2>1, StreamBlocks DEF Sound, StreamInv, EventsSound
  <1> QED  BY <1>2, <1>3, <1>4, <1>5, <1>6, <1>7, <1>8, <1>9
           DEF Next, Driver, Thread, Bystander

(* The lanes, read as the property states them. *)
LEMMA StreamFromLanes == IInv /\ StreamInv => StreamIntact
  <1> SUFFICES ASSUME IInv, StreamInv PROVE StreamIntact
    OBVIOUS
  <1> DEFINE q == rx_event_queue
             n == Len(q)
             Q == UNION {ByteSet(q[i]) : i \in DOMAIN q}
             E == Vals(mem, ev)
             C == Vals(mem, Unreported)
             L == dropped \cup discarded
  <1>1. Lanes(Got, E, QueueVals, n, C, L, sent) /\ DOMAIN q = 1..n /\ sent \in Nat
    BY StreamTypes DEF StreamInv, BytesInLanes
  <1>2. \A x : x \in Q <=> \E i \in 1..n : x \in QueueVals[i]
    <2>1. \A i \in 1..n : ByteSet(q[i]) = QueueVals[i]
      BY <1>1 DEF QueueVals, ByteSet, Vals
    <2> QED  BY <1>1, <2>1
  <1>3. (IF pc = "copy" THEN ByteSet(ev) ELSE {}) = E
    <2>1. CASE pc = "copy"
      BY <2>1 DEF ByteSet, Vals
    <2>2. CASE pc # "copy"
      <3>1. ev.len = 0
        BY <2>2 DEF IInv, BuffersHeld, NoEvent
      <3> QED  BY <2>2, <3>1, ValsNone
    <2> QED  BY <2>1, <2>2
  <1>4. (IF cur = None THEN {} ELSE {mem[cur][i] : i \in rd + 1 .. wr}) = C
    <2>1. CASE cur = None
      <3>1. Unreported.len = 0
        BY <2>1 DEF IInv, BuffersHeld, Unreported
      <3> QED  BY <2>1, <3>1, ValsNone
    <2>2. CASE cur # None
      <3>1. rd \in Nat /\ wr \in Nat
        BY StreamTypes
      <3>2. C = {mem[cur][rd + i] : i \in 1..(wr - rd)}
        BY DEF Vals, Unreported
      <3>3. \A i \in 1..(wr - rd) : rd + i \in (rd + 1)..wr
        BY <3>1
      <3>4. \A i \in (rd + 1)..wr : i - rd \in 1..(wr - rd) /\ rd + (i - rd) = i
        BY <3>1
      <3> HIDE DEF C
      <3>5. {mem[cur][i] : i \in (rd + 1)..wr} = C
        BY <3>2, <3>3, <3>4
      <3> QED  BY <2>2, <3>5
    <2> QED  BY <2>1, <2>2
  <1>5. Pending = Q \cup E \cup C
    <2> DEFINE X == IF pc = "copy" THEN ByteSet(ev) ELSE {}
               Y == IF cur = None THEN {} ELSE {mem[cur][i] : i \in rd + 1 .. wr}
    <2>1. Pending = Q \cup X \cup Y
      BY DEF Pending
    <2>2. X = E /\ Y = C
      BY <1>3, <1>4
    <2> HIDE DEF X, Y, Q, E, C
    <2> QED  BY <2>1, <2>2
  <1> HIDE DEF Q, E, C, L
  <1>6. 1..sent = Got \cup Pending \cup L
    BY <1>1, <1>2, <1>5 DEF Lanes, Bounded, Complete
  <1>7. ASSUME NEW x \in Got  PROVE x \notin Pending \cup L
    <2>1. x \in Nat /\ ~(x < x)
      BY <1>1 DEF Lanes, Bounded
    <2>2. x \notin E /\ x \notin C
      BY <1>1, <2>1 DEF Lanes, Ordered, Below
    <2>3. \A i \in 1..n : x \notin QueueVals[i]
      BY <1>1, <2>1 DEF Lanes, Ordered, Below
    <2>4. x \notin L
      BY <1>1 DEF Lanes, Unlost, Apart
    <2> QED  BY <1>2, <1>5, <2>2, <2>3, <2>4
  <1>8. \A i, j \in DOMAIN delivered : i < j => delivered[i] < delivered[j]
    BY DEF StreamInv, InOrder
  <1> QED  BY <1>6, <1>7, <1>8 DEF StreamIntact, Got, L

(* For every slab, buffer and read size and every interleaving of the UART  *)
(* interrupt with the thread, also with driver errors and with preemption   *)
(* inside rx_enable: pipe_receive returns the host's bytes in order, none   *)
(* twice and none overwritten in a buffer recycled too early, and each byte *)
(* not returned is on its way or was counted as lost.                       *)
THEOREM StreamCorrect == Spec => []StreamIntact
  <1>1. Init => IInv /\ StreamInv
    <2> SUFFICES ASSUME Init PROVE StreamInv
      BY InitIInv
    <2> USE DEF Init
    <2>1. InOrder
      BY EmptySeq DEF InOrder
    <2>2. /\ Rising(mem, ev) /\ Vals(mem, ev) = {}
      <3>1. ev.len = 0
        BY DEF NoEvent
      <3> QED  BY <3>1, ValsNone
    <2>3. Rising(mem, Unreported) /\ Vals(mem, Unreported) = {}
      <3>1. Unreported.len = 0
        BY DEF Unreported
      <3> QED  BY <3>1, ValsNone
    <2>4. EventsSound
      <3>1. ev.off = 0 /\ ev.len = 0
        BY DEF NoEvent
      <3>2. Sound(mem, cur, nxt, rd, ev)
        BY <2>2, <3>1, SizeAssumption DEF Sound
      <3>3. DOMAIN rx_event_queue = {}
        OBVIOUS
      <3> QED  BY <2>3, <3>2, <3>3 DEF EventsSound
    <2>5. BytesInLanes
      <3>1. Got = {} /\ Len(rx_event_queue) = 0 /\ 1..0 = {}
        BY DEF Got
      <3> QED  BY <2>2, <2>3, <3>1
               DEF BytesInLanes, Lanes, Bounded, Ordered, Unlost, Complete, Below, Apart
    <2> QED  BY <2>1, <2>4, <2>5 DEF StreamInv
  <1>2. IInv /\ StreamInv /\ [Next]_vars => (IInv /\ StreamInv)'
    BY IInvStep, NextStream
  <1>3. IInv /\ StreamInv => StreamIntact
    BY StreamFromLanes
  <1> QED  BY <1>1, <1>2, <1>3, PTL DEF Spec
=============================================================================
