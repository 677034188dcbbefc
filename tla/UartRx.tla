------------------------------- MODULE UartRx -------------------------------
(***************************************************************************)
(* The receive half of app/src/sm_uart_handler.c: the slab of reference-   *)
(* counted receive buffers, the RX event queue between the UART interrupt  *)
(* and the reader of the pipe, and the disabling and recovery of UART RX.  *)
(*                                                                         *)
(* Two agents interleave: the UART driver with uart_callback() running in  *)
(* interrupt context (one action per event), and the one thread that opens,*)
(* reads and closes the pipe (sm_work_q; every caller of modem_pipe_open,  *)
(* _receive and _close on the UART pipe runs there, or in main() before    *)
(* the queue starts).  The thread is cut wherever an interrupt can matter. *)
(* Bytes are numbered in the order the host sends them; a block of memory  *)
(* holds the numbers last written to it, so that a buffer recycled too     *)
(* early shows as a number read twice or out of order.                     *)
(***************************************************************************)
EXTENDS Integers, Sequences, FiniteSets

CONSTANTS
    Blocks,           \* blocks of rx_slab (CONFIG_SM_UART_RX_BUF_COUNT of them)
    BufSize,          \* bytes per block (CONFIG_SM_UART_RX_BUF_SIZE)
    EventBytes,       \* bytes that one queue entry is budgeted for (128)
    ReadSizes,        \* the sizes readers pass to modem_pipe_receive
    MaxBytes,         \* bound: bytes the host sends
    DriverFaults,     \* may uart_rx_enable and uart_rx_buf_rsp return errors
    None              \* no block

UART_RX_EVENT_COUNT == (Cardinality(Blocks) * BufSize) \div EventBytes
UART_RX_EVENT_COUNT_FOR_BUF == UART_RX_EVENT_COUNT \div Cardinality(Blocks)

ASSUME SlabAssumption ==
    /\ IsFiniteSet(Blocks)
    /\ Blocks # {}
    /\ None \notin Blocks
ASSUME SizeAssumption ==
    /\ BufSize \in Nat \ {0}
    /\ EventBytes \in Nat \ {0}
    /\ ReadSizes \subseteq Nat \ {0}
    /\ MaxBytes \in Nat
    /\ UART_RX_EVENT_COUNT \in Nat
ASSUME SwitchAssumption == DriverFaults \in BOOLEAN

VARIABLES
    free,             \* rx_slab: the free blocks
    ref,              \* ref_counter of every block
    mem,              \* contents of every block: byte numbers, 0 if never written
    rx_event_queue,   \* rx_event_t entries: block, offset in it, length
    rxEnabled,        \* SM_UART_STATE_RX_ENABLED_BIT
    recovery,         \* SM_UART_STATE_RX_RECOVERY_BIT
    recoveryDisabled, \* SM_UART_STATE_RX_RECOVERY_DISABLED_BIT
    open,             \* SM_PIPE_STATE_OPEN_BIT
    opened,           \* the pipe was notified as opened (reads are possible)
    workq,            \* sm_work_q.flags & K_WORK_QUEUE_STARTED
    rxReady,          \* a receive-ready notification the reader has not consumed
    pc,               \* where the thread is
    ev,               \* rx_event of pipe_receive
    want,             \* size - received of pipe_receive
    received,         \* received of pipe_receive
    drv,              \* UART driver: "off", "on", "ended", "stopping"
    cur,              \* block the driver writes
    nxt,              \* block the driver continues with
    wr,               \* bytes written to cur
    rd,               \* bytes of cur already reported with UART_RX_RDY
    req,              \* UART_RX_BUF_REQUEST pending
    sent,             \* bytes the host has sent
    delivered,        \* bytes returned by pipe_receive, in order
    dropped,          \* bytes discarded with a full event queue
    discarded,        \* bytes discarded before the work queue runs
    rdys,             \* UART_RX_RDY events of every block since its allocation
    burst             \* some block had more of them than it is budgeted for

slabVars   == <<free, ref>>
bitVars    == <<rxEnabled, recovery, recoveryDisabled>>
pipeVars   == <<open, opened, workq>>
threadVars == <<pc, ev, want, received>>
drvVars    == <<drv, cur, nxt, wr, rd, req>>
ghostVars  == <<dropped, discarded, rdys, burst>>
vars == <<slabVars, mem, rx_event_queue, bitVars, pipeVars, rxReady, threadVars,
          drvVars, sent, delivered, ghostVars>>

Event == [blk : Blocks, off : Nat, len : Nat]
NoEvent == [blk |-> None, off |-> 0, len |-> 0]

(* The bytes an event stands for, as they are in memory now. *)
Bytes(e) == [i \in 1..e.len |-> mem[e.blk][e.off + i]]
ByteSet(e) == {mem[e.blk][e.off + i] : i \in 1..e.len}

-----------------------------------------------------------------------------
(* The slab. *)

rx_buf_alloc(b) ==
    /\ b \in free
    /\ free' = free \ {b}
    /\ ref' = [ref EXCEPT ![b] = 1]

rx_buf_refMutant(b) == UNCHANGED <<free, ref>>

rx_buf_ref(b) ==
    /\ ref' = [ref EXCEPT ![b] = @ + 1]
    /\ UNCHANGED free

rx_buf_unrefMutant(b) ==
    /\ ref' = [ref EXCEPT ![b] = @ - 1]
    /\ free' = free \cup {b}

rx_buf_unref(b) ==
    /\ ref' = [ref EXCEPT ![b] = @ - 1]
    /\ free' = IF ref[b] = 1 THEN free \cup {b} ELSE free

-----------------------------------------------------------------------------
(* uart_callback(): one action per UART event, with the driver's own step   *)
(* that raises the event.                                                   *)

(* A byte arrives.  Hardware flow control holds the host off otherwise. *)
DriverByte ==
    /\ drv = "on" /\ wr < BufSize /\ sent < MaxBytes
    /\ sent' = sent + 1
    /\ wr' = wr + 1
    /\ mem' = [mem EXCEPT ![cur][wr + 1] = sent + 1]
    /\ UNCHANGED <<slabVars, rx_event_queue, bitVars, pipeVars, rxReady,
                   threadVars, drv, cur, nxt, rd, req, delivered, ghostVars>>

(* UART_RX_RDY: bytes received, after an idle gap or at the end of a buffer. *)
RxRdy ==
    /\ drv \in {"on", "stopping"} /\ rd < wr
    /\ rd' = wr
    /\ LET e == [blk |-> cur, off |-> rd, len |-> wr - rd]
       IN  \/ /\ ~workq
              /\ discarded' = discarded \cup ByteSet(e)
              /\ UNCHANGED <<slabVars, rx_event_queue, rxReady, dropped, rdys, burst>>
           \/ /\ workq
              /\ rdys' = [rdys EXCEPT ![cur] = @ + 1]
              /\ burst' = (burst \/ rdys[cur] + 1 > UART_RX_EVENT_COUNT_FOR_BUF)
              /\ \/ /\ Len(rx_event_queue) < UART_RX_EVENT_COUNT
                    /\ rx_buf_ref(cur)
                    /\ rx_event_queue' = Append(rx_event_queue, e)
                    /\ rxReady' = TRUE
                    /\ UNCHANGED <<dropped, discarded>>
                 \/ /\ Len(rx_event_queue) >= UART_RX_EVENT_COUNT
                    /\ dropped' = dropped \cup ByteSet(e)
                    /\ UNCHANGED <<slabVars, rx_event_queue, rxReady, discarded>>
    /\ UNCHANGED <<mem, bitVars, pipeVars, threadVars, drv, cur, nxt, wr, req,
                   sent, delivered>>

(* UART_RX_BUF_REQUEST: the driver started a buffer and wants the next one. *)
RxBufRequest ==
    /\ drv = "on" /\ req
    /\ req' = FALSE
    /\ LET space == UART_RX_EVENT_COUNT - Len(rx_event_queue)
                        >= UART_RX_EVENT_COUNT_FOR_BUF
       IN  \/ \E b \in free :
                /\ space
                /\ rx_buf_alloc(b)
                /\ nxt' = b
                /\ rdys' = [rdys EXCEPT ![b] = 0]
           \/ /\ ~space \/ free = {} \/ DriverFaults
              /\ UNCHANGED <<slabVars, nxt, rdys>>
    /\ UNCHANGED <<mem, rx_event_queue, bitVars, pipeVars, rxReady, threadVars,
                   drv, cur, wr, rd, sent, delivered, dropped, discarded, burst>>

(* UART_RX_BUF_RELEASED of a full buffer: the driver goes on with the next  *)
(* one, and without one it will disable RX.  The request for the next was   *)
(* raised when this buffer was started, and served long before its end.     *)
RxBufReleased ==
    /\ drv = "on" /\ wr = BufSize /\ rd = wr /\ ~req
    /\ rx_buf_unref(cur)
    /\ cur' = nxt /\ nxt' = None
    /\ wr' = 0 /\ rd' = 0
    /\ drv' = IF nxt = None THEN "ended" ELSE "on"
    /\ req' = (nxt # None)
    /\ UNCHANGED <<mem, rx_event_queue, bitVars, pipeVars, rxReady, threadVars,
                   sent, delivered, ghostVars>>

(* UART_RX_BUF_RELEASED while the driver stops: both of its buffers. *)
RxBufReleasedOnStop ==
    /\ drv = "stopping" /\ rd = wr /\ cur # None
    /\ rx_buf_unref(cur)
    /\ cur' = nxt /\ nxt' = None
    /\ wr' = 0 /\ rd' = 0
    /\ UNCHANGED <<mem, rx_event_queue, bitVars, pipeVars, rxReady, threadVars,
                   drv, req, sent, delivered, ghostVars>>

(* Without the notification. *)
RxDisabledMutant ==
    /\ drv = "ended" \/ (drv = "stopping" /\ cur = None)
    /\ drv' = "off"
    /\ rxEnabled' = FALSE
    /\ UNCHANGED <<slabVars, mem, rx_event_queue, recovery, recoveryDisabled, pipeVars,
                   rxReady, threadVars, cur, nxt, wr, rd, req, sent, delivered, ghostVars>>

(* UART_RX_DISABLED.  It may come before the thread, if that lost the CPU   *)
(* while the buffers filled up, has set RX_ENABLED_BIT in rx_enable().      *)
RxDisabled ==
    /\ drv = "ended" \/ (drv = "stopping" /\ cur = None)
    /\ drv' = "off"
    /\ rxEnabled' = FALSE
    /\ rxReady' = TRUE
    /\ UNCHANGED <<slabVars, mem, rx_event_queue, recovery, recoveryDisabled, pipeVars,
                   threadVars, cur, nxt, wr, rd, req, sent, delivered, ghostVars>>

Driver == \/ RxRdy \/ RxBufRequest \/ RxBufReleased \/ RxBufReleasedOnStop
          \/ RxDisabled

-----------------------------------------------------------------------------
(* pipe_receive(), called in a loop by the reader until it returns 0.       *)

(* How much of an event of l bytes fits the w bytes left of the caller's. *)
CopySize(w, l) == IF w < l THEN w ELSE l

k_msgq_put_frontMutant(q, e) == Append(q, e)
k_msgq_put_front(q, e) == <<e>> \o q

(* The reader's work runs: a first call of pipe_receive. *)
ReaderRuns ==
    /\ pc = "idle" /\ opened /\ workq /\ rxReady
    /\ rxReady' = FALSE
    /\ want' \in ReadSizes
    /\ received' = 0
    /\ pc' = "get"
    /\ UNCHANGED <<slabVars, mem, rx_event_queue, bitVars, pipeVars, ev, drvVars,
                   sent, delivered, ghostVars>>

(* while (size > received) k_msgq_get() *)
ReceiveGet ==
    /\ pc = "get"
    /\ \/ /\ want > 0 /\ rx_event_queue # <<>>
          /\ ev' = Head(rx_event_queue)
          /\ rx_event_queue' = Tail(rx_event_queue)
          /\ pc' = "copy"
       \/ /\ want = 0 \/ rx_event_queue = <<>>
          /\ pc' = "check"
          /\ UNCHANGED <<ev, rx_event_queue>>
    /\ UNCHANGED <<slabVars, mem, bitVars, pipeVars, rxReady, want, received,
                   drvVars, sent, delivered, ghostVars>>

(* memcpy() of what fits, then release the event or put its rest back. *)
ReceiveCopy ==
    /\ pc = "copy"
    /\ LET n    == CopySize(want, ev.len)
           rest == [blk |-> ev.blk, off |-> ev.off + n, len |-> ev.len - n]
       IN  /\ delivered' = delivered \o Bytes([ev EXCEPT !.len = n])
           /\ want' = want - n
           /\ received' = received + n
           /\ \/ /\ rest.len = 0
                 /\ rx_buf_unref(ev.blk)
                 /\ UNCHANGED <<rx_event_queue, dropped>>
              \/ /\ rest.len > 0 /\ Len(rx_event_queue) < UART_RX_EVENT_COUNT
                 /\ rx_event_queue' = k_msgq_put_front(rx_event_queue, rest)
                 /\ UNCHANGED <<slabVars, dropped>>
              \/ /\ rest.len > 0 /\ Len(rx_event_queue) >= UART_RX_EVENT_COUNT
                 /\ dropped' = dropped \cup ByteSet(rest)
                 /\ rx_buf_unref(ev.blk)
                 /\ UNCHANGED rx_event_queue
    /\ ev' = NoEvent
    /\ pc' = "get"
    /\ UNCHANGED <<mem, bitVars, pipeVars, rxReady, drvVars, sent,
                   discarded, rdys, burst>>

(* With the queue empty, rx_recovery(). *)
ReceiveCheck ==
    /\ pc = "check"
    /\ \/ /\ rx_event_queue = <<>> /\ ~recoveryDisabled
          /\ recovery' = TRUE
          /\ pc' = "enable"
       \/ /\ rx_event_queue # <<>> \/ recoveryDisabled
          /\ pc' = "return"
          /\ UNCHANGED recovery
    /\ UNCHANGED <<slabVars, mem, rx_event_queue, rxEnabled, recoveryDisabled, pipeVars,
                   rxReady, ev, want, received, drvVars, sent, delivered, ghostVars>>

(* One call per notification. *)
ReceiveReturnMutant ==
    /\ pc = "return"
    /\ pc' = "idle"
    /\ received' = 0
    /\ UNCHANGED <<slabVars, mem, rx_event_queue, bitVars, pipeVars, rxReady, ev,
                   want, drvVars, sent, delivered, ghostVars>>

(* pipe_receive returned: the reader calls it again until it returns 0. *)
ReceiveReturn ==
    /\ pc = "return"
    /\ \/ /\ received > 0
          /\ want' \in ReadSizes
          /\ pc' = "get"
       \/ /\ received = 0
          /\ pc' = "idle"
          /\ UNCHANGED want
    /\ received' = 0
    /\ UNCHANGED <<slabVars, mem, rx_event_queue, bitVars, pipeVars, rxReady, ev,
                   drvVars, sent, delivered, ghostVars>>

-----------------------------------------------------------------------------
(* rx_enable(), called by rx_recovery() (recovery set) and by pipe_open().  *)

(* RX_RECOVERY_BIT is left set. *)
EnableReturnsMutant(ok) ==
    /\ pc' = IF recovery THEN "return" ELSE "idle"
    /\ opened' = IF recovery THEN opened ELSE ok
    /\ UNCHANGED recovery

(* The caller of rx_enable() gets its result. *)
EnableReturns(ok) ==
    IF recovery
    THEN /\ recovery' = FALSE
         /\ pc' = "return"
         /\ UNCHANGED opened
    ELSE /\ opened' = ok
         /\ pc' = "idle"
         /\ UNCHANGED recovery

(* Up to and including uart_rx_enable().  Nothing is received while the     *)
(* driver is off, so that no interrupt can fall between these steps.        *)
RxEnable ==
    /\ pc = "enable"
    /\ \/ \E b \in free :
            /\ ~rxEnabled /\ ~recoveryDisabled
            /\ drv = "off"
            /\ rx_buf_alloc(b)
            /\ drv' = "on" /\ cur' = b /\ wr' = 0 /\ rd' = 0 /\ req' = TRUE
            /\ rdys' = [rdys EXCEPT ![b] = 0]
            /\ pc' = "setEnabled"
            /\ UNCHANGED <<recovery, opened>>
       \/ /\ \/ rxEnabled \/ recoveryDisabled          \* return 0
             \/ free = {}                              \* -ENOMEM
             \/ drv # "off" \/ DriverFaults            \* error of uart_rx_enable
          /\ EnableReturns(rxEnabled \/ recoveryDisabled)
          /\ UNCHANGED <<slabVars, drv, cur, wr, rd, req, rdys>>
    /\ UNCHANGED <<mem, rx_event_queue, rxEnabled, recoveryDisabled, open, workq,
                   rxReady, ev, want, received, nxt, sent, delivered,
                   dropped, discarded, burst>>

(* atomic_set_bit(RX_ENABLED) after uart_rx_enable() has returned. *)
RxEnableSetBit ==
    /\ pc = "setEnabled"
    /\ rxEnabled' = TRUE
    /\ EnableReturns(TRUE)
    /\ UNCHANGED <<slabVars, mem, rx_event_queue, recoveryDisabled, open, workq,
                   rxReady, ev, want, received, drvVars, sent, delivered, ghostVars>>

-----------------------------------------------------------------------------
(* pipe_open() and pipe_close(), their receive half.                        *)

(* At boot, and by AT+IPR after the pipe was closed. *)
PipeOpen ==
    /\ pc = "idle" /\ ~open
    /\ open' = TRUE
    /\ recoveryDisabled' = FALSE
    /\ pc' = "enable"
    /\ UNCHANGED <<slabVars, mem, rx_event_queue, rxEnabled, recovery, opened, workq,
                   rxReady, ev, want, received, drvVars, sent, delivered, ghostVars>>

(* main() runs the work queue once the system is initialised. *)
StartWorkQueue ==
    /\ pc = "idle" /\ open /\ ~workq
    /\ workq' = TRUE
    /\ UNCHANGED <<slabVars, mem, rx_event_queue, bitVars, open, opened, rxReady,
                   threadVars, drvVars, sent, delivered, ghostVars>>

(* A received command (AT+IPR) closes the pipe from within the read loop:   *)
(* rx_disable() up to the wait for a recovery in progress.                  *)
PipeClose ==
    /\ pc = "return" /\ received > 0 /\ open
    /\ open' = FALSE
    /\ recoveryDisabled' = TRUE
    /\ pc' = "disable"
    /\ received' = 0
    /\ UNCHANGED <<slabVars, mem, rx_event_queue, rxEnabled, recovery, opened, workq,
                   rxReady, ev, want, drvVars, sent, delivered, ghostVars>>

(* uart_rx_disable(): starts the stop, or -EFAULT when there is nothing to  *)
(* stop, which is accepted.                                                 *)
RxDisable ==
    /\ pc = "disable" /\ ~recovery
    /\ drv' = IF drv = "on" THEN "stopping" ELSE drv
    /\ req' = FALSE
    /\ pc' = "waitDisabled"
    /\ UNCHANGED <<slabVars, mem, rx_event_queue, bitVars, pipeVars, rxReady, ev, want,
                   received, cur, nxt, wr, rd, sent, delivered, ghostVars>>

(* The wait for RX_ENABLED_BIT to clear. *)
RxDisableDone ==
    /\ pc = "waitDisabled" /\ ~rxEnabled
    /\ opened' = FALSE
    /\ pc' = "idle"
    /\ UNCHANGED <<slabVars, mem, rx_event_queue, bitVars, open, workq, rxReady, ev,
                   want, received, drvVars, sent, delivered, ghostVars>>

Thread == \/ ReaderRuns \/ ReceiveGet \/ ReceiveCopy \/ ReceiveCheck \/ ReceiveReturn
          \/ RxEnable \/ RxEnableSetBit \/ PipeOpen \/ StartWorkQueue
          \/ RxDisable \/ RxDisableDone

-----------------------------------------------------------------------------
Init ==
    /\ free = Blocks
    /\ ref = [b \in Blocks |-> 0]
    /\ mem = [b \in Blocks |-> [i \in 1..BufSize |-> 0]]
    /\ rx_event_queue = <<>>
    /\ rxEnabled = FALSE /\ recovery = FALSE /\ recoveryDisabled = FALSE
    /\ open = FALSE /\ opened = FALSE /\ workq = FALSE
    /\ rxReady = FALSE
    /\ pc = "idle" /\ ev = NoEvent /\ want = 0 /\ received = 0
    /\ drv = "off" /\ cur = None /\ nxt = None /\ wr = 0 /\ rd = 0 /\ req = FALSE
    /\ sent = 0 /\ delivered = <<>> /\ dropped = {} /\ discarded = {}
    /\ rdys = [b \in Blocks |-> 0] /\ burst = FALSE

Next == Driver \/ DriverByte \/ Thread \/ PipeClose

Spec == Init /\ [][Next]_vars

(* Interrupts are served and the thread is scheduled.  What the host sends  *)
(* and when it closes the pipe is up to the host.                           *)
FairSpec == Spec /\ WF_vars(Driver) /\ WF_vars(Thread)

-----------------------------------------------------------------------------
(* Properties.                                                              *)

TypeSlab ==
    /\ free \subseteq Blocks
    /\ ref \in [Blocks -> Int]
    /\ rdys \in [Blocks -> Nat]
TypeMem == mem \in [Blocks -> [1..BufSize -> 0..MaxBytes]]
TypeQueue == rx_event_queue \in Seq(Event)
TypeFlags ==
    /\ rxEnabled \in BOOLEAN /\ recovery \in BOOLEAN /\ recoveryDisabled \in BOOLEAN
    /\ open \in BOOLEAN /\ opened \in BOOLEAN /\ workq \in BOOLEAN
    /\ rxReady \in BOOLEAN /\ req \in BOOLEAN /\ burst \in BOOLEAN
TypeThread ==
    /\ pc \in {"idle", "get", "copy", "check", "return", "enable", "setEnabled",
               "disable", "waitDisabled"}
    /\ ev \in Event \cup {NoEvent}
    /\ want \in Nat /\ received \in Nat
TypeDriver ==
    /\ drv \in {"off", "on", "ended", "stopping"}
    /\ cur \in Blocks \cup {None} /\ nxt \in Blocks \cup {None}
    /\ wr \in 0..BufSize /\ rd \in 0..BufSize
    /\ sent \in 0..MaxBytes

(* Every variable of the receive path has its type: events lie within their *)
(* block, and the driver within the block it writes.                        *)
TypeOK == /\ TypeSlab /\ TypeMem /\ TypeQueue /\ TypeFlags /\ TypeThread
          /\ TypeDriver

(* The references to a block that exist: the driver's, one per queued event *)
(* and that of the event pipe_receive is copying.                           *)
One(p) == IF p THEN 1 ELSE 0
Queued(q, b) == {i \in DOMAIN q : q[i].blk = b}
Holders(b) == One(cur = b) + One(nxt = b) + Cardinality(Queued(rx_event_queue, b))
                + One(ev.blk = b)

(* The reference counter of every block is exactly the number of references *)
(* to it that exist, and the slab holds exactly the blocks nobody refers to:*)
(* no buffer is recycled while the driver writes it or an event points into *)
(* it, and none leaks (rx_buf_ref, rx_buf_unref and their callers).         *)
RefCountsExact ==
    \A b \in Blocks : /\ ref[b] = Holders(b)
                      /\ b \in free <=> ref[b] = 0

(* Bytes received that are on their way: reported and queued, held by       *)
(* pipe_receive, or still in the driver's buffer.                           *)
Pending ==
    (UNION {ByteSet(rx_event_queue[i]) : i \in DOMAIN rx_event_queue})
      \cup (IF pc = "copy" THEN ByteSet(ev) ELSE {})
      \cup (IF cur = None THEN {} ELSE {mem[cur][i] : i \in rd + 1 .. wr})

(* The reader of the pipe gets the host's bytes in the order sent, none     *)
(* twice and none overwritten, and a byte that is neither delivered nor on  *)
(* its way was counted as dropped: a partly read event that is put back, a  *)
(* full queue and a pipe closed with data pending corrupt nothing else.     *)
StreamIntact ==
    /\ \A i, j \in DOMAIN delivered : i < j => delivered[i] < delivered[j]
    /\ 1..sent = {delivered[i] : i \in DOMAIN delivered}
                   \cup Pending \cup dropped \cup discarded
    /\ \A i \in DOMAIN delivered :
         delivered[i] \notin Pending \cup dropped \cup discarded

(* The event queue is dimensioned as UART_RX_EVENT_COUNT_FOR_BUF entries    *)
(* per block.  As long as no block is cut into more events than that, no    *)
(* byte is lost to a full queue, neither by uart_callback nor by            *)
(* pipe_receive putting back the rest of an event.                          *)
NoDropWithinBudget == ~burst => dropped = {}

(* RX is off and RX_ENABLED_BIT set.  The bit is set only after             *)
(* uart_rx_enable() has returned; UART_RX_DISABLED can come before that and *)
(* clears it too early.  Nothing clears it from then on: rx_enable() takes  *)
(* RX for enabled, and rx_disable() waits for an event that has passed.     *)
StaleBit == rxEnabled /\ drv = "off"

(* While the pipe stays open, RX does not stay disabled: however the        *)
(* buffers ran out, reading the pending data enables it again.  The one way *)
(* to lose RX is the stale RX_ENABLED_BIT of an rx_enable() that lost the   *)
(* CPU between uart_rx_enable() and the set of the bit.                     *)
RxRecovers == <>[]opened => []<>(drv = "on") \/ <>[]StaleBit

(* If the pipe is never closed, every byte received is in the end delivered *)
(* or counted as lost: no event is forgotten in the queue, whatever the     *)
(* interrupts between k_msgq_get, the put-back and the next notification.   *)
EveryByteSettled ==
    [](pc # "disable") => \A n \in 1..MaxBytes :
        (n <= sent) ~> \/ \E i \in DOMAIN delivered : delivered[i] = n
                       \/ n \in dropped \cup discarded

(* rx_disable() returns: its two waits end, for a recovery in progress and  *)
(* for UART_RX_DISABLED, unless that event came before the bit was set.     *)
CloseTerminates == (pc = "disable") ~> (pc = "idle" \/ StaleBit)
=============================================================================
