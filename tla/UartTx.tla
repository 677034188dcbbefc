------------------------------- MODULE UartTx -------------------------------
(***************************************************************************)
(* The transmit half of app/src/sm_uart_handler.c and its caller           *)
(* sm_at_host_pipe_tx_blocking: the TX ring buffer shared by pipe_transmit *)
(* and the UART interrupt, the tx_done semaphore that says who may start a *)
(* transfer, and opening and closing the pipe with its closed notification *)
(* (AT+IPR closes, reconfigures and reopens it).                           *)
(*                                                                         *)
(* The receive half is reduced to whether UART RX is enabled; UartRx has   *)
(* the rest.  One thread transmits, closes and opens (sm_work_q); the UART *)
(* interrupt and the system work queue interleave with it.  Bytes are      *)
(* numbered in the order the AT host produces them.                        *)
(***************************************************************************)
EXTENDS Integers, Sequences

CONSTANTS
    Capacity,     \* CONFIG_SM_UART_TX_BUF_SIZE
    MsgSizes,     \* sizes of the messages the AT host transmits
    Retries,      \* retries of sm_at_host_pipe_tx_blocking (5)
    UartErrors,   \* may uart_tx return an error
    MaxBytes,     \* bound: bytes produced by the AT host
    MaxCloses     \* bound: times the pipe is closed

ASSUME TxAssumption ==
    /\ Capacity \in Nat \ {0}
    /\ MsgSizes \subseteq Nat \ {0}
    /\ Retries \in Nat \ {0}
    /\ UartErrors \in BOOLEAN
    /\ MaxBytes \in Nat /\ MaxCloses \in Nat

VARIABLES
    tx_buf,       \* bytes in the ring buffer, oldest first
    getPos,       \* position of the oldest byte in the ring's memory
    claimed,      \* bytes claimed with ring_buf_get_claim
    txEnabled,    \* SM_UART_STATE_TX_ENABLED_BIT
    rxEnabled,    \* SM_UART_STATE_RX_ENABLED_BIT
    open,         \* SM_PIPE_STATE_OPEN_BIT
    tx_done_sem,  \* semaphore, 0 or 1
    active,       \* length of the UART's transfer in progress, 0 if none
    aborting,     \* uart_tx_abort was called, UART_TX_ABORTED to come
    failed,       \* the last start of a transfer failed: "none", "start" (in
                  \* pipe_transmit), "token" (in the interrupt, which then
                  \* neither sends nor gives the semaphore)
    rxStop,       \* uart_rx_disable was called, UART_RX_DISABLED to come
    idleWork,     \* notify_transmit_idle is submitted
    closedWork,   \* notify_closed is submitted
    idleEvt,      \* MODEM_PIPE_EVENT_TRANSMIT_IDLE of ctx->pipe_event
    closedEvt,    \* the modem pipe was notified as closed
    pc,           \* where the thread is
    rem,          \* bytes of the message not yet accepted (len)
    sent,         \* bytes accepted by this call of pipe_transmit
    retries,      \* retries left
    produced,     \* bytes the AT host has produced
    accepted,     \* bytes that entered the ring buffer, in order
    wire,         \* bytes the UART has sent, in order
    closes        \* times the pipe was closed

ringVars   == <<tx_buf, getPos, claimed>>
bitVars    == <<txEnabled, rxEnabled, open>>
uartVars   == <<active, aborting, rxStop, failed>>
notifyVars == <<idleWork, closedWork, idleEvt, closedEvt>>
callVars   == <<rem, sent, retries>>
logVars    == <<produced, accepted, wire, closes>>
vars == <<ringVars, bitVars, tx_done_sem, uartVars, notifyVars, pc, callVars, logVars>>

Least(a, b) == IF a < b THEN a ELSE b

-----------------------------------------------------------------------------
(* The ring buffer.                                                         *)

Space == Capacity - Len(tx_buf)

(* The oldest bytes up to the end of the ring's memory. *)
ContiguousMutant(buf, pos) == Least(Len(buf), Capacity - 1 - pos)
Contiguous(buf, pos) == Least(Len(buf), Capacity - pos)

(* The ring after ring_buf_get_finish(n): more than was claimed is refused. *)
FinishedMutant(n) == SubSeq(tx_buf, claimed + 1, Len(tx_buf))
Finished(n) == IF n > claimed THEN tx_buf ELSE SubSeq(tx_buf, n + 1, Len(tx_buf))
FinishedPos(n) == IF n > claimed THEN getPos ELSE (getPos + n) % Capacity

(* tx_start() on ring buf with its oldest byte at pos: claims, and hands    *)
(* the claim to the UART.                                                   *)
tx_start(buf, pos) ==
    /\ claimed' = Contiguous(buf, pos)
    /\ active' = Contiguous(buf, pos)

(* No transfer is begun, or uart_tx fails and ring_buf_get_finish(0) takes  *)
(* the claim back.                                                          *)
not_started == claimed' = 0 /\ active' = 0

-----------------------------------------------------------------------------
(* uart_callback(): the transmit events and UART_RX_DISABLED.               *)

notify_pipe_transmit_idle == idleWork' = (idleWork \/ open)

(* Once the pipe is closed and RX (as it is now) and TX are disabled. *)
notify_pipe_closureMutant(rx) ==
    closedWork' = (closedWork \/ (~open /\ ~rxEnabled /\ ~txEnabled))
notify_pipe_closure(rx) == closedWork' = (closedWork \/ (~open /\ ~rx /\ ~txEnabled))

(* Whatever is in the ring, the semaphore is given. *)
TransferEndsMutant(n, abortedEvt) ==
    /\ wire' = wire \o SubSeq(tx_buf, 1, n)
    /\ tx_buf' = Finished(n)
    /\ getPos' = FinishedPos(n)
    /\ aborting' = FALSE
    /\ tx_done_sem' = 1 /\ claimed' = 0 /\ active' = 0
    /\ notify_pipe_transmit_idle
    /\ notify_pipe_closure(rxEnabled)
    /\ UNCHANGED <<bitVars, rxStop, failed, idleEvt, closedEvt, pc, callVars,
                   produced, accepted, closes>>

(* The end of a transfer of which the UART sent n bytes.  Nobody looks at   *)
(* the result of the interrupt's tx_start().                                *)
TransferEnds(n, abortedEvt) ==
    /\ wire' = wire \o SubSeq(tx_buf, 1, n)
    /\ tx_buf' = Finished(n)
    /\ getPos' = FinishedPos(n)
    /\ aborting' = FALSE
    /\ IF tx_buf' = <<>> \/ (abortedEvt /\ ~txEnabled)
       THEN tx_done_sem' = 1 /\ not_started /\ UNCHANGED failed
       ELSE /\ UNCHANGED tx_done_sem
            /\ \/ txEnabled /\ tx_start(tx_buf', getPos') /\ UNCHANGED failed
               \/ txEnabled /\ UartErrors /\ not_started /\ failed' = "token"
               \/ ~txEnabled /\ not_started /\ UNCHANGED failed    \* -EAGAIN
    /\ notify_pipe_transmit_idle
    /\ notify_pipe_closure(rxEnabled)
    /\ UNCHANGED <<bitVars, rxStop, idleEvt, closedEvt, pc, callVars,
                   produced, accepted, closes>>

(* UART_TX_DONE *)
TxDone == active > 0 /\ ~aborting /\ TransferEnds(active, FALSE)

(* UART_TX_ABORTED: after uart_tx_abort, and from dtr_uart when DTR drops,  *)
(* with TX still enabled.                                                   *)
TxAborted == active > 0 /\ \E n \in 0..active : TransferEnds(n, TRUE)

(* UART_RX_DISABLED: requested by rx_disable, or RX ran out of buffers. *)
RxDisabled ==
    /\ rxEnabled
    /\ rxEnabled' = FALSE
    /\ rxStop' = FALSE
    /\ notify_pipe_closure(FALSE)
    /\ UNCHANGED <<ringVars, txEnabled, open, tx_done_sem, active, aborting, failed,
                   idleWork, idleEvt, closedEvt, pc, callVars, logVars>>

(* The system work queue runs notify_transmit_idle_fn, notify_closed_fn. *)
NotifyTransmitIdle ==
    /\ idleWork
    /\ idleWork' = FALSE
    /\ idleEvt' = TRUE
    /\ UNCHANGED <<ringVars, bitVars, tx_done_sem, uartVars, closedWork, closedEvt, pc,
                   callVars, logVars>>

NotifyClosed ==
    /\ closedWork
    /\ closedWork' = FALSE
    /\ closedEvt' = TRUE
    /\ UNCHANGED <<ringVars, bitVars, tx_done_sem, uartVars, idleWork, idleEvt, pc,
                   callVars, logVars>>

-----------------------------------------------------------------------------
(* sm_at_host_pipe_tx_blocking() with pipe_transmit() inlined.              *)

(* The AT host transmits a message. *)
TxBlocking ==
    /\ pc = "idle" /\ open
    /\ \E n \in MsgSizes :
         /\ produced + n <= MaxBytes
         /\ produced' = produced + n
         /\ rem' = n
    /\ sent' = 0
    /\ retries' = Retries
    /\ pc' = "put"
    /\ UNCHANGED <<ringVars, bitVars, tx_done_sem, uartVars, notifyVars, accepted,
                   wire, closes>>

(* pipe_transmit: ring_buf_put in a loop until all is in or nothing fits. *)
TransmitPut ==
    /\ pc = "put"
    /\ LET n     == Least(rem - sent, Space)
           first == produced - rem + sent
           new   == [i \in 1..n |-> first + i]
       IN  \/ /\ n > 0
              /\ tx_buf' = tx_buf \o new
              /\ accepted' = accepted \o new
              /\ sent' = sent + n
              /\ UNCHANGED pc
           \/ /\ n = 0
              /\ pc' = "take"
              /\ UNCHANGED <<tx_buf, accepted, sent>>
    /\ UNCHANGED <<getPos, claimed, bitVars, tx_done_sem, uartVars, notifyVars, rem,
                   retries, produced, wire, closes>>

(* pipe_transmit: whoever holds the semaphore may start a transfer.  The    *)
(* UART is idle then, so that no transmit interrupt falls into this step.   *)
(* The interrupt may have emptied a full ring since: a transfer of no bytes *)
(* (for which dtr_uart calls back with UART_TX_DONE at once) gives the      *)
(* semaphore back, as -EAGAIN does with TX disabled.                        *)
TransmitStart ==
    /\ pc = "take"
    /\ LET starts == tx_done_sem = 1 /\ txEnabled
       IN  \/ /\ starts /\ tx_buf # <<>>
              /\ tx_start(tx_buf, getPos)
              /\ tx_done_sem' = 0
              /\ failed' = "none"
              /\ UNCHANGED idleWork
           \/ /\ starts /\ tx_buf = <<>>
              /\ notify_pipe_transmit_idle
              /\ UNCHANGED <<claimed, active, failed, tx_done_sem>>
           \/ /\ ~starts
              /\ UNCHANGED <<claimed, active, failed, tx_done_sem, idleWork>>
    /\ pc' = IF sent = 0 THEN "reset" ELSE IF sent = rem THEN "idle" ELSE "put"
    /\ rem' = rem - sent
    /\ sent' = 0
    /\ UNCHANGED <<tx_buf, getPos, bitVars, aborting, rxStop, closedWork, idleEvt,
                   closedEvt, retries, logVars>>

(* uart_tx fails: the semaphore is given back and the error returned, for   *)
(* which sm_at_host_pipe_tx_blocking gives up the message.  What it has put *)
(* stays in the ring.                                                       *)
TransmitFails ==
    /\ pc = "take" /\ tx_done_sem = 1 /\ txEnabled /\ UartErrors
    /\ not_started
    /\ failed' = "start"
    /\ pc' = "idle"
    /\ rem' = 0 /\ sent' = 0
    /\ UNCHANGED <<tx_buf, getPos, bitVars, tx_done_sem, aborting, rxStop, notifyVars,
                   retries, logVars>>

(* Nothing was accepted: k_event_wait() first resets the events ... *)
WaitReset ==
    /\ pc = "reset"
    /\ idleEvt' = FALSE
    /\ pc' = "wait"
    /\ UNCHANGED <<ringVars, bitVars, tx_done_sem, uartVars, idleWork, closedWork,
                   closedEvt, callVars, logVars>>

(* ... and is woken by transmit idle, or times out after 100 ms: the rest   *)
(* of the message is dropped with the last retry.                           *)
WaitDone ==
    /\ pc = "wait"
    /\ \/ /\ idleEvt
          /\ pc' = "put"
          /\ UNCHANGED <<retries, rem>>
       \/ /\ ~idleEvt
          /\ retries' = retries - 1
          /\ IF retries = 1 THEN pc' = "idle" /\ rem' = 0
                            ELSE pc' = "put" /\ UNCHANGED rem
    /\ UNCHANGED <<ringVars, bitVars, tx_done_sem, uartVars, notifyVars, sent, logVars>>

-----------------------------------------------------------------------------
(* pipe_close(), pipe_open() and handle_at_ipr() around them.               *)

PipeClose ==
    /\ pc = "idle" /\ open /\ closes < MaxCloses
    /\ closes' = closes + 1
    /\ open' = FALSE
    /\ closedEvt' = FALSE
    /\ pc' = "txDisable"
    /\ UNCHANGED <<ringVars, txEnabled, rxEnabled, tx_done_sem, uartVars, idleWork,
                   closedWork, idleEvt, callVars, produced, accepted, wire>>

(* tx_disable(): test-and-clear, then wait for the end of the transfer. *)
TxDisable ==
    /\ pc = "txDisable"
    /\ txEnabled' = FALSE
    /\ pc' = IF txEnabled THEN "txWait" ELSE "rxDisable"
    /\ UNCHANGED <<ringVars, rxEnabled, open, tx_done_sem, uartVars, notifyVars,
                   callVars, logVars>>

(* The semaphore within 50 ms, or uart_tx_abort (-EFAULT if nothing is      *)
(* being sent, which is accepted).                                          *)
TxWait ==
    /\ pc = "txWait"
    /\ \/ tx_done_sem = 1 /\ tx_done_sem' = 0 /\ UNCHANGED aborting
       \/ tx_done_sem = 0 /\ aborting' = (active > 0) /\ UNCHANGED tx_done_sem
    /\ pc' = "rxDisable"
    /\ UNCHANGED <<ringVars, bitVars, active, rxStop, failed, notifyVars, callVars,
                   logVars>>

(* rx_disable(): uart_rx_disable and the wait for UART_RX_DISABLED. *)
RxDisable ==
    /\ pc = "rxDisable"
    /\ rxStop' = rxEnabled
    /\ pc' = "rxWait"
    /\ UNCHANGED <<ringVars, bitVars, tx_done_sem, active, aborting, failed, notifyVars,
                   callVars, logVars>>

RxWait ==
    /\ pc = "rxWait" /\ ~rxEnabled
    /\ pc' = "awaitClosed"
    /\ UNCHANGED <<ringVars, bitVars, tx_done_sem, uartVars, notifyVars, callVars, logVars>>

(* modem_pipe_close() awaits the closed notification for a second.  It      *)
(* gives up only where nothing is left that would lead to one.              *)
AwaitClosed ==
    /\ pc = "awaitClosed"
    /\ \/ closedEvt /\ pc' = "configure"
       \/ ~closedEvt /\ ~closedWork /\ active = 0 /\ pc' = "dead"
    /\ UNCHANGED <<ringVars, bitVars, tx_done_sem, uartVars, notifyVars, callVars, logVars>>

(* tx_enable() does not give the semaphore. *)
PipeOpenMutant ==
    /\ pc = "configure" /\ ~aborting
    /\ open' = TRUE
    /\ rxEnabled' = TRUE
    /\ txEnabled' = TRUE
    /\ pc' = "idle"
    /\ UNCHANGED <<ringVars, tx_done_sem, uartVars, notifyVars, callVars, logVars>>

(* handle_at_ipr: uart_configure, then pipe_open: rx_enable and tx_enable.  *)
(* An abort takes microseconds and is over by then.  At boot, the first     *)
(* open.                                                                    *)
PipeOpen ==
    /\ pc = "configure" /\ ~aborting
    /\ open' = TRUE
    /\ rxEnabled' = TRUE
    /\ txEnabled' = TRUE
    /\ tx_done_sem' = IF txEnabled THEN tx_done_sem ELSE 1
    /\ failed' = "none"
    /\ pc' = "idle"
    /\ UNCHANGED <<ringVars, active, aborting, rxStop, notifyVars, callVars, logVars>>

(* rx_recovery() enables RX again when pending data were read. *)
RxRecovery ==
    /\ pc = "idle" /\ open /\ ~rxEnabled
    /\ rxEnabled' = TRUE
    /\ UNCHANGED <<ringVars, txEnabled, open, tx_done_sem, uartVars, notifyVars, pc,
                   callVars, logVars>>

-----------------------------------------------------------------------------
Init ==
    /\ tx_buf = <<>> /\ getPos = 0 /\ claimed = 0
    /\ txEnabled = FALSE /\ rxEnabled = FALSE /\ open = FALSE
    /\ tx_done_sem = 0
    /\ active = 0 /\ aborting = FALSE /\ rxStop = FALSE /\ failed = "none"
    /\ idleWork = FALSE /\ closedWork = FALSE /\ idleEvt = FALSE /\ closedEvt = FALSE
    /\ pc = "configure" /\ rem = 0 /\ sent = 0 /\ retries = 0
    /\ produced = 0 /\ accepted = <<>> /\ wire = <<>> /\ closes = 0

Interrupt == TxDone \/ (aborting /\ TxAborted) \/ (rxStop /\ RxDisabled)
SystemWorkQueue == NotifyTransmitIdle \/ NotifyClosed
Transmit == TransmitPut \/ TransmitStart \/ TransmitFails \/ WaitReset \/ WaitDone
CloseAndOpen == TxDisable \/ TxWait \/ RxDisable \/ RxWait \/ AwaitClosed \/ PipeOpen

Next == \/ Interrupt \/ TxAborted \/ RxDisabled \/ SystemWorkQueue
        \/ TxBlocking \/ Transmit \/ RxRecovery
        \/ PipeClose \/ CloseAndOpen

Spec == Init /\ [][Next]_vars

(* Transfers end, interrupts and work queues are served, and the thread     *)
(* goes on with a call it has begun.                                        *)
FairSpec == /\ Spec
            /\ WF_vars(Interrupt) /\ WF_vars(SystemWorkQueue)
            /\ WF_vars(Transmit) /\ WF_vars(CloseAndOpen)

-----------------------------------------------------------------------------
(* Properties.                                                              *)

TypeRing ==
    /\ tx_buf \in Seq(1..MaxBytes) /\ Len(tx_buf) <= Capacity
    /\ getPos \in 0..Capacity - 1
    /\ claimed \in 0..Capacity /\ active \in 0..Capacity
TypeFlags ==
    /\ txEnabled \in BOOLEAN /\ rxEnabled \in BOOLEAN /\ open \in BOOLEAN
    /\ aborting \in BOOLEAN /\ rxStop \in BOOLEAN
    /\ idleWork \in BOOLEAN /\ closedWork \in BOOLEAN
    /\ idleEvt \in BOOLEAN /\ closedEvt \in BOOLEAN
TypeCall ==
    /\ tx_done_sem \in {0, 1}
    /\ pc \in {"configure", "idle", "put", "take", "reset", "wait", "txDisable",
               "txWait", "rxDisable", "rxWait", "awaitClosed", "dead"}
    /\ failed \in {"none", "start", "token"}
    /\ rem \in 0..MaxBytes /\ sent \in 0..rem /\ retries \in 0..Retries
    /\ produced \in 0..MaxBytes /\ closes \in 0..MaxCloses

(* Every variable has its type; the ring, a claim and a transfer stay       *)
(* within CONFIG_SM_UART_TX_BUF_SIZE, the retries within their number.      *)
TypeOK == TypeRing /\ TypeFlags /\ TypeCall

(* What pipe_transmit accepted is on the wire or in the ring, in order and  *)
(* once, also across wrap-around, a transfer aborted half-way by a close,   *)
(* and the pipe reopened; the transfer in progress is exactly the claim.    *)
TransmitIntact ==
    /\ wire \o tx_buf = accepted
    /\ \A i, j \in DOMAIN accepted : i < j => accepted[i] < accepted[j]
    /\ active = claimed /\ claimed <= Len(tx_buf)

(* The transmit path implements a lossless queue of                         *)
(* CONFIG_SM_UART_TX_BUF_SIZE bytes: every step of pipe_transmit puts the    *)
(* next bytes of its message or nothing, every UART event takes what was    *)
(* sent or nothing, and neither an abort, a refused ring_buf_get_finish nor *)
(* a close and a reopen between them is seen in the queue.                  *)
Fifo == INSTANCE ByteFifo WITH queue <- tx_buf, out <- wire
ImplementsFifo == Fifo!Spec

(* The right to start a transfer exists exactly once while TX is enabled:   *)
(* as the semaphore or as the transfer in progress.  Twice, and pipe_       *)
(* transmit and uart_callback would claim the same bytes.  Not at all, and  *)
(* nothing would be sent any more: the one way to lose it is a uart_tx that *)
(* fails in the interrupt, until the pipe is closed and opened again.       *)
One(p) == IF p THEN 1 ELSE 0
StartTokenExact ==
    txEnabled => tx_done_sem + One(active > 0) + One(failed = "token") = 1

(* While the pipe is open, bytes in the ring are being sent, or the thread  *)
(* is about to start: no wake-up is lost between the interrupt finding the  *)
(* ring empty and pipe_transmit filling it, nor by an abort with TX         *)
(* enabled.  After a reopen, what an abort left over waits for the next     *)
(* message, and so does the ring after a uart_tx that failed.               *)
NoLostStart ==
    (closes = 0 /\ failed = "none" /\ tx_buf # <<>>)
        => (active > 0 \/ pc \in {"put", "take"})

(* If the pipe is never closed, all that was accepted is sent, unless the   *)
(* UART refuses a transfer.                                                 *)
AcceptedIsSent ==
    [](pc # "txDisable") => \A n \in 1..MaxBytes :
        (\E i \in DOMAIN accepted : accepted[i] = n)
            ~> ((\E i \in DOMAIN wire : wire[i] = n) \/ failed # "none")

(* A close that finds UART RX still enabled when it comes to rx_disable     *)
(* ends with the closed notification, and the pipe opens again.             *)
CloseWithRxReopens == (pc = "rxDisable" /\ rxEnabled) ~> (pc = "idle" /\ open)

(* Every close ends with the closed notification, and the pipe opens again. *)
CloseReopens == (pc = "txDisable") ~> (pc = "idle" /\ open)
=============================================================================
