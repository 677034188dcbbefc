------------------------------ MODULE DtrUart -------------------------------
(***************************************************************************)
(* The DTR UART driver of the modem (drivers/dtr_uart/dtr_uart.c): a UART  *)
(* that is powered only while the host holds DTR, and that raises RI when  *)
(* it has data for a host that does not.  Its user is the UART handler     *)
(* (app/src/sm_uart_handler.c), seen here as a queue of units to transmit  *)
(* and a pipe that is open or closed: only an open one receives and sends. *)
(*                                                                         *)
(* dtr_work runs on the cooperative system work queue, api_tx mostly on    *)
(* sm_work_q, whose thread it preempts: api_tx is cut between its look at  *)
(* dtr_state and what follows from it.  sm_work_q also closes the pipe, and*)
(* sleeps until its RX is reported to be disabled.                         *)
(***************************************************************************)
EXTENDS Integers, Sequences

VARIABLES
    m,       \* the driver and the UART under it:
             \*   dtr_state, tx_buf, tx_in_progress, app_rx_enabled, rx_active,
             \*   pm_suspended, ri (ri_active, the line), sync (semaphore);
             \*   on (powered), rx, tx (being sent), abort (abort requested);
             \*   out: units of the application not yet sent,
             \*   busy: its tx_done_sem is taken; pipe: "open", "closed" (it
             \*   waits there as long as app_rx_enabled), or "failed": opened,
             \*   but RX could not start, so that TX was not enabled
    dtr,     \* level of the DTR line
    work,    \* dtr_work is scheduled
    hpc,     \* "down": dtr_work_handler waits for RX to be disabled
    apiPc,   \* where api_tx is: "direct" and "store" after its look
    raced    \* history: an edge of RI got lost (dtr_state changed while api_tx
             \* was under way, or RI was up when it came to matter again), and
             \* not all has been sent since

dtrVars == <<m, dtr, work, hpc, apiPc, raced>>
None == 0

-----------------------------------------------------------------------------
(* TX.                                                                      *)

(* uart_tx of the UART; it fails while the UART is off or sends. *)
uart_tx(s, x) == [s EXCEPT !.tx = x, !.abort = FALSE]
CanTx(s) == s.on /\ s.tx = None

(* api_tx with what the application has next, from a callback.  An error    *)
(* leaves the application's tx_done_sem taken.                              *)
api_tx(s) ==
    CASE s.tx_buf # None -> s
      [] s.tx_buf = None /\ s.dtr_state -> IF CanTx(s) THEN uart_tx(s, Head(s.out)) ELSE s
      [] OTHER -> [s EXCEPT !.tx_buf = Head(s.out), !.ri = TRUE]

tx_complete(s) == [s EXCEPT !.tx_in_progress = FALSE, !.tx_buf = None]

(* UART_TX_DONE and UART_TX_ABORTED: the application goes on with what it   *)
(* has left.                                                                *)
user_callback_tx(s) ==
    IF s.out = <<>> THEN [s EXCEPT !.busy = FALSE] ELSE api_tx(s)

(* A transmission that cannot start is aborted. *)
activate_tx(s) ==
    CASE s.tx_buf = None -> s
      [] s.tx_buf # None /\ CanTx(s) -> uart_tx([s EXCEPT !.tx_in_progress = TRUE], s.tx_buf)
      [] OTHER -> user_callback_tx(tx_complete(s))

deactivate_tx(s) ==
    IF s.tx_buf # None /\ ~s.tx_in_progress
    THEN user_callback_tx(tx_complete(s))
    ELSE [s EXCEPT !.abort = s.tx # None]

-----------------------------------------------------------------------------
(* RX.                                                                      *)

(* uart_rx_enable of the UART fails while RX is not off. *)
uart_rx_enable(s) == [s EXCEPT !.rx_active = TRUE, !.rx = IF @ = "off" THEN "on" ELSE @]

(* The application answers with a buffer for RX to start with, or has none. *)
(* rx_active stays if RX is still busy, and is cleared again on another     *)
(* error, which is as if there was no buffer.                               *)
api_rx_buf_rsp(s, answer) == IF answer = "none" THEN s ELSE uart_rx_enable(s)

(* The application is asked for a buffer (UART_RX_BUF_REQUEST). *)
activate_rx(s, answer) ==
    IF s.rx_active \/ ~s.app_rx_enabled THEN s ELSE api_rx_buf_rsp(s, answer)

deactivate_rx(s) ==
    [s EXCEPT !.rx_active = FALSE, !.rx = IF @ = "off" THEN @ ELSE "stopping"]

ri_stop(s) == [s EXCEPT !.ri = FALSE]

-----------------------------------------------------------------------------
(* Mutant: data that was stored without DTR is forgotten. *)
DtrUpMutant(s, answer) == ri_stop(activate_rx([s EXCEPT !.on = TRUE], answer))

(* dtr_work_handler with DTR asserted ... *)
DtrUp(s, answer) == ri_stop(activate_tx(activate_rx([s EXCEPT !.on = TRUE], answer)))

(* ... and deasserted, up to the wait for RX. *)
DtrDown(s) == deactivate_rx([deactivate_tx(s) EXCEPT !.sync = FALSE])

(* dtr_work_handler, for a level of DTR and of pm_suspended. *)
Handle(s, answer) ==
    LET asserted == dtr /\ ~s.pm_suspended
        t == [s EXCEPT !.dtr_state = asserted]
    IN  /\ hpc = "idle"
        /\ \/ /\ s.dtr_state = asserted
              /\ m' = s /\ UNCHANGED hpc
           \/ /\ s.dtr_state # asserted
              /\ \/ asserted /\ hpc' = "idle" /\ m' = DtrUp(t, answer)
                 \/ ~asserted /\ hpc' = "down" /\ m' = DtrDown(t)
        /\ raced' = (raced \/ (s.dtr_state # asserted /\ apiPc # "idle")
                           \/ (m.pm_suspended /\ ~s.pm_suspended /\ s.ri /\ ~asserted))
        /\ UNCHANGED <<dtr, apiPc>>

dtr_work_handler(answer) == work /\ work' = FALSE /\ Handle(m, answer)

(* The UART is powered down once RX is disabled (100 ms pass if it was not  *)
(* enabled), or after 100 ms all the same (late): UART_RX_DISABLED may then *)
(* still come.                                                              *)
PowerOff(late) ==
    /\ hpc = "down" /\ hpc' = "idle"
    /\ late = (~m.sync /\ m.rx # "off")
    /\ m' = [m EXCEPT !.on = FALSE, !.sync = FALSE]
    /\ UNCHANGED <<dtr, work, apiPc, raced>>

dtr_uart_pm_action(suspend) ==
    /\ m.pm_suspended # suspend
    /\ Handle([m EXCEPT !.pm_suspended = suspend], "buffer") /\ UNCHANGED work

-----------------------------------------------------------------------------
(* Calls of the application.                                                *)

(* Data to send: api_tx looks at tx_buf and dtr_state ... *)
Write(x) ==
    /\ apiPc = "idle" /\ m.pipe = "open"
    /\ m' = [m EXCEPT !.out = Append(@, x), !.busy = TRUE]
    /\ apiPc' = CASE m.busy -> "idle"
                  [] ~m.busy /\ m.dtr_state -> "direct"
                  [] OTHER -> "store"
    /\ UNCHANGED <<dtr, work, hpc, raced>>

(* ... and sends, or stores the data and raises RI. *)
ApiTx ==
    /\ apiPc # "idle" /\ apiPc' = "idle"
    /\ m' = CASE apiPc = "store" -> [m EXCEPT !.tx_buf = Head(m.out), !.ri = TRUE]
              [] apiPc = "direct" /\ CanTx(m) -> uart_tx(m, Head(m.out))
              [] OTHER -> [m EXCEPT !.busy = FALSE]
    /\ UNCHANGED <<dtr, work, hpc, raced>>

(* pipe_open, once sm_work_q is back from closing, or rx_recovery.  Without *)
(* DTR the buffer is returned, and RX starts with DTR.                      *)
api_rx_enable ==
    /\ ~m.app_rx_enabled
    /\ LET s == [m EXCEPT !.pipe = IF @ = "closed" THEN "open" ELSE @, !.app_rx_enabled = TRUE]
           t == uart_rx_enable(s)
       IN  \/ ~m.dtr_state /\ m' = s
           \/ m.dtr_state /\ m.rx = "off" /\ m' = t
           \/ /\ m.dtr_state /\ m.rx # "off"
              /\ m' = [t EXCEPT !.pipe = IF m.pipe = "closed" THEN "failed" ELSE @]
    /\ UNCHANGED <<dtr, work, hpc, apiPc, raced>>

(* pipe_close, with nothing left to send.  sm_work_q then waits for         *)
(* UART_RX_DISABLED, without a timeout.                                     *)
api_rx_disable ==
    /\ m.pipe = "open" /\ apiPc = "idle" /\ ~m.busy
    /\ LET s == [m EXCEPT !.pipe = "closed"]
       IN  \/ ~m.app_rx_enabled /\ m' = s
           \/ /\ m.app_rx_enabled /\ (~m.rx_active \/ ~m.dtr_state)
              /\ m' = [s EXCEPT !.app_rx_enabled = FALSE]
           \/ m.app_rx_enabled /\ m.rx_active /\ m.dtr_state /\ m' = deactivate_rx(s)
    /\ UNCHANGED <<dtr, work, hpc, apiPc, raced>>

-----------------------------------------------------------------------------
(* uart_callback.                                                           *)

TxDone ==
    /\ m.tx # None /\ m.on
    /\ m' = user_callback_tx(tx_complete([m EXCEPT !.tx = None, !.abort = FALSE,
                                                   !.out = Tail(@)]))
    /\ raced' = (raced /\ m'.out # <<>>)
    /\ UNCHANGED <<dtr, work, hpc, apiPc>>

TxAborted ==
    /\ m.tx # None /\ m.abort
    /\ m' = user_callback_tx(tx_complete([m EXCEPT !.tx = None, !.abort = FALSE]))
    /\ UNCHANGED <<dtr, work, hpc, apiPc, raced>>

(* RX that DTR took down is the driver's own business: an application that  *)
(* disables RX just before DTR drops is never told.                         *)
RxDisabled ==
    /\ m.rx = "stopping"
    /\ m' = [m EXCEPT !.rx = "off",
                      !.app_rx_enabled = @ /\ ~m.dtr_state,
                      !.sync = @ \/ ~m.dtr_state]
    /\ UNCHANGED <<dtr, work, hpc, apiPc, raced>>

(* DTR changes: uart_dtr_input_gpio_callback. *)
SetDtr(level) == dtr' = level /\ work' = (work \/ dtr # level)

(* The driver is initialised with DTR taken as asserted. *)
DtrInit ==
    /\ m = [dtr_state |-> TRUE, tx_buf |-> None, tx_in_progress |-> FALSE,
            app_rx_enabled |-> TRUE, rx_active |-> TRUE, pm_suspended |-> FALSE,
            ri |-> FALSE, sync |-> FALSE, on |-> TRUE, rx |-> "on", tx |-> None,
            abort |-> FALSE, out |-> <<>>, busy |-> FALSE, pipe |-> "open"]
    /\ dtr = TRUE /\ work = TRUE /\ hpc = "idle" /\ apiPc = "idle" /\ raced = FALSE
=============================================================================
