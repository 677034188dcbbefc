------------------------------ MODULE AtClient ------------------------------
(***************************************************************************)
(* The AT client library of a host (lib/sm_at_client/sm_at_client.c and    *)
(* sm_at_client_monitor.c): one thread sends commands and waits for their  *)
(* responses, the system work queue switches the UART and DTR on and off   *)
(* and parses what is received, and the UART calls back.  The UART has     *)
(* hardware flow control.                                                  *)
(*                                                                         *)
(* The text of a command and its terminator (Cr) are written one after the *)
(* other.  The modem sends the response to a command (the same number), the*)
(* error response to a garbled one (Err), or an unsolicited result code    *)
(* (Urc), each in one receive event or with a first part (Part) in another.*)
(***************************************************************************)
EXTENDS Integers, Sequences

CONSTANTS
    Urc,         \* a unit that is no response
    RxEvents,    \* length of rx_event_queue
    RingLen,     \* what tx_buf has room for: texts and terminators
    RespLen,     \* what at_cmd_resp has room for: units and parts
    HeapLen      \* what at_monitor_heap has room for: units and parts

ASSUME ClientAssumption == {RxEvents, RingLen, RespLen, HeapLen} \subseteq Nat \ {0}

VARIABLES
    c,      \* the library:
            \*   state (sm_at_state) and rsp, the response that set it;
            \*   at_rsp (semaphore), resp (at_cmd_resp);
            \*   tx_en, rx_en, no_recovery (bits of uart_state), tx_done
            \*   (semaphore), ring (tx_buf), tx: how much of it is being sent,
            \*   claimed: ring_buf_get_finish will take that off, abort;
            \*   rx (the receiver), rxq (rx_event_queue), disabled (semaphore);
            \*   active, automatic, pin (DTR); rx_work, en_work, dis_work:
            \*   work items that are queued; fifo (at_monitor_fifo);
            \*   missed: history, rx_event_queue or at_cmd_resp was full,
            \*   twice: history, something was sent twice,
            \*   cut: history, a command was aborted before its end was written
    pc,     \* the user's thread: "idle", "pin", "tx", "put", "room", "wait",
            \* "late"
    wpc,    \* the work queue: "idle", "rxoff"
    cmd,    \* command that the user sends
    word,   \* what tx_write is called with: the command or Cr
    got     \* history: what each command returned with: a response, or one of
            \* Open, Failed (an error) and Pending (AT_CMD_PENDING)

cliVars == <<c, pc, wpc, cmd, word, got>>

Open == 0
Failed == -1
Pending == -2
Cr == -3
Part == -4
Err == -5

-----------------------------------------------------------------------------
(* TX.                                                                      *)

(* tx_start sends all there is.  While a transmission goes on uart_tx fails,*)
(* and what that transmission has claimed of tx_buf is given back.          *)
CanSend(s) == s.tx_en /\ s.tx = 0
tx_start(s) ==
    IF CanSend(s) THEN [s EXCEPT !.tx = Len(s.ring), !.claimed = TRUE]
    ELSE [s EXCEPT !.claimed = @ /\ ~s.tx_en]

tx_enable(s) == IF s.tx_en THEN s ELSE [s EXCEPT !.tx_en = TRUE, !.tx_done = TRUE]

(* The transmission that holds tx_done_sem is aborted. *)
tx_disable(s) ==
    CASE ~s.tx_en -> s
      [] s.tx_en /\ s.tx_done -> [s EXCEPT !.tx_en = FALSE, !.tx_done = FALSE]
      [] OTHER -> [s EXCEPT !.tx_en = FALSE, !.abort = s.tx # 0]

(* The inactivity timer is started, or restarted. *)
reschedule_disable(s) == [s EXCEPT !.dis_work = @ \/ (s.active /\ s.automatic)]

-----------------------------------------------------------------------------
(* RX.                                                                      *)

(* A receiver that is still being disabled counts as enabled. *)
rx_enable(s) ==
    IF s.rx_en THEN s
    ELSE [s EXCEPT !.rx = IF @ = "off" THEN "on" ELSE @, !.rx_en = TRUE]

(* Mutant: RX that DTR took down is recovered at once. *)
RxRecoveryMutant(s) == rx_enable(s)

rx_recovery(s) == IF s.no_recovery THEN s ELSE rx_enable(s)

(* Mutant: the semaphore is given for notifications too. *)
ResponseMutant(s, x) ==
    IF s.state = "PENDING" THEN [s EXCEPT !.resp = <<>>, !.state = "OK", !.rsp = x, !.at_rsp = TRUE]
    ELSE [s EXCEPT !.at_rsp = TRUE, !.resp = <<>>]

(* parse_at_response: the first response ends a pending command, with all   *)
(* that came before it.                                                     *)
parse_at_response(s, x) ==
    [s EXCEPT !.resp = <<>>, !.state = IF x = Err THEN "ERROR" ELSE "OK", !.rsp = x,
              !.at_rsp = TRUE]

(* sm_monitor_dispatch, as long as the heap has room. *)
sm_monitor_dispatch(s, r) ==
    LET q == s.fifo \o r
    IN  [s EXCEPT !.resp = <<>>,
                  !.fifo = IF Len(q) <= HeapLen THEN q ELSE SubSeq(q, 1, HeapLen)]

(* response_handler: what at_cmd_resp has no room for is dropped.  A pending*)
(* command is looked for its response; if it has none when at_cmd_resp is   *)
(* full, it is woken all the same.  Otherwise what ends a line is dispatched*)
(* to the monitors.                                                         *)
response_handler(s, x) ==
    LET fits == Len(s.resp) < RespLen
        r == IF fits THEN Append(s.resp, x) ELSE s.resp
    IN  CASE s.state = "PENDING" /\ fits /\ x \notin {Urc, Part} -> parse_at_response(s, x)
          [] s.state = "PENDING" /\ Len(r) = RespLen /\ ~(fits /\ x \notin {Urc, Part}) ->
               [s EXCEPT !.resp = IF fits THEN <<>> ELSE <<x>>, !.at_rsp = TRUE,
                         !.missed = TRUE]
          [] s.state # "PENDING" /\ fits /\ x # Part -> sm_monitor_dispatch(s, r)
          [] OTHER -> [s EXCEPT !.resp = r, !.missed = @ \/ ~fits]

-----------------------------------------------------------------------------
(* dtr_uart_enable: RX, DTR, TX.                                            *)

EnableRx(s) == rx_enable([s EXCEPT !.active = TRUE, !.no_recovery = FALSE])
EnableTx(s) == LET t == tx_enable(s)
               IN  IF t.ring = <<>> THEN t ELSE tx_start(t)
dtr_uart_enable(s) == EnableTx([EnableRx(s) EXCEPT !.pin = TRUE])

(* dtr_uart_disable, up to its wait for the receiver. *)
dtr_uart_disable(s) ==
    LET t == tx_disable([s EXCEPT !.active = FALSE])
    IN  [t EXCEPT !.pin = FALSE, !.no_recovery = TRUE, !.disabled = FALSE,
                  !.rx = IF s.rx_en /\ @ = "on" THEN "stopping" ELSE @]

-----------------------------------------------------------------------------
(* The user's thread.                                                       *)

(* tx_write is called: it switches the UART on first.  The work queue can   *)
(* preempt dtr_uart_enable here.                                            *)
tx_write(s, x) ==
    /\ word' = x
    /\ IF s.automatic /\ ~s.active
       THEN c' = EnableRx(s) /\ pc' = "pin"
       ELSE c' = s /\ pc' = "put"

sm_at_client_send_cmd(x) ==
    /\ pc = "idle"
    /\ cmd' = x
    /\ tx_write([c EXCEPT !.state = "PENDING"], x)
    /\ UNCHANGED <<wpc, got>>

SetPin ==
    /\ pc = "pin" /\ pc' = "tx"
    /\ c' = [c EXCEPT !.pin = TRUE]
    /\ UNCHANGED <<wpc, cmd, word, got>>

SwitchTx ==
    /\ pc = "tx" /\ pc' = "put"
    /\ c' = EnableTx(c)
    /\ UNCHANGED <<wpc, cmd, word, got>>

(* An error of tx_write is an error of the command. *)
Fail == pc' = "idle" /\ word' = Cr /\ got' = [got EXCEPT ![cmd] = Failed]

(* The text is queued, and tx_write called for the terminator. *)
PutText ==
    /\ pc = "put" /\ word # Cr /\ Len(c.ring) < RingLen
    /\ tx_write([c EXCEPT !.ring = Append(@, word)], Cr)
    /\ UNCHANGED <<wpc, cmd, got>>

(* The terminator is queued and, unless TX is off or a transmission goes on *)
(* that will take it along, all is sent.                                    *)
PutTerminator ==
    /\ pc = "put" /\ word = Cr /\ Len(c.ring) < RingLen
    /\ LET s == [c EXCEPT !.ring = Append(@, Cr)]
       IN  \/ ~c.tx_en /\ c' = s /\ Fail
           \/ c.tx_en /\ ~c.tx_done /\ c' = s /\ pc' = "wait" /\ UNCHANGED got
           \/ /\ c.tx_en /\ c.tx_done /\ CanSend(c)
              /\ c' = tx_start([s EXCEPT !.tx_done = FALSE])
              /\ pc' = "wait" /\ UNCHANGED got
           \/ c.tx_en /\ c.tx_done /\ ~CanSend(c) /\ c' = tx_start(s) /\ Fail
    /\ word' = Cr /\ UNCHANGED <<wpc, cmd>>

(* There is no room: with TX enabled the thread waits for tx_done_sem ...   *)
PutFull ==
    /\ pc = "put" /\ Len(c.ring) = RingLen
    /\ \/ ~c.tx_en /\ Fail
       \/ c.tx_en /\ pc' = "room" /\ UNCHANGED <<word, got>>
    /\ UNCHANGED <<c, wpc, cmd>>

(* ... and starts to send, or finds that all has been sent: a transmission  *)
(* of nothing is done at once.                                              *)
Room ==
    /\ pc = "room" /\ c.tx_done
    /\ \/ CanSend(c) /\ c.ring = <<>> /\ c' = reschedule_disable(c)
       \/ CanSend(c) /\ c.ring # <<>> /\ c' = tx_start([c EXCEPT !.tx_done = FALSE])
       \/ ~CanSend(c) /\ c' = tx_start(c)
    /\ IF CanSend(c) THEN pc' = "put" /\ UNCHANGED <<word, got>> ELSE Fail
    /\ UNCHANGED <<wpc, cmd>>

(* The response is there. *)
Answered ==
    /\ pc = "wait" /\ c.at_rsp
    /\ c' = [c EXCEPT !.at_rsp = FALSE, !.rsp = Open]
    /\ got' = [got EXCEPT ![cmd] = IF c.state = "PENDING" THEN Pending
                                   ELSE IF c.state = "ERROR" THEN Failed ELSE c.rsp]
    /\ pc' = "idle"
    /\ UNCHANGED <<wpc, cmd, word>>

(* It does not come in time; it may still come before sm_at_state is set. *)
TimedOut ==
    /\ pc = "wait" /\ ~c.at_rsp
    /\ pc' = "late"
    /\ UNCHANGED <<c, wpc, cmd, word, got>>

GiveUp ==
    /\ pc = "late" /\ Fail
    /\ c' = [c EXCEPT !.state = "ERROR", !.rsp = Open]
    /\ UNCHANGED <<wpc, cmd>>

(* RI that is up already is not looked at. *)
sm_at_client_automatic_dtr_uart ==
    /\ pc = "idle" /\ ~c.automatic
    /\ c' = [c EXCEPT !.automatic = TRUE,
                      !.en_work = @ \/ (~c.active /\ c.ring # <<>>),
                      !.dis_work = @ \/ c.active]
    /\ UNCHANGED <<pc, wpc, cmd, word, got>>

sm_at_client_disable_dtr_uart ==
    /\ pc = "idle"
    /\ c' = [c EXCEPT !.automatic = FALSE, !.en_work = FALSE, !.dis_work = TRUE]
    /\ UNCHANGED <<pc, wpc, cmd, word, got>>

sm_at_client_enable_dtr_uart ==
    /\ pc = "idle"
    /\ c' = [c EXCEPT !.automatic = FALSE, !.dis_work = FALSE, !.en_work = TRUE]
    /\ UNCHANGED <<pc, wpc, cmd, word, got>>

-----------------------------------------------------------------------------
(* The system work queue.                                                   *)

dtr_uart_enable_work_fn ==
    /\ wpc = "idle" /\ c.en_work
    /\ c' = dtr_uart_enable([c EXCEPT !.en_work = FALSE])
    /\ UNCHANGED <<pc, wpc, cmd, word, got>>

dtr_uart_disable_work_fn ==
    /\ wpc = "idle" /\ c.dis_work
    /\ c' = dtr_uart_disable([c EXCEPT !.dis_work = FALSE])
    /\ wpc' = IF c.rx_en THEN "rxoff" ELSE "idle"
    /\ UNCHANGED <<pc, cmd, word, got>>

(* The receiver is off, or 100 ms passed and it is taken to be (late). *)
RxOff(late) ==
    /\ wpc = "rxoff" /\ late = ~c.disabled
    /\ wpc' = "idle" /\ c' = [c EXCEPT !.rx_en = FALSE, !.disabled = FALSE]
    /\ UNCHANGED <<pc, cmd, word, got>>

rx_process ==
    /\ wpc = "idle" /\ c.rx_work
    /\ LET s == [c EXCEPT !.rxq = IF @ = <<>> THEN @ ELSE Tail(@)]
           t == IF c.rxq = <<>> THEN s ELSE response_handler(s, Head(c.rxq))
       IN  c' = IF t.rxq # <<>> THEN t
                ELSE rx_recovery([t EXCEPT !.rx_work = FALSE])
    /\ UNCHANGED <<pc, wpc, cmd, word, got>>

sm_monitor_task ==
    /\ wpc = "idle" /\ c.fifo # <<>>
    /\ c' = [c EXCEPT !.fifo = <<>>]
    /\ UNCHANGED <<pc, wpc, cmd, word, got>>

-----------------------------------------------------------------------------
(* Interrupts.                                                              *)

(* uart_callback: UART_TX_DONE.  What is no longer claimed stays in tx_buf, *)
(* and is sent again.                                                       *)
ClientTxDone ==
    /\ c.tx > 0
    /\ LET rest == IF c.claimed THEN SubSeq(c.ring, c.tx + 1, Len(c.ring)) ELSE c.ring
           s == [c EXCEPT !.ring = rest, !.tx = 0, !.claimed = FALSE, !.abort = FALSE,
                          !.twice = @ \/ ~c.claimed]
       IN  \/ /\ rest = <<>>
              /\ c' = reschedule_disable([s EXCEPT !.tx_done = TRUE])
           \/ rest # <<>> /\ CanSend(s) /\ c' = tx_start(s)
           \/ rest # <<>> /\ ~CanSend(s) /\ c' = [s EXCEPT !.tx_done = TRUE]
    /\ UNCHANGED <<pc, wpc, cmd, word, got>>

(* UART_TX_ABORTED: all data is dropped, and k_sem_reset ends the wait. *)
ClientTxAborted ==
    /\ c.tx > 0 /\ c.abort
    /\ c' = reschedule_disable([c EXCEPT !.ring = <<>>, !.tx = 0, !.claimed = FALSE,
                                         !.abort = FALSE, !.tx_done = TRUE,
                                         !.at_rsp = FALSE,
                                         !.cut = @ \/ pc \in {"pin", "tx", "put", "room"}])
    /\ pc' = IF pc = "wait" THEN "late" ELSE pc
    /\ UNCHANGED <<wpc, cmd, word, got>>

(* UART_RX_RDY; data is dropped when rx_event_queue is full. *)
RxRdy(s, x) ==
    IF Len(s.rxq) = RxEvents THEN [s EXCEPT !.missed = TRUE]
    ELSE LET t == [s EXCEPT !.rxq = Append(@, x), !.rx_work = TRUE]
         IN  IF s.ring = <<>> THEN reschedule_disable(t) ELSE t

(* UART_RX_DISABLED, asked for or for want of a buffer. *)
ClientRxDisabled ==
    /\ c.rx \in {"stopping", "starved"}
    /\ c' = [c EXCEPT !.rx = "off", !.rx_en = FALSE, !.disabled = TRUE, !.rx_work = TRUE]
    /\ UNCHANGED <<pc, wpc, cmd, word, got>>

(* Mutant: RI wakes a host that has something to send. *)
GpioMutant(s) == [s EXCEPT !.en_work = @ \/ (s.automatic /\ ~s.active /\ s.ring # <<>>)]

(* gpio_cb_func: an edge of RI. *)
gpio_cb_func(s) == [s EXCEPT !.en_work = @ \/ (s.automatic /\ ~s.active)]

(* sm_at_client_init, automatic, with the inactivity timer running. *)
ClientInit ==
    /\ c = [state |-> "OK", rsp |-> Open, at_rsp |-> FALSE, resp |-> <<>>,
            tx_en |-> TRUE, rx_en |-> TRUE, no_recovery |-> FALSE,
            tx_done |-> TRUE, ring |-> <<>>, tx |-> 0, claimed |-> FALSE, abort |-> FALSE,
            rx |-> "on", rxq |-> <<>>, disabled |-> FALSE,
            active |-> TRUE, automatic |-> TRUE, pin |-> TRUE,
            rx_work |-> FALSE, en_work |-> FALSE, dis_work |-> TRUE, fifo |-> <<>>,
            missed |-> FALSE, twice |-> FALSE, cut |-> FALSE]
    /\ pc = "idle" /\ wpc = "idle" /\ cmd = 0 /\ word = Cr
=============================================================================
