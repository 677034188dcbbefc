-------------------------------- MODULE Link --------------------------------
(***************************************************************************)
(* A host with the AT client library and a modem with the DTR UART driver, *)
(* connected by a UART with hardware flow control and the DTR and RI       *)
(* lines.  A unit leaves one side only while the receiver of the other is  *)
(* on.  The AT host of the modem answers every line, and sends URCs.       *)
(***************************************************************************)
EXTENDS DtrUart, AtClient

CONSTANTS
    MaxCmds,     \* bound: commands that the host sends
    Budget       \* bound: commands and other events: URCs, timeouts, calls ...

ASSUME LinkAssumption ==
    MaxCmds \in Nat \ {0} /\ Budget \in Nat /\ Urc \in Nat \ (0..MaxCmds)

VARIABLES
    inbox,   \* texts and terminators that the modem received and has not read
    left     \* what is left of Budget

vars == <<dtrVars, cliVars, inbox, left>>
Cmds == 1..MaxCmds

Spend == left > 0 /\ left' = left - 1

-----------------------------------------------------------------------------
(* A step of the host: DTR follows the pin. *)
Host(A) == A /\ SetDtr(c'.pin) /\ UNCHANGED <<m, hpc, apiPc, raced, inbox>>

(* A step of the modem: a rising edge of RI interrupts the host. *)
Modem(A) ==
    /\ A
    /\ c' = IF m'.ri /\ ~m.ri THEN gpio_cb_func(c) ELSE c
    /\ UNCHANGED <<pc, wpc, cmd, word, got>>

(* The work queue is cooperative: the thread runs when it has nothing to do. *)
HostIdle ==
    IF wpc = "rxoff" THEN ~c.disabled ELSE ~c.rx_work /\ ~c.en_work /\ c.fifo = <<>>

HostThread ==
    \/ SetPin \/ SwitchTx \/ PutText \/ PutTerminator \/ PutFull \/ Room
    \/ Answered \/ GiveUp

(* The inactivity period (100 ms and more) is longer than the rest of       *)
(* dtr_uart_enable, and than the modem takes to follow DTR.  A call of the  *)
(* user disables at once.                                                   *)
Inactive == pc \notin {"pin", "tx"} /\ (c.automatic => ~work /\ hpc = "idle")

HostWork ==
    \/ dtr_uart_enable_work_fn \/ RxOff(FALSE) \/ rx_process \/ sm_monitor_task
    \/ Inactive /\ pc \notin {"put", "room"} /\ dtr_uart_disable_work_fn

SendCmd == \E k \in Cmds : cmd = k - 1 /\ sm_at_client_send_cmd(k)
HostApi == sm_at_client_disable_dtr_uart \/ sm_at_client_enable_dtr_uart

(* What is sent reaches the modem while it receives ... *)
Receiving == m.on /\ m.rx = "on"
HostTxDone ==
    /\ Receiving
    /\ ClientTxDone /\ inbox' = inbox \o SubSeq(c.ring, 1, c.tx)
    /\ SetDtr(c'.pin) /\ UNCHANGED <<m, hpc, apiPc, raced, left>>

(* ... as does, perhaps, the beginning of what is aborted ... *)
HostTxAborted ==
    /\ ClientTxAborted
    /\ \E n \in 0..c.tx :
          (n > 0 => Receiving) /\ inbox' = inbox \o SubSeq(c.ring, 1, n)
    /\ SetDtr(c'.pin) /\ UNCHANGED <<m, hpc, apiPc, raced, left>>

(* ... after 100 ms for instance, if the modem does not receive then. *)
HostTxTimeout ==
    /\ c.tx > 0 /\ ~c.abort /\ ~Receiving /\ ~work /\ hpc = "idle"
    /\ c' = [c EXCEPT !.abort = TRUE]
    /\ UNCHANGED <<dtrVars, pc, wpc, cmd, word, got, inbox, left>>

(* The receiver of the host runs out of buffers. *)
Starve ==
    /\ c.rx = "on" /\ Spend
    /\ c' = [c EXCEPT !.rx = "starved"]
    /\ UNCHANGED <<dtrVars, pc, wpc, cmd, word, got, inbox>>

(* The first part of a unit arrives on its own. *)
ModemTxPart ==
    /\ c.rx = "on" /\ m.tx # None /\ m.on /\ Spend
    /\ c' = RxRdy(c, Part)
    /\ UNCHANGED <<dtrVars, pc, wpc, cmd, word, got, inbox>>

(* A unit reaches the host while it receives; it is what the UART sends. *)
ModemTxDone ==
    /\ c.rx = "on" /\ TxDone
    /\ LET d == RxRdy(c, m.tx)
       IN  c' = IF m'.ri /\ ~m.ri THEN gpio_cb_func(d) ELSE d
    /\ UNCHANGED <<pc, wpc, cmd, word, got, inbox, left>>

(* The AT host of the modem answers a line: a command, or several that lost *)
(* the terminator between them; it says nothing to an empty one.            *)
Line(i) == i \in 1..Len(inbox) /\ inbox[i] = Cr /\ \A j \in 1..(i - 1) : inbox[j] # Cr
Reply ==
    \E i \in 2..Len(inbox) :
      /\ Line(i) /\ inbox' = SubSeq(inbox, i + 1, Len(inbox))
      /\ Modem(Write(IF i = 2 THEN inbox[1] ELSE Err)) /\ UNCHANGED left

SkipLine ==
    /\ Line(1) /\ inbox' = Tail(inbox)
    /\ UNCHANGED <<dtrVars, cliVars, left>>

(* An edge of RI that nobody waited for does not come again. *)
Automatic ==
    /\ HostIdle /\ sm_at_client_automatic_dtr_uart /\ SetDtr(c'.pin)
    /\ raced' = (raced \/ (m.ri /\ ~c.active))
    /\ UNCHANGED <<m, hpc, apiPc, inbox, left>>

ModemWork == dtr_work_handler("buffer") \/ PowerOff(FALSE) \/ ApiTx \/ TxAborted \/ RxDisabled

HostStep ==
    /\ \/ HostIdle /\ Host(HostThread)
       \/ Host(HostWork \/ ClientRxDisabled)
    /\ UNCHANGED left

Init ==
    /\ DtrInit /\ ClientInit
    /\ got = [k \in Cmds |-> Open]
    /\ inbox = <<>> /\ left = Budget

Next ==
    \/ HostStep
    \/ Host(TimedOut \/ RxOff(TRUE)) /\ Spend
    \/ Host(Inactive /\ pc \in {"put", "room"} /\ dtr_uart_disable_work_fn) /\ Spend
    \/ HostIdle /\ Host(HostApi \/ SendCmd) /\ Spend
    \/ Automatic
    \/ HostTxDone \/ HostTxAborted \/ HostTxTimeout \/ Starve
    \/ ModemTxPart \/ ModemTxDone \/ Reply \/ SkipLine
    \/ Modem(ModemWork) /\ UNCHANGED <<inbox, left>>
    \/ Modem(dtr_work_handler("none") \/ PowerOff(TRUE)) /\ Spend /\ UNCHANGED inbox
    \/ Modem(Write(Urc)) /\ Spend /\ UNCHANGED inbox
    \/ Modem(dtr_uart_pm_action(TRUE)) /\ Spend /\ UNCHANGED inbox
    \/ Modem(dtr_uart_pm_action(FALSE)) /\ UNCHANGED <<inbox, left>>
    \/ Modem(api_rx_disable) /\ Spend /\ UNCHANGED inbox
    \/ Modem(api_rx_enable) /\ UNCHANGED <<inbox, left>>

Spec == Init /\ [][Next]_vars

-----------------------------------------------------------------------------
(* Every variable has its type; rx_event_queue and at_monitor_heap hold no  *)
(* more than they have room for (sm_at_client.c:499-513).                   *)
TypeOK ==
    /\ m.dtr_state \in BOOLEAN /\ m.tx \in Cmds \cup {None, Urc, Err}
    /\ m.rx \in {"on", "stopping", "off"} /\ m.pipe \in {"open", "closed", "failed"}
    /\ hpc \in {"idle", "down"} /\ apiPc \in {"idle", "direct", "store"}
    /\ c.rx \in {"on", "stopping", "starved", "off"}
    /\ pc \in {"idle", "pin", "tx", "put", "room", "wait", "late"}
    /\ wpc \in {"idle", "rxoff"} /\ cmd \in 0..MaxCmds /\ word \in Cmds \cup {Cr}
    /\ got \in [Cmds -> Cmds \cup {Open, Failed, Pending}]
    /\ Len(c.rxq) <= RxEvents /\ Len(c.fifo) <= HeapLen /\ Len(c.resp) <= RespLen
    /\ c.tx <= Len(c.ring) /\ Len(c.ring) <= RingLen

(* A command that returns with a result returns with its own, whatever URCs *)
(* and wake-ups came between, and however its text and its terminator were  *)
(* sent, unless an earlier one failed: its late response, or the semaphore  *)
(* it left, is then taken for the next one's.  A full rx_event_queue or     *)
(* at_cmd_resp loses data (sm_at_client.c:276-335, 371-424, 886-923).       *)
AnswerMatches ==
    \A k \in Cmds : \/ got[k] \in {Open, Failed, k} \/ c.missed \/ c.twice
                    \/ \E j \in Cmds : j < k /\ got[j] = Failed

(* Where nobody switches, the two ends agree: on the host dtr_config.active *)
(* is the pin and TX, and the receiver is on with DTR; on the modem the UART*)
(* is powered exactly while DTR is asserted and it is not suspended, RI is  *)
(* raised for every unit that waits, and no unit waits with DTR asserted    *)
(* (dtr_uart.c:238-276, 354-387; sm_at_client.c:610-718).                   *)
LinkAgrees ==
    /\ pc \notin {"pin", "tx"} /\ wpc = "idle" /\ ~c.en_work /\ ~c.rx_work =>
          /\ c.active = c.pin /\ c.tx_en = c.active
          /\ c.rx_en => c.active
          /\ c.active => c.rx_en \/ c.rx \in {"stopping", "starved"}
    /\ ~work /\ hpc = "idle" /\ ~raced =>
          /\ m.dtr_state = (dtr /\ ~m.pm_suspended) /\ m.on = m.dtr_state
          /\ m.tx_buf # None /\ ~m.tx_in_progress => m.ri /\ ~m.dtr_state
          /\ m.ri => m.tx_buf # None

-----------------------------------------------------------------------------
(* Work items, interrupts, threads and the AT host run when they can.       *)
FairSpec ==
    /\ Spec
    /\ WF_vars(HostStep) /\ WF_vars(HostTxDone) /\ WF_vars(HostTxAborted)
    /\ WF_vars(HostTxTimeout) /\ WF_vars(ModemTxDone) /\ WF_vars(Reply \/ SkipLine)
    /\ WF_vars(Modem(ModemWork) /\ UNCHANGED <<inbox, left>>)
    /\ WF_vars(Modem(api_rx_enable) /\ UNCHANGED <<inbox, left>>)

(* From some time on the modem is not suspended and DTR is automatic; what  *)
(* an edge of RI that got lost has left waiting is sent in the end, with    *)
(* data that the host has for the modem or another edge.                    *)
Calm == <>[](~m.pm_suspended /\ c.automatic) /\ []<>~raced

(* The AT host of the modem is stuck: UART_RX_DISABLED was swallowed while  *)
(* it waits for it, or its pipe failed to open.                             *)
Stuck ==
    \/ m.pipe = "closed" /\ m.app_rx_enabled /\ ~(m.rx = "stopping" /\ m.dtr_state)
    \/ m.pipe = "failed"

(* A command without a timeout returns, unless its response was dropped, or *)
(* the AT host never gets going again: the UARTs may be powered down at any *)
(* time in between, and RI or the host's own data resume them, at the modem *)
(* with RX or without (sm_at_client.c:371-424, 732-748, 886-923;            *)
(* dtr_uart.c:238-276, 320-333).                                            *)
CommandAnswered ==
    Calm /\ []~(c.missed \/ c.cut) /\ []<>~Stuck => (pc # "idle" ~> pc = "idle")

(* What the modem has to send, stored without DTR or aborted when DTR drops *)
(* included, reaches the host, whether or not RX could be disabled in time  *)
(* or started again (dtr_uart.c:120-171, 256-276; sm_uart_handler.c:283).   *)
UnitsDelivered == Calm => (m.out # <<>> ~> m.out = <<>>)
=============================================================================
