------------------------------ MODULE Contexts ------------------------------
(***************************************************************************)
(* Who serves which pipe: the AT host's contexts (app/src/sm_at_host.c),   *)
(* the CMUX service (sm_cmux.c) that replaces the UART pipe by one pipe    *)
(* per channel (DLCI), and PPP (sm_ppp.c), which takes a pipe away from    *)
(* the AT host and returns it when it stops.                               *)
(*                                                                         *)
(* Three threads interleave: sm_work_q (commands, AT host messages, the    *)
(* delayed CMUX stop, PDP activation), the CMUX module that calls back     *)
(* when the host opens or closes a channel, and the PPP thread.  Contexts  *)
(* are addresses that malloc hands out again.  All contexts are in AT      *)
(* mode; AtHost and DataMode have what happens within one.                 *)
(***************************************************************************)
EXTENDS Integers, Sequences, FiniteSets, SequencesExt

CONSTANTS
    Dlcis,        \* pipes of the CMUX channels, by channel - 1
    Ctxs,         \* memory for contexts: a sequence of addresses
    MsgqLen,      \* length of sm_at_host_msgq (10)
    QueueLen,     \* length of ppp_work.queue (4)
    MaxCmds,      \* bound: commands of the host
    MaxEvents     \* bound: events of channels, network and peer

ASSUME ContextsAssumption ==
    /\ Dlcis \in Seq(Range(Dlcis)) /\ Len(Dlcis) > 1
    /\ Ctxs \in Seq(Range(Ctxs)) /\ Len(Ctxs) > 0
    /\ {"NULL", "0xdeadbeef"} \cap (Range(Dlcis) \cup Range(Ctxs)) = {}
    /\ {MsgqLen, QueueLen} \subseteq Nat \ {0}
    /\ {MaxCmds, MaxEvents} \subseteq Nat

Uart == "uart"
Pipes == {Uart} \cup Range(Dlcis)
NULL == "NULL"
Deadbeef == "0xdeadbeef"
NoMsg == [ev |-> "none", ctx |-> NULL, pipe |-> NULL]

VARIABLES
    h,         \* the AT host and the pipes:
               \*   inst: instance_list, pipe: ctx->pipe of each,
               \*   cb, user: callback and user_data of each pipe,
               \*   open: the open pipes, msgs: sm_at_host_msgq,
               \*   lock: contexts with executing_lock held by AT+CGDATA,
               \*   uart_pipe: cmux.uart_pipe # NULL, at_channel, urc_channel,
               \*   purged: a message was lost
    closing,   \* message whose context sm_at_host_work_fn is about to destroy
    stop_work, \* cmux.stop_work is scheduled
    ppp,       \* PPP: state, pipe (ppp_pipe), mod (pipe of ppp_module),
               \*   keep (sm_ppp_keep_pipe_attached),
               \*   detach (sm_ppp_detach_at_pipe), auto (sm_ppp_auto_start),
               \*   monitor (sm_ppp_on_cgev resumed), peer (ppp_peer_connected),
               \*   queue: ppp_work.queue
    pdp,       \* activate_pdp_dwork is scheduled
    pppPc,     \* where the PPP thread is
    event,     \* the event it handles
    mishaps,   \* history: the cases in which the code loses track of a pipe:
               \*   "event dropped" (ppp_work.queue full), "no memory",
               \*   "open ignored" (pipe mismatch on open event),
               \*   "callback left" (a context used again for another pipe),
               \*   "released late" (PPP takes a callback off that is not its),
               \*   "start overlaps" (a command gives PPP another pipe, or
               \*   fails, while PPP is not idle)
    cmds,      \* commands so far
    events     \* events so far

vars == <<h, closing, stop_work, ppp, pdp, pppPc, event, mishaps, cmds, events>>

-----------------------------------------------------------------------------
(* The AT host's operations on contexts and pipes.                          *)

sm_at_ctx_check(s, c) == c # NULL /\ c \in Range(s.inst)

sm_at_host_get_ctx_from(s, p) ==
    LET I == {i \in DOMAIN s.inst : s.pipe[s.inst[i]] = p}
    IN  IF p = NULL \/ I = {} THEN NULL
        ELSE s.inst[CHOOSE i \in I : \A j \in I : i <= j]

(* The URC channel's context, or that of the first channel that has one, or *)
(* else the first.                                                          *)
sm_at_host_get_urc_ctx(s) ==
    LET C == {ch \in DOMAIN Dlcis : sm_at_host_get_ctx_from(s, Dlcis[ch]) # NULL}
    IN  CASE s.uart_pipe /\ s.urc_channel # 0 ->
               sm_at_host_get_ctx_from(s, Dlcis[s.urc_channel])
          [] s.uart_pipe /\ s.urc_channel = 0 /\ C # {} ->
               sm_at_host_get_ctx_from(s, Dlcis[CHOOSE i \in C : \A j \in C : i <= j])
          [] OTHER -> Head(s.inst)

modem_pipe_attach(s, p, fn, c) == [s EXCEPT !.cb[p] = fn, !.user[p] = c]
modem_pipe_release(s, p) == IF p = NULL THEN s ELSE modem_pipe_attach(s, p, "none", NULL)

(* A full queue is purged first. *)
send_msg(s, m) == IF Len(s.msgs) = MsgqLen
                  THEN [s EXCEPT !.msgs = <<m>>, !.purged = TRUE]
                  ELSE [s EXCEPT !.msgs = Append(@, m)]

sm_at_pipe_opened(s, c, p) ==
    CASE c # NULL /\ s.pipe[c] = NULL -> [s EXCEPT !.pipe[c] = p]
      [] c # NULL /\ s.pipe[c] = p -> s
      [] OTHER -> send_msg(s, [ev |-> "opened", ctx |-> c, pipe |-> p])

sm_at_pipe_closed(s, c, p) ==
    IF c # NULL /\ s.pipe[c] = p
    THEN send_msg([s EXCEPT !.pipe[c] = NULL], [ev |-> "closed", ctx |-> c, pipe |-> p])
    ELSE s

(* Mutant: the pipe of the new context keeps the null handler. *)
CreateMutant(s, p) ==
    LET u == sm_at_host_get_urc_ctx(s)
        unused == {i \in DOMAIN Ctxs : Ctxs[i] \notin Range(s.inst)}
        c == Ctxs[CHOOSE i \in unused : \A j \in unused : i <= j]
    IN  CASE u # NULL /\ s.pipe[u] = NULL -> [s EXCEPT !.pipe[u] = p, !.lock = @ \ {u}]
          [] (u = NULL \/ s.pipe[u] # NULL) /\ unused # {} ->
               [s EXCEPT !.pipe[c] = p, !.inst = Append(@, c)]
          [] OTHER -> s

(* A context without pipe is used again; malloc may find no memory. *)
sm_at_host_create(s, p) ==
    LET u == sm_at_host_get_urc_ctx(s)
        unused == {i \in DOMAIN Ctxs : Ctxs[i] \notin Range(s.inst)}
        c == Ctxs[CHOOSE i \in unused : \A j \in unused : i <= j]
    IN  CASE u # NULL /\ s.pipe[u] = NULL ->
               modem_pipe_attach([s EXCEPT !.pipe[u] = p, !.lock = @ \ {u}], p, "at", u)
          [] (u = NULL \/ s.pipe[u] # NULL) /\ unused # {} ->
               modem_pipe_attach([s EXCEPT !.pipe[c] = p, !.inst = Append(@, c)],
                                 p, "at", c)
          [] OTHER -> s

(* Mutant: the last context is freed too. *)
DestroyMutant(s, c) ==
    IF ~sm_at_ctx_check(s, c) THEN s
    ELSE [s EXCEPT !.inst = RemoveFirst(@, c),
                   !.pipe[c] = NULL, !.lock = @ \ {c}]

(* The last context only loses its pipe. *)
sm_at_host_destroy(s, c) ==
    CASE ~sm_at_ctx_check(s, c) -> s
      [] sm_at_ctx_check(s, c) /\ Len(s.inst) = 1 -> [s EXCEPT !.pipe[c] = NULL]
      [] OTHER -> [s EXCEPT !.inst = RemoveFirst(@, c),
                            !.pipe[c] = NULL, !.lock = @ \ {c}]

sm_at_host_set_pipe(s, c, p) ==
    LET old == s.pipe[c]
        s1 == [s EXCEPT !.pipe[c] = p]
        s2 == IF old = NULL THEN s1 ELSE modem_pipe_attach(s1, old, "null", NULL)
        oldCtx == sm_at_host_get_ctx_from(s2, p)
        s3 == IF oldCtx # c THEN sm_at_host_destroy(s2, oldCtx) ELSE s2
    IN  modem_pipe_attach(s3, p, "at", c)

sm_at_host_release(s, c) ==
    IF sm_at_ctx_check(s, c)
    THEN sm_at_pipe_closed(modem_pipe_release(s, s.pipe[c]), c, s.pipe[c])
    ELSE s

sm_at_host_attach(s, p) ==
    CASE p = NULL -> s
      [] p \in s.open ->
           sm_at_pipe_opened(modem_pipe_attach(s, p, "null", NULL), NULL, p)
      [] OTHER -> modem_pipe_attach(s, p, "null", NULL)

(* Callbacks of a pipe: at_pipe_event_handler or null_pipe_handler. *)
NotifyOpened(s, p) ==
    CASE s.cb[p] = "at" /\ sm_at_ctx_check(s, s.user[p]) ->
           sm_at_pipe_opened(s, s.user[p], p)
      [] s.cb[p] = "null" -> sm_at_pipe_opened(s, NULL, p)
      [] OTHER -> s
NotifyClosed(s, p) ==
    IF s.cb[p] = "at" /\ sm_at_ctx_check(s, s.user[p])
    THEN sm_at_pipe_closed(s, s.user[p], p) ELSE s

-----------------------------------------------------------------------------
(* PPP's operations that others call.                                       *)

sm_ppp_is_stopped == ppp.state = "STOPPED"

(* delegate_ppp_event: an event for a full queue is dropped. *)
delegate_ppp_event(q, a, r) ==
    IF Len(q.queue) = QueueLen THEN q
    ELSE [q EXCEPT !.queue = Append(@, [action |-> a, reason |-> r])]
Dropped(q) == IF Len(q.queue) = QueueLen THEN {"event dropped"} ELSE {}

sm_ppp_detach(q) ==
    LET d == [q EXCEPT !.pipe = NULL, !.keep = FALSE, !.auto = FALSE]
    IN  IF q.state = "STOPPED" THEN d ELSE delegate_ppp_event(d, "STOP", "CMD")

(* sm_ppp_attach; its modem_pipe_release is the caller's. *)
sm_ppp_attach(q, p) == [q EXCEPT !.pipe = p, !.keep = TRUE]

(* modem_ppp_attach does nothing if ppp_module has a pipe. *)
modem_ppp_attach_pipe(s, p) ==
    IF ppp.mod = NULL THEN modem_pipe_attach(s, p, "ppp", NULL) ELSE s
ModuleWith(p) == IF ppp.mod = NULL THEN p ELSE ppp.mod

-----------------------------------------------------------------------------
(* Commands of the host, on sm_work_q.                                      *)

workerVars == <<closing, stop_work, pdp>>
pppThread  == <<pppPc, event>>

(* A context of the AT host is on this pipe ... *)
Attached(p) == /\ p \in h.open /\ h.cb[p] = "at"
               /\ sm_at_ctx_check(h, h.user[p]) /\ h.pipe[h.user[p]] = p

(* ... and executes commands. *)
Served(p) == Attached(p) /\ h.user[p] \notin h.lock

Command(p) == /\ cmds < MaxCmds /\ cmds' = cmds + 1
              /\ closing = NoMsg /\ pppPc # "fault" /\ Served(p)

(* PPP is up, or on its way up or down, while its pipe is given away. *)
PppBusy == ~sm_ppp_is_stopped \/ ppp.queue # <<>> \/ pppPc # "idle"
Overlap(busy) == IF busy THEN {"start overlaps"} ELSE {}

(* cmux_start: the AT host moves from the UART to the first channel. *)
cmux_start(s, c) ==
    modem_pipe_attach(sm_at_host_set_pipe([s EXCEPT !.uart_pipe = TRUE], c,
                                          Dlcis[s.at_channel]),
                      Uart, "cmux", NULL)

(* AT+CMUX=0 *)
handle_at_cmux(p) ==
    /\ Command(p) /\ ~h.uart_pipe
    /\ h' = cmux_start(h, h.user[p])
    /\ mishaps' = mishaps \cup Overlap(PppBusy \/ pdp)
    /\ UNCHANGED <<workerVars, ppp, pppThread, events>>

(* The channel reserved for PPP leaves the AT host. *)
Reserve(s, p) == modem_pipe_release(
                     sm_at_host_release(s, sm_at_host_get_ctx_from(s, p)), p)

(* AT#XCMUX=<ch>: starts CMUX, with the other channel reserved for PPP; if  *)
(* it is started, swaps the channels of AT host and PPP.                    *)
handle_at_xcmux(p, ch) ==
    LET other == Dlcis[3 - ch]
    IN  /\ Command(p) /\ ~(ppp.state = "RUNNING" /\ ch # h.at_channel)
        /\ IF h.uart_pipe
           THEN /\ h' = Reserve(sm_at_host_set_pipe([h EXCEPT !.at_channel = ch],
                                                    h.user[p], Dlcis[ch]), other)
                /\ ppp' = [sm_ppp_attach(ppp, other) EXCEPT !.keep = FALSE]
           ELSE /\ h' = cmux_start(Reserve([h EXCEPT !.at_channel = ch], other), h.user[p])
                /\ ppp' = sm_ppp_attach(ppp, other)
        /\ mishaps' = mishaps \cup Overlap(PppBusy \/ pdp)
        /\ UNCHANGED <<workerVars, pppThread, events>>

(* AT#XCMUXURC=<ch> *)
handle_at_xcmuxurc(p, ch) ==
    /\ Command(p) /\ h.urc_channel # ch
    /\ h' = [h EXCEPT !.urc_channel = ch]
    /\ UNCHANGED <<workerVars, ppp, pppThread, mishaps, events>>

(* AT#XCMUXCLD *)
handle_at_xcmuxcld(p) ==
    /\ Command(p) /\ h.uart_pipe
    /\ stop_work' = TRUE
    /\ UNCHANGED <<h, closing, pdp, ppp, pppThread, mishaps, events>>

(* AT#XPPP=1, with the pipe reserved for PPP or else this one. *)
PppStartCommand(p) ==
    /\ Command(p) /\ sm_ppp_is_stopped
    /\ ppp' = delegate_ppp_event(
                [ppp EXCEPT !.auto = TRUE, !.pipe = IF @ = NULL THEN p ELSE @,
                            !.detach = @ \/ ppp.pipe = NULL],
                "START", "CMD")
    /\ mishaps' = mishaps \cup Dropped(ppp)
    /\ UNCHANGED <<h, workerVars, pppThread, events>>

(* AT#XPPP=0 *)
PppStopCommand(p) ==
    /\ Command(p)
    /\ ppp' = delegate_ppp_event([ppp EXCEPT !.auto = FALSE], "STOP", "CMD")
    /\ mishaps' = mishaps \cup Dropped(ppp)
    /\ UNCHANGED <<h, workerVars, pppThread, events>>

(* AT+CGDATA takes its own pipe, and goes on until a PDP context is active. *)
handle_at_cgdata(p) ==
    /\ Command(p) /\ sm_ppp_is_stopped
    /\ ppp' = [(IF ppp.pipe = NULL THEN ppp ELSE sm_ppp_detach(ppp))
                 EXCEPT !.pipe = p, !.keep = FALSE]
    /\ h' = [h EXCEPT !.lock = @ \cup {h.user[p]}]
    /\ pdp' = TRUE
    /\ mishaps' = mishaps \cup Overlap(PppBusy \/ pdp \/ ppp.pipe # NULL)
    /\ UNCHANGED <<closing, stop_work, pppThread, events>>

-----------------------------------------------------------------------------
(* Other work of sm_work_q.                                                 *)

WorkerIdle == closing = NoMsg /\ pppPc # "fault"

(* The AT host's callback of p names a context that has another pipe, and no *)
(* message is queued that takes it off.                                     *)
Stale(s, p) ==
    /\ s.cb[p] = "at" /\ s.user[p] \in Range(s.inst)
    /\ s.pipe[s.user[p]] \notin {p, NULL, Deadbeef}

(* "Pipe mismatch on open event" *)
OpenIgnored ==
    LET m == Head(h.msgs)
    IN  /\ m.ev = "opened" /\ sm_at_ctx_check(h, m.ctx)
        /\ h.pipe[m.ctx] \notin {NULL, m.pipe}

(* sm_at_host_work_fn, a pipe event.  A closed context is destroyed unless  *)
(* it has a pipe again ...                                                  *)
HostMessage ==
    /\ WorkerIdle /\ h.msgs # <<>>
    /\ LET m == Head(h.msgs)
           s == [h EXCEPT !.msgs = Tail(@)]
           c == IF sm_at_ctx_check(h, m.ctx) THEN m.ctx ELSE NULL
       IN  \/ /\ m.ev = "opened"
              /\ h' = CASE c = NULL -> sm_at_host_create(s, m.pipe)
                        [] c # NULL /\ h.pipe[c] = NULL ->
                             modem_pipe_attach([s EXCEPT !.pipe[c] = m.pipe],
                                               m.pipe, "at", c)
                        [] OTHER -> s
              /\ UNCHANGED closing
           \/ /\ m.ev = "closed" /\ c # NULL /\ h.pipe[c] = NULL
              /\ h' = [s EXCEPT !.pipe[c] = Deadbeef]
              /\ closing' = m
           \/ /\ m.ev = "closed" /\ ~(c # NULL /\ h.pipe[c] = NULL)
              /\ h' = IF c = NULL /\ h.cb[m.pipe] = "at"
                      THEN modem_pipe_attach(s, m.pipe, "null", NULL) ELSE s
              /\ UNCHANGED closing
    /\ mishaps' = mishaps \cup
          (IF \E p \in Pipes : Stale(h', p) /\ ~Stale(h, p)
           THEN {"callback left"} ELSE {})
          \cup (IF OpenIgnored THEN {"open ignored"} ELSE {})
          \cup (IF Len(h.inst) = Len(Ctxs) THEN {"no memory"} ELSE {})
    /\ UNCHANGED <<stop_work, ppp, pdp, pppThread, cmds, events>>

(* Mutant: the pipe keeps its callback. *)
HostClosedMutant ==
    /\ closing # NoMsg /\ pppPc # "fault"
    /\ h' = sm_at_host_destroy(h, closing.ctx)
    /\ closing' = NoMsg
    /\ UNCHANGED <<stop_work, ppp, pdp, pppThread, mishaps, cmds, events>>

(* ... and the pipe is detached from it, if nobody else has it. *)
HostClosed ==
    /\ closing # NoMsg /\ pppPc # "fault"
    /\ h' = sm_at_host_destroy(
              IF h.user[closing.pipe] = closing.ctx
              THEN modem_pipe_attach(h, closing.pipe, "null", NULL) ELSE h,
              closing.ctx)
    /\ closing' = NoMsg
    /\ UNCHANGED <<stop_work, ppp, pdp, pppThread, mishaps, cmds, events>>

(* The channels' pipes are initialised again, closed. *)
init_dlcis(s) ==
    [s EXCEPT !.open = {Uart},
              !.cb = [p \in Pipes |-> IF p = Uart THEN s.cb[p] ELSE "null"],
              !.user = [p \in Pipes |-> IF p = Uart THEN s.user[p] ELSE NULL]]

(* PPP loses its pipe, and the first context returns to the UART. *)
stop_work_fn ==
    /\ WorkerIdle /\ stop_work
    /\ stop_work' = FALSE
    /\ IF h.uart_pipe
       THEN LET s == [modem_pipe_release(h, Uart) EXCEPT !.at_channel = 1,
                                                         !.uart_pipe = FALSE]
            IN  /\ h' = init_dlcis(sm_at_host_set_pipe(
                                     s, sm_at_host_get_urc_ctx(s), Uart))
                /\ ppp' = sm_ppp_detach(ppp)
                /\ mishaps' = mishaps \cup (IF sm_ppp_is_stopped THEN {} ELSE Dropped(ppp))
       ELSE UNCHANGED <<h, ppp, mishaps>>
    /\ UNCHANGED <<closing, pdp, pppThread, cmds, events>>

(* sm_ppp_activate_pdp_dwork_fn without network: NO CARRIER, and the AT     *)
(* command is done. *)
ActivatePdpFails ==
    /\ WorkerIdle /\ pdp
    /\ pdp' = FALSE
    /\ h' = IF ppp.pipe = NULL THEN h
            ELSE [h EXCEPT !.lock = @ \ {sm_at_host_get_ctx_from(h, ppp.pipe)}]
    /\ ppp' = [ppp EXCEPT !.pipe = NULL]
    /\ mishaps' = mishaps \cup Overlap(PppBusy)
    /\ UNCHANGED <<closing, stop_work, pppThread, cmds, events>>

(* With it: CONNECT, and the pipe is PPP's. *)
ActivatePdp ==
    /\ WorkerIdle /\ pdp
    /\ pdp' = FALSE
    /\ IF ppp.pipe = NULL /\ ppp.mod = NULL
       THEN pppPc' = "fault" /\ UNCHANGED <<h, ppp, mishaps>>
       ELSE /\ h' = modem_ppp_attach_pipe(
                      sm_at_host_release(h, sm_at_host_get_ctx_from(h, ppp.pipe)),
                      ppp.pipe)
            /\ ppp' = delegate_ppp_event([ppp EXCEPT !.mod = ModuleWith(ppp.pipe),
                                                     !.auto = TRUE],
                                         "START", "CMD")
            /\ mishaps' = mishaps \cup Dropped(ppp)
            /\ UNCHANGED pppPc
    /\ UNCHANGED <<closing, stop_work, event, cmds, events>>

-----------------------------------------------------------------------------
(* The PPP thread: ppp_work_fn, ppp_start and ppp_stop, cut where they wait *)
(* for the network interface and sockets.                                   *)

PppTake ==
    /\ pppPc = "idle" /\ ppp.queue # <<>>
    /\ event' = Head(ppp.queue)
    /\ ppp' = [ppp EXCEPT !.queue = Tail(@)]
    /\ pppPc' = IF Head(ppp.queue).action = "START" THEN "start" ELSE "stop"
    /\ UNCHANGED <<h, workerVars, mishaps, cmds, events>>

(* ppp_start up to net_if_up: there may be no address, or no pipe. *)
PppStart ==
    /\ pppPc = "start"
    /\ \/ /\ ppp.state = "RUNNING"
          /\ pppPc' = "idle"
          /\ UNCHANGED ppp
       \/ /\ ppp.state # "RUNNING"
          /\ ppp' = [ppp EXCEPT !.monitor = TRUE]
          /\ pppPc' = "idle"
       \/ /\ ppp.state # "RUNNING" /\ ppp.pipe # NULL
          /\ ppp' = [ppp EXCEPT !.monitor = TRUE, !.state = "STARTING"]
          /\ pppPc' = "up"
    /\ UNCHANGED <<h, workerVars, event, mishaps, cmds, events>>

(* The interface does not come up, or a socket cannot be opened or bound. *)
PppStartFails ==
    /\ pppPc = "up"
    /\ pppPc' = "stop"
    /\ event' = [action |-> "START", reason |-> "ERROR"]
    /\ UNCHANGED <<h, workerVars, ppp, mishaps, cmds, events>>

(* The rest of ppp_start: the AT host is detached and PPP attached. *)
PppRunning ==
    /\ pppPc = "up"
    /\ IF ppp.pipe = NULL /\ ppp.mod = NULL
       THEN pppPc' = "fault" /\ UNCHANGED <<h, ppp>>
       ELSE /\ h' = modem_ppp_attach_pipe(
                      IF ppp.detach
                      THEN sm_at_host_release(h, sm_at_host_get_ctx_from(h, ppp.pipe))
                      ELSE h, ppp.pipe)
            /\ ppp' = [ppp EXCEPT !.mod = ModuleWith(ppp.pipe), !.state = "RUNNING"]
            /\ pppPc' = "idle"
    /\ UNCHANGED <<workerVars, event, mishaps, cmds, events>>

(* ppp_stop up to net_if_down, which may fail and is then tried again. *)
PppStop ==
    /\ pppPc = "stop"
    /\ \/ /\ ppp.state = "STOPPED"
          /\ pppPc' = IF event.action = "RESTART" THEN "start" ELSE "idle"
          /\ UNCHANGED <<ppp, mishaps, events>>
       \/ /\ ppp.state # "STOPPED"
          /\ LET restarting == ppp.keep /\ event.reason \in {"NETWORK", "ERROR"}
                 q == [ppp EXCEPT !.state = "STOPPING",
                                  !.monitor = @ /\ restarting]
             IN  \/ /\ ppp' = q
                    /\ pppPc' = "down"
                    /\ UNCHANGED <<mishaps, events>>
                 \/ /\ events < MaxEvents /\ events' = events + 1
                    /\ ppp' = delegate_ppp_event(q, "STOP", event.reason)
                    /\ mishaps' = mishaps \cup Dropped(ppp)
                    /\ pppPc' = "idle"
    /\ UNCHANGED <<h, workerVars, event, cmds>>

(* The rest of ppp_stop: modem_ppp_release takes the callback off the pipe, *)
(* whosever it is by now, and the pipe goes back to the AT host.            *)
PppStopped ==
    /\ pppPc = "down"
    /\ LET s == modem_pipe_release(h, ppp.mod)
       IN  h' = IF ppp.keep THEN s ELSE sm_at_host_attach(s, ppp.pipe)
    /\ ppp' = [ppp EXCEPT !.mod = NULL, !.state = "STOPPED",
                          !.pipe = IF ppp.keep THEN @ ELSE NULL,
                          !.detach = @ /\ ppp.keep]
    /\ pppPc' = IF event.action = "RESTART" THEN "start" ELSE "idle"
    /\ mishaps' = mishaps \cup
          (IF ppp.mod # NULL /\ h.cb[ppp.mod] # "ppp" THEN {"released late"} ELSE {})
    /\ UNCHANGED <<workerVars, event, cmds, events>>

-----------------------------------------------------------------------------
(* Events: channels of CMUX, the network and the peer of PPP.               *)

Event == events < MaxEvents /\ events' = events + 1 /\ pppPc # "fault"

DlciOpens(d) ==
    /\ Event /\ h.uart_pipe /\ d \notin h.open
    /\ h' = NotifyOpened([h EXCEPT !.open = @ \cup {d}], d)
    /\ UNCHANGED <<workerVars, ppp, pppThread, mishaps, cmds>>

DlciCloses(d) ==
    /\ Event /\ h.uart_pipe /\ d \in h.open
    /\ h' = NotifyClosed([h EXCEPT !.open = @ \ {d}], d)
    /\ UNCHANGED <<workerVars, ppp, pppThread, mishaps, cmds>>

(* MODEM_CMUX_EVENT_DISCONNECTED *)
CmuxDisconnected ==
    /\ Event /\ h.uart_pipe
    /\ stop_work' = TRUE
    /\ UNCHANGED <<h, closing, pdp, ppp, pppThread, mishaps, cmds>>

Delegate(q, a, r) ==
    /\ ppp' = delegate_ppp_event(q, a, r)
    /\ mishaps' = mishaps \cup Dropped(ppp)
    /\ UNCHANGED <<h, workerVars, pppThread, cmds>>

(* at_notif_on_cgev: the PDN of PPP is activated. *)
PdnActivated == Event /\ ppp.monitor /\ ppp.auto /\ Delegate(ppp, "START", "NETWORK")

(* ppp_data_passing_thread: the modem's socket reports an error. *)
ConnectionDown ==
    /\ Event /\ pppPc = "idle" /\ ppp.state = "RUNNING"
    /\ Delegate([ppp EXCEPT !.state = "STOPPING"], "STOP", "NETWORK")

(* ... or polling fails. *)
PollFails ==
    /\ Event /\ pppPc = "idle" /\ ppp.state = "RUNNING"
    /\ Delegate([ppp EXCEPT !.state = "STARTING"], "RESTART", "ERROR")

(* ppp_net_mgmt_event_handler *)
PeerConnected ==
    /\ Event /\ ppp.state = "RUNNING" /\ ~ppp.peer
    /\ ppp' = [ppp EXCEPT !.peer = TRUE]
    /\ UNCHANGED <<h, workerVars, pppThread, mishaps, cmds>>

PeerDisconnected ==
    /\ Event /\ ppp.peer
    /\ IF ppp.state = "RUNNING"
       THEN Delegate([ppp EXCEPT !.peer = FALSE], "STOP", "PEER")
       ELSE /\ ppp' = [ppp EXCEPT !.peer = FALSE]
            /\ UNCHANGED <<h, workerVars, pppThread, mishaps, cmds>>

-----------------------------------------------------------------------------
(* sm_at_host_init and sm_cmux_init: one context on the open UART pipe. *)
Init ==
    /\ h = [inst |-> <<Ctxs[1]>>,
            pipe |-> [c \in Range(Ctxs) |-> IF c = Ctxs[1] THEN Uart ELSE NULL],
            cb   |-> [p \in Pipes |-> IF p = Uart THEN "at" ELSE "null"],
            user |-> [p \in Pipes |-> IF p = Uart THEN Ctxs[1] ELSE NULL],
            open |-> {Uart}, msgs |-> <<>>, lock |-> {}, uart_pipe |-> FALSE,
            at_channel |-> 1, urc_channel |-> 0, purged |-> FALSE]
    /\ closing = NoMsg /\ stop_work = FALSE /\ pdp = FALSE
    /\ ppp = [state |-> "STOPPED", pipe |-> NULL, mod |-> NULL, keep |-> FALSE,
              detach |-> FALSE, auto |-> FALSE, monitor |-> FALSE, peer |-> FALSE,
              queue |-> <<>>]
    /\ pppPc = "idle" /\ event = [action |-> "STOP", reason |-> "CMD"]
    /\ mishaps = {} /\ cmds = 0 /\ events = 0

Commands == \E p \in Pipes :
    \/ handle_at_cmux(p) \/ handle_at_xcmuxcld(p)
    \/ \E ch \in 1..2 : handle_at_xcmux(p, ch)
    \/ \E ch \in 0..Len(Dlcis) : handle_at_xcmuxurc(p, ch)
    \/ PppStartCommand(p) \/ PppStopCommand(p) \/ handle_at_cgdata(p)
Messages == HostMessage \/ HostClosed
Pdp == ActivatePdpFails \/ ActivatePdp
PppThread == \/ PppTake \/ PppStart \/ PppStartFails \/ PppRunning
             \/ PppStop \/ PppStopped
Events == \/ \E d \in Range(Dlcis) : DlciOpens(d) \/ DlciCloses(d)
          \/ CmuxDisconnected \/ PdnActivated \/ ConnectionDown \/ PollFails
          \/ PeerConnected \/ PeerDisconnected

Next == Commands \/ Messages \/ stop_work_fn \/ Pdp \/ PppThread \/ Events

Spec == Init /\ [][Next]_vars

(* The work items of sm_work_q and the PPP thread are scheduled, and a PDP  *)
(* activation ends (PDN_ACTIVATION_TIMEOUT).                                *)
FairSpec == /\ Spec
            /\ WF_vars(Messages) /\ WF_vars(stop_work_fn) /\ WF_vars(Pdp)
            /\ WF_vars(PppThread)

-----------------------------------------------------------------------------
(* Properties.                                                              *)

(* The queues hold what they may, and instance_list has at least one        *)
(* context and each only once: sm_at_host_get_urc_ctx and stop_work_fn rely *)
(* on a first context.                                                      *)
TypeOK ==
    /\ h.inst \in Seq(Range(Ctxs)) /\ h.inst # <<>> /\ IsInjective(h.inst)
    /\ \A c \in Range(h.inst) : h.pipe[c] \in Pipes \cup {NULL, Deadbeef}
    /\ \A p \in Pipes : /\ h.cb[p] \in {"none", "null", "at", "cmux", "ppp"}
                        /\ h.user[p] \in Range(Ctxs) \cup {NULL}
    /\ Len(h.msgs) <= MsgqLen /\ Len(ppp.queue) <= QueueLen
    /\ ppp.pipe \in Pipes \cup {NULL} /\ ppp.mod \in Pipes \cup {NULL}

(* A pipe whose callback is the AT host's names a context of instance_list, *)
(* or the message that takes the callback off it is still queued: no pipe   *)
(* is left for good with a context that was destroyed.  Not so once the     *)
(* queue was purged, or a context without pipe was used again for another   *)
(* pipe before its close was handled ("callback left").                     *)
HandlersLive ==
    \A p \in Pipes : h.cb[p] = "at" =>
        \/ sm_at_ctx_check(h, h.user[p])
        \/ \E m \in Range(h.msgs) : m.ev = "closed" /\ m.pipe = p
        \/ h.purged \/ "callback left" \in mishaps

(* Closed, or the multiplexer's, or PPP's. *)
InUse(p) == p \notin h.open \/ (p = Uart /\ h.uart_pipe) \/ p \in {ppp.pipe, ppp.mod}

(* Whatever opens, closes and reopens channels, starts and stops CMUX and   *)
(* PPP, in whatever order the queued events are handled: an open pipe that  *)
(* neither CMUX nor PPP uses gets the AT host again.  The exceptions are    *)
(* the mishaps, the cases in which the code gives up or loses track.        *)
ChannelServed ==
    [](mishaps = {} /\ ~h.purged /\ pppPc # "fault") =>
        \A p \in Pipes : []<>(Attached(p) \/ InUse(p))

(* "Once CMUX is closed down, the serial link returns to AT command mode"   *)
(* (doc/app/at_cmux.rst): after stop_work_fn the UART's context executes    *)
(* commands, unless CMUX is started again or PPP takes the UART.  Not so    *)
(* when AT+CGDATA waits for the network: sm_ppp_detach forgets ppp_pipe, so *)
(* nobody ends the command, and the context moves to the UART with its      *)
(* executing_lock held.                                                     *)
LinkReturns ==
    (stop_work /\ h.uart_pipe) ~>
        (~stop_work /\ (Served(Uart) \/ h.uart_pipe \/ Uart \in {ppp.pipe, ppp.mod}))
=============================================================================
