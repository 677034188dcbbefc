------------------------------ MODULE Services ------------------------------
(***************************************************************************)
(* The sockets and the HTTP client at work: the AT commands of one channel *)
(* and the work items of sm_work_q, which run one at a time, the modem's   *)
(* interrupts, which may come in the middle of the poll handler, data      *)
(* mode, and the peers.                                                    *)
(***************************************************************************)
EXTENDS Httpc

CONSTANTS MaxCmds,   \* commands of the host
          MaxWire,   \* units and closures from the peers, by what the host uses
          MaxOpen    \* sockets that AT#XSOCKET opens at a time

ASSUME ServicesAssumption ==
    /\ MaxCmds \in Nat /\ MaxOpen \in Nat
    /\ MaxWire \in [{"sockets", "http"} -> Nat]

VARIABLES s,       \* see Sockets
          work,    \* the poll handler: pc, what it looked at first, the sockets
                   \* it still has to see (todo), the revents of the one it is at
          cmds, wire

vars == <<s, work, cmds, wire>>

-----------------------------------------------------------------------------
(* sm_at_socket_poll_work_handler.                                          *)

Idle == work.pc = "idle"
NoWork == [pc |-> "idle", at |-> FALSE, data |-> FALSE, todo |-> {}, rev |-> {}]

NextSocket(w) ==
    LET left == w.todo \ {Lowest(w.todo)}
    IN  IF left = {} THEN NoWork ELSE [w EXCEPT !.pc = "sock", !.todo = left, !.rev = {}]

(* Events of a time when the channel was not idle are polled for again. *)
Redo(t, f, rev) ==
    [update_poll_events([t EXCEPT !.socks[f].disable = FALSE], f,
                        t.socks[f].delayed \cup rev, TRUE) EXCEPT !.socks[f].delayed = {}]

(* #XAPOLL, and the HTTP client.  A rearmed POLLIN is not taken off below. *)
Announce(t, f, rev, n) ==
    LET x == rev \cap t.socks[f].xapoll
        t1 == [t EXCEPT !.socks[f].xapoll = @ \ x,
                        !.socks[f].told = IF t.http[f].on THEN @ ELSE @ \cup x]
    IN  IF x = {} THEN t ELSE sm_at_httpc_poll_event(t1, f, x, n)
Restore(t, f, again) ==
    IF again THEN [t EXCEPT !.socks[f].xapoll = @ \cup {"IN"},
                            !.socks[f].events = @ \cup {"IN"}]
    ELSE t

(* Outside AT mode the events are kept for later. *)
Delay(t, f, rev) == queue_idle_work([t EXCEPT !.socks[f].delayed = @ \cup rev], "idle")

(* The first half of the handler for the first socket of w, in state t0. *)
Look(t0, w, n) ==
    LET f == Lowest(w.todo)
        rev == t0.socks[f].revents
        t == [t0 EXCEPT !.socks[f].revents = {}]
        t1 == IF w.at THEN t ELSE Delay(t, f, rev)
        skip == ~w.at /\ (~w.data \/ f # t0.ctx.datamode_sock)
        redo == w.at /\ t0.socks[f].delayed # {}
        t2 == IF w.data THEN t1 ELSE Announce(t1, f, rev, n)
        again == ~w.data /\ rev \cap t0.socks[f].xapoll # {} /\ t2.http[f].rearm /\ "IN" \in rev
    IN  /\ \/ /\ skip
              /\ s' = t1 /\ work' = NextSocket(w)
           \/ /\ redo
              /\ s' = Redo(t, f, rev) /\ work' = NextSocket(w)
           \/ /\ ~skip /\ ~redo
              /\ s' = Restore(t2, f, again)
              /\ work' = [w EXCEPT !.pc = "rearm", !.rev = IF again THEN rev \ {"IN"} ELSE rev]
        /\ UNCHANGED <<cmds, wire>>

(* at_and_idle and data_mode are looked at once, for all sockets. *)
StartPoll(t, n) ==
    LET todo == Fds \ Free(t)
    IN  IF todo = {} THEN s' = t /\ UNCHANGED <<work, cmds, wire>>
        ELSE Look(t, [NoWork EXCEPT !.at = t.ctx.mode = "at", !.data = t.ctx.mode = "data",
                                    !.todo = todo], n)

PollWork(n) ==
    /\ Idle /\ "poll" \in s.ctx.queue
    /\ StartPoll([s EXCEPT !.ctx.queue = @ \ {"poll"}], n)

(* sm_at_socket_poll_idle_handler *)
PollIdle(n) ==
    /\ Idle /\ "idle" \in s.ctx.queue
    /\ LET t == [s EXCEPT !.ctx.queue = @ \ {"idle"}]
       IN  IF s.ctx.mode = "at" THEN StartPoll(t, n)
           ELSE s' = queue_idle_work(t, "idle") /\ UNCHANGED <<work, cmds, wire>>

PollSock(n) == work.pc = "sock" /\ Look(s, work, n)

(* exit_datamode_handler with socket_datamode_callback *)
ExitDataModeHandler(t) == [t EXCEPT !.ctx.mode = "null", !.ctx.datamode_sock = NULL]

(* What was reported is not polled for until the host, or automatic         *)
(* reception, has dealt with it; an error in data mode ends it.             *)
PollRearm ==
    /\ work.pc = "rearm"
    /\ LET f == Lowest(work.todo)
           rev == work.rev
           t == [s EXCEPT !.socks[f].events = @ \ (rev \cap {"IN", "OUT"}),
                          !.socks[f].disable = @ \/ rev \cap Permanent # {}]
           auto == /\ "IN" \in rev
                   /\ (IF work.data THEN "DATA" ELSE "AT") \in s.socks[f].adr
           t1 == update_poll_events(IF auto THEN auto_reception(t, f) ELSE t, f, {}, FALSE)
       IN  s' = IF work.data /\ rev \cap Permanent # {} THEN ExitDataModeHandler(t1) ELSE t1
    /\ work' = NextSocket(work)
    /\ UNCHANGED <<cmds, wire>>

(* Work that waits for an idle channel (idle_work of the AT host). *)
IdleSubmit ==
    /\ Idle /\ s.ctx.mode = "at" /\ s.ctx.idle # {}
    /\ s' = [s EXCEPT !.ctx.idle = {}, !.ctx.queue = @ \cup s.ctx.idle]
    /\ UNCHANGED <<work, cmds, wire>>

SendWork ==
    /\ Idle /\ "send" \in s.ctx.queue
    /\ s' = send_cb_fn([s EXCEPT !.ctx.queue = @ \ {"send"}])
    /\ UNCHANGED <<work, cmds, wire>>

TimeoutWork ==
    /\ Idle /\ s.timer
    /\ s' = http_timeout_work_fn(s)
    /\ UNCHANGED <<work, cmds, wire>>

(* Interrupts. *)
PollCb == \E f \in Fds : /\ find_socket(s, f) /\ Fires(s.net[f])
                         /\ s' = poll_cb(s, f)
                         /\ UNCHANGED <<work, cmds, wire>>
SendCb == \E f \in Fds : /\ find_socket(s, f) /\ s.net[f].ack
                         /\ s' = send_cb(s, f)
                         /\ UNCHANGED <<work, cmds, wire>>

-----------------------------------------------------------------------------
(* The host.                                                                *)

(* A command, on a channel in AT mode.  Those that set up a socket are not  *)
(* counted.                                                                 *)
Accepts == Idle /\ s.ctx.mode = "at"
Cmd == /\ Accepts /\ cmds < MaxCmds
       /\ cmds' = cmds + 1
       /\ UNCHANGED <<work, wire>>
On(f) == Cmd /\ find_socket(s, f)
Setup == Accepts /\ UNCHANGED <<work, cmds, wire>>
SetUp(f) == Setup /\ find_socket(s, f)
(* A host that uses plain sockets, and one that uses HTTP: it gives other   *)
(* commands only in the course of a request.                                *)
Plain(f) == s.use = "sockets" /\ On(f)
Http(f) == s.use = "http" /\ On(f)
Either(f) == On(f) /\ (s.use = "http" => find_request(s, f))

CanOpen == Setup /\ Free(s) # {} /\ Cardinality(Fds \ Free(s)) < MaxOpen
handle_at_socket ==
    /\ CanOpen /\ s.use = "sockets"
    /\ \E type \in {"stream", "dgram"} : s' = do_socket_open(s, Lowest(Free(s)), type)
handle_at_secure_socket ==
    CanOpen /\ s.use = "http" /\ s' = do_secure_socket_open(s, Lowest(Free(s)))

(* Mutant: the HTTP client is not told. *)
SocketCloseMutant(t, f) ==
    [t EXCEPT !.socks[f] = init_socket, !.net[f] = NewNet("down"), !.spoiled = @ \ {f}]

do_socket_close(t, f) ==
    [sm_at_httpc_socket_closed(t, f) EXCEPT !.socks[f] = init_socket, !.net[f] = NewNet("down"),
                                            !.spoiled = @ \ {f}]
handle_at_close == \E f \in Fds : Either(f) /\ s' = do_socket_close(s, f)
(* Without a handle: of a host of plain sockets, which has no requests. *)
CloseAll == /\ s.use = "sockets" /\ Cmd /\ Free(s) # Fds
            /\ s' = OnOpen(s, do_socket_close)

(* A host that binds a socket listens on it. *)
handle_at_bind == \E f \in Fds : /\ SetUp(f) /\ s.socks[f].type = "stream" /\ ~s.socks[f].port
                                 /\ ~s.socks[f].connected
                                 /\ s' = bind_to_local_addr(s, f)
handle_at_connect == \E f \in Fds : /\ SetUp(f) /\ ~s.socks[f].connected /\ ~s.socks[f].port
                                    /\ s' = do_connect(s, f)
handle_at_listen == \E f \in Fds : /\ SetUp(f) /\ CanListen(s, f) /\ s.net[f].link = "down"
                                   /\ s' = do_listen(s, f)
handle_at_accept == \E f \in Fds : /\ Plain(f) /\ s.socks[f].listen
                                   /\ s' = do_accept(s, f)

(* Of a string, or in data mode; AT#XSENDTO and AT#XRECVFROM are for        *)
(* datagrams.                                                               *)
SetAck(ack, f) == [s EXCEPT !.socks[f].ack = ack]
handle_at_send ==
    \E f \in Fds, ack \in BOOLEAN :
        /\ Plain(f)
        /\ s' = do_send(SetAck(ack, f), f) \/ s' = EnterDataMode(SetAck(ack, f), f)
handle_at_sendto ==
    \E f \in Fds, ack \in BOOLEAN :
        /\ Plain(f) /\ s.socks[f].type = "dgram"
        /\ \/ \E resolved \in BOOLEAN : s' = do_sendto(SetAck(ack, f), f, resolved)
           \/ s' = EnterDataMode(SetAck(ack, f), f)
handle_at_recv ==
    \E f \in Fds : Plain(f) /\ ~s.socks[f].listen /\ s' = do_recv(s, f, 1)
handle_at_recvfrom ==
    \E f \in Fds : Plain(f) /\ s.socks[f].type = "dgram" /\ s' = do_recvfrom(s, f)

PollSets == {{}, {"IN"} \cup Permanent, {"OUT"} \cup Permanent}
handle_at_xapoll ==
    \E ev \in PollSets :
        \/ \E f \in Fds : /\ Either(f)
                          /\ s' = IF ev = {} THEN xapoll_stop(s, f)
                                  ELSE set_xapoll_events(s, f, ev)
        \/ s.use = "sockets" /\ Cmd /\ s' = XapollAll(s, ev)
handle_at_recvcfg ==
    \E flags \in {{}, {"AT"}, {"DATA"}} :
        \/ \E f \in Fds : /\ Either(f) /\ (s.use = "http" => flags = {"AT"})
                          /\ s' = recvcfg(s, f, flags)
        \/ s.use = "sockets" /\ Cmd /\ s' = RecvcfgAll(s, flags)

(* The host asks nothing of a connection on which a response is under way   *)
(* that it no longer waits for.  A response is pulled, or sent to it.       *)
HttpRequest ==
    \E f \in Fds, method \in {"get", "pull", "head", "post", "bad"} :
        /\ Http(f) /\ ~find_request(s, f) /\ s.net[f].srv = "quiet" /\ s.net[f].in = <<>>
        /\ s' = handle_at_httpcreq(s, f, method, method = "pull")
handle_at_httpcdata ==
    \E f \in Fds, max \in {1, RecvBuf} :
        /\ Http(f) /\ find_request(s, f) /\ s.http[f].manual /\ s.http[f].headers_complete
        /\ s' = pull_data(s, f, max)
handle_at_httpccancel ==
    \E f \in Fds : Http(f) /\ find_request(s, f) /\ s' = Cancel(s, f)

(* A part of a command comes in, and is completed to nothing that matters   *)
(* here: the channel is not idle in between.                                *)
TypingStarts == \E f \in Fds : Either(f) /\ s' = [s EXCEPT !.ctx.mode = "typing"]
TypingEnds == /\ Idle /\ s.ctx.mode = "typing"
              /\ s' = [s EXCEPT !.ctx.mode = "at"]
              /\ UNCHANGED <<work, cmds, wire>>

(* Data in data mode: socket_datamode_callback.  A send that fails ends it, *)
(* and so does a name that is not resolved, or a datagram that is too long. *)
socket_datamode_callback(f) ==
    \/ s' = IF CanSend(s, f) THEN do_send(s, f) ELSE ExitDataModeHandler(do_send(s, f))
    \/ s.socks[f].type = "dgram" /\ s' = ExitDataModeHandler(s)
(* http_datamode_callback *)
http_datamode_callback(f) ==
    s' = IF CanSend(s, f) THEN [s EXCEPT !.http[f].idle = FALSE] ELSE BodySendFails(s)
DataModeSend ==
    /\ Idle /\ s.ctx.mode = "data" /\ cmds < MaxCmds
    /\ cmds' = cmds + 1
    /\ IF s.ctx.datamode_sock # NULL THEN socket_datamode_callback(s.ctx.datamode_sock)
                                     ELSE http_datamode_callback(s.datamode_req)
    /\ UNCHANGED <<work, wire>>

(* exit_datamode: the terminator, or the end of the length announced. *)
DataModeExit ==
    /\ Idle /\ s.ctx.mode \in {"data", "null"}
    /\ LET t == [s EXCEPT !.ctx.mode = "at", !.ctx.datamode_sock = NULL]
       IN  s' = IF s.datamode_req # NULL THEN BodySent(t) ELSE t
    /\ UNCHANGED <<work, cmds, wire>>

-----------------------------------------------------------------------------
(* The peers.                                                               *)

(* An HTTP server is done when the host is. *)
Wire == /\ wire < MaxWire[s.use]
        /\ s.use # "http" \/ cmds < MaxCmds \/ \E f \in Fds : find_request(s, f)
        /\ wire' = wire + 1 /\ UNCHANGED <<work, cmds>>
Arrives(f, u) == s' = [s EXCEPT !.net[f].in = Append(@, u)]

(* Data of a peer that is no HTTP server, or a connection. *)
PeerSends ==
    \E f \in Fds :
        /\ s.use = "sockets" /\ Wire /\ find_socket(s, f)
        /\ \/ s.net[f].link = "up" /\ Arrives(f, 1)
           \/ s.socks[f].type = "dgram" /\ s.net[f].link = "up" /\ Arrives(f, Empty)
           \/ s.socks[f].listen /\ Arrives(f, Conn)

(* The headers of a response, in one or more parts. *)
ServerHeaders ==
    \E f \in Fds :
        /\ Wire /\ s.net[f].srv = "asked" /\ s.net[f].link = "up"
        /\ \/ Arrives(f, Part)
           \/ \E k \in 1..Len(Responses) :
                LET r == Responses[k]
                    none == s.net[f].head \/ r.nobody \/ r.cl = 0
                IN  s' = [s EXCEPT !.net[f].in = Append(@, End(k)), !.net[f].head = FALSE,
                                   !.net[f].cl = IF none THEN -1 ELSE r.cl,
                                   !.net[f].srv = IF none THEN "quiet" ELSE "body"]

(* Its body: of the announced length, or in chunks. *)
ServerBody ==
    \E f \in Fds :
        /\ Wire /\ s.net[f].srv = "body" /\ s.net[f].link = "up"
        /\ LET n == s.net[f]
               next == Len(n.sent) + 1
               chunk == IF n.sent # <<>> /\ n.sent[Len(n.sent)] = Eof1 THEN {Eof2} ELSE {Eof1, next}
           IN  \E u \in IF n.cl > 0 THEN {next} ELSE chunk :
                 s' = [s EXCEPT !.net[f].in = Append(@, u), !.net[f].sent = Append(@, u),
                                !.net[f].srv = IF u = Eof2 \/ next = n.cl THEN "quiet" ELSE @]

(* Of HTTP, a reset comes early: what follows is the same later.  *)
PeerLeaves ==
    \E f \in Fds, how \in {"fin", "rst"} :
        /\ s.use = "http" /\ how = "rst" => wire < 2
        /\ Wire /\ find_socket(s, f) /\ s.socks[f].type # "dgram" /\ s.net[f].link = "up"
        /\ s' = [s EXCEPT !.net[f].link = how, !.net[f].srv = "quiet", !.net[f].head = FALSE,
                          !.net[f].cl = -1, !.net[f].sent = <<>>]

Drain == \E f \in Fds : /\ s.net[f].full
                        /\ s' = [s EXCEPT !.net[f].full = FALSE]
                        /\ UNCHANGED <<work, cmds, wire>>

-----------------------------------------------------------------------------
Init ==
    /\ \E use \in DOMAIN MaxWire :
         s = [socks |-> [f \in Fds |-> init_socket], net |-> [f \in Fds |-> NewNet("down")],
            ctx |-> [mode |-> "at", queue |-> {}, idle |-> {}, datamode_sock |-> NULL,
                     adr |-> {}, requested |-> {}],
            http |-> [f \in Fds |-> NoReq], datamode_req |-> NULL, timer |-> FALSE,
            use |-> use, owed |-> 0, spoiled |-> {}, untrue |-> FALSE]
    /\ work = NoWork /\ cmds = 0 /\ wire = 0

(* What the modem takes of the headers of a request.                        *)
SendSizes == 1..HeaderUnits
Poll == (\E n \in SendSizes : PollWork(n) \/ PollIdle(n) \/ PollSock(n)) \/ PollRearm
Commands == \/ handle_at_socket \/ handle_at_secure_socket \/ handle_at_close
            \/ CloseAll \/ handle_at_bind
            \/ handle_at_connect \/ handle_at_listen \/ handle_at_accept \/ handle_at_send
            \/ handle_at_sendto \/ handle_at_recv \/ handle_at_recvfrom
            \/ handle_at_xapoll \/ handle_at_recvcfg
            \/ HttpRequest \/ handle_at_httpcdata \/ handle_at_httpccancel \/ TypingStarts
DataModeHost == DataModeSend \/ DataModeExit
Peers == PeerSends \/ ServerHeaders \/ ServerBody \/ PeerLeaves

Next == \/ Poll \/ IdleSubmit \/ SendWork \/ TimeoutWork \/ PollCb \/ SendCb
        \/ Commands \/ TypingEnds \/ DataModeHost \/ Peers \/ Drain

Spec == Init /\ [][Next]_vars

(* Interrupts come, sm_work_q runs its items, and the idle timer of a       *)
(* channel runs out; in which order is not assumed.  The host, the peers    *)
(* and the network owe nothing.  Due is ENABLED <<System>>_vars, so the     *)
(* last conjunct is WF_vars(System).                                        *)
System == Poll \/ IdleSubmit \/ SendWork \/ TimeoutWork \/ PollCb \/ SendCb \/ TypingEnds
Due == \/ work.pc # "idle" \/ s.ctx.queue # {} \/ s.ctx.mode = "typing"
       \/ s.ctx.mode = "at" /\ s.ctx.idle # {}
       \/ s.timer /\ \A f \in Fds : s.http[f].state # "SENDING_BODY"
       \/ \E f \in Fds : find_socket(s, f) /\ (Fires(s.net[f]) \/ s.net[f].ack)
FairSpec == Spec /\ ([]<>~Due \/ []<><<System>>_vars)

-----------------------------------------------------------------------------
(* Properties.                                                              *)

(* Sets of events hold events, data mode has one owner, who is there, and a *)
(* request that streams its body is in data mode: datamode_req never points *)
(* to a request that was freed.                                             *)
TypeOK ==
    /\ \A f \in Fds :
          LET k == s.socks[f]
          IN  /\ k.events \cup k.revents \cup k.delayed \subseteq Events
              /\ k.xapoll \subseteq Events /\ k.requested \subseteq Events
              /\ Len(s.http[f].buf) <= RecvBuf
              /\ s.http[f].on => find_socket(s, f)
              /\ (s.http[f].state = "SENDING_BODY") <=> (s.datamode_req = f)
    /\ s.ctx.mode \in {"at", "typing", "data", "null"}
    /\ (s.ctx.mode = "data") <=> (s.datamode_req # NULL \/ s.ctx.datamode_sock # NULL)
    /\ s.ctx.datamode_sock # NULL => find_socket(s, s.ctx.datamode_sock)

(* Every request that AT#XHTTPCREQ accepted is active or has ended with one *)
(* #XHTTPCSTAT; and one with the status of the server means that the host   *)
(* has the body, whole and in order, and its length: however the pieces of  *)
(* the response came, and whichever of poll event, pull, timeout, cancel    *)
(* and close came first.  Not so if the connection is at its end, or its    *)
(* data was read by other means or no longer fits its buffer.               *)
RequestsSettled ==
    /\ s.owed = Cardinality({f \in Fds : s.http[f].on})
    /\ ~s.untrue

(* Data on a socket that receives automatically, and an event of AT#XAPOLL  *)
(* that the host has not been told of since it last acted on it.            *)
Waiting(f) ==
    LET k == s.socks[f]
        n == s.net[f]
    IN  /\ find_socket(s, f) /\ ~s.http[f].on /\ ~k.disable
        /\ \/ /\ n.in # <<>> /\ n.link \in {"up", "down"} /\ ~k.dull
              /\ \/ s.ctx.mode = "at" /\ "AT" \in k.adr /\ ~k.listen
                 \/ s.ctx.mode = "at" /\ "IN" \in k.requested \ k.told
                 \/ s.ctx.datamode_sock = f /\ "DATA" \in k.adr /\ ~k.listen
           \/ s.ctx.mode = "at" /\ "OUT" \in Ready(n) \cap (k.requested \ k.told)

(* No event is forgotten: whatever was reported while the channel was busy  *)
(* or in data mode, was taken off the poll set, restored by a send or a     *)
(* receive, or asked for in between, data is received and events are        *)
(* announced.  Not so after POLLERR and POLLHUP, which stop polling, nor    *)
(* after a receive that had nothing to return ("dull").                     *)
DataAnnounced == \A f \in Fds : []<>~Waiting(f)

(* Every request ends, if by its timeout, except in the middle of an upload *)
(* that the host does not end: the scan of the timer never stops while a    *)
(* request is active.                                                       *)
RequestEnds == \A f \in Fds : []<>(~s.http[f].on \/ s.http[f].state = "SENDING_BODY")
=============================================================================
