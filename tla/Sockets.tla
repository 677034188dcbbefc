------------------------------ MODULE Sockets -------------------------------
(***************************************************************************)
(* The sockets of the AT commands (app/src/sm_at_socket.c) on one AT       *)
(* channel: how a socket polls for events, reports them (#XAPOLL), receives *)
(* automatically (AT#XRECVCFG), and what its commands do.                   *)
(*                                                                         *)
(* Every operator is a function of the state record s:                     *)
(*   s.socks[f]  struct sm_socket of the handle f                          *)
(*   s.net[f]    the modem's socket f and its peer (external)              *)
(*   s.ctx       the channel: its mode, its async_poll_ctx, and the work   *)
(*               items that wait (on sm_work_q, or for idle)               *)
(*   s.http, s.datamode_req, s.timer   the HTTP client (module Httpc)      *)
(* POLLNVAL is treated as POLLERR is, and is not told apart from it.  A     *)
(* handle is the lowest one that is free, as the modem gives them out.      *)
(***************************************************************************)
EXTENDS Integers, Sequences, FiniteSets

CONSTANTS Fds,      \* handles
          RecvBuf   \* capacity of a receive buffer, in units

ASSUME SocketsAssumption ==
    Fds \subseteq Nat \ {0} /\ IsFiniteSet(Fds) /\ RecvBuf \in Nat \ {0}

NULL == 0
Permanent == {"ERR", "HUP"}
Events == {"IN", "OUT"} \cup Permanent

(* Units on the wire: data is a positive number.  An empty datagram, a      *)
(* connection that waits at a listening socket; of an HTTP response, a part *)
(* of the headers, the two halves of the last chunk, and the end of the     *)
(* headers, by the kind of response: its Content-Length (-1 without), and   *)
(* whether its status excludes a body.                                      *)
Empty == 0
Conn == -1
Part == -2
Eof1 == -3
Eof2 == -4
Responses == <<[cl |-> -1, nobody |-> FALSE], [cl |-> 0, nobody |-> FALSE],
               [cl |-> 2, nobody |-> FALSE], [cl |-> -1, nobody |-> TRUE]>>
End(k) == -10 - k
IsEnd(u) == u < -10

-----------------------------------------------------------------------------
(* The modem's socket.                                                      *)

(* cb: the events of the poll callback, while one is registered (reg).      *)
(* link: "down" before connect, then "up", "fin" (the peer has closed) or   *)
(* "rst".  full: the send buffer; ack: a send whose notification is due.    *)
(* srv, head, cl, sent: an HTTP server at the other end, where it is with   *)
(* its response and the body it has sent of it.                             *)
NewNet(link) == [reg |-> FALSE, cb |-> {}, in |-> <<>>, link |-> link, full |-> FALSE,
                 ack |-> FALSE, srv |-> "quiet", head |-> FALSE, cl |-> -1, sent |-> <<>>]

(* What a poll of the socket reports. *)
Ready(n) ==
    (IF n.in # <<>> \/ n.link = "fin" THEN {"IN"} ELSE {})
      \cup (IF n.link = "up" /\ ~n.full THEN {"OUT"} ELSE {})
      \cup (IF n.link = "fin" THEN {"HUP"} ELSE {})
      \cup (IF n.link = "rst" THEN {"ERR"} ELSE {})

(* The modem reports permanent events whether or not they are asked for. *)
Fires(n) == n.reg /\ Ready(n) \cap (n.cb \cup Permanent) # {}

-----------------------------------------------------------------------------
(* The socket table.                                                        *)

(* ack: send_flags has SM_MSG_SEND_ACK; send_cb: send_cb_set.               *)
(* told: events the host was told of and has not acted on; dull: POLLIN was *)
(* left off because a recv had nothing to return (both history).            *)
init_socket == [type |-> "none", port |-> FALSE, connected |-> FALSE, listen |-> FALSE,
                ack |-> FALSE, send_cb |-> FALSE, ntf |-> FALSE, events |-> {}, revents |-> {},
                delayed |-> {}, xapoll |-> {}, requested |-> {}, adr |-> {},
                disable |-> FALSE, told |-> {}, dull |-> FALSE]

find_socket(s, f) == s.socks[f].type # "none"
Free(s) == {f \in Fds : ~find_socket(s, f)}
Lowest(F) == CHOOSE f \in F : \A g \in F : f <= g

(* What Op does to each socket, for all of them: no socket concerns another. *)
OnAll(s, Op(_, _)) ==
    [s EXCEPT !.socks = [f \in Fds |-> Op(s, f).socks[f]],
              !.net = [f \in Fds |-> Op(s, f).net[f]],
              !.http = [f \in Fds |-> Op(s, f).http[f]]]
OnOpen(s, Op(_, _)) == OnAll(s, LAMBDA t, f : IF find_socket(t, f) THEN Op(t, f) ELSE t)

(* poll_cb, in an interrupt: the callback is used up. *)
poll_cb(s, f) ==
    [s EXCEPT !.net[f].reg = FALSE, !.net[f].cb = {},
              !.socks[f].revents = @ \cup (Ready(s.net[f]) \cap (s.net[f].cb \cup Permanent)),
              !.ctx.queue = @ \cup {"poll"}]

(* Mutant: a callback that is registered is not replaced. *)
SetPollCbMutant(s, f, ev) ==
    IF s.net[f].reg THEN s ELSE [s EXCEPT !.net[f].reg = TRUE, !.net[f].cb = ev]

set_so_poll_cb(s, f, ev) == [s EXCEPT !.net[f].reg = TRUE, !.net[f].cb = ev]

update_poll_events(s, f, ev, xa) ==
    IF s.socks[f].disable THEN s
    ELSE LET k == s.socks[f]
             k1 == [k EXCEPT !.events = @ \cup ev,
                             !.dull = @ /\ "IN" \notin ev,
                             !.xapoll = IF xa THEN @ \cup (k.requested \cap ev) ELSE @]
         IN  set_so_poll_cb([s EXCEPT !.socks[f] = k1], f, k1.events)

queue_idle_work(s, w) == [s EXCEPT !.ctx.idle = @ \cup ({w} \ s.ctx.queue)]

-----------------------------------------------------------------------------
(* Sending and receiving.                                                   *)

(* zsock_send to a connection that is gone fails; one that blocks for       *)
(* longer than SOCKET_SEND_TMO_SEC too.                                     *)
CanSend(s, f) == s.net[f].link \in {"up", "fin"} /\ ~s.net[f].full

set_so_send_cb(s, f) == [s EXCEPT !.socks[f].send_cb = TRUE]
clear_so_send_cb(s, f) == [s EXCEPT !.socks[f].send_cb = FALSE, !.net[f].ack = FALSE]

(* zsock_send, whose notification is due if the callback is set. *)
Sent(s, f) ==
    [s EXCEPT !.net[f].ack = @ \/ (s.socks[f].send_cb /\ CanSend(s, f)),
              !.socks[f].told = IF s.socks[f].ack THEN @ ELSE @ \ {"OUT"}]

(* With SM_MSG_SEND_ACK POLLOUT waits for the notification of the network;  *)
(* else it is polled for again, whether or not the send succeeds.           *)
do_send(s, f) ==
    IF s.socks[f].ack THEN Sent(set_so_send_cb(s, f), f)
    ELSE update_poll_events(Sent(clear_so_send_cb(s, f), f), f, {"OUT"}, TRUE)

(* The same, once the name of the peer is resolved. *)
do_sendto(s, f, resolved) == IF resolved THEN do_send(s, f) ELSE s

(* Consumes the first k units. *)
Consume(s, f, k) == [s EXCEPT !.net[f].in = SubSeq(@, k + 1, Len(@))]
(* A datagram at a time; of a stream, what is there and fits. *)
Available(s, f, max) ==
    LET n == s.net[f]
    IN  IF s.socks[f].type = "dgram" THEN (IF n.in = <<>> THEN 0 ELSE 1)
        ELSE IF Len(n.in) < max THEN Len(n.in) ELSE max

(* History: units that an active HTTP request was to have. *)
Stolen(s, f) == {f} \cap {g \in Fds : s.http[g].on}

Dull(s, f) == [s EXCEPT !.socks[f].dull = "IN" \notin s.socks[f].events]

(* k units are received: POLLIN is polled for again, unless there were none *)
(* (an error, or the peer has closed) or it is an empty datagram.           *)
Received(s, f, k) ==
    LET t == Consume(s, f, k)
    IN  IF k = 0 \/ s.net[f].in[1] = Empty THEN Dull(t, f)
        ELSE update_poll_events([t EXCEPT !.socks[f].told = @ \ {"IN"},
                                          !.spoiled = @ \cup Stolen(s, f)],
                                f, {"IN"}, TRUE)

do_recv(s, f, max) == Received(s, f, Available(s, f, max))
(* One datagram, of a socket that is not connected. *)
do_recvfrom(s, f) == Received(s, f, Available(s, f, 1))

auto_reception(s, f) ==
    CASE s.socks[f].listen -> s
      [] ~s.socks[f].listen /\ s.socks[f].connected -> do_recv(s, f, RecvBuf)
      [] OTHER -> do_recvfrom(s, f)

(* send_cb, in an interrupt: a notification that finds one pending is       *)
(* dropped.                                                                 *)
send_cb(s, f) ==
    IF s.socks[f].ntf THEN [s EXCEPT !.net[f].ack = FALSE]
    ELSE queue_idle_work([s EXCEPT !.socks[f].ntf = TRUE, !.net[f].ack = FALSE], "send")

SendNotified(s, f) ==
    update_poll_events([s EXCEPT !.socks[f].ntf = FALSE, !.socks[f].told = @ \ {"OUT"}],
                       f, {"OUT"}, TRUE)
send_cb_fn(s) ==
    OnOpen(s, LAMBDA t, f : IF t.socks[f].ntf THEN SendNotified(t, f) ELSE t)

-----------------------------------------------------------------------------
(* Commands.                                                                *)

(* What a new socket takes over from the channel: AT#XAPOLL and AT#XRECVCFG *)
(* for all sockets.                                                         *)
Opened(s, f, k, link) ==
    update_poll_events(
        [s EXCEPT !.socks[f] = [k EXCEPT !.adr = s.ctx.adr, !.requested = s.ctx.requested],
                  !.net[f] = NewNet(link)],
        f, Events, TRUE)

(* An error leaves the socket free. *)
do_socket_open(s, f, type) ==
    Opened(s, f, [init_socket EXCEPT !.type = type], IF type = "dgram" THEN "up" ELSE "down")

(* A TLS socket; it polls and transfers as others do, but cannot listen. *)
do_secure_socket_open(s, f) == Opened(s, f, [init_socket EXCEPT !.type = "tls"], "down")

bind_to_local_addr(s, f) == [s EXCEPT !.socks[f].port = TRUE]

do_connect(s, f) == [s EXCEPT !.socks[f].connected = TRUE, !.net[f].link = "up"]

CanListen(s, f) == s.socks[f].type = "stream" /\ s.socks[f].port
do_listen(s, f) == [s EXCEPT !.socks[f].listen = TRUE]

(* do_accept.  Without a free handle the connection is closed at once, and  *)
(* POLLIN of the listening socket is not restored.                          *)
do_accept(s, f) ==
    LET t == Consume(s, f, 1)
        g == Lowest(Free(s))
    IN  CASE s.net[f].in = <<>> -> Dull(s, f)
          [] s.net[f].in # <<>> /\ Free(s) = {} -> Dull(t, f)
          [] OTHER -> update_poll_events(
                [Opened(t, g, [init_socket EXCEPT !.type = "stream", !.connected = TRUE], "up")
                    EXCEPT !.socks[f].told = @ \ {"IN"}],
                f, {"IN"}, TRUE)

(* xapoll_stop and set_xapoll_events for one socket ... *)
xapoll_stop(s, f) == [s EXCEPT !.socks[f].requested = {}]
set_xapoll_events(s, f, ev) ==
    update_poll_events([s EXCEPT !.socks[f].requested = ev,
                                 !.socks[f].told = @ \ ev], f, ev, TRUE)

(* ... and, with AT#XAPOLL without a handle, for all of them and for those  *)
(* opened later.                                                            *)
XapollAll(s, ev) ==
    OnOpen([s EXCEPT !.ctx.requested = ev],
           LAMBDA t, f : IF ev = {} THEN xapoll_stop(t, f) ELSE set_xapoll_events(t, f, ev))

recvcfg(s, f, flags) == update_poll_events([s EXCEPT !.socks[f].adr = flags], f, {"IN"}, FALSE)
RecvcfgAll(s, flags) ==
    OnOpen([s EXCEPT !.ctx.adr = flags], LAMBDA t, f : recvcfg(t, f, flags))

(* The end of AT#XSEND and AT#XSENDTO in data mode. *)
EnterDataMode(s, f) ==
    LET t == [s EXCEPT !.ctx.mode = "data", !.ctx.datamode_sock = f]
    IN  IF "DATA" \in s.socks[f].adr THEN update_poll_events(t, f, {"IN"}, FALSE) ELSE t
=============================================================================
