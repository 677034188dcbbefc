--------------------------- MODULE ServicesProofs ---------------------------
(***************************************************************************)
(* Type correctness of Services, and that every HTTP request is settled,   *)
(* and settled truthfully.                                                  *)
(***************************************************************************)
EXTENDS Services, FiniteSetTheorems, WellFoundedInduction, TLAPS

(* What comes on a wire. *)
Units == {u \in Int : u >= End(4)}

(* The states, as far as the proofs tell them apart. *)
Sock == [type : {"none", "stream", "dgram", "tls"}, port : BOOLEAN, connected : BOOLEAN,
         listen : BOOLEAN, ack : BOOLEAN, send_cb : BOOLEAN, ntf : BOOLEAN,
         events : SUBSET Events, revents : SUBSET Events, delayed : SUBSET Events,
         xapoll : SUBSET Events, requested : SUBSET Events, adr : SUBSET {"AT", "DATA"},
         disable : BOOLEAN, told : SUBSET Events, dull : BOOLEAN]
Net == [reg : BOOLEAN, cb : SUBSET Events, in : Seq(Units),
        link : {"down", "up", "fin", "rst"}, full : BOOLEAN, ack : BOOLEAN,
        srv : {"quiet", "asked", "body"}, head : BOOLEAN, cl : Int, sent : Seq(Units)]
Chan == [mode : {"at", "typing", "data", "null"}, queue : SUBSET {"poll", "idle", "send"},
         idle : SUBSET {"poll", "idle", "send"}, datamode_sock : Fds \cup {NULL},
         adr : SUBSET {"AT", "DATA"}, requested : SUBSET Events]
Req == [on : BOOLEAN,
        state : {"IDLE", "SENDING_REQUEST", "SENDING_BODY", "RECEIVING_HEADERS",
                 "RECEIVING_BODY"},
        head : BOOLEAN, manual : BOOLEAN, left : Int, buf : Seq(Units), cl : Int,
        headers_complete : BOOLEAN, rearm : BOOLEAN, total : Int, given : Seq(Units),
        idle : BOOLEAN]
State == [socks : [Fds -> Sock], net : [Fds -> Net], ctx : Chan, http : [Fds -> Req],
          datamode_req : Fds \cup {NULL}, timer : BOOLEAN, use : {"sockets", "http"},
          owed : Int, spoiled : SUBSET Fds, untrue : BOOLEAN]

(* The server of n and a response of Content-Length cl: what it has sent of  *)
(* the body, and whether that is all of it.                                 *)
BodyOK(n, cl) ==
    /\ n.srv \in {"body", "quiet"}
    /\ n.srv = "body" => n.cl = cl
    /\ cl = 0 => n.srv = "quiet" /\ n.sent = <<>>
    /\ cl > 0 => Len(n.sent) <= cl /\ (Len(n.sent) = cl => n.srv = "quiet")
    /\ \A i \in 1..Len(n.sent) :
          /\ n.sent[i] >= Eof2 /\ n.sent[i] # Empty
          /\ n.sent[i] = Eof2 => i = Len(n.sent) /\ n.srv = "quiet"

(* Of a response w, the first p units are its headers, of the kind j. *)
HeadersOK(n, r, w, p, j) ==
    /\ \A i \in 1..p - 1 : w[i] = Part
    /\ w[p] = End(j) /\ Len(w) = p + Len(n.sent)
    /\ \A i \in 1..Len(n.sent) : w[p + i] = n.sent[i]
    /\ BodyOK(n, Responses[j].cl)
    /\ r.head \/ Responses[j].nobody => n.srv = "quiet" /\ n.sent = <<>>

(* A response w that has begun, or not. *)
Beginning(n, r, w) ==
    IF n.srv = "asked" THEN /\ \A i \in 1..Len(w) : w[i] = Part
                            /\ n.sent = <<>> /\ n.head = r.head
    ELSE \E p \in 1..Len(w), j \in 1..4 : HeadersOK(n, r, w, p, j)

(* Where the units of the response are: sent, on the wire, in recv_buf, with *)
(* the host.                                                                *)
Response(n, r) ==
    CASE r.state = "SENDING_REQUEST" ->
            n.srv = "quiet" /\ n.in = <<>> /\ n.sent = <<>> /\ r.buf = <<>> /\ r.given = <<>>
      [] r.state \in {"SENDING_BODY", "RECEIVING_HEADERS"} ->
            r.given = <<>> /\ Beginning(n, r, r.buf \o n.in)
      [] r.state = "RECEIVING_BODY" ->
            /\ r.given \o (r.buf \o n.in) = n.sent
            /\ r.total = Len(r.given) + Len(r.buf) /\ BodyOK(n, r.cl)
      [] OTHER -> FALSE

(* A request: its buffer, and while it is not there what it was. *)
ReqOK(r) ==
    /\ ~r.on => r = NoReq
    /\ r.headers_complete => r.state = "RECEIVING_BODY"
    /\ r.state = "SENDING_BODY" => r.buf = <<>>
    /\ Len(r.buf) <= RecvBuf

SockOK(t, f) ==
    /\ t.http[f].on => t.use = "http" /\ t.socks[f].type # "none"
    /\ t.use = "http" => /\ t.socks[f].type \in {"none", "tls"}
                         /\ ~t.socks[f].connected => t.net[f].link = "down"
                         /\ "HUP" \in t.socks[f].revents => t.net[f].link = "fin"
    /\ t.http[f].state = "SENDING_BODY" <=> t.datamode_req = f
    /\ ReqOK(t.http[f])
    /\ (t.http[f].on /\ f \notin t.spoiled /\ t.net[f].link \in {"down", "up"})
          => Response(t.net[f], t.http[f])

Active(t) == {f \in Fds : t.http[f].on}
ChanOK(t) ==
    /\ t.ctx.mode = "data" <=> (t.datamode_req # NULL \/ t.ctx.datamode_sock # NULL)
    /\ t.use = "http" => t.ctx.datamode_sock = NULL
    /\ t.ctx.datamode_sock # NULL => find_socket(t, t.ctx.datamode_sock)

StateOK(t) == /\ t \in State /\ ChanOK(t) /\ \A f \in Fds : SockOK(t, f)
              /\ t.owed = Cardinality(Active(t)) /\ ~t.untrue

(* The poll handler: what it looked at first is still so where it matters. *)
Work == [pc : {"idle", "sock", "rearm"}, at : BOOLEAN, data : BOOLEAN, todo : SUBSET Fds,
         rev : SUBSET Events]
WorkOK(t, w) ==
    /\ w \in Work /\ ~(w.at /\ w.data)
    /\ w.pc # "idle" => w.todo # {} /\ (t.ctx.mode = "data" => w.data)
    /\ w.pc = "rearm" /\ w.data => t.ctx.datamode_sock = Lowest(w.todo)

IInv == StateOK(s) /\ WorkOK(s, work)

-----------------------------------------------------------------------------
(* What polling leaves alone.                                               *)

SameSock(k, l) == l.type = k.type /\ l.connected = k.connected /\ l.revents \subseteq k.revents
SameNet(m, n) == /\ n.in = m.in /\ n.link = m.link /\ n.srv = m.srv /\ n.head = m.head
                 /\ n.cl = m.cl /\ n.sent = m.sent
SameChan(c, d) == d.mode = c.mode /\ d.datamode_sock = c.datamode_sock
Same(a, b) ==
    /\ b \in State /\ b.http = a.http /\ b.datamode_req = a.datamode_req /\ b.use = a.use
    /\ b.owed = a.owed /\ b.untrue = a.untrue /\ b.spoiled = a.spoiled
    /\ SameChan(a.ctx, b.ctx)
    /\ \A g \in Fds : SameSock(a.socks[g], b.socks[g]) /\ SameNet(a.net[g], b.net[g])

LEMMA PutSame ==
    ASSUME NEW a \in State, NEW f \in Fds, NEW k \in Sock, NEW n \in Net,
           SameSock(a.socks[f], k), SameNet(a.net[f], n),
           NEW b, b = [a EXCEPT !.socks[f] = k, !.net[f] = n]
    PROVE  Same(a, b)
<1>1. b \in State
  BY ZenonT(30) DEF State
<1>2. /\ b.http = a.http /\ b.datamode_req = a.datamode_req /\ b.use = a.use
      /\ b.owed = a.owed /\ b.untrue = a.untrue /\ b.spoiled = a.spoiled /\ b.ctx = a.ctx
      /\ b.socks = [a.socks EXCEPT ![f] = k] /\ b.net = [a.net EXCEPT ![f] = n]
  BY DEF State
<1>3. a.socks \in [Fds -> Sock] /\ a.net \in [Fds -> Net]
  BY DEF State
<1>4. \A g \in Fds : SameSock(a.socks[g], b.socks[g]) /\ SameNet(a.net[g], b.net[g])
  BY <1>2, <1>3 DEF SameSock, SameNet
<1> QED BY <1>1, <1>2, <1>4 DEF Same, SameChan

LEMMA UpdateSame ==
    ASSUME NEW a \in State, NEW f \in Fds, NEW ev \in SUBSET Events, NEW xa \in BOOLEAN
    PROVE  Same(a, update_poll_events(a, f, ev, xa))
<1> DEFINE k == a.socks[f]
           n == a.net[f]
           k1 == [k EXCEPT !.events = @ \cup ev, !.dull = @ /\ "IN" \notin ev,
                           !.xapoll = IF xa THEN @ \cup (k.requested \cap ev) ELSE @]
           n1 == [n EXCEPT !.reg = TRUE, !.cb = k1.events]
           b == [a EXCEPT !.socks[f] = k1, !.net[f] = n1]
<1>1. k \in Sock /\ n \in Net
  BY DEF State
<1>2. k1 \in Sock /\ SameSock(k, k1) /\ k1.events \in SUBSET Events
  <2>1. k.events \cup ev \in SUBSET Events /\ (k.dull /\ "IN" \notin ev) \in BOOLEAN
        /\ (IF xa THEN k.xapoll \cup (k.requested \cap ev) ELSE k.xapoll) \in SUBSET Events
    BY <1>1 DEF Sock
  <2>2. k1 \in Sock BY <1>1, <2>1, ZenonT(30) DEF Sock
  <2>3. k1.type = k.type /\ k1.connected = k.connected /\ k1.revents = k.revents
    BY <1>1 DEF Sock
  <2> QED BY <2>2, <2>3 DEF SameSock, Sock
<1>3. n1 \in Net /\ SameNet(n, n1)
  BY <1>1, <1>2 DEF Net, SameNet
<1>4. CASE k.disable
  BY <1>1, <1>4, PutSame DEF update_poll_events, Same, SameSock, SameNet, SameChan
<1>5. CASE ~k.disable
  <2>1. update_poll_events(a, f, ev, xa) =
          [[a EXCEPT !.socks[f] = k1] EXCEPT !.net[f].reg = TRUE, !.net[f].cb = k1.events]
    BY <1>5 DEF update_poll_events, set_so_poll_cb
  <2>2. [[a EXCEPT !.socks[f] = k1] EXCEPT !.net[f].reg = TRUE, !.net[f].cb = k1.events] = b
    <3> HIDE DEF k1
    <3> QED BY <1>1 DEF State, Net
  <2> HIDE DEF k1, n1
  <2>3. Same(a, b)
    BY <1>2, <1>3, PutSame, Zenon
  <2> QED BY <2>1, <2>2, <2>3
<1> QED BY <1>4, <1>5

LEMMA SameTrans ==
    ASSUME NEW a, NEW b, NEW c, Same(a, b), Same(b, c)
    PROVE  Same(a, c)
BY DEF Same, SameSock, SameNet, SameChan

LEMMA PutSock ==
    ASSUME NEW a \in State, NEW f \in Fds, NEW k \in Sock, SameSock(a.socks[f], k)
    PROVE  Same(a, [a EXCEPT !.socks[f] = k])
<1> DEFINE n == a.net[f]
<1>1. n \in Net /\ SameNet(n, n) BY DEF State, SameNet
<1>2. [a EXCEPT !.socks[f] = k] = [a EXCEPT !.socks[f] = k, !.net[f] = n]
  BY DEF State
<1> HIDE DEF n
<1>3. SameNet(a.net[f], n) BY <1>1 DEF n
<1>4. Same(a, [a EXCEPT !.socks[f] = k, !.net[f] = n])
  BY <1>1, <1>3, PutSame, Zenon
<1> QED BY <1>2, <1>4

LEMMA PutNet ==
    ASSUME NEW a \in State, NEW f \in Fds, NEW n \in Net, SameNet(a.net[f], n)
    PROVE  Same(a, [a EXCEPT !.net[f] = n])
<1> DEFINE k == a.socks[f]
<1>1. k \in Sock /\ SameSock(k, k) BY DEF State, SameSock
<1>2. [a EXCEPT !.net[f] = n] = [a EXCEPT !.socks[f] = k, !.net[f] = n]
  BY DEF State
<1> QED BY <1>1, <1>2, PutSame, Zenon

LEMMA PutChan ==
    ASSUME NEW a \in State, NEW c \in Chan, SameChan(a.ctx, c), NEW tm \in BOOLEAN
    PROVE  Same(a, [a EXCEPT !.ctx = c]) /\ Same(a, [a EXCEPT !.timer = tm])
BY DEF Same, SameSock, SameNet, SameChan, State

(* Fields of a socket that only polling uses. *)
Polls(k, l) == l \in Sock /\ SameSock(k, l)
LEMMA PollFields ==
    ASSUME NEW k \in Sock, NEW ev \in SUBSET Events, NEW x \in SUBSET Events,
           NEW fl \in SUBSET {"AT", "DATA"}, NEW b \in BOOLEAN
    PROVE  /\ Polls(k, [k EXCEPT !.requested = ev])
           /\ Polls(k, [k EXCEPT !.requested = ev, !.told = x])
           /\ Polls(k, [k EXCEPT !.adr = fl])
           /\ Polls(k, [k EXCEPT !.told = x])
           /\ Polls(k, [k EXCEPT !.send_cb = b])
           /\ Polls(k, [k EXCEPT !.ntf = b])
           /\ Polls(k, [k EXCEPT !.ntf = b, !.told = x])
           /\ Polls(k, [k EXCEPT !.disable = b])
           /\ Polls(k, [k EXCEPT !.delayed = x])
           /\ Polls(k, [k EXCEPT !.xapoll = x, !.events = ev])
           /\ Polls(k, [k EXCEPT !.revents = {}])
           /\ Polls(k, [k EXCEPT !.xapoll = x, !.told = ev])
           /\ Polls(k, [k EXCEPT !.events = x, !.disable = b])
           /\ Polls(k, [k EXCEPT !.port = b])
           /\ Polls(k, [k EXCEPT !.listen = b])
           /\ Polls(k, [k EXCEPT !.ack = b])
           /\ Polls(k, [k EXCEPT !.dull = b])
<1> {} \in SUBSET Events /\ k.revents \in SUBSET Events BY DEF Sock
<1>1. /\ [k EXCEPT !.requested = ev] \in Sock
      /\ [k EXCEPT !.requested = ev, !.told = x] \in Sock
      /\ [k EXCEPT !.adr = fl] \in Sock
      /\ [k EXCEPT !.told = x] \in Sock
  BY ZenonT(30) DEF Sock
<1>2. /\ [k EXCEPT !.send_cb = b] \in Sock
      /\ [k EXCEPT !.ntf = b] \in Sock
      /\ [k EXCEPT !.ntf = b, !.told = x] \in Sock
      /\ [k EXCEPT !.disable = b] \in Sock
      /\ [k EXCEPT !.delayed = x] \in Sock
  BY ZenonT(30) DEF Sock
<1>3. /\ [k EXCEPT !.xapoll = x, !.events = ev] \in Sock
      /\ [k EXCEPT !.revents = {}] \in Sock
      /\ [k EXCEPT !.xapoll = x, !.told = ev] \in Sock
      /\ [k EXCEPT !.events = x, !.disable = b] \in Sock
  BY ZenonT(30) DEF Sock
<1>4. /\ [k EXCEPT !.port = b] \in Sock
      /\ [k EXCEPT !.listen = b] \in Sock
      /\ [k EXCEPT !.ack = b] \in Sock
      /\ [k EXCEPT !.dull = b] \in Sock
  BY ZenonT(30) DEF Sock
<1>5. /\ SameSock(k, [k EXCEPT !.requested = ev])
      /\ SameSock(k, [k EXCEPT !.requested = ev, !.told = x])
      /\ SameSock(k, [k EXCEPT !.adr = fl])
      /\ SameSock(k, [k EXCEPT !.told = x])
      /\ SameSock(k, [k EXCEPT !.send_cb = b])
      /\ SameSock(k, [k EXCEPT !.ntf = b])
      /\ SameSock(k, [k EXCEPT !.ntf = b, !.told = x])
      /\ SameSock(k, [k EXCEPT !.disable = b])
      /\ SameSock(k, [k EXCEPT !.delayed = x])
  BY DEF Sock, SameSock
<1>6. /\ SameSock(k, [k EXCEPT !.xapoll = x, !.events = ev])
      /\ SameSock(k, [k EXCEPT !.revents = {}])
      /\ SameSock(k, [k EXCEPT !.xapoll = x, !.told = ev])
      /\ SameSock(k, [k EXCEPT !.events = x, !.disable = b])
      /\ SameSock(k, [k EXCEPT !.port = b])
      /\ SameSock(k, [k EXCEPT !.listen = b])
      /\ SameSock(k, [k EXCEPT !.ack = b])
      /\ SameSock(k, [k EXCEPT !.dull = b])
  BY DEF Sock, SameSock
<1> QED BY <1>1, <1>2, <1>3, <1>4, <1>5, <1>6, Zenon DEF Polls

LEMMA NetFields ==
    ASSUME NEW n \in Net, NEW b \in BOOLEAN
    PROVE  /\ [n EXCEPT !.ack = b] \in Net /\ SameNet(n, [n EXCEPT !.ack = b])
           /\ [n EXCEPT !.full = b] \in Net /\ SameNet(n, [n EXCEPT !.full = b])
BY DEF Net, SameNet

LEMMA StateParts ==
    ASSUME NEW a \in State, NEW f \in Fds
    PROVE  /\ a.socks[f] \in Sock /\ a.net[f] \in Net /\ a.http[f] \in Req /\ a.ctx \in Chan
           /\ a.socks[f].events \in SUBSET Events /\ a.socks[f].revents \in SUBSET Events
           /\ a.socks[f].delayed \in SUBSET Events /\ a.socks[f].xapoll \in SUBSET Events
           /\ a.socks[f].requested \in SUBSET Events /\ a.socks[f].told \in SUBSET Events
           /\ Same(a, a)
BY DEF State, Sock, Same, SameSock, SameNet, SameChan

LEMMA StopSame ==
    ASSUME NEW a \in State, NEW f \in Fds
    PROVE  Same(a, xapoll_stop(a, f))
<1> DEFINE k == [a.socks[f] EXCEPT !.requested = {}]
<1>1. Polls(a.socks[f], k)
  BY StateParts, PollFields, {} \in SUBSET Events, Zenon
<1>2. xapoll_stop(a, f) = [a EXCEPT !.socks[f] = k]
  BY DEF xapoll_stop
<1> HIDE DEF k
<1> QED BY <1>1, <1>2, PutSock DEF Polls

LEMMA SetSame ==
    ASSUME NEW a \in State, NEW f \in Fds, NEW ev \in SUBSET Events
    PROVE  Same(a, set_xapoll_events(a, f, ev))
<1> DEFINE x == a.socks[f].told \ ev
           k == [a.socks[f] EXCEPT !.requested = ev, !.told = x]
           b == [a EXCEPT !.socks[f] = k]
<1>1. set_xapoll_events(a, f, ev) = update_poll_events(b, f, ev, TRUE)
  BY DEF set_xapoll_events
<1>2. x \in SUBSET Events BY StateParts
<1> HIDE DEF x
<1>3. Polls(a.socks[f], k)
  BY <1>2, StateParts, PollFields, Zenon
<1> HIDE DEF k
<1>4. Same(a, b) BY <1>3, PutSock DEF Polls
<1> HIDE DEF b
<1>5. Same(b, update_poll_events(b, f, ev, TRUE)) BY <1>4, UpdateSame DEF Same
<1> QED BY <1>1, <1>4, <1>5, SameTrans

LEMMA RecvcfgSame ==
    ASSUME NEW a \in State, NEW f \in Fds, NEW fl \in SUBSET {"AT", "DATA"}
    PROVE  Same(a, recvcfg(a, f, fl))
<1> DEFINE k == [a.socks[f] EXCEPT !.adr = fl]
           b == [a EXCEPT !.socks[f] = k]
<1>1. recvcfg(a, f, fl) = update_poll_events(b, f, {"IN"}, FALSE)
  BY DEF recvcfg
<1>2. Polls(a.socks[f], k)
  BY StateParts, PollFields, Zenon
<1> HIDE DEF k
<1>3. Same(a, b) BY <1>2, PutSock DEF Polls
<1> HIDE DEF b
<1>4. Same(b, update_poll_events(b, f, {"IN"}, FALSE))
  BY <1>3, UpdateSame, {"IN"} \in SUBSET Events DEF Same, Events
<1> QED BY <1>1, <1>3, <1>4, SameTrans

LEMMA QueueSame ==
    ASSUME NEW a \in State, NEW w \in {"poll", "idle", "send"}
    PROVE  Same(a, queue_idle_work(a, w))
<1> DEFINE c == [a.ctx EXCEPT !.idle = @ \cup ({w} \ a.ctx.queue)]
<1>1. c \in Chan /\ SameChan(a.ctx, c)
  BY DEF State, Chan, SameChan
<1>2. queue_idle_work(a, w) = [a EXCEPT !.ctx = c] BY DEF queue_idle_work
<1> HIDE DEF c
<1> QED BY <1>1, <1>2, PutChan

(* do_send, with both kinds of acknowledgement. *)
LEMMA SendSame ==
    ASSUME NEW a \in State, NEW f \in Fds
    PROVE  Same(a, do_send(a, f))
<1>1. ASSUME NEW b \in State PROVE Same(b, Sent(b, f))
  <2> DEFINE x == IF b.socks[f].ack THEN b.socks[f].told ELSE b.socks[f].told \ {"OUT"}
             y == b.net[f].ack \/ (b.socks[f].send_cb /\ CanSend(b, f))
             k == [b.socks[f] EXCEPT !.told = x]
             n == [b.net[f] EXCEPT !.ack = y]
  <2>1. Sent(b, f) = [b EXCEPT !.net[f] = n, !.socks[f] = k] BY DEF Sent
  <2>2. x \in SUBSET Events /\ y \in BOOLEAN BY <1>1, StateParts
  <2> HIDE DEF x, y
  <2>3. Polls(b.socks[f], k) /\ n \in Net /\ SameNet(b.net[f], n)
    BY <1>1, <2>2, StateParts, PollFields, NetFields, Zenon
  <2> HIDE DEF k, n
  <2>4. [b EXCEPT !.net[f] = n, !.socks[f] = k] = [b EXCEPT !.socks[f] = k, !.net[f] = n]
    BY <1>1 DEF State
  <2>5. Same(b, [b EXCEPT !.socks[f] = k, !.net[f] = n])
    BY <1>1, <2>3, PutSame, Zenon DEF Polls
  <2> QED BY <2>1, <2>4, <2>5
<1>2. CASE a.socks[f].ack
  <2> DEFINE k == [a.socks[f] EXCEPT !.send_cb = TRUE]
             b == [a EXCEPT !.socks[f] = k]
  <2>1. do_send(a, f) = Sent(b, f) BY <1>2 DEF do_send, set_so_send_cb
  <2>2. Polls(a.socks[f], k) BY StateParts, PollFields, TRUE \in BOOLEAN, Zenon
  <2> HIDE DEF k
  <2>3. Same(a, b) BY <2>2, PutSock DEF Polls
  <2> HIDE DEF b
  <2> QED BY <1>1, <2>1, <2>3, SameTrans DEF Same
<1>3. CASE ~a.socks[f].ack
  <2> DEFINE k == [a.socks[f] EXCEPT !.send_cb = FALSE]
             n == [a.net[f] EXCEPT !.ack = FALSE]
             b == [a EXCEPT !.socks[f] = k, !.net[f] = n]
  <2>1. do_send(a, f) = update_poll_events(Sent(b, f), f, {"OUT"}, TRUE)
    BY <1>3 DEF do_send, clear_so_send_cb
  <2>2. Polls(a.socks[f], k) /\ n \in Net /\ SameNet(a.net[f], n)
    BY StateParts, PollFields, NetFields, FALSE \in BOOLEAN, Zenon
  <2> HIDE DEF k, n
  <2>3. Same(a, b) BY <2>2, PutSame, Zenon DEF Polls
  <2> HIDE DEF b
  <2>4. Same(b, Sent(b, f)) BY <1>1, <2>3 DEF Same
  <2>5. Same(Sent(b, f), update_poll_events(Sent(b, f), f, {"OUT"}, TRUE))
    BY <2>4, UpdateSame, {"OUT"} \in SUBSET Events DEF Same, Events
  <2>6. Same(a, Sent(b, f)) BY <2>3, <2>4, SameTrans
  <2> QED BY <2>1, <2>5, <2>6, SameTrans
<1> QED BY <1>2, <1>3

LEMMA SendCbSame ==
    ASSUME NEW a \in State, NEW f \in Fds
    PROVE  Same(a, send_cb(a, f))
<1> DEFINE k == [a.socks[f] EXCEPT !.ntf = TRUE]
           n == [a.net[f] EXCEPT !.ack = FALSE]
           b == [a EXCEPT !.socks[f] = k, !.net[f] = n]
           c == [a EXCEPT !.net[f] = n]
<1>1. send_cb(a, f) = c \/ send_cb(a, f) = queue_idle_work(b, "send")
  BY DEF send_cb
<1>2. Polls(a.socks[f], k) /\ n \in Net /\ SameNet(a.net[f], n)
  BY StateParts, PollFields, NetFields, TRUE \in BOOLEAN, FALSE \in BOOLEAN, Zenon
<1> HIDE DEF k, n
<1>3. Same(a, b) BY <1>2, PutSame, Zenon DEF Polls
<1>4. Same(a, c) BY <1>2, PutNet
<1> HIDE DEF b, c
<1>5. Same(b, queue_idle_work(b, "send")) BY <1>3, QueueSame DEF Same
<1> QED BY <1>1, <1>3, <1>4, <1>5, SameTrans

LEMMA NotifiedSame ==
    ASSUME NEW a \in State, NEW f \in Fds
    PROVE  Same(a, SendNotified(a, f))
<1> DEFINE x == a.socks[f].told \ {"OUT"}
           k == [a.socks[f] EXCEPT !.ntf = FALSE, !.told = x]
           b == [a EXCEPT !.socks[f] = k]
<1>1. SendNotified(a, f) = update_poll_events(b, f, {"OUT"}, TRUE)
  BY DEF SendNotified
<1>2. x \in SUBSET Events BY StateParts
<1> HIDE DEF x
<1>3. Polls(a.socks[f], k) BY <1>2, StateParts, PollFields, FALSE \in BOOLEAN, Zenon
<1> HIDE DEF k
<1>4. Same(a, b) BY <1>3, PutSock DEF Polls
<1> HIDE DEF b
<1>5. Same(b, update_poll_events(b, f, {"OUT"}, TRUE))
  BY <1>4, UpdateSame, {"OUT"} \in SUBSET Events DEF Same, Events
<1> QED BY <1>1, <1>4, <1>5, SameTrans

(* Many sockets at a time: OnAll, with what becomes of each in F. *)
Each(a, F) == [a EXCEPT !.socks = [f \in Fds |-> F[f].socks[f]],
                        !.net = [f \in Fds |-> F[f].net[f]],
                        !.http = [f \in Fds |-> F[f].http[f]]]
LEMMA EachSame ==
    ASSUME NEW a \in State, NEW F, \A f \in Fds : Same(a, F[f])
    PROVE  Same(a, Each(a, F))
<1> DEFINE ks == [f \in Fds |-> F[f].socks[f]]
           ns == [f \in Fds |-> F[f].net[f]]
           hs == [f \in Fds |-> F[f].http[f]]
           b == [a EXCEPT !.socks = ks, !.net = ns, !.http = hs]
<1>1. \A f \in Fds : /\ F[f].socks[f] \in Sock /\ SameSock(a.socks[f], F[f].socks[f])
                     /\ F[f].net[f] \in Net /\ SameNet(a.net[f], F[f].net[f])
                     /\ F[f].http = a.http
  BY StateParts DEF Same
<1>2. a.http \in [Fds -> Req] BY DEF State
<1>3. hs = a.http BY <1>1, <1>2
<1>4. ks \in [Fds -> Sock] /\ ns \in [Fds -> Net] BY <1>1
<1>5. \A f \in Fds : SameSock(a.socks[f], ks[f]) /\ SameNet(a.net[f], ns[f])
  BY <1>1
<1> HIDE DEF ks, ns, hs
<1>6. b \in State BY <1>2, <1>3, <1>4 DEF State
<1>7. /\ b.http = a.http /\ b.datamode_req = a.datamode_req /\ b.use = a.use
      /\ b.owed = a.owed /\ b.untrue = a.untrue /\ b.spoiled = a.spoiled /\ b.ctx = a.ctx
      /\ b.socks = ks /\ b.net = ns
  BY <1>3 DEF State
<1>8. Same(a, b) BY <1>5, <1>6, <1>7 DEF Same, SameChan
<1> QED BY <1>8 DEF ks, ns, hs, Each

LEMMA SendFnSame ==
    ASSUME NEW a \in State
    PROVE  Same(a, send_cb_fn(a))
<1> DEFINE Op(f) == IF find_socket(a, f)
                    THEN IF a.socks[f].ntf THEN SendNotified(a, f) ELSE a ELSE a
           F == [f \in Fds |-> Op(f)]
<1>1. \A f \in Fds : Same(a, Op(f)) BY NotifiedSame, StateParts
<1>2. send_cb_fn(a) = Each(a, F)
  BY DEF send_cb_fn, OnOpen, OnAll, Each
<1> HIDE DEF Op
<1>3. \A f \in Fds : Same(a, F[f]) BY <1>1
<1> HIDE DEF F
<1> QED BY <1>2, <1>3, EachSame

LEMMA XapollAllSame ==
    ASSUME NEW a \in State, NEW ev \in SUBSET Events
    PROVE  Same(a, XapollAll(a, ev))
<1> DEFINE c == [a.ctx EXCEPT !.requested = ev]
           b == [a EXCEPT !.ctx = c]
           Op(f) == IF find_socket(b, f)
                    THEN IF ev = {} THEN xapoll_stop(b, f) ELSE set_xapoll_events(b, f, ev)
                    ELSE b
           F == [f \in Fds |-> Op(f)]
<1>1. c \in Chan /\ SameChan(a.ctx, c) BY DEF State, Chan, SameChan
<1>2. XapollAll(a, ev) = Each(b, F) BY DEF XapollAll, OnOpen, OnAll, Each
<1> HIDE DEF c
<1>3. Same(a, b) BY <1>1, PutChan
<1> HIDE DEF b
<1>4. b \in State BY <1>3 DEF Same
<1>5. \A f \in Fds : Same(b, Op(f)) BY <1>4, StopSame, SetSame, StateParts
<1> HIDE DEF Op
<1>6. \A f \in Fds : Same(b, F[f]) BY <1>5
<1> HIDE DEF F
<1>7. Same(b, Each(b, F)) BY <1>4, <1>6, EachSame
<1> QED BY <1>2, <1>3, <1>7, SameTrans

LEMMA RecvcfgAllSame ==
    ASSUME NEW a \in State, NEW fl \in SUBSET {"AT", "DATA"}
    PROVE  Same(a, RecvcfgAll(a, fl))
<1> DEFINE c == [a.ctx EXCEPT !.adr = fl]
           b == [a EXCEPT !.ctx = c]
           Op(f) == IF find_socket(b, f) THEN recvcfg(b, f, fl) ELSE b
           F == [f \in Fds |-> Op(f)]
<1>1. c \in Chan /\ SameChan(a.ctx, c) BY DEF State, Chan, SameChan
<1>2. RecvcfgAll(a, fl) = Each(b, F) BY DEF RecvcfgAll, OnOpen, OnAll, Each
<1> HIDE DEF c
<1>3. Same(a, b) BY <1>1, PutChan
<1> HIDE DEF b
<1>4. b \in State BY <1>3 DEF Same
<1>5. \A f \in Fds : Same(b, Op(f)) BY <1>4, RecvcfgSame, StateParts
<1> HIDE DEF Op
<1>6. \A f \in Fds : Same(b, F[f]) BY <1>5
<1> HIDE DEF F
<1>7. Same(b, Each(b, F)) BY <1>4, <1>6, EachSame
<1> QED BY <1>2, <1>3, <1>7, SameTrans

SameSrv(m, n) == n.srv = m.srv /\ n.head = m.head /\ n.cl = m.cl /\ n.sent = m.sent
LEMMA BodySame ==
    ASSUME NEW m, NEW n, SameSrv(m, n), NEW cl, BodyOK(m, cl)
    PROVE  BodyOK(n, cl)
BY DEF BodyOK, SameSrv

SameHead(r, q) == q.head = r.head
LEMMA BeginningSame ==
    ASSUME NEW m, NEW n, NEW r, NEW q, SameHead(r, q), SameSrv(m, n),
           NEW w, Beginning(m, r, w)
    PROVE  Beginning(n, q, w)
<1>1. ASSUME NEW p, NEW j, HeadersOK(m, r, w, p, j) PROVE HeadersOK(n, q, w, p, j)
  <2>1. \A cl : BodyOK(m, cl) => BodyOK(n, cl) BY BodySame, Zenon
  <2> QED BY <1>1, <2>1, Zenon DEF HeadersOK, SameSrv, SameHead
<1> QED BY <1>1 DEF Beginning, SameSrv, SameHead

LEMMA ResponseSame ==
    ASSUME NEW m, NEW n, NEW r, SameNet(m, n), Response(m, r)
    PROVE  Response(n, r)
<1>1. n.in = m.in /\ n.srv = m.srv /\ n.sent = m.sent /\ n.head = m.head /\ n.cl = m.cl
  BY DEF SameNet
<1>2. /\ \A cl : BodyOK(m, cl) => BodyOK(n, cl)
      /\ \A w : Beginning(m, r, w) => Beginning(n, r, w)
  BY <1>1, BodySame, BeginningSame, Zenon DEF SameSrv, SameHead
<1> QED BY <1>1, <1>2 DEF Response

(* What stays the same keeps the invariant. *)
LEMMA SameKeeps ==
    ASSUME NEW a, NEW b, StateOK(a), Same(a, b)
    PROVE  StateOK(b)
<1>1. b \in State /\ a \in State BY DEF Same, StateOK
<1>2. ChanOK(b)
  <2>1. ChanOK(a) BY DEF StateOK
  <2>2. b.ctx.datamode_sock \in Fds \cup {NULL} BY <1>1 DEF State, Chan
  <2> QED BY <2>1, <2>2 DEF ChanOK, Same, SameChan, SameSock, find_socket
<1>3. ASSUME NEW f \in Fds PROVE SockOK(b, f)
  <2>1. SockOK(a, f) BY <1>3 DEF StateOK
  <2>2. /\ b.http[f] = a.http[f] /\ b.socks[f].type = a.socks[f].type
        /\ b.socks[f].connected = a.socks[f].connected
        /\ b.socks[f].revents \subseteq a.socks[f].revents /\ b.net[f].link = a.net[f].link
        /\ b.datamode_req = a.datamode_req /\ b.use = a.use /\ b.spoiled = a.spoiled
    BY <1>3 DEF Same, SameSock, SameNet
  <2>3. Response(a.net[f], a.http[f]) => Response(b.net[f], a.http[f])
    <3>1. SameNet(a.net[f], b.net[f]) BY <1>3 DEF Same
    <3> QED BY <3>1, ResponseSame
  <2> QED BY <2>1, <2>2, <2>3 DEF SockOK
<1>4. b.owed = Cardinality(Active(b)) /\ ~b.untrue
  BY DEF StateOK, Same, Active
<1> QED BY <1>1, <1>2, <1>3, <1>4 DEF StateOK

-----------------------------------------------------------------------------
(* One request at a time.                                                   *)

(* The invariant, without what it says of the response to the request f. *)
SockBut(t, f) ==
    /\ t.http[f].on => t.use = "http" /\ t.socks[f].type # "none"
    /\ t.use = "http" => /\ t.socks[f].type \in {"none", "tls"}
                         /\ ~t.socks[f].connected => t.net[f].link = "down"
                         /\ "HUP" \in t.socks[f].revents => t.net[f].link = "fin"
    /\ t.http[f].state = "SENDING_BODY" <=> t.datamode_req = f
StateBut(t, f) ==
    /\ t \in State /\ ChanOK(t) /\ SockBut(t, f)
    /\ \A g \in Fds \ {f} : SockOK(t, g)
    /\ t.owed = Cardinality(Active(t)) /\ ~t.untrue

LEMMA Weaken ==
    ASSUME NEW a, StateOK(a), NEW f \in Fds
    PROVE  /\ StateBut(a, f) /\ ReqOK(a.http[f])
           /\ (a.http[f].on /\ f \notin a.spoiled /\ a.net[f].link \in {"down", "up"})
                => Response(a.net[f], a.http[f])
BY Zenon DEF StateOK, StateBut, SockOK, SockBut

LEMMA Strengthen ==
    ASSUME NEW a, NEW f \in Fds, StateBut(a, f), ReqOK(a.http[f]),
           (a.http[f].on /\ f \notin a.spoiled /\ a.net[f].link \in {"down", "up"})
                => Response(a.net[f], a.http[f])
    PROVE  StateOK(a)
<1>1. SockOK(a, f) BY Zenon DEF StateBut, SockOK, SockBut
<1> QED BY <1>1, Zenon DEF StateOK, StateBut

LEMMA ButKeeps ==
    ASSUME NEW a, NEW b, NEW f \in Fds, StateBut(a, f), Same(a, b)
    PROVE  StateBut(b, f)
<1>1. b \in State /\ a \in State BY DEF Same, StateBut
<1>2. ChanOK(b)
  <2>1. ChanOK(a) BY DEF StateBut
  <2>2. b.ctx.datamode_sock \in Fds \cup {NULL} BY <1>1 DEF State, Chan
  <2> QED BY <2>1, <2>2 DEF ChanOK, Same, SameChan, SameSock, find_socket
<1>3. ASSUME NEW g \in Fds
      PROVE  /\ b.http[g] = a.http[g] /\ b.socks[g].type = a.socks[g].type
             /\ b.socks[g].connected = a.socks[g].connected
             /\ b.socks[g].revents \subseteq a.socks[g].revents
             /\ b.net[g].link = a.net[g].link
             /\ b.datamode_req = a.datamode_req /\ b.use = a.use /\ b.spoiled = a.spoiled
  BY <1>3 DEF Same, SameSock, SameNet
<1>4. ASSUME NEW g \in Fds \ {f} PROVE SockOK(b, g)
  <2>1. SockOK(a, g) BY <1>4 DEF StateBut
  <2>2. Response(a.net[g], a.http[g]) => Response(b.net[g], a.http[g])
    <3>1. SameNet(a.net[g], b.net[g]) BY <1>4 DEF Same
    <3> QED BY <3>1, ResponseSame
  <2> QED BY <1>3, <1>4, <2>1, <2>2 DEF SockOK
<1>5. SockBut(b, f)
  <2>1. SockBut(a, f) BY DEF StateBut
  <2> QED BY <1>3, <2>1 DEF SockBut
<1>6. b.owed = Cardinality(Active(b)) /\ ~b.untrue
  BY DEF StateBut, Same, Active
<1> QED BY <1>1, <1>2, <1>4, <1>5, <1>6 DEF StateBut

(* The request and its connection, as they change with each other. *)
Upd(a, f, n, r, sp) == [a EXCEPT !.net[f] = n, !.http[f] = r, !.spoiled = sp]
Follows(a, f, n, r) ==
    /\ n \in Net /\ r \in Req /\ r.on = a.http[f].on /\ n.link = a.net[f].link
    /\ r.state = "SENDING_BODY" <=> a.http[f].state = "SENDING_BODY"
Spoils(a, f, sp) == sp = a.spoiled \/ sp = a.spoiled \cup {f}
Becomes(b, f, n, r, sp) == b.net[f] = n /\ b.http[f] = r /\ b.spoiled = sp
LEMMA PutReq ==
    ASSUME NEW a, NEW f \in Fds, StateBut(a, f), NEW n, NEW r, Follows(a, f, n, r),
           NEW sp, Spoils(a, f, sp)
    PROVE  /\ StateBut(Upd(a, f, n, r, sp), f) /\ Becomes(Upd(a, f, n, r, sp), f, n, r, sp)
           /\ Upd(a, f, n, r, sp).ctx = a.ctx
<1> DEFINE b == Upd(a, f, n, r, sp)
<1> USE DEF Follows, Spoils
<1>1. a \in State /\ a.socks \in [Fds -> Sock] /\ a.net \in [Fds -> Net]
      /\ a.http \in [Fds -> Req] /\ a.spoiled \in SUBSET Fds
  BY DEF StateBut, State
<1>2. b \in State
  <2>1. sp \in SUBSET Fds BY <1>1
  <2> QED BY <1>1, <2>1 DEF State, Upd
<1>3. /\ b.net = [a.net EXCEPT ![f] = n] /\ b.http = [a.http EXCEPT ![f] = r]
      /\ b.spoiled = sp /\ b.ctx = a.ctx /\ b.socks = a.socks /\ b.use = a.use
      /\ b.datamode_req = a.datamode_req /\ b.owed = a.owed /\ b.untrue = a.untrue
  BY <1>1 DEF State, Upd
<1> HIDE DEF b
<1>4. b.net[f] = n /\ b.http[f] = r BY <1>1, <1>3
<1>5. ChanOK(b) BY <1>3 DEF StateBut, ChanOK, find_socket
<1>6. SockBut(b, f) BY <1>3, <1>4 DEF StateBut, SockBut
<1>7. ASSUME NEW g \in Fds \ {f} PROVE SockOK(b, g)
  <2>1. b.net[g] = a.net[g] /\ b.http[g] = a.http[g] /\ (g \in sp <=> g \in a.spoiled)
    BY <1>1, <1>3
  <2>2. SockOK(a, g) BY DEF StateBut
  <2> QED BY <1>3, <2>1, <2>2 DEF SockOK
<1>8. Active(b) = Active(a) BY <1>1, <1>3 DEF Active
<1> QED BY <1>2, <1>3, <1>4, <1>5, <1>6, <1>7, <1>8 DEF StateBut, Becomes, b

LEMMA NoReqType == NoReq \in Req /\ ReqOK(NoReq)
<1>1. <<>> \in Seq(Units) /\ Len(<<>>) = 0 /\ 0 <= RecvBuf BY SocketsAssumption
<1> QED BY <1>1 DEF NoReq, Req, ReqOK

(* The end of a request. *)
LEMMA EndKeeps ==
    ASSUME NEW a, NEW f \in Fds, StateBut(a, f), a.http[f].on, a.ctx.mode # "data",
           NEW ok \in BOOLEAN, ok => Truthful(a, f)
    PROVE  /\ StateOK(http_close_request(Stat(a, f, ok), f))
           /\ http_close_request(Stat(a, f, ok), f).ctx.mode = a.ctx.mode
<1> DEFINE u == a.untrue \/ (ok /\ ~Truthful(a, f))
           o == a.owed - 1
           a1 == Stat(a, f, ok)
           a2 == xapoll_stop(a1, f)
           b == http_close_request(a1, f)
<1>1. a \in State /\ a.http \in [Fds -> Req] /\ a.owed \in Int /\ ~a.untrue
  BY DEF StateBut, State
<1>2. u = FALSE BY <1>1
<1>3. a1 = [a EXCEPT !.owed = o, !.untrue = FALSE] BY <1>2 DEF Stat
<1> HIDE DEF u, a1
<1>4. o \in Int /\ o = a.owed - 1 BY <1>1
<1> HIDE DEF o
<1>5. a1 \in State BY <1>1, <1>3, <1>4 DEF State
<1>6. a1 \in State /\ a1.socks = a.socks /\ a1.net = a.net /\ a1.http = a.http
      /\ a1.ctx = a.ctx /\ a1.use = a.use /\ a1.datamode_req = a.datamode_req
      /\ a1.owed = a.owed - 1 /\ a1.spoiled = a.spoiled /\ a1.untrue = FALSE
  BY <1>1, <1>3, <1>4, <1>5 DEF State
<1>7. b = [a2 EXCEPT !.http[f] = NoReq, !.datamode_req = IF @ = f THEN NULL ELSE @]
  BY DEF http_close_request
<1>8. Same(a1, a2) BY <1>6, StopSame
<1> HIDE DEF a2
<1>9. a.datamode_req = NULL /\ NULL \notin Fds
  BY SocketsAssumption DEF StateBut, ChanOK, NULL
<1>10. a2 \in State /\ a2.datamode_req = NULL /\ a2.http = a.http BY <1>6, <1>8, <1>9 DEF Same
<1> DEFINE h == [a.http EXCEPT ![f] = NoReq]
<1>11. b = [a2 EXCEPT !.http = h, !.datamode_req = NULL]
  BY <1>1, <1>7, <1>9, <1>10 DEF State
<1>12. h \in [Fds -> Req] BY <1>1, NoReqType
<1> HIDE DEF h, b
<1>13. b \in State BY <1>10, <1>11, <1>12 DEF State
<1>14. /\ b \in State /\ b.socks = a2.socks /\ b.net = a2.net /\ b.ctx = a2.ctx
      /\ b.use = a2.use /\ b.owed = a2.owed /\ b.spoiled = a2.spoiled
      /\ b.untrue = a2.untrue /\ b.datamode_req = NULL
      /\ b.http = [a.http EXCEPT ![f] = NoReq]
  BY <1>10, <1>11, <1>13 DEF State, h
<1>15. /\ b.use = a.use /\ b.owed = a.owed - 1 /\ b.spoiled = a.spoiled /\ b.untrue = FALSE
       /\ SameChan(a.ctx, b.ctx)
       /\ \A g \in Fds : SameSock(a.socks[g], b.socks[g]) /\ SameNet(a.net[g], b.net[g])
  BY <1>6, <1>8, <1>14 DEF Same
<1>16. ChanOK(b)
  <2>1. b.ctx.datamode_sock \in Fds \cup {NULL} BY <1>14 DEF State, Chan
  <2> QED BY <1>9, <1>14, <1>15, <2>1 DEF StateBut, ChanOK, SameChan, SameSock, find_socket
<1>17. ASSUME NEW g \in Fds \ {f} PROVE SockOK(b, g)
  <2>1. SockOK(a, g) BY DEF StateBut
  <2>2. b.http[g] = a.http[g] BY <1>1, <1>14
  <2>3. Response(a.net[g], a.http[g]) => Response(b.net[g], a.http[g])
    BY <1>15, ResponseSame
  <2>4. /\ b.socks[g].type = a.socks[g].type /\ b.net[g].link = a.net[g].link
        /\ b.socks[g].connected = a.socks[g].connected
        /\ b.socks[g].revents \subseteq a.socks[g].revents
    BY <1>15 DEF SameSock, SameNet
  <2> QED BY <1>9, <1>14, <1>15, <2>1, <2>2, <2>3, <2>4 DEF SockOK
<1>18. SockOK(b, f)
  <2>1. b.http[f] = NoReq /\ NoReq.on = FALSE /\ NoReq.state # "SENDING_BODY"
    BY <1>1, <1>14 DEF NoReq
  <2>2. /\ b.socks[f].type = a.socks[f].type /\ b.net[f].link = a.net[f].link
        /\ b.socks[f].connected = a.socks[f].connected
        /\ b.socks[f].revents \subseteq a.socks[f].revents
    BY <1>15 DEF SameSock, SameNet
  <2>3. SockBut(a, f) BY DEF StateBut
  <2> QED BY <1>9, <1>14, <1>15, <2>1, <2>2, <2>3, NoReqType DEF SockOK, SockBut
<1>19. b.owed = Cardinality(Active(b))
  <2>1. Active(b) = Active(a) \ {f} BY <1>1, <1>14 DEF Active, NoReq
  <2>2. IsFiniteSet(Active(a)) /\ f \in Active(a)
    BY SocketsAssumption, FS_Subset DEF Active
  <2>3. Cardinality(Active(b)) = Cardinality(Active(a)) - 1
    BY <2>1, <2>2, FS_RemoveElement
  <2> QED BY <1>15, <2>3 DEF StateBut
<1>20. StateOK(b) BY <1>14, <1>15, <1>16, <1>17, <1>18, <1>19 DEF StateOK
<1>21. b.ctx.mode = a.ctx.mode BY <1>15 DEF SameChan
<1> QED BY <1>20, <1>21 DEF b, a1

-----------------------------------------------------------------------------
(* The units of a response on their way.                                    *)

LEMMA Cat ==
    ASSUME NEW x \in Seq(Units), NEW y \in Seq(Units)
    PROVE  /\ x \o y \in Seq(Units) /\ Len(x \o y) = Len(x) + Len(y)
           /\ x \o <<>> = x /\ <<>> \o x = x
           /\ \A i \in 1..Len(x) : (x \o y)[i] = x[i]
           /\ \A i \in 1..Len(y) : (x \o y)[Len(x) + i] = y[i]
<1>1. x \o y \in Seq(Units) /\ Len(x \o y) = Len(x) + Len(y) OBVIOUS
<1>2. x \o <<>> = x /\ <<>> \o x = x OBVIOUS
<1>3. \A i \in 1..Len(x) : (x \o y)[i] = x[i] OBVIOUS
<1>4. \A i \in 1..Len(y) : (x \o y)[Len(x) + i] = y[i] OBVIOUS
<1> QED BY <1>1, <1>2, <1>3, <1>4

LEMMA Assoc ==
    ASSUME NEW x \in Seq(Units), NEW y \in Seq(Units), NEW z \in Seq(Units)
    PROVE  (x \o y) \o z = x \o (y \o z)
OBVIOUS

LEMMA SeqEq ==
    ASSUME NEW x \in Seq(Units), NEW y \in Seq(Units), Len(x) = Len(y),
           \A i \in 1..Len(x) : x[i] = y[i]
    PROVE  x = y
OBVIOUS

LEMMA CutSeq ==
    ASSUME NEW x \in Seq(Units), NEW k \in 0..Len(x)
    PROVE  /\ SubSeq(x, 1, k) \in Seq(Units) /\ Len(SubSeq(x, 1, k)) = k
           /\ SubSeq(x, k + 1, Len(x)) \in Seq(Units)
           /\ Len(SubSeq(x, k + 1, Len(x))) = Len(x) - k
           /\ SubSeq(x, 1, k) \o SubSeq(x, k + 1, Len(x)) = x
           /\ k = Len(x) => SubSeq(x, 1, k) = x /\ SubSeq(x, k + 1, Len(x)) = <<>>
           /\ \A i \in 1..Len(x) - k : SubSeq(x, k + 1, Len(x))[i] = x[k + i]
<1> DEFINE a == SubSeq(x, 1, k)
           b == SubSeq(x, k + 1, Len(x))
<1>1. a \in Seq(Units) /\ Len(a) = k /\ \A i \in 1..k : a[i] = x[i]
  OBVIOUS
<1>2. /\ b \in Seq(Units) /\ Len(b) = Len(x) - k
      /\ \A i \in 1..Len(x) - k : b[i] = x[k + i]
  OBVIOUS
<1> HIDE DEF a, b
<1>3. /\ a \o b \in Seq(Units) /\ Len(a \o b) = Len(a) + Len(b)
      /\ \A i \in 1..Len(a) : (a \o b)[i] = a[i]
      /\ \A i \in 1..Len(b) : (a \o b)[Len(a) + i] = b[i]
  BY <1>1, <1>2, Cat, Zenon
<1>4. \A i \in 1..Len(x) : (a \o b)[i] = x[i]
  <2> DEFINE c == a \o b
             l == Len(x)
  <2>1. /\ l \in Nat /\ k \in 0..l
        /\ \A i \in 1..k : a[i] = x[i] /\ c[i] = a[i]
        /\ \A i \in 1..l - k : b[i] = x[k + i] /\ c[k + i] = b[i]
    <3>1. Len(a) = k /\ Len(b) = l - k BY <1>1, <1>2
    <3> QED BY <1>1, <1>2, <1>3, <3>1
  <2> HIDE DEF c, l
  <2>2. ASSUME NEW i \in 1..l PROVE c[i] = x[i]
    <3>1. CASE i \in 1..k BY <2>1, <3>1
    <3>2. CASE i \notin 1..k
      <4>1. i - k \in 1..l - k /\ k + (i - k) = i BY <2>1, <2>2, <3>2
      <4>2. c[k + (i - k)] = x[k + (i - k)] BY <2>1, <4>1
      <4> QED BY <4>1, <4>2
    <3> QED BY <3>1, <3>2
  <2> QED BY <2>2 DEF c, l
<1>5. a \o b = x
  <2>1. Len(a \o b) = Len(x) BY <1>1, <1>2, <1>3
  <2> QED BY <1>3, <1>4, <2>1, SeqEq
<1>6. k = Len(x) => a = x /\ b = <<>> BY <1>1, <1>2, SeqEq, Len(<<>>) = 0
<1> QED BY <1>1, <1>2, <1>5, <1>6 DEF a, b

(* The first k units of y are moved behind x. *)
LEMMA Move ==
    ASSUME NEW x \in Seq(Units), NEW y \in Seq(Units), NEW k \in 0..Len(y)
    PROVE  /\ SubSeq(y, k + 1, Len(y)) \in Seq(Units)
           /\ Len(SubSeq(y, k + 1, Len(y))) = Len(y) - k
           /\ x \o SubSeq(y, 1, k) \in Seq(Units)
           /\ Len(x \o SubSeq(y, 1, k)) = Len(x) + k
           /\ (x \o SubSeq(y, 1, k)) \o SubSeq(y, k + 1, Len(y)) = x \o y
<1> DEFINE a == SubSeq(y, 1, k)
           b == SubSeq(y, k + 1, Len(y))
<1>1. a \in Seq(Units) /\ b \in Seq(Units) /\ a \o b = y /\ Len(a) = k /\ Len(b) = Len(y) - k
  BY CutSeq, Zenon
<1> HIDE DEF a, b
<1>2. x \o a \in Seq(Units) /\ Len(x \o a) = Len(x) + Len(a) BY <1>1, Cat, Zenon
<1>3. (x \o a) \o b = x \o (a \o b) BY <1>1, Assoc, Zenon
<1> QED BY <1>1, <1>2, <1>3, Zenon DEF a, b

LEMMA Types ==
    ASSUME NEW n \in Net, NEW r \in Req
    PROVE  /\ n.in \in Seq(Units) /\ n.sent \in Seq(Units) /\ n.cl \in Int
           /\ r.buf \in Seq(Units) /\ r.given \in Seq(Units) /\ r.total \in Int /\ r.cl \in Int
           /\ Len(n.in) \in Nat /\ Len(n.sent) \in Nat /\ Len(r.buf) \in Nat
           /\ Len(r.given) \in Nat
BY DEF Net, Req

(* Reading into recv_buf. *)
ReadNet(n, k) == [n EXCEPT !.in = SubSeq(n.in, k + 1, Len(n.in))]
ReadReq(n, r, k) == [r EXCEPT !.buf = r.buf \o SubSeq(n.in, 1, k), !.total = r.total + k,
                              !.idle = FALSE]
LEMMA ReadResponse ==
    ASSUME NEW n \in Net, NEW r \in Req, NEW k \in 0..Len(n.in),
           r.state \in {"RECEIVING_HEADERS", "RECEIVING_BODY"}
    PROVE  /\ ReadNet(n, k) \in Net /\ ReadReq(n, r, k) \in Req
           /\ Response(n, r) => Response(ReadNet(n, k), ReadReq(n, r, k))
<1> DEFINE i == n.in
           b == r.buf
           lg == Len(r.given)
           tot == r.total
           x == SubSeq(i, 1, k)
           y == SubSeq(i, k + 1, Len(i))
           z == b \o x
           o == tot + k
           m == ReadNet(n, k)
           q == ReadReq(n, r, k)
<1>1. i \in Seq(Units) /\ b \in Seq(Units) /\ tot \in Int /\ k \in 0..Len(i)
      /\ Len(b) \in Nat /\ lg \in Nat
  BY Types
<1>2. m = [n EXCEPT !.in = y] /\ q = [r EXCEPT !.buf = z, !.total = o, !.idle = FALSE]
  BY DEF ReadNet, ReadReq
<1> HIDE DEF i, b, tot, lg, m, q
<1>3. y \in Seq(Units) BY <1>1, Move, Zenon
<1>4. z \in Seq(Units) /\ Len(z) = Len(b) + k /\ z \o y = b \o i
  BY <1>1, Move, Zenon
<1> HIDE DEF x, y
<1>5. o \in Int /\ o = tot + k BY <1>1
<1> HIDE DEF z, o
<1>6. m \in Net /\ q \in Req
  BY <1>2, <1>3, <1>4, <1>5 DEF Net, Req
<1>7. /\ m.in = y /\ m.srv = n.srv /\ m.head = n.head /\ m.cl = n.cl /\ m.sent = n.sent
      /\ q.buf = z /\ q.total = o /\ q.state = r.state /\ q.head = r.head
      /\ q.given = r.given /\ q.cl = r.cl
  BY <1>2 DEF Net, Req
<1>8. /\ \A cl : BodyOK(n, cl) => BodyOK(m, cl)
      /\ \A w : Beginning(n, r, w) => Beginning(m, q, w)
  <2>1. SameSrv(n, m) BY <1>7 DEF SameSrv
  <2>2. SameHead(r, q) BY <1>7 DEF SameHead
  <2>3. \A cl : BodyOK(n, cl) => BodyOK(m, cl) BY <2>1, BodySame, Zenon
  <2>4. ASSUME NEW w, Beginning(n, r, w) PROVE Beginning(m, q, w)
    BY <2>1, <2>2, <2>4, BeginningSame, Zenon
  <2> QED BY <2>3, <2>4
<1>9. r.state = "RECEIVING_HEADERS" /\ Response(n, r) => Response(m, q)
  BY <1>4, <1>7, <1>8 DEF Response, i, b
<1>10. ASSUME r.state = "RECEIVING_BODY", Response(n, r) PROVE Response(m, q)
  <2>1. /\ r.given \o (b \o i) = n.sent
        /\ tot = lg + Len(b) /\ BodyOK(n, r.cl)
    BY <1>10 DEF Response, i, b, tot, lg
  <2>2. o = lg + Len(z)
    BY <1>1, <1>4, <1>5, <2>1
  <2> QED BY <1>4, <1>7, <1>8, <1>10, <2>1, <2>2 DEF Response, lg
<1> QED BY <1>6, <1>9, <1>10 DEF m, q

(* Giving the host the first k units of recv_buf. *)
GiveReq(r, k, idle) == [r EXCEPT !.given = r.given \o SubSeq(r.buf, 1, k),
                                 !.buf = SubSeq(r.buf, k + 1, Len(r.buf)), !.idle = idle]
LEMMA GiveResponse ==
    ASSUME NEW n \in Net, NEW r \in Req, NEW k \in 0..Len(r.buf), NEW idle \in BOOLEAN
    PROVE  /\ GiveReq(r, k, idle) \in Req
           /\ (r.state = "RECEIVING_BODY" /\ Response(n, r)) => Response(n, GiveReq(r, k, idle))
<1> DEFINE q == GiveReq(r, k, idle)
           i == n.in
           b == r.buf
           g == r.given
           x == SubSeq(b, 1, k)
           y == SubSeq(b, k + 1, Len(b))
           z == g \o x
<1>1. i \in Seq(Units) /\ b \in Seq(Units) /\ g \in Seq(Units) /\ k \in 0..Len(b)
      /\ Len(b) \in Nat /\ Len(g) \in Nat
  BY Types
<1>2. q = [r EXCEPT !.given = z, !.buf = y, !.idle = idle] BY DEF GiveReq
<1> HIDE DEF i, b, g, q
<1>3. y \in Seq(Units) /\ Len(y) = Len(b) - k BY <1>1, Move, Zenon
<1>4. z \in Seq(Units) /\ Len(z) = Len(g) + k /\ z \o y = g \o b BY <1>1, Move, Zenon
<1> HIDE DEF x, y, z
<1>5. z \o (y \o i) = g \o (b \o i)
  <2>1. (z \o y) \o i = z \o (y \o i) BY <1>1, <1>3, <1>4, Assoc, Zenon
  <2>2. (g \o b) \o i = g \o (b \o i) BY <1>1, Assoc, Zenon
  <2> QED BY <1>4, <2>1, <2>2
<1>6. Len(z) + Len(y) = Len(g) + Len(b) BY <1>1, <1>3, <1>4
<1>7. q \in Req BY <1>2, <1>3, <1>4 DEF Req
<1>8. /\ q.buf = y /\ q.given = z /\ q.total = r.total /\ q.state = r.state /\ q.cl = r.cl
  BY <1>2 DEF Req
<1>9. (r.state = "RECEIVING_BODY" /\ Response(n, r)) => Response(n, q)
  BY <1>5, <1>6, <1>8 DEF Response, i, b, g
<1> QED BY <1>7, <1>9 DEF q

(* All of the body has come. *)
Ends(t, c, v) ==
    /\ c = 0 => v = "quiet" /\ t = <<>>
    /\ c > 0 => Len(t) <= c /\ (Len(t) = c => v = "quiet")
    /\ \A j \in 1..Len(t) : t[j] = Eof2 => j = Len(t) /\ v = "quiet"
AtEnd(g, c) == (c >= 0 /\ Len(g) >= c) \/ (g # <<>> /\ g[Len(g)] = Eof2)
Pieces(g, b, i, t) == /\ g \in Seq(Units) /\ b \in Seq(Units) /\ i \in Seq(Units)
                      /\ t \in Seq(Units) /\ g \o (b \o i) = t
LEMMA Whole ==
    ASSUME NEW g, NEW b, NEW i, NEW t, Pieces(g, b, i, t), NEW c \in Int, NEW v,
           Ends(t, c, v), AtEnd(g, c)
    PROVE  g = t /\ v = "quiet" /\ Len(b) = 0
<1> DEFINE bi == b \o i
           lg == Len(g)
           lt == Len(t)
           lb == Len(b)
           li == Len(i)
<1>0. /\ g \in Seq(Units) /\ b \in Seq(Units) /\ i \in Seq(Units)
      /\ t \in Seq(Units) /\ g \o bi = t
  BY DEF Pieces
<1>1. bi \in Seq(Units) /\ Len(bi) = lb + li BY <1>0, Cat, Zenon
<1>2. Len(g \o bi) = lg + Len(bi) /\ (\A j \in 1..lg : (g \o bi)[j] = g[j]) /\ g \o <<>> = g
  BY <1>0, <1>1, Cat, Zenon
<1>3. lt = lg + Len(bi) /\ (\A j \in 1..lg : t[j] = g[j]) BY <1>0, <1>2, Zenon
<1>4. lg \in Nat /\ lt \in Nat /\ lb \in Nat /\ li \in Nat BY <1>0
<1>5. g # <<>> => lg # 0 BY <1>0
<1>6. t = <<>> => lt = 0 BY <1>0
<1> HIDE DEF bi, lg, lt, lb, li
<1>7. lt >= lg BY <1>1, <1>3, <1>4
<1>8. lt = lg /\ v = "quiet"
  <2>1. CASE c > 0 /\ lg >= c
    <3>1. lt <= c /\ (lt = c => v = "quiet") BY <2>1 DEF lt, Ends
    <3>2. lt = c /\ lt = lg BY <1>4, <1>7, <2>1, <3>1
    <3> QED BY <3>1, <3>2
  <2>2. CASE c = 0
    <3>1. lt = 0 /\ v = "quiet" BY <1>6, <2>2 DEF Ends
    <3> QED BY <1>4, <1>7, <3>1
  <2>3. CASE g # <<>> /\ g[lg] = Eof2
    <3>1. lg \in 1..lg /\ lg \in 1..lt BY <1>4, <1>5, <1>7, <2>3
    <3>2. t[lg] = Eof2 BY <1>3, <2>3, <3>1
    <3> QED BY <3>1, <3>2 DEF lt, Ends
  <2>4. c > 0 \/ c = 0 \/ c < 0 OBVIOUS
  <2>5. (c >= 0 /\ lg >= c) \/ (g # <<>> /\ g[lg] = Eof2) BY DEF lg, AtEnd
  <2> QED BY <2>1, <2>2, <2>3, <2>4, <2>5
<1>9. Len(bi) = 0 /\ lb = 0 BY <1>1, <1>3, <1>4, <1>8
<1>10. bi = <<>> BY <1>1, <1>9
<1> QED BY <1>0, <1>2, <1>8, <1>9, <1>10 DEF lb

LEMMA Complete ==
    ASSUME NEW n \in Net, NEW r \in Req, r.state = "RECEIVING_BODY", Response(n, r),
           AtEnd(r.given, r.cl)
    PROVE  r.given = n.sent /\ n.srv = "quiet" /\ r.total = Len(r.given)
<1> DEFINE i == n.in
           b == r.buf
           g == r.given
           t == n.sent
           c == r.cl
           v == n.srv
<1>1. i \in Seq(Units) /\ b \in Seq(Units) /\ g \in Seq(Units) /\ t \in Seq(Units) /\ c \in Int
      /\ Len(g) \in Nat
  BY Types
<1>2. Pieces(g, b, i, t) BY <1>1 DEF Response, Pieces
<1>3. r.total = Len(g) + Len(b) BY DEF Response
<1>4. Ends(t, c, v) BY DEF Response, BodyOK, Ends
<1>5. AtEnd(g, c) OBVIOUS
<1> HIDE DEF i, b, g, t, c, v
<1>8. g = t /\ v = "quiet" /\ Len(b) = 0 BY <1>1, <1>2, <1>4, <1>5, Whole, Zenon
<1>9. r.total = Len(g) BY <1>1, <1>3, <1>8
<1> QED BY <1>8, <1>9 DEF g, t, v

(* Where the headers end in recv_buf. *)
LEMMA HeaderEndIs ==
    ASSUME NEW buf \in Seq(Units)
    PROVE  /\ HeaderEnd(buf) \in 0..Len(buf)
           /\ HeaderEnd(buf) = 0 => \A j \in 1..Len(buf) : ~IsEnd(buf[j])
           /\ HeaderEnd(buf) # 0 => IsEnd(buf[HeaderEnd(buf)])
<1> DEFINE P(i) == IF i = 0 THEN \A j \in DOMAIN buf : ~IsEnd(buf[j]) ELSE IsEnd(buf[i])
<1>1. DOMAIN buf = 1..Len(buf) /\ Len(buf) \in Nat OBVIOUS
<1>2. \E i \in 0..Len(buf) : P(i)
  <2>1. CASE \E j \in 1..Len(buf) : IsEnd(buf[j])
    <3>1. PICK j \in 1..Len(buf) : IsEnd(buf[j]) BY <2>1
    <3>2. j \in 0..Len(buf) /\ j # 0 BY <1>1
    <3> QED BY <3>1, <3>2
  <2>2. CASE ~\E j \in 1..Len(buf) : IsEnd(buf[j])
    <3>1. 0 \in 0..Len(buf) /\ P(0) BY <1>1, <2>2
    <3> QED BY <3>1
  <2> QED BY <2>1, <2>2
<1>3. HeaderEnd(buf) = CHOOSE i \in 0..Len(buf) : P(i) BY DEF HeaderEnd
<1> HIDE DEF P
<1>4. HeaderEnd(buf) \in 0..Len(buf) /\ P(HeaderEnd(buf)) BY <1>2, <1>3, Zenon
<1> QED BY <1>1, <1>4 DEF P

(* Units are known by what they are. *)
LEMMA UnitKinds ==
    /\ ~IsEnd(Part) /\ Part # Empty
    /\ \A j \in 1..4 : IsEnd(End(j)) /\ End(j) # Empty /\ -10 - End(j) = j /\ End(j) \in Units
    /\ \A u \in Units : u >= Eof2 => ~IsEnd(u)
    /\ \A u \in Units : IsEnd(u) => -10 - u \in 1..4
    /\ {Part, Empty, Conn, Eof1, Eof2, 1} \subseteq Units
BY DEF IsEnd, Part, Empty, End, Eof2, Eof1, Conn, Units

LEMMA Kinds ==
    /\ Len(Responses) = 4
    /\ \A j \in 1..4 : Responses[j].cl \in Int /\ Responses[j].nobody \in BOOLEAN
<1>1. Len(Responses) = 4 BY DEF Responses
<1>2. /\ Responses[1] = [cl |-> -1, nobody |-> FALSE] /\ Responses[2] = [cl |-> 0, nobody |-> FALSE]
      /\ Responses[3] = [cl |-> 2, nobody |-> FALSE] /\ Responses[4] = [cl |-> -1, nobody |-> TRUE]
  BY DEF Responses
<1>3. /\ Responses[1].cl \in Int /\ Responses[2].cl \in Int
      /\ Responses[3].cl \in Int /\ Responses[4].cl \in Int
  BY <1>2
<1>4. /\ Responses[1].nobody \in BOOLEAN /\ Responses[2].nobody \in BOOLEAN
      /\ Responses[3].nobody \in BOOLEAN /\ Responses[4].nobody \in BOOLEAN
  BY <1>2
<1>5. \A j \in 1..4 : j = 1 \/ j = 2 \/ j = 3 \/ j = 4 OBVIOUS
<1> QED BY <1>1, <1>3, <1>4, <1>5, Zenon

(* Behind e units of b, followed by i, comes t. *)
Behind(b, i, t, e) == /\ e \in 0..Len(b) /\ Len(b \o i) = e + Len(t)
                      /\ \A j \in 1..Len(t) : (b \o i)[e + j] = t[j]
LEMMA Rest ==
    ASSUME NEW b \in Seq(Units), NEW i \in Seq(Units), NEW t \in Seq(Units),
           NEW e, Behind(b, i, t, e)
    PROVE  SubSeq(b, e + 1, Len(b)) \o i = t
<1> DEFINE x == SubSeq(b, e + 1, Len(b))
           y == x \o i
           z == b \o i
           lb == Len(b)
           li == Len(i)
           lt == Len(t)
<1>1. lb \in Nat /\ li \in Nat /\ lt \in Nat /\ e \in 0..lb BY DEF Behind
<1>2. x \in Seq(Units) /\ Len(x) = lb - e /\ \A j \in 1..lb - e : x[j] = b[e + j]
  BY <1>1, CutSeq, Zenon
<1> HIDE DEF x
<1>3. /\ y \in Seq(Units) /\ Len(y) = Len(x) + li
      /\ \A j \in 1..Len(x) : y[j] = x[j]
      /\ \A j \in 1..li : y[Len(x) + j] = i[j]
  BY <1>2, Cat, Zenon
<1>4. /\ Len(z) = lb + li /\ \A j \in 1..lb : z[j] = b[j]
      /\ \A j \in 1..li : z[lb + j] = i[j]
  BY Cat, Zenon
<1>5. Len(z) = e + lt /\ \A j \in 1..lt : z[e + j] = t[j] BY DEF Behind
<1> HIDE DEF y, z, lb, li, lt
<1>6. Len(y) = lt BY <1>2, <1>1, <1>3, <1>4, <1>5
<1>7. ASSUME NEW j \in 1..lt PROVE y[j] = t[j]
  <2>1. CASE j \in 1..lb - e
    <3>1. e + j \in 1..lb /\ j \in 1..Len(x) BY <1>2, <1>1, <2>1
    <3> QED BY <1>2, <1>3, <1>4, <1>5, <1>7, <2>1, <3>1
  <2>2. CASE j \notin 1..lb - e
    <3>1. j - (lb - e) \in 1..li BY <1>1, <1>4, <1>5, <1>7, <2>2
    <3>2. (lb - e) + (j - (lb - e)) = j /\ lb + (j - (lb - e)) = e + j BY <1>1, <1>7
    <3>3. y[(lb - e) + (j - (lb - e))] = z[lb + (j - (lb - e))]
      BY <1>2, <1>3, <1>4, <3>1
    <3> QED BY <1>5, <1>7, <3>2, <3>3
  <2> QED BY <2>1, <2>2
<1>8. Len(y) = Len(t) /\ \A j \in 1..Len(y) : y[j] = t[j] BY <1>6, <1>7 DEF lt
<1>9. y = t BY <1>3, <1>8, SeqEq, Zenon
<1> QED BY <1>9 DEF x, y

(* The headers are complete. *)
LEMMA HeadersEnd ==
    ASSUME NEW n \in Net, NEW r \in Req, r.state = "RECEIVING_HEADERS", Response(n, r),
           HeaderEnd(r.buf) > 0
    PROVE  /\ BodyOf(r.buf) \o n.in = n.sent /\ r.given = <<>>
           /\ BodyOK(n, ResponseOf(r.buf).cl)
           /\ r.head \/ ResponseOf(r.buf).nobody => n.srv = "quiet" /\ n.sent = <<>>
<1> DEFINE b == r.buf
           i == n.in
           t == n.sent
           w == b \o i
           e == HeaderEnd(b)
<1>1. b \in Seq(Units) /\ i \in Seq(Units) /\ t \in Seq(Units) /\ Len(b) \in Nat BY Types
<1>2. e > 0 /\ Beginning(n, r, w) /\ r.given = <<>> BY DEF Response
<1> HIDE DEF b, i, t
<1>3. e \in 0..Len(b) /\ (e # 0 => IsEnd(b[e])) BY <1>1, HeaderEndIs, Zenon
<1> HIDE DEF e
<1>4. e \in 1..Len(b) /\ IsEnd(b[e]) BY <1>1, <1>2, <1>3
<1>5. Len(w) = Len(b) + Len(i) /\ (\A j \in 1..Len(b) : w[j] = b[j]) BY <1>1, Cat, Zenon
<1>6. Len(i) \in Nat /\ Len(t) \in Nat BY <1>1
<1> HIDE DEF w
<1>7. e \in 1..Len(w) /\ w[e] = b[e] BY <1>1, <1>4, <1>5, <1>6
<1>8. n.srv # "asked"
  <2> SUFFICES ASSUME n.srv = "asked" PROVE FALSE OBVIOUS
  <2>1. w[e] = Part BY <1>2, <1>7 DEF Beginning
  <2> QED BY <1>4, <1>7, <2>1, UnitKinds
<1>9. PICK p \in 1..Len(w), j \in 1..4 : HeadersOK(n, r, w, p, j)
  BY <1>2, <1>8 DEF Beginning
<1>10. /\ \A l \in 1..p - 1 : w[l] = Part
       /\ w[p] = End(j) /\ Len(w) = p + Len(t)
       /\ \A l \in 1..Len(t) : w[p + l] = t[l]
       /\ BodyOK(n, Responses[j].cl)
       /\ r.head \/ Responses[j].nobody => n.srv = "quiet" /\ n.sent = <<>>
  BY <1>9 DEF HeadersOK, t
<1>11. e = p
  <2>1. CASE e < p
    <3>1. e \in 1..p - 1 BY <1>7, <1>9, <2>1
    <3> QED BY <1>4, <1>7, <1>10, <3>1, UnitKinds
  <2>2. CASE e > p
    <3>1. e - p \in 1..Len(t) /\ p + (e - p) = e BY <1>5, <1>6, <1>7, <1>9, <1>10, <2>2
    <3>2. w[e] = t[e - p] /\ t[e - p] \in Units BY <1>1, <1>10, <3>1
    <3>3. t[e - p] >= Eof2 BY <1>10, <3>1 DEF BodyOK, t
    <3> QED BY <1>4, <1>7, <3>2, <3>3, UnitKinds
  <2> QED BY <1>7, <1>9, <2>1, <2>2
<1>12. ResponseOf(b) = Responses[j]
  <2>1. -10 - b[e] = j BY <1>7, <1>9, <1>10, <1>11, UnitKinds
  <2> QED BY <2>1 DEF ResponseOf, e
<1>13. BodyOf(b) \o i = t
  <2>1. Behind(b, i, t, e) BY <1>3, <1>10, <1>11 DEF w, Behind
  <2>2. SubSeq(b, e + 1, Len(b)) \o i = t BY <1>1, <2>1, Rest, Zenon
  <2> QED BY <2>2 DEF BodyOf, e
<1> QED BY <1>2, <1>10, <1>12, <1>13 DEF b, i, t

LEMMA Appended ==
    ASSUME NEW x \in Seq(Units), NEW u \in Units
    PROVE  /\ Append(x, u) \in Seq(Units) /\ Len(Append(x, u)) = Len(x) + 1
           /\ (\A i \in 1..Len(x) : Append(x, u)[i] = x[i]) /\ Append(x, u)[Len(x) + 1] = u
           /\ \A y \in Seq(Units) : y \o Append(x, u) = Append(y \o x, u)
OBVIOUS

(* The server sends a part of the headers ... *)
LEMMA PartArrives ==
    ASSUME NEW n \in Net, NEW r \in Req, Response(n, r), n.srv = "asked"
    PROVE  Response([n EXCEPT !.in = Append(n.in, Part)], r)
<1> DEFINE m == [n EXCEPT !.in = Append(n.in, Part)]
           b == r.buf
           i == n.in
           w == b \o i
<1>1. b \in Seq(Units) /\ i \in Seq(Units) /\ Part \in Units BY Types, UnitKinds
<1>2. r.state \in {"SENDING_BODY", "RECEIVING_HEADERS"}
  BY DEF Response, BodyOK
<1>3. r.given = <<>> /\ (\A l \in 1..Len(w) : w[l] = Part) /\ n.sent = <<>> /\ n.head = r.head
  BY <1>2 DEF Response, Beginning
<1>4. m.in = Append(i, Part) /\ m.srv = "asked" /\ m.sent = n.sent /\ m.head = n.head
  BY DEF Net
<1> HIDE DEF b, i, m
<1>5. b \o Append(i, Part) = Append(w, Part) BY <1>1, Appended, Zenon
<1>6. w \in Seq(Units) BY <1>1, Cat, Zenon
<1>7. Len(w) \in Nat BY <1>6
<1>8. /\ Len(Append(w, Part)) = Len(w) + 1
      /\ (\A l \in 1..Len(w) : Append(w, Part)[l] = w[l]) /\ Append(w, Part)[Len(w) + 1] = Part
  BY <1>1, <1>6, Appended, Zenon
<1> DEFINE v == Append(w, Part)
<1> HIDE DEF w, v
<1>9. \A l \in 1..Len(v) : v[l] = Part BY <1>3, <1>7, <1>8 DEF v
<1>10. r.buf \o m.in = v BY <1>4, <1>5 DEF b, v
<1>11. Beginning(m, r, v) BY <1>3, <1>4, <1>9 DEF Beginning
<1>12. Response(m, r) BY <1>2, <1>3, <1>10, <1>11 DEF Response
<1> QED BY <1>12 DEF m, i

(* ... or their end. *)
LEMMA EndArrives ==
    ASSUME NEW n \in Net, NEW r \in Req, Response(n, r), n.srv = "asked", NEW k \in 1..4,
           NEW none, none = (n.head \/ Responses[k].nobody \/ Responses[k].cl = 0)
    PROVE  Response([n EXCEPT !.in = Append(n.in, End(k)), !.head = FALSE,
                              !.cl = IF none THEN -1 ELSE Responses[k].cl,
                              !.srv = IF none THEN "quiet" ELSE "body"], r)
<1> DEFINE m == [n EXCEPT !.in = Append(n.in, End(k)), !.head = FALSE,
                          !.cl = IF none THEN -1 ELSE Responses[k].cl,
                          !.srv = IF none THEN "quiet" ELSE "body"]
           b == r.buf
           i == n.in
           w == b \o i
           v == Append(w, End(k))
           p == Len(w) + 1
           c == Responses[k].cl
<1>1. b \in Seq(Units) /\ i \in Seq(Units) /\ End(k) \in Units BY Types, UnitKinds
<1>2. r.state \in {"SENDING_BODY", "RECEIVING_HEADERS"}
  BY DEF Response, BodyOK
<1>3. r.given = <<>> /\ (\A l \in 1..Len(w) : w[l] = Part) /\ n.sent = <<>> /\ n.head = r.head
  BY <1>2 DEF Response, Beginning
<1>4. m.in = Append(i, End(k)) /\ m.sent = n.sent
  BY DEF Net
<1>5. m.srv = (IF none THEN "quiet" ELSE "body") /\ m.cl = (IF none THEN -1 ELSE c)
  BY DEF Net
<1> HIDE DEF b, i, m
<1>6. b \o Append(i, End(k)) = v BY <1>1, Appended, Zenon
<1>7. w \in Seq(Units) BY <1>1, Cat, Zenon
<1>8. Len(v) = Len(w) + 1 /\ (\A l \in 1..Len(w) : v[l] = w[l]) /\ v[Len(w) + 1] = End(k)
  BY <1>1, <1>7, Appended, Zenon
<1>9. Len(w) \in Nat BY <1>7
<1> HIDE DEF w, v
<1>10. p \in 1..Len(v) /\ (\A l \in 1..p - 1 : v[l] = Part) /\ v[p] = End(k) /\ Len(v) = p + 0
  BY <1>3, <1>8, <1>9
<1> HIDE DEF p
<1>11. c \in Int BY Kinds
<1>12. BodyOK(m, c)
  <2>1. Len(m.sent) = 0 /\ m.sent = <<>> BY <1>3, <1>4
  <2>2. c = 0 => none OBVIOUS
  <2> HIDE DEF c
  <2>3. m.srv \in {"body", "quiet"} /\ (m.srv = "body" => m.cl = c) BY <1>5
  <2>4. c = 0 => m.srv = "quiet" BY <1>5, <2>2
  <2> QED BY <1>11, <2>1, <2>3, <2>4 DEF BodyOK
<1>13. HeadersOK(m, r, v, p, k)
  <2>1. r.head \/ Responses[k].nobody => none BY <1>3
  <2>2. none => m.srv = "quiet" BY <1>5
  <2>3. Len(m.sent) = 0 /\ m.sent = <<>> BY <1>3, <1>4
  <2>4. \A l \in 1..Len(m.sent) : v[p + l] = m.sent[l] BY <2>3
  <2>5. Len(v) = p + Len(m.sent) BY <1>10, <2>3
  <2> QED BY <1>10, <1>12, <2>1, <2>2, <2>3, <2>4, <2>5, Zenon DEF HeadersOK, c
<1>14. m.srv # "asked" BY <1>5
<1>15. Beginning(m, r, v) BY <1>10, <1>13, <1>14 DEF Beginning
<1>16. r.buf \o m.in = v BY <1>4, <1>6 DEF b
<1>17. Response(m, r) BY <1>2, <1>3, <1>15, <1>16 DEF Response
<1> QED BY <1>17 DEF m

(* A unit of the body. *)
BodyUnit(n, u) == /\ u \in Units /\ u >= Eof2 /\ u # Empty
                  /\ n.cl > 0 => u # Eof2
BodyNet(n, u) == [n EXCEPT !.in = Append(n.in, u), !.sent = Append(n.sent, u),
                           !.srv = IF u = Eof2 \/ Len(n.sent) + 1 = n.cl
                                   THEN "quiet" ELSE n.srv]
LEMMA BodyArrives ==
    ASSUME NEW n \in Net, NEW r \in Req, Response(n, r), n.srv = "body", NEW u, BodyUnit(n, u)
    PROVE  Response(BodyNet(n, u), r)
<1> DEFINE m == BodyNet(n, u)
           b == r.buf
           i == n.in
           t == n.sent
           t1 == Append(t, u)
           i1 == Append(i, u)
           last == u = Eof2 \/ Len(t) + 1 = n.cl
<1>1. b \in Seq(Units) /\ i \in Seq(Units) /\ t \in Seq(Units) /\ u \in Units
      /\ Len(t) \in Nat /\ n.cl \in Int /\ r.given \in Seq(Units)
  BY Types DEF BodyUnit
<1>2. m.in = i1 /\ m.sent = t1 /\ m.head = n.head /\ m.cl = n.cl
  BY DEF Net, BodyNet
<1>3. m.srv = IF last THEN "quiet" ELSE "body"
  BY DEF Net, BodyNet
<1> HIDE DEF m, b, i, t
<1>4. /\ t1 \in Seq(Units) /\ Len(t1) = Len(t) + 1
      /\ (\A l \in 1..Len(t) : t1[l] = t[l]) /\ t1[Len(t) + 1] = u
  BY <1>1, Appended, Zenon
<1> HIDE DEF t1
<1>5. ASSUME NEW c, BodyOK(n, c) PROVE BodyOK(m, c)
  <2>1. /\ n.cl = c /\ c # 0
        /\ c > 0 => Len(t) <= c /\ Len(t) # c
        /\ \A l \in 1..Len(t) : t[l] >= Eof2 /\ t[l] # Empty /\ t[l] # Eof2
    BY <1>5 DEF BodyOK, t
  <2>2. c > 0 => Len(t1) <= c /\ (Len(t1) = c => m.srv = "quiet")
    <3>1. c \in Int BY <1>1, <2>1
    <3> QED BY <1>1, <1>3, <1>4, <2>1, <3>1
  <2>3. ASSUME NEW l \in 1..Len(t1)
        PROVE  /\ t1[l] >= Eof2 /\ t1[l] # Empty
               /\ t1[l] = Eof2 => l = Len(t1) /\ m.srv = "quiet"
    <3>1. CASE l \in 1..Len(t) BY <1>4, <2>1, <3>1
    <3>2. CASE l \notin 1..Len(t)
      <4>1. l = Len(t) + 1 BY <1>1, <1>4, <2>3, <3>2
      <4> QED BY <1>3, <1>4, <4>1 DEF BodyUnit
    <3> QED BY <3>1, <3>2
  <2>4. m.srv \in {"body", "quiet"} BY <1>3
  <2> QED BY <1>2, <2>1, <2>2, <2>3, <2>4 DEF BodyOK
<1>6. r.state # "SENDING_REQUEST" BY DEF Response
<1>7. CASE r.state \in {"SENDING_BODY", "RECEIVING_HEADERS"}
  <2> DEFINE w == b \o i
             v == Append(w, u)
  <2>1. r.given = <<>> /\ Beginning(n, r, w) BY <1>7 DEF Response, b, i
  <2>2. PICK p \in 1..Len(w), j \in 1..4 : HeadersOK(n, r, w, p, j)
    BY <2>1 DEF Beginning
  <2>3. /\ \A l \in 1..p - 1 : w[l] = Part
        /\ w[p] = End(j) /\ Len(w) = p + Len(t)
        /\ \A l \in 1..Len(t) : w[p + l] = t[l]
        /\ BodyOK(n, Responses[j].cl)
        /\ ~(r.head \/ Responses[j].nobody)
    BY <2>2 DEF HeadersOK, t
  <2>4. w \in Seq(Units) BY <1>1, Cat, Zenon
  <2>5. Len(v) = Len(w) + 1 /\ (\A l \in 1..Len(w) : v[l] = w[l]) /\ v[Len(w) + 1] = u
    BY <1>1, <2>4, Appended, Zenon
  <2>6. b \o i1 = v BY <1>1, Appended, Zenon
  <2>7. Len(w) \in Nat BY <2>4
  <2> HIDE DEF w, v, i1
  <2>8. p \in 1..Len(v) BY <2>5, <2>7
  <2>9. HeadersOK(m, r, v, p, j)
    <3>1. \A l \in 1..p - 1 : v[l] = Part BY <2>3, <2>5, <2>7
    <3> DEFINE lw == Len(w)
               lt == Len(t)
               lv == Len(v)
               ln == Len(t1)
    <3>2. lw \in Nat /\ lt \in Nat /\ lw = p + lt /\ lv = lw + 1 /\ ln = lt + 1 /\ p \in 1..lw
      BY <1>1, <1>4, <2>2, <2>3, <2>5, <2>7
    <3>3. v[p] = w[p] BY <2>2, <2>5
    <3> HIDE DEF lw, lt, lv, ln
    <3>4. lv = p + ln BY <3>2
    <3>5. v[p] = End(j) /\ Len(v) = p + Len(t1) BY <2>3, <3>3, <3>4 DEF lv, ln
    <3>6. ASSUME NEW l \in 1..Len(t1) PROVE v[p + l] = t1[l]
      <4>1. CASE l \in 1..Len(t)
        <5>1. p + l \in 1..Len(w) BY <1>1, <2>3, <2>7, <4>1
        <5> QED BY <1>4, <2>3, <2>5, <4>1, <5>1
      <4>2. CASE l \notin 1..Len(t)
        <5>1. l \in 1..ln /\ l \notin 1..lt BY <3>6, <4>2 DEF ln, lt
        <5>2. l = lt + 1 /\ p + l = lw + 1 BY <3>2, <5>1
        <5>3. l = Len(t) + 1 /\ p + l = Len(w) + 1 BY <5>2 DEF lt, lw
        <5> QED BY <1>4, <2>5, <5>3
      <4> QED BY <4>1, <4>2
    <3>7. BodyOK(m, Responses[j].cl) BY <1>5, <2>3
    <3> QED BY <1>2, <2>3, <3>1, <3>5, <3>6, <3>7 DEF HeadersOK
  <2>10. m.srv # "asked" BY <1>3
  <2>11. Beginning(m, r, v) BY <2>8, <2>9, <2>10 DEF Beginning
  <2>12. r.buf \o m.in = v BY <1>2, <2>6 DEF b
  <2>13. Response(m, r) BY <1>7, <2>1, <2>11, <2>12 DEF Response
  <2> QED BY <2>13 DEF m
<1>8. CASE r.state = "RECEIVING_BODY"
  <2> DEFINE g == r.given
             w == b \o i
  <2>1. g \o w = t /\ r.total = Len(g) + Len(r.buf) /\ BodyOK(n, r.cl)
    BY <1>8 DEF Response, b, i, t
  <2> HIDE DEF g
  <2>2. g \in Seq(Units) BY <1>1 DEF g
  <2>3. w \in Seq(Units) /\ b \o i1 = Append(w, u) BY <1>1, Cat, Appended, Zenon
  <2> HIDE DEF w, i1
  <2>4. g \o Append(w, u) = Append(g \o w, u) BY <1>1, <2>2, <2>3, Appended, Zenon
  <2>5. g \o (b \o i1) = t1 BY <2>1, <2>3, <2>4 DEF t1
  <2>6. BodyOK(m, r.cl) BY <1>5, <2>1
  <2>7. Response(m, r) BY <1>2, <1>8, <2>1, <2>5, <2>6 DEF Response, g, b
  <2> QED BY <2>7 DEF m
<1> QED BY <1>6, <1>7, <1>8 DEF Response

(* No unit of a response is an empty datagram. *)
LEMMA NoEmpty ==
    ASSUME NEW n \in Net, NEW r \in Req, Response(n, r), n.in # <<>>
    PROVE  n.in[1] # Empty
<1> DEFINE b == r.buf
           i == n.in
           t == n.sent
           g == r.given
           w == b \o i
           lb == Len(b)
<1>1. b \in Seq(Units) /\ i \in Seq(Units) /\ t \in Seq(Units) /\ g \in Seq(Units)
      /\ lb \in Nat /\ Len(i) \in Nat /\ i # <<>> /\ Len(t) \in Nat
  BY Types
<1>2. r.state # "SENDING_REQUEST" BY DEF Response
<1> HIDE DEF b, i, t, g
<1>3. w \in Seq(Units) /\ Len(w) = lb + Len(i) /\ \A l \in 1..Len(i) : w[lb + l] = i[l]
  BY <1>1, Cat, Zenon
<1>4. 1 \in 1..Len(i) BY <1>1
<1>5. w[lb + 1] = i[1] BY <1>3, <1>4
<1>6. lb + 1 \in 1..Len(w) BY <1>1, <1>3, <1>4
<1>7. CASE r.state \in {"SENDING_BODY", "RECEIVING_HEADERS"}
  <2>1. Beginning(n, r, w) BY <1>7 DEF Response, b, i
  <2> HIDE DEF w, lb
  <2>2. CASE n.srv = "asked"
    <3>1. w[lb + 1] = Part BY <1>6, <2>1, <2>2 DEF Beginning
    <3> QED BY <1>5, <3>1, UnitKinds DEF i
  <2>3. CASE n.srv # "asked"
    <3>1. PICK p \in 1..Len(w), j \in 1..4 : HeadersOK(n, r, w, p, j)
      BY <2>1, <2>3 DEF Beginning
    <3>2. /\ \A l \in 1..p - 1 : w[l] = Part
          /\ w[p] = End(j) /\ Len(w) = p + Len(t)
          /\ \A l \in 1..Len(t) : w[p + l] = t[l] /\ t[l] # Empty
      BY <3>1 DEF HeadersOK, BodyOK, t
    <3>3. ASSUME NEW l \in 1..Len(w) PROVE w[l] # Empty
      <4>1. CASE l < p
        <5>1. l \in 1..p - 1 BY <3>1, <3>3, <4>1
        <5> QED BY <3>2, <5>1, UnitKinds
      <4>2. CASE l = p BY <3>2, <4>2, UnitKinds
      <4>3. CASE l > p
        <5>1. l - p \in 1..Len(t) /\ p + (l - p) = l BY <1>1, <3>1, <3>2, <3>3, <4>3
        <5> QED BY <3>2, <5>1
      <4> QED BY <3>1, <3>3, <4>1, <4>2, <4>3
    <3> QED BY <1>5, <1>6, <3>3 DEF i
  <2> QED BY <2>2, <2>3
<1>8. CASE r.state = "RECEIVING_BODY"
  <2>1. g \o w = t /\ \A l \in 1..Len(t) : t[l] # Empty
    BY <1>8 DEF Response, BodyOK, b, i, t, g
  <2> HIDE DEF w, lb
  <2>2. Len(g \o w) = Len(g) + Len(w) /\ \A l \in 1..Len(w) : (g \o w)[Len(g) + l] = w[l]
    BY <1>1, <1>3, Cat, Zenon
  <2>3. Len(g) \in Nat /\ Len(w) \in Nat BY <1>1, <1>3
  <2>4. Len(g) + (lb + 1) \in 1..Len(t) /\ t[Len(g) + (lb + 1)] = w[lb + 1]
    BY <1>1, <1>6, <2>1, <2>2, <2>3
  <2> QED BY <1>5, <2>1, <2>4 DEF i
<1> QED BY <1>2, <1>7, <1>8 DEF Response

-----------------------------------------------------------------------------
(* The HTTP client at work, outside data mode.                              *)

Fine(t) == StateOK(t) /\ t.ctx.mode # "data"
Near(t, f) == StateBut(t, f) /\ t.http[f].on /\ t.ctx.mode # "data"
Working(t, f) == Fine(t) /\ t.http[f].on

LEMMA FineSame ==
    ASSUME NEW a, NEW b, Fine(a), Same(a, b)
    PROVE  Fine(b)
<1>1. StateOK(b) BY SameKeeps DEF Fine
<1> QED BY <1>1 DEF Fine, Same, SameChan

LEMMA WorkingParts ==
    ASSUME NEW a, NEW f \in Fds, Working(a, f)
    PROVE  /\ Near(a, f) /\ a \in State /\ StateOK(a) /\ Fine(a) /\ ReqOK(a.http[f])
           /\ a.net[f] \in Net /\ a.http[f] \in Req /\ a.http[f].on
           /\ a.socks[f].type = "tls"
           /\ (f \notin a.spoiled /\ a.net[f].link \in {"down", "up"})
                => Response(a.net[f], a.http[f])
<1>1. StateOK(a) /\ a.http[f].on /\ a.ctx.mode # "data" BY DEF Working, Fine
<1>2. StateBut(a, f) /\ ReqOK(a.http[f]) BY <1>1, Weaken
<1>3. a \in State /\ SockOK(a, f) BY <1>1 DEF StateOK
<1>4. a.net[f] \in Net /\ a.http[f] \in Req BY <1>3, StateParts
<1>5. a.socks[f].type = "tls" BY <1>1, <1>3 DEF SockOK
<1> QED BY <1>1, <1>2, <1>3, <1>4, <1>5, Weaken DEF Near, Working

(* The request ends; with the server's status when that is the truth. *)
LEMMA EndFine ==
    ASSUME NEW a, NEW f \in Fds, Near(a, f)
    PROVE  /\ Fine(http_fail_request(a, f))
           /\ Truthful(a, f) => Fine(http_finish_request(a, f))
<1>1. StateBut(a, f) /\ a.http[f].on /\ a.ctx.mode # "data" BY DEF Near
<1> DEFINE End1(ok) == http_close_request(Stat(a, f, ok), f)
<1>2. StateOK(End1(FALSE)) /\ End1(FALSE).ctx.mode = a.ctx.mode BY <1>1, EndKeeps
<1>3. Truthful(a, f) => StateOK(End1(TRUE)) /\ End1(TRUE).ctx.mode = a.ctx.mode
  BY <1>1, EndKeeps
<1> QED BY <1>1, <1>2, <1>3 DEF Fine, http_fail_request, http_finish_request

LEMMA UpdNear ==
    ASSUME NEW a, NEW f \in Fds, Near(a, f), NEW n, NEW r, Follows(a, f, n, r),
           NEW sp, Spoils(a, f, sp)
    PROVE  Near(Upd(a, f, n, r, sp), f) /\ Becomes(Upd(a, f, n, r, sp), f, n, r, sp)
<1> DEFINE b == Upd(a, f, n, r, sp)
<1>2. StateBut(a, f) /\ a.http[f].on /\ a.ctx.mode # "data" BY DEF Near
<1>4. StateBut(b, f) /\ Becomes(b, f, n, r, sp) /\ b.ctx = a.ctx
  <2>1. StateBut(a, f) BY DEF Near
  <2> QED BY <2>1, PutReq
<1> HIDE DEF b
<1>5. Near(b, f) BY <1>2, <1>4 DEF Near, Follows, Becomes
<1> QED BY <1>4, <1>5 DEF b

Answers(a, f, n, r) ==
    (f \notin a.spoiled /\ n.link \in {"down", "up"}) => Response(n, r)
LEMMA UpdWorks ==
    ASSUME NEW a, NEW f \in Fds, Near(a, f), NEW n, NEW r, Follows(a, f, n, r),
           ReqOK(r), Answers(a, f, n, r)
    PROVE  /\ Working(Upd(a, f, n, r, a.spoiled), f)
           /\ Becomes(Upd(a, f, n, r, a.spoiled), f, n, r, a.spoiled)
<1> DEFINE b == Upd(a, f, n, r, a.spoiled)
<1>1. Spoils(a, f, a.spoiled) BY DEF Spoils
<1>2. Near(b, f) /\ Becomes(b, f, n, r, a.spoiled) BY <1>1, UpdNear, Zenon
<1> HIDE DEF b
<1>3. Near(b, f) /\ b.net[f] = n /\ b.http[f] = r /\ b.spoiled = a.spoiled
  BY <1>2 DEF Becomes
<1>4. StateBut(b, f) /\ b.http[f].on /\ b.ctx.mode # "data" BY <1>3 DEF Near
<1>5. ReqOK(b.http[f]) BY <1>3
<1>6. (b.http[f].on /\ f \notin b.spoiled /\ b.net[f].link \in {"down", "up"})
                => Response(b.net[f], b.http[f])
  BY <1>3 DEF Answers
<1>7. StateOK(b) BY <1>4, <1>5, <1>6, Strengthen
<1> QED BY <1>4, <1>7, <1>2 DEF Working, Fine, b

(* Fields of a request that its response does not depend on. *)
SameReq(r, q) ==
    /\ q \in Req /\ q.on = r.on /\ q.state = r.state /\ q.head = r.head /\ q.buf = r.buf
    /\ q.cl = r.cl /\ q.headers_complete = r.headers_complete /\ q.total = r.total
    /\ q.given = r.given
LEMMA ResponseOther ==
    ASSUME NEW n, NEW r, NEW q, SameReq(r, q), Response(n, r)
    PROVE  Response(n, q)
<1>1. SameHead(r, q) /\ SameSrv(n, n) BY DEF SameReq, SameHead, SameSrv
<1>2. \A w : Beginning(n, r, w) => Beginning(n, q, w) BY <1>1, BeginningSame, Zenon
<1> QED BY <1>2 DEF Response, SameReq

LEMMA TouchWorks ==
    ASSUME NEW a, NEW f \in Fds, Working(a, f), NEW q, SameReq(a.http[f], q)
    PROVE  /\ Working([a EXCEPT !.http[f] = q], f)
           /\ Becomes([a EXCEPT !.http[f] = q], f, a.net[f], q, a.spoiled)
<1> DEFINE n == a.net[f]
           r == a.http[f]
<1>1. /\ Near(a, f) /\ a \in State /\ ReqOK(r) /\ n \in Net /\ r.on /\ Answers(a, f, n, r)
  BY WorkingParts DEF Answers
<1>2. Follows(a, f, n, q) BY <1>1 DEF Follows, SameReq
<1>3. ReqOK(q) BY <1>1 DEF ReqOK, SameReq
<1>4. Answers(a, f, n, q) BY <1>1, ResponseOther DEF Answers
<1>5. Upd(a, f, n, q, a.spoiled) = [a EXCEPT !.http[f] = q] BY <1>1 DEF Upd, State
<1> HIDE DEF n
<1>6. /\ Working(Upd(a, f, n, q, a.spoiled), f)
      /\ Becomes(Upd(a, f, n, q, a.spoiled), f, n, q, a.spoiled)
  BY <1>1, <1>2, <1>3, <1>4, UpdWorks, Zenon
<1> QED BY <1>5, <1>6 DEF n

LEMMA SetFine ==
    ASSUME NEW a, NEW f \in Fds, Fine(a), NEW ev \in SUBSET Events
    PROVE  Fine(set_xapoll_events(a, f, ev)) /\ Fine(xapoll_stop(a, f))
<1>1. a \in State BY DEF Fine, StateOK
<1>2. Same(a, set_xapoll_events(a, f, ev)) BY <1>1, SetSame
<1>3. Same(a, xapoll_stop(a, f)) BY <1>1, StopSame
<1>4. Fine(set_xapoll_events(a, f, ev)) BY <1>2, FineSame
<1>5. Fine(xapoll_stop(a, f)) BY <1>3, FineSame
<1> QED BY <1>4, <1>5

Disarm(a, f) == [a EXCEPT !.http[f].rearm = FALSE]
SetIdle(a, f, v) == [a EXCEPT !.http[f].idle = v]
LEMMA RearmWorks ==
    ASSUME NEW a, NEW f \in Fds, Working(a, f)
    PROVE  /\ Working(Rearm(a, f), f) /\ Working(Disarm(a, f), f)
           /\ Disarm(a, f).http[f].state = a.http[f].state
           /\ Disarm(a, f).net[f].link = a.net[f].link
           /\ \A v \in BOOLEAN : Working(SetIdle(a, f, v), f)
<1> DEFINE q == [a.http[f] EXCEPT !.rearm = TRUE]
           p == [a.http[f] EXCEPT !.rearm = FALSE]
           i(v) == [a.http[f] EXCEPT !.idle = v]
<1>1. a.http[f] \in Req BY WorkingParts
<1>2. SameReq(a.http[f], q) /\ SameReq(a.http[f], p) BY <1>1 DEF Req, SameReq
<1>3. \A v \in BOOLEAN : SameReq(a.http[f], i(v)) BY <1>1 DEF Req, SameReq
<1>4. /\ Rearm(a, f) = [a EXCEPT !.http[f] = q]
      /\ Disarm(a, f) = [a EXCEPT !.http[f] = p]
      /\ \A v \in BOOLEAN : SetIdle(a, f, v) = [a EXCEPT !.http[f] = i(v)]
  BY DEF Rearm, Disarm, SetIdle
<1>5. p.state = a.http[f].state BY <1>1 DEF Req
<1> HIDE DEF q, p, i
<1>6. Working(Rearm(a, f), f) BY <1>2, <1>4, TouchWorks
<1>7. Working(Disarm(a, f), f) /\ Becomes(Disarm(a, f), f, a.net[f], p, a.spoiled)
  BY <1>2, <1>4, TouchWorks
<1>8. \A v \in BOOLEAN : Working(SetIdle(a, f, v), f) BY <1>3, <1>4, TouchWorks
<1> QED BY <1>5, <1>6, <1>7, <1>8 DEF Becomes

LEMMA SendingFine ==
    ASSUME NEW a, NEW f \in Fds, Working(a, f), a.http[f].state = "SENDING_REQUEST",
           NEW u \in Int
    PROVE  Fine(SendingRequest(a, f, u))
<1> DEFINE n == a.net[f]
           r == a.http[f]
           sp == a.spoiled
           n1 == [n EXCEPT !.full = TRUE]
           r1 == [r EXCEPT !.left = r.left - u]
           n2 == [n EXCEPT !.srv = "asked", !.head = r.head]
           r2 == [r EXCEPT !.left = 0, !.buf = <<>>, !.state = "RECEIVING_HEADERS"]
           b1 == Upd(a, f, n1, r1, sp)
           b2 == Upd(a, f, n2, r2, sp)
<1>1. /\ Near(a, f) /\ a \in State /\ ReqOK(r) /\ n \in Net /\ r \in Req /\ r.on
      /\ Answers(a, f, n, r) /\ r.state = "SENDING_REQUEST"
  BY WorkingParts DEF Answers
<1>2. a.http \in [Fds -> Req] /\ a.net \in [Fds -> Net] BY <1>1 DEF State
<1>3. CASE n.link = "rst"
  <2>1. SendingRequest(a, f, u) = http_fail_request(a, f) BY <1>3 DEF SendingRequest
  <2> QED BY <1>1, <2>1, EndFine
<1>4. CASE n.link # "rst" /\ u < r.left
  <2>1. SendingRequest(a, f, u) = set_xapoll_events(b1, f, {"OUT", "IN"})
    <3>1. SendingRequest(a, f, u) =
            set_xapoll_events([a EXCEPT !.http[f].left = @ - u, !.net[f].full = TRUE],
                              f, {"OUT", "IN"})
      BY <1>4 DEF SendingRequest
    <3>2. [a EXCEPT !.http[f].left = @ - u, !.net[f].full = TRUE] =
            [a EXCEPT !.net[f] = n1, !.http[f] = r1]
      BY <1>2
    <3> HIDE DEF n1, r1
    <3>3. [a EXCEPT !.net[f] = n1, !.http[f] = r1] = b1 BY <1>1 DEF State, Upd
    <3> QED BY <3>1, <3>2, <3>3
  <2> HIDE DEF n, r
  <2>2. n1 \in Net /\ SameNet(n, n1) /\ n1.link = n.link BY <1>1 DEF Net, SameNet
  <2>3. r.left - u \in Int BY <1>1 DEF Req
  <2> DEFINE v == r.left - u
  <2> HIDE DEF v
  <2>4. [r EXCEPT !.left = v] \in Req /\ SameReq(r, [r EXCEPT !.left = v])
    BY <1>1, <2>3 DEF Req, SameReq, v
  <2>5. SameReq(r, r1) BY <2>4 DEF v
  <2> HIDE DEF n1, r1
  <2>6. Follows(a, f, n1, r1) BY <1>1, <2>5, <2>2 DEF Follows, SameReq, n, r
  <2>7. ReqOK(r1) BY <1>1, <2>5 DEF ReqOK, SameReq
  <2>8. Answers(a, f, n1, r1)
    BY <1>1, <2>5, <2>2, ResponseSame, ResponseOther DEF Answers
  <2>9. Working(b1, f) BY <1>1, <2>6, <2>7, <2>8, UpdWorks
  <2> QED BY <2>1, <2>9, SetFine, {"OUT", "IN"} \in SUBSET Events DEF Working, Events
<1>5. CASE n.link # "rst" /\ ~(u < r.left)
  <2>1. SendingRequest(a, f, u) = set_xapoll_events(b2, f, {"IN"})
    <3>1. SendingRequest(a, f, u) =
            set_xapoll_events([a EXCEPT !.http[f].left = 0, !.http[f].buf = <<>>,
                                        !.http[f].state = "RECEIVING_HEADERS",
                                        !.net[f].srv = "asked",
                                        !.net[f].head = a.http[f].head],
                              f, {"IN"})
      BY <1>5 DEF SendingRequest
    <3>2. [a EXCEPT !.http[f].left = 0, !.http[f].buf = <<>>,
                                        !.http[f].state = "RECEIVING_HEADERS",
                                        !.net[f].srv = "asked",
                                        !.net[f].head = a.http[f].head] =
            [a EXCEPT !.http[f] = r2, !.net[f] = n2]
      BY <1>2
    <3> HIDE DEF n2, r2
    <3>3. [a EXCEPT !.http[f] = r2, !.net[f] = n2] = b2 BY <1>1 DEF State, Upd
    <3> QED BY <3>1, <3>2, <3>3
  <2> HIDE DEF n, r
  <2>2. <<>> \in Seq(Units) /\ Len(<<>>) = 0 /\ <<>> \o <<>> = <<>> /\ 0 <= RecvBuf
    BY SocketsAssumption
  <2>3. n2 \in Net BY <1>1 DEF Net, Req
  <2>4. r2 \in Req
    <3>1. 0 \in Int OBVIOUS
    <3> QED BY <1>1, <2>2, <3>1, ZenonT(30) DEF Req
  <2>5. r2 \in Req /\ r2.on = r.on /\ r2.headers_complete = r.headers_complete
    BY <1>1, <2>4 DEF Req
  <2>6. /\ n2.link = n.link /\ n2.srv = "asked" /\ n2.head = r.head /\ n2.sent = n.sent
        /\ n2.in = n.in
        /\ r2.buf = <<>> /\ r2.state = "RECEIVING_HEADERS" /\ r2.given = r.given
        /\ r2.head = r.head
    BY <1>1 DEF Req, Net
  <2> HIDE DEF n2, r2
  <2>7. Follows(a, f, n2, r2) BY <1>1, <2>6, <2>3, <2>5 DEF Follows, n, r
  <2>8. ReqOK(r2) BY <1>1, <2>2, <2>6, <2>5 DEF ReqOK
  <2>9. ASSUME Response(n, r) PROVE Response(n2, r2)
    <3>1. n.in = <<>> /\ n.sent = <<>> /\ r.given = <<>> BY <1>1, <2>9 DEF Response
    <3>2. r2.buf \o n2.in = <<>> BY <2>2, <2>6, <3>1
    <3>3. Beginning(n2, r2, <<>>) BY <2>2, <2>6, <3>1 DEF Beginning
    <3> QED BY <2>6, <3>1, <3>2, <3>3 DEF Response
  <2>10. Answers(a, f, n2, r2)
    BY <1>1, <2>6, <2>9 DEF Answers
  <2>11. Working(b2, f) BY <1>1, <2>7, <2>8, <2>10, UpdWorks
  <2> QED BY <2>1, <2>11, SetFine, {"IN"} \in SUBSET Events DEF Working, Events
<1> QED BY <1>3, <1>4, <1>5

(* What is read fits recv_buf. *)
LEMMA ReadLenIs ==
    ASSUME NEW a, NEW f \in Fds, Working(a, f), NEW max \in Nat
    PROVE  /\ Available(a, f, max) \in 0..Len(a.net[f].in) /\ Available(a, f, max) <= max
           /\ ReadLen(a, f) \in 0..Len(a.net[f].in)
           /\ Len(a.http[f].buf) + ReadLen(a, f) <= RecvBuf
<1> DEFINE l == Len(a.net[f].in)
           b == Len(a.http[f].buf)
<1>1. l \in Nat /\ b \in Nat BY WorkingParts, Types
<1>2. b <= RecvBuf /\ a.socks[f].type = "tls" BY WorkingParts DEF ReqOK
<1>3. RecvBuf \in Nat BY SocketsAssumption
<1>4. \A x : Available(a, f, x) = IF l < x THEN l ELSE x BY <1>2 DEF Available
<1>5. ReadLen(a, f) = Available(a, f, RecvBuf - b) BY DEF ReadLen
<1> HIDE DEF l, b
<1>6. RecvBuf - b \in Nat BY <1>1, <1>2, <1>3
<1>7. Available(a, f, max) \in 0..l /\ Available(a, f, max) <= max BY <1>1, <1>4
<1>8. ReadLen(a, f) \in 0..l /\ b + ReadLen(a, f) <= RecvBuf BY <1>1, <1>3, <1>4, <1>5, <1>6
<1> QED BY <1>7, <1>8 DEF l, b

LEMMA ReadWorks ==
    ASSUME NEW a, NEW f \in Fds, Working(a, f),
           a.http[f].state \in {"RECEIVING_HEADERS", "RECEIVING_BODY"}
    PROVE  /\ Working(http_recv_read(a, f), f)
           /\ http_recv_read(a, f).http[f].state = a.http[f].state
           /\ http_recv_read(a, f).net[f].link = a.net[f].link
<1> DEFINE n == a.net[f]
           r == a.http[f]
           k == ReadLen(a, f)
           n1 == ReadNet(n, k)
           r1 == ReadReq(n, r, k)
           b == Upd(a, f, n1, r1, a.spoiled)
<1>1. /\ Near(a, f) /\ a \in State /\ ReqOK(r) /\ n \in Net /\ r \in Req /\ r.on
      /\ Answers(a, f, n, r) /\ r.state \in {"RECEIVING_HEADERS", "RECEIVING_BODY"}
  BY WorkingParts DEF Answers
<1>2. k \in 0..Len(n.in) /\ Len(r.buf) + k <= RecvBuf
  BY 0 \in Nat, ReadLenIs
<1> HIDE DEF k
<1>3. http_recv_read(a, f) = b
  <2>1. a.http \in [Fds -> Req] /\ a.net \in [Fds -> Net] BY <1>1 DEF State
  <2> DEFINE y == SubSeq(a.net[f].in, k + 1, Len(a.net[f].in))
             x == SubSeq(a.net[f].in, 1, k)
             m == [a EXCEPT !.net[f].in = y]
  <2>2. http_recv_read(a, f) = [m EXCEPT !.http[f].buf = @ \o x, !.http[f].total = @ + k,
                                         !.http[f].idle = FALSE]
    BY DEF http_recv_read, Consume, k
  <2>3. n1 = [a.net[f] EXCEPT !.in = y]
        /\ r1 = [a.http[f] EXCEPT !.buf = a.http[f].buf \o x, !.total = a.http[f].total + k,
                                  !.idle = FALSE]
    BY DEF ReadNet, ReadReq
  <2> HIDE DEF x, y
  <2>4. m.http = a.http BY <1>1 DEF State
  <2>5. m = [a EXCEPT !.net[f] = n1] BY <2>1, <2>3
  <2> HIDE DEF m
  <2>6. [m EXCEPT !.http[f].buf = @ \o x, !.http[f].total = @ + k, !.http[f].idle = FALSE]
         = [m EXCEPT !.http[f] = r1]
    BY <2>1, <2>3, <2>4
  <2>7. [m EXCEPT !.http[f].buf = @ \o x, !.http[f].total = @ + k, !.http[f].idle = FALSE]
         = [a EXCEPT !.net[f] = n1, !.http[f] = r1]
    BY <2>5, <2>6
  <2> HIDE DEF n1, r1
  <2>8. [a EXCEPT !.net[f] = n1, !.http[f] = r1] = b BY <1>1 DEF State, Upd
  <2> QED BY <2>2, <2>7, <2>8
<1>4. n1 \in Net /\ r1 \in Req /\ (Response(n, r) => Response(n1, r1))
  BY <1>1, <1>2, ReadResponse
<1>5. n1.link = n.link /\ r1.state = r.state /\ r1.on = r.on
      /\ r1.headers_complete = r.headers_complete
  BY <1>1 DEF ReadNet, ReadReq, Net, Req
<1>6. Len(r1.buf) <= RecvBuf
  <2>1. r1.buf = r.buf \o SubSeq(n.in, 1, k) BY <1>1 DEF ReadReq, Req
  <2>2. r.buf \in Seq(Units) /\ n.in \in Seq(Units) BY <1>1, Types
  <2>3. Len(r.buf \o SubSeq(n.in, 1, k)) = Len(r.buf) + k BY <1>2, <2>2, Move, Zenon
  <2> QED BY <1>2, <2>1, <2>3
<1> HIDE DEF n1, r1, n, r
<1>7. r.state # "SENDING_BODY" /\ r1.state # "SENDING_BODY" BY <1>1, <1>5
<1>8. Follows(a, f, n1, r1) BY <1>4, <1>5, <1>7 DEF Follows, n, r
<1>9. ReqOK(r1) BY <1>1, <1>5, <1>6, <1>7 DEF ReqOK
<1>10. Answers(a, f, n1, r1) BY <1>1, <1>4, <1>5 DEF Answers
<1>11. Working(b, f) /\ Becomes(b, f, n1, r1, a.spoiled) BY <1>1, <1>8, <1>9, <1>10, UpdWorks
<1> QED BY <1>3, <1>5, <1>11 DEF Becomes, n, r

(* The request changes, and its connection does not. *)
PutHttp(a, f, q) == [a EXCEPT !.http[f] = q]
SetBuf(a, f, v) == [a EXCEPT !.http[f].buf = v]
WithBuf(q, v) == [q EXCEPT !.buf = v]
WithGiven(q, u) == [q EXCEPT !.given = q.given \o u]
LEMMA PutTwice ==
    ASSUME NEW a \in State, NEW f \in Fds, NEW q, NEW v
    PROVE  /\ PutHttp(a, f, q).http[f] = q /\ PutHttp(a, f, q).net = a.net
           /\ SetBuf(PutHttp(a, f, q), f, v) = PutHttp(a, f, WithBuf(q, v))
           /\ http_send_data(PutHttp(a, f, q), f, v) = PutHttp(a, f, WithGiven(q, v))
<1> DEFINE b == PutHttp(a, f, q)
           h == a.http
<1>1. h \in [Fds -> Req] BY DEF State
<1>2. b.http = [h EXCEPT ![f] = q] /\ b.net = a.net BY DEF State, PutHttp
<1>3. b.http[f] = q BY <1>1, <1>2
<1>4. ASSUME NEW r PROVE [b EXCEPT !.http[f] = r] = PutHttp(a, f, r)
  <2>1. [b EXCEPT !.http[f] = r] = [b EXCEPT !.http = [b.http EXCEPT ![f] = r]] OBVIOUS
  <2>2. [b.http EXCEPT ![f] = r] = [h EXCEPT ![f] = r] BY <1>1, <1>2
  <2>3. PutHttp(a, f, r) = [a EXCEPT !.http = [h EXCEPT ![f] = r]] BY DEF PutHttp
  <2>4. b = [a EXCEPT !.http = [h EXCEPT ![f] = q]] BY DEF PutHttp
  <2> DEFINE x == [h EXCEPT ![f] = r]
             y == [h EXCEPT ![f] = q]
  <2>5. b = [a EXCEPT !.http = y] BY <2>4
  <2> HIDE DEF x, y, b, h
  <2>6. [b EXCEPT !.http = x] = [a EXCEPT !.http = x] BY <2>5 DEF State
  <2> QED BY <2>1, <2>2, <2>3, <2>6 DEF x
<1>5. [b EXCEPT !.http[f].buf = v] = [b EXCEPT !.http[f] = [b.http[f] EXCEPT !.buf = v]]
  OBVIOUS
<1>6. [b EXCEPT !.http[f].given = @ \o v]
        = [b EXCEPT !.http[f] = [b.http[f] EXCEPT !.given = b.http[f].given \o v]]
  OBVIOUS
<1> HIDE DEF b
<1>8. [b EXCEPT !.http[f].buf = v] = PutHttp(a, f, [q EXCEPT !.buf = v]) BY <1>3, <1>4, <1>5
<1>9. [b EXCEPT !.http[f].given = @ \o v] = PutHttp(a, f, [q EXCEPT !.given = q.given \o v])
  BY <1>3, <1>4, <1>6
<1> QED BY <1>2, <1>3, <1>8, <1>9 DEF b, http_send_data, SetBuf, WithBuf, WithGiven

NextReq(r, q) == /\ q \in Req /\ q.on = r.on
                 /\ q.state = "SENDING_BODY" <=> r.state = "SENDING_BODY"
LEMMA PutNear ==
    ASSUME NEW a, NEW f \in Fds, Working(a, f), NEW q, NextReq(a.http[f], q)
    PROVE  /\ Near(PutHttp(a, f, q), f)
           /\ Becomes(PutHttp(a, f, q), f, a.net[f], q, a.spoiled)
           /\ ReqOK(q) /\ Answers(a, f, a.net[f], q) => Working(PutHttp(a, f, q), f)
<1> DEFINE n == a.net[f]
           sp == a.spoiled
<1>1. Near(a, f) /\ a \in State /\ n \in Net BY WorkingParts
<1>2. Follows(a, f, n, q) BY <1>1 DEF Follows, NextReq
<1>3. Upd(a, f, n, q, sp) = PutHttp(a, f, q) BY <1>1 DEF Upd, PutHttp, State
<1>4. Spoils(a, f, sp) BY DEF Spoils
<1> HIDE DEF n, sp
<1>5. Near(Upd(a, f, n, q, sp), f) /\ Becomes(Upd(a, f, n, q, sp), f, n, q, sp)
  BY <1>1, <1>2, <1>4, UpdNear, Zenon
<1>6. ReqOK(q) /\ Answers(a, f, n, q) => Working(Upd(a, f, n, q, sp), f)
  <2>1. ReqOK(q) /\ Answers(a, f, n, q) => Working(Upd(a, f, n, q, a.spoiled), f)
    BY <1>1, <1>2, UpdWorks, Zenon
  <2> QED BY <2>1 DEF sp
<1> QED BY <1>3, <1>5, <1>6 DEF n, sp

True(n, q) == q.given = n.sent /\ n.srv = "quiet" /\ q.total = Len(q.given)
LEMMA PutFinish ==
    ASSUME NEW a, NEW f \in Fds, Working(a, f), NEW q, NextReq(a.http[f], q),
           (f \notin a.spoiled /\ a.net[f].link = "up") => True(a.net[f], q)
    PROVE  Fine(http_finish_request(PutHttp(a, f, q), f))
<1> DEFINE b == PutHttp(a, f, q)
<1>1. Near(b, f) /\ Becomes(b, f, a.net[f], q, a.spoiled) BY PutNear, Zenon
<1> HIDE DEF b
<1>2. Truthful(b, f) BY <1>1 DEF Truthful, Becomes, True
<1>3. Fine(http_finish_request(b, f)) BY <1>1, <1>2, EndFine
<1> QED BY <1>3 DEF b

(* recv_buf behind the headers. *)
LEMMA BodyIs ==
    ASSUME NEW buf \in Seq(Units), HeaderEnd(buf) > 0
    PROVE  /\ BodyOf(buf) \in Seq(Units) /\ Len(BodyOf(buf)) <= Len(buf)
           /\ ResponseOf(buf).cl \in Int
<1> DEFINE e == HeaderEnd(buf)
           l == Len(buf)
<1>1. e \in 0..l /\ (e # 0 => IsEnd(buf[e])) BY HeaderEndIs, Zenon
<1>2. l \in Nat OBVIOUS
<1>3. BodyOf(buf) = SubSeq(buf, e + 1, l) /\ ResponseOf(buf) = Responses[-10 - buf[e]]
  BY DEF BodyOf, ResponseOf
<1>4. e > 0 OBVIOUS
<1> HIDE DEF e
<1>5. SubSeq(buf, e + 1, l) \in Seq(Units) /\ Len(SubSeq(buf, e + 1, l)) = l - e
  BY <1>1, CutSeq, Zenon
<1>6. buf[e] \in Units /\ IsEnd(buf[e]) BY <1>1, <1>2, <1>4
<1>7. -10 - buf[e] \in 1..4 BY <1>6, UnitKinds
<1>8. ResponseOf(buf).cl \in Int BY <1>3, <1>7, Kinds
<1> HIDE DEF l
<1>9. l - e <= l BY <1>1, <1>2
<1> QED BY <1>3, <1>5, <1>8, <1>9 DEF l

LEMMA Eof ==
    ASSUME NEW g \in Seq(Units), NEW b \in Seq(Units), chunked_eof(b)
    PROVE  (g \o b) # <<>> /\ (g \o b)[Len(g \o b)] = Eof2
<1> DEFINE lg == Len(g)
           lb == Len(b)
           w == g \o b
<1>1. lb \in Nat /\ lg \in Nat /\ lb >= 2 /\ b[lb] = Eof2 BY DEF chunked_eof
<1>2. Len(w) = lg + lb /\ \A i \in 1..lb : w[lg + i] = b[i] BY Cat, Zenon
<1>3. w \in Seq(Units) OBVIOUS
<1> HIDE DEF lg, lb, w
<1>4. lb \in 1..lb /\ Len(w) # 0 BY <1>1, <1>2
<1>5. w[Len(w)] = Eof2 BY <1>1, <1>2, <1>4
<1>6. w # <<>> BY <1>4
<1> QED BY <1>5, <1>6 DEF w

(* With the headers the client knows what to wait for. *)
Known(r, cl, body) == [r EXCEPT !.state = "RECEIVING_BODY", !.headers_complete = TRUE,
                                !.cl = cl, !.total = Len(body)]
LEMMA KnownResponse ==
    ASSUME NEW n \in Net, NEW r \in Req, r.state = "RECEIVING_HEADERS",
           HeaderEnd(r.buf) > 0, NEW body, body = BodyOf(r.buf),
           NEW cl, cl = ResponseOf(r.buf).cl
    PROVE  LET q == Known(r, cl, body)
               q2 == [q EXCEPT !.buf = body]
           IN  /\ q \in Req /\ q2 \in Req /\ q2.buf = body /\ q2.cl = cl
               /\ q2.state = "RECEIVING_BODY" /\ q2.on = r.on /\ q.on = r.on
               /\ q.state = "RECEIVING_BODY" /\ q.given = r.given /\ q.total = Len(body)
               /\ q2.given = r.given /\ Len(body) <= Len(r.buf)
               /\ body \in Seq(Units)
               /\ Response(n, r) => Response(n, q2)
<1> DEFINE q == Known(r, cl, body)
           q2 == [q EXCEPT !.buf = body]
<1>1. r.buf \in Seq(Units) BY Types
<1>2. body \in Seq(Units) /\ Len(body) <= Len(r.buf) /\ cl \in Int BY <1>1, BodyIs
<1>3. Len(body) \in Nat /\ Len(body) \in Int BY <1>2
<1> DEFINE l == Len(body)
<1>4. q = [r EXCEPT !.state = "RECEIVING_BODY", !.headers_complete = TRUE,
                    !.cl = cl, !.total = l] BY DEF Known
<1>5. l \in Int BY <1>3
<1> HIDE DEF q, l
<1>6. q \in Req BY <1>2, <1>4, <1>5, ZenonT(30) DEF Req
<1>7. /\ q.state = "RECEIVING_BODY" /\ q.on = r.on /\ q.given = r.given /\ q.total = l
      /\ q.cl = cl
  BY <1>4 DEF Req
<1>8. q2 \in Req BY <1>2, <1>6, ZenonT(30) DEF Req
<1>9. /\ q2.state = "RECEIVING_BODY" /\ q2.on = r.on /\ q2.given = r.given /\ q2.total = l
      /\ q2.cl = cl /\ q2.buf = body
  BY <1>6, <1>7 DEF Req
<1> HIDE DEF q2
<1>10. ASSUME Response(n, r) PROVE Response(n, q2)
  <2>1. body \o n.in = n.sent /\ r.given = <<>> /\ BodyOK(n, cl)
    BY <1>10, HeadersEnd
  <2>2. <<>> \o (body \o n.in) = body \o n.in
    <3>1. n.in \in Seq(Units) BY Types
    <3>2. body \o n.in \in Seq(Units) BY <1>2, <3>1, Cat, Zenon
    <3> QED BY <3>2, Cat, Zenon
  <2>3. Len(r.given) = 0 BY <2>1
  <2>4. l = 0 + l BY <1>5
  <2> QED BY <1>9, <2>1, <2>2, <2>3, <2>4 DEF Response, l
<1> QED BY <1>2, <1>6, <1>7, <1>8, <1>9, <1>10 DEF q, q2, l

(* The host is given all of recv_buf. *)
GiveAll(q) == [[q EXCEPT !.given = q.given \o q.buf] EXCEPT !.buf = <<>>]
LEMMA GiveAllIs ==
    ASSUME NEW n \in Net, NEW q \in Req, q.state = "RECEIVING_BODY"
    PROVE  /\ GiveAll(q) \in Req /\ GiveAll(q).state = q.state /\ GiveAll(q).on = q.on
           /\ GiveAll(q).given = q.given \o q.buf /\ GiveAll(q).cl = q.cl
           /\ GiveAll(q).buf = <<>>
           /\ ReqOK(q) => ReqOK(GiveAll(q))
           /\ Response(n, q) => Response(n, GiveAll(q))
<1> DEFINE r == GiveAll(q)
           b == q.buf
           g == q.given
           x == g \o b
<1>1. b \in Seq(Units) /\ g \in Seq(Units) /\ Len(b) \in Nat /\ q.idle \in BOOLEAN
  BY Types DEF Req
<1>2. r = [[q EXCEPT !.given = x] EXCEPT !.buf = <<>>] BY DEF GiveAll
<1> HIDE DEF b, g, r
<1>3. Len(b) \in 0..Len(b) BY <1>1
<1>4. SubSeq(b, 1, Len(b)) = b /\ SubSeq(b, Len(b) + 1, Len(b)) = <<>>
  BY <1>1, <1>3, CutSeq, Zenon
<1>5. GiveReq(q, Len(b), q.idle) = [q EXCEPT !.given = x, !.buf = <<>>, !.idle = q.idle]
  BY <1>4 DEF GiveReq, b, g
<1> HIDE DEF x
<1>6. r = GiveReq(q, Len(b), q.idle) BY <1>2, <1>5 DEF Req
<1>7. /\ GiveReq(q, Len(b), q.idle) \in Req
      /\ (q.state = "RECEIVING_BODY" /\ Response(n, q)) => Response(n, GiveReq(q, Len(b), q.idle))
  BY <1>1, <1>3, GiveResponse DEF b
<1>8. r \in Req /\ (Response(n, q) => Response(n, r)) BY <1>6, <1>7
<1>9. /\ r.state = q.state /\ r.on = q.on /\ r.given = x /\ r.cl = q.cl /\ r.buf = <<>>
      /\ r.headers_complete = q.headers_complete
  BY <1>2 DEF Req
<1>10. ReqOK(q) => ReqOK(r)
  <2>1. Len(r.buf) = 0 /\ 0 <= RecvBuf BY <1>9, SocketsAssumption
  <2>2. r.on \/ ~q.on BY <1>9
  <2>3. ~q.on /\ ReqOK(q) => q = NoReq BY DEF ReqOK
  <2>4. q # NoReq BY DEF NoReq
  <2> QED BY <1>9, <2>1, <2>2, <2>3, <2>4 DEF ReqOK
<1> QED BY <1>8, <1>9, <1>10 DEF r, x, b, g

(* http_headers_complete.  POLLHUP means that the peer has closed. *)
LEMMA HeadersCompleteFine ==
    ASSUME NEW a, NEW f \in Fds, Working(a, f), a.http[f].state = "RECEIVING_HEADERS",
           HeaderEnd(a.http[f].buf) > 0, NEW hup \in BOOLEAN, hup => a.net[f].link = "fin"
    PROVE  Fine(http_headers_complete(a, f, hup))
<1> DEFINE n == a.net[f]
           r == a.http[f]
           body == BodyOf(r.buf)
           nobody == r.head \/ ResponseOf(r.buf).nobody
           cl == ResponseOf(r.buf).cl
           q == Known(r, cl, body)
           q2 == [q EXCEPT !.buf = body]
           q3 == GiveAll(q2)
           t == PutHttp(a, f, q)
           t1 == PutHttp(a, f, q3)
           done == IF cl >= 0 THEN Len(body) >= cl ELSE chunked_eof(body)
           up == f \notin a.spoiled /\ n.link \in {"down", "up"}
<1>1. /\ a \in State /\ ReqOK(r) /\ n \in Net /\ r \in Req /\ r.on
      /\ up => Response(n, r)
  BY WorkingParts
<1>2. a.http \in [Fds -> Req] BY <1>1 DEF State
<1>3. [a EXCEPT !.http[f].state = "RECEIVING_BODY", !.http[f].headers_complete = TRUE,
                !.http[f].cl = cl, !.http[f].total = Len(body)] = t
  BY <1>2 DEF PutHttp, Known
<1>4. /\ q \in Req /\ q2 \in Req /\ q2.buf = body /\ q2.cl = cl
      /\ q2.state = "RECEIVING_BODY" /\ q2.on = r.on /\ q.on = r.on
      /\ q.state = "RECEIVING_BODY" /\ q.given = r.given /\ q.total = Len(body)
      /\ q2.given = r.given /\ Len(body) <= Len(r.buf)
      /\ body \in Seq(Units)
      /\ Response(n, r) => Response(n, q2)
  BY <1>1, KnownResponse
<1>5. Response(n, r) => /\ body \o n.in = n.sent /\ r.given = <<>>
                        /\ nobody => n.srv = "quiet" /\ n.sent = <<>>
  BY <1>1, HeadersEnd
<1>6. http_headers_complete(a, f, hup) =
        CASE nobody -> http_finish_request(t, f)
          [] ~nobody /\ r.manual -> xapoll_stop([t EXCEPT !.http[f].buf = body], f)
          [] ~nobody /\ ~r.manual /\ (hup \/ done) ->
                http_finish_request([http_send_data(t, f, body) EXCEPT !.http[f].buf = <<>>], f)
          [] OTHER -> Rearm([http_send_data(t, f, body) EXCEPT !.http[f].buf = <<>>], f)
  BY <1>3 DEF http_headers_complete
<1> HIDE DEF n, r, body, nobody, cl, q
<1>7. q3 = [[q EXCEPT !.given = q.given \o body] EXCEPT !.buf = <<>>]
  BY <1>4 DEF GiveAll, Req
<1>8. a \in State BY <1>1
<1>9. [t EXCEPT !.http[f].buf = body] = PutHttp(a, f, q2)
  <2>1. SetBuf(PutHttp(a, f, q), f, body) = PutHttp(a, f, WithBuf(q, body))
    BY <1>8, PutTwice, Zenon
  <2> QED BY <2>1 DEF SetBuf, WithBuf
<1>10. [http_send_data(t, f, body) EXCEPT !.http[f].buf = <<>>] = t1
  <2> DEFINE p == WithGiven(q, body)
  <2>1. http_send_data(PutHttp(a, f, q), f, body) = PutHttp(a, f, WithGiven(q, body))
    BY <1>8, PutTwice, Zenon
  <2>2. http_send_data(t, f, body) = PutHttp(a, f, p) BY <2>1
  <2>3. q3 = WithBuf(p, <<>>) BY <1>7 DEF WithBuf, WithGiven
  <2> HIDE DEF p, t, q3
  <2>4. SetBuf(PutHttp(a, f, p), f, <<>>) = PutHttp(a, f, WithBuf(p, <<>>))
    BY <1>8, PutTwice, Zenon
  <2> QED BY <2>2, <2>3, <2>4 DEF SetBuf
<1> HIDE DEF t, t1, q2
<1>11. /\ q3 \in Req /\ q3.state = "RECEIVING_BODY" /\ q3.on = r.on
       /\ q3.given = r.given \o body /\ q3.cl = cl /\ q3.buf = <<>>
       /\ ReqOK(q2) => ReqOK(q3)
       /\ Response(n, q2) => Response(n, q3)
  BY <1>1, <1>4, GiveAllIs
<1> HIDE DEF q3
<1>12. ReqOK(q2)
  <2>1. Len(r.buf) <= RecvBuf /\ RecvBuf \in Nat BY <1>1, SocketsAssumption DEF ReqOK
  <2>2. Len(body) \in Nat /\ Len(r.buf) \in Nat BY <1>1, <1>4, Types
  <2>3. Len(q2.buf) <= RecvBuf BY <1>4, <2>1, <2>2
  <2> QED BY <1>1, <1>4, <2>3 DEF ReqOK
<1>13. NextReq(r, q) /\ NextReq(r, q2) /\ NextReq(r, q3)
  <2>1. r.state # "SENDING_BODY" BY DEF r
  <2> QED BY <1>4, <1>11, <2>1 DEF NextReq
<1>14. CASE nobody
  <2>1. ASSUME f \notin a.spoiled, n.link = "up" PROVE True(n, q)
    <3>1. /\ n.srv = "quiet" /\ n.sent = <<>> /\ body \o n.in = <<>> /\ r.given = <<>>
      BY <1>1, <1>5, <1>14, <2>1
    <3>2. n.in \in Seq(Units) /\ Len(n.in) \in Nat /\ Len(body) \in Nat BY <1>1, <1>4, Types
    <3>3. Len(body \o n.in) = Len(body) + Len(n.in) BY <1>4, <3>2, Cat, Zenon
    <3>4. Len(body) = 0 /\ Len(r.given) = 0 BY <3>1, <3>2, <3>3
    <3> QED BY <1>4, <3>1, <3>4 DEF True
  <2>2. Fine(http_finish_request(t, f)) BY <1>13, <2>1, PutFinish DEF n, r, t
  <2> QED BY <1>6, <1>14, <2>2
<1>15. CASE ~nobody /\ r.manual
  <2>1. Answers(a, f, n, q2) BY <1>1, <1>4 DEF Answers
  <2>2. Working(PutHttp(a, f, q2), f) BY <1>12, <1>13, <2>1, PutNear DEF n, r
  <2>3. Fine(xapoll_stop(PutHttp(a, f, q2), f))
    BY <2>2, SetFine, {} \in SUBSET Events DEF Working
  <2> QED BY <1>6, <1>9, <1>15, <2>3
<1>16. CASE ~nobody /\ ~r.manual /\ (hup \/ done)
  <2>1. ASSUME f \notin a.spoiled, n.link = "up" PROVE True(n, q3)
    <3>1. ~hup /\ done BY <1>16, <2>1 DEF n
    <3>2. Response(n, r) BY <1>1, <2>1
    <3>3. Response(n, q3) /\ r.given = <<>> BY <1>4, <1>5, <1>11, <3>2
    <3>4. <<>> \o body = body BY <1>4, Cat
    <3>5. q3.given = body BY <1>11, <3>3, <3>4
    <3>6. AtEnd(body, cl)
      <4>1. CASE cl >= 0 BY <3>1, <4>1 DEF AtEnd
      <4>2. CASE ~(cl >= 0)
        <5>1. chunked_eof(body) BY <3>1, <4>2
        <5>2. (<<>> \o body) # <<>> /\ (<<>> \o body)[Len(<<>> \o body)] = Eof2
          <6>1. <<>> \in Seq(Units) OBVIOUS
          <6> QED BY <1>4, <5>1, <6>1, Eof, Zenon
        <5>3. <<>> \o body = body BY <1>4, Cat, Zenon
        <5> QED BY <5>2, <5>3 DEF AtEnd
      <4> QED BY <4>1, <4>2
    <3>7. AtEnd(q3.given, q3.cl) BY <1>11, <3>5, <3>6
    <3>8. n \in Net /\ q3 \in Req /\ q3.state = "RECEIVING_BODY" BY <1>1, <1>11
    <3> QED BY <3>3, <3>7, <3>8, Complete DEF True
  <2>2. Fine(http_finish_request(t1, f)) BY <1>13, <2>1, PutFinish DEF n, r, t1
  <2> QED BY <1>6, <1>10, <1>16, <2>2
<1>17. CASE ~nobody /\ ~r.manual /\ ~(hup \/ done)
  <2>1. Answers(a, f, n, q3) BY <1>1, <1>4, <1>11 DEF Answers
  <2>2. ReqOK(q3) BY <1>11, <1>12
  <2>3. Working(t1, f)
    BY <1>13, <2>1, <2>2, PutNear DEF n, r, t1
  <2>4. Working(Rearm(t1, f), f) BY <2>3, RearmWorks
  <2> QED BY <1>6, <1>10, <1>17, <2>4 DEF Working
<1> QED BY <1>14, <1>15, <1>16, <1>17

LEMMA RecvHeadersFine ==
    ASSUME NEW a, NEW f \in Fds, Working(a, f), a.http[f].state = "RECEIVING_HEADERS",
           NEW hup \in BOOLEAN, hup => a.net[f].link = "fin"
    PROVE  Fine(http_process_recv_headers(a, f, hup))
<1> DEFINE buf == a.http[f].buf
           e == HeaderEnd(buf)
<1>1. buf \in Seq(Units) BY WorkingParts, Types
<1>2. e \in 0..Len(buf) BY <1>1, HeaderEndIs, Zenon
<1>3. Len(buf) \in Nat /\ RecvBuf \in Nat BY <1>1, SocketsAssumption
<1>4. e > 0 => Fine(http_headers_complete(a, f, hup)) BY HeadersCompleteFine
<1>5. Fine(http_fail_request(a, f)) BY WorkingParts, EndFine
<1>6. Fine(Rearm(a, f)) BY RearmWorks DEF Working
<1>7. http_process_recv_headers(a, f, hup) =
        CASE e > 0 -> http_headers_complete(a, f, hup)
          [] e = 0 /\ Len(buf) >= RecvBuf -> http_fail_request(a, f)
          [] OTHER -> Rearm(a, f)
  BY DEF http_process_recv_headers
<1> HIDE DEF e, buf
<1> QED BY <1>2, <1>3, <1>4, <1>5, <1>6, <1>7

LEMMA RecvBodyFine ==
    ASSUME NEW a, NEW f \in Fds, Working(a, f), a.http[f].state = "RECEIVING_BODY",
           NEW hup \in BOOLEAN, hup => a.net[f].link = "fin"
    PROVE  Fine(http_process_recv_body(a, f, hup))
<1> DEFINE n == a.net[f]
           r == a.http[f]
           q == GiveAll(r)
           t == PutHttp(a, f, q)
           sent == Len(r.given) + Len(r.buf)
           end == chunked_eof(r.buf) \/ (r.cl > 0 /\ sent >= r.cl) \/ hup
<1>1. /\ a \in State /\ ReqOK(r) /\ n \in Net /\ r \in Req /\ r.on
      /\ (f \notin a.spoiled /\ n.link \in {"down", "up"}) => Response(n, r)
  BY WorkingParts
<1>2. a \in State /\ PutHttp(a, f, r) = a BY <1>1 DEF State, PutHttp
<1>3. [http_send_data(a, f, r.buf) EXCEPT !.http[f].buf = <<>>] = t
  <2> DEFINE p == WithGiven(r, r.buf)
             b == r.buf
  <2>1. a \in State BY <1>1
  <2>2. http_send_data(PutHttp(a, f, r), f, b) = PutHttp(a, f, WithGiven(r, b))
    <3> HIDE DEF r, b
    <3> QED BY <2>1, PutTwice, Zenon
  <2>3. http_send_data(a, f, r.buf) = PutHttp(a, f, p) BY <1>2, <2>2
  <2>4. q = WithBuf(p, <<>>) BY DEF WithBuf, WithGiven, GiveAll
  <2> HIDE DEF p, q
  <2>5. SetBuf(PutHttp(a, f, p), f, <<>>) = PutHttp(a, f, WithBuf(p, <<>>))
    BY <2>1, PutTwice, Zenon
  <2> QED BY <2>3, <2>4, <2>5 DEF SetBuf
<1>4. http_process_recv_body(a, f, hup) =
        CASE r.manual -> xapoll_stop(a, f)
          [] ~r.manual /\ end -> http_finish_request(t, f)
          [] OTHER -> Rearm(t, f)
  BY <1>3 DEF http_process_recv_body
<1>5. /\ q \in Req /\ q.state = r.state /\ q.on = r.on /\ q.given = r.given \o r.buf
      /\ q.cl = r.cl /\ ReqOK(q)
      /\ Response(n, r) => Response(n, q)
  BY <1>1, GiveAllIs
<1> HIDE DEF q
<1>6. NextReq(r, q) BY <1>5 DEF NextReq
<1>7. Fine(xapoll_stop(a, f)) BY SetFine, {} \in SUBSET Events DEF Working
<1>8. Working(t, f)
  <2>1. Answers(a, f, n, q) BY <1>1, <1>5 DEF Answers
  <2> QED BY <1>5, <1>6, <2>1, PutNear
<1>9. Fine(Rearm(t, f)) BY <1>8, RearmWorks DEF Working
<1>10. ASSUME end PROVE Fine(http_finish_request(t, f))
  <2>1. ASSUME f \notin a.spoiled, n.link = "up" PROVE True(n, q)
    <3>1. Response(n, q) BY <1>1, <1>5, <2>1
    <3>2. r.given \in Seq(Units) /\ r.buf \in Seq(Units) /\ r.cl \in Int BY <1>1, Types
    <3>3. AtEnd(q.given, q.cl)
      <4>1. CASE chunked_eof(r.buf)
        <5> DEFINE g == r.given
                   b == r.buf
        <5>1. (g \o b) # <<>> /\ (g \o b)[Len(g \o b)] = Eof2 BY <3>2, <4>1, Eof, Zenon
        <5> QED BY <1>5, <5>1 DEF AtEnd
      <4>2. CASE r.cl > 0 /\ sent >= r.cl
        <5>1. Len(q.given) = sent BY <1>5, <3>2, Cat
        <5>2. q.cl \in Int /\ q.cl > 0 /\ Len(q.given) >= q.cl BY <1>5, <3>2, <4>2, <5>1
        <5>3. q.cl >= 0 BY <5>2
        <5> QED BY <5>2, <5>3 DEF AtEnd
      <4>3. ~hup BY <2>1
      <4> QED BY <1>10, <4>1, <4>2, <4>3
    <3>4. n \in Net /\ q \in Req /\ q.state = "RECEIVING_BODY" BY <1>1, <1>5
    <3> QED BY <3>1, <3>3, <3>4, Complete DEF True
  <2> QED BY <1>6, <2>1, PutFinish
<1> HIDE DEF end, t
<1> QED BY <1>4, <1>7, <1>9, <1>10

LEMMA NothingFine ==
    ASSUME NEW a, NEW f \in Fds, Working(a, f), NEW failed \in BOOLEAN
    PROVE  Fine(Nothing(a, f, failed))
<1> DEFINE n == a.net[f]
           r == a.http[f]
           sp == a.spoiled \cup {f}
           b == [a EXCEPT !.spoiled = sp]
           Over(t) == IF failed THEN http_fail_request(t, f) ELSE http_finish_request(t, f)
<1>1. Near(a, f) /\ a \in State /\ n \in Net /\ r \in Req BY WorkingParts
<1>2. Nothing(a, f, failed) =
        CASE Len(r.buf) = RecvBuf -> Over(b)
          [] Len(r.buf) < RecvBuf /\ n.link = "fin" -> Over(a)
          [] Len(r.buf) < RecvBuf /\ n.link = "rst" -> http_fail_request(a, f)
          [] OTHER -> set_xapoll_events(a, f, {"IN"})
  BY DEF Nothing
<1>3. Upd(a, f, n, r, sp) = b BY <1>1 DEF Upd, State
<1>4. Follows(a, f, n, r) /\ Spoils(a, f, sp) BY <1>1 DEF Follows, Spoils
<1>5. n.link = "fin" => Truthful(a, f) BY DEF Truthful
<1>6. f \in sp OBVIOUS
<1> HIDE DEF n, r, sp
<1>7. Near(Upd(a, f, n, r, sp), f) /\ Becomes(Upd(a, f, n, r, sp), f, n, r, sp)
  BY <1>1, <1>4, UpdNear
<1> HIDE DEF b
<1>8. Near(b, f) /\ Truthful(b, f) BY <1>3, <1>6, <1>7 DEF Becomes, Truthful
<1>9. Fine(Over(b)) BY <1>8, EndFine
<1>10. n.link = "fin" => Fine(Over(a)) BY <1>1, <1>5, EndFine
<1>11. Fine(http_fail_request(a, f)) BY <1>1, EndFine
<1>12. Fine(set_xapoll_events(a, f, {"IN"}))
  BY SetFine, {"IN"} \in SUBSET Events DEF Events, Working
<1> HIDE DEF Over
<1> QED BY <1>2, <1>9, <1>10, <1>11, <1>12

LEMMA ReceivingFine ==
    ASSUME NEW a, NEW f \in Fds, Working(a, f), NEW ev \in SUBSET Events,
           "HUP" \in ev => a.net[f].link = "fin"
    PROVE  /\ a.http[f].state = "RECEIVING_HEADERS" => Fine(ReceivingHeaders(a, f, ev))
           /\ a.http[f].state = "RECEIVING_BODY" => Fine(ReceivingBody(a, f, ev))
<1> DEFINE b == http_recv_read(a, f)
           hup == "HUP" \in ev
           st == a.http[f].state
           k == ReadLen(a, f)
<1>1. hup \in BOOLEAN OBVIOUS
<1>2. k \in Nat BY ReadLenIs, 0 \in Nat
<1>3. st \in {"RECEIVING_HEADERS", "RECEIVING_BODY"} =>
        Working(b, f) /\ b.http[f].state = st /\ b.net[f].link = a.net[f].link
  BY ReadWorks
<1> HIDE DEF b, k
<1>4. st = "RECEIVING_HEADERS" => Fine(http_process_recv_headers(b, f, hup))
  BY <1>1, <1>3, RecvHeadersFine
<1>5. st = "RECEIVING_BODY" => Fine(http_process_recv_body(b, f, hup))
  BY <1>1, <1>3, RecvBodyFine
<1>6. Fine(Nothing(a, f, TRUE)) /\ Fine(Nothing(a, f, FALSE)) BY NothingFine
<1>7. Near(a, f) /\ Fine(a) BY WorkingParts
<1>8. Fine(http_fail_request(a, f)) BY <1>7, EndFine
<1>9. hup => Fine(http_finish_request(a, f))
  <2>1. hup => Truthful(a, f) BY DEF Truthful
  <2> QED BY <1>7, <2>1, EndFine
<1>10. st = "RECEIVING_HEADERS" => Fine(ReceivingHeaders(a, f, ev))
  <2>1. ReceivingHeaders(a, f, ev) =
          CASE "IN" \in ev /\ k > 0 -> http_process_recv_headers(b, f, hup)
            [] "IN" \in ev /\ k = 0 -> Nothing(a, f, TRUE)
            [] OTHER -> IF hup THEN http_fail_request(a, f) ELSE a
    BY DEF ReceivingHeaders, b, k
  <2> HIDE DEF hup
  <2> QED BY <1>2, <1>4, <1>6, <1>7, <1>8, <2>1
<1>11. st = "RECEIVING_BODY" => Fine(ReceivingBody(a, f, ev))
  <2>1. ReceivingBody(a, f, ev) =
          CASE "IN" \in ev /\ k > 0 -> http_process_recv_body(b, f, hup)
            [] "IN" \in ev /\ k = 0 -> Nothing(a, f, FALSE)
            [] OTHER -> IF hup THEN http_finish_request(a, f) ELSE a
    BY DEF ReceivingBody, b, k
  <2> HIDE DEF hup
  <2> QED BY <1>2, <1>5, <1>6, <1>7, <1>9, <2>1
<1> QED BY <1>10, <1>11

LEMMA PollEventFine ==
    ASSUME NEW a, NEW f \in Fds, Fine(a), NEW ev \in SUBSET Events, NEW u \in Int,
           a.use = "http" /\ "HUP" \in ev => a.net[f].link = "fin"
    PROVE  Fine(sm_at_httpc_poll_event(a, f, ev, u))
<1>1. CASE ~a.http[f].on
  <2>1. sm_at_httpc_poll_event(a, f, ev, u) = a
    BY <1>1 DEF sm_at_httpc_poll_event, find_request
  <2> QED BY <2>1
<1>2. CASE a.http[f].on
  <2> DEFINE b == Disarm(a, f)
             st == b.http[f].state
  <2>1. sm_at_httpc_poll_event(a, f, ev, u) = http_process_request(b, f, ev, u)
    BY <1>2 DEF sm_at_httpc_poll_event, find_request, Disarm
  <2>2. Working(a, f) BY <1>2 DEF Working
  <2>3. a.use = "http" BY <1>2 DEF Fine, StateOK, SockOK
  <2>4. Working(b, f) /\ b.net[f].link = a.net[f].link BY <2>2, RearmWorks
  <2> HIDE DEF b
  <2>5. "HUP" \in ev => b.net[f].link = "fin" BY <2>3, <2>4
  <2>6. /\ st = "RECEIVING_HEADERS" => Fine(ReceivingHeaders(b, f, ev))
        /\ st = "RECEIVING_BODY" => Fine(ReceivingBody(b, f, ev))
    BY <2>4, <2>5, ReceivingFine
  <2>7. st = "SENDING_REQUEST" => Fine(SendingRequest(b, f, u)) BY <2>4, SendingFine
  <2>8. Fine(b) /\ Fine(http_fail_request(b, f)) BY <2>4, WorkingParts, EndFine
  <2>9. Fine(http_process_request(b, f, ev, u))
    BY <2>6, <2>7, <2>8 DEF http_process_request
  <2> QED BY <2>1, <2>9
<1> QED BY <1>1, <1>2

-----------------------------------------------------------------------------
(* Steps that concern one socket.                                           *)

(* b is a, but for the socket f, its request and the channel. *)
Apart(a, b, f) ==
    /\ b \in State /\ b.use = a.use /\ b.untrue = a.untrue
    /\ \A g \in Fds \ {f} : /\ b.socks[g] = a.socks[g] /\ b.net[g] = a.net[g]
                            /\ b.http[g] = a.http[g] /\ (g \in b.spoiled <=> g \in a.spoiled)
                            /\ (b.datamode_req = g <=> a.datamode_req = g)
LEMMA ApartKeeps ==
    ASSUME NEW a, NEW b, NEW f \in Fds, StateOK(a), Apart(a, b, f), ChanOK(b), SockOK(b, f),
           b.owed = Cardinality(Active(b))
    PROVE  StateOK(b)
<1>1. ASSUME NEW g \in Fds \ {f} PROVE SockOK(b, g)
  <2>1. SockOK(a, g) BY <1>1 DEF StateOK
  <2>2. /\ b.socks[g] = a.socks[g] /\ b.net[g] = a.net[g] /\ b.use = a.use
        /\ b.http[g] = a.http[g] /\ (g \in b.spoiled <=> g \in a.spoiled)
        /\ (b.datamode_req = g <=> a.datamode_req = g)
    BY <1>1 DEF Apart
  <2> QED BY <2>1, <2>2 DEF SockOK
<1>2. \A g \in Fds : SockOK(b, g) BY <1>1
<1> QED BY <1>2 DEF StateOK, Apart

LEMMA ActiveIs ==
    ASSUME NEW a, NEW b, NEW f \in Fds, StateOK(a), Apart(a, b, f)
    PROVE  /\ (b.http[f].on <=> a.http[f].on) => Cardinality(Active(b)) = a.owed
           /\ b.http[f].on /\ ~a.http[f].on => Cardinality(Active(b)) = a.owed + 1
           /\ ~b.http[f].on /\ a.http[f].on => Cardinality(Active(b)) = a.owed - 1
<1>1. a.owed = Cardinality(Active(a)) BY DEF StateOK
<1>2. IsFiniteSet(Active(a)) BY SocketsAssumption, FS_Subset DEF Active
<1>3. \A g \in Fds \ {f} : b.http[g] = a.http[g] BY DEF Apart
<1>4. (b.http[f].on <=> a.http[f].on) => Active(b) = Active(a) BY <1>3 DEF Active
<1>5. ASSUME b.http[f].on, ~a.http[f].on PROVE Cardinality(Active(b)) = a.owed + 1
  <2>1. f \notin Active(a) /\ Active(b) = Active(a) \cup {f} BY <1>3, <1>5 DEF Active
  <2>2. Cardinality(Active(b)) = Cardinality(Active(a)) + 1 BY <1>2, <2>1, FS_AddElement
  <2> QED BY <1>1, <2>2
<1>6. ASSUME ~b.http[f].on, a.http[f].on PROVE Cardinality(Active(b)) = a.owed - 1
  <2>1. f \in Active(a) /\ Active(b) = Active(a) \ {f} BY <1>3, <1>6 DEF Active
  <2>2. Cardinality(Active(b)) = Cardinality(Active(a)) - 1 BY <1>2, <2>1, FS_RemoveElement
  <2> QED BY <1>1, <2>2
<1> QED BY <1>1, <1>4, <1>5, <1>6

Put(a, f, k, n, r) == [a EXCEPT !.socks[f] = k, !.net[f] = n, !.http[f] = r]
PutMore(b, sp, c, d, o) ==
    [b EXCEPT !.spoiled = sp, !.ctx = c, !.datamode_req = d, !.owed = o]
Is(b, f, k, n, r) == b.socks[f] = k /\ b.net[f] = n /\ b.http[f] = r
IsMore(b, sp, c, d, o) == b.spoiled = sp /\ b.ctx = c /\ b.datamode_req = d /\ b.owed = o
Others(a, f, sp, d) ==
    \A g \in Fds \ {f} : (g \in sp <=> g \in a.spoiled) /\ (d = g <=> a.datamode_req = g)
LEMMA PutApart ==
    ASSUME NEW a \in State, NEW f \in Fds, NEW k \in Sock, NEW n \in Net, NEW r \in Req
    PROVE  /\ Apart(a, Put(a, f, k, n, r), f) /\ Is(Put(a, f, k, n, r), f, k, n, r)
           /\ IsMore(Put(a, f, k, n, r), a.spoiled, a.ctx, a.datamode_req, a.owed)
<1> DEFINE b == Put(a, f, k, n, r)
<1>1. /\ a.socks \in [Fds -> Sock] /\ a.net \in [Fds -> Net] /\ a.http \in [Fds -> Req]
  BY DEF State
<1>2. /\ b.socks = [a.socks EXCEPT ![f] = k] /\ b.net = [a.net EXCEPT ![f] = n]
      /\ b.http = [a.http EXCEPT ![f] = r]
      /\ b.spoiled = a.spoiled /\ b.ctx = a.ctx /\ b.datamode_req = a.datamode_req
      /\ b.owed = a.owed /\ b.untrue = a.untrue /\ b.use = a.use
  BY DEF State, Put
<1>3. b \in State
  <2> DEFINE ks == [a.socks EXCEPT ![f] = k]
             ns == [a.net EXCEPT ![f] = n]
             rs == [a.http EXCEPT ![f] = r]
  <2>1. b = [a EXCEPT !.socks = ks, !.net = ns, !.http = rs] BY DEF Put
  <2>2. ks \in [Fds -> Sock] /\ ns \in [Fds -> Net] /\ rs \in [Fds -> Req] BY <1>1
  <2> HIDE DEF ks, ns, rs, b
  <2> QED BY <2>1, <2>2 DEF State
<1> HIDE DEF b
<1>4. Is(b, f, k, n, r) BY <1>1, <1>2 DEF Is
<1>5. Apart(a, b, f) BY <1>1, <1>2, <1>3 DEF Apart
<1> QED BY <1>2, <1>4, <1>5 DEF IsMore, b

LEMMA MoreApart ==
    ASSUME NEW a, NEW b, NEW f \in Fds, Apart(a, b, f), NEW sp \in SUBSET Fds, NEW c \in Chan,
           NEW d \in Fds \cup {NULL}, NEW o \in Int, Others(a, f, sp, d), NEW k, NEW n, NEW r,
           Is(b, f, k, n, r)
    PROVE  /\ Apart(a, PutMore(b, sp, c, d, o), f) /\ Is(PutMore(b, sp, c, d, o), f, k, n, r)
           /\ IsMore(PutMore(b, sp, c, d, o), sp, c, d, o)
<1> DEFINE e == PutMore(b, sp, c, d, o)
<1>1. b \in State BY DEF Apart
<1>2. e \in State BY <1>1 DEF PutMore, State
<1>3. /\ e.socks = b.socks /\ e.net = b.net /\ e.http = b.http /\ e.spoiled = sp /\ e.ctx = c
      /\ e.datamode_req = d /\ e.owed = o /\ e.untrue = b.untrue /\ e.use = b.use
  BY <1>1 DEF PutMore, State
<1> HIDE DEF e
<1>4. Apart(a, e, f) BY <1>2, <1>3 DEF Apart, Others
<1> QED BY <1>3, <1>4 DEF Is, IsMore, e

-----------------------------------------------------------------------------
(* A pull.                                                                  *)

LEMMA CheckFine ==
    ASSUME NEW a, NEW f \in Fds, Working(a, f), a.http[f].state = "RECEIVING_BODY",
           NEW g \in Seq(Units), NEW u \in Seq(Units), a.http[f].given = g \o u
    PROVE  Fine(CheckComplete(a, f, u))
<1> DEFINE n == a.net[f]
           r == a.http[f]
           end == \/ r.cl > 0 /\ Len(r.given) >= r.cl
                  \/ r.cl < 0 /\ r.buf = <<>> /\ chunked_eof(u)
<1>1. /\ Near(a, f) /\ Fine(a) /\ n \in Net /\ r \in Req
      /\ (f \notin a.spoiled /\ n.link \in {"down", "up"}) => Response(n, r)
  BY WorkingParts
<1>2. CheckComplete(a, f, u) = IF end THEN http_finish_request(a, f) ELSE a
  BY DEF CheckComplete
<1>3. r.cl \in Int BY <1>1, Types
<1>4. ASSUME end PROVE Truthful(a, f)
  <2>1. AtEnd(r.given, r.cl)
    <3>1. CASE r.cl > 0 /\ Len(r.given) >= r.cl
      <4>1. r.cl >= 0 BY <1>3, <3>1
      <4> QED BY <3>1, <4>1 DEF AtEnd
    <3>2. CASE chunked_eof(u)
      <4>1. (g \o u) # <<>> /\ (g \o u)[Len(g \o u)] = Eof2 BY <3>2, Eof, Zenon
      <4> QED BY <4>1 DEF AtEnd
    <3> QED BY <1>4, <3>1, <3>2
  <2>2. ASSUME f \notin a.spoiled, n.link = "up"
        PROVE  r.given = n.sent /\ n.srv = "quiet" /\ r.total = Len(r.given)
    <3>1. Response(n, r) BY <1>1, <2>2
    <3>2. n \in Net /\ r \in Req /\ r.state = "RECEIVING_BODY" BY <1>1
    <3> HIDE DEF n, r
    <3> QED BY <2>1, <3>1, <3>2, Complete
  <2> QED BY <2>2 DEF Truthful
<1> HIDE DEF end
<1>5. end => Fine(http_finish_request(a, f)) BY <1>1, <1>4, EndFine
<1> QED BY <1>1, <1>2, <1>5

LEMMA PullFine ==
    ASSUME NEW a, NEW f \in Fds, Working(a, f), a.http[f].headers_complete, NEW max \in Nat
    PROVE  Fine(pull_data(a, f, max))
<1> DEFINE n == a.net[f]
           r == a.http[f]
           b == r.buf
           i == n.in
           j == IF Len(b) < max THEN Len(b) ELSE max
           k == Available(a, f, max)
           x == SubSeq(b, 1, j)
           y == SubSeq(b, j + 1, Len(b))
           u == SubSeq(i, 1, k)
           v == SubSeq(i, k + 1, Len(i))
           q == GiveReq(r, j, FALSE)
           p == [r EXCEPT !.given = r.given \o u, !.total = r.total + k, !.idle = FALSE]
           m == ReadNet(n, k)
           t1 == PutHttp(a, f, q)
           t2 == Upd(a, f, m, p, a.spoiled)
           st == "RECEIVING_BODY"
<1>1. /\ Near(a, f) /\ Fine(a) /\ n \in Net /\ r \in Req /\ a \in State /\ ReqOK(r)
      /\ (f \notin a.spoiled /\ n.link \in {"down", "up"}) => Response(n, r)
  BY WorkingParts
<1>2. r.state = st BY <1>1 DEF ReqOK
<1>3. /\ b \in Seq(Units) /\ i \in Seq(Units) /\ r.given \in Seq(Units) /\ Len(b) \in Nat
      /\ Len(i) \in Nat
  BY <1>1, Types
<1>4. j \in 0..Len(b) BY <1>3
<1>5. k \in 0..Len(i) BY ReadLenIs
<1>6. a.http \in [Fds -> Req] /\ a.net \in [Fds -> Net] BY <1>1 DEF State
<1>7. pull_data(a, f, max) =
        CASE b # <<>> ->
                CheckComplete([http_send_data(a, f, x)
                                 EXCEPT !.http[f].buf = SubSeq(@, j + 1, Len(@)),
                                        !.http[f].idle = FALSE], f, x)
          [] b = <<>> /\ k > 0 ->
                CheckComplete([http_send_data(Consume(a, f, k), f, u)
                                 EXCEPT !.http[f].total = @ + k, !.http[f].idle = FALSE], f, u)
          [] OTHER -> CASE n.link = "fin" -> http_finish_request(a, f)
                        [] n.link = "rst" -> http_fail_request(a, f)
                        [] OTHER -> a
  BY DEF pull_data
<1>8. n.link = "fin" => Fine(http_finish_request(a, f))
  <2>1. n.link = "fin" => Truthful(a, f) BY DEF Truthful
  <2> QED BY <1>1, <2>1, EndFine
<1>9. Fine(http_fail_request(a, f)) BY <1>1, EndFine
<1>10. [http_send_data(a, f, x) EXCEPT !.http[f].buf = SubSeq(@, j + 1, Len(@)),
                                       !.http[f].idle = FALSE] = t1
  <2> DEFINE w == r.given \o x
             h == [a.http EXCEPT ![f].given = w]
             c == [a EXCEPT !.http = h]
  <2>1. http_send_data(a, f, x) = c BY DEF http_send_data
  <2>2. c.http = h BY <1>1 DEF State
  <2>3. h[f] = [r EXCEPT !.given = w] /\ h = [a.http EXCEPT ![f] = [r EXCEPT !.given = w]]
    BY <1>6
  <2>4. h[f].buf = b BY <1>1, <2>3 DEF Req
  <2>5. [c EXCEPT !.http[f].buf = SubSeq(@, j + 1, Len(@)), !.http[f].idle = FALSE]
          = [c EXCEPT !.http = [h EXCEPT ![f] = [h[f] EXCEPT !.buf = y, !.idle = FALSE]]]
    <3> HIDE DEF h, j
    <3> QED BY <2>2, <2>4
  <2> DEFINE e == [h[f] EXCEPT !.buf = y, !.idle = FALSE]
             h1 == [a.http EXCEPT ![f] = e]
  <2>6. [h EXCEPT ![f] = e] = h1
    <3> HIDE DEF e
    <3> QED BY <1>6
  <2>7. [c EXCEPT !.http = h1] = [a EXCEPT !.http = h1]
    <3> HIDE DEF h, h1
    <3> QED BY <1>1 DEF State
  <2>8. e = [[r EXCEPT !.given = w] EXCEPT !.buf = y, !.idle = FALSE] BY <2>3
  <2>9. e = q BY <2>8 DEF GiveReq
  <2>10. t1 = [a EXCEPT !.http = [a.http EXCEPT ![f] = q]] BY DEF PutHttp
  <2>11. [c EXCEPT !.http[f].buf = SubSeq(@, j + 1, Len(@)), !.http[f].idle = FALSE] = t1
    <3> HIDE DEF c, h, e, q, t1
    <3> QED BY <2>5, <2>6, <2>7, <2>9, <2>10 DEF e
  <2> QED BY <2>1, <2>11
<1>11. CASE b # <<>>
  <2>1. /\ q \in Req
        /\ (r.state = "RECEIVING_BODY" /\ Response(n, r)) => Response(n, q)
    <3>1. j \in 0..Len(r.buf) BY <1>4
    <3> HIDE DEF j, r, n
    <3> QED BY <1>1, <3>1, GiveResponse
  <2>2. /\ q.state = r.state /\ q.on = r.on /\ q.headers_complete = r.headers_complete
        /\ q.buf = y /\ q.given = r.given \o x
    <3> HIDE DEF j, r, n
    <3> QED BY <1>1 DEF GiveReq, Req, b, x, y
  <2>3. x \in Seq(Units) /\ y \in Seq(Units) /\ Len(y) = Len(b) - j
    <3> HIDE DEF j, b
    <3> QED BY <1>3, <1>4, CutSeq, Zenon
  <2>4. Len(y) <= Len(b)
    <3> DEFINE lb == Len(b)
               ly == Len(y)
    <3>1. lb \in Nat /\ j \in 0..lb /\ ly = lb - j BY <1>3, <1>4, <2>3
    <3> HIDE DEF lb, ly, j
    <3>2. ly <= lb BY <3>1
    <3> QED BY <3>2 DEF lb, ly
  <2> HIDE DEF x, y, q
  <2>5. ReqOK(q)
    <3>1. Len(b) <= RecvBuf /\ RecvBuf \in Nat BY <1>1, SocketsAssumption DEF ReqOK
    <3>2. Len(y) <= RecvBuf /\ q.on
      <4>1. Len(y) \in Nat BY <2>3
      <4> QED BY <1>3, <2>2, <2>4, <3>1, <4>1, WorkingParts
    <3> QED BY <1>2, <2>2, <3>2 DEF ReqOK
  <2>6. NextReq(r, q) BY <2>1, <2>2 DEF NextReq
  <2>7. Answers(a, f, n, q) BY <1>1, <1>2, <2>1 DEF Answers
  <2>8. Working(t1, f) /\ Becomes(t1, f, n, q, a.spoiled) BY <2>5, <2>6, <2>7, PutNear
  <2> HIDE DEF t1
  <2>9. t1.http[f].state = "RECEIVING_BODY" /\ t1.http[f].given = r.given \o x
    BY <1>2, <2>2, <2>8 DEF Becomes
  <2>10. Fine(CheckComplete(t1, f, x)) BY <1>3, <2>3, <2>8, <2>9, CheckFine
  <2> QED BY <1>7, <1>10, <1>11, <2>10
<1>12. CASE b = <<>> /\ k > 0
  <2>1. [http_send_data(Consume(a, f, k), f, u)
           EXCEPT !.http[f].total = @ + k, !.http[f].idle = FALSE] = t2
    <3> DEFINE w == r.given \o u
               c == [a EXCEPT !.net[f].in = v]
    <3>1. Consume(a, f, k) = c BY DEF Consume
    <3>2. c.http = a.http /\ c = [a EXCEPT !.net[f] = m]
      <4>1. c.http = a.http BY <1>1 DEF State
      <4>2. c = [a EXCEPT !.net[f] = m] BY <1>6 DEF ReadNet
      <4> QED BY <4>1, <4>2
    <3> HIDE DEF c, v
    <3>3. http_send_data(c, f, u) = [c EXCEPT !.http[f].given = w] BY <3>2 DEF http_send_data
    <3> DEFINE d == [c EXCEPT !.http[f].given = w]
               r1 == [r EXCEPT !.given = w]
    <3> HIDE DEF w, k
    <3>4. d = [c EXCEPT !.http[f] = r1] BY <1>6, <3>2
    <3>5. [c EXCEPT !.http[f] = r1] = [a EXCEPT !.net[f] = m, !.http[f] = r1]
      BY <3>2
    <3> HIDE DEF r1, m, d
    <3>6. d.http = [a.http EXCEPT ![f] = r1] BY <1>1, <3>4, <3>5 DEF State
    <3>7. d.http[f] = r1 BY <1>6, <3>6
    <3>8. [d EXCEPT !.http[f].total = @ + k, !.http[f].idle = FALSE]
            = [d EXCEPT !.http[f] = [r1 EXCEPT !.total = r1.total + k, !.idle = FALSE]]
      BY <1>6, <3>6, <3>7
    <3>9. [r1 EXCEPT !.total = r1.total + k, !.idle = FALSE] = p
      BY <1>1 DEF r1, Req, w
    <3> HIDE DEF p
    <3>10. [d EXCEPT !.http[f] = p] = t2
      <4> DEFINE M == [a.net EXCEPT ![f] = m]
                 H1 == [a.http EXCEPT ![f] = r1]
                 H2 == [a.http EXCEPT ![f] = p]
      <4>1. d = [a EXCEPT !.net = M, !.http = H1] BY <3>4, <3>5
      <4>2. [d.http EXCEPT ![f] = p] = H2 BY <1>6, <3>6
      <4>3. [d EXCEPT !.http[f] = p] = [d EXCEPT !.http = H2] BY <4>2
      <4>4. t2 = [a EXCEPT !.net = M, !.http = H2, !.spoiled = a.spoiled] BY DEF Upd
      <4> HIDE DEF M, H1, H2, t2
      <4>5. [d EXCEPT !.http = H2] = [a EXCEPT !.net = M, !.http = H2, !.spoiled = a.spoiled]
        BY <1>1, <4>1 DEF State
      <4> QED BY <4>3, <4>4, <4>5
    <3> QED BY <3>1, <3>3, <3>8, <3>9, <3>10 DEF d
  <2> DEFINE r1 == ReadReq(n, r, k)
  <2>2. /\ m \in Net /\ r1 \in Req /\ (Response(n, r) => Response(m, r1))
    <3>1. n \in Net /\ r \in Req /\ k \in 0..Len(n.in)
          /\ r.state \in {"RECEIVING_HEADERS", "RECEIVING_BODY"} BY <1>1, <1>2, <1>5
    <3> HIDE DEF n, r, k
    <3> QED BY <3>1, ReadResponse
  <2>3. u \in Seq(Units) /\ Len(u) = k
    <3> HIDE DEF i, k
    <3> QED BY <1>3, <1>5, CutSeq, Zenon
  <2>4. /\ r1.buf = u /\ r1.given = r.given /\ r1.total = r.total + k /\ r1.state = r.state
        /\ r1.on = r.on /\ r1.idle = FALSE
        /\ r1 = [r EXCEPT !.buf = u, !.total = r.total + k, !.idle = FALSE]
    <3>1. b \o u = u BY <1>12, <2>3, Cat
    <3> DEFINE tot == r.total + k
    <3>2. r1 = [r EXCEPT !.buf = u, !.total = tot, !.idle = FALSE] BY <3>1 DEF ReadReq
    <3> HIDE DEF r, k, u, r1, tot
    <3> QED BY <1>1, <3>2 DEF Req, tot
  <2>5. /\ GiveReq(r1, k, FALSE) \in Req
        /\ (r1.state = "RECEIVING_BODY" /\ Response(m, r1)) => Response(m, GiveReq(r1, k, FALSE))
    <3>1. k \in 0..Len(r1.buf) BY <1>5, <2>3, <2>4
    <3> HIDE DEF r1, k, m
    <3> QED BY <2>2, <3>1, GiveResponse
  <2>6. GiveReq(r1, k, FALSE) = p
    <3>1. SubSeq(u, 1, k) = u /\ SubSeq(u, k + 1, Len(u)) = <<>>
      <4>1. k \in 0..Len(u) /\ k = Len(u) BY <1>5, <2>3
      <4> HIDE DEF u, k
      <4> QED BY <2>3, <4>1, CutSeq, Zenon
    <3> DEFINE w == r.given \o u
               tot == r.total + k
               z == b
    <3>2. GiveReq(r1, k, FALSE) = [r1 EXCEPT !.given = w, !.buf = z, !.idle = FALSE]
      BY <1>12, <2>4, <3>1 DEF GiveReq
    <3>3. r1 = [r EXCEPT !.buf = u, !.total = tot, !.idle = FALSE] BY <2>4
    <3>4. p = [r EXCEPT !.given = w, !.total = tot, !.idle = FALSE] OBVIOUS
    <3>5. r.buf = z /\ r \in Req BY <1>1
    <3>6. GiveReq(r1, k, FALSE)
            = [[r EXCEPT !.buf = u, !.total = tot, !.idle = FALSE]
                 EXCEPT !.given = w, !.buf = z, !.idle = FALSE]
      BY <3>2, <3>3
    <3> HIDE DEF w, tot, r1, p, r, u, z
    <3>7. [[r EXCEPT !.buf = u, !.total = tot, !.idle = FALSE]
                 EXCEPT !.given = w, !.buf = z, !.idle = FALSE]
            = [r EXCEPT !.given = w, !.total = tot, !.idle = FALSE]
      BY <3>5 DEF Req
    <3> QED BY <3>4, <3>6, <3>7
  <2>7. p \in Req /\ (Response(n, r) => Response(m, p)) BY <1>2, <2>2, <2>4, <2>5, <2>6
  <2>8. /\ p.state = r.state /\ p.on = r.on /\ p.headers_complete = r.headers_complete
        /\ p.buf = b /\ p.given = r.given \o u /\ m.link = n.link
    <3> HIDE DEF r, n, u, k
    <3> QED BY <1>1 DEF Req, Net, ReadNet, b
  <2> HIDE DEF p, m, r1, u
  <2>9. Follows(a, f, m, p) BY <1>2, <2>2, <2>7, <2>8 DEF Follows
  <2>10. ReqOK(p)
    <3>1. p.on BY <2>8, WorkingParts
    <3> QED BY <1>1, <1>2, <2>8, <3>1 DEF ReqOK
  <2>11. Answers(a, f, m, p) BY <1>1, <2>7, <2>8 DEF Answers
  <2>12. Working(t2, f) /\ Becomes(t2, f, m, p, a.spoiled)
    BY <1>1, <2>9, <2>10, <2>11, UpdWorks
  <2> HIDE DEF t2
  <2>13. t2.http[f].state = "RECEIVING_BODY" /\ t2.http[f].given = r.given \o u
    BY <1>2, <2>8, <2>12 DEF Becomes
  <2>14. Fine(CheckComplete(t2, f, u)) BY <1>3, <2>3, <2>12, <2>13, CheckFine
  <2> QED BY <1>7, <1>12, <2>1, <2>14
<1>13. CASE b = <<>> /\ ~(k > 0)
  BY <1>1, <1>7, <1>8, <1>9, <1>13
<1> QED BY <1>11, <1>12, <1>13

-----------------------------------------------------------------------------
(* The commands of the HTTP client, and its timer.                          *)

LEMMA ApartTrans ==
    ASSUME NEW a, NEW b, NEW c, NEW f, Apart(a, b, f), Apart(b, c, f)
    PROVE  Apart(a, c, f)
BY DEF Apart

Unasked(k) == [k EXCEPT !.requested = {}]
LEMMA CloseApart ==
    ASSUME NEW a \in State, NEW f \in Fds
    PROVE  /\ Apart(a, http_close_request(a, f), f)
           /\ Is(http_close_request(a, f), f, Unasked(a.socks[f]), a.net[f], NoReq)
           /\ Polls(a.socks[f], Unasked(a.socks[f]))
           /\ IsMore(http_close_request(a, f), a.spoiled, a.ctx,
                     IF a.datamode_req = f THEN NULL ELSE a.datamode_req, a.owed)
<1> DEFINE b == http_close_request(a, f)
           k == Unasked(a.socks[f])
           n == a.net[f]
           d == IF a.datamode_req = f THEN NULL ELSE a.datamode_req
           p == Put(a, f, k, n, NoReq)
           e == PutMore(p, a.spoiled, a.ctx, d, a.owed)
<1>1. Polls(a.socks[f], k) /\ n \in Net /\ NoReq \in Req
  BY StateParts, PollFields, {} \in SUBSET Events, NoReqType, Zenon DEF Unasked
<1>2. d \in Fds \cup {NULL} /\ a.spoiled \in SUBSET Fds /\ a.ctx \in Chan /\ a.owed \in Int
      /\ a.datamode_req \in Fds \cup {NULL}
  BY DEF State
<1>3. NULL \notin Fds BY SocketsAssumption DEF NULL
<1>4. Others(a, f, a.spoiled, d) BY <1>2, <1>3 DEF Others
<1>5. b = [xapoll_stop(a, f) EXCEPT !.http[f] = NoReq,
                                    !.datamode_req = IF @ = f THEN NULL ELSE @]
  BY DEF http_close_request
<1>6. xapoll_stop(a, f) = [a EXCEPT !.socks[f] = k] BY DEF xapoll_stop, Unasked
<1> HIDE DEF b, k
<1>7. [a EXCEPT !.socks[f] = k].datamode_req = a.datamode_req BY DEF State
<1>8. b = [[a EXCEPT !.socks[f] = k] EXCEPT !.http[f] = NoReq, !.datamode_req = d]
  BY <1>5, <1>6, <1>7
<1> HIDE DEF d
<1> DEFINE x == NoReq
<1>9. [[a EXCEPT !.socks[f] = k] EXCEPT !.http[f] = x, !.datamode_req = d]
        = PutMore(Put(a, f, k, n, x), a.spoiled, a.ctx, d, a.owed)
  <2> HIDE DEF x
  <2> QED BY DEF State, Put, PutMore
<1>10. b = e BY <1>8, <1>9
<1>11. Apart(a, p, f) /\ Is(p, f, k, n, NoReq) BY <1>1, PutApart DEF Polls
<1> HIDE DEF p, n
<1>12. /\ Apart(a, e, f) /\ Is(e, f, k, n, NoReq)
       /\ IsMore(e, a.spoiled, a.ctx, d, a.owed)
  BY <1>2, <1>4, <1>11, MoreApart
<1> QED BY <1>1, <1>10, <1>12 DEF b, k, n, d

LEMMA OwedSame ==
    ASSUME NEW a \in State, NEW b, Same(a, b), NEW o \in Int
    PROVE  Same([a EXCEPT !.owed = o], [b EXCEPT !.owed = o])
<1>1. b \in State BY DEF Same
<1> QED BY <1>1 DEF Same, State

(* A request that streams its body, or waits to send its headers. *)
LEMMA HttpcreqKeeps ==
    ASSUME NEW a, NEW f \in Fds, StateOK(a), a.ctx.mode = "at", a.use = "http",
           find_socket(a, f), ~a.http[f].on, a.net[f].srv = "quiet", a.net[f].in = <<>>,
           NEW method \in {"get", "pull", "head", "post", "bad"}, NEW manual \in BOOLEAN
    PROVE  StateOK(handle_at_httpcreq(a, f, method, manual))
<1> DEFINE k == a.socks[f]
           n == a.net[f]
           r == NewRequest(method, manual)
           n1 == [n EXCEPT !.sent = <<>>]
           sp == a.spoiled \ {f}
           p == Put(a, f, k, n1, r)
           t == PutMore(p, sp, a.ctx, a.datamode_req, a.owed)
<1>1. a \in State /\ SockOK(a, f) /\ ChanOK(a) BY DEF StateOK
<1>2. a.http \in [Fds -> Req] /\ a.net \in [Fds -> Net] /\ a.socks \in [Fds -> Sock]
      /\ a.ctx \in Chan /\ a.owed \in Int /\ a.spoiled \in SUBSET Fds
  BY <1>1 DEF State
<1>3. k \in Sock /\ n \in Net BY <1>2
<1>4. a.datamode_req = NULL /\ a.ctx.datamode_sock = NULL /\ NULL \notin Fds
  BY <1>1, SocketsAssumption DEF ChanOK, NULL
<1>5. <<>> \in Seq(Units) /\ Len(<<>>) = 0 /\ <<>> \o <<>> = <<>> /\ 0 <= RecvBuf
  BY SocketsAssumption
<1>6. n1 \in Net /\ n1.sent = <<>> /\ n1.link = n.link /\ n1.srv = n.srv /\ n1.in = n.in
  <2> HIDE DEF n
  <2> QED BY <1>3, <1>5 DEF Net
<1>7. /\ r \in Req /\ r.on = TRUE /\ r.head = (method = "head") /\ r.buf = <<>>
      /\ r.given = <<>> /\ r.headers_complete = FALSE /\ r.state = "IDLE"
  <2>1. r = [NoReq EXCEPT !.on = TRUE, !.head = method = "head", !.manual = manual]
    BY DEF NewRequest
  <2>2. (method = "head") \in BOOLEAN OBVIOUS
  <2> DEFINE hd == method = "head"
  <2>3. r = [NoReq EXCEPT !.on = TRUE, !.head = hd, !.manual = manual] /\ hd \in BOOLEAN
    BY <2>1, <2>2
  <2> HIDE DEF hd, r
  <2>4. r \in Req BY <2>3, NoReqType, ZenonT(30) DEF Req
  <2>5. NoReq.buf = <<>> /\ NoReq.given = <<>> /\ NoReq.headers_complete = FALSE
        /\ NoReq.state = "IDLE" BY DEF NoReq
  <2>6. /\ r.on = TRUE /\ r.head = hd /\ r.buf = NoReq.buf /\ r.given = NoReq.given
        /\ r.headers_complete = NoReq.headers_complete /\ r.state = NoReq.state
    BY <2>3, NoReqType DEF Req
  <2> QED BY <2>4, <2>5, <2>6 DEF hd
<1>8. [a EXCEPT !.http[f] = NewRequest(method, manual), !.net[f].sent = <<>>,
                !.spoiled = @ \ {f}] = t
  <2> HIDE DEF r
  <2>1. [a EXCEPT !.http[f] = NewRequest(method, manual), !.net[f].sent = <<>>,
                  !.spoiled = @ \ {f}] = [a EXCEPT !.http[f] = r, !.net[f] = n1, !.spoiled = sp]
    BY <1>2 DEF r
  <2> HIDE DEF n1, sp
  <2>2. [a EXCEPT !.http[f] = r, !.net[f] = n1, !.spoiled = sp] = t
    BY <1>1 DEF State, Put, PutMore
  <2> QED BY <2>1, <2>2
<1> HIDE DEF r, n1
<1>9. Apart(a, p, f) /\ Is(p, f, k, n1, r) BY <1>1, <1>3, <1>6, <1>7, PutApart
<1> HIDE DEF p, k
<1>10. Others(a, f, sp, a.datamode_req) BY DEF Others
<1>11. /\ Apart(a, t, f) /\ Is(t, f, k, n1, r)
       /\ IsMore(t, sp, a.ctx, a.datamode_req, a.owed)
  <2>1. sp \in SUBSET Fds /\ a.datamode_req \in Fds \cup {NULL} BY <1>2, <1>4
  <2> HIDE DEF sp
  <2> QED BY <1>2, <1>9, <1>10, <2>1, MoreApart
<1> HIDE DEF t, sp
<1>12. t \in State /\ t.http[f] = r /\ t.net[f] = n1 /\ t.socks[f] = k /\ t.ctx = a.ctx
       /\ t.datamode_req = NULL /\ t.use = "http" /\ t.owed = a.owed
  BY <1>4, <1>11 DEF Apart, Is, IsMore
<1>13. CASE method = "bad" \/ (method = "post" /\ ~CanSend(a, f))
  <2> DEFINE b == http_close_request(t, f)
             kk == Unasked(k)
  <2>1. handle_at_httpcreq(a, f, method, manual) = b
    BY <1>8, <1>13 DEF handle_at_httpcreq
  <2>2. /\ Apart(t, b, f) /\ Is(b, f, kk, n1, NoReq) /\ Polls(k, kk)
        /\ IsMore(b, t.spoiled, t.ctx, IF t.datamode_req = f THEN NULL ELSE t.datamode_req, t.owed)
    BY <1>12, CloseApart
  <2> HIDE DEF b, kk
  <2>3. Apart(a, b, f) BY <1>11, <2>2, ApartTrans
  <2>4. b.http[f] = NoReq /\ b.net[f] = n1 /\ b.socks[f] = kk /\ b.ctx = a.ctx
        /\ b.datamode_req = NULL /\ b.owed = a.owed /\ b.use = "http"
    BY <1>4, <1>12, <2>2, <2>3 DEF Is, IsMore, Apart
  <2>5. ChanOK(b) BY <1>1, <1>4, <2>4 DEF ChanOK
  <2>6. NoReq.on = FALSE /\ NoReq.state # "SENDING_BODY" BY DEF NoReq
  <2>7. SockOK(b, f)
    <3>1. /\ kk.type = k.type /\ kk.connected = k.connected /\ kk.revents \subseteq k.revents
      BY <2>2 DEF Polls, SameSock
    <3>2. /\ k.type \in {"none", "tls"} /\ (~k.connected => n.link = "down")
          /\ ("HUP" \in k.revents => n.link = "fin")
      BY <1>1 DEF SockOK, k
    <3> QED BY <1>4, <1>6, <2>4, <2>6, <3>1, <3>2, NoReqType DEF SockOK
  <2>8. b.owed = Cardinality(Active(b)) BY <2>3, <2>4, <2>6, ActiveIs
  <2> QED BY <2>1, <2>3, <2>5, <2>7, <2>8, ApartKeeps
<1>14. CASE method = "post" /\ CanSend(a, f)
  <2> DEFINE n2 == [n1 EXCEPT !.srv = "asked", !.head = FALSE]
             r2 == [r EXCEPT !.state = "SENDING_BODY"]
             c == [a.ctx EXCEPT !.mode = "data"]
             o == a.owed + 1
             x == Put(t, f, k, n2, r2)
             y == PutMore(x, t.spoiled, c, f, o)
  <2>1. handle_at_httpcreq(a, f, method, manual) = [y EXCEPT !.timer = TRUE]
    <3>1. handle_at_httpcreq(a, f, method, manual)
            = [http_send_request_headers(t, f) EXCEPT !.owed = @ + 1]
      BY <1>8, <1>14 DEF handle_at_httpcreq
    <3>2. t.http \in [Fds -> Req] /\ t.net \in [Fds -> Net] BY <1>12 DEF State
    <3>3. http_send_request_headers(t, f)
            = [[t EXCEPT !.http[f].state = "SENDING_BODY", !.net[f].srv = "asked",
                         !.net[f].head = FALSE, !.datamode_req = f, !.ctx.mode = "data"]
                 EXCEPT !.timer = TRUE]
      BY DEF http_send_request_headers, http_timeout_monitor_arm
    <3>4. [t EXCEPT !.http[f].state = "SENDING_BODY", !.net[f].srv = "asked",
                         !.net[f].head = FALSE, !.datamode_req = f, !.ctx.mode = "data"]
            = [t EXCEPT !.http[f] = r2, !.net[f] = n2, !.datamode_req = f, !.ctx = c]
      BY <1>12, <3>2
    <3> HIDE DEF r2, n2, c
    <3> DEFINE z == [t EXCEPT !.http[f] = r2, !.net[f] = n2, !.datamode_req = f, !.ctx = c]
    <3>5. [z EXCEPT !.timer = TRUE].owed = a.owed BY <1>12 DEF State
    <3>6. [[z EXCEPT !.timer = TRUE] EXCEPT !.owed = @ + 1]
            = [[z EXCEPT !.timer = TRUE] EXCEPT !.owed = o]
      <4> HIDE DEF z
      <4> QED BY <3>5
    <3> HIDE DEF o
    <3>7. [[z EXCEPT !.timer = TRUE] EXCEPT !.owed = o] = [y EXCEPT !.timer = TRUE]
      <4> DEFINE H == [t.http EXCEPT ![f] = r2]
                 N == [t.net EXCEPT ![f] = n2]
      <4>1. [t.socks EXCEPT ![f] = k] = t.socks BY <1>12 DEF State
      <4>2. x = [t EXCEPT !.socks = t.socks, !.net = N, !.http = H] BY <4>1 DEF Put
      <4>3. z = [t EXCEPT !.http = H, !.net = N, !.datamode_req = f, !.ctx = c] OBVIOUS
      <4> HIDE DEF H, N, x, z
      <4>4. y = [x EXCEPT !.spoiled = t.spoiled, !.ctx = c, !.datamode_req = f, !.owed = o]
        BY DEF PutMore
      <4> HIDE DEF y
      <4> QED BY <1>12, <4>2, <4>3, <4>4 DEF State
    <3> HIDE DEF z
    <3>8. http_send_request_headers(t, f) = [z EXCEPT !.timer = TRUE] BY <3>3, <3>4 DEF z
    <3> QED BY <3>1, <3>6, <3>7, <3>8
  <2>2. /\ n2 \in Net /\ n2.srv = "asked" /\ n2.head = FALSE /\ n2.sent = <<>> /\ n2.in = <<>>
        /\ n2.link = n.link
    BY <1>6 DEF Net
  <2>3. r2 \in Req BY <1>7, ZenonT(30) DEF Req
  <2>4. /\ r2.state = "SENDING_BODY" /\ r2.on = TRUE /\ r2.head = FALSE /\ r2.buf = <<>>
        /\ r2.given = <<>> /\ r2.headers_complete = FALSE
    BY <1>7, <1>14 DEF Req
  <2>5. c \in Chan /\ c.mode = "data" /\ c.datamode_sock = NULL BY <1>2, <1>4 DEF Chan
  <2>6. o \in Int /\ o = a.owed + 1 BY <1>2
  <2> HIDE DEF n2, r2, c, o
  <2>7. Apart(t, x, f) /\ Is(x, f, k, n2, r2) BY <1>3, <1>12, <2>2, <2>3, PutApart DEF k
  <2>8. Others(t, f, t.spoiled, f) BY <1>4, <1>12 DEF Others
  <2> HIDE DEF x
  <2>9. /\ Apart(t, y, f) /\ Is(y, f, k, n2, r2) /\ IsMore(y, t.spoiled, c, f, o)
    <3>1. t.spoiled \in SUBSET Fds /\ f \in Fds \cup {NULL} BY <1>12 DEF State
    <3> QED BY <2>5, <2>6, <2>7, <2>8, <3>1, MoreApart
  <2> HIDE DEF y
  <2>10. Apart(a, y, f) BY <1>11, <2>9, ApartTrans
  <2>11. y.http[f] = r2 /\ y.net[f] = n2 /\ y.socks[f] = k /\ y.ctx = c
         /\ y.datamode_req = f /\ y.owed = a.owed + 1 /\ y.use = "http"
    BY <2>6, <2>9, <2>10 DEF Is, IsMore, Apart
  <2>12. ChanOK(y) BY <1>4, <2>5, <2>11 DEF ChanOK
  <2>13. Response(n2, r2)
    <3>1. r2.buf \o n2.in = <<>> BY <1>5, <2>2, <2>4
    <3>2. n2.head = r2.head BY <2>2, <2>4
    <3>3. n2.srv = "asked" /\ n2.sent = <<>> BY <2>2
    <3>4. Beginning(n2, r2, <<>>) BY <1>5, <3>2, <3>3 DEF Beginning
    <3> QED BY <2>4, <3>1, <3>4 DEF Response
  <2>14. SockOK(y, f)
    <3>1. ReqOK(r2) BY <1>5, <2>4 DEF ReqOK
    <3>2. /\ k.type \in {"none", "tls"} /\ (~k.connected => n.link = "down")
          /\ ("HUP" \in k.revents => n.link = "fin") /\ k.type # "none"
      BY <1>1 DEF SockOK, k, find_socket
    <3> QED BY <2>2, <2>4, <2>11, <2>13, <3>1, <3>2 DEF SockOK
  <2>15. y.owed = Cardinality(Active(y)) BY <2>4, <2>10, <2>11, ActiveIs
  <2>16. StateOK(y) BY <2>10, <2>12, <2>14, <2>15, ApartKeeps
  <2>17. Same(y, [y EXCEPT !.timer = TRUE])
    BY <1>2, <2>10, PutChan, SameChan(y.ctx, y.ctx), y.ctx \in Chan DEF Apart, SameChan, State
  <2> QED BY <2>1, <2>16, <2>17, SameKeeps
<1>15. CASE ~(method = "bad" \/ (method = "post" /\ ~CanSend(a, f)))
            /\ ~(method = "post" /\ CanSend(a, f))
  <2> DEFINE r2 == [r EXCEPT !.left = HeaderUnits, !.state = "SENDING_REQUEST"]
             x == Put(t, f, k, n1, r2)
             ev == {"OUT", "IN"}
             y == set_xapoll_events(x, f, ev)
             z == [y EXCEPT !.timer = TRUE]
             o == a.owed + 1
             x1 == [x EXCEPT !.owed = o]
             z1 == [z EXCEPT !.owed = o]
  <2>1. handle_at_httpcreq(a, f, method, manual) = [z EXCEPT !.owed = @ + 1]
    <3>1. handle_at_httpcreq(a, f, method, manual)
            = [http_start_request(t, f) EXCEPT !.owed = @ + 1]
      BY <1>8, <1>15 DEF handle_at_httpcreq
    <3>2. t.http \in [Fds -> Req] BY <1>12 DEF State
    <3>3. http_start_request(t, f) = [set_xapoll_events(
              [t EXCEPT !.http[f].left = HeaderUnits, !.http[f].state = "SENDING_REQUEST"],
                f, ev) EXCEPT !.timer = TRUE]
      BY DEF http_start_request, http_timeout_monitor_arm
    <3>4. [t EXCEPT !.http[f].left = HeaderUnits, !.http[f].state = "SENDING_REQUEST"]
            = [t EXCEPT !.http[f] = r2]
      BY <1>12, <3>2
    <3> HIDE DEF r2
    <3>5. [t EXCEPT !.http[f] = r2] = x BY <1>12 DEF Put, State
    <3> QED BY <3>1, <3>3, <3>4, <3>5
  <2>2. HeaderUnits \in Int BY DEF HeaderUnits
  <2>3. r2 \in Req BY <1>7, <2>2, ZenonT(30) DEF Req
  <2>4. /\ r2.state = "SENDING_REQUEST" /\ r2.on = TRUE /\ r2.buf = <<>>
        /\ r2.given = <<>> /\ r2.headers_complete = FALSE
    BY <1>7 DEF Req
  <2>5. o \in Int /\ o = a.owed + 1 BY <1>2
  <2> HIDE DEF r2, o
  <2>6. /\ Apart(t, x, f) /\ Is(x, f, k, n1, r2)
        /\ IsMore(x, t.spoiled, t.ctx, t.datamode_req, t.owed)
    BY <1>3, <1>6, <1>12, <2>3, PutApart DEF k
  <2> HIDE DEF x
  <2>7. x \in State BY <2>6 DEF Apart
  <2>8. Same(x, y) BY <2>7, SetSame, ev \in SUBSET Events DEF Events
  <2> HIDE DEF y
  <2>9. Same(y, z)
    <3>1. y \in State BY <2>8 DEF Same
    <3>2. y.ctx \in Chan /\ SameChan(y.ctx, y.ctx) BY <3>1 DEF State, SameChan
    <3> QED BY <3>1, <3>2, PutChan
  <2>10. Same(x, z) BY <2>8, <2>9, SameTrans
  <2> HIDE DEF z
  <2>11. z.owed = a.owed BY <1>12, <2>6, <2>10 DEF Same, IsMore
  <2>12. handle_at_httpcreq(a, f, method, manual) = z1 BY <2>1, <2>11 DEF o
  <2>13. Same(x1, z1) BY <2>5, <2>7, <2>10, OwedSame
  <2>14. /\ x1 \in State /\ x1.socks = x.socks /\ x1.net = x.net /\ x1.http = x.http
         /\ x1.use = x.use /\ x1.untrue = x.untrue /\ x1.spoiled = x.spoiled
         /\ x1.datamode_req = x.datamode_req /\ x1.ctx = x.ctx /\ x1.owed = o
    BY <2>5, <2>7 DEF State
  <2> HIDE DEF x1, z1
  <2>15. Apart(a, x1, f)
    <3>1. Apart(a, x, f) BY <1>11, <2>6, ApartTrans
    <3> QED BY <2>14, <3>1 DEF Apart
  <2>16. x1.http[f] = r2 /\ x1.net[f] = n1 /\ x1.socks[f] = k /\ x1.ctx = a.ctx
         /\ x1.datamode_req = NULL /\ x1.owed = a.owed + 1 /\ x1.use = "http"
    BY <1>12, <2>5, <2>6, <2>14, <2>15 DEF Is, IsMore, Apart
  <2>17. ChanOK(x1) BY <1>1, <1>4, <2>16 DEF ChanOK
  <2>18. Response(n1, r2) BY <1>6, <2>4 DEF Response
  <2>19. SockOK(x1, f)
    <3>1. ReqOK(r2) BY <1>5, <2>4 DEF ReqOK
    <3>2. /\ k.type \in {"none", "tls"} /\ (~k.connected => n.link = "down")
          /\ ("HUP" \in k.revents => n.link = "fin") /\ k.type # "none"
      BY <1>1 DEF SockOK, k, find_socket
    <3> QED BY <1>4, <1>6, <2>4, <2>16, <2>18, <3>1, <3>2 DEF SockOK
  <2>20. x1.owed = Cardinality(Active(x1)) BY <2>4, <2>15, <2>16, ActiveIs
  <2>21. StateOK(x1) BY <2>15, <2>17, <2>19, <2>20, ApartKeeps
  <2> QED BY <2>12, <2>13, <2>21, SameKeeps
<1> QED BY <1>13, <1>14, <1>15

LEMMA StatIs ==
    ASSUME NEW a \in State, NEW f \in Fds, ~a.untrue
    PROVE  /\ Stat(a, f, FALSE) \in State /\ Stat(a, f, FALSE).socks = a.socks
           /\ Stat(a, f, FALSE).net = a.net /\ Stat(a, f, FALSE).http = a.http
           /\ Stat(a, f, FALSE).ctx = a.ctx /\ Stat(a, f, FALSE).use = a.use
           /\ Stat(a, f, FALSE).datamode_req = a.datamode_req
           /\ Stat(a, f, FALSE).owed = a.owed - 1 /\ Stat(a, f, FALSE).spoiled = a.spoiled
           /\ Stat(a, f, FALSE).untrue = FALSE
<1> DEFINE o == a.owed - 1
           u == a.untrue \/ (FALSE /\ ~Truthful(a, f))
           b == [a EXCEPT !.owed = o, !.untrue = FALSE]
<1>1. u = FALSE BY DEF State
<1>2. Stat(a, f, FALSE) = [a EXCEPT !.owed = o, !.untrue = u] BY DEF Stat
<1>3. Stat(a, f, FALSE) = b BY <1>1, <1>2
<1>4. o \in Int /\ o = a.owed - 1 BY DEF State
<1> HIDE DEF o
<1>5. b \in State BY <1>4 DEF State
<1>6. /\ b.socks = a.socks /\ b.net = a.net /\ b.http = a.http /\ b.ctx = a.ctx
      /\ b.use = a.use /\ b.datamode_req = a.datamode_req /\ b.owed = o
      /\ b.spoiled = a.spoiled /\ b.untrue = FALSE
  BY DEF State
<1> HIDE DEF b
<1> QED BY <1>3, <1>4, <1>5, <1>6

(* A part of the body that cannot be sent ends the request. *)
LEMMA BodySendFailsKeeps ==
    ASSUME NEW a, StateOK(a), a.datamode_req # NULL
    PROVE  StateOK(BodySendFails(a)) /\ BodySendFails(a).ctx.mode # "data"
<1> DEFINE f == a.datamode_req
           k == a.socks[f]
           n == a.net[f]
           c == [a.ctx EXCEPT !.mode = "null"]
           x == [a EXCEPT !.ctx = c, !.datamode_req = NULL]
           y == Stat(x, f, FALSE)
           b == http_close_request(y, f)
<1>1. a \in State /\ ChanOK(a) /\ ~a.untrue BY DEF StateOK
<1>2. f \in Fds /\ NULL \notin Fds BY <1>1, SocketsAssumption DEF State, NULL
<1>3. SockOK(a, f) BY <1>2 DEF StateOK
<1>4. a.http[f].on /\ a.use = "http"
  <2>1. a.http[f].state = "SENDING_BODY" BY <1>3 DEF SockOK
  <2>2. NoReq.state # "SENDING_BODY" BY DEF NoReq
  <2> QED BY <1>3, <2>1, <2>2 DEF SockOK, ReqOK
<1>5. BodySendFails(a) = b BY DEF BodySendFails, http_fail_request
<1>6. c \in Chan /\ c.mode = "null" /\ c.datamode_sock = a.ctx.datamode_sock
  BY <1>1 DEF State, Chan
<1> HIDE DEF c, f
<1>7. /\ x \in State /\ x.socks = a.socks /\ x.net = a.net /\ x.http = a.http /\ x.ctx = c
      /\ x.use = a.use /\ x.datamode_req = NULL /\ x.owed = a.owed
      /\ x.spoiled = a.spoiled /\ x.untrue = a.untrue
  BY <1>1, <1>6 DEF State
<1> HIDE DEF x
<1>8. /\ y \in State /\ y.socks = a.socks /\ y.net = a.net /\ y.http = a.http /\ y.ctx = c
      /\ y.use = a.use /\ y.datamode_req = NULL /\ y.owed = a.owed - 1
      /\ y.spoiled = a.spoiled /\ y.untrue = FALSE
  <2>1. ~x.untrue BY <1>1, <1>7
  <2>2. x \in State BY <1>7
  <2>3. f \in Fds BY <1>2
  <2>4. /\ y \in State /\ y.socks = x.socks /\ y.net = x.net /\ y.http = x.http
        /\ y.ctx = x.ctx /\ y.use = x.use /\ y.datamode_req = x.datamode_req
        /\ y.owed = x.owed - 1 /\ y.spoiled = x.spoiled /\ y.untrue = FALSE
    BY <2>1, <2>2, <2>3, StatIs, Zenon
  <2> HIDE DEF y
  <2> QED BY <1>7, <2>4
<1> HIDE DEF y
<1>9. /\ Apart(y, b, f) /\ Is(b, f, Unasked(k), n, NoReq) /\ Polls(k, Unasked(k))
      /\ IsMore(b, y.spoiled, y.ctx, IF y.datamode_req = f THEN NULL ELSE y.datamode_req, y.owed)
  BY <1>2, <1>8, CloseApart
<1> HIDE DEF b
<1>10. Apart(a, b, f)
  <2>1. Apart(a, y, f) BY <1>1, <1>2, <1>8 DEF Apart, State, f
  <2> QED BY <1>9, <2>1, ApartTrans
<1>11. b.http[f] = NoReq /\ b.net[f] = n /\ b.socks[f] = Unasked(k) /\ b.ctx = c
       /\ b.datamode_req = NULL /\ b.owed = a.owed - 1 /\ b.use = a.use
  BY <1>8, <1>9, <1>10 DEF Is, IsMore, Apart
<1>12. ChanOK(b) BY <1>1, <1>4, <1>6, <1>11 DEF ChanOK
<1>13. NoReq.on = FALSE /\ NoReq.state # "SENDING_BODY" BY DEF NoReq
<1>14. SockOK(b, f)
  <2>1. LET kk == Unasked(k)
        IN  kk.type = k.type /\ kk.connected = k.connected /\ kk.revents \subseteq k.revents
    BY <1>9 DEF Polls, SameSock
  <2> QED BY <1>2, <1>3, <1>11, <1>13, <2>1, NoReqType DEF SockOK
<1>15. b.owed = Cardinality(Active(b)) BY <1>2, <1>4, <1>10, <1>11, <1>13, ActiveIs
<1>16. StateOK(b) BY <1>2, <1>10, <1>12, <1>14, <1>15, ApartKeeps
<1> QED BY <1>5, <1>6, <1>11, <1>16

(* The mode of the channel changes. *)
LEMMA ModeKeeps ==
    ASSUME NEW a, StateOK(a), NEW c \in Chan,
           c.mode = "data" <=> (a.datamode_req # NULL \/ c.datamode_sock # NULL),
           a.use = "http" => c.datamode_sock = NULL,
           c.datamode_sock # NULL => find_socket(a, c.datamode_sock)
    PROVE  StateOK([a EXCEPT !.ctx = c])
<1> DEFINE b == [a EXCEPT !.ctx = c]
<1>1. a \in State /\ a.owed = Cardinality(Active(a)) /\ ~a.untrue
      /\ \A f \in Fds : SockOK(a, f)
  BY DEF StateOK
<1>2. /\ b \in State /\ b.socks = a.socks /\ b.net = a.net /\ b.http = a.http /\ b.ctx = c
      /\ b.use = a.use /\ b.datamode_req = a.datamode_req /\ b.owed = a.owed
      /\ b.spoiled = a.spoiled /\ b.untrue = a.untrue
  BY <1>1 DEF State
<1> HIDE DEF b
<1>3. \A f \in Fds : SockOK(b, f) BY <1>1, <1>2 DEF SockOK
<1>4. ChanOK(b) BY <1>2 DEF ChanOK, find_socket
<1>5. Active(b) = Active(a) BY <1>2 DEF Active
<1> QED BY <1>1, <1>2, <1>3, <1>4, <1>5 DEF StateOK, b

(* The end of data mode. *)
LEMMA BodySentKeeps ==
    ASSUME NEW a, StateOK(a), a.datamode_req # NULL
    PROVE  StateOK(BodySent([a EXCEPT !.ctx.mode = "at", !.ctx.datamode_sock = NULL]))
<1> DEFINE f == a.datamode_req
           k == a.socks[f]
           n == a.net[f]
           r == a.http[f]
           c == [a.ctx EXCEPT !.mode = "at", !.datamode_sock = NULL]
           t == [a EXCEPT !.ctx = c]
           r2 == [r EXCEPT !.state = "RECEIVING_HEADERS", !.buf = <<>>, !.idle = FALSE]
           x == Put(a, f, k, n, r2)
           y == PutMore(x, a.spoiled, c, NULL, a.owed)
<1>1. a \in State /\ ChanOK(a) /\ ~a.untrue BY DEF StateOK
<1>2. f \in Fds /\ NULL \notin Fds BY <1>1, SocketsAssumption DEF State, NULL
<1>3. SockOK(a, f) BY <1>2 DEF StateOK
<1>4. /\ k \in Sock /\ n \in Net /\ r \in Req /\ a.http \in [Fds -> Req] /\ a.ctx \in Chan
      /\ a.spoiled \in SUBSET Fds /\ a.owed \in Int
  BY <1>1, <1>2 DEF State
<1>5. a.http[f].on /\ a.use = "http" /\ r.state = "SENDING_BODY" /\ r.buf = <<>>
      /\ r.headers_complete = FALSE
  <2>1. a.http[f].state = "SENDING_BODY" BY <1>3 DEF SockOK
  <2>2. NoReq.state # "SENDING_BODY" BY DEF NoReq
  <2>3. r.headers_complete \in BOOLEAN BY <1>4 DEF Req
  <2> QED BY <1>3, <2>1, <2>2, <2>3 DEF SockOK, ReqOK
<1>6. [a EXCEPT !.ctx.mode = "at", !.ctx.datamode_sock = NULL] = t BY <1>1 DEF State
<1>7. t.datamode_req = f /\ t.http = a.http BY <1>1 DEF State
<1> HIDE DEF c, f
<1>8. BodySent(t) = set_xapoll_events(
          [t EXCEPT !.http[f].state = "RECEIVING_HEADERS", !.http[f].buf = <<>>,
                    !.http[f].idle = FALSE, !.datamode_req = NULL], f, {"IN"})
  BY <1>7 DEF BodySent
<1>9. [t EXCEPT !.http[f].state = "RECEIVING_HEADERS", !.http[f].buf = <<>>,
                    !.http[f].idle = FALSE, !.datamode_req = NULL] = y
  <2> HIDE DEF t
  <2>1. [t EXCEPT !.http[f].state = "RECEIVING_HEADERS", !.http[f].buf = <<>>,
                    !.http[f].idle = FALSE, !.datamode_req = NULL]
          = [t EXCEPT !.http[f] = r2, !.datamode_req = NULL]
    <3>1. t.http \in [Fds -> Req] /\ t.http[f] = r BY <1>4, <1>7
    <3>2. [t EXCEPT !.http[f].state = "RECEIVING_HEADERS", !.http[f].buf = <<>>,
                    !.http[f].idle = FALSE, !.datamode_req = NULL]
          = [t EXCEPT !.http[f] = [t.http[f] EXCEPT !.state = "RECEIVING_HEADERS",
                                     !.buf = <<>>, !.idle = FALSE], !.datamode_req = NULL]
      BY <1>2, <3>1
    <3> QED BY <3>1, <3>2
  <2> DEFINE H == [a.http EXCEPT ![f] = r2]
  <2>2. [t EXCEPT !.http[f] = r2, !.datamode_req = NULL]
          = [t EXCEPT !.http = H, !.datamode_req = NULL]
    BY <1>7
  <2>3. [a.socks EXCEPT ![f] = k] = a.socks /\ [a.net EXCEPT ![f] = n] = a.net
    BY <1>1 DEF State
  <2>4. x = [a EXCEPT !.socks = a.socks, !.net = a.net, !.http = H] BY <2>3 DEF Put
  <2>5. y = [x EXCEPT !.spoiled = a.spoiled, !.ctx = c, !.datamode_req = NULL, !.owed = a.owed]
    BY DEF PutMore
  <2> HIDE DEF H, x, y
  <2>6. [t EXCEPT !.http = H, !.datamode_req = NULL] = y BY <1>1, <2>4, <2>5 DEF State, t
  <2> QED BY <2>1, <2>2, <2>6
<1>10. <<>> \in Seq(Units) /\ Len(<<>>) = 0 /\ 0 <= RecvBuf BY SocketsAssumption
<1> HIDE DEF k, n, r
<1>11. r2 \in Req BY <1>4, <1>10, ZenonT(30) DEF Req
<1>12. /\ r2.state = "RECEIVING_HEADERS" /\ r2.on = r.on /\ r2.buf = <<>> /\ r2.head = r.head
       /\ r2.given = r.given /\ r2.headers_complete = r.headers_complete
  BY <1>4 DEF Req
<1>13. c \in Chan /\ c.mode = "at" /\ c.datamode_sock = NULL BY <1>4 DEF c, Chan
<1> HIDE DEF r2
<1>14. Apart(a, x, f) /\ Is(x, f, k, n, r2) BY <1>1, <1>2, <1>4, <1>11, PutApart
<1> HIDE DEF x
<1>15. Others(a, f, a.spoiled, NULL) BY <1>2 DEF Others, f
<1>16. Apart(a, y, f) /\ Is(y, f, k, n, r2) /\ IsMore(y, a.spoiled, c, NULL, a.owed)
  BY <1>2, <1>4, <1>13, <1>14, <1>15, MoreApart
<1> HIDE DEF y
<1>17. y.http[f] = r2 /\ y.net[f] = n /\ y.socks[f] = k /\ y.ctx = c /\ y.spoiled = a.spoiled
       /\ y.datamode_req = NULL /\ y.owed = a.owed /\ y.use = "http"
  BY <1>5, <1>16 DEF Is, IsMore, Apart
<1>18. ChanOK(y) BY <1>13, <1>17 DEF ChanOK
<1>19. Response(n, r) => Response(n, r2)
  <2>1. SameHead(r, r2) /\ SameSrv(n, n) BY <1>12 DEF SameHead, SameSrv
  <2>2. \A w : Beginning(n, r, w) => Beginning(n, r2, w) BY <2>1, BeginningSame, Zenon
  <2> QED BY <1>5, <1>12, <2>2 DEF Response
<1>20. SockOK(y, f)
  <2>1. ReqOK(r2) BY <1>5, <1>10, <1>12 DEF ReqOK, r
  <2>2. /\ k.type \in {"none", "tls"} /\ (~k.connected => n.link = "down") /\ k.type # "none"
        /\ ("HUP" \in k.revents => n.link = "fin") /\ r2.on
        /\ (f \notin a.spoiled /\ n.link \in {"down", "up"}) => Response(n, r)
    BY <1>3, <1>5, <1>12 DEF SockOK, k, n, r
  <2> QED BY <1>2, <1>12, <1>17, <1>19, <2>1, <2>2 DEF SockOK
<1>21. y.owed = Cardinality(Active(y))
  <2>1. y.http[f].on <=> a.http[f].on BY <1>12, <1>17 DEF r
  <2> QED BY <1>2, <1>16, <1>17, <2>1, ActiveIs
<1>22. StateOK(y) BY <1>2, <1>16, <1>18, <1>20, <1>21, ApartKeeps
<1>23. Same(y, set_xapoll_events(y, f, {"IN"}))
  <2>1. y \in State /\ {"IN"} \in SUBSET Events BY <1>16 DEF Apart, Events
  <2> QED BY <1>2, <2>1, SetSame
<1> QED BY <1>6, <1>8, <1>9, <1>22, <1>23, SameKeeps

-----------------------------------------------------------------------------
(* The timeout, and the end of a request by the host.                       *)

LEMMA FailIs ==
    ASSUME NEW a \in State, NEW f \in Fds, ~a.untrue
    PROVE  /\ Is(http_fail_request(a, f), f, Unasked(a.socks[f]), a.net[f], NoReq)
           /\ Polls(a.socks[f], Unasked(a.socks[f]))
           /\ http_fail_request(a, f).ctx = a.ctx
<1> DEFINE y == Stat(a, f, FALSE)
<1>1. y \in State /\ y.socks = a.socks /\ y.net = a.net /\ y.ctx = a.ctx BY StatIs, Zenon
<1>2. http_fail_request(a, f) = http_close_request(y, f) BY DEF http_fail_request
<1> HIDE DEF y
<1>3. y \in State BY <1>1
<1>4. /\ Is(http_close_request(y, f), f, Unasked(y.socks[f]), y.net[f], NoReq)
      /\ Polls(y.socks[f], Unasked(y.socks[f]))
      /\ IsMore(http_close_request(y, f), y.spoiled, y.ctx,
                     IF y.datamode_req = f THEN NULL ELSE y.datamode_req, y.owed)
  BY <1>3, CloseApart
<1> QED BY <1>1, <1>2, <1>4 DEF IsMore

(* What the scan makes of a request. *)
Scanned(a, f, t) ==
    /\ t.socks[f] \in Sock /\ SameSock(a.socks[f], t.socks[f]) /\ t.net[f] = a.net[f]
    /\ t.http[f] \in Req
    /\ IF f \in Expired(a) THEN t.http[f] = NoReq
       ELSE SameReq(a.http[f], t.http[f]) /\ (~a.http[f].on => t.http[f] = a.http[f])

LEMMA ExpireIs ==
    ASSUME NEW a \in State, NEW f \in Fds, ~a.untrue
    PROVE  Scanned(a, f, Expire(a, f))
<1> DEFINE r == a.http[f]
           q == [r EXCEPT !.idle = TRUE]
<1>1. r \in Req /\ a.http \in [Fds -> Req] /\ SameSock(a.socks[f], a.socks[f])
      /\ a.socks[f] \in Sock
  BY DEF State, SameSock
<1>2. CASE f \in Expired(a)
  <2>1. Expire(a, f) = http_fail_request(a, f) BY <1>2 DEF Expire
  <2>2. /\ Is(http_fail_request(a, f), f, Unasked(a.socks[f]), a.net[f], NoReq)
        /\ Polls(a.socks[f], Unasked(a.socks[f]))
    BY FailIs
  <2> QED BY <1>2, <2>1, <2>2, NoReqType DEF Scanned, Is, Polls
<1>3. CASE f \notin Expired(a) /\ Watched(a, f)
  <2>1. Expire(a, f) = [a EXCEPT !.http[f].idle = TRUE] BY <1>3 DEF Expire
  <2>2. [a EXCEPT !.http[f].idle = TRUE] = [a EXCEPT !.http[f] = q] OBVIOUS
  <2>3. SameReq(r, q) BY <1>1 DEF SameReq, Req
  <2> HIDE DEF q
  <2> DEFINE b == [a EXCEPT !.http[f] = q]
  <2>4. b.socks = a.socks /\ b.net = a.net /\ b.http[f] = q BY <1>1 DEF State
  <2>5. r.on BY <1>3 DEF Watched
  <2> HIDE DEF b, r
  <2>6. Scanned(a, f, b) BY <1>1, <1>3, <2>3, <2>4, <2>5 DEF Scanned, r, SameReq
  <2> QED BY <2>1, <2>2, <2>6 DEF b
<1>4. CASE f \notin Expired(a) /\ ~Watched(a, f)
  <2>1. Expire(a, f) = a BY <1>4 DEF Expire
  <2>2. SameReq(r, r) BY <1>1 DEF SameReq
  <2> QED BY <1>1, <1>4, <2>1, <2>2 DEF Scanned
<1> QED BY <1>2, <1>3, <1>4

LEMMA TimeoutKeeps ==
    ASSUME NEW a, StateOK(a)
    PROVE  StateOK(http_timeout_work_fn(a))
<1> DEFINE F == [f \in Fds |-> Expire(a, f)]
           ks == [f \in Fds |-> F[f].socks[f]]
           ns == [f \in Fds |-> F[f].net[f]]
           hs == [f \in Fds |-> F[f].http[f]]
           o == a.owed - Cardinality(Expired(a))
           b == [a EXCEPT !.socks = ks, !.net = ns, !.http = hs, !.owed = o]
<1>1. a \in State /\ ChanOK(a) /\ ~a.untrue /\ (\A f \in Fds : SockOK(a, f))
      /\ a.owed = Cardinality(Active(a))
  BY DEF StateOK
<1>2. \A f \in Fds : Scanned(a, f, F[f]) BY <1>1, ExpireIs
<1>3. [OnAll(a, Expire) EXCEPT !.owed = @ - Cardinality(Expired(a))] = b
  <2>1. OnAll(a, Expire) = [a EXCEPT !.socks = ks, !.net = ns, !.http = hs] BY DEF OnAll
  <2> HIDE DEF ks, ns, hs
  <2> QED BY <1>1, <2>1 DEF State
<1>4. IsFiniteSet(Active(a)) /\ IsFiniteSet(Expired(a)) /\ Active(a) \cap Expired(a) = Expired(a)
  <2>1. Active(a) \subseteq Fds /\ Expired(a) \subseteq Active(a) BY DEF Active, Expired, Watched
  <2> QED BY <2>1, SocketsAssumption, FS_Subset
<1>5. o \in Int /\ o = Cardinality(Active(a) \ Expired(a))
  <2>1. Cardinality(Expired(a)) \in Nat /\ Cardinality(Active(a)) \in Nat
    BY <1>4, FS_CardinalityType
  <2>2. Cardinality(Active(a) \ Expired(a))
          = Cardinality(Active(a)) - Cardinality(Active(a) \cap Expired(a))
    BY <1>4, FS_Difference
  <2> QED BY <1>1, <1>4, <2>1, <2>2
<1>6. ks \in [Fds -> Sock] /\ ns \in [Fds -> Net] /\ hs \in [Fds -> Req]
  BY <1>1, <1>2, StateParts DEF Scanned
<1>7. \A f \in Fds : /\ SameSock(a.socks[f], ks[f]) /\ ns[f] = a.net[f]
                     /\ IF f \in Expired(a) THEN hs[f] = NoReq
                        ELSE SameReq(a.http[f], hs[f]) /\ (~a.http[f].on => hs[f] = a.http[f])
  BY <1>2 DEF Scanned
<1> HIDE DEF F, ks, ns, hs, o
<1>8. b \in State BY <1>1, <1>5, <1>6 DEF State
<1>9. /\ b.http = hs /\ b.datamode_req = a.datamode_req /\ b.use = a.use /\ b.owed = o
      /\ b.untrue = a.untrue /\ b.spoiled = a.spoiled /\ b.ctx = a.ctx
      /\ b.socks = ks /\ b.net = ns
  BY <1>1 DEF State
<1> HIDE DEF b
<1>10. NoReq.on = FALSE /\ NoReq.state = "IDLE" BY DEF NoReq
<1>11. Active(b) = Active(a) \ Expired(a)
  BY <1>7, <1>9, <1>10 DEF Active, SameReq
<1>12. \A f \in Fds : SockOK(b, f)
  <2> TAKE f \in Fds
  <2>1. SockOK(a, f) BY <1>1
  <2>2. b.socks[f].type = a.socks[f].type /\ b.socks[f].connected = a.socks[f].connected
        /\ b.socks[f].revents \subseteq a.socks[f].revents /\ b.net[f] = a.net[f]
    BY <1>7, <1>9 DEF SameSock
  <2>3. CASE f \in Expired(a)
    <3>1. b.http[f] = NoReq BY <1>7, <1>9, <2>3
    <3>2. a.http[f].state # "SENDING_BODY" BY <2>3 DEF Expired, Watched
    <3>3. b.datamode_req # f BY <1>9, <2>1, <3>2 DEF SockOK
    <3> QED BY <1>9, <1>10, <2>1, <2>2, <3>1, <3>3, NoReqType DEF SockOK
  <2>4. CASE f \notin Expired(a)
    <3>1. SameReq(a.http[f], b.http[f]) /\ (~a.http[f].on => b.http[f] = a.http[f])
      BY <1>7, <1>9, <2>4
    <3>2. Response(a.net[f], a.http[f]) => Response(b.net[f], b.http[f])
      BY <2>2, <3>1, ResponseOther
    <3>3. ReqOK(a.http[f]) BY <2>1 DEF SockOK
    <3>4. ReqOK(b.http[f]) BY <3>1, <3>3 DEF ReqOK, SameReq
    <3>5. b.http[f].on = a.http[f].on /\ b.http[f].state = a.http[f].state
      BY <3>1 DEF SameReq
    <3> QED BY <1>9, <2>1, <2>2, <3>2, <3>4, <3>5 DEF SockOK
  <2> QED BY <2>3, <2>4
<1>13. ChanOK(b)
  <2>1. \A f \in Fds : b.socks[f].type = a.socks[f].type BY <1>7, <1>9 DEF SameSock
  <2>2. a.ctx.datamode_sock \in Fds \cup {NULL} BY <1>1 DEF State, Chan
  <2> QED BY <1>1, <1>9, <2>1, <2>2 DEF ChanOK, find_socket
<1>14. StateOK(b) BY <1>1, <1>5, <1>8, <1>9, <1>11, <1>12, <1>13 DEF StateOK
<1>15. \E tm \in BOOLEAN : http_timeout_work_fn(a) = [b EXCEPT !.timer = tm]
  BY <1>3 DEF http_timeout_work_fn, http_timeout_monitor_arm
<1>16. \A tm \in BOOLEAN : Same(b, [b EXCEPT !.timer = tm])
  <2>1. b.ctx \in Chan /\ SameChan(b.ctx, b.ctx) BY <1>8 DEF State, SameChan
  <2> QED BY <1>8, <2>1, PutChan
<1> QED BY <1>14, <1>15, <1>16, SameKeeps

(* A request that is told of the end of its socket. *)
LEMMA ClosedFine ==
    ASSUME NEW a, NEW f \in Fds, Fine(a)
    PROVE  /\ Fine(sm_at_httpc_socket_closed(a, f))
           /\ sm_at_httpc_socket_closed(a, f).http[f] = NoReq
           /\ sm_at_httpc_socket_closed(a, f).ctx = a.ctx
           /\ a.http[f].on => Fine(Cancel(a, f))
<1>1. a \in State /\ ~a.untrue /\ SockOK(a, f) BY DEF Fine, StateOK
<1>2. CASE a.http[f].on
  <2>1. Near(a, f) BY <1>2, WorkingParts DEF Working
  <2>2. Fine(http_fail_request(a, f)) BY <2>1, EndFine
  <2>3. http_fail_request(a, f).http[f] = NoReq /\ http_fail_request(a, f).ctx = a.ctx
    BY <1>1, FailIs DEF Is
  <2>4. sm_at_httpc_socket_closed(a, f) = http_fail_request(a, f)
        /\ Cancel(a, f) = http_fail_request(a, f)
    BY <1>2 DEF sm_at_httpc_socket_closed, find_request, Cancel, http_fail_request
  <2> QED BY <2>2, <2>3, <2>4
<1>3. CASE ~a.http[f].on
  <2>1. sm_at_httpc_socket_closed(a, f) = a
    BY <1>3 DEF sm_at_httpc_socket_closed, find_request
  <2> QED BY <1>1, <1>3, <2>1 DEF SockOK, ReqOK
<1> QED BY <1>2, <1>3

LEMMA Fresh ==
    /\ init_socket \in Sock /\ init_socket.type = "none" /\ ~init_socket.connected
    /\ init_socket.revents = {}
    /\ \A l \in {"down", "up"} : NewNet(l) \in Net /\ NewNet(l).link = l
<1>1. {} \in SUBSET Events /\ {} \in SUBSET {"AT", "DATA"} /\ <<>> \in Seq(Units) OBVIOUS
<1>2. init_socket \in Sock BY <1>1 DEF Sock, init_socket
<1>3. \A l \in {"down", "up"} : NewNet(l) \in Net /\ NewNet(l).link = l
  BY <1>1 DEF Net, NewNet
<1> QED BY <1>2, <1>3 DEF init_socket

LEMMA SocketCloseFine ==
    ASSUME NEW a, NEW f \in Fds, Fine(a)
    PROVE  Fine(do_socket_close(a, f))
<1> DEFINE c == sm_at_httpc_socket_closed(a, f)
           k == init_socket
           n == NewNet("down")
           r == c.http[f]
           x == Put(c, f, k, n, r)
           sp == c.spoiled \ {f}
           b == PutMore(x, sp, c.ctx, c.datamode_req, c.owed)
<1>1. Fine(c) /\ c.http[f] = NoReq BY ClosedFine
<1>2. do_socket_close(a, f) = [c EXCEPT !.socks[f] = k, !.net[f] = n, !.spoiled = sp]
  BY DEF do_socket_close
<1> HIDE DEF c, k, n
<1>3. StateOK(c) /\ c \in State /\ ChanOK(c) /\ SockOK(c, f) /\ c.ctx.mode # "data"
      /\ c.owed = Cardinality(Active(c))
  BY <1>1 DEF Fine, StateOK
<1>4. /\ r \in Req /\ sp \in SUBSET Fds /\ c.ctx \in Chan /\ c.owed \in Int
      /\ c.datamode_req \in Fds \cup {NULL}
  BY <1>3 DEF State
<1>5. [c EXCEPT !.socks[f] = k, !.net[f] = n, !.spoiled = sp] = b
  <2>1. [c.http EXCEPT ![f] = r] = c.http BY <1>3 DEF State
  <2> HIDE DEF sp
  <2> QED BY <1>3, <2>1 DEF State, Put, PutMore
<1>6. k \in Sock /\ n \in Net /\ k.type = "none" /\ ~k.connected /\ k.revents = {}
      /\ n.link = "down"
  BY Fresh DEF k, n
<1> HIDE DEF r
<1>7. Apart(c, x, f) /\ Is(x, f, k, n, r) BY <1>3, <1>4, <1>6, PutApart
<1>8. Others(c, f, sp, c.datamode_req) BY DEF Others
<1> HIDE DEF x, sp
<1>9. Apart(c, b, f) /\ Is(b, f, k, n, r)
      /\ IsMore(b, sp, c.ctx, c.datamode_req, c.owed)
  BY <1>4, <1>7, <1>8, MoreApart
<1> HIDE DEF b
<1>10. /\ b.socks[f] = k /\ b.net[f] = n /\ b.http[f] = NoReq /\ b.ctx = c.ctx
       /\ b.datamode_req = c.datamode_req /\ b.owed = c.owed /\ b.use = c.use
  BY <1>1, <1>9 DEF Is, IsMore, Apart, r
<1>11. ChanOK(b) BY <1>3, <1>10 DEF ChanOK
<1>12. NoReq.on = FALSE BY DEF NoReq
<1>13. SockOK(b, f) BY <1>1, <1>3, <1>6, <1>10, <1>12 DEF SockOK
<1>14. b.owed = Cardinality(Active(b))
  <2>1. b.http[f].on <=> c.http[f].on BY <1>1, <1>10
  <2> QED BY <1>3, <1>9, <1>10, <2>1, ActiveIs
<1>15. StateOK(b) BY <1>3, <1>9, <1>11, <1>13, <1>14, ApartKeeps
<1> QED BY <1>2, <1>3, <1>5, <1>10, <1>15 DEF Fine

-----------------------------------------------------------------------------
(* Plain sockets, without requests.                                         *)

(* The lowest handle. *)
LEMMA LowestIs ==
    ASSUME NEW F \in SUBSET Fds, F # {}
    PROVE  Lowest(F) \in F
<1> DEFINE R == OpToRel(<, Nat)
<1>1. F \subseteq Nat BY SocketsAssumption
<1>2. \A i, j \in Nat : <<i, j>> \in R <=> i < j BY DEF OpToRel
<1>3. IsWellFoundedOn(R, Nat) BY NatLessThanWellFounded, Zenon
<1> HIDE DEF R
<1>4. \E x \in F : \A y \in F : <<y, x>> \notin R BY <1>1, <1>3, WFMin
<1>5. \A i, j \in Nat : ~(j < i) => i <= j OBVIOUS
<1>6. \E x \in F : \A y \in F : x <= y BY <1>1, <1>2, <1>4, <1>5, Zenon
<1> QED BY <1>6 DEF Lowest

(* What has nothing to do with requests. *)
Beside(a, b) ==
    /\ b \in State /\ b.http = a.http /\ b.datamode_req = a.datamode_req /\ b.use = a.use
    /\ b.owed = a.owed /\ b.untrue = a.untrue /\ SameChan(a.ctx, b.ctx)

LEMMA BesideTrans ==
    /\ \A a, b, c : Beside(a, b) /\ Beside(b, c) => Beside(a, c)
    /\ \A a, b : Same(a, b) => Beside(a, b)
BY DEF Beside, Same, SameChan

LEMMA BesideKeeps ==
    ASSUME NEW a, StateOK(a), a.use = "sockets", NEW b, Beside(a, b),
           a.ctx.mode = "data" => \A g \in Fds : b.socks[g].type = a.socks[g].type
    PROVE  StateOK(b) /\ b.ctx.mode = a.ctx.mode
<1>1. a \in State /\ ChanOK(a) /\ ~a.untrue /\ (\A f \in Fds : SockOK(a, f))
      /\ a.owed = Cardinality(Active(a))
  BY DEF StateOK
<1>2. /\ b \in State /\ b.http = a.http /\ b.datamode_req = a.datamode_req /\ b.use = a.use
      /\ b.owed = a.owed /\ b.untrue = a.untrue /\ b.ctx.mode = a.ctx.mode
      /\ b.ctx.datamode_sock = a.ctx.datamode_sock
  BY DEF Beside, SameChan
<1>3. \A f \in Fds : SockOK(b, f) BY <1>1, <1>2 DEF SockOK
<1>4. Active(b) = Active(a) BY <1>2 DEF Active
<1>5. ChanOK(b)
  <2>1. a.ctx.datamode_sock \in Fds \cup {NULL} BY <1>1 DEF State, Chan
  <2> QED BY <1>1, <1>2, <2>1 DEF ChanOK, find_socket
<1> QED BY <1>1, <1>2, <1>3, <1>4, <1>5 DEF StateOK

LEMMA PutBeside ==
    ASSUME NEW a \in State, NEW f \in Fds, NEW k \in Sock, NEW n \in Net
    PROVE  /\ Beside(a, [a EXCEPT !.socks[f] = k, !.net[f] = n])
           /\ Beside(a, [a EXCEPT !.net[f] = n])
           /\ [a EXCEPT !.net[f] = n].socks = a.socks
           /\ [a EXCEPT !.socks[f] = k, !.net[f] = n].socks[f] = k
           /\ [a EXCEPT !.socks[f] = k, !.net[f] = n].net[f] = n
<1> DEFINE ks == [a.socks EXCEPT ![f] = k]
           ns == [a.net EXCEPT ![f] = n]
           b == [a EXCEPT !.socks = ks, !.net = ns]
           c == [a EXCEPT !.net = ns]
<1>1. b = [a EXCEPT !.socks[f] = k, !.net[f] = n] /\ c = [a EXCEPT !.net[f] = n] OBVIOUS
<1>2. ks \in [Fds -> Sock] /\ ns \in [Fds -> Net] /\ ks[f] = k /\ ns[f] = n BY DEF State
<1> HIDE DEF ks, ns
<1>3. b \in State /\ c \in State BY <1>2 DEF State
<1>4. Beside(a, b) /\ Beside(a, c) /\ c.socks = a.socks /\ b.socks = ks /\ b.net = ns
  BY <1>3 DEF Beside, SameChan, State
<1> HIDE DEF b, c
<1> QED BY <1>1, <1>2, <1>4

LEMMA CloseAllFine ==
    ASSUME NEW a, Fine(a), a.use = "sockets"
    PROVE  Fine(OnOpen(a, do_socket_close))
<1> DEFINE Op(f) == IF find_socket(a, f) THEN do_socket_close(a, f) ELSE a
           F == [f \in Fds |-> Op(f)]
           ks == [f \in Fds |-> F[f].socks[f]]
           ns == [f \in Fds |-> F[f].net[f]]
           hs == [f \in Fds |-> F[f].http[f]]
           b == [a EXCEPT !.socks = ks, !.net = ns, !.http = hs]
<1>1. StateOK(a) /\ a \in State /\ a.ctx.mode # "data" /\ \A f \in Fds : ~a.http[f].on
  BY DEF Fine, StateOK, SockOK
<1>2. \A f \in Fds : F[f].socks[f] \in Sock /\ F[f].net[f] \in Net /\ F[f].http[f] = a.http[f]
  <2> TAKE f \in Fds
  <2>1. CASE find_socket(a, f)
    <3> DEFINE k == init_socket
               n == NewNet("down")
               c == [a EXCEPT !.socks[f] = k, !.net[f] = n]
               sp == a.spoiled \ {f}
               e == [a EXCEPT !.socks[f] = k, !.net[f] = n, !.spoiled = sp]
    <3>1. F[f] = e
      BY <1>1, <2>1 DEF do_socket_close, sm_at_httpc_socket_closed, find_request
    <3>2. k \in Sock /\ n \in Net BY Fresh
    <3> HIDE DEF k, n, sp, F
    <3>3. c.socks[f] = k /\ c.net[f] = n
      <4>1. a.socks \in [Fds -> Sock] /\ a.net \in [Fds -> Net] BY <1>1 DEF State
      <4>2. c.socks = [a.socks EXCEPT ![f] = k] /\ c.net = [a.net EXCEPT ![f] = n]
        BY <1>1 DEF State
      <4> QED BY <4>1, <4>2
    <3>4. e.socks = c.socks /\ e.net = c.net /\ e.http = a.http BY <1>1 DEF State
    <3> QED BY <3>1, <3>2, <3>3, <3>4
  <2>2. CASE ~find_socket(a, f)
    <3>1. F[f] = a BY <2>2
    <3> QED BY <1>1, <3>1, StateParts
  <2> QED BY <2>1, <2>2
<1>3. OnOpen(a, do_socket_close) = b BY DEF OnOpen, OnAll
<1>4. ks \in [Fds -> Sock] /\ ns \in [Fds -> Net] /\ hs = a.http
  <2>1. a.http \in [Fds -> Req] BY <1>1 DEF State
  <2> HIDE DEF F
  <2> QED BY <1>2, <2>1
<1> HIDE DEF ks, ns, hs
<1>5. b \in State BY <1>1, <1>4 DEF State
<1>6. Beside(a, b) BY <1>1, <1>4, <1>5 DEF Beside, SameChan, State
<1> HIDE DEF b
<1>7. StateOK(b) /\ b.ctx.mode = a.ctx.mode BY <1>1, <1>6, BesideKeeps
<1> QED BY <1>1, <1>3, <1>7 DEF Fine

(* A socket that is opened. *)
LEMMA OpenedBeside ==
    ASSUME NEW a \in State, NEW f \in Fds, NEW k \in Sock, NEW l \in {"down", "up"}
    PROVE  Beside(a, Opened(a, f, k, l))
<1> DEFINE k2 == [k EXCEPT !.adr = a.ctx.adr, !.requested = a.ctx.requested]
           n == NewNet(l)
           b == [a EXCEPT !.socks[f] = k2, !.net[f] = n]
<1>1. k2 \in Sock
  <2>1. a.ctx.adr \in SUBSET {"AT", "DATA"} /\ a.ctx.requested \in SUBSET Events
    BY DEF State, Chan
  <2> QED BY <2>1, ZenonT(30) DEF Sock
<1>2. n \in Net BY Fresh
<1>3. Opened(a, f, k, l) = update_poll_events(b, f, Events, TRUE) BY DEF Opened
<1> HIDE DEF k2, n
<1>4. Beside(a, b) BY <1>1, <1>2, PutBeside
<1> HIDE DEF b
<1>5. b \in State BY <1>4 DEF Beside
<1>6. Same(b, update_poll_events(b, f, Events, TRUE)) BY <1>5, UpdateSame
<1> QED BY <1>3, <1>4, <1>6, BesideTrans

LEMMA OpenFine ==
    ASSUME NEW a, NEW f \in Fds, Fine(a), a.use = "sockets", NEW type \in {"stream", "dgram"}
    PROVE  Fine(do_socket_open(a, f, type))
<1> DEFINE k == [init_socket EXCEPT !.type = type]
           l == IF type = "dgram" THEN "up" ELSE "down"
<1>1. k \in Sock BY Fresh, ZenonT(30) DEF Sock
<1>2. l \in {"down", "up"} OBVIOUS
<1>3. do_socket_open(a, f, type) = Opened(a, f, k, l) BY DEF do_socket_open
<1> HIDE DEF k, l
<1>4. a \in State /\ StateOK(a) /\ a.ctx.mode # "data" BY DEF Fine, StateOK
<1>5. Beside(a, Opened(a, f, k, l)) BY <1>1, <1>2, <1>4, OpenedBeside
<1> QED BY <1>3, <1>4, <1>5, BesideKeeps DEF Fine

-----------------------------------------------------------------------------
(* Receiving.                                                               *)

LEMMA DullSame ==
    ASSUME NEW a \in State, NEW f \in Fds
    PROVE  Same(a, Dull(a, f))
<1> DEFINE d == "IN" \notin a.socks[f].events
           k == [a.socks[f] EXCEPT !.dull = d]
<1>1. d \in BOOLEAN OBVIOUS
<1>2. Dull(a, f) = [a EXCEPT !.socks[f] = k] BY DEF Dull
<1> HIDE DEF d
<1>3. Polls(a.socks[f], k)
  BY <1>1, StateParts, PollFields, {} \in SUBSET Events, {} \in SUBSET {"AT", "DATA"}, Zenon
<1> HIDE DEF k
<1> QED BY <1>2, <1>3, PutSock DEF Polls

(* What another reader, or the network, does to the wire. *)
Tells(a, f, n, sp) ==
    (f \notin sp /\ a.http[f].on /\ n.link \in {"down", "up"} /\ Response(a.net[f], a.http[f]))
       => Response(n, a.http[f])
PutWire(a, f, n, sp) == [a EXCEPT !.net[f] = n, !.spoiled = sp]
LEMMA WireKeeps ==
    ASSUME NEW a, NEW f \in Fds, StateOK(a), NEW n \in Net, n.link = a.net[f].link,
           NEW sp, Spoils(a, f, sp),
           Tells(a, f, n, sp)
    PROVE  /\ StateOK(PutWire(a, f, n, sp)) /\ PutWire(a, f, n, sp).ctx = a.ctx
           /\ PutWire(a, f, n, sp) \in State
<1> DEFINE r == a.http[f]
           e == Upd(a, f, n, r, sp)
<1>1. a \in State BY DEF StateOK
<1>2. r \in Req /\ a.http \in [Fds -> Req] BY <1>1 DEF State
<1>3. /\ StateBut(a, f) /\ ReqOK(r)
      /\ (r.on /\ f \notin a.spoiled /\ a.net[f].link \in {"down", "up"}) => Response(a.net[f], r)
  BY Weaken
<1>4. Follows(a, f, n, r) BY <1>2 DEF Follows
<1>5. e = PutWire(a, f, n, sp)
  <2>1. [a.http EXCEPT ![f] = r] = a.http BY <1>2
  <2> HIDE DEF r
  <2> QED BY <1>1, <2>1 DEF Upd, State, PutWire
<1>6. f \notin sp => f \notin a.spoiled BY DEF Spoils
<1> HIDE DEF r
<1>7. StateBut(e, f) /\ Becomes(e, f, n, r, sp) /\ e.ctx = a.ctx BY <1>3, <1>4, PutReq
<1> HIDE DEF e
<1>8. e.http[f] = r /\ e.net[f] = n /\ e.spoiled = sp BY <1>7 DEF Becomes
<1>9. (r.on /\ f \notin sp /\ n.link \in {"down", "up"}) => Response(n, r)
  BY <1>3, <1>6 DEF r, Tells
<1>10. StateOK(e)
  <2>1. ReqOK(e.http[f]) BY <1>3, <1>8
  <2>2. (e.http[f].on /\ f \notin e.spoiled /\ e.net[f].link \in {"down", "up"})
          => Response(e.net[f], e.http[f])
    BY <1>8, <1>9
  <2> QED BY <1>7, <2>1, <2>2, Strengthen
<1> QED BY <1>5, <1>7, <1>10 DEF StateOK

LEMMA ReceivedKeeps ==
    ASSUME NEW a, NEW f \in Fds, StateOK(a), NEW k \in 0..Len(a.net[f].in)
    PROVE  StateOK(Received(a, f, k)) /\ SameChan(a.ctx, Received(a, f, k).ctx)
<1> DEFINE n == a.net[f]
           r == a.http[f]
           n2 == ReadNet(n, k)
           t == [a EXCEPT !.net[f] = n2]
<1>1. a \in State /\ n \in Net /\ r \in Req /\ a.net \in [Fds -> Net] BY DEF StateOK, State
<1>2. n.in \in Seq(Units) /\ Len(n.in) \in Nat BY <1>1, Types
<1>3. k \in 0..Len(n.in) /\ k \in Nat BY <1>2
<1>4. Consume(a, f, k) = t BY DEF Consume, ReadNet
<1>5. n2 \in Net /\ SameSrv(n, n2) /\ n2.link = n.link
      /\ n2.in = SubSeq(n.in, k + 1, Len(n.in))
  <2> DEFINE x == SubSeq(n.in, k + 1, Len(n.in))
  <2>1. x \in Seq(Units) BY <1>2, <1>3, CutSeq
  <2> HIDE DEF x
  <2>2. [n EXCEPT !.in = x] \in Net BY <1>1, <2>1, ZenonT(30) DEF Net
  <2>3. [n EXCEPT !.in = x].link = n.link /\ [n EXCEPT !.in = x].in = x
        /\ SameSrv(n, [n EXCEPT !.in = x])
    BY <1>1 DEF Net, SameSrv
  <2> QED BY <2>2, <2>3 DEF ReadNet, x
<1>6. CASE k = 0
  <2>1. n2.in = n.in BY <1>2, <1>5, <1>6
  <2>2. SameNet(n, n2) BY <1>5, <2>1 DEF SameNet, SameSrv
  <2>3. Received(a, f, k) = Dull(t, f) BY <1>4, <1>6 DEF Received
  <2> HIDE DEF n2
  <2>4. Same(a, t) BY <1>1, <1>5, <2>2, PutNet
  <2> HIDE DEF t
  <2>5. Same(t, Dull(t, f)) BY <2>4, DullSame DEF Same
  <2>6. Same(a, Dull(t, f)) BY <2>4, <2>5, SameTrans
  <2> QED BY <2>3, <2>6, SameKeeps DEF Same
<1>7. CASE k # 0 /\ n.in[1] = Empty
  <2>1. ~Response(n, r)
    <3>1. n.in # <<>> BY <1>2, <1>3, <1>7
    <3> QED BY <1>1, <1>7, <3>1, NoEmpty
  <2>2. Received(a, f, k) = Dull(t, f) BY <1>4, <1>7 DEF Received
  <2>3. t = PutWire(a, f, n2, a.spoiled)
    <3> HIDE DEF n2
    <3> QED BY <1>1 DEF State, PutWire
  <2>4. Spoils(a, f, a.spoiled) BY DEF Spoils
  <2> HIDE DEF n2
  <2>5. StateOK(t) /\ t.ctx = a.ctx /\ t \in State
    <3> HIDE DEF t
    <3>1. n2 \in Net /\ n2.link = a.net[f].link BY <1>5
    <3>2. Tells(a, f, n2, a.spoiled) BY <2>1 DEF Tells
    <3> QED BY <2>3, <2>4, <3>1, <3>2, WireKeeps
  <2> HIDE DEF t
  <2>6. Same(t, Dull(t, f)) BY <2>5, DullSame
  <2> QED BY <2>2, <2>5, <2>6, SameKeeps DEF Same
<1>8. CASE k # 0 /\ n.in[1] # Empty
  <2> DEFINE x == a.socks[f].told \ {"IN"}
             j == [a.socks[f] EXCEPT !.told = x]
             sp == a.spoiled \cup Stolen(a, f)
             e == PutWire(a, f, n2, sp)
             g == [e EXCEPT !.socks[f] = j]
  <2>1. Received(a, f, k) = update_poll_events([t EXCEPT !.socks[f].told = @ \ {"IN"},
                                                         !.spoiled = @ \cup Stolen(a, f)],
                                f, {"IN"}, TRUE)
    BY <1>4, <1>8 DEF Received
  <2>2. [t EXCEPT !.socks[f].told = @ \ {"IN"}, !.spoiled = @ \cup Stolen(a, f)] = g
    <3> HIDE DEF n2
    <3>1. t.socks = a.socks /\ t.spoiled = a.spoiled BY <1>1 DEF State
    <3>2. [t EXCEPT !.socks[f].told = @ \ {"IN"}, !.spoiled = @ \cup Stolen(a, f)]
            = [t EXCEPT !.socks[f] = j, !.spoiled = sp]
      <4> HIDE DEF t
      <4>1. a.socks \in [Fds -> Sock] BY <1>1 DEF State
      <4>2. [t.socks EXCEPT ![f].told = @ \ {"IN"}] = [t.socks EXCEPT ![f] = j]
        BY <3>1, <4>1
      <4> QED BY <3>1, <4>2
    <3> HIDE DEF j, sp
    <3> QED BY <1>1, <3>2 DEF State, PutWire
  <2>3. Spoils(a, f, sp) /\ (r.on => f \in sp) BY DEF Spoils, Stolen
  <2>4. a.socks[f] \in Sock /\ x \in SUBSET Events BY <1>1, StateParts
  <2> HIDE DEF x, sp
  <2>5. Polls(a.socks[f], j)
    BY <2>4, PollFields, {} \in SUBSET Events, {} \in SUBSET {"AT", "DATA"}, TRUE \in BOOLEAN, Zenon
  <2> HIDE DEF n2, j
  <2>6. StateOK(e) /\ e.ctx = a.ctx /\ e \in State
    <3>1. n2 \in Net /\ n2.link = a.net[f].link BY <1>5
    <3>2. Tells(a, f, n2, sp) BY <2>3 DEF Tells
    <3> QED BY <2>3, <3>1, <3>2, WireKeeps
  <2>7. e.socks = a.socks BY <1>1 DEF State, PutWire
  <2> HIDE DEF e
  <2>8. Same(e, g) BY <2>5, <2>6, <2>7, PutSock DEF Polls
  <2> HIDE DEF g
  <2>9. Same(g, update_poll_events(g, f, {"IN"}, TRUE))
    BY <2>8, UpdateSame, {"IN"} \in SUBSET Events DEF Same, Events
  <2>10. Same(e, update_poll_events(g, f, {"IN"}, TRUE)) BY <2>8, <2>9, SameTrans
  <2> QED BY <2>1, <2>2, <2>6, <2>10, SameKeeps DEF Same
<1> QED BY <1>6, <1>7, <1>8

LEMMA RecvKeeps ==
    ASSUME NEW a, NEW f \in Fds, StateOK(a), NEW max \in Nat \ {0}
    PROVE  /\ StateOK(do_recv(a, f, max)) /\ SameChan(a.ctx, do_recv(a, f, max).ctx)
           /\ StateOK(do_recvfrom(a, f)) /\ SameChan(a.ctx, do_recvfrom(a, f).ctx)
           /\ StateOK(auto_reception(a, f)) /\ SameChan(a.ctx, auto_reception(a, f).ctx)
<1>1. a.net[f] \in Net BY DEF StateOK, State
<1>2. a.net[f].in \in Seq(Units) BY <1>1 DEF Net
<1>3. \A m \in Nat \ {0} : Available(a, f, m) \in 0..Len(a.net[f].in)
  BY <1>2 DEF Available
<1>4. \A m \in Nat \ {0} : StateOK(do_recv(a, f, m)) /\ SameChan(a.ctx, do_recv(a, f, m).ctx)
  BY <1>3, ReceivedKeeps DEF do_recv
<1>5. StateOK(do_recvfrom(a, f)) /\ SameChan(a.ctx, do_recvfrom(a, f).ctx)
  BY <1>3, ReceivedKeeps DEF do_recvfrom
<1>6. RecvBuf \in Nat \ {0} BY SocketsAssumption
<1>7. SameChan(a.ctx, a.ctx) BY DEF SameChan
<1>8. \/ auto_reception(a, f) = a \/ auto_reception(a, f) = do_recv(a, f, RecvBuf)
      \/ auto_reception(a, f) = do_recvfrom(a, f)
  BY DEF auto_reception
<1> QED BY <1>4, <1>5, <1>6, <1>7, <1>8

-----------------------------------------------------------------------------
(* Commands that change a connection, and the peers.                        *)

LEMMA AcceptFine ==
    ASSUME NEW a, NEW f \in Fds, Fine(a), a.use = "sockets"
    PROVE  Fine(do_accept(a, f))
<1> DEFINE n == a.net[f]
           t == Consume(a, f, 1)
           g == Lowest(Free(a))
           k == [init_socket EXCEPT !.type = "stream", !.connected = TRUE]
           b == Opened(t, g, k, "up")
           x == b.socks[f].told \ {"IN"}
           j == [b.socks[f] EXCEPT !.told = x]
           c == [b EXCEPT !.socks[f] = j]
<1>1. StateOK(a) /\ a \in State /\ a.ctx.mode # "data" BY DEF Fine, StateOK
<1>2. n \in Net BY <1>1 DEF State
<1>3. n.in \in Seq(Units) /\ Len(n.in) \in Nat BY <1>2 DEF Net
<1>4. CASE n.in = <<>>
  <2>1. do_accept(a, f) = Dull(a, f) BY <1>4 DEF do_accept
  <2> QED BY <1>1, <2>1, DullSame, FineSame
<1>5. CASE n.in # <<>>
  <2>1. t = [a EXCEPT !.net[f] = ReadNet(n, 1)] BY DEF Consume, ReadNet
  <2>2. ReadNet(n, 1) \in Net
    <3> DEFINE y == SubSeq(n.in, 1 + 1, Len(n.in))
    <3>1. 1 \in 0..Len(n.in) BY <1>3, <1>5
    <3>2. y \in Seq(Units) BY <1>3, <3>1, CutSeq
    <3> HIDE DEF y
    <3>3. [n EXCEPT !.in = y] \in Net BY <1>2, <3>2, ZenonT(30) DEF Net
    <3> QED BY <3>3 DEF ReadNet, y
  <2>3. Beside(a, t)
    <3> DEFINE m == ReadNet(n, 1)
    <3>1. m \in Net BY <2>2
    <3>2. t = [a EXCEPT !.net[f] = m] BY <2>1
    <3> HIDE DEF m, t
    <3>3. a.socks[f] \in Sock BY <1>1 DEF State
    <3>4. Beside(a, [a EXCEPT !.net[f] = m]) BY <1>1, <3>1, <3>3, PutBeside
    <3> QED BY <3>2, <3>4
  <2>4. CASE Free(a) = {}
    <3>1. do_accept(a, f) = Dull(t, f) BY <1>5, <2>4 DEF do_accept
    <3> HIDE DEF t
    <3>2. Same(t, Dull(t, f)) BY <2>3, DullSame DEF Beside
    <3>3. Beside(a, Dull(t, f)) BY <2>3, <3>2, BesideTrans
    <3> QED BY <1>1, <3>1, <3>3, BesideKeeps DEF Fine
  <2>5. CASE Free(a) # {}
    <3>1. do_accept(a, f) = update_poll_events([b EXCEPT !.socks[f].told = @ \ {"IN"}],
                                               f, {"IN"}, TRUE)
      BY <1>5, <2>5 DEF do_accept
    <3>2. [b EXCEPT !.socks[f].told = @ \ {"IN"}] = c OBVIOUS
    <3>3. g \in Fds
      <4>1. Free(a) \in SUBSET Fds BY DEF Free
      <4> QED BY <2>5, <4>1, LowestIs
    <3>4. k \in Sock BY Fresh, ZenonT(30) DEF Sock
    <3> HIDE DEF t, g, k
    <3>5. t \in State BY <2>3 DEF Beside
    <3>6. Beside(t, b) BY <3>3, <3>4, <3>5, OpenedBeside
    <3> HIDE DEF b
    <3>7. b \in State BY <3>6 DEF Beside
    <3>8. b.socks[f] \in Sock /\ x \in SUBSET Events BY <3>7, StateParts
    <3> HIDE DEF x
    <3>9. Polls(b.socks[f], j)
      BY <3>8, PollFields, {} \in SUBSET Events, {} \in SUBSET {"AT", "DATA"}, TRUE \in BOOLEAN,
         Zenon
    <3> HIDE DEF j
    <3>10. Same(b, c) BY <3>7, <3>9, PutSock DEF Polls
    <3> HIDE DEF c
    <3>11. Same(c, update_poll_events(c, f, {"IN"}, TRUE))
      BY <3>10, UpdateSame, {"IN"} \in SUBSET Events DEF Same, Events
    <3>12. Beside(a, c) BY <2>3, <3>6, <3>10, BesideTrans
    <3>13. Beside(a, update_poll_events(c, f, {"IN"}, TRUE)) BY <3>11, <3>12, BesideTrans
    <3> QED BY <1>1, <3>1, <3>2, <3>13, BesideKeeps DEF Fine
  <2> QED BY <2>4, <2>5
<1> QED BY <1>4, <1>5

(* A new socket or a new connection, seen by the request that may use it. *)
Fits(a, f, k, n) ==
    /\ k \in Sock /\ n \in Net
    /\ k.type # "none" \/ (~a.http[f].on /\ a.ctx.mode # "data")
    /\ a.use = "http" => /\ k.type \in {"none", "tls"}
                         /\ ~k.connected => n.link = "down"
                         /\ "HUP" \in k.revents => n.link = "fin"
    /\ (a.http[f].on /\ f \notin a.spoiled /\ n.link \in {"down", "up"})
          => Response(n, a.http[f])
PutSockNet(a, f, k, n) == [a EXCEPT !.socks[f] = k, !.net[f] = n]
LEMMA SockNet ==
    ASSUME NEW a, NEW f \in Fds, StateOK(a), NEW k, NEW n, Fits(a, f, k, n)
    PROVE  StateOK(PutSockNet(a, f, k, n)) /\ PutSockNet(a, f, k, n).ctx = a.ctx
<1> DEFINE r == a.http[f]
           b == Put(a, f, k, n, r)
<1>1. a \in State /\ ChanOK(a) /\ SockOK(a, f) /\ r \in Req /\ k \in Sock /\ n \in Net
  BY DEF StateOK, State, Fits
<1>2. b = PutSockNet(a, f, k, n)
  <2>1. [a.http EXCEPT ![f] = r] = a.http BY <1>1 DEF State
  <2> HIDE DEF r
  <2> QED BY <1>1, <2>1 DEF Put, State, PutSockNet
<1> HIDE DEF r
<1>3. /\ Apart(a, b, f) /\ Is(b, f, k, n, r)
      /\ IsMore(b, a.spoiled, a.ctx, a.datamode_req, a.owed)
  BY <1>1, PutApart
<1> HIDE DEF b
<1>4. /\ b.socks[f] = k /\ b.net[f] = n /\ b.http[f] = r /\ b.spoiled = a.spoiled
      /\ b.ctx = a.ctx /\ b.datamode_req = a.datamode_req /\ b.owed = a.owed /\ b.use = a.use
      /\ \A h \in Fds \ {f} : b.socks[h] = a.socks[h]
  BY <1>3 DEF Is, IsMore, Apart
<1>5. ChanOK(b)
  <2>1. a.ctx.datamode_sock \in Fds \cup {NULL} BY <1>1 DEF State, Chan
  <2> QED BY <1>1, <1>4, <2>1 DEF ChanOK, find_socket, Fits
<1>6. SockOK(b, f) BY <1>1, <1>4 DEF SockOK, Fits, r
<1>7. b.owed = Cardinality(Active(b))
  <2>1. b.http[f].on <=> a.http[f].on BY <1>4 DEF r
  <2> QED BY <1>3, <1>4, <2>1, ActiveIs
<1>8. StateOK(b) BY <1>3, <1>5, <1>6, <1>7, ApartKeeps
<1> QED BY <1>2, <1>4, <1>8

LEMMA SecureOpenFine ==
    ASSUME NEW a, NEW f \in Fds, Fine(a), ~find_socket(a, f)
    PROVE  Fine(do_secure_socket_open(a, f))
<1> DEFINE k == [init_socket EXCEPT !.type = "tls"]
           k2 == [k EXCEPT !.adr = a.ctx.adr, !.requested = a.ctx.requested]
           n == NewNet("down")
           b == PutSockNet(a, f, k2, n)
<1>1. StateOK(a) /\ a \in State /\ a.ctx.mode # "data" /\ SockOK(a, f) BY DEF Fine, StateOK
<1>2. k2 \in Sock /\ k2.type = "tls" /\ ~k2.connected /\ k2.revents = {}
  <2>1. a.ctx.adr \in SUBSET {"AT", "DATA"} /\ a.ctx.requested \in SUBSET Events
    BY <1>1 DEF State, Chan
  <2>2. k \in Sock BY Fresh, ZenonT(30) DEF Sock
  <2>3. k.type = "tls" /\ ~k.connected /\ k.revents = {} BY DEF init_socket
  <2> HIDE DEF k
  <2>4. k2 \in Sock BY <2>1, <2>2, ZenonT(30) DEF Sock
  <2>5. k2.type = k.type /\ k2.connected = k.connected /\ k2.revents = k.revents
    BY <2>2 DEF Sock
  <2> QED BY <2>3, <2>4, <2>5
<1>3. n \in Net /\ n.link = "down" BY Fresh
<1>4. do_secure_socket_open(a, f) = update_poll_events(b, f, Events, TRUE)
  BY DEF do_secure_socket_open, Opened, PutSockNet
<1>5. ~a.http[f].on BY <1>1 DEF SockOK, find_socket
<1> HIDE DEF k2, n
<1>6. StateOK(b) /\ b.ctx = a.ctx
  <2>1. Fits(a, f, k2, n) BY <1>1, <1>2, <1>3, <1>5 DEF Fits
  <2> QED BY <1>1, <2>1, SockNet
<1> HIDE DEF b
<1>7. Fine(b) /\ b \in State BY <1>1, <1>6 DEF Fine, StateOK
<1>8. Same(b, update_poll_events(b, f, Events, TRUE)) BY <1>7, UpdateSame
<1> QED BY <1>4, <1>7, <1>8, FineSame

LEMMA ResponseLink ==
    ASSUME NEW m, NEW n, NEW r, n.in = m.in, SameSrv(m, n), Response(m, r)
    PROVE  Response(n, r)
<1>1. n.srv = m.srv /\ n.sent = m.sent BY DEF SameSrv
<1>2. /\ \A cl : BodyOK(m, cl) => BodyOK(n, cl)
      /\ \A w : Beginning(m, r, w) => Beginning(n, r, w)
  BY BodySame, BeginningSame, Zenon DEF SameHead
<1> QED BY <1>1, <1>2 DEF Response

LEMMA ConnectFine ==
    ASSUME NEW a, NEW f \in Fds, Fine(a), find_socket(a, f), ~a.socks[f].connected
    PROVE  Fine(do_connect(a, f))
<1> DEFINE k == [a.socks[f] EXCEPT !.connected = TRUE]
           n == [a.net[f] EXCEPT !.link = "up"]
           b == PutSockNet(a, f, k, n)
<1>1. StateOK(a) /\ a \in State /\ a.ctx.mode # "data" /\ SockOK(a, f) BY DEF Fine, StateOK
<1>2. a.socks[f] \in Sock /\ a.net[f] \in Net BY <1>1 DEF State
<1>3. do_connect(a, f) = b BY DEF do_connect, PutSockNet
<1>4. k \in Sock BY <1>2, ZenonT(30) DEF Sock
<1>5. n \in Net BY <1>2, ZenonT(30) DEF Net
<1>6. k.type = a.socks[f].type /\ k.connected /\ k.revents = a.socks[f].revents
  BY <1>2 DEF Sock
<1>7. n.link = "up" /\ n.in = a.net[f].in /\ SameSrv(a.net[f], n) BY <1>2 DEF Net, SameSrv
<1> HIDE DEF k, n
<1>8. a.use = "http" => a.net[f].link = "down" /\ "HUP" \notin k.revents
  BY <1>1, <1>6 DEF SockOK
<1>9. (a.http[f].on /\ f \notin a.spoiled) => Response(n, a.http[f])
  <2>1. a.http[f].on => a.use = "http" BY <1>1 DEF SockOK
  <2>2. (a.http[f].on /\ f \notin a.spoiled) => Response(a.net[f], a.http[f])
    BY <1>1, <1>8, <2>1 DEF SockOK
  <2> QED BY <1>7, <2>2, ResponseLink
<1>10. StateOK(b) /\ b.ctx = a.ctx
  <2>1. a.use = "http" => /\ k.type \in {"none", "tls"}
                          /\ ~k.connected => n.link = "down"
                          /\ "HUP" \in k.revents => n.link = "fin"
    BY <1>1, <1>6, <1>8 DEF SockOK
  <2>2. k.type # "none" BY <1>6 DEF find_socket
  <2>3. Fits(a, f, k, n) BY <1>4, <1>5, <1>9, <2>1, <2>2 DEF Fits
  <2> QED BY <1>1, <2>3, SockNet
<1> QED BY <1>1, <1>3, <1>10 DEF Fine

LEMMA PollCbKeeps ==
    ASSUME NEW a, NEW f \in Fds, StateOK(a), find_socket(a, f)
    PROVE  StateOK(poll_cb(a, f)) /\ SameChan(a.ctx, poll_cb(a, f).ctx)
<1> DEFINE k == a.socks[f]
           n == a.net[f]
           rev == k.revents \cup (Ready(n) \cap (n.cb \cup Permanent))
           k2 == [k EXCEPT !.revents = rev]
           n2 == [n EXCEPT !.reg = FALSE, !.cb = {}]
           b == PutSockNet(a, f, k2, n2)
           c == [a.ctx EXCEPT !.queue = @ \cup {"poll"}]
           e == [b EXCEPT !.ctx = c]
<1>1. a \in State /\ SockOK(a, f) BY DEF StateOK
<1>2. k \in Sock /\ n \in Net /\ a.ctx \in Chan BY <1>1 DEF State
<1>3. rev \in SUBSET Events /\ ("HUP" \in rev => "HUP" \in k.revents \/ n.link = "fin")
  BY <1>2 DEF Sock, Net, Ready, Events, Permanent
<1>4. [a EXCEPT !.net[f].reg = FALSE, !.net[f].cb = {}, !.socks[f].revents = rev] = b
  <2> HIDE DEF rev
  <2> QED BY <1>1 DEF State, PutSockNet
<1>5. poll_cb(a, f) = e
  <2>1. poll_cb(a, f) = [a EXCEPT !.net[f].reg = FALSE, !.net[f].cb = {},
                                  !.socks[f].revents = rev, !.ctx = c]
    BY DEF poll_cb
  <2> HIDE DEF rev, c
  <2>2. [a EXCEPT !.net[f].reg = FALSE, !.net[f].cb = {}, !.socks[f].revents = rev, !.ctx = c]
          = [[a EXCEPT !.net[f].reg = FALSE, !.net[f].cb = {}, !.socks[f].revents = rev]
                EXCEPT !.ctx = c]
    BY <1>1 DEF State
  <2> QED BY <1>4, <2>1, <2>2
<1> HIDE DEF rev
<1>6. k2 \in Sock BY <1>2, <1>3, ZenonT(30) DEF Sock
<1>7. n2 \in Net BY <1>2, {} \in SUBSET Events, ZenonT(30) DEF Net
<1>8. k2.type = k.type /\ k2.connected = k.connected /\ k2.revents = rev BY <1>2 DEF Sock
<1>9. n2.link = n.link /\ n2.in = n.in /\ SameSrv(n, n2) BY <1>2 DEF Net, SameSrv
<1> HIDE DEF k2, n2
<1>10. Fits(a, f, k2, n2)
  <2>1. (a.http[f].on /\ f \notin a.spoiled /\ n2.link \in {"down", "up"})
          => Response(n2, a.http[f])
    BY <1>1, <1>9, ResponseLink DEF SockOK
  <2>2. a.use = "http" => /\ k2.type \in {"none", "tls"}
                          /\ ~k2.connected => n2.link = "down"
                          /\ "HUP" \in k2.revents => n2.link = "fin"
    BY <1>1, <1>3, <1>8, <1>9 DEF SockOK
  <2>3. k2.type # "none" BY <1>8 DEF find_socket
  <2> QED BY <1>6, <1>7, <2>1, <2>2, <2>3 DEF Fits
<1>11. StateOK(b) /\ b.ctx = a.ctx BY <1>10, SockNet
<1>12. c \in Chan /\ SameChan(a.ctx, c) BY <1>2 DEF Chan, SameChan
<1> HIDE DEF b, c
<1>13. Same(b, e) BY <1>11, <1>12, PutChan DEF StateOK
<1> QED BY <1>5, <1>11, <1>13, SameKeeps DEF Same

(* A peer that leaves. *)
LEMMA LeaveKeeps ==
    ASSUME NEW a, NEW f \in Fds, StateOK(a), find_socket(a, f), a.net[f].link = "up",
           NEW how \in {"fin", "rst"}
    PROVE  LET b == [a EXCEPT !.net[f].link = how, !.net[f].srv = "quiet",
                              !.net[f].head = FALSE, !.net[f].cl = -1, !.net[f].sent = <<>>]
           IN  StateOK(b) /\ b.ctx = a.ctx
<1> DEFINE k == a.socks[f]
           n == a.net[f]
           n2 == [n EXCEPT !.link = how, !.srv = "quiet", !.head = FALSE, !.cl = -1,
                           !.sent = <<>>]
           b == PutSockNet(a, f, k, n2)
<1>1. a \in State /\ SockOK(a, f) BY DEF StateOK
<1>2. k \in Sock /\ n \in Net BY <1>1 DEF State
<1>3. [a EXCEPT !.net[f].link = how, !.net[f].srv = "quiet", !.net[f].head = FALSE,
                !.net[f].cl = -1, !.net[f].sent = <<>>] = b
  <2>1. a.net \in [Fds -> Net] BY <1>1 DEF State
  <2>2. [a EXCEPT !.net[f].link = how, !.net[f].srv = "quiet", !.net[f].head = FALSE,
                  !.net[f].cl = -1, !.net[f].sent = <<>>] = [a EXCEPT !.net[f] = n2]
    <3> DEFINE q == "quiet"
               no == FALSE
               c == -1
               v == <<>>
    <3> HIDE DEF q, no, c, v
    <3>1. [a.net EXCEPT ![f].link = how, ![f].srv = q, ![f].head = no, ![f].cl = c, ![f].sent = v]
            = [a.net EXCEPT ![f] = [a.net[f] EXCEPT !.link = how, !.srv = q, !.head = no,
                                                    !.cl = c, !.sent = v]]
      BY <2>1
    <3>2. [a EXCEPT !.net[f].link = how, !.net[f].srv = q, !.net[f].head = no,
                    !.net[f].cl = c, !.net[f].sent = v]
            = [a EXCEPT !.net = [a.net EXCEPT ![f].link = how, ![f].srv = q, ![f].head = no,
                                              ![f].cl = c, ![f].sent = v]]
      BY <1>1 DEF State
    <3> QED BY <3>1, <3>2 DEF q, no, c, v
  <2> HIDE DEF n2
  <2>3. [a EXCEPT !.net[f] = n2] = b BY <1>1 DEF State, PutSockNet
  <2> QED BY <2>2, <2>3
<1>4. <<>> \in Seq(Units) /\ -1 \in Int OBVIOUS
<1>5. n2 \in Net BY <1>2, <1>4, ZenonT(30) DEF Net
<1>6. n2.link = how BY <1>2 DEF Net
<1> HIDE DEF n2
<1>7. Fits(a, f, k, n2)
  <2>1. a.use = "http" => /\ k.type \in {"none", "tls"} /\ k.connected /\ "HUP" \notin k.revents
    BY <1>1 DEF SockOK
  <2>2. k.type # "none" BY DEF find_socket
  <2> QED BY <1>2, <1>5, <1>6, <2>1, <2>2 DEF Fits
<1>8. StateOK(b) /\ b.ctx = a.ctx BY <1>7, SockNet
<1> QED BY <1>3, <1>8

(* A unit of a response. *)
LEMMA ArrivesKeeps ==
    ASSUME NEW a, NEW f \in Fds, StateOK(a), NEW n \in Net, n.link = a.net[f].link,
           Response(a.net[f], a.http[f]) => Response(n, a.http[f])
    PROVE  LET b == [a EXCEPT !.net[f] = n]
           IN  StateOK(b) /\ b.ctx = a.ctx
<1> DEFINE sp == a.spoiled
           b == PutWire(a, f, n, sp)
<1>1. Spoils(a, f, sp) BY DEF Spoils
<1>2. b = [a EXCEPT !.net[f] = n] BY DEF StateOK, State, PutWire
<1> HIDE DEF sp
<1>3. StateOK(b) /\ b.ctx = a.ctx
  <2>1. Tells(a, f, n, sp) BY DEF Tells
  <2> QED BY <1>1, <2>1, WireKeeps
<1> QED BY <1>2, <1>3

-----------------------------------------------------------------------------
(* The poll handler.                                                        *)

LEMMA WorkKeeps ==
    ASSUME NEW a, NEW b, NEW w, WorkOK(a, w)
    PROVE  /\ SameChan(a.ctx, b.ctx) => WorkOK(b, w)
           /\ w.pc = "idle" => WorkOK(b, w)
BY DEF WorkOK, SameChan

LEMMA WorkNext ==
    ASSUME NEW b, NEW w \in Work, ~(w.at /\ w.data), b.ctx.mode = "data" => w.data
    PROVE  WorkOK(b, NextSocket(w))
<1> DEFINE left == w.todo \ {Lowest(w.todo)}
           v == [w EXCEPT !.pc = "sock", !.todo = left, !.rev = {}]
<1>1. NoWork \in Work /\ NoWork.pc = "idle" /\ ~NoWork.at
  BY DEF Work, NoWork
<1>2. left \in SUBSET Fds BY DEF Work
<1>3. NextSocket(w) = IF left = {} THEN NoWork ELSE v BY DEF NextSocket
<1> HIDE DEF left
<1>4. v \in Work BY <1>2, {} \in SUBSET Events, ZenonT(30) DEF Work
<1>5. v.pc = "sock" /\ v.todo = left /\ v.data = w.data /\ v.at = w.at BY DEF Work
<1> HIDE DEF v
<1>6. WorkOK(b, NoWork) BY <1>1 DEF WorkOK
<1>7. left # {} => WorkOK(b, v) BY <1>4, <1>5 DEF WorkOK
<1> QED BY <1>3, <1>6, <1>7

LEMMA WorkRearm ==
    ASSUME NEW b, NEW w \in Work, w.todo # {}, ~(w.at /\ w.data), NEW rev \in SUBSET Events,
           b.ctx.mode = "data" => w.data, w.data => b.ctx.datamode_sock = Lowest(w.todo)
    PROVE  WorkOK(b, [w EXCEPT !.pc = "rearm", !.rev = rev])
<1> DEFINE v == [w EXCEPT !.pc = "rearm", !.rev = rev]
<1>1. v \in Work BY ZenonT(30) DEF Work
<1>2. v.pc = "rearm" /\ v.todo = w.todo /\ v.data = w.data /\ v.at = w.at BY DEF Work
<1> HIDE DEF v
<1>3. WorkOK(b, v) BY <1>1, <1>2 DEF WorkOK
<1> QED BY <1>3 DEF v

Take(a, f) == [a EXCEPT !.socks[f].revents = {}]
LEMMA LookSame ==
    ASSUME NEW a \in State, NEW f \in Fds, NEW rev \in SUBSET Events
    PROVE  /\ Same(a, Take(a, f)) /\ Same(a, Delay(a, f, rev)) /\ Same(a, Redo(a, f, rev))
           /\ \A again \in BOOLEAN : Same(a, Restore(a, f, again))
<1> DEFINE k == a.socks[f]
           none == {}
<1>1. k \in Sock /\ none \in SUBSET Events /\ Same(a, a)
      /\ k.delayed \in SUBSET Events /\ k.xapoll \in SUBSET Events
      /\ k.events \in SUBSET Events
  BY StateParts
<1> HIDE DEF k, none
<1>2. {} \in SUBSET {"AT", "DATA"} /\ FALSE \in BOOLEAN OBVIOUS
<1>3. Same(a, Take(a, f))
  <2> DEFINE l == [k EXCEPT !.revents = {}]
  <2>1. Polls(k, l) BY <1>1, <1>2, PollFields, Zenon
  <2>2. Take(a, f) = [a EXCEPT !.socks[f] = l] BY DEF Take, k
  <2> HIDE DEF l
  <2>3. SameSock(a.socks[f], l) /\ l \in Sock BY <2>1 DEF Polls, k
  <2> QED BY <2>2, <2>3, PutSock
<1>4. Same(a, Delay(a, f, rev))
  <2> DEFINE x == k.delayed \cup rev
             l == [k EXCEPT !.delayed = x]
             b == [a EXCEPT !.socks[f] = l]
  <2>1. x \in SUBSET Events BY <1>1
  <2>2. Delay(a, f, rev) = queue_idle_work(b, "idle") BY DEF Delay, k
  <2> HIDE DEF x
  <2>3. Polls(k, l) BY <1>1, <1>2, <2>1, PollFields, Zenon
  <2> HIDE DEF l
  <2>4. SameSock(a.socks[f], l) /\ l \in Sock BY <2>3 DEF Polls, k
  <2>5. Same(a, b) BY <2>4, PutSock
  <2> HIDE DEF b
  <2>6. Same(b, queue_idle_work(b, "idle")) BY <2>5, QueueSame DEF Same
  <2> QED BY <2>2, <2>5, <2>6, SameTrans
<1>5. Same(a, Redo(a, f, rev))
  <2> DEFINE l == [k EXCEPT !.disable = FALSE]
             b == [a EXCEPT !.socks[f] = l]
             ev == k.delayed \cup rev
             c == update_poll_events(b, f, ev, TRUE)
             m == [c.socks[f] EXCEPT !.delayed = {}]
             e == [c EXCEPT !.socks[f] = m]
  <2>1. Redo(a, f, rev) = e BY DEF Redo, k
  <2>2. Polls(k, l) BY <1>1, <1>2, PollFields, Zenon
  <2>3. ev \in SUBSET Events BY <1>1
  <2> HIDE DEF l, ev
  <2>4. SameSock(a.socks[f], l) /\ l \in Sock BY <2>2 DEF Polls, k
  <2>5. Same(a, b) BY <2>4, PutSock
  <2> HIDE DEF b
  <2>6. Same(b, c) BY <2>3, <2>5, UpdateSame DEF Same
  <2> HIDE DEF c
  <2>7. c \in State /\ c.socks[f] \in Sock BY <2>6, StateParts DEF Same
  <2>8. {} \in SUBSET Events OBVIOUS
  <2>9. Polls(c.socks[f], m) BY <1>2, <2>7, <2>8, PollFields, Zenon
  <2> HIDE DEF m
  <2>10. Same(c, e) BY <2>7, <2>9, PutSock DEF Polls
  <2> HIDE DEF e
  <2>11. Same(a, c) BY <2>5, <2>6, SameTrans
  <2> QED BY <2>1, <2>10, <2>11, SameTrans
<1>6. ASSUME NEW again \in BOOLEAN PROVE Same(a, Restore(a, f, again))
  <2> DEFINE x == k.xapoll \cup {"IN"}
             ev == k.events \cup {"IN"}
             l == [k EXCEPT !.xapoll = x, !.events = ev]
             b == [a EXCEPT !.socks[f] = l]
  <2>1. x \in SUBSET Events /\ ev \in SUBSET Events BY <1>1 DEF Events
  <2>2. [a EXCEPT !.socks[f].xapoll = @ \cup {"IN"}, !.socks[f].events = @ \cup {"IN"}] = b
    <3>1. a.socks \in [Fds -> Sock] BY DEF State
    <3>2. [a.socks EXCEPT ![f].xapoll = x, ![f].events = ev] = [a.socks EXCEPT ![f] = l]
      <4> HIDE DEF x, ev
      <4> QED BY <3>1 DEF k
    <3>3. [a.socks EXCEPT ![f].xapoll = @ \cup {"IN"}, ![f].events = @ \cup {"IN"}]
            = [a.socks EXCEPT ![f].xapoll = x, ![f].events = ev]
      BY <1>1, <3>1 DEF k, Sock
    <3> HIDE DEF l
    <3> QED BY <3>2, <3>3 DEF State
  <2>3. Restore(a, f, again) = IF again THEN b ELSE a BY <2>2 DEF Restore
  <2> HIDE DEF x, ev
  <2>4. Polls(k, l) BY <1>1, <1>2, <2>1, PollFields, Zenon
  <2> HIDE DEF l
  <2>5. SameSock(a.socks[f], l) /\ l \in Sock BY <2>4 DEF Polls, k
  <2>6. Same(a, b) BY <2>5, PutSock
  <2> QED BY <1>1, <2>3, <2>6
<1> QED BY <1>3, <1>4, <1>5, <1>6

LEMMA AnnounceFine ==
    ASSUME NEW a, NEW f \in Fds, Fine(a), NEW rev \in SUBSET Events, NEW u \in Int,
           a.use = "http" /\ "HUP" \in rev => a.net[f].link = "fin"
    PROVE  Fine(Announce(a, f, rev, u))
<1> DEFINE k == a.socks[f]
           x == rev \cap k.xapoll
           y == k.xapoll \ x
           z == IF a.http[f].on THEN k.told ELSE k.told \cup x
           l == [k EXCEPT !.xapoll = y, !.told = z]
           b == [a EXCEPT !.socks[f] = l]
<1>1. a \in State BY DEF Fine, StateOK
<1>2. k \in Sock /\ k.told \in SUBSET Events /\ k.xapoll \in SUBSET Events
  BY <1>1, StateParts
<1>3. y \in SUBSET Events /\ z \in SUBSET Events /\ x \in SUBSET Events BY <1>2
<1>4. [a EXCEPT !.socks[f].xapoll = @ \ x,
                !.socks[f].told = IF a.http[f].on THEN @ ELSE @ \cup x] = b
  <2>1. a.socks \in [Fds -> Sock] BY <1>1 DEF State
  <2> DEFINE o == a.http[f].on
             ks == [a.socks EXCEPT ![f].xapoll = @ \ x,
                                   ![f].told = IF o THEN @ ELSE @ \cup x]
  <2> HIDE DEF o, x
  <2>2. ks = [a.socks EXCEPT ![f].xapoll = y, ![f].told = z]
    BY <1>2, <2>1 DEF Sock, o
  <2> HIDE DEF y, z, ks
  <2>3. [a.socks EXCEPT ![f].xapoll = y, ![f].told = z] = [a.socks EXCEPT ![f] = l]
    BY <2>1
  <2> HIDE DEF l
  <2>4. b = [a EXCEPT !.socks = ks] BY <2>2, <2>3
  <2> QED BY <2>4 DEF ks, o
<1>5. Announce(a, f, rev, u) = IF x = {} THEN a ELSE sm_at_httpc_poll_event(b, f, x, u)
  BY <1>4 DEF Announce
<1> HIDE DEF y, z
<1>6. Polls(k, l)
  BY <1>2, <1>3, PollFields, {} \in SUBSET {"AT", "DATA"}, FALSE \in BOOLEAN, Zenon
<1> HIDE DEF l
<1>7. Same(a, b) BY <1>1, <1>6, PutSock DEF Polls
<1>8. x \subseteq rev OBVIOUS
<1> HIDE DEF b, x
<1>9. Fine(b) /\ b.use = a.use /\ b.net[f].link = a.net[f].link
  BY <1>7, FineSame DEF Same, SameNet
<1>10. b.use = "http" /\ "HUP" \in x => b.net[f].link = "fin" BY <1>8, <1>9
<1>11. Fine(sm_at_httpc_poll_event(b, f, x, u)) BY <1>3, <1>9, <1>10, PollEventFine
<1> QED BY <1>5, <1>11

(* The first half of the handler, for one socket. *)
LEMMA LookKeeps ==
    ASSUME NEW t0, StateOK(t0), NEW w \in Work, w.todo # {}, ~(w.at /\ w.data),
           t0.ctx.mode = "data" => w.data, NEW n \in Int, Look(t0, w, n)
    PROVE  StateOK(s') /\ WorkOK(s', work')
<1> DEFINE f == Lowest(w.todo)
           rev == t0.socks[f].revents
           t == Take(t0, f)
           t1 == IF w.at THEN t ELSE Delay(t, f, rev)
           skip == ~w.at /\ (~w.data \/ f # t0.ctx.datamode_sock)
           redo == w.at /\ t0.socks[f].delayed # {}
           t2 == IF w.data THEN t1 ELSE Announce(t1, f, rev, n)
           again == ~w.data /\ rev \cap t0.socks[f].xapoll # {} /\ t2.http[f].rearm /\ "IN" \in rev
           rest == IF again THEN rev \ {"IN"} ELSE rev
<1>1. f \in Fds
  <2>1. w.todo \in SUBSET Fds BY DEF Work
  <2> QED BY <2>1, LowestIs
<1>2. t0 \in State BY DEF StateOK
<1>3. \/ skip /\ s' = t1 /\ work' = NextSocket(w)
      \/ redo /\ s' = Redo(t, f, rev) /\ work' = NextSocket(w)
      \/ ~skip /\ ~redo /\ s' = Restore(t2, f, again)
         /\ work' = [w EXCEPT !.pc = "rearm", !.rev = rest]
  BY DEF Look, Take
<1>4. rev \in SUBSET Events /\ (t0.use = "http" /\ "HUP" \in rev => t0.net[f].link = "fin")
  BY <1>1, <1>2, StateParts DEF StateOK, SockOK
<1> HIDE DEF f, rev
<1>5. Same(t0, t) BY <1>1, <1>2, <1>4, LookSame
<1>6. t \in State BY <1>5 DEF Same
<1> HIDE DEF t
<1>7. Same(t, Delay(t, f, rev)) /\ Same(t, Redo(t, f, rev)) BY <1>1, <1>4, <1>6, LookSame
<1>8. Same(t0, t1) /\ Same(t0, Redo(t, f, rev)) BY <1>5, <1>7, SameTrans
<1> HIDE DEF t1
<1>9. CASE s' = t1 /\ work' = NextSocket(w)
  <2>1. StateOK(s') /\ s'.ctx.mode = t0.ctx.mode BY <1>8, <1>9, SameKeeps DEF Same, SameChan
  <2>2. WorkOK(s', NextSocket(w)) BY <2>1, WorkNext
  <2> QED BY <1>9, <2>1, <2>2
<1>10. CASE s' = Redo(t, f, rev) /\ work' = NextSocket(w)
  <2>1. StateOK(s') /\ s'.ctx.mode = t0.ctx.mode BY <1>8, <1>10, SameKeeps DEF Same, SameChan
  <2>2. WorkOK(s', NextSocket(w)) BY <2>1, WorkNext
  <2> QED BY <1>10, <2>1, <2>2
<1>11. CASE /\ ~skip /\ s' = Restore(t2, f, again)
            /\ work' = [w EXCEPT !.pc = "rearm", !.rev = rest]
  <2>1. StateOK(t1) /\ t1.ctx.mode = t0.ctx.mode /\ t1.ctx.datamode_sock = t0.ctx.datamode_sock
        /\ t1.use = t0.use /\ t1.net[f].link = t0.net[f].link
    BY <1>1, <1>8, SameKeeps DEF Same, SameChan, SameNet
  <2>2. StateOK(t2) /\ (t2.ctx.mode = "data" => w.data)
        /\ (w.data => t2.ctx.datamode_sock = f)
    <3>1. CASE w.data
      <4>1. f = t0.ctx.datamode_sock BY <1>11, <3>1
      <4> QED BY <2>1, <3>1, <4>1
    <3>2. CASE ~w.data
      <4>1. Fine(t1) BY <2>1, <3>2 DEF Fine
      <4>2. t1.use = "http" /\ "HUP" \in rev => t1.net[f].link = "fin" BY <1>4, <2>1
      <4>3. Fine(Announce(t1, f, rev, n)) BY <1>1, <1>4, <4>1, <4>2, AnnounceFine
      <4> QED BY <3>2, <4>3 DEF Fine
    <3> QED BY <3>1, <3>2
  <2>3. rest \in SUBSET Events BY <1>4
  <2> DEFINE ag == again
  <2>4. Same(t2, Restore(t2, f, again))
    <3>1. t2 \in State BY <2>2 DEF StateOK
    <3>2. again \in BOOLEAN OBVIOUS
    <3> HIDE DEF t2, again
    <3> QED BY <1>1, <1>4, <3>1, <3>2, LookSame
  <2> HIDE DEF t2, again, rest
  <2>5. StateOK(s') /\ s'.ctx.mode = t2.ctx.mode /\ s'.ctx.datamode_sock = t2.ctx.datamode_sock
    BY <1>11, <2>2, <2>4, SameKeeps DEF Same, SameChan
  <2>6. s'.ctx.mode = "data" => w.data BY <2>2, <2>5
  <2>7. w.data => s'.ctx.datamode_sock = Lowest(w.todo) BY <2>2, <2>5 DEF f
  <2>8. WorkOK(s', [w EXCEPT !.pc = "rearm", !.rev = rest]) BY <2>3, <2>6, <2>7, WorkRearm
  <2> QED BY <1>11, <2>5, <2>8
<1> QED BY <1>3, <1>9, <1>10, <1>11

LEMMA StartKeeps ==
    ASSUME StateOK(s), WorkOK(s, work), Idle, NEW t, Same(s, t), NEW n \in Int, StartPoll(t, n)
    PROVE  StateOK(s') /\ WorkOK(s', work')
<1> DEFINE todo == Fds \ Free(t)
           at == t.ctx.mode = "at"
           data == t.ctx.mode = "data"
           w == [NoWork EXCEPT !.at = at, !.data = data, !.todo = todo]
<1>1. StateOK(t) BY SameKeeps
<1>2. CASE todo = {}
  <2>1. s' = t /\ work' = work BY <1>2 DEF StartPoll
  <2> QED BY <1>1, <2>1, WorkKeeps DEF Idle
<1>3. CASE todo # {}
  <2>1. Look(t, w, n) BY <1>3 DEF StartPoll
  <2>2. NoWork \in Work BY DEF NoWork, Work
  <2>3. at \in BOOLEAN /\ data \in BOOLEAN /\ ~(at /\ data) /\ todo \in SUBSET Fds OBVIOUS
  <2>4. data => t.ctx.mode = "data" OBVIOUS
  <2>5. t.ctx.mode = "data" => data OBVIOUS
  <2> HIDE DEF at, data, todo
  <2>6. w \in Work BY <2>2, <2>3, ZenonT(30) DEF Work
  <2>7. w.at = at /\ w.data = data /\ w.todo = todo BY <2>2 DEF Work
  <2> HIDE DEF w
  <2>8. ~(w.at /\ w.data) /\ w.todo # {} /\ (t.ctx.mode = "data" => w.data)
    BY <1>3, <2>3, <2>5, <2>7
  <2> QED BY <1>1, <2>1, <2>6, <2>8, LookKeeps
<1> QED BY <1>2, <1>3

(* The end of the data mode of a socket. *)
LEMMA ExitKeeps ==
    ASSUME NEW a, StateOK(a), a.ctx.datamode_sock # NULL
    PROVE  StateOK(ExitDataModeHandler(a)) /\ ExitDataModeHandler(a).ctx.mode # "data"
<1> DEFINE c == [a.ctx EXCEPT !.mode = "null", !.datamode_sock = NULL]
<1>1. a \in State /\ ChanOK(a) /\ (\A f \in Fds : SockOK(a, f)) BY DEF StateOK
<1>2. a.ctx \in Chan /\ a.datamode_req \in Fds \cup {NULL} BY <1>1 DEF State
<1>3. c \in Chan /\ c.mode = "null" /\ c.datamode_sock = NULL BY <1>2 DEF Chan
<1>4. a.datamode_req = NULL
  <2>1. a.use # "http" BY <1>1 DEF ChanOK
  <2>2. NoReq.state # "SENDING_BODY" BY DEF NoReq
  <2>3. \A f \in Fds : a.http[f].state # "SENDING_BODY"
    BY <1>1, <2>1, <2>2 DEF SockOK, ReqOK
  <2> QED BY <1>1, <1>2, <2>3 DEF SockOK
<1>5. ExitDataModeHandler(a) = [a EXCEPT !.ctx = c] BY <1>1 DEF ExitDataModeHandler, State
<1> HIDE DEF c
<1>6. StateOK([a EXCEPT !.ctx = c]) BY <1>3, <1>4, ModeKeeps
<1>7. [a EXCEPT !.ctx = c].ctx = c BY <1>1 DEF State
<1> QED BY <1>3, <1>5, <1>6, <1>7

LEMMA PollRearmKeeps ==
    ASSUME StateOK(s), WorkOK(s, work), PollRearm
    PROVE  StateOK(s') /\ WorkOK(s', work')
<1> DEFINE f == Lowest(work.todo)
           rev == work.rev
           x == s.socks[f].events \ (rev \cap {"IN", "OUT"})
           d == s.socks[f].disable \/ rev \cap Permanent # {}
           k == [s.socks[f] EXCEPT !.events = x, !.disable = d]
           t == [s EXCEPT !.socks[f] = k]
           auto == /\ "IN" \in rev
                   /\ (IF work.data THEN "DATA" ELSE "AT") \in s.socks[f].adr
           u == IF auto THEN auto_reception(t, f) ELSE t
           t1 == update_poll_events(u, f, {}, FALSE)
           end == work.data /\ rev \cap Permanent # {}
<1>1. /\ work \in Work /\ ~(work.at /\ work.data) /\ work.pc = "rearm" /\ work.todo # {}
      /\ s.ctx.mode = "data" => work.data
      /\ work.data => s.ctx.datamode_sock = Lowest(work.todo)
  BY DEF WorkOK, PollRearm
<1>2. f \in Fds
  <2>1. work.todo \in SUBSET Fds BY <1>1 DEF Work
  <2> QED BY <1>1, <2>1, LowestIs
<1>3. s \in State /\ s.socks \in [Fds -> Sock] /\ s.socks[f] \in Sock BY <1>2 DEF StateOK, State
<1>4. s' = (IF end THEN ExitDataModeHandler(t1) ELSE t1) /\ work' = NextSocket(work)
  <2>1. [s EXCEPT !.socks[f].events = @ \ (rev \cap {"IN", "OUT"}),
                  !.socks[f].disable = @ \/ rev \cap Permanent # {}] = t
    <3> DEFINE p == rev \cap {"IN", "OUT"}
               q == rev \cap Permanent # {}
               y == [s.socks EXCEPT ![f].events = @ \ p, ![f].disable = @ \/ q]
    <3> HIDE DEF p, q, f
    <3>1. y = [s.socks EXCEPT ![f].events = x, ![f].disable = d]
      BY <1>3 DEF p, q, Sock
    <3> HIDE DEF x, d, y
    <3>2. [s.socks EXCEPT ![f].events = x, ![f].disable = d] = [s.socks EXCEPT ![f] = k]
      BY <1>3
    <3> HIDE DEF k
    <3>3. t = [s EXCEPT !.socks = y] BY <3>1, <3>2
    <3> QED BY <3>3 DEF y, p, q
  <2> HIDE DEF k
  <2> QED BY <2>1 DEF PollRearm
<1>5. x \in SUBSET Events /\ d \in BOOLEAN
  <2>1. s.socks[f].events \in SUBSET Events /\ s.socks[f].disable \in BOOLEAN BY <1>3 DEF Sock
  <2> QED BY <2>1
<1> HIDE DEF x, d
<1>6. Polls(s.socks[f], k)
  BY <1>3, <1>5, PollFields, {} \in SUBSET Events, {} \in SUBSET {"AT", "DATA"}, Zenon
<1> HIDE DEF k, f
<1>7. Same(s, t) BY <1>2, <1>3, <1>6, PutSock DEF Polls
<1>8. StateOK(t) /\ SameChan(s.ctx, t.ctx) BY <1>7, SameKeeps DEF Same
<1> HIDE DEF t
<1>9. StateOK(u) /\ SameChan(s.ctx, u.ctx)
  <2>1. RecvBuf \in Nat \ {0} BY SocketsAssumption
  <2>2. StateOK(auto_reception(t, f)) /\ SameChan(t.ctx, auto_reception(t, f).ctx)
    BY <1>2, <1>8, <2>1, RecvKeeps
  <2> QED BY <1>8, <2>2 DEF SameChan
<1> HIDE DEF u
<1>10. Same(u, t1) BY <1>2, <1>9, UpdateSame, {} \in SUBSET Events DEF StateOK
<1>11. StateOK(t1) /\ SameChan(s.ctx, t1.ctx) BY <1>9, <1>10, SameKeeps DEF Same, SameChan
<1> HIDE DEF t1
<1>12. StateOK(s') /\ (s'.ctx.mode = "data" => work.data)
  <2>1. CASE end
    <3>1. t1.ctx.datamode_sock = f BY <1>1, <1>11, <2>1 DEF SameChan, f
    <3>2. f # NULL BY <1>2, SocketsAssumption DEF NULL
    <3> QED BY <1>4, <1>11, <2>1, <3>1, <3>2, ExitKeeps
  <2>2. CASE ~end
    BY <1>1, <1>4, <1>11, <2>2 DEF SameChan
  <2> QED BY <2>1, <2>2
<1>13. WorkOK(s', NextSocket(work)) BY <1>1, <1>12, WorkNext
<1> QED BY <1>4, <1>12, <1>13

-----------------------------------------------------------------------------
(* Data mode.                                                               *)

(* An upload goes on. *)
LEMMA UploadKeeps ==
    ASSUME NEW a, NEW f \in Fds, StateOK(a), a.http[f].on
    PROVE  StateOK([a EXCEPT !.http[f].idle = FALSE])
<1> DEFINE r == a.http[f]
           q == [r EXCEPT !.idle = FALSE]
           n == a.net[f]
           sp == a.spoiled
           e == Upd(a, f, n, q, sp)
<1>1. a \in State BY DEF StateOK
<1>2. r \in Req /\ n \in Net /\ a.http \in [Fds -> Req] BY <1>1 DEF State
<1>3. q \in Req /\ SameReq(r, q)
  <2>1. q \in Req BY <1>2, ZenonT(30) DEF Req
  <2> QED BY <1>2, <2>1 DEF SameReq, Req
<1>4. /\ StateBut(a, f) /\ ReqOK(r)
      /\ (r.on /\ f \notin sp /\ n.link \in {"down", "up"}) => Response(n, r)
  BY Weaken
<1>5. Follows(a, f, n, q) BY <1>2, <1>3 DEF Follows, SameReq
<1>6. Spoils(a, f, sp) BY DEF Spoils
<1>7. [a EXCEPT !.http[f].idle = FALSE] = e
  <2>1. [a EXCEPT !.http[f].idle = FALSE] = [a EXCEPT !.http[f] = q] OBVIOUS
  <2>2. [a.net EXCEPT ![f] = n] = a.net BY <1>1 DEF State
  <2> HIDE DEF q, n
  <2> QED BY <1>1, <2>1, <2>2 DEF Upd, State
<1> HIDE DEF q, n, sp
<1>8. StateBut(e, f) /\ Becomes(e, f, n, q, sp) BY <1>4, <1>5, <1>6, PutReq
<1> HIDE DEF e
<1>9. e.net[f] = n /\ e.http[f] = q /\ e.spoiled = sp BY <1>8 DEF Becomes
<1>10. ReqOK(q) BY <1>3, <1>4 DEF ReqOK, SameReq
<1>11. (q.on /\ f \notin sp /\ n.link \in {"down", "up"}) => Response(n, q)
  BY <1>3, <1>4, ResponseOther DEF SameReq
<1>12. StateOK(e)
  <2>1. ReqOK(e.http[f]) BY <1>9, <1>10
  <2>2. (e.http[f].on /\ f \notin e.spoiled /\ e.net[f].link \in {"down", "up"})
          => Response(e.net[f], e.http[f])
    BY <1>9, <1>11
  <2> QED BY <1>8, <2>1, <2>2, Strengthen
<1> QED BY <1>7, <1>12

LEMMA SendDataKeeps ==
    ASSUME StateOK(s), DataModeSend
    PROVE  StateOK(s')
<1>1. s \in State /\ ChanOK(s) /\ (\A f \in Fds : SockOK(s, f)) /\ s.ctx.mode = "data"
  BY DEF StateOK, DataModeSend
<1>2. s.ctx \in Chan /\ s.datamode_req \in Fds \cup {NULL} BY <1>1 DEF State
<1>3. CASE s.ctx.datamode_sock # NULL
  <2> DEFINE f == s.ctx.datamode_sock
             t == do_send(s, f)
  <2>1. f \in Fds BY <1>2, <1>3 DEF Chan
  <2>2. Same(s, t) BY <1>1, <2>1, SendSame
  <2>3. s' = t \/ s' = ExitDataModeHandler(t) \/ s' = ExitDataModeHandler(s)
    BY <1>3 DEF DataModeSend, socket_datamode_callback
  <2> HIDE DEF t
  <2>4. StateOK(t) /\ t.ctx.datamode_sock # NULL
    BY <1>3, <2>2, SameKeeps DEF Same, SameChan
  <2> QED BY <1>3, <2>3, <2>4, ExitKeeps
<1>4. CASE s.ctx.datamode_sock = NULL
  <2> DEFINE f == s.datamode_req
  <2>1. f # NULL BY <1>1, <1>4 DEF ChanOK
  <2>2. f \in Fds BY <1>2, <2>1
  <2>3. s.http[f].on
    <3>1. s.http[f].state = "SENDING_BODY" /\ ReqOK(s.http[f]) BY <1>1, <2>2 DEF SockOK
    <3>2. NoReq.state # "SENDING_BODY" BY DEF NoReq
    <3> QED BY <3>1, <3>2 DEF ReqOK
  <2>4. s' = [s EXCEPT !.http[f].idle = FALSE] \/ s' = BodySendFails(s)
    BY <1>4 DEF DataModeSend, http_datamode_callback
  <2> QED BY <2>1, <2>2, <2>3, <2>4, UploadKeeps, BodySendFailsKeeps
<1> QED BY <1>3, <1>4

LEMMA ExitDataKeeps ==
    ASSUME StateOK(s), DataModeExit
    PROVE  StateOK(s')
<1> DEFINE t == [s EXCEPT !.ctx.mode = "at", !.ctx.datamode_sock = NULL]
           c == [s.ctx EXCEPT !.mode = "at", !.datamode_sock = NULL]
<1>1. s \in State BY DEF StateOK
<1>2. c \in Chan /\ c.mode = "at" /\ c.datamode_sock = NULL BY <1>1 DEF State, Chan
<1>3. t = [s EXCEPT !.ctx = c] BY <1>1 DEF State
<1>4. s' = IF s.datamode_req # NULL THEN BodySent(t) ELSE t BY DEF DataModeExit
<1>5. s.datamode_req # NULL => StateOK(BodySent(t)) BY BodySentKeeps
<1> HIDE DEF c
<1>6. s.datamode_req = NULL => StateOK([s EXCEPT !.ctx = c]) BY <1>2, ModeKeeps
<1> QED BY <1>3, <1>4, <1>5, <1>6

LEMMA EnterKeeps ==
    ASSUME NEW a, NEW f \in Fds, StateOK(a), a.ctx.mode = "at", a.use = "sockets",
           find_socket(a, f)
    PROVE  StateOK(EnterDataMode(a, f))
<1> DEFINE c == [a.ctx EXCEPT !.mode = "data", !.datamode_sock = f]
           b == [a EXCEPT !.ctx = c]
<1>1. a \in State /\ ChanOK(a) BY DEF StateOK
<1>2. c \in Chan /\ c.mode = "data" /\ c.datamode_sock = f BY <1>1 DEF State, Chan
<1>3. [a EXCEPT !.ctx.mode = "data", !.ctx.datamode_sock = f] = b BY <1>1 DEF State
<1>4. f # NULL BY SocketsAssumption DEF NULL
<1>5. EnterDataMode(a, f) = b \/ EnterDataMode(a, f) = update_poll_events(b, f, {"IN"}, FALSE)
  BY <1>3 DEF EnterDataMode
<1> HIDE DEF c
<1>6. StateOK(b) BY <1>2, <1>4, ModeKeeps
<1> HIDE DEF b
<1>7. Same(b, update_poll_events(b, f, {"IN"}, FALSE))
  BY <1>6, UpdateSame, {"IN"} \in SUBSET Events DEF StateOK, Events
<1> QED BY <1>5, <1>6, <1>7, SameKeeps

(* A part of a command comes in, or the rest of it. *)
LEMMA TypingKeeps ==
    ASSUME NEW a, StateOK(a), a.ctx.mode \in {"at", "typing"}, NEW m \in {"at", "typing"}
    PROVE  StateOK([a EXCEPT !.ctx.mode = m])
<1> DEFINE c == [a.ctx EXCEPT !.mode = m]
<1>1. a \in State /\ ChanOK(a) BY DEF StateOK
<1>2. c \in Chan /\ c.mode = m /\ c.datamode_sock = a.ctx.datamode_sock
  BY <1>1 DEF State, Chan
<1>3. [a EXCEPT !.ctx.mode = m] = [a EXCEPT !.ctx = c] OBVIOUS
<1>4. a.datamode_req = NULL /\ a.ctx.datamode_sock = NULL BY <1>1 DEF ChanOK
<1> HIDE DEF c
<1>5. StateOK([a EXCEPT !.ctx = c]) BY <1>2, <1>4, ModeKeeps
<1> QED BY <1>3, <1>5

-----------------------------------------------------------------------------
(* The peers.                                                               *)

LEMMA ArrivesIs ==
    ASSUME NEW f \in Fds, s \in State, NEW u \in Units, Arrives(f, u)
    PROVE  LET n == [s.net[f] EXCEPT !.in = Append(s.net[f].in, u)]
           IN  s' = [s EXCEPT !.net[f] = n] /\ n \in Net /\ n.link = s.net[f].link
<1> DEFINE n == s.net[f]
           x == Append(n.in, u)
           n2 == [n EXCEPT !.in = x]
<1>1. n \in Net BY DEF State
<1>2. n.in \in Seq(Units) BY <1>1 DEF Net
<1>3. x \in Seq(Units) BY <1>2, Appended
<1>4. s' = [s EXCEPT !.net[f] = n2] BY DEF Arrives
<1> HIDE DEF x, n
<1>5. n2 \in Net BY <1>1, <1>3, ZenonT(30) DEF Net
<1>6. n2.link = n.link BY <1>1 DEF Net
<1> QED BY <1>4, <1>5, <1>6 DEF x, n

LEMMA PeerSendsKeeps ==
    ASSUME StateOK(s), PeerSends
    PROVE  StateOK(s') /\ SameChan(s.ctx, s'.ctx)
<1>1. PICK f \in Fds, u \in {1, Empty, Conn} : s.use = "sockets" /\ Arrives(f, u)
  BY DEF PeerSends
<1> DEFINE n == [s.net[f] EXCEPT !.in = Append(s.net[f].in, u)]
           b == [s EXCEPT !.net[f] = n]
<1>2. s \in State BY DEF StateOK
<1>3. u \in Units BY <1>1, UnitKinds
<1>4. s' = b /\ n \in Net BY <1>1, <1>2, <1>3, ArrivesIs
<1> HIDE DEF n
<1>5. s.socks[f] \in Sock BY <1>2 DEF State
<1>6. Beside(s, b) BY <1>2, <1>4, <1>5, PutBeside
<1>7. b.socks = s.socks BY <1>2 DEF State
<1> HIDE DEF b
<1>8. StateOK(b) BY <1>1, <1>6, <1>7, BesideKeeps
<1> QED BY <1>4, <1>6, <1>8 DEF Beside

LEMMA ServerHeadersKeeps ==
    ASSUME StateOK(s), ServerHeaders
    PROVE  StateOK(s') /\ SameChan(s.ctx, s'.ctx)
<1>1. PICK f \in Fds :
        /\ s.net[f].srv = "asked"
        /\ \/ Arrives(f, Part)
           \/ \E k \in 1..Len(Responses) :
                LET r == Responses[k]
                    none == s.net[f].head \/ r.nobody \/ r.cl = 0
                IN  s' = [s EXCEPT !.net[f].in = Append(@, End(k)), !.net[f].head = FALSE,
                                   !.net[f].cl = IF none THEN -1 ELSE r.cl,
                                   !.net[f].srv = IF none THEN "quiet" ELSE "body"]
  BY DEF ServerHeaders
<1> DEFINE n == s.net[f]
           q == s.http[f]
<1>2. s \in State BY DEF StateOK
<1>3. n \in Net /\ q \in Req /\ s.net \in [Fds -> Net] BY <1>2 DEF State
<1>4. CASE Arrives(f, Part)
  <2> DEFINE n2 == [n EXCEPT !.in = Append(n.in, Part)]
  <2>1. Part \in Units BY UnitKinds
  <2>2. s' = [s EXCEPT !.net[f] = n2] /\ n2 \in Net /\ n2.link = n.link
    BY <1>2, <1>4, <2>1, ArrivesIs
  <2>3. Response(n, q) => Response(n2, q) BY <1>1, <1>3, PartArrives
  <2> HIDE DEF n2
  <2> DEFINE b == [s EXCEPT !.net[f] = n2]
  <2>4. StateOK(b) /\ b.ctx = s.ctx BY <2>2, <2>3, ArrivesKeeps
  <2> QED BY <2>2, <2>4 DEF SameChan
<1>5. ASSUME NEW k \in 1..Len(Responses),
             LET r == Responses[k]
                 none == s.net[f].head \/ r.nobody \/ r.cl = 0
             IN  s' = [s EXCEPT !.net[f].in = Append(@, End(k)), !.net[f].head = FALSE,
                                !.net[f].cl = IF none THEN -1 ELSE r.cl,
                                !.net[f].srv = IF none THEN "quiet" ELSE "body"]
      PROVE  StateOK(s') /\ SameChan(s.ctx, s'.ctx)
  <2> DEFINE none == n.head \/ Responses[k].nobody \/ Responses[k].cl = 0
             x == Append(n.in, End(k))
             c == IF none THEN -1 ELSE Responses[k].cl
             v == IF none THEN "quiet" ELSE "body"
             no == FALSE
             n2 == [n EXCEPT !.in = x, !.head = no, !.cl = c, !.srv = v]
             b == [s EXCEPT !.net[f] = n2]
  <2>1. k \in 1..4 BY Kinds
  <2>2. Response(n, q) => Response(n2, q) BY <1>1, <1>3, <2>1, EndArrives
  <2>3. s' = [s EXCEPT !.net[f].in = x, !.net[f].head = no, !.net[f].cl = c, !.net[f].srv = v]
    BY <1>5
  <2>4. x \in Seq(Units) /\ c \in Int /\ v \in {"quiet", "body"} /\ no \in BOOLEAN
    <3>1. n.in \in Seq(Units) BY <1>3 DEF Net
    <3>2. End(k) \in Units BY <2>1, UnitKinds
    <3>3. x \in Seq(Units) BY <3>1, <3>2, Appended
    <3>4. c \in Int BY <2>1, Kinds
    <3> QED BY <3>3, <3>4
  <2> HIDE DEF x, c, v, no
  <2>5. [s EXCEPT !.net[f].in = x, !.net[f].head = no, !.net[f].cl = c, !.net[f].srv = v] = b
    <3>1. [s.net EXCEPT ![f].in = x, ![f].head = no, ![f].cl = c, ![f].srv = v]
            = [s.net EXCEPT ![f] = n2]
      BY <1>3
    <3> HIDE DEF n2
    <3> QED BY <1>2, <3>1 DEF State
  <2> HIDE DEF n
  <2>6. n2 \in Net BY <1>3, <2>4, ZenonT(30) DEF Net
  <2>7. n2.link = n.link BY <1>3 DEF Net
  <2> HIDE DEF n2
  <2>8. StateOK(b) /\ b.ctx = s.ctx
    <3>1. Response(s.net[f], s.http[f]) => Response(n2, s.http[f]) BY <2>2 DEF n
    <3>2. n2.link = s.net[f].link BY <2>7 DEF n
    <3> QED BY <2>6, <3>1, <3>2, ArrivesKeeps
  <2> QED BY <2>3, <2>5, <2>8 DEF SameChan
<1> QED BY <1>1, <1>4, <1>5

LEMMA ServerBodyKeeps ==
    ASSUME StateOK(s), ServerBody
    PROVE  StateOK(s') /\ SameChan(s.ctx, s'.ctx)
<1> DEFINE Next1(f) == Len(s.net[f].sent) + 1
           After(f, u) == [s EXCEPT !.net[f].in = Append(@, u), !.net[f].sent = Append(@, u),
                                    !.net[f].srv = IF u = Eof2 \/ Next1(f) = s.net[f].cl
                                                   THEN "quiet" ELSE @]
<1>1. PICK f \in Fds, u \in Int :
        /\ u \in {Next1(f), Eof1, Eof2}
        /\ s.net[f].srv = "body" /\ (s.net[f].cl > 0 => u = Next1(f))
        /\ s' = After(f, u)
  <2>1. Eof1 \in Int /\ Eof2 \in Int BY DEF Eof1, Eof2
  <2>2. \A f \in Fds : Next1(f) \in Int
    <3>1. \A f \in Fds : s.net[f].sent \in Seq(Units) BY DEF StateOK, State, Net
    <3> QED BY <3>1
  <2>3. PICK f \in Fds :
          /\ s.net[f].srv = "body"
          /\ LET n == s.net[f]
                 next == Len(n.sent) + 1
                 chunk == IF n.sent # <<>> /\ n.sent[Len(n.sent)] = Eof1
                          THEN {Eof2} ELSE {Eof1, next}
             IN  \E u \in IF n.cl > 0 THEN {next} ELSE chunk :
                   s' = [s EXCEPT !.net[f].in = Append(@, u), !.net[f].sent = Append(@, u),
                                  !.net[f].srv = IF u = Eof2 \/ next = n.cl THEN "quiet" ELSE @]
    BY Zenon DEF ServerBody
  <2>4. PICK u \in IF s.net[f].cl > 0 THEN {Next1(f)}
                   ELSE IF s.net[f].sent # <<>> /\ s.net[f].sent[Len(s.net[f].sent)] = Eof1
                        THEN {Eof2} ELSE {Eof1, Next1(f)} :
          s' = After(f, u)
    BY <2>3
  <2>5. u \in {Next1(f), Eof1, Eof2} /\ (s.net[f].cl > 0 => u = Next1(f)) BY <2>4
  <2> HIDE DEF Next1, After
  <2>6. u \in Int BY <2>1, <2>2, <2>5
  <2> QED BY <2>3, <2>4, <2>5, <2>6
<1> DEFINE n == s.net[f]
           q == s.http[f]
           x == Append(n.in, u)
           y == Append(n.sent, u)
           v == IF u = Eof2 \/ Next1(f) = n.cl THEN "quiet" ELSE n.srv
           n2 == [n EXCEPT !.in = x, !.sent = y, !.srv = v]
           b == [s EXCEPT !.net[f] = n2]
<1>2. s \in State BY DEF StateOK
<1>3. n \in Net /\ q \in Req /\ s.net \in [Fds -> Net] BY <1>2 DEF State
<1>4. n.in \in Seq(Units) /\ n.sent \in Seq(Units) /\ Len(n.sent) \in Nat BY <1>3 DEF Net
<1>5. BodyUnit(n, u)
  <2>1. Next1(f) \in Units /\ Next1(f) >= Eof2 /\ Next1(f) # Empty /\ Next1(f) # Eof2
    BY <1>4 DEF Units, End, Eof2, Empty
  <2>2. Eof1 \in Units /\ Eof2 \in Units /\ Eof1 >= Eof2 /\ Eof2 >= Eof2 /\ Eof1 # Empty
        /\ Eof2 # Empty
    BY DEF Units, End, Eof1, Eof2, Empty
  <2> HIDE DEF Next1
  <2> QED BY <1>1, <2>1, <2>2 DEF BodyUnit
<1>6. n2 = BodyNet(n, u) BY DEF BodyNet
<1>7. Response(n, q) => Response(n2, q) BY <1>1, <1>3, <1>5, <1>6, BodyArrives
<1>8. s' = [s EXCEPT !.net[f].in = x, !.net[f].sent = y, !.net[f].srv = v]
  <2>1. s' = After(f, u) BY <1>1
  <2>2. [s.net EXCEPT ![f].in = Append(@, u), ![f].sent = Append(@, u),
                      ![f].srv = IF u = Eof2 \/ Next1(f) = s.net[f].cl THEN "quiet" ELSE @]
          = [s.net EXCEPT ![f].in = x, ![f].sent = y, ![f].srv = v]
    <3> HIDE DEF Next1
    <3> QED BY <1>3 DEF Net
  <2> QED BY <2>1, <2>2
<1>9. x \in Seq(Units) /\ y \in Seq(Units) /\ v \in {"quiet", "body"}
  <2>1. u \in Units BY <1>5 DEF BodyUnit
  <2> QED BY <1>1, <1>4, <2>1, Appended
<1> HIDE DEF x, y, v
<1>10. [s EXCEPT !.net[f].in = x, !.net[f].sent = y, !.net[f].srv = v] = b
  <2>1. [s.net EXCEPT ![f].in = x, ![f].sent = y, ![f].srv = v] = [s.net EXCEPT ![f] = n2]
    BY <1>3
  <2> HIDE DEF n2
  <2> QED BY <1>2, <2>1 DEF State
<1> HIDE DEF n
<1>11. n2 \in Net BY <1>3, <1>9, ZenonT(30) DEF Net
<1>12. n2.link = n.link BY <1>3 DEF Net
<1> HIDE DEF n2
<1>13. StateOK(b) /\ b.ctx = s.ctx
  <2>1. Response(s.net[f], s.http[f]) => Response(n2, s.http[f]) BY <1>7 DEF n
  <2>2. n2.link = s.net[f].link BY <1>12 DEF n
  <2> QED BY <1>11, <2>1, <2>2, ArrivesKeeps
<1> QED BY <1>8, <1>10, <1>13 DEF SameChan

LEMMA PeerLeavesKeeps ==
    ASSUME StateOK(s), PeerLeaves
    PROVE  StateOK(s') /\ SameChan(s.ctx, s'.ctx) /\ work' = work
<1>1. PICK f \in Fds, how \in {"fin", "rst"} :
        /\ s.use = "http" /\ how = "rst" => wire < 2
        /\ Wire /\ find_socket(s, f) /\ s.socks[f].type # "dgram" /\ s.net[f].link = "up"
        /\ s' = [s EXCEPT !.net[f].link = how, !.net[f].srv = "quiet", !.net[f].head = FALSE,
                          !.net[f].cl = -1, !.net[f].sent = <<>>]
  BY Zenon DEF PeerLeaves
<1> DEFINE b == [s EXCEPT !.net[f].link = how, !.net[f].srv = "quiet", !.net[f].head = FALSE,
                          !.net[f].cl = -1, !.net[f].sent = <<>>]
<1>2. StateOK(b) /\ b.ctx = s.ctx
  <2>1. find_socket(s, f) /\ s.net[f].link = "up" BY <1>1
  <2> QED BY <2>1, LeaveKeeps, Zenon
<1> HIDE DEF b
<1>3. s' = b BY <1>1 DEF b
<1>4. work' = work BY <1>1 DEF Wire
<1> QED BY <1>2, <1>3, <1>4 DEF SameChan

LEMMA DrainKeeps ==
    ASSUME StateOK(s), Drain
    PROVE  StateOK(s') /\ SameChan(s.ctx, s'.ctx)
<1>1. PICK f \in Fds : s' = [s EXCEPT !.net[f].full = FALSE] BY DEF Drain
<1> DEFINE n == [s.net[f] EXCEPT !.full = FALSE]
<1>2. s \in State /\ s.net[f] \in Net BY DEF StateOK, State
<1>3. n \in Net /\ SameNet(s.net[f], n) BY <1>2, NetFields
<1>4. s' = [s EXCEPT !.net[f] = n] BY <1>1
<1> HIDE DEF n
<1>5. Same(s, [s EXCEPT !.net[f] = n]) BY <1>2, <1>3, PutNet
<1> QED BY <1>4, <1>5, SameKeeps DEF Same

-----------------------------------------------------------------------------
(* The commands of the host.                                                *)

LEMMA FieldFine ==
    ASSUME NEW a \in State, NEW f \in Fds
    PROVE  /\ Same(a, bind_to_local_addr(a, f)) /\ Same(a, do_listen(a, f))
           /\ \A ack \in BOOLEAN : Same(a, [a EXCEPT !.socks[f].ack = ack])
<1> DEFINE k == a.socks[f]
<1>1. k \in Sock BY DEF State
<1>2. {} \in SUBSET Events /\ {} \in SUBSET {"AT", "DATA"} /\ TRUE \in BOOLEAN OBVIOUS
<1>3. Same(a, bind_to_local_addr(a, f))
  <2> DEFINE l == [k EXCEPT !.port = TRUE]
  <2>1. Polls(k, l) BY <1>1, <1>2, PollFields, Zenon
  <2>2. bind_to_local_addr(a, f) = [a EXCEPT !.socks[f] = l] BY DEF bind_to_local_addr
  <2> HIDE DEF l
  <2> QED BY <2>1, <2>2, PutSock DEF Polls
<1>4. Same(a, do_listen(a, f))
  <2> DEFINE l == [k EXCEPT !.listen = TRUE]
  <2>1. Polls(k, l) BY <1>1, <1>2, PollFields, Zenon
  <2>2. do_listen(a, f) = [a EXCEPT !.socks[f] = l] BY DEF do_listen
  <2> HIDE DEF l
  <2> QED BY <2>1, <2>2, PutSock DEF Polls
<1>5. ASSUME NEW ack \in BOOLEAN PROVE Same(a, [a EXCEPT !.socks[f].ack = ack])
  <2> DEFINE l == [k EXCEPT !.ack = ack]
  <2>1. Polls(k, l) BY <1>1, <1>2, PollFields, Zenon
  <2>2. [a EXCEPT !.socks[f].ack = ack] = [a EXCEPT !.socks[f] = l] OBVIOUS
  <2> HIDE DEF l
  <2> QED BY <2>1, <2>2, PutSock DEF Polls
<1> QED BY <1>3, <1>4, <1>5

LEMMA FineIs ==
    ASSUME StateOK(s), Accepts
    PROVE  Fine(s) /\ s \in State
BY DEF Accepts, Fine, StateOK

(* Commands that set up a socket, or end it. *)
LEMMA SetupKeeps ==
    ASSUME StateOK(s), Accepts,
           \/ handle_at_socket \/ handle_at_secure_socket \/ handle_at_close \/ CloseAll
           \/ handle_at_bind \/ handle_at_connect \/ handle_at_listen \/ handle_at_accept
    PROVE  StateOK(s')
<1>1. Fine(s) /\ s \in State BY FineIs
<1>2. Free(s) # {} => Lowest(Free(s)) \in Fds /\ ~find_socket(s, Lowest(Free(s)))
  <2>1. Free(s) \in SUBSET Fds BY DEF Free
  <2>2. Free(s) # {} => Lowest(Free(s)) \in Free(s) BY <2>1, LowestIs
  <2> QED BY <2>2 DEF Free
<1>3. CASE handle_at_socket
  BY <1>1, <1>2, <1>3, OpenFine DEF handle_at_socket, CanOpen, Fine
<1>4. CASE handle_at_secure_socket
  BY <1>1, <1>2, <1>4, SecureOpenFine DEF handle_at_secure_socket, CanOpen, Fine
<1>5. CASE handle_at_close
  BY <1>1, <1>5, SocketCloseFine DEF handle_at_close, Fine
<1>6. CASE CloseAll
  BY <1>1, <1>6, CloseAllFine DEF CloseAll, Fine
<1>7. CASE handle_at_bind
  BY <1>1, <1>7, FieldFine, SameKeeps DEF handle_at_bind
<1>8. CASE handle_at_connect
  BY <1>1, <1>8, ConnectFine DEF handle_at_connect, SetUp, Fine
<1>9. CASE handle_at_listen
  BY <1>1, <1>9, FieldFine, SameKeeps DEF handle_at_listen
<1>10. CASE handle_at_accept
  BY <1>1, <1>10, AcceptFine DEF handle_at_accept, Plain, Fine
<1> QED BY <1>3, <1>4, <1>5, <1>6, <1>7, <1>8, <1>9, <1>10

(* Commands that send, receive or poll. *)
LEMMA TransferKeeps ==
    ASSUME StateOK(s), Accepts,
           \/ handle_at_send \/ handle_at_sendto \/ handle_at_recv \/ handle_at_recvfrom
           \/ handle_at_xapoll \/ handle_at_recvcfg
    PROVE  StateOK(s')
<1>1. Fine(s) /\ s \in State /\ s.ctx.mode = "at" BY FineIs DEF Accepts
<1>2. ASSUME NEW f \in Fds, NEW ack \in BOOLEAN
      PROVE  /\ Same(s, do_send(SetAck(ack, f), f)) /\ Same(s, SetAck(ack, f))
             /\ (s.use = "sockets" /\ find_socket(s, f))
                   => StateOK(EnterDataMode(SetAck(ack, f), f))
  <2> DEFINE b == SetAck(ack, f)
  <2>1. Same(s, b) BY <1>1, FieldFine DEF SetAck
  <2> HIDE DEF b
  <2>2. Same(b, do_send(b, f)) BY <2>1, SendSame DEF Same
  <2>3. Same(s, do_send(b, f)) BY <2>1, <2>2, SameTrans
  <2>4. StateOK(b) /\ b.ctx.mode = "at" /\ b.use = s.use
        /\ (find_socket(s, f) => find_socket(b, f))
    BY <1>1, <2>1, SameKeeps DEF Same, SameChan, SameSock, find_socket
  <2> QED BY <2>1, <2>3, <2>4, EnterKeeps DEF b
<1>3. CASE handle_at_send
  BY <1>2, <1>3, SameKeeps DEF handle_at_send, Plain, On
<1>4. CASE handle_at_sendto
  <2>1. PICK f \in Fds, ack \in BOOLEAN :
          /\ s.use = "sockets" /\ find_socket(s, f)
          /\ \/ s' = do_send(SetAck(ack, f), f) \/ s' = SetAck(ack, f)
             \/ s' = EnterDataMode(SetAck(ack, f), f)
    BY <1>4 DEF handle_at_sendto, do_sendto, Plain, On
  <2> QED BY <1>2, <2>1, SameKeeps
<1>5. CASE handle_at_recv
  <2>1. PICK f \in Fds : s' = do_recv(s, f, 1) BY <1>5 DEF handle_at_recv
  <2>2. 1 \in Nat \ {0} OBVIOUS
  <2> QED BY <2>1, <2>2, RecvKeeps
<1>6. CASE handle_at_recvfrom
  <2>1. 1 \in Nat \ {0} OBVIOUS
  <2> QED BY <1>6, <2>1, RecvKeeps DEF handle_at_recvfrom
<1>7. CASE handle_at_xapoll
  <2>1. PICK ev \in PollSets :
          \/ \E f \in Fds : s' = xapoll_stop(s, f) \/ s' = set_xapoll_events(s, f, ev)
          \/ s' = XapollAll(s, ev)
    BY <1>7 DEF handle_at_xapoll
  <2>2. ev \in SUBSET Events BY DEF PollSets, Events, Permanent
  <2> QED BY <1>1, <2>1, <2>2, StopSame, SetSame, XapollAllSame, SameKeeps
<1>8. CASE handle_at_recvcfg
  <2>1. PICK flags \in {{}, {"AT"}, {"DATA"}} :
          (\E f \in Fds : s' = recvcfg(s, f, flags)) \/ s' = RecvcfgAll(s, flags)
    BY <1>8 DEF handle_at_recvcfg
  <2>2. flags \in SUBSET {"AT", "DATA"} OBVIOUS
  <2> QED BY <1>1, <2>1, <2>2, RecvcfgSame, RecvcfgAllSame, SameKeeps
<1> QED BY <1>3, <1>4, <1>5, <1>6, <1>7, <1>8

(* Commands of a request. *)
LEMMA RequestKeeps ==
    ASSUME StateOK(s), Accepts,
           \/ HttpRequest \/ handle_at_httpcdata \/ handle_at_httpccancel \/ TypingStarts
    PROVE  StateOK(s')
<1>1. Fine(s) /\ s \in State /\ s.ctx.mode = "at" BY FineIs DEF Accepts
<1>2. CASE HttpRequest
  <2>1. PICK f \in Fds, method \in {"get", "pull", "head", "post", "bad"} :
          /\ s.use = "http" /\ find_socket(s, f) /\ ~s.http[f].on
          /\ s.net[f].srv = "quiet" /\ s.net[f].in = <<>>
          /\ s' = handle_at_httpcreq(s, f, method, method = "pull")
    BY <1>2 DEF HttpRequest, Http, On, find_request
  <2>2. (method = "pull") \in BOOLEAN OBVIOUS
  <2> QED BY <1>1, <2>1, <2>2, HttpcreqKeeps
<1>3. CASE handle_at_httpcdata
  <2>1. PICK f \in Fds, max \in {1, RecvBuf} :
          s.http[f].on /\ s.http[f].headers_complete /\ s' = pull_data(s, f, max)
    BY <1>3 DEF handle_at_httpcdata, find_request
  <2>2. max \in Nat BY SocketsAssumption
  <2>3. Working(s, f) BY <1>1, <2>1 DEF Working
  <2>4. s.http[f].headers_complete BY <2>1
  <2>5. Fine(pull_data(s, f, max)) BY <2>2, <2>3, <2>4, PullFine
  <2> QED BY <2>1, <2>5 DEF Fine
<1>4. CASE handle_at_httpccancel
  BY <1>1, <1>4, ClosedFine DEF handle_at_httpccancel, find_request, Fine
<1>5. CASE TypingStarts
  <2>1. s' = [s EXCEPT !.ctx.mode = "typing"] BY <1>5 DEF TypingStarts
  <2> QED BY <1>1, <2>1, TypingKeeps
<1> QED BY <1>2, <1>3, <1>4, <1>5

LEMMA CommandsKeep ==
    ASSUME StateOK(s), WorkOK(s, work), Commands
    PROVE  StateOK(s') /\ WorkOK(s', work')
<1>1. Accepts /\ work' = work
  BY DEF Commands, handle_at_socket, handle_at_secure_socket, handle_at_close, CloseAll,
         handle_at_bind, handle_at_connect, handle_at_listen, handle_at_accept, handle_at_send,
         handle_at_sendto, handle_at_recv, handle_at_recvfrom, handle_at_xapoll,
         handle_at_recvcfg, HttpRequest, handle_at_httpcdata, handle_at_httpccancel,
         TypingStarts, Either, Plain, Http, On, Cmd, CanOpen, SetUp, Setup
<1>2. StateOK(s') BY <1>1, SetupKeeps, TransferKeeps, RequestKeeps DEF Commands
<1> QED BY <1>1, <1>2, WorkKeeps DEF Accepts, Idle

-----------------------------------------------------------------------------
(* The invariant.                                                           *)

LEMMA InitIInv == Init => IInv
<1> SUFFICES ASSUME Init PROVE IInv
  OBVIOUS
<1> DEFINE ks == [f \in Fds |-> init_socket]
           ns == [f \in Fds |-> NewNet("down")]
           hs == [f \in Fds |-> NoReq]
           c == [mode |-> "at", queue |-> {}, idle |-> {}, datamode_sock |-> NULL,
                 adr |-> {}, requested |-> {}]
<1>1. PICK use \in DOMAIN MaxWire :
        s = [socks |-> ks, net |-> ns, ctx |-> c, http |-> hs, datamode_req |-> NULL,
             timer |-> FALSE, use |-> use, owed |-> 0, spoiled |-> {}, untrue |-> FALSE]
  BY DEF Init
<1>2. use \in {"sockets", "http"} BY ServicesAssumption
<1>3. ks \in [Fds -> Sock] /\ ns \in [Fds -> Net] /\ hs \in [Fds -> Req]
  BY Fresh, NoReqType
<1>4. c \in Chan /\ c.mode = "at" /\ c.datamode_sock = NULL BY DEF Chan
<1>5. \A f \in Fds : ks[f] = init_socket /\ ns[f] = NewNet("down") /\ hs[f] = NoReq OBVIOUS
<1> HIDE DEF ks, ns, hs, c
<1>6. s \in State BY <1>1, <1>2, <1>3, <1>4 DEF State
<1>7. /\ s.socks = ks /\ s.net = ns /\ s.http = hs /\ s.ctx = c /\ s.datamode_req = NULL
      /\ s.owed = 0 /\ s.untrue = FALSE
  BY <1>1
<1>8. NoReq.on = FALSE /\ NoReq.state = "IDLE" BY DEF NoReq
<1>9. \A f \in Fds : SockOK(s, f)
  <2>1. NULL \notin Fds BY SocketsAssumption DEF NULL
  <2> QED BY <1>5, <1>7, <1>8, <2>1, Fresh, NoReqType DEF SockOK
<1>10. Active(s) = {} BY <1>5, <1>7, <1>8 DEF Active
<1>11. StateOK(s)
  <2>1. s.owed = Cardinality(Active(s)) BY <1>7, <1>10, FS_EmptySet
  <2>2. ChanOK(s) BY <1>4, <1>7 DEF ChanOK
  <2> QED BY <1>6, <1>7, <1>9, <2>1, <2>2 DEF StateOK
<1>12. WorkOK(s, work)
  <2>1. NoWork \in Work /\ NoWork.pc = "idle" /\ ~NoWork.at BY DEF NoWork, Work
  <2> QED BY <2>1 DEF WorkOK, Init
<1> QED BY <1>11, <1>12 DEF IInv

LEMMA NextIInv == IInv /\ [Next]_vars => IInv'
<1> SUFFICES ASSUME StateOK(s), WorkOK(s, work), [Next]_vars
             PROVE  StateOK(s') /\ WorkOK(s', work')
  BY DEF IInv
<1>1. s \in State /\ s.ctx \in Chan BY DEF StateOK, State
(* What runs on sm_work_q while no poll handler does. *)
<1>2. ASSUME work.pc = "idle", work' = work, StateOK(s')
      PROVE  StateOK(s') /\ WorkOK(s', work')
  BY <1>2, WorkKeeps
(* What may come in the middle of the poll handler. *)
<1>3. ASSUME work' = work, StateOK(s'), SameChan(s.ctx, s'.ctx)
      PROVE  StateOK(s') /\ WorkOK(s', work')
  BY <1>3, WorkKeeps
<1>4. SendSizes \subseteq Int BY DEF SendSizes
<1>5. ASSUME NEW x \in SUBSET {"poll", "idle", "send"}
      PROVE  Same(s, [s EXCEPT !.ctx.queue = @ \ x])
  <2> DEFINE c == [s.ctx EXCEPT !.queue = @ \ x]
  <2>1. c \in Chan /\ SameChan(s.ctx, c) BY <1>1 DEF Chan, SameChan
  <2>2. [s EXCEPT !.ctx.queue = @ \ x] = [s EXCEPT !.ctx = c] OBVIOUS
  <2> HIDE DEF c
  <2> QED BY <1>1, <2>1, <2>2, PutChan
<1>6. ASSUME NEW n \in SendSizes, PollWork(n)
      PROVE  StateOK(s') /\ WorkOK(s', work')
  <2> DEFINE t == [s EXCEPT !.ctx.queue = @ \ {"poll"}]
  <2>1. Same(s, t) BY <1>5
  <2>2. Idle /\ StartPoll(t, n) BY <1>6 DEF PollWork
  <2> HIDE DEF t
  <2> QED BY <1>4, <2>1, <2>2, StartKeeps
<1>7. ASSUME NEW n \in SendSizes, PollIdle(n)
      PROVE  StateOK(s') /\ WorkOK(s', work')
  <2> DEFINE t == [s EXCEPT !.ctx.queue = @ \ {"idle"}]
  <2>1. Same(s, t) BY <1>5
  <2>2. Idle BY <1>7 DEF PollIdle
  <2>3. StartPoll(t, n) \/ (s' = queue_idle_work(t, "idle") /\ work' = work)
    BY <1>7 DEF PollIdle
  <2> HIDE DEF t
  <2>4. Same(t, queue_idle_work(t, "idle")) BY <2>1, QueueSame DEF Same
  <2>5. StateOK(queue_idle_work(t, "idle")) BY <2>1, <2>4, SameKeeps
  <2> QED BY <1>2, <1>4, <2>1, <2>2, <2>3, <2>5, StartKeeps DEF Idle
<1>8. ASSUME NEW n \in SendSizes, PollSock(n)
      PROVE  StateOK(s') /\ WorkOK(s', work')
  <2>1. Look(s, work, n) /\ work.pc = "sock" BY <1>8 DEF PollSock
  <2>2. /\ work \in Work /\ work.todo # {} /\ ~(work.at /\ work.data)
        /\ s.ctx.mode = "data" => work.data
    BY <2>1 DEF WorkOK
  <2> QED BY <1>4, <2>1, <2>2, LookKeeps
<1>9. CASE PollRearm
  BY <1>9, PollRearmKeeps
<1>10. CASE IdleSubmit
  <2> DEFINE c == [s.ctx EXCEPT !.idle = {}, !.queue = s.ctx.queue \cup s.ctx.idle]
  <2>1. s' = [s EXCEPT !.ctx = c] BY <1>1, <1>10 DEF IdleSubmit, Chan, State
  <2>2. c \in Chan /\ SameChan(s.ctx, c) BY <1>1 DEF Chan, SameChan
  <2> HIDE DEF c
  <2>3. Same(s, s') BY <1>1, <2>1, <2>2, PutChan
  <2> QED BY <1>2, <1>10, <2>3, SameKeeps DEF IdleSubmit, Idle
<1>11. CASE SendWork
  <2> DEFINE t == [s EXCEPT !.ctx.queue = @ \ {"send"}]
  <2>1. Same(s, t) BY <1>5
  <2>2. s' = send_cb_fn(t) BY <1>11 DEF SendWork
  <2> HIDE DEF t
  <2>3. Same(t, send_cb_fn(t)) BY <2>1, SendFnSame DEF Same
  <2>4. StateOK(s') BY <2>1, <2>2, <2>3, SameKeeps
  <2> QED BY <1>2, <1>11, <2>4 DEF SendWork, Idle
<1>12. CASE TimeoutWork
  BY <1>2, <1>12, TimeoutKeeps DEF TimeoutWork, Idle
<1>13. CASE PollCb
  <2>1. PICK f \in Fds : find_socket(s, f) /\ s' = poll_cb(s, f) /\ work' = work
    BY <1>13 DEF PollCb
  <2> QED BY <1>3, <2>1, PollCbKeeps
<1>14. CASE SendCb
  <2>1. PICK f \in Fds : s' = send_cb(s, f) /\ work' = work BY <1>14 DEF SendCb
  <2>2. Same(s, s') BY <1>1, <2>1, SendCbSame
  <2> QED BY <1>3, <2>1, <2>2, SameKeeps DEF Same
<1>15. CASE Commands
  BY <1>15, CommandsKeep
<1>16. CASE TypingEnds
  <2>1. s' = [s EXCEPT !.ctx.mode = "at"] /\ s.ctx.mode = "typing" BY <1>16 DEF TypingEnds
  <2> QED BY <1>2, <1>16, <2>1, TypingKeeps DEF TypingEnds, Idle
<1>17. CASE DataModeSend
  BY <1>2, <1>17, SendDataKeeps DEF DataModeSend, Idle
<1>18. CASE DataModeExit
  BY <1>2, <1>18, ExitDataKeeps DEF DataModeExit, Idle
<1>19. CASE PeerSends
  BY <1>3, <1>19, PeerSendsKeeps DEF PeerSends, Wire
<1>20. CASE ServerHeaders
  BY <1>3, <1>20, ServerHeadersKeeps DEF ServerHeaders, Wire
<1>21. CASE ServerBody
  BY <1>3, <1>21, ServerBodyKeeps DEF ServerBody, Wire
<1>22. CASE PeerLeaves
  BY <1>3, <1>22, PeerLeavesKeeps
<1>23. CASE Drain
  BY <1>3, <1>23, DrainKeeps DEF Drain
<1>24. CASE UNCHANGED vars
  BY <1>24 DEF vars
<1> QED
  BY <1>6, <1>7, <1>8, <1>9, <1>10, <1>11, <1>12, <1>13, <1>14, <1>15, <1>16, <1>17, <1>18,
     <1>19, <1>20, <1>21, <1>22, <1>23, <1>24 DEF Next, Poll, DataModeHost, Peers

(* Sets of events hold events, receive buffers do not overflow, data mode   *)
(* has one owner, who is there, and datamode_req never points to a request  *)
(* that http_close_request has freed.                                       *)
THEOREM TypeCorrect == Spec => []TypeOK
<1>1. IInv => TypeOK
  <2> SUFFICES ASSUME StateOK(s) PROVE TypeOK
    BY DEF IInv
  <2>1. s \in State /\ ChanOK(s) /\ \A f \in Fds : SockOK(s, f) BY DEF StateOK
  <2>2. \A f \in Fds :
          LET k == s.socks[f]
          IN  /\ k.events \cup k.revents \cup k.delayed \subseteq Events
              /\ k.xapoll \subseteq Events /\ k.requested \subseteq Events
    <3> TAKE f \in Fds
    <3> QED BY <2>1, StateParts
  <2>3. \A f \in Fds :
          /\ Len(s.http[f].buf) <= RecvBuf
          /\ s.http[f].on => find_socket(s, f)
          /\ (s.http[f].state = "SENDING_BODY") <=> (s.datamode_req = f)
    BY <2>1 DEF SockOK, ReqOK, find_socket
  <2>4. s.ctx.mode \in {"at", "typing", "data", "null"} BY <2>1 DEF State, Chan
  <2> QED BY <2>1, <2>2, <2>3, <2>4 DEF TypeOK, ChanOK
<1> QED BY <1>1, InitIInv, NextIInv, PTL DEF Spec

(* Every request that AT#XHTTPCREQ accepted is active or has ended with one *)
(* #XHTTPCSTAT, and one with the status of the server means that the host   *)
(* has the body of the response, whole and in order, whichever of poll      *)
(* event, pull, timeout, cancel and close of the socket came first.         *)
THEOREM SettledCorrect == Spec => []RequestsSettled
<1>1. IInv => RequestsSettled BY DEF IInv, StateOK, Active, RequestsSettled
<1> QED BY <1>1, InitIInv, NextIInv, PTL DEF Spec
=============================================================================
