------------------------------- MODULE Httpc --------------------------------
(***************************************************************************)
(* The HTTP client (app/src/sm_at_httpc.c): one request per socket, driven *)
(* by the socket's poll events, with the response body sent to the host as *)
(* it comes or, in manual mode, pulled by AT#XHTTPCDATA, and a request     *)
(* body streamed through data mode.                                        *)
(*                                                                         *)
(* All of it runs on sm_work_q, so http_mutex is never contended.          *)
(***************************************************************************)
EXTENDS Sockets

(* struct http_request.  left: units of the request not yet sent; buf:      *)
(* recv_buf; cl: content_length; total: total_received; given: what the     *)
(* host has got (bytes_sent is its length); idle: a scan of the timer has   *)
(* passed without activity.                                                 *)
NoReq == [on |-> FALSE, state |-> "IDLE", head |-> FALSE, manual |-> FALSE, left |-> 0,
          buf |-> <<>>, cl |-> -1, headers_complete |-> FALSE, rearm |-> FALSE,
          total |-> 0, given |-> <<>>, idle |-> FALSE]

find_request(s, f) == s.http[f].on
http_any_active_request(s) == \E f \in Fds : s.http[f].on /\ s.http[f].state # "IDLE"
http_timeout_monitor_arm(s) == [s EXCEPT !.timer = TRUE]

-----------------------------------------------------------------------------
(* The end of a request.                                                    *)

http_close_request(s, f) ==
    [xapoll_stop(s, f) EXCEPT !.http[f] = NoReq,
                              !.datamode_req = IF @ = f THEN NULL ELSE @]

(* History: with the server's status the host has the body that the server  *)
(* has sent, all of it, and is told its length.  A connection that has      *)
(* ended, or lost some data to others, proves nothing.                      *)
Truthful(s, f) ==
    LET r == s.http[f]
        n == s.net[f]
    IN  \/ n.link # "up" \/ f \in s.spoiled
        \/ r.given = n.sent /\ n.srv = "quiet" /\ r.total = Len(r.given)

(* #XHTTPCSTAT: one per accepted request is owed. *)
Stat(s, f, ok) == [s EXCEPT !.owed = @ - 1,
                            !.untrue = @ \/ (ok /\ ~Truthful(s, f))]

http_fail_request(s, f) == http_close_request(Stat(s, f, FALSE), f)
http_finish_request(s, f) == http_close_request(Stat(s, f, TRUE), f)
(* AT#XHTTPCCANCEL, and sm_at_httpc_socket_closed. *)
Cancel(s, f) == http_close_request(Stat(s, f, FALSE), f)
sm_at_httpc_socket_closed(s, f) == IF find_request(s, f) THEN Cancel(s, f) ELSE s

-----------------------------------------------------------------------------
(* The response.                                                            *)

HeaderEnd(buf) == CHOOSE i \in 0..Len(buf) :
                      IF i = 0 THEN \A j \in DOMAIN buf : ~IsEnd(buf[j]) ELSE IsEnd(buf[i])
BodyOf(buf) == SubSeq(buf, HeaderEnd(buf) + 1, Len(buf))
ResponseOf(buf) == Responses[-10 - buf[HeaderEnd(buf)]]

(* The end marker is found only as a whole, at the end of what was read. *)
chunked_eof(buf) ==
    Len(buf) >= 2 /\ buf[Len(buf) - 1] = Eof1 /\ buf[Len(buf)] = Eof2

(* #XHTTPCDATA with the units. *)
http_send_data(s, f, units) == [s EXCEPT !.http[f].given = @ \o units]

(* A read into recv_buf, behind what it holds. *)
ReadLen(s, f) == Available(s, f, RecvBuf - Len(s.http[f].buf))
http_recv_read(s, f) ==
    LET k == ReadLen(s, f)
    IN  [Consume(s, f, k) EXCEPT !.http[f].buf = @ \o SubSeq(s.net[f].in, 1, k),
                                 !.http[f].total = @ + k, !.http[f].idle = FALSE]

Rearm(s, f) == [s EXCEPT !.http[f].rearm = TRUE]

(* Mutant: the length is compared before the data is counted. *)
HeadersCompleteMutant(s, f, hup) ==
    LET r == s.http[f]
        body == BodyOf(r.buf)
        nobody == r.head \/ ResponseOf(r.buf).nobody
        cl == ResponseOf(r.buf).cl
        t == [s EXCEPT !.http[f].state = "RECEIVING_BODY", !.http[f].headers_complete = TRUE,
                       !.http[f].cl = cl, !.http[f].total = Len(body)]
        t1 == [http_send_data(t, f, body) EXCEPT !.http[f].buf = <<>>]
    IN  CASE nobody -> http_finish_request(t, f)
          [] ~nobody /\ r.manual -> xapoll_stop([t EXCEPT !.http[f].buf = body], f)
          [] ~nobody /\ ~r.manual /\ (hup \/ cl >= Len(body)) -> http_finish_request(t1, f)
          [] OTHER -> Rearm(t1, f)

(* http_headers_complete: total_received counts the body only from here on. *)
(* Manual mode keeps what came with the headers for the first pull.         *)
http_headers_complete(s, f, hup) ==
    LET r == s.http[f]
        body == BodyOf(r.buf)
        nobody == r.head \/ ResponseOf(r.buf).nobody
        cl == ResponseOf(r.buf).cl
        t == [s EXCEPT !.http[f].state = "RECEIVING_BODY", !.http[f].headers_complete = TRUE,
                       !.http[f].cl = cl, !.http[f].total = Len(body)]
        t1 == [http_send_data(t, f, body) EXCEPT !.http[f].buf = <<>>]
        done == IF cl >= 0 THEN Len(body) >= cl ELSE chunked_eof(body)
    IN  CASE nobody -> http_finish_request(t, f)
          [] ~nobody /\ r.manual -> xapoll_stop([t EXCEPT !.http[f].buf = body], f)
          [] ~nobody /\ ~r.manual /\ (hup \/ done) -> http_finish_request(t1, f)
          [] OTHER -> Rearm(t1, f)

http_process_recv_headers(s, f, hup) ==
    LET buf == s.http[f].buf
    IN  CASE HeaderEnd(buf) > 0 -> http_headers_complete(s, f, hup)
          [] HeaderEnd(buf) = 0 /\ Len(buf) >= RecvBuf -> http_fail_request(s, f)
          [] OTHER -> Rearm(s, f)

http_process_recv_body(s, f, hup) ==
    LET r == s.http[f]
        t == [http_send_data(s, f, r.buf) EXCEPT !.http[f].buf = <<>>]
        sent == Len(r.given) + Len(r.buf)
    IN  CASE r.manual -> xapoll_stop(s, f)
          [] ~r.manual /\ (chunked_eof(r.buf) \/ (r.cl > 0 /\ sent >= r.cl) \/ hup) ->
                http_finish_request(t, f)
          [] OTHER -> Rearm(t, f)

(* Nothing read: a full buffer or the end of the connection (recv returns   *)
(* 0), an error, or EAGAIN.  The end is that of a response, or of one that  *)
(* failed: its headers are missing.                                         *)
Nothing(s, f, failed) ==
    LET Ends(t) == IF failed THEN http_fail_request(t, f) ELSE http_finish_request(t, f)
    IN  CASE Len(s.http[f].buf) = RecvBuf -> Ends([s EXCEPT !.spoiled = @ \cup {f}])
          [] Len(s.http[f].buf) < RecvBuf /\ s.net[f].link = "fin" -> Ends(s)
          [] Len(s.http[f].buf) < RecvBuf /\ s.net[f].link = "rst" -> http_fail_request(s, f)
          [] OTHER -> set_xapoll_events(s, f, {"IN"})

-----------------------------------------------------------------------------
(* http_process_request, for the poll events ev; n is the number of units   *)
(* that zsock_send takes.                                                   *)

(* A request that was not taken as a whole waits for POLLOUT. *)
SendingRequest(s, f, n) ==
    CASE s.net[f].link = "rst" -> http_fail_request(s, f)
      [] s.net[f].link # "rst" /\ n < s.http[f].left ->
            set_xapoll_events([s EXCEPT !.http[f].left = @ - n, !.net[f].full = TRUE],
                              f, {"OUT", "IN"})
      [] OTHER ->
            set_xapoll_events([s EXCEPT !.http[f].left = 0, !.http[f].buf = <<>>,
                                        !.http[f].state = "RECEIVING_HEADERS",
                                        !.net[f].srv = "asked",
                                        !.net[f].head = s.http[f].head],
                              f, {"IN"})

ReceivingHeaders(s, f, ev) ==
    CASE "IN" \in ev /\ ReadLen(s, f) > 0 ->
            http_process_recv_headers(http_recv_read(s, f), f, "HUP" \in ev)
      [] "IN" \in ev /\ ReadLen(s, f) = 0 -> Nothing(s, f, TRUE)
      [] OTHER -> IF "HUP" \in ev THEN http_fail_request(s, f) ELSE s

ReceivingBody(s, f, ev) ==
    CASE "IN" \in ev /\ ReadLen(s, f) > 0 ->
            http_process_recv_body(http_recv_read(s, f), f, "HUP" \in ev)
      [] "IN" \in ev /\ ReadLen(s, f) = 0 -> Nothing(s, f, FALSE)
      [] OTHER -> IF "HUP" \in ev THEN http_finish_request(s, f) ELSE s

http_process_request(s, f, ev, n) ==
    LET st == s.http[f].state
    IN  CASE "ERR" \in ev -> http_fail_request(s, f)
          [] "ERR" \notin ev /\ st = "SENDING_REQUEST" ->
                CASE "HUP" \in ev -> http_fail_request(s, f)
                  [] "HUP" \notin ev /\ "OUT" \in ev -> SendingRequest(s, f, n)
                  [] OTHER -> s
          [] "ERR" \notin ev /\ st = "RECEIVING_HEADERS" -> ReceivingHeaders(s, f, ev)
          [] "ERR" \notin ev /\ st = "RECEIVING_BODY" -> ReceivingBody(s, f, ev)
          [] OTHER -> s

sm_at_httpc_poll_event(s, f, ev, n) ==
    IF find_request(s, f)
    THEN http_process_request([s EXCEPT !.http[f].rearm = FALSE], f, ev, n)
    ELSE s

-----------------------------------------------------------------------------
(* The idle timeout.                                                        *)

(* A request without activity for longer than the timeout fails.  A body    *)
(* upload does not time out.                                                *)
Watched(s, f) == s.http[f].on /\ s.http[f].state # "SENDING_BODY"
Expired(s) == {f \in Fds : Watched(s, f) /\ s.http[f].idle}
Expire(s, f) ==
    CASE f \in Expired(s) -> http_fail_request(s, f)
      [] f \notin Expired(s) /\ Watched(s, f) -> [s EXCEPT !.http[f].idle = TRUE]
      [] OTHER -> s

(* Mutant: the scan ends with the first request that has not expired. *)
TimeoutMutant(s) == [OnAll(s, Expire) EXCEPT !.owed = @ - Cardinality(Expired(s)),
                                             !.timer = Expired(s) # {}]

(* The scan goes on while there is a request. *)
http_timeout_work_fn(s) ==
    LET t == [OnAll(s, Expire) EXCEPT !.owed = @ - Cardinality(Expired(s))]
    IN  IF http_any_active_request(t) THEN http_timeout_monitor_arm(t)
        ELSE [t EXCEPT !.timer = FALSE]

-----------------------------------------------------------------------------
(* Commands.                                                                *)

(* Units of a request's headers. *)
HeaderUnits == 2

NewRequest(method, manual) ==
    [NoReq EXCEPT !.on = TRUE, !.head = method = "head", !.manual = manual]

(* AT#XHTTPCREQ.  "bad" stands for parameters that are refused once the     *)
(* request names its socket (headers, URL).                                 *)
http_start_request(s, f) ==
    http_timeout_monitor_arm(
        set_xapoll_events([s EXCEPT !.http[f].left = HeaderUnits,
                                    !.http[f].state = "SENDING_REQUEST"],
                          f, {"OUT", "IN"}))

(* With a body: the headers are sent at once, the body through data mode. *)
http_send_request_headers(s, f) ==
    http_timeout_monitor_arm(
        [s EXCEPT !.http[f].state = "SENDING_BODY", !.net[f].srv = "asked", !.net[f].head = FALSE,
                  !.datamode_req = f, !.ctx.mode = "data"])

handle_at_httpcreq(s, f, method, manual) ==
    LET t == [s EXCEPT !.http[f] = NewRequest(method, manual), !.net[f].sent = <<>>,
                       !.spoiled = @ \ {f}]
    IN  CASE method = "bad" \/ (method = "post" /\ ~CanSend(s, f)) -> http_close_request(t, f)
          [] method = "post" /\ CanSend(s, f) ->
                [http_send_request_headers(t, f) EXCEPT !.owed = @ + 1]
          [] OTHER -> [http_start_request(t, f) EXCEPT !.owed = @ + 1]

(* What a pull is checked for once it has delivered. *)
CheckComplete(s, f, units) ==
    LET r == s.http[f]
    IN  IF \/ r.cl > 0 /\ Len(r.given) >= r.cl
           \/ r.cl < 0 /\ r.buf = <<>> /\ chunked_eof(units)
        THEN http_finish_request(s, f) ELSE s

(* pull_data, of at most max units: from recv_buf, or else one read. *)
pull_data(s, f, max) ==
    LET r == s.http[f]
        inBuf == IF Len(r.buf) < max THEN Len(r.buf) ELSE max
        k == Available(s, f, max)
        units == SubSeq(s.net[f].in, 1, k)
    IN  CASE r.buf # <<>> ->
                CheckComplete([http_send_data(s, f, SubSeq(r.buf, 1, inBuf))
                                 EXCEPT !.http[f].buf = SubSeq(@, inBuf + 1, Len(@)),
                                        !.http[f].idle = FALSE], f, SubSeq(r.buf, 1, inBuf))
          [] r.buf = <<>> /\ k > 0 ->
                CheckComplete([http_send_data(Consume(s, f, k), f, units)
                                 EXCEPT !.http[f].total = @ + k, !.http[f].idle = FALSE],
                              f, units)
          [] OTHER -> CASE s.net[f].link = "fin" -> http_finish_request(s, f)
                        [] s.net[f].link = "rst" -> http_fail_request(s, f)
                        [] OTHER -> s

(* http_datamode_callback: a part of the body that cannot be sent fails the *)
(* request, after data mode.                                                *)
BodySendFails(s) ==
    http_fail_request([s EXCEPT !.ctx.mode = "null", !.datamode_req = NULL], s.datamode_req)

(* The end of data mode: now the response is waited for. *)
BodySent(s) ==
    LET f == s.datamode_req
    IN  set_xapoll_events([s EXCEPT !.http[f].state = "RECEIVING_HEADERS", !.http[f].buf = <<>>,
                                    !.http[f].idle = FALSE, !.datamode_req = NULL],
                          f, {"IN"})
=============================================================================
