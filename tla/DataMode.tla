------------------------------ MODULE DataMode ------------------------------
(***************************************************************************)
(* Data mode of one AT host context (app/src/sm_at_host.c): the bytes the  *)
(* host sends are collected in data_rb and handed to the handler of a      *)
(* service, until the terminator or the announced length is reached.  A    *)
(* failed send or an asynchronous error of the service moves the context   *)
(* to null mode, which drops everything up to the terminator.              *)
(*                                                                         *)
(* All of it runs on sm_work_q, one work item after the other: the receive *)
(* work (a batch of bytes), the scheduled send, a service's error.  The    *)
(* inactivity timer's handler interleaves with them.  A handler is what    *)
(* raw_send makes of its results: it accepts some prefix of the buffer and *)
(* then fails, or all of it (a result of 0 is tried once again).           *)
(***************************************************************************)
EXTENDS Integers, Sequences

CONSTANTS
    Chars,        \* the characters the host sends
    Terminator,   \* CONFIG_SM_DATAMODE_TERMINATOR
    Capacity,     \* CONFIG_SM_DATAMODE_BUF_SIZE
    DataLens,     \* values of <data_len>; 0 means none was given
    OwnFallback,  \* with current_ctx NULL, does sm_at_host_get_current() give
                  \* this context (as with one instance), or else another one,
                  \* which was never in data mode (a second CMUX channel)
    SIZE_MAX,     \* largest size_t
    MaxInput,     \* bound: bytes sent per data mode session
    MaxSessions   \* bound: data mode sessions

ASSUME DataModeAssumption ==
    /\ Terminator \in Seq(Chars) /\ Terminator # <<>>
    /\ Capacity \in Nat /\ Capacity >= Len(Terminator)
    /\ OwnFallback \in BOOLEAN
    /\ SIZE_MAX \in Nat /\ DataLens \subseteq 0..SIZE_MAX
    /\ MaxInput \in Nat /\ MaxSessions \in Nat

VARIABLES
    ctx,        \* struct sm_at_host_ctx with what its operations produce:
                \*   at_mode, handler (is one set), handler_result (did it fail),
                \*   data_len, data_rb, quit_str_match, null_match_count,
                \*   current: is current_ctx this context (else NULL),
                \*   hung: sm_work_q is caught in write_data_buf,
                \*   handed: bytes the handler accepted in this session,
                \*   rsp: #XDATAMODE of this session: where to and its result
    rxWork,     \* the receive work is running
    timer,      \* data_inactivity_timer is running
    sendWork,   \* raw_send_scheduled_work is submitted
    input,      \* bytes received in this session
    asked,      \* data_len this session was entered with
    recent,     \* bytes received since the last pause or mode change
    split,      \* ... a service's error fell between them
    erred,      \* a service's error ended this session's data mode
    sessions    \* data mode sessions so far

vars == <<ctx, rxWork, timer, sendWork, input, asked, recent, split, erred, sessions>>

NoRsp == [to |-> "nobody", ok |-> TRUE]
QuitStr(n) == SubSeq(Terminator, 1, n)

-----------------------------------------------------------------------------
(* Operations on a context.  Those that call a handler have several         *)
(* outcomes and give the set of them.                                       *)

sm_at_host_get_current(c) == IF c.current \/ OwnFallback THEN "own" ELSE "other"

exit_datamode_handler(c) ==
    IF c.at_mode = "AT" THEN c
    ELSE [c EXCEPT !.at_mode = "NULL", !.handler = FALSE, !.handler_result = FALSE,
                   !.data_len = 0, !.current = FALSE]

(* The result is not reset: the next session begins with this one's. *)
exit_datamodeStaleMutant(c) ==
    [c EXCEPT !.at_mode = "AT", !.handler = FALSE,
              !.data_len = 0, !.quit_str_match = 0, !.data_rb = <<>>,
              !.rsp = [to |-> sm_at_host_get_current(c), ok |-> c.handler_result]]

(* The ring is not reset. *)
exit_datamodeMutant(c) ==
    [c EXCEPT !.at_mode = "AT", !.handler = FALSE, !.handler_result = TRUE,
              !.data_len = 0, !.quit_str_match = 0,
              !.rsp = [to |-> sm_at_host_get_current(c), ok |-> c.handler_result]]

exit_datamode(c) ==
    [c EXCEPT !.at_mode = "AT", !.handler = FALSE, !.handler_result = TRUE,
              !.data_len = 0, !.quit_str_match = 0, !.data_rb = <<>>,
              !.rsp = [to |-> sm_at_host_get_current(c), ok |-> c.handler_result]]

(* The handler accepts k bytes.  Short of all of them it failed: data mode  *)
(* is left and the rest dropped.                                            *)
Sent(c, k) ==
    LET d == [c EXCEPT !.handed = @ \o SubSeq(c.data_rb, 1, k), !.data_rb = <<>>]
    IN  IF k = Len(c.data_rb) THEN d ELSE exit_datamode_handler(d)

raw_send(c) ==
    IF sm_at_host_get_current(c) = "other" THEN {c}
    ELSE IF c.handler THEN {Sent(c, k) : k \in 0..Len(c.data_rb)}
                 ELSE {[c EXCEPT !.data_rb = <<>>]}

(* What does not fit is written once the full buffer was sent.  Another     *)
(* context has no buffer: nothing ever fits.                                *)
write_data_buf(c, buf) ==
    LET room == Capacity - Len(c.data_rb)
    IN  IF sm_at_host_get_current(c) = "other" /\ buf # <<>>
        THEN {[c EXCEPT !.hung = TRUE]}
        ELSE IF Len(buf) <= room
        THEN {[c EXCEPT !.data_rb = @ \o buf]}
        ELSE {[d EXCEPT !.data_rb = SubSeq(buf, room + 1, Len(buf))] :
                d \in raw_send([c EXCEPT !.data_rb = @ \o SubSeq(buf, 1, room)])}

(* The length is tested before it is decremented. *)
rx_data_lenMutant(c, ch) ==
    UNION {IF d.data_len = 1 THEN {[d EXCEPT !.data_len = 0]}
           ELSE {[d EXCEPT !.data_len = IF @ = 0 THEN SIZE_MAX ELSE @ - 1]} :
             d \in write_data_buf(c, <<ch>>)}

(* A byte in data mode with <data_len>. *)
rx_data_len(c, ch) ==
    UNION {LET left == IF d.data_len = 0 THEN SIZE_MAX ELSE d.data_len - 1
               e    == [d EXCEPT !.data_len = left]
           IN  IF left = 0 THEN {exit_datamode(f) : f \in raw_send(e)} ELSE {e} :
             d \in write_data_buf(c, <<ch>>)}

(* Data mode is not left if the send before it failed. *)
rx_matchMutant(c, ch) ==
    IF ch = Terminator[c.quit_str_match + 1]
    THEN IF c.quit_str_match + 1 = Len(Terminator)
         THEN {IF d.at_mode = "DATA" THEN exit_datamode(d) ELSE d : d \in raw_send(c)}
         ELSE {[c EXCEPT !.quit_str_match = @ + 1]}
    ELSE write_data_buf(c, <<ch>>)

(* A byte with nothing of the terminator matched so far, or the next of it. *)
rx_match(c, ch) ==
    IF ch = Terminator[c.quit_str_match + 1]
    THEN IF c.quit_str_match + 1 = Len(Terminator)
         THEN {exit_datamode(d) : d \in raw_send(c)}
         ELSE {[c EXCEPT !.quit_str_match = @ + 1]}
    ELSE write_data_buf(c, <<ch>>)

(* The part of a terminator that broke off is dropped. *)
raw_rx_handlerMutant(c, ch) ==
    IF c.data_len > 0 THEN rx_data_len(c, ch)
    ELSE IF ch # Terminator[c.quit_str_match + 1]
    THEN rx_match([c EXCEPT !.quit_str_match = 0], ch)
    ELSE rx_match(c, ch)

(* A byte in data mode: a partial terminator that breaks off is data, and   *)
(* the byte is looked at afresh.                                            *)
raw_rx_handler(c, ch) ==
    IF c.data_len > 0 THEN rx_data_len(c, ch)
    ELSE IF c.quit_str_match > 0 /\ ch # Terminator[c.quit_str_match + 1]
    THEN UNION {rx_match([d EXCEPT !.quit_str_match = 0], ch) :
                  d \in write_data_buf(c, QuitStr(c.quit_str_match))}
    ELSE rx_match(c, ch)

(* A byte in null mode is dropped. *)
null_handler(c, ch) ==
    IF ch # Terminator[c.null_match_count + 1]
    THEN [c EXCEPT !.null_match_count = 0]
    ELSE IF c.null_match_count + 1 = Len(Terminator)
    THEN [exit_datamode(c) EXCEPT !.null_match_count = 0]
    ELSE [c EXCEPT !.null_match_count = @ + 1]

-----------------------------------------------------------------------------
(* The work items.                                                          *)

(* at_pipe_rx_work_fn starts on a batch of bytes ... *)
RxWorkStart ==
    /\ ~rxWork /\ ~ctx.hung
    /\ rxWork' = TRUE
    /\ ctx' = [ctx EXCEPT !.current = TRUE]
    /\ UNCHANGED <<timer, sendWork, input, asked, recent, split, erred, sessions>>

(* ... and ends when the pipe is empty. *)
RxWorkEnd ==
    /\ rxWork /\ ~ctx.hung
    /\ rxWork' = FALSE
    /\ ctx' = [ctx EXCEPT !.current = FALSE]
    /\ UNCHANGED <<timer, sendWork, input, asked, recent, split, erred, sessions>>

(* A command received in AT mode enters data mode, of the current context.  *)
EnterDataMode ==
    /\ rxWork /\ ctx.at_mode = "AT" /\ ~ctx.handler
    /\ sm_at_host_get_current(ctx) = "own"
    /\ sessions < MaxSessions
    /\ sessions' = sessions + 1
    /\ \E n \in DataLens :
         /\ asked' = n
         /\ ctx' = [ctx EXCEPT !.at_mode = "DATA", !.handler = TRUE, !.data_len = n,
                               !.data_rb = <<>>, !.handed = <<>>, !.rsp = NoRsp]
    /\ timer' = TRUE
    /\ input' = <<>> /\ recent' = <<>> /\ split' = FALSE /\ erred' = FALSE
    /\ UNCHANGED <<rxWork, sendWork>>

(* sm_at_receive of one byte in data or null mode. *)
RxByte ==
    /\ rxWork /\ ~ctx.hung /\ ctx.at_mode # "AT" /\ Len(input) < MaxInput
    /\ \E ch \in Chars :
         /\ ctx' \in IF ctx.at_mode = "DATA" THEN raw_rx_handler(ctx, ch)
                                             ELSE {null_handler(ctx, ch)}
         /\ input' = Append(input, ch)
         /\ recent' = Append(recent, ch)
    /\ timer' = (ctx'.at_mode = "DATA")
    /\ UNCHANGED <<rxWork, sendWork, asked, split, erred, sessions>>

(* The test is inverted. *)
InactivityTimerMutant ==
    /\ timer
    /\ timer' = FALSE
    /\ sendWork' = (sendWork \/ ctx.data_rb = <<>>)
    /\ recent' = <<>> /\ split' = FALSE
    /\ UNCHANGED <<ctx, rxWork, input, asked, erred, sessions>>

(* inactivity_timer_handler, in interrupt context. *)
InactivityTimer ==
    /\ timer
    /\ timer' = FALSE
    /\ sendWork' = (sendWork \/ ctx.data_rb # <<>>)
    /\ recent' = <<>> /\ split' = FALSE
    /\ UNCHANGED <<ctx, rxWork, input, asked, erred, sessions>>

(* raw_send_scheduled *)
RawSendScheduled ==
    /\ ~rxWork /\ sendWork /\ ~ctx.hung
    /\ sendWork' = FALSE
    /\ LET c == [ctx EXCEPT !.current = TRUE]
       IN  \E d \in write_data_buf(c, QuitStr(c.quit_str_match)) :
           \E e \in raw_send([d EXCEPT !.quit_str_match = 0]) :
             ctx' = [e EXCEPT !.current = FALSE]
    /\ recent' = <<>> /\ split' = FALSE
    /\ UNCHANGED <<rxWork, timer, input, asked, erred, sessions>>

(* A service ends data mode for an error of its own: the poll work of a     *)
(* socket calls exit_datamode_handler.                                      *)
ServiceError ==
    /\ ~rxWork /\ ~ctx.hung /\ ctx.at_mode = "DATA"
    /\ ctx' = exit_datamode_handler(ctx)
    /\ split' = (recent # <<>>) /\ erred' = TRUE
    /\ UNCHANGED <<rxWork, timer, sendWork, input, asked, recent, sessions>>

Init ==
    /\ ctx = [at_mode |-> "AT", handler |-> FALSE, handler_result |-> TRUE,
              data_len |-> 0, data_rb |-> <<>>, quit_str_match |-> 0,
              null_match_count |-> 0, current |-> FALSE, hung |-> FALSE,
              handed |-> <<>>, rsp |-> NoRsp]
    /\ rxWork = FALSE /\ timer = FALSE /\ sendWork = FALSE
    /\ input = <<>> /\ asked = 0 /\ recent = <<>> /\ split = FALSE /\ erred = FALSE
    /\ sessions = 0

Next == \/ RxWorkStart \/ RxWorkEnd \/ EnterDataMode \/ RxByte
        \/ InactivityTimer \/ RawSendScheduled \/ ServiceError

Spec == Init /\ [][Next]_vars

(* The timer runs out, a batch of bytes ends, and submitted work is run.    *)
(* What the host sends and which error a service meets is free.             *)
FairSpec == /\ Spec
            /\ WF_vars(InactivityTimer) /\ WF_vars(RxWorkEnd)
            /\ SF_vars(RawSendScheduled)

-----------------------------------------------------------------------------
(* Properties.                                                              *)

(* The contexts. *)
Ctx ==
    [at_mode : {"AT", "DATA", "NULL"}, handler : BOOLEAN,
     handler_result : BOOLEAN, data_len : 0..SIZE_MAX,
     data_rb : Seq(Chars), quit_str_match : 0..Len(Terminator) - 1,
     null_match_count : 0..Len(Terminator) - 1, current : BOOLEAN,
     hung : BOOLEAN, handed : Seq(Chars),
     rsp : [to : {"nobody", "own", "other"}, ok : BOOLEAN]]

(* Every variable has its type: data_rb never holds more than its size,     *)
(* data_len fits size_t, and a match is always shorter than the terminator. *)
TypeOK ==
    /\ ctx \in Ctx /\ Len(ctx.data_rb) <= Capacity
    /\ rxWork \in BOOLEAN /\ timer \in BOOLEAN /\ sendWork \in BOOLEAN

(* While data mode lasts, what the handler accepted, the buffer and the     *)
(* part of a terminator held back are together exactly what the host sent:  *)
(* nothing is lost, doubled or reordered by a full buffer, a send after     *)
(* inactivity or a terminator that breaks off ("as-is").                    *)
DataAsIs ==
    ctx.at_mode = "DATA" =>
        input = ctx.handed \o ctx.data_rb \o QuitStr(ctx.quit_str_match)

(* #XDATAMODE: 0 is sent only if the handler accepted everything up to the  *)
(* terminator or the announced length, and -1 only if the service met an    *)
(* error of its own or its handler refused some of that: a send that failed *)
(* is not made good, and the bytes of the terminator are not counted.       *)
ResultTruthful ==
    (ctx.at_mode = "AT" /\ sessions > 0) =>
        LET l == Len(input) - Len(Terminator)
        IN  IF ctx.rsp.ok
            THEN IF asked > 0 THEN ctx.handed = input /\ Len(input) = asked
                              ELSE ctx.handed = SubSeq(input, 1, l)
            ELSE \/ erred
                 \/ Len(ctx.handed) < l
                 \/ Len(input) = asked /\ Len(ctx.handed) < asked

(* With <data_len>, data mode ends with exactly that many bytes and the     *)
(* terminator has no meaning; the counter that wraps when the last write    *)
(* fails is never the length of a live session.                             *)
LengthHonoured ==
    (ctx.at_mode = "DATA" /\ asked > 0) =>
        /\ ctx.data_len = asked - Len(input)
        /\ ctx.data_len > 0
        /\ ctx.quit_str_match = 0

(* Nothing of a session is left behind in AT mode, whatever send was still  *)
(* scheduled: the next session starts clean. *)
CleanExit ==
    ctx.at_mode = "AT" => /\ ctx.data_rb = <<>> /\ ctx.data_len = 0
                          /\ ctx.quit_str_match = 0 /\ ctx.null_match_count = 0
                          /\ ~ctx.handler /\ ctx.handler_result

EndsInTerminator(s) ==
    /\ Len(s) >= Len(Terminator)
    /\ SubSeq(s, Len(s) - Len(Terminator) + 1, Len(s)) = Terminator

(* A terminator sent without a pause ends data mode, and ends the dropping  *)
(* of data after a failure, unless a service's error falls into the middle  *)
(* of it.                                                                   *)
TerminatorExits ==
    (asked = 0 /\ ~split /\ EndsInTerminator(recent)) => ctx.at_mode = "AT"

(* Whatever fails while the bytes of a context are handled, the work queue  *)
(* goes on: after a failed send, further data is dropped.                   *)
KeepsWorking == ~ctx.hung

(* Buffered data does not stay in the buffer: without further bytes, the    *)
(* inactivity timer has them sent, or data mode has ended.                  *)
InactivitySends ==
    (ctx.at_mode = "DATA" /\ ctx.data_rb # <<>>)
        ~> (ctx.data_rb = <<>> \/ ctx.at_mode # "DATA")
=============================================================================
