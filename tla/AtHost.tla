------------------------------- MODULE AtHost -------------------------------
(***************************************************************************)
(* The AT host's single-context core (app/src/sm_at_host.c): reading and   *)
(* executing commands, the executing lock, the idle timer, buffered URCs,  *)
(* idle work, and the message queue that ties them together.               *)
(*                                                                         *)
(* The work items of sm_work_q run one after the other: reading the pipe   *)
(* (rx), AT host messages (host), a socket's poll work (poll), the end of  *)
(* a command that went on in the background (done).  Threads that send     *)
(* URCs and the idle timer's interrupt interleave with them.  A command is *)
(* "char" tokens and a terminating "term"; DataMode has what data mode     *)
(* does with its bytes.  out is the last thing the host got, or a mark     *)
(* (begin, exit, silent) of what happened since.  The pipe stays open here *)
(* (Contexts opens and closes it), but what is transmitted can fail.       *)
(***************************************************************************)
EXTENDS Integers, Sequences, FiniteSets, SequencesExt

CONSTANTS
    UrcCap,      \* URCs that fit urc_buf (CONFIG_SM_URC_BUFFER_SIZE)
    MsgqLen,     \* length of sm_at_host_msgq (10)
    Pipelining,  \* may further bytes arrive in the batch of a command
    MaxUrcs,     \* bound: URCs
    MaxTokens,   \* bound: tokens the host sends
    MaxPolls,    \* bound: times the socket gets data
    MaxSelects,  \* bound: times the URC channel is changed
    MaxFaults,   \* bound: failed transmissions and allocations of URCs
    MaxInputs    \* bound: all of these together

ASSUME AtHostAssumption ==
    /\ UrcCap \in Nat \ {0} /\ MsgqLen \in Nat \ {0}
    /\ Pipelining \in BOOLEAN
    /\ {MaxUrcs, MaxTokens, MaxPolls, MaxSelects, MaxInputs, MaxFaults} \subseteq Nat

VARIABLES
    started,         \* sm_work_q runs
    wq,              \* work items submitted to it
    msgs,            \* messages (URC or AT mode events) in sm_at_host_msgq
    pipe,            \* tokens received and not yet read
    dataMode,        \* at_mode = SM_DATA_MODE
    at_cmd_len,      \* 0, or 1 with part of a command in at_buf
    executing_lock,
    idle_timer,      \* idle_timer is running
    urc_buf,         \* URCs for the default context
    claimed,         \* how many of them send_urcs has claimed
    sending,         \* what it has still to transmit of the claimed memory
    buffered_urcs,   \* URCs for this context's pipe
    urc_ctx,         \* is this the context sm_at_host_get_urc_ctx returns
                     \* (or is there none: AT#XCMUXURC chose a bare channel)
    idle_work_list,  \* is the socket's idle work queued
    sock,            \* the socket: [unread: data to read, armed: poll_cb set
                     \* with POLLIN, revents, delayed_revents: POLLIN, dull:
                     \* poll_cb not set again as nothing could be read]
    pc,              \* where sm_work_q's thread is
    after,           \* where it goes on after flush_pipe_urcs
    ret,             \* where it goes on after the socket's poll work
    background,      \* a command goes on in the background
    urcPc,           \* where a thread is that sends a URC
    out,             \* what was last sent to the host, or a mark
    sent, sentTo,    \* URCs sent, for the default and for this context
    urcs,            \* URCs so far
    dropped,         \* URCs dropped with a full buffer
    lost,            \* URCs lost to a fault, or for want of a URC context
    tokens,          \* tokens so far
    polls,           \* socket events so far
    selects,         \* changes of the URC channel so far
    faults           \* failed transmissions and allocations so far

queueVars == <<started, wq, msgs>>
cmdVars   == <<pipe, dataMode, at_cmd_len, executing_lock, background>>
urcVars   == <<urc_buf, claimed, sending, buffered_urcs, urc_ctx, sent, sentTo, lost>>
sockVars  == <<idle_work_list, sock, ret>>
sendVars  == <<urcPc, urcs, dropped>>
envVars   == <<tokens, polls, selects, faults>>
vars == <<queueVars, cmdVars, idle_timer, urcVars, sockVars, pc, after,
          sendVars, out, envVars>>

MoreInput == tokens + urcs + polls + selects + faults < MaxInputs

(* Mutant: the executing lock is not looked at. *)
is_idleMutant == ~dataMode /\ ~idle_timer

is_idle == ~dataMode /\ executing_lock = 0 /\ ~idle_timer

-----------------------------------------------------------------------------
(* Submitting work.                                                         *)

Submit(q, w) == IF \E i \in DOMAIN q : q[i] = w THEN q ELSE Append(q, w)

(* k_msgq_put; a full queue is purged first. *)
Posted == IF msgs = MsgqLen THEN 1 ELSE msgs + 1

(* sm_at_host_event_notify, from sm_work_q. *)
notify == msgs' = Posted /\ wq' = Submit(wq, "host")

(* sm_at_host_event_notify, from anywhere; timer is what idle_timer becomes *)
(* otherwise.  Before sm_work_q runs, the idle timer tries again.           *)
notify_any(timer) ==
    /\ msgs' = Posted
    /\ wq' = IF started THEN Submit(wq, "host") ELSE wq
    /\ idle_timer' = (timer \/ ~started)

-----------------------------------------------------------------------------
(* The environment: the host, the network, threads that send URCs, timer.   *)

(* main() *)
StartWorkQueue ==
    /\ ~started
    /\ started' = TRUE
    /\ UNCHANGED <<wq, msgs, cmdVars, idle_timer, urcVars, sockVars, pc, after,
                   sendVars, out, envVars>>

(* Bytes arrive, and MODEM_PIPE_EVENT_RECEIVE_READY submits the receive     *)
(* work.  Without pipelining nothing follows a command in the batch the     *)
(* receive work reads with it.  (UartRx has bytes that come before          *)
(* sm_work_q runs.)                                                         *)
HostSends ==
    /\ started /\ tokens < MaxTokens /\ MoreInput
    /\ Pipelining \/ /\ pc \notin {"rx", "refuse", "error", "exec", "finish"}
                     /\ "term" \notin Range(pipe)
    /\ \E t \in {"char", "term"} : pipe' = Append(pipe, t)
    /\ tokens' = tokens + 1
    /\ wq' = Submit(wq, "rx")
    /\ UNCHANGED <<started, msgs, dataMode, at_cmd_len, executing_lock, background,
                   idle_timer, urcVars, sockVars, pc, after, sendVars, out, polls,
                   selects, faults>>

(* The socket gets data. *)
SocketEvent ==
    /\ started /\ polls < MaxPolls /\ MoreInput
    /\ polls' = polls + 1
    /\ sock' = [sock EXCEPT !.unread = TRUE]
    /\ UNCHANGED <<queueVars, cmdVars, idle_timer, urcVars, idle_work_list, ret, pc,
                   after, sendVars, out, tokens, selects, faults>>

(* poll_cb, once for every set_so_poll_cb. *)
PollCallback ==
    /\ sock.unread /\ sock.armed
    /\ sock' = [sock EXCEPT !.armed = FALSE, !.revents = TRUE]
    /\ wq' = Submit(wq, "poll")
    /\ UNCHANGED <<started, msgs, cmdVars, idle_timer, urcVars, idle_work_list, ret,
                   pc, after, sendVars, out, envVars>>

(* What a background command waits for has happened. *)
BackgroundReady ==
    /\ background
    /\ wq' = Submit(wq, "done")
    /\ wq' # wq
    /\ UNCHANGED <<started, msgs, cmdVars, idle_timer, urcVars, sockVars, pc, after,
                   sendVars, out, envVars>>

(* handle_at_xcmuxurc, for the command of another channel: the channel for  *)
(* URCs is one without a context, or this context's again.                  *)
SelectUrcChannel ==
    /\ started /\ pc = "none" /\ selects < MaxSelects /\ MoreInput
    /\ selects' = selects + 1
    /\ urc_ctx' = ~urc_ctx
    /\ idle_timer' = (idle_timer \/ ~urc_ctx)
    /\ UNCHANGED <<queueVars, cmdVars, urc_buf, claimed, sending, buffered_urcs, sent,
                   sentTo, lost, sockVars, pc, after, sendVars, out, tokens, polls,
                   faults>>

Fault == faults < MaxFaults /\ MoreInput /\ faults' = faults + 1

Unsent == {urc_buf[i] : i \in claimed + 1 .. Len(urc_buf)}

(* sm_at_send_internal of a URC for the default context: urc_buf.  After a  *)
(* reset, what is put overwrites memory that is still being transmitted.    *)
UrcPut ==
    /\ urcPc = "none" /\ urcs < MaxUrcs /\ MoreInput
    /\ urcs' = urcs + 1
    /\ \/ /\ urc_ctx /\ Len(urc_buf) < UrcCap
          /\ urc_buf' = Append(urc_buf, urcs + 1)
          /\ urcPc' = "check"
          /\ \E S \in SUBSET DOMAIN sending :
                /\ claimed > 0 => S = {}
                /\ sending' = [i \in DOMAIN sending |-> IF i \in S THEN 0 ELSE sending[i]]
                /\ dropped' = dropped \cup ({sending[i] : i \in S} \ {0})
          /\ UNCHANGED <<claimed, lost>>
       \/ /\ urc_ctx /\ Len(urc_buf) >= UrcCap
          /\ urc_buf' = <<>> /\ claimed' = 0
          /\ dropped' = dropped \cup {urcs + 1} \cup Unsent
          /\ UNCHANGED <<urcPc, sending, lost>>
       \/ /\ ~urc_ctx
          /\ urc_buf' = <<>> /\ claimed' = 0
          /\ lost' = lost \cup {urcs + 1} \cup Unsent
          /\ UNCHANGED <<urcPc, sending, dropped>>
    /\ UNCHANGED <<queueVars, cmdVars, idle_timer, buffered_urcs, urc_ctx, sent,
                   sentTo, sockVars, pc, after, out, envVars>>

(* ... or of one for this context: its own list, if there is memory. *)
UrcPutTo ==
    /\ urcPc = "none" /\ urcs < MaxUrcs /\ MoreInput
    /\ urcs' = urcs + 1
    /\ \/ /\ buffered_urcs' = Append(buffered_urcs, urcs + 1)
          /\ urcPc' = "check"
          /\ UNCHANGED <<lost, faults>>
       \/ /\ Fault
          /\ lost' = lost \cup {urcs + 1}
          /\ UNCHANGED <<buffered_urcs, urcPc>>
    /\ UNCHANGED <<queueVars, cmdVars, idle_timer, urc_buf, claimed, sending, urc_ctx,
                   sent, sentTo, sockVars, pc, after, dropped, out, tokens, polls,
                   selects>>

(* ... and then, if the context is idle, notify, or else have the idle      *)
(* timer try again.                                                         *)
UrcCheck ==
    /\ urcPc = "check"
    /\ urcPc' = IF is_idle THEN "notify" ELSE "arm"
    /\ UNCHANGED <<queueVars, cmdVars, idle_timer, urcVars, sockVars, pc, after,
                   urcs, dropped, out, envVars>>

UrcNotify ==
    /\ urcPc \in {"notify", "arm"}
    /\ urcPc' = "none"
    /\ IF urcPc = "notify" THEN notify_any(idle_timer)
                           ELSE idle_timer' = TRUE /\ UNCHANGED <<wq, msgs>>
    /\ UNCHANGED <<started, cmdVars, urcVars, sockVars, pc, after, urcs, dropped,
                   out, envVars>>

(* idle_timer_handler *)
IdleTimer ==
    /\ idle_timer
    /\ notify_any(FALSE)
    /\ UNCHANGED <<started, cmdVars, urcVars, sockVars, pc, after, sendVars, out,
                   envVars>>

-----------------------------------------------------------------------------
(* at_pipe_rx_work_fn                                                       *)

(* Takes work item w. *)
Dispatch(w) == started /\ pc = "none" /\ wq # <<>> /\ Head(wq) = w

(* Mutant: commands are read while one is executed. *)
RxStartMutant ==
    /\ Dispatch("rx")
    /\ wq' = Tail(wq)
    /\ pc' = "rx"
    /\ UNCHANGED <<started, msgs, cmdVars, idle_timer, urcVars, sockVars, after,
                   sendVars, out, envVars>>

RxStart ==
    /\ Dispatch("rx")
    /\ wq' = Tail(wq)
    /\ pc' = IF executing_lock > 0 THEN "none" ELSE "rx"
    /\ UNCHANGED <<started, msgs, cmdVars, idle_timer, urcVars, sockVars, after,
                   sendVars, out, envVars>>

RxEnd ==
    /\ pc = "rx" /\ pipe = <<>>
    /\ pc' = "none"
    /\ UNCHANGED <<queueVars, cmdVars, idle_timer, urcVars, sockVars, after,
                   sendVars, out, envVars>>

(* cmd_rx_handler of a character that does not end a command: it is part of *)
(* one, or not (before an "AT", or a backspace).                            *)
RxChar ==
    /\ pc = "rx" /\ pipe # <<>> /\ ~dataMode
    /\ Head(pipe) = "char" \/ at_cmd_len = 0
    /\ pipe' = Tail(pipe)
    /\ at_cmd_len' \in IF Head(pipe) = "char" THEN {0, 1} ELSE {0}
    /\ idle_timer' = TRUE
    /\ UNCHANGED <<queueVars, dataMode, executing_lock, background, urcVars,
                   sockVars, pc, after, sendVars, out, envVars>>

(* The end of a command: cmd_send up to nrf_modem_at_cmd, ... *)
RxCommand ==
    /\ pc = "rx" /\ pipe # <<>> /\ ~dataMode
    /\ Head(pipe) = "term" /\ at_cmd_len = 1
    /\ pipe' = Tail(pipe)
    /\ idle_timer' = TRUE
    /\ executing_lock' = executing_lock + 1
    /\ out' = "begin"
    /\ pc' = "exec"
    /\ UNCHANGED <<queueVars, dataMode, at_cmd_len, background, urcVars, sockVars,
                   after, sendVars, envVars>>

(* ... unless its syntax is wrong or it has no place in at_buf: it is       *)
(* ignored, or refused.                                                     *)
RxInvalid ==
    /\ pc = "rx" /\ pipe # <<>> /\ ~dataMode /\ at_cmd_len = 1
    /\ pipe' = Tail(pipe)
    /\ idle_timer' = TRUE
    /\ pc' \in IF Head(pipe) = "term" THEN {"finish", "refuse"} ELSE {"refuse"}
    /\ UNCHANGED <<queueVars, dataMode, at_cmd_len, executing_lock, background,
                   urcVars, sockVars, after, sendVars, out, envVars>>

(* What follows an is_idle check: rsp_send, of an error, of #XDATAMODE or   *)
(* of received data's header and line end, and data_send first send the     *)
(* URCs if the context is idle, the idle timer expired and nothing locks.   *)
Sending == [refuse |-> "error", exit |-> "xdatamode", header |-> "headerSend",
            data |-> "dataSend", crlf |-> "crlfSend"]

rsp_send ==
    /\ pc \in DOMAIN Sending
    /\ IF is_idle THEN pc' = "flush" /\ after' = Sending[pc]
                  ELSE pc' = Sending[pc] /\ UNCHANGED after
    /\ UNCHANGED <<queueVars, cmdVars, idle_timer, urcVars, sockVars, sendVars, out,
                   envVars>>

RefuseSend ==
    /\ pc = "error"
    /\ out' = "rsp"
    /\ pc' = "finish"
    /\ UNCHANGED <<queueVars, cmdVars, idle_timer, urcVars, sockVars, after,
                   sendVars, envVars>>

(* The command is answered, here or by its handler, and may have entered    *)
(* data mode.  Or nothing is sent: a transmission that fails is only        *)
(* logged, and AT#XMODEMRESET answers when the modem library runs again.    *)
CommandAnswered ==
    /\ pc = "exec"
    /\ \/ /\ out' \in {"rsp", "silent"}
          /\ UNCHANGED dataMode
       \/ /\ out' = "connect"
          /\ dataMode' = TRUE
    /\ executing_lock' = executing_lock - 1
    /\ pc' = "finish"
    /\ UNCHANGED <<queueVars, pipe, at_cmd_len, background, idle_timer, urcVars,
                   sockVars, after, sendVars, envVars>>

(* AT_COMMAND_CONTINUE_RET *)
CommandContinues ==
    /\ pc = "exec" /\ ~background
    /\ background' = TRUE
    /\ pc' = "finish"
    /\ UNCHANGED <<queueVars, pipe, dataMode, at_cmd_len, executing_lock,
                   idle_timer, urcVars, sockVars, after, sendVars, out, envVars>>

(* Mutant: the timer is stopped and URCs are not looked for. *)
CommandFinishMutant ==
    /\ pc = "finish"
    /\ at_cmd_len' = 0
    /\ idle_timer' = FALSE
    /\ pc' = "rx"
    /\ UNCHANGED <<queueVars, pipe, dataMode, executing_lock, background, urcVars,
                   sockVars, after, sendVars, out, envVars>>

(* cmd_rx_handler after cmd_send. *)
CommandFinish ==
    /\ pc = "finish"
    /\ at_cmd_len' = 0
    /\ idle_timer' = FALSE
    /\ notify
    /\ pc' = "rx"
    /\ UNCHANGED <<started, pipe, dataMode, executing_lock, background, urcVars,
                   sockVars, after, sendVars, out, envVars>>

(* Mutant: the receive work is not submitted again. *)
cmd_doneMutant(q) ==
    /\ executing_lock' = executing_lock - 1
    /\ IF executing_lock = 1
       THEN msgs' = Posted /\ wq' = Submit(q, "host")
       ELSE UNCHANGED msgs /\ wq' = q

(* sm_at_host_cmd_done: the last one goes on with URCs and commands. *)
cmd_done(q) ==
    /\ executing_lock' = executing_lock - 1
    /\ IF executing_lock = 1
       THEN msgs' = Posted /\ wq' = Submit(Submit(q, "host"), "rx")
       ELSE UNCHANGED msgs /\ wq' = q

(* A background command ends and is answered: AT+CGDATA that finds no       *)
(* network or PDP context.  (If it does, the pipe leaves the AT host.)      *)
CommandDone ==
    /\ Dispatch("done")
    /\ out' = "rsp"
    /\ background' = FALSE
    /\ cmd_done(Tail(wq))
    /\ UNCHANGED <<started, pipe, dataMode, at_cmd_len, idle_timer, urcVars,
                   sockVars, pc, after, sendVars, envVars>>

(* Data in data mode. *)
RxData ==
    /\ pc = "rx" /\ pipe # <<>> /\ dataMode /\ Head(pipe) = "char"
    /\ pipe' = Tail(pipe)
    /\ UNCHANGED <<queueVars, dataMode, at_cmd_len, executing_lock, background,
                   idle_timer, urcVars, sockVars, pc, after, sendVars, out,
                   envVars>>

(* The terminator in data mode: exit_datamode. *)
ExitDataMode ==
    /\ pc = "rx" /\ pipe # <<>> /\ dataMode /\ Head(pipe) = "term"
    /\ pipe' = Tail(pipe)
    /\ dataMode' = FALSE
    /\ out' = "exit"
    /\ pc' = "exit"
    /\ UNCHANGED <<queueVars, at_cmd_len, executing_lock, background, idle_timer,
                   urcVars, sockVars, after, sendVars, envVars>>

(* #XDATAMODE, and SM_EVENT_AT_MODE. *)
XDataMode ==
    /\ pc = "xdatamode"
    /\ out' = "rsp"
    /\ notify
    /\ pc' = "rx"
    /\ UNCHANGED <<started, cmdVars, idle_timer, urcVars, sockVars, after, sendVars,
                   envVars>>

-----------------------------------------------------------------------------
(* sm_at_host_work_fn, idle_work and flush_pipe_urcs                        *)

HostStart ==
    /\ Dispatch("host")
    /\ wq' = Tail(wq)
    /\ pc' = "host"
    /\ UNCHANGED <<started, msgs, cmdVars, idle_timer, urcVars, sockVars, after,
                   sendVars, out, envVars>>

(* A message: idle_work, or the idle timer tries again. *)
HostMessage ==
    /\ pc = "host" /\ msgs > 0
    /\ msgs' = msgs - 1
    /\ \/ is_idle /\ pc' = "flush" /\ after' = "works" /\ UNCHANGED idle_timer
       \/ ~is_idle /\ idle_timer' = TRUE /\ UNCHANGED <<pc, after>>
    /\ UNCHANGED <<started, wq, cmdVars, urcVars, sockVars, sendVars, out, envVars>>

HostEnd ==
    /\ pc = "host" /\ msgs = 0
    /\ pc' = "none"
    /\ UNCHANGED <<queueVars, cmdVars, idle_timer, urcVars, sockVars, after,
                   sendVars, out, envVars>>

(* send_urcs, if URCs are for this context: claims them, ... *)
FlushClaim ==
    /\ pc = "flush"
    /\ \/ /\ urc_ctx /\ urc_buf # <<>>
          /\ claimed' = Len(urc_buf)
          /\ sending' = urc_buf
          /\ pc' = "flushSend"
       \/ /\ ~urc_ctx \/ urc_buf = <<>>
          /\ pc' = "flushList"
          /\ UNCHANGED <<claimed, sending>>
    /\ UNCHANGED <<queueVars, cmdVars, idle_timer, urc_buf, buffered_urcs,
                   urc_ctx, sent, sentTo, lost, sockVars, after, sendVars, out,
                   envVars>>

(* ... transmits them, which may block (UartTx), or fail after a part or    *)
(* with no pipe: what is left of the claimed memory is lost, ...            *)
FlushSend ==
    /\ pc = "flushSend" /\ sending # <<>>
    /\ \/ /\ out' = "urc"
          /\ sent' = sent \cup {Head(sending)}
          /\ sending' = Tail(sending)
          /\ UNCHANGED <<lost, faults>>
       \/ /\ Fault
          /\ out' = "urc"
          /\ lost' = lost \cup (Range(sending) \ {0})
          /\ sending' = <<>>
          /\ UNCHANGED sent
    /\ UNCHANGED <<queueVars, cmdVars, idle_timer, urc_buf, claimed, buffered_urcs,
                   urc_ctx, sentTo, sockVars, pc, after, sendVars, tokens, polls,
                   selects>>

(* Mutant: all that is buffered is removed. *)
FlushFinishMutant ==
    /\ pc = "flushSend" /\ sending = <<>>
    /\ urc_buf' = <<>>
    /\ claimed' = 0
    /\ pc' = "flush"
    /\ UNCHANGED <<queueVars, cmdVars, idle_timer, sending, buffered_urcs, urc_ctx, sent,
                   sentTo, lost, sockVars, after, sendVars, out, envVars>>

(* ... and removes what it claimed; ring_buf_get_finish does nothing if the *)
(* buffer was reset meanwhile.                                              *)
FlushFinish ==
    /\ pc = "flushSend" /\ sending = <<>>
    /\ urc_buf' = SubSeq(urc_buf, claimed + 1, Len(urc_buf))
    /\ claimed' = 0
    /\ pc' = "flush"
    /\ UNCHANGED <<queueVars, cmdVars, idle_timer, sending, buffered_urcs, urc_ctx, sent,
                   sentTo, lost, sockVars, after, sendVars, out, envVars>>

(* The URCs for this context, one by one; one that is transmitted in part   *)
(* is freed as well.                                                        *)
FlushList ==
    /\ pc = "flushList"
    /\ \/ /\ buffered_urcs # <<>>
          /\ buffered_urcs' = Tail(buffered_urcs)
          /\ \/ /\ out' = "urc"
                /\ sentTo' = sentTo \cup {Head(buffered_urcs)}
                /\ UNCHANGED <<lost, faults>>
             \/ /\ Fault
                /\ out' = "urc"
                /\ lost' = lost \cup {Head(buffered_urcs)}
                /\ UNCHANGED sentTo
          /\ UNCHANGED <<pc, after>>
       \/ /\ buffered_urcs = <<>>
          /\ pc' = after /\ after' = "none"
          /\ UNCHANGED <<out, sentTo, lost, buffered_urcs, faults>>
    /\ UNCHANGED <<queueVars, cmdVars, idle_timer, urc_buf, claimed, sending, urc_ctx,
                   sent, sockVars, sendVars, tokens, polls, selects>>

(* The rest of idle_work: sm_at_socket_poll_idle_handler, which queues      *)
(* itself again, and so is called again at once, until the context is idle. *)
(* Events that came while it was not are polled for again.                  *)
IdleWorks ==
    /\ pc = "works"
    /\ \/ /\ idle_work_list /\ is_idle
          /\ idle_work_list' = FALSE
          /\ pc' = "poll" /\ ret' = "works"
       \/ /\ ~idle_work_list
          /\ pc' = "host" /\ ret' = "none"
          /\ UNCHANGED idle_work_list
    /\ UNCHANGED <<queueVars, cmdVars, idle_timer, urcVars, sock, after, sendVars,
                   out, envVars>>

-----------------------------------------------------------------------------
(* A socket's received data: sm_at_socket_poll_work_handler, auto_reception *)
(* and do_recv, under the executing lock.                                   *)

PollStart ==
    /\ Dispatch("poll")
    /\ wq' = Tail(wq)
    /\ pc' = "poll" /\ ret' = "none"
    /\ UNCHANGED <<started, msgs, cmdVars, idle_timer, urcVars, idle_work_list,
                   sock, after, sendVars, out, envVars>>

(* Mutant: poll_cb is not set for the events that waited. *)
PollWorkMutant ==
    /\ pc = "poll"
    /\ \/ /\ ~is_idle
          /\ sock' = [sock EXCEPT !.revents = FALSE,
                                  !.delayed_revents = @ \/ sock.revents]
          /\ pc' = "queue"
       \/ /\ is_idle /\ sock.delayed_revents
          /\ sock' = [sock EXCEPT !.revents = FALSE, !.delayed_revents = FALSE]
          /\ pc' = ret
       \/ /\ is_idle /\ ~sock.delayed_revents
          /\ sock' = [sock EXCEPT !.revents = FALSE]
          /\ pc' = IF sock.revents THEN "lock" ELSE ret
    /\ UNCHANGED <<queueVars, cmdVars, idle_timer, urcVars, idle_work_list, ret,
                   after, sendVars, out, envVars>>

(* Not idle: the events wait.  Idle with events that waited: poll_cb tells  *)
(* which ones are still valid.  Otherwise the socket is read.               *)
PollWork ==
    /\ pc = "poll"
    /\ \/ /\ ~is_idle
          /\ sock' = [sock EXCEPT !.revents = FALSE,
                                  !.delayed_revents = @ \/ sock.revents]
          /\ pc' = "queue"
       \/ /\ is_idle /\ sock.delayed_revents
          /\ sock' = [sock EXCEPT !.revents = FALSE, !.delayed_revents = FALSE,
                                  !.armed = TRUE]
          /\ pc' = ret
       \/ /\ is_idle /\ ~sock.delayed_revents
          /\ sock' = [sock EXCEPT !.revents = FALSE]
          /\ pc' = IF sock.revents THEN "lock" ELSE ret
    /\ UNCHANGED <<queueVars, cmdVars, idle_timer, urcVars, idle_work_list, ret,
                   after, sendVars, out, envVars>>

(* sm_at_host_queue_idle_work *)
PollQueue ==
    /\ pc = "queue"
    /\ idle_work_list' = TRUE
    /\ IF is_idle THEN notify ELSE UNCHANGED <<wq, msgs>>
    /\ pc' = ret
    /\ UNCHANGED <<started, cmdVars, idle_timer, urcVars, sock, ret, after,
                   sendVars, out, envVars>>

(* sm_at_host_lock_ctx *)
Lock ==
    /\ pc = "lock"
    /\ IF is_idle THEN pc' = "flush" /\ after' = "locked"
                  ELSE pc' = "locked" /\ UNCHANGED after
    /\ UNCHANGED <<queueVars, cmdVars, idle_timer, urcVars, sockVars, sendVars, out,
                   envVars>>

Locked ==
    /\ pc = "locked"
    /\ executing_lock' = executing_lock + 1
    /\ pc' = "recv"
    /\ UNCHANGED <<queueVars, pipe, dataMode, at_cmd_len, background, idle_timer,
                   urcVars, sockVars, after, sendVars, out, envVars>>

(* do_recv under a lock of its own: #XRECV ... *)
RecvStart ==
    /\ pc = "recv"
    /\ sock' = [sock EXCEPT !.unread = FALSE]
    /\ executing_lock' = executing_lock + 1
    /\ pc' = "header"
    /\ UNCHANGED <<queueVars, pipe, dataMode, at_cmd_len, background, idle_timer,
                   urcVars, idle_work_list, ret, after, sendVars, out, envVars>>

RecvHeader ==
    /\ pc = "headerSend"
    /\ out' = "header"
    /\ pc' = "data"
    /\ UNCHANGED <<queueVars, cmdVars, idle_timer, urcVars, sockVars, after,
                   sendVars, envVars>>

(* ... and the data, and POLLIN again. *)
RecvData ==
    /\ pc = "dataSend"
    /\ cmd_done(wq)
    /\ out' = "data"
    /\ sock' = [sock EXCEPT !.armed = TRUE]
    /\ pc' = "crlf"
    /\ UNCHANGED <<started, pipe, dataMode, at_cmd_len, background, idle_timer,
                   urcVars, idle_work_list, ret, after, sendVars, envVars>>

(* auto_reception: the line's end, and sm_at_host_unlock. *)
RecvEnd ==
    /\ pc = "crlfSend"
    /\ cmd_done(wq)
    /\ out' = "crlf"
    /\ pc' = ret
    /\ UNCHANGED <<started, pipe, dataMode, at_cmd_len, background, idle_timer,
                   urcVars, sockVars, after, sendVars, envVars>>

(* Nothing is read: an error, or a datagram of length zero, for which the   *)
(* line's end is sent.  Either way POLLIN is not set again.                 *)
RecvFails ==
    /\ pc = "recv"
    /\ sock' = [sock EXCEPT !.unread = FALSE, !.dull = TRUE]
    /\ \/ /\ cmd_done(wq)
          /\ pc' = ret
       \/ /\ pc' = "crlf"
          /\ UNCHANGED <<wq, msgs, executing_lock>>
    /\ UNCHANGED <<started, pipe, dataMode, at_cmd_len, background, idle_timer,
                   urcVars, idle_work_list, ret, after, sendVars, out, envVars>>

-----------------------------------------------------------------------------
Init ==
    /\ started = FALSE /\ wq = <<>> /\ msgs = 0
    /\ pipe = <<>> /\ dataMode = FALSE /\ at_cmd_len = 0 /\ executing_lock = 0
    /\ background = FALSE /\ idle_timer = FALSE
    /\ urc_buf = <<>> /\ claimed = 0 /\ sending = <<>> /\ buffered_urcs = <<>>
    /\ urc_ctx = TRUE /\ idle_work_list = FALSE
    /\ sock = [unread |-> FALSE, armed |-> TRUE, revents |-> FALSE,
               delayed_revents |-> FALSE, dull |-> FALSE]
    /\ pc = "none" /\ after = "none" /\ ret = "none"
    /\ urcPc = "none" /\ out = "none" /\ sent = {} /\ sentTo = {} /\ urcs = 0
    /\ dropped = {} /\ lost = {}
    /\ tokens = 0 /\ polls = 0 /\ selects = 0 /\ faults = 0

Read == \/ RxStart \/ RxEnd \/ RxChar \/ RxCommand \/ RxInvalid \/ rsp_send
        \/ RefuseSend \/ CommandAnswered \/ CommandContinues \/ CommandFinish
        \/ CommandDone \/ RxData \/ ExitDataMode \/ XDataMode
Work == \/ HostStart \/ HostMessage \/ HostEnd \/ FlushClaim \/ FlushSend
        \/ FlushFinish \/ FlushList \/ IdleWorks
Poll == \/ PollStart \/ PollWork \/ PollQueue \/ Lock \/ Locked \/ RecvStart
        \/ RecvHeader \/ RecvData \/ RecvEnd \/ RecvFails
Thread == Read \/ Work \/ Poll
UrcSender == UrcCheck \/ UrcNotify

Next == \/ StartWorkQueue \/ HostSends \/ SocketEvent \/ PollCallback
        \/ BackgroundReady \/ SelectUrcChannel
        \/ UrcPut \/ UrcPutTo \/ UrcSender \/ IdleTimer \/ Thread

Spec == Init /\ [][Next]_vars

(* sm_work_q is started and scheduled, timers expire, a thread goes on with *)
(* the URC it sends, a background command ends, and the modem library calls *)
(* back.  The idle timer (100 ms) does not for ever expire while            *)
(* sm_at_host_work_fn handles the message of the time before.               *)
FairSpec == /\ Spec
            /\ WF_vars(StartWorkQueue) /\ WF_vars(Thread) /\ WF_vars(UrcSender)
            /\ WF_vars(IdleTimer) /\ WF_vars(BackgroundReady)
            /\ WF_vars(PollCallback) /\ []<>(pc # "host")

-----------------------------------------------------------------------------
(* Properties.                                                              *)

TypeQueue ==
    /\ started \in BOOLEAN /\ wq \in Seq({"rx", "host", "poll", "done"})
    /\ Len(wq) <= 4 /\ msgs \in 0..MsgqLen

TypeCommand ==
    /\ pipe \in Seq({"char", "term"}) /\ dataMode \in BOOLEAN
    /\ at_cmd_len \in {0, 1} /\ executing_lock \in 0..3 /\ idle_timer \in BOOLEAN
    /\ background \in BOOLEAN

TypeUrcs ==
    /\ urc_buf \in Seq(1..MaxUrcs) /\ Len(urc_buf) <= UrcCap
    /\ claimed \in 0..Len(urc_buf) /\ buffered_urcs \in Seq(1..MaxUrcs)
    /\ sending \in Seq(0..MaxUrcs) /\ urc_ctx \in BOOLEAN
    /\ urcPc \in {"none", "check", "notify", "arm"}

TypeSocket ==
    /\ sock \in [unread : BOOLEAN, armed : BOOLEAN, revents : BOOLEAN,
                delayed_revents : BOOLEAN, dull : BOOLEAN]
    /\ idle_work_list \in BOOLEAN

(* Every variable has its type: no work item is submitted twice, urc_buf    *)
(* and sm_at_host_msgq stay within their size, and executing_lock is never  *)
(* released more often than taken.                                          *)
TypeOK == TypeQueue /\ TypeCommand /\ TypeUrcs /\ TypeSocket

(* A block of received data reaches the host in one piece: header, data and *)
(* line end with no URC and no response in between (sm_at_host_lock).       *)
BlocksWhole ==
    [][/\ out = "header" => out' \in {"header", "data"}
       /\ out = "data" => out' \in {"data", "crlf"}]_vars

(* From the start of a command to its response, also if it goes on in the   *)
(* background, the host gets nothing else and no other command starts; and  *)
(* nothing but data while data mode lasts.  (A command may stay without a   *)
(* response here: silent.)                                                  *)
CommandsUndisturbed ==
    [][/\ (pc # "exec" /\ pc' = "exec") => ~background
       /\ out = "begin" => out' \in {"begin", "rsp", "connect", "silent"}
       /\ out = "connect" => out' \in {"connect", "exit"}]_vars

(* Every URC is sent once, still buffered, or not delivered, and those of   *)
(* urc_buf are sent in their order, also when it is reset or put to while   *)
(* send_urcs transmits from it.  One is dropped only if urc_buf overflows,  *)
(* and lost only if a transmission or an allocation failed or the URC       *)
(* channel was changed; and then it is not sent or buffered any more.       *)
UrcsAccounted ==
    /\ (sent \cup sentTo \cup dropped \cup lost \cup Range(urc_buf)
          \cup Range(sending) \cup Range(buffered_urcs)) \ {0} = 1..urcs
    /\ \A n \in Range(sending) \cup Range(SubSeq(urc_buf, claimed + 1, Len(urc_buf))) :
         n = 0 \/ \A m \in sent : m < n
    /\ (sent \cup sentTo) \cap (dropped \cup lost) = {}
    /\ lost \cap (dropped \cup Unsent \cup Range(buffered_urcs)) = {}
    /\ dropped # {} => urcs > UrcCap
    /\ lost # {} => faults > 0 \/ selects > 0

(* Unless data mode lasts for ever, no URC stays behind: whatever was going *)
(* on when it came, some message or timer has it sent in the end.  Those of *)
(* urc_buf wait while there is no URC context, but go out when there is one *)
(* again.                                                                   *)
UrcsDelivered ==
    LET waiting == (urc_ctx /\ urc_buf # <<>>) \/ buffered_urcs # <<>>
    IN  []<>~dataMode => (waiting ~> ~waiting)

(* All that was received is read in the end, also what came while a command *)
(* went on in the background, when the receive work does nothing.           *)
InputRead == (pipe # <<>>) ~> (pipe = <<>>)

(* A socket's data is read in the end, also if its event came while the     *)
(* context was not idle and waited on idle_work_list, with no poll_cb set.  *)
(* That does not hold any more once a receive got nothing: then POLLIN      *)
(* stays off until the host reads itself (Sockets), although do_recvfrom    *)
(* takes a datagram of length zero for a normal case.                       *)
SocketRead == []<>~dataMode => (sock.unread ~> ~sock.unread \/ sock.dull)
=============================================================================
