-------------------------------- MODULE Coap --------------------------------
(***************************************************************************)
(* The CoAP client (app/src/sm_at_coap.c): one request at a time, on a     *)
(* socket that is open.  The thread of the CoAP library asks for the       *)
(* blocks of an upload, which the host sends in data mode, and calls back  *)
(* with the blocks of the response, which are sent to the host or, in      *)
(* manual mode, wait until it pulls them.  sm_work_q and that thread hand  *)
(* blocks over by semaphores, and each waits for a limited time.           *)
(*                                                                         *)
(* The library is external: it asks for the next block when the server has *)
(* the one before, calls back with each block of the response, with an     *)
(* error when it gives up, and not while a callback is under way.  Its     *)
(* thread outranks sm_work_q (CONFIG_COAP_CLIENT_THREAD_PRIORITY is 0), so *)
(* a callback that does not wait is one step for sm_work_q: were it not so,*)
(* DATAMODE_EXIT could reduce payload_len in the middle of coap_payload_cb.*)
(***************************************************************************)
EXTENDS Integers, Sequences

CONSTANTS Block,         \* CONFIG_COAP_CLIENT_BLOCK_SIZE, in units
          PayloadLens,   \* lengths of the payload that the host announces
          MaxCmds,       \* requests of the host
          MaxWire        \* blocks of the response

ASSUME CoapAssumption ==
    /\ Block \in Nat \ {0} /\ PayloadLens \subseteq Nat
    /\ MaxCmds \in Nat /\ MaxWire \in Nat

VARIABLES req,    \* coap_pending_req, and what the two threads do with it
          mode,   \* the AT channel: "at", "data", or "null": data mode is over
                  \* for the handler, and what the host sends is dropped
          cmds, wire

vars == <<req, mode, cmds, wire>>

(* struct coap_request.  len, sent: payload_len, payload_sent; staging holds *)
(* numbered units; ready, consumed, rxc: the semaphores; rx: rx_buf_filled.  *)
(* lib: what the library does with it: "none", "up" (blocks of the upload    *)
(* are left) or "resp"; cb: where its thread is in a callback: "payload"     *)
(* waits for ready, "pull" for rxc, with last_block.                         *)
(* pc: where sm_work_q is: "staged" waits for consumed with `rest` units of  *)
(* what the host sent, "give" is about to give rxc, "cancel" waits for the   *)
(* library.  given: the length of data mode; host: units the host sent.      *)
(* History: owed, the #XCOAPCSTAT that are due; resp and bytes, units of the *)
(* response that came and that the host has; untrue: see RequestSettled;     *)
(* dangling: the request was closed while sm_work_q was at work with it.     *)
NoCoap == [on |-> FALSE, len |-> 0, sent |-> 0, staging |-> <<>>, started |-> FALSE,
           aborted |-> FALSE, ready |-> FALSE, consumed |-> FALSE, rxc |-> FALSE,
           manual |-> FALSE, rx |-> 0, lib |-> "none", cb |-> "idle", last |-> FALSE,
           pc |-> "idle", rest |-> 0, given |-> 0, host |-> 0,
           owed |-> 0, resp |-> 0, bytes |-> 0, untrue |-> FALSE, dangling |-> FALSE]

alloc_request(len, manual) ==
    [NoCoap EXCEPT !.on = TRUE, !.len = len, !.given = len, !.manual = manual, !.owed = 1]

Least(a, b) == IF a < b THEN a ELSE b

-----------------------------------------------------------------------------
(* The end of a request: #XCOAPCSTAT, and it is freed.                      *)

coap_close_request(q) ==
    [NoCoap EXCEPT !.pc = q.pc, !.owed = q.owed, !.untrue = q.untrue,
                   !.dangling = q.pc \in {"staged", "give"}]
coap_finish_request(q) ==
    coap_close_request([q EXCEPT !.owed = @ - 1, !.untrue = @ \/ q.bytes # q.resp])
(* Mutant: the request stays when the library is done with it. *)
FailMutant(q) == [q EXCEPT !.lib = "none", !.cb = "idle"]

coap_fail_request(q) == coap_close_request([q EXCEPT !.owed = @ - 1])

-----------------------------------------------------------------------------
(* The upload.                                                              *)

(* The block that is ready goes to the library. *)
HandOver(q) ==
    LET n == Len(q.staging)
        last == q.sent + n >= q.len
    IN  [q EXCEPT !.sent = @ + n, !.ready = FALSE, !.cb = "idle",
                  !.consumed = @ \/ ~last,
                  !.lib = IF last THEN "resp" ELSE "up",
                  !.untrue = @ \/ q.staging # [i \in 1..n |-> q.sent + i]]

(* coap_payload_cb, once the staging buffer is ready; an error ends the     *)
(* request.  With all handed over (lib = "resp") the library may ask again  *)
(* for every block of the response: it gets the last block, and nothing     *)
(* changes.                                                                 *)
coap_payload_cb(q) ==
    IF q.aborted THEN coap_fail_request([q EXCEPT !.cb = "idle"]) ELSE HandOver(q)

(* coap_start_request: coap_client_req may fail, and calls coap_payload_cb  *)
(* at once for the first block of a large payload.  A set of outcomes.      *)
coap_start_request(q) ==
    LET r == [q EXCEPT !.started = TRUE]
    IN  {coap_fail_request([r EXCEPT !.pc = "idle"]),
         IF q.len <= Block THEN [r EXCEPT !.lib = "resp", !.sent = q.len]
         ELSE coap_payload_cb(r)}

(* DATAMODE_EXIT: a small payload is sent, a large one that was cut short   *)
(* goes on with what there is.                                              *)
DatamodeExit(q) ==
    LET n == Len(q.staging)
        cut == [q EXCEPT !.ready = TRUE, !.len = IF n > 0 THEN q.sent + n ELSE @,
                         !.aborted = @ \/ n = 0]
    IN  CASE ~q.on -> {q}
          [] q.on /\ q.len <= Block ->
                IF n > 0 THEN coap_start_request([q EXCEPT !.len = n]) ELSE {coap_fail_request(q)}
          [] q.on /\ q.len > Block /\ ~q.started -> coap_start_request(cut)
          [] OTHER -> {IF q.sent + n < q.len THEN cut ELSE q}

(* Mutant: the space that is left in the staging buffer is not looked at. *)
TurnMutant(q, n) ==
    LET r == [q EXCEPT !.staging = @ \o [i \in 1..n |-> q.host + i], !.host = @ + n,
                       !.rest = 0, !.ready = TRUE]
    IN  IF q.started THEN {r} ELSE coap_start_request(r)

(* coap_datamode_send_block, the first turn of its loop for n units of the  *)
(* host: a full or last block is made ready, and all but the last waited    *)
(* for.                                                                     *)
Turn(q, n) ==
    LET k == Least(n, Block - Len(q.staging))
        r == [q EXCEPT !.staging = @ \o [i \in 1..k |-> q.host + i], !.host = @ + k,
                       !.rest = n - k]
        last == q.sent + Len(r.staging) >= q.len
        full == Len(r.staging) = Block
        given == [r EXCEPT !.ready = TRUE]
        begun == IF q.started THEN {given} ELSE coap_start_request(given)
    IN  CASE full /\ ~last -> {[x EXCEPT !.pc = IF x.on THEN "staged" ELSE "idle"] : x \in begun}
          [] last -> begun
          [] OTHER -> {r}

(* coap_datamode_callback, DATAMODE_SEND of n units. *)
DatamodeSend(q, n) ==
    CASE ~q.on -> {q}
      [] q.on /\ q.len <= Block ->
            {[q EXCEPT !.staging = @ \o [i \in 1..n |-> q.host + i], !.host = @ + n]}
      [] OTHER -> Turn(q, n)

(* ... goes on when coap_payload_cb has the block, ... *)
Consumed(q) ==
    LET r == [q EXCEPT !.consumed = FALSE, !.staging = <<>>, !.pc = "idle"]
    IN  IF q.rest = 0 THEN {r} ELSE Turn(r, q.rest)

(* Mutant: what was received goes as the whole payload. *)
ConsumedTimeoutMutant(q) == [q EXCEPT !.pc = "idle", !.rest = 0]

(* ... and gives up if it has not in time. *)
ConsumedTimeout(q) == [q EXCEPT !.aborted = TRUE, !.pc = "idle", !.rest = 0]

-----------------------------------------------------------------------------
(* The response.                                                            *)

(* coap_callback with n units of the response; `last` ends it.  The buffer  *)
(* of manual mode holds no more than a block.                               *)
coap_callback(q, n, last) ==
    LET r == [q EXCEPT !.resp = @ + n, !.bytes = IF q.manual THEN @ ELSE @ + n]
    IN  CASE n > Block /\ q.manual -> coap_fail_request(r)
          [] n \in 1..Block /\ q.manual -> [r EXCEPT !.rx = n, !.cb = "pull", !.last = last]
          [] (n = 0 \/ ~q.manual) /\ last -> coap_finish_request(r)
          [] OTHER -> r

(* ... goes on when the host has pulled the block. *)
Pulled(q) ==
    LET r == [q EXCEPT !.rxc = FALSE, !.cb = "idle"]
    IN  IF q.last THEN coap_finish_request(r) ELSE r

(* Mutant: a block of which a part was pulled is given back. *)
DataMutant(q, max) ==
    LET k == Least(max, q.rx)
    IN  [q EXCEPT !.bytes = @ + k, !.rx = @ - k, !.pc = IF k > 0 THEN "give" ELSE @]

(* AT#XCOAPCDATA, of at most max units; a block that is drained is given    *)
(* back after the mutex is released.                                        *)
handle_at_coap_data(q, max) ==
    LET k == Least(max, q.rx)
    IN  [q EXCEPT !.bytes = @ + k, !.rx = @ - k,
                  !.pc = IF k > 0 /\ k = q.rx THEN "give" ELSE @]

-----------------------------------------------------------------------------
(* The host.                                                                *)

(* sm_work_q is in the middle of nothing, and the channel takes commands. *)
Idle == req.pc = "idle"
Accepts == Idle /\ mode = "at"
Cmd == Accepts /\ ~req.on /\ cmds < MaxCmds /\ cmds' = cmds + 1 /\ UNCHANGED wire
Step == UNCHANGED <<cmds, wire>>

(* AT#XCOAPCREQ: with a payload data mode is entered first. *)
CoapRequest ==
    \E len \in PayloadLens, manual \in BOOLEAN :
        /\ Cmd
        /\ \/ len > 0 /\ req' = alloc_request(len, manual) /\ mode' = "data"
           \/ len = 0 /\ req' \in coap_start_request(alloc_request(len, manual)) /\ mode' = mode

(* A wrong parameter, or no memory: what was allocated is freed, without    *)
(* #XCOAPCSTAT.                                                             *)
CoapRefused ==
    /\ Cmd /\ UNCHANGED mode
    /\ req' = coap_close_request([alloc_request(0, FALSE) EXCEPT !.owed = 0])

(* What a DATAMODE_SEND that ends with request x means for data mode: a     *)
(* request that is not there ends it; its length reached, it exits.         *)
AfterSend(x) ==
    CASE x.pc = "staged" -> req' = x /\ mode' = mode
      [] x.pc # "staged" /\ ~x.on -> req' = x /\ mode' = "null"
      [] x.pc # "staged" /\ x.on /\ x.host = x.given ->
            req' \in DatamodeExit(x) /\ mode' = "at"
      [] OTHER -> req' = x /\ mode' = mode

(* n units of the payload. *)
CoapDataModeSend ==
    /\ Idle /\ mode = "data"
    /\ \E n \in 1..(IF req.on THEN req.given - req.host ELSE 1) :
          \E x \in DatamodeSend(req, n) : AfterSend(x)
    /\ Step

(* exit_datamode, once the rest of what the host announced has come. *)
DataModeExit == Idle /\ mode = "null" /\ mode' = "at" /\ req' = req /\ Step

(* sm_work_q waits in coap_datamode_send_block. *)
BlockConsumed ==
    /\ req.pc = "staged" /\ req.on /\ req.consumed
    /\ \E x \in Consumed(req) : AfterSend(x)
    /\ Step
BlockTimeout ==
    /\ req.pc = "staged" /\ req.on /\ ~req.consumed
    /\ req' \in DatamodeExit(ConsumedTimeout(req)) /\ mode' = "null"
    /\ Step

(* AT#XCOAPCDATA and AT#XCOAPCCANCEL, which find the request under the      *)
(* mutex and are not done with it when they release it.  The library        *)
(* reports the cancelled request once no callback is under way.             *)
Still == mode' = mode /\ Step
CoapData ==
    /\ Accepts /\ req.on /\ req.manual /\ req.rx > 0
    /\ \E max \in 1..Block : req' = handle_at_coap_data(req, max)
    /\ Still
CoapGive == /\ req.pc = "give" /\ req.on
            /\ req' = [req EXCEPT !.pc = "idle", !.rxc = TRUE]
            /\ Still
CoapCancel == Accepts /\ req.on /\ req' = [req EXCEPT !.pc = "cancel"] /\ Still
CoapCancels ==
    /\ req.pc = "cancel" /\ (req.on => req.cb = "idle")
    /\ LET q == [req EXCEPT !.pc = "idle"]
       IN  req' = IF q.lib = "none" THEN q ELSE coap_fail_request(q)
    /\ Still

-----------------------------------------------------------------------------
(* The thread of the library.                                               *)

LibraryAt(cb) == req.lib # "none" /\ req.cb = cb

PayloadAsked == /\ LibraryAt("idle") /\ req.lib = "up"
                /\ req' = [req EXCEPT !.cb = "payload"]
                /\ Still
PayloadTaken == LibraryAt("payload") /\ req.ready /\ req' = coap_payload_cb(req) /\ Still
PullDone == LibraryAt("pull") /\ req.rxc /\ req' = Pulled(req) /\ Still

(* Mutant: the wait for the host to pull a block has no limit. *)
CallbackTimeoutMutant ==
    LibraryAt("payload") /\ ~req.ready /\ req' = coap_fail_request(req) /\ Still

(* A wait that times out, in a callback. *)
CallbackTimeout ==
    /\ \/ LibraryAt("payload") /\ ~req.ready
       \/ LibraryAt("pull") /\ ~req.rxc
    /\ req' = coap_fail_request(req)
    /\ Still

(* The server does not answer, or sends what the library cannot use. *)
CoapError == LibraryAt("idle") /\ req' = coap_fail_request(req) /\ Still

(* A block of the response, which may come before the upload is complete. *)
CoapResponse ==
    \E n \in 0..(Block + 1), last \in BOOLEAN :
        /\ LibraryAt("idle") /\ (req.lib = "up" => last)
        /\ wire < MaxWire /\ wire' = wire + 1
        /\ req' = coap_callback(req, n, last)
        /\ UNCHANGED <<mode, cmds>>

-----------------------------------------------------------------------------
Init == req = NoCoap /\ mode = "at" /\ cmds = 0 /\ wire = 0

Host == \/ CoapRequest \/ CoapRefused \/ CoapDataModeSend \/ DataModeExit
        \/ CoapData \/ CoapCancel
Work == BlockConsumed \/ BlockTimeout \/ CoapGive \/ CoapCancels
Thread == PayloadAsked \/ PayloadTaken \/ PullDone \/ CallbackTimeout \/ CoapError
Next == Host \/ Work \/ Thread \/ CoapResponse

Spec == Init /\ [][Next]_vars

(* Both threads run, and their waits time out; the library gives up on a    *)
(* server that does not answer.  The host and the server owe nothing.       *)
FairSpec == Spec /\ WF_vars(Work \/ Thread)

-----------------------------------------------------------------------------
(* Properties.                                                              *)

Requests ==
    [on : BOOLEAN, len : Nat, sent : Nat, staging : Seq(Nat), started : BOOLEAN,
     aborted : BOOLEAN, ready : BOOLEAN, consumed : BOOLEAN, rxc : BOOLEAN,
     manual : BOOLEAN, rx : 0..Block, lib : {"none", "up", "resp"},
     cb : {"idle", "payload", "pull"}, last : BOOLEAN,
     pc : {"idle", "staged", "give", "cancel"}, rest : Nat, given : Nat, host : Nat,
     owed : Nat, resp : Nat, bytes : Nat, untrue : BOOLEAN, dangling : BOOLEAN]

(* The fields of struct coap_request, a staging buffer that is never        *)
(* overrun, and no more of the payload handed over than is due.  The        *)
(* library never holds on to a request that was freed: its user_data is     *)
(* used in every callback.                                                  *)
TypeOK ==
    /\ req \in Requests
    /\ mode \in {"at", "data", "null"} /\ cmds \in 0..MaxCmds /\ wire \in 0..MaxWire
    /\ Len(req.staging) <= Block /\ req.sent <= req.len
    /\ req.lib # "none" => req.on /\ req.started

(* Every request that AT#XCOAPCREQ accepted is active or has ended with one *)
(* #XCOAPCSTAT, whichever of response, error, timeout and cancel came       *)
(* first.  With the status of the server the host has every unit of the     *)
(* response, and each block that coap_payload_cb hands to the library is    *)
(* what the host sent next: no unit lost, repeated or overwritten in the    *)
(* staging buffer while the two threads take turns.                         *)
RequestSettled == req.owed = (IF req.on THEN 1 ELSE 0) /\ ~req.untrue

(* The library is told that the payload is complete only when it has all    *)
(* that the host announced: an upload that a timeout cut short, for which   *)
(* payload_len is reduced to what was received, never passes as a whole one.*)
UploadWhole == req.lib = "resp" => req.sent = req.given

(* A request that was started ends, even if the host neither sends the rest *)
(* of its payload nor pulls the response.                                   *)
RequestEnds == []<>~(req.on /\ req.started)

(* No AT command blocks sm_work_q for ever, neither the cancel of a request *)
(* whose thread waits for the host, which cannot pull meanwhile, nor data   *)
(* mode.  Not so if the request was freed under it.                         *)
WorkReturns == []<>(Idle \/ req.dangling)
=============================================================================
