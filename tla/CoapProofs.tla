----------------------------- MODULE CoapProofs -----------------------------
(***************************************************************************)
(* Proofs about Coap: for blocks of any size, payloads of any length and   *)
(* any number of requests and of blocks of the response, every request is  *)
(* settled once and truthfully, and no upload passes as complete that is   *)
(* not.                                                                    *)
(*                                                                         *)
(* The invariant says where each unit of the upload is while the two       *)
(* threads take turns with the staging buffer: not handed over yet         *)
(* (sent + Len(staging) = host), or handed over and about to be            *)
(* overwritten (sent = host).                                              *)
(***************************************************************************)
EXTENDS Coap, SequenceTheorems, TLAPS

(* A block of the response waits for the host only while the library's      *)
(* thread waits in the callback; drained, it is given back once.            *)
ResponseInv(q) ==
    /\ q.bytes + q.rx = q.resp
    /\ q.rx > 0 => q.cb = "pull"
    /\ (q.rxc \/ q.pc = "give") => q.cb = "pull" /\ q.rx = 0
    /\ ~(q.rxc /\ q.pc = "give")
    /\ q.cb = "payload" => q.lib = "up"
    /\ q.lib = "none" => q.cb = "idle"

(* The staging buffer holds the units that the host sent last. *)
StagingInv(q) ==
    /\ q.host <= q.given
    /\ \A i \in 1..Len(q.staging) : q.staging[i] = q.host - Len(q.staging) + i

(* Before the request is started nothing was handed over, and a large       *)
(* payload has not filled a block.                                          *)
Unstarted(q) ==
    /\ q.lib = "none" /\ q.sent = 0 /\ Len(q.staging) = q.host
    /\ ~q.ready /\ ~q.consumed /\ q.pc # "staged"
    /\ q.given > Block => q.host < Block

(* While sm_work_q waits, its block is ready or has just been consumed;     *)
(* else what is staged is not handed over, and ready only as the last.      *)
Uploading(q) ==
    /\ q.given > Block
    /\ q.pc = "staged" =>
          /\ Len(q.staging) = Block /\ q.host + q.rest <= q.given /\ q.host < q.given
          /\ q.consumed => q.sent = q.host /\ ~q.ready
          /\ ~q.consumed => q.sent + Block = q.host /\ q.ready
    /\ q.pc # "staged" =>
          /\ ~q.consumed /\ q.sent + Len(q.staging) = q.host
          /\ IF q.ready THEN q.host = q.given ELSE Len(q.staging) < Block

UploadInv(q) ==
    /\ q.len = q.given
    /\ ~q.started => Unstarted(q)
    /\ q.started => q.lib # "none"
    /\ q.lib = "up" => Uploading(q)
    /\ q.lib = "resp" => q.sent = q.given /\ q.host = q.given /\ q.pc # "staged"

(* An upload that was given up is out of data mode, and the library fails it *)
(* when it next asks for a block.                                           *)
AbortedInv(q, m) == m # "data" /\ q.pc # "staged" /\ q.lib = "up"

ReqInv(q, m) ==
    /\ q \in Requests /\ Len(q.staging) <= Block /\ q.sent <= q.len
    /\ q.owed = (IF q.on THEN 1 ELSE 0) /\ ~q.untrue
    /\ ~q.on => q.lib = "none"
    /\ q.lib # "none" => q.started
    /\ q.on => /\ ResponseInv(q) /\ StagingInv(q)
               /\ IF q.aborted THEN AbortedInv(q, m) ELSE UploadInv(q)

IInv == /\ ReqInv(req, mode)
        /\ mode \in {"at", "data", "null"} /\ cmds \in 0..MaxCmds /\ wire \in 0..MaxWire

-----------------------------------------------------------------------------
(* The end of a request.                                                    *)

(* What is left of a request that was closed: its status was sent. *)
LEMMA CloseInv ==
    ASSUME NEW q \in Requests, NEW m, q.owed = 0, ~q.untrue
    PROVE  ReqInv(coap_close_request(q), m) /\ ~coap_close_request(q).on
<1> DEFINE t == coap_close_request(q)
<1>1. t.staging = <<>> /\ t.sent = 0 /\ t.len = 0 /\ t.owed = 0 /\ t.untrue = q.untrue
      /\ ~t.on /\ t.lib = "none"
  BY CoapAssumption DEF coap_close_request, NoCoap, Requests
<1>2. t \in Requests
  <2>1. 0 \in Nat /\ 0 \in 0..Block /\ <<>> \in Seq(Nat) BY CoapAssumption
  <2>2. q.pc \in {"idle", "staged", "give", "cancel"} /\ q.owed \in Nat /\ q.untrue \in BOOLEAN
    BY DEF Requests
  <2>3. (q.pc \in {"staged", "give"}) \in BOOLEAN OBVIOUS
  <2>4. NoCoap \in Requests BY <2>1, ZenonT(30) DEF NoCoap, Requests
  <2> QED BY <2>2, <2>3, <2>4, ZenonT(30) DEF coap_close_request, Requests
<1> HIDE DEF t
<1>3. ReqInv(t, m) BY <1>1, <1>2, CoapAssumption DEF ReqInv
<1> QED BY <1>1, <1>3 DEF t

(* A request that fails: #XCOAPCSTAT with an error. *)
LEMMA FailInv ==
    ASSUME NEW q \in Requests, NEW m, q.owed = 1, ~q.untrue
    PROVE  ReqInv(coap_fail_request(q), m) /\ ~coap_fail_request(q).on
<1> DEFINE p == [q EXCEPT !.owed = @ - 1]
<1>1. p.owed = 0 /\ p.untrue = q.untrue BY DEF Requests
<1>2. p \in Requests
  <2>1. q.owed - 1 \in Nat BY DEF Requests
  <2> QED BY <2>1, ZenonT(30) DEF Requests
<1> HIDE DEF p
<1>3. ReqInv(coap_close_request(p), m) /\ ~coap_close_request(p).on BY <1>1, <1>2, CloseInv
<1> QED BY <1>3 DEF coap_fail_request, p

(* A response that ends: the host has all of it. *)
LEMMA FinishInv ==
    ASSUME NEW q \in Requests, NEW m, q.owed = 1, ~q.untrue, q.bytes = q.resp
    PROVE  ReqInv(coap_finish_request(q), m)
<1> DEFINE p == [q EXCEPT !.owed = @ - 1, !.untrue = @ \/ q.bytes # q.resp]
<1>1. p.owed = 0 /\ ~p.untrue BY DEF Requests
<1>2. p \in Requests
  <2>1. q.owed - 1 \in Nat BY DEF Requests
  <2>2. (q.untrue \/ q.bytes # q.resp) \in BOOLEAN BY DEF Requests
  <2> QED BY <2>1, <2>2, ZenonT(30) DEF Requests
<1> HIDE DEF p
<1>3. ReqInv(coap_close_request(p), m) BY <1>1, <1>2, CloseInv
<1> QED BY <1>3 DEF coap_finish_request, p

-----------------------------------------------------------------------------
(* The upload.                                                              *)

(* What is staged and not handed over are the units that the library has    *)
(* not seen yet.                                                            *)
LEMMA StagedUnits ==
    ASSUME NEW q \in Requests, StagingInv(q), q.sent + Len(q.staging) = q.host
    PROVE  q.staging = [i \in 1..Len(q.staging) |-> q.sent + i]
<1> DEFINE n == Len(q.staging)
<1>1. q.staging \in Seq(Nat) /\ q.sent \in Nat /\ q.host \in Nat /\ n \in Nat BY DEF Requests
<1>2. \A i \in 1..n : q.staging[i] = q.sent + i BY <1>1 DEF StagingInv
<1>3. q.staging = [i \in 1..n |-> q.staging[i]] BY <1>1
<1> HIDE DEF n
<1>4. [i \in 1..n |-> q.staging[i]] = [i \in 1..n |-> q.sent + i] BY <1>2
<1> QED BY <1>3, <1>4 DEF n

(* A block that is ready is handed over as it should be; the last one       *)
(* completes the payload.                                                   *)
LEMMA HandOverInv ==
    ASSUME NEW q \in Requests, NEW m, q.on, q.owed = 1, ~q.untrue, q.started, ~q.aborted,
           Len(q.staging) <= Block, ResponseInv(q), StagingInv(q), q.len = q.given,
           q.given > Block, ~q.consumed, q.cb # "pull",
           q.sent + Len(q.staging) = q.host, q.host < q.given => Len(q.staging) = Block,
           q.host < q.given => q.host + q.rest <= q.given, q.host = q.given => q.pc # "staged",
           NEW p \in {"staged", q.pc}, q.host = q.given => p = q.pc,
           q.host < q.given => p = "staged"
    PROVE  ReqInv([HandOver(q) EXCEPT !.pc = p], m) /\ HandOver(q).on
<1> DEFINE n == Len(q.staging)
           last == q.sent + n >= q.len
           t == [HandOver(q) EXCEPT !.pc = p]
<1>1. q.staging = [i \in 1..n |-> q.sent + i] BY StagedUnits
<1>2. n \in Nat BY DEF Requests
<1> HIDE DEF n
<1>3. last <=> q.host = q.given BY <1>2 DEF n, StagingInv, Requests
<1>4. /\ t \in Requests /\ t.sent = q.sent + n /\ ~t.ready /\ t.cb = "idle"
      /\ t.consumed = ~last /\ t.lib = (IF last THEN "resp" ELSE "up") /\ ~t.untrue
      /\ t.on /\ t.owed = 1 /\ t.started /\ ~t.aborted /\ t.staging = q.staging /\ t.len = q.len
      /\ t.given = q.given /\ t.host = q.host /\ t.rest = q.rest /\ t.pc = p /\ t.rx = q.rx
      /\ t.rxc = q.rxc /\ t.bytes = q.bytes /\ t.resp = q.resp
  BY <1>1, <1>2 DEF HandOver, n, Requests
<1> HIDE DEF t
<1>5. ResponseInv(t) BY <1>3, <1>4 DEF ResponseInv, Requests
<1>6. StagingInv(t) BY <1>4 DEF StagingInv
<1>7. UploadInv(t)
  BY <1>2, <1>3, <1>4, CoapAssumption DEF UploadInv, Uploading, n, Requests, StagingInv
<1>8. ReqInv(t, m)
  BY <1>2, <1>3, <1>4, <1>5, <1>6, <1>7, CoapAssumption DEF ReqInv, n, Requests, StagingInv
<1>9. HandOver(q).on BY DEF HandOver, Requests
<1> QED BY <1>8, <1>9 DEF t

LEMMA LeastIs ==
    ASSUME NEW a \in Nat, NEW b \in Nat, NEW k, k = Least(a, b)
    PROVE  k \in Nat /\ k <= a /\ k <= b /\ (k = a \/ k = b)
<1>1. CASE a < b BY <1>1 DEF Least
<1>2. CASE ~(a < b) BY <1>2 DEF Least
<1> QED BY <1>1, <1>2

(* A request that is active, and whose upload is not given up. *)
Active(q) ==
    /\ q \in Requests /\ q.on /\ q.owed = 1 /\ ~q.untrue /\ ~q.aborted
    /\ ResponseInv(q) /\ StagingInv(q)
    /\ q.len = q.given /\ q.sent <= q.len /\ Len(q.staging) <= Block

LEMMA ActiveInv ==
    ASSUME NEW q, NEW m, Active(q), UploadInv(q), q.lib # "none" => q.started
    PROVE  ReqInv(q, m)
BY DEF Active, ReqInv

LEMMA UploadStep ==
    ASSUME NEW q, NEW m, Active(q), q.started, q.lib = "up", Uploading(q)
    PROVE  ReqInv(q, m)
BY ActiveInv DEF UploadInv, Active

(* What staging leaves alone. *)
Keeps(r, q) ==
    /\ r.on = q.on /\ r.len = q.len /\ r.sent = q.sent /\ r.started = q.started
    /\ r.aborted = q.aborted /\ r.consumed = q.consumed
    /\ r.rxc = q.rxc /\ r.rx = q.rx /\ r.lib = q.lib /\ r.cb = q.cb
    /\ r.given = q.given /\ r.owed = q.owed /\ r.resp = q.resp /\ r.bytes = q.bytes
    /\ r.untrue = q.untrue

LEMMA KeepsActive ==
    ASSUME NEW q, NEW r \in Requests, Active(q), Keeps(r, q), StagingInv(r),
           Len(r.staging) <= Block, q.pc # "give", r.pc # "give"
    PROVE  Active(r)
<1>1. r.on /\ r.owed = 1 /\ ~r.untrue /\ ~r.aborted BY ZenonT(30) DEF Active, Keeps
<1>2. r.len = r.given /\ r.sent <= r.len BY DEF Active, Keeps
<1>3. ResponseInv(r) BY ZenonT(30) DEF Active, Keeps, ResponseInv
<1> QED BY <1>1, <1>2, <1>3 DEF Active

LEMMA KeepsTwice ==
    ASSUME NEW q, NEW r, NEW t, Keeps(r, q), Keeps(t, r)
    PROVE  Keeps(t, q)
BY DEF Keeps

(* k units of the host are put behind what is staged. *)
Staged(q, k, n) ==
    [q EXCEPT !.staging = @ \o [i \in 1..k |-> q.host + i], !.host = @ + k, !.rest = n - k]

LEMMA StagedInv ==
    ASSUME NEW q \in Requests, StagingInv(q), NEW k \in Nat, NEW n \in Nat, k <= n,
           q.host + k <= q.given, NEW r, r = Staged(q, k, n)
    PROVE  /\ r \in Requests /\ StagingInv(r) /\ Len(r.staging) = Len(q.staging) + k
           /\ r.host = q.host + k /\ r.rest = n - k /\ r.ready = q.ready /\ r.pc = q.pc
           /\ Keeps(r, q)
<1> DEFINE new == [i \in 1..k |-> q.host + i]
<1>1. q.staging \in Seq(Nat) /\ q.host \in Nat /\ q.given \in Nat BY DEF Requests
<1>2. new \in Seq(Nat) /\ Len(new) = k BY <1>1
<1>3. \A i \in 1..k : new[i] = q.host + i BY <1>1
<1> HIDE DEF new
<1>4. /\ q.staging \o new \in Seq(Nat) /\ Len(q.staging \o new) = Len(q.staging) + k
      /\ \A i \in 1..(Len(q.staging) + k) :
            (q.staging \o new)[i] = IF i <= Len(q.staging) THEN q.staging[i]
                                    ELSE new[i - Len(q.staging)]
  BY <1>1, <1>2, ConcatProperties
<1>5. r = [q EXCEPT !.staging = @ \o new, !.host = @ + k, !.rest = n - k]
  BY DEF Staged, new
<1>6. q.host + k \in Nat /\ n - k \in Nat BY <1>1
<1>7. r \in Requests BY <1>4, <1>5, <1>6, ZenonT(30) DEF Requests
<1>8. /\ r.staging = q.staging \o new /\ r.host = q.host + k /\ r.rest = n - k
      /\ r.ready = q.ready /\ r.pc = q.pc /\ r.given = q.given
  BY <1>5 DEF Requests
<1>9. Keeps(r, q) BY <1>5, ZenonT(30) DEF Requests, Keeps
<1>10. StagingInv(r)
  <2>1. Len(r.staging) = Len(q.staging) + k /\ Len(q.staging) \in Nat BY <1>1, <1>4, <1>8
  <2>2. ASSUME NEW i \in 1..Len(r.staging)
        PROVE  r.staging[i] = r.host - Len(r.staging) + i
    <3>1. CASE i <= Len(q.staging)
      BY <3>1, <2>1, <1>1, <1>4, <1>8 DEF StagingInv
    <3>2. CASE i > Len(q.staging)
      <4>1. i - Len(q.staging) \in 1..k BY <3>2, <2>1
      <4>2. r.staging[i] = new[i - Len(q.staging)] BY <3>2, <2>1, <1>4, <1>8
      <4>3. new[i - Len(q.staging)] = q.host + (i - Len(q.staging)) BY <4>1, <1>3
      <4> QED BY <4>2, <4>3, <2>1, <1>1, <1>8
    <3> QED BY <3>1, <3>2, <2>1
  <2> QED BY <2>2, <1>8 DEF StagingInv
<1> QED BY <1>4, <1>7, <1>8, <1>10, <1>9

(* r is made ready, or sm_work_q begins to wait. *)
LEMMA ReadyInv ==
    ASSUME NEW r \in Requests, StagingInv(r), NEW p \in {"idle", "staged"}, NEW t,
           t = [r EXCEPT !.ready = TRUE, !.pc = p]
    PROVE  /\ t \in Requests /\ StagingInv(t) /\ t.staging = r.staging /\ t.host = r.host
           /\ t.rest = r.rest /\ t.ready /\ t.pc = p /\ Keeps(t, r)
<1>1. p \in {"idle", "staged", "give", "cancel"} OBVIOUS
<1>2. t \in Requests BY <1>1, ZenonT(30) DEF Requests
<1>3. t.staging = r.staging /\ t.host = r.host /\ t.rest = r.rest /\ t.ready /\ t.pc = p
      /\ t.given = r.given
  BY DEF Requests
<1>4. Keeps(t, r) BY ZenonT(30) DEF Requests, Keeps
<1>5. StagingInv(t) BY <1>3 DEF StagingInv
<1> QED BY <1>2, <1>3, <1>4, <1>5

(* coap_start_request with the first block of a large payload: it fails, or *)
(* the block is handed over.                                                *)
LEMMA StartLarge ==
    ASSUME NEW q \in Requests, q.len > Block, ~q.aborted, q.owed = 1, ~q.untrue,
           NEW x \in coap_start_request(q)
    PROVE  \/ ~x.on /\ x.pc = "idle" /\ \A m : ReqInv(x, m)
           \/ x = HandOver([q EXCEPT !.started = TRUE])
<1> DEFINE r == [q EXCEPT !.started = TRUE]
           p == [r EXCEPT !.pc = "idle"]
<1>1. r.aborted = q.aborted /\ r.len = q.len BY DEF Requests
<1>2. r \in Requests BY ZenonT(30) DEF Requests
<1>3. p \in Requests BY <1>2, ZenonT(30) DEF Requests
<1>4. p.owed = 1 /\ ~p.untrue /\ p.pc = "idle" BY DEF Requests
<1>5. ~(q.len <= Block) BY CoapAssumption DEF Requests
<1>6. x = coap_fail_request(p) \/ x = HandOver(r)
  BY <1>1, <1>5 DEF coap_start_request, coap_payload_cb
<1>7. coap_fail_request(p).pc = "idle"
  BY <1>4 DEF coap_fail_request, coap_close_request, NoCoap, Requests
<1> HIDE DEF p, r
<1>8. \A m : ReqInv(coap_fail_request(p), m) /\ ~coap_fail_request(p).on
  BY <1>3, <1>4, FailInv
<1> QED BY <1>6, <1>7, <1>8 DEF r
-----------------------------------------------------------------------------
(* coap_datamode_send_block.                                                *)

(* A large payload of which n more units may be staged. *)
CanTurn(q, n) ==
    /\ Active(q) /\ q.pc = "idle" /\ q.given > Block /\ ~q.ready /\ ~q.consumed
    /\ q.sent + Len(q.staging) = q.host /\ Len(q.staging) < Block
    /\ n \in Nat \ {0} /\ q.host + n <= q.given
    /\ IF q.started THEN q.lib = "up" ELSE q.lib = "none" /\ q.sent = 0

(* Data mode has taken all that came before, and expects more. *)
LEMMA CanStage ==
    ASSUME NEW q, NEW m, ReqInv(q, m), q.on, ~q.aborted, q.pc = "idle", q.given > Block,
           NEW n \in Nat \ {0}, q.host + n <= q.given
    PROVE  CanTurn(q, n)
<1>1. q \in Requests /\ UploadInv(q) /\ StagingInv(q) /\ ResponseInv(q) BY DEF ReqInv
<1>2. Active(q) BY DEF ReqInv, Active, UploadInv
<1>3. q.host \in Nat /\ q.given \in Nat /\ Len(q.staging) \in Nat /\ Block \in Nat
      /\ q.lib \in {"none", "up", "resp"}
  BY <1>1, CoapAssumption DEF Requests
<1>4. q.host < q.given BY <1>3
<1>5. CASE q.started
  <2>1. q.lib = "up" BY <1>1, <1>3, <1>4, <1>5 DEF UploadInv
  <2>2. Uploading(q) BY <1>1, <2>1 DEF UploadInv
  <2>3. ~q.ready BY <2>2, <1>3, <1>4 DEF Uploading
  <2> QED BY <1>2, <1>5, <2>1, <2>2, <2>3 DEF CanTurn, Uploading
<1>6. CASE ~q.started
  BY <1>1, <1>2, <1>3, <1>6 DEF CanTurn, UploadInv, Unstarted
<1> QED BY <1>5, <1>6

LEMMA PcSame ==
    ASSUME NEW q \in Requests
    PROVE  [q EXCEPT !.pc = q.pc] = q
BY ZenonT(30) DEF Requests

LEMMA HandOverPc ==
    ASSUME NEW q \in Requests
    PROVE  [HandOver(q) EXCEPT !.pc = q.pc] = HandOver(q)
BY DEF HandOver, Requests

(* What `started' leaves alone. *)
StartedIs(h, g) ==
    /\ h.started /\ h.on = g.on /\ h.owed = g.owed /\ h.untrue = g.untrue
    /\ h.aborted = g.aborted /\ ResponseInv(h) = ResponseInv(g) /\ StagingInv(h) = StagingInv(g)
    /\ h.len = g.len /\ h.given = g.given /\ h.sent = g.sent /\ h.host = g.host
    /\ h.rest = g.rest /\ h.staging = g.staging /\ h.consumed = g.consumed /\ h.cb = g.cb
    /\ h.pc = g.pc

LEMMA Started ==
    ASSUME NEW g \in Requests
    PROVE  /\ StartedIs([g EXCEPT !.started = TRUE], g)
           /\ [g EXCEPT !.started = TRUE] \in Requests
<1> DEFINE h == [g EXCEPT !.started = TRUE]
<1>1. h \in Requests BY ZenonT(30) DEF Requests
<1>2. /\ h.started /\ h.on = g.on /\ h.owed = g.owed /\ h.untrue = g.untrue
      /\ h.aborted = g.aborted
      /\ h.len = g.len /\ h.given = g.given /\ h.sent = g.sent /\ h.host = g.host
      /\ h.rest = g.rest /\ h.staging = g.staging /\ h.consumed = g.consumed /\ h.cb = g.cb
      /\ h.pc = g.pc /\ h.bytes = g.bytes /\ h.rx = g.rx /\ h.resp = g.resp /\ h.rxc = g.rxc
      /\ h.lib = g.lib
  BY DEF Requests
<1> HIDE DEF h
<1>3. ResponseInv(h) = ResponseInv(g) BY <1>2 DEF ResponseInv
<1>4. StagingInv(h) = StagingInv(g) BY <1>2 DEF StagingInv
<1> QED BY <1>1, <1>2, <1>3, <1>4 DEF h, StartedIs

(* The first turn, with k units that fit: a block that is ready waits for   *)
(* the library, or is handed over at once; what does not fill a block stays.*)
LEMMA TurnInv ==
    ASSUME NEW q, NEW n, CanTurn(q, n), NEW x \in Turn(q, n), NEW m
    PROVE  ReqInv(x, m)
<1> DEFINE k == Least(n, Block - Len(q.staging))
           r == Staged(q, k, n)
           last == q.sent + Len(r.staging) >= q.len
           full == Len(r.staging) = Block
           begun == IF q.started THEN {[r EXCEPT !.ready = TRUE]}
                    ELSE coap_start_request([r EXCEPT !.ready = TRUE])
<1>1. /\ q \in Requests /\ Active(q) /\ StagingInv(q) /\ q.len = q.given /\ q.on /\ q.owed = 1
      /\ q.pc = "idle"
  BY DEF CanTurn, Active
<1>2. /\ Block \in Nat \ {0} /\ q.host \in Nat /\ q.given \in Nat /\ q.sent \in Nat
      /\ q.len \in Nat /\ Len(q.staging) \in Nat
  BY <1>1, CoapAssumption DEF Requests
<1>3. /\ q.sent + Len(q.staging) = q.host /\ Len(q.staging) < Block /\ n \in Nat \ {0}
      /\ q.host + n <= q.given /\ q.given > Block
  BY DEF CanTurn
<1>4. k \in Nat /\ k <= n /\ k <= Block - Len(q.staging)
      /\ (k = n \/ k = Block - Len(q.staging)) /\ k > 0
  <2>1. Block - Len(q.staging) \in Nat BY <1>2, <1>3
  <2>2. k = Least(n, Block - Len(q.staging)) OBVIOUS
  <2> HIDE DEF k
  <2>3. k \in Nat /\ k <= n /\ k <= Block - Len(q.staging)
        /\ (k = n \/ k = Block - Len(q.staging))
    <3> DEFINE b == Block - Len(q.staging)
    <3> HIDE DEF b
    <3>1. n \in Nat /\ b \in Nat /\ k = Least(n, b) BY <2>1, <2>2, <1>3 DEF b
    <3>2. k \in Nat /\ k <= n /\ k <= b /\ (k = n \/ k = b) BY <3>1, LeastIs
    <3> QED BY <3>2 DEF b
  <2> QED BY <2>3, <1>2, <1>3
<1> HIDE DEF k
<1>5. /\ r \in Requests /\ StagingInv(r) /\ Len(r.staging) = Len(q.staging) + k
      /\ r.host = q.host + k /\ r.rest = n - k /\ r.ready = q.ready /\ r.pc = q.pc
      /\ Keeps(r, q)
  <2>1. q.host + k <= q.given /\ n \in Nat BY <1>2, <1>3, <1>4
  <2>2. r = Staged(q, k, n) OBVIOUS
  <2> HIDE DEF r
  <2> QED BY <1>1, <1>4, <2>1, <2>2, StagedInv
<1>6. /\ (full /\ ~last =>
           x \in {[y EXCEPT !.pc = IF y.on THEN "staged" ELSE "idle"] : y \in begun})
      /\ (last => x \in begun)
      /\ (~full /\ ~last => x = r)
  BY DEF Turn, Staged, k
<1> HIDE DEF r
<1>7. /\ q.sent + Len(r.staging) = r.host /\ Len(r.staging) \in Nat /\ Len(r.staging) <= Block
      /\ r.host <= q.given /\ r.host + r.rest <= q.given /\ r.host > 0
      /\ (last <=> r.host = q.given) /\ (~last => r.host < q.given)
      /\ (~full => r.rest = 0)
  <2> DEFINE l == Len(q.staging)
             s == Len(r.staging)
  <2>1. /\ s = l + k /\ l \in Nat /\ r.host = q.host + k /\ r.rest = n - k
        /\ q.len = q.given
    BY <1>1, <1>2, <1>5
  <2>2. q.sent + l = q.host /\ k <= Block - l /\ (k = n \/ k = Block - l) BY <1>3, <1>4
  <2> HIDE DEF l, s
  <2>3. /\ Block \in Nat \ {0} /\ q.sent \in Nat /\ l \in Nat /\ k \in Nat
        /\ n \in Nat \ {0} /\ q.given \in Nat /\ k <= n /\ k <= Block - l
        /\ (k = n \/ k = Block - l) /\ k > 0 /\ s = l + k /\ r.rest = n - k
    BY <1>2, <1>3, <1>4, <2>1, <2>2
  <2>4. q.sent + l + n <= q.given /\ r.host = q.sent + l + k BY <1>2, <1>3, <2>1, <2>2, <2>3
  <2>5. /\ q.sent + s = r.host /\ s \in Nat /\ s <= Block
        /\ r.host <= q.given /\ r.host + r.rest <= q.given /\ r.host > 0
        /\ (q.sent + s >= q.given <=> r.host = q.given)
        /\ (~(q.sent + s >= q.given) => r.host < q.given)
        /\ (s # Block => r.rest = 0)
    <3> DEFINE h == r.host
               g == q.given
               u == q.sent
               e == r.rest
    <3>1. /\ Block \in Nat \ {0} /\ u \in Nat /\ l \in Nat /\ k \in Nat
          /\ n \in Nat \ {0} /\ g \in Nat /\ k <= n /\ k <= Block - l
          /\ (k = n \/ k = Block - l) /\ k > 0 /\ s = l + k /\ e = n - k
          /\ u + l + n <= g /\ h = u + l + k
      BY <2>3, <2>4
    <3> HIDE DEF h, g, u, e
    <3>2. /\ u + s = h /\ s \in Nat /\ s <= Block
          /\ h <= g /\ h + e <= g /\ h > 0
          /\ (u + s >= g <=> h = g) /\ (~(u + s >= g) => h < g)
          /\ (s # Block => e = 0)
      BY <3>1
    <3> QED BY <3>2 DEF h, g, u, e
  <2> QED BY <2>1, <2>5 DEF s
<1>8. Active(r) BY <1>1, <1>5, <1>7, KeepsActive
<1>9. /\ r.given = q.given /\ r.sent = q.sent /\ r.lib = q.lib /\ r.started = q.started
      /\ r.consumed = q.consumed /\ r.on = q.on /\ r.len = q.len
  BY <1>5 DEF Keeps
<1>10. CASE ~full /\ ~last
  <2>1. x = r BY <1>6, <1>10
  <2>2. r.pc = "idle" /\ ~r.ready /\ ~r.consumed BY <1>5, <1>9 DEF CanTurn
  <2>3. r.sent + Len(r.staging) = r.host /\ Len(r.staging) < Block /\ r.given > Block
    BY <1>2, <1>3, <1>7, <1>9, <1>10
  <2>4. CASE q.started
    <3>1. r.started /\ r.lib = "up" BY <1>9, <2>4 DEF CanTurn
    <3>2. Uploading(r) BY <2>2, <2>3 DEF Uploading
    <3> QED BY <2>1, <1>8, <3>1, <3>2, UploadStep
  <2>5. CASE ~q.started
    <3>1. ~r.started /\ r.lib = "none" /\ r.sent = 0 BY <1>9, <2>5 DEF CanTurn
    <3>2. Len(r.staging) = r.host BY <2>3, <3>1, <1>5 DEF Requests
    <3>3. Unstarted(r) BY <3>1, <3>2, <2>2, <2>3 DEF Unstarted
    <3>4. UploadInv(r) BY <3>1, <3>3, <1>8 DEF UploadInv, Active
    <3> QED BY <2>1, <1>8, <3>1, <3>4, ActiveInv
  <2> QED BY <2>4, <2>5
<1>11. CASE q.started /\ (full \/ last)
  <2> DEFINE p == IF last THEN "idle" ELSE "staged"
             t == [r EXCEPT !.ready = TRUE, !.pc = p]
  <2>1. x = t
    <3>1. CASE last
      <4>1. x = [r EXCEPT !.ready = TRUE] BY <1>6, <1>11, <3>1
      <4>2. [r EXCEPT !.ready = TRUE] = [r EXCEPT !.ready = TRUE, !.pc = "idle"]
        BY <1>1, <1>5 DEF Requests
      <4> QED BY <4>1, <4>2, <3>1
    <3>2. CASE ~last
      <4>1. PICK y \in begun : x = [y EXCEPT !.pc = IF y.on THEN "staged" ELSE "idle"]
        BY <1>6, <1>11, <3>2
      <4>2. y = [r EXCEPT !.ready = TRUE] BY <4>1, <1>11
      <4>3. y.on BY <4>2, <1>5, <1>9, <1>1 DEF Requests
      <4> QED BY <4>1, <4>2, <4>3, <3>2
    <3> QED BY <3>1, <3>2
  <2>2. p \in {"idle", "staged"} OBVIOUS
  <2> HIDE DEF p
  <2>3. t = [r EXCEPT !.ready = TRUE, !.pc = p] OBVIOUS
  <2> HIDE DEF t
  <2>4. /\ t \in Requests /\ StagingInv(t) /\ t.staging = r.staging /\ t.host = r.host
        /\ t.rest = r.rest /\ t.ready /\ t.pc = p /\ Keeps(t, r)
    <3>1. r \in Requests /\ StagingInv(r) BY <1>5
    <3> QED BY <3>1, <2>2, <2>3, ReadyInv, ZenonT(30)
  <2>5. Active(t) BY <1>1, <1>5, <1>7, <1>8, <2>2, <2>4, KeepsActive
  <2>6. t.started /\ t.lib = "up" /\ ~t.consumed
    BY <1>9, <1>11, <2>4 DEF Keeps, CanTurn
  <2>7. t.given = q.given /\ t.sent = q.sent BY <1>9, <2>4 DEF Keeps
  <2>8. Uploading(t)
    <3>1. CASE last
      <4>1. p = "idle" /\ t.host = t.given /\ t.sent + Len(t.staging) = t.host /\ t.given > Block
        BY <3>1, <1>3, <1>7, <2>4, <2>7 DEF p
      <4> QED BY <4>1, <2>4, <2>6 DEF Uploading
    <3>2. CASE ~last
      <4>1. p = "staged" /\ t.host < t.given /\ t.sent + Block = t.host /\ t.given > Block
            /\ Len(t.staging) = Block /\ t.host + t.rest <= t.given
        BY <3>2, <1>3, <1>7, <1>11, <2>4, <2>7 DEF p
      <4> QED BY <4>1, <2>4, <2>6 DEF Uploading
    <3> QED BY <3>1, <3>2
  <2> QED BY <2>1, <2>5, <2>6, <2>8, UploadStep
<1>12. CASE ~q.started /\ (full \/ last)
  <2> DEFINE g == [r EXCEPT !.ready = TRUE]
             h == [g EXCEPT !.started = TRUE]
             p == IF last THEN "idle" ELSE "staged"
  <2>1. PICK y \in coap_start_request(g) :
            IF last THEN x = y
            ELSE x = [y EXCEPT !.pc = IF y.on THEN "staged" ELSE "idle"]
    BY <1>6, <1>12
  <2>2. g = [r EXCEPT !.ready = TRUE, !.pc = "idle"] BY <1>1, <1>5 DEF Requests
  <2>3. /\ g \in Requests /\ StagingInv(g) /\ g.staging = r.staging /\ g.host = r.host
        /\ g.rest = r.rest /\ g.ready /\ g.pc = "idle" /\ Keeps(g, r)
    <3> HIDE DEF g
    <3> QED BY <1>5, <2>2, ReadyInv
  <2> HIDE DEF g
  <2>4. Active(g) BY <1>1, <1>5, <1>7, <1>8, <2>3, KeepsActive
  <2>5. g.len > Block /\ ~g.aborted /\ g.owed = 1 /\ ~g.untrue
    BY <1>1, <1>3, <1>9, <2>3, <2>4 DEF Active, Keeps
  <2>6. \/ ~y.on /\ y.pc = "idle" /\ \A mm : ReqInv(y, mm)
        \/ y = HandOver(h)
    BY <2>1, <2>3, <2>5, StartLarge
  <2>7. CASE ~y.on /\ y.pc = "idle" /\ \A mm : ReqInv(y, mm)
    <3>1. y \in Requests BY <2>7 DEF ReqInv
    <3>2. [y EXCEPT !.pc = "idle"] = y BY <2>7, <3>1, PcSame
    <3> QED BY <2>1, <2>7, <3>2
  <2>8. CASE y = HandOver(h)
    <3>1. StartedIs(h, g) /\ h \in Requests BY <2>3, Started
    <3> HIDE DEF h
    <3>2. ReqInv([HandOver(h) EXCEPT !.pc = p], m) /\ HandOver(h).on
      <4>1. /\ h.on /\ h.owed = 1 /\ ~h.untrue /\ h.started /\ ~h.aborted
            /\ ResponseInv(h) /\ StagingInv(h) /\ h.len = h.given /\ Len(h.staging) <= Block
        BY <2>3, <2>4, <3>1 DEF StartedIs, Active
      <4>2. ~h.consumed /\ h.cb # "pull" /\ h.pc = "idle"
        BY <1>9, <1>12, <2>3, <2>4, <3>1 DEF StartedIs, Keeps, CanTurn, Active, ResponseInv
      <4>3. /\ h.given = q.given /\ h.sent = q.sent /\ h.host = r.host /\ h.rest = r.rest
            /\ h.staging = r.staging
        BY <1>9, <2>3, <3>1 DEF StartedIs, Keeps
      <4>4. (h.host < h.given <=> ~last) /\ (h.host = h.given <=> last)
        <5>1. r.host \in Nat /\ q.given \in Nat BY <1>2, <1>4, <1>5
        <5> QED BY <5>1, <1>7, <4>3
      <4>5. /\ h.given > Block /\ h.sent + Len(h.staging) = h.host
            /\ (h.host < h.given => Len(h.staging) = Block)
            /\ (h.host < h.given => h.host + h.rest <= h.given)
        BY <1>3, <1>7, <1>12, <4>3, <4>4
      <4>6. /\ p \in {"staged", h.pc} /\ (h.host = h.given => h.pc # "staged")
            /\ (h.host = h.given => p = h.pc) /\ (h.host < h.given => p = "staged")
        BY <4>2, <4>3, <4>4
      <4> HIDE DEF p
      <4> QED BY <3>1, <4>1, <4>2, <4>5, <4>6, HandOverInv
    <3>3. CASE last
      <4>1. [HandOver(h) EXCEPT !.pc = p] = HandOver(h)
        BY <2>3, <3>1, <3>3, HandOverPc DEF StartedIs
      <4> QED BY <2>1, <2>8, <3>2, <3>3, <4>1
    <3>4. CASE ~last BY <2>1, <2>8, <3>2, <3>4
    <3> QED BY <3>3, <3>4
  <2> QED BY <2>6, <2>7, <2>8
<1> QED BY <1>10, <1>11, <1>12

(* coap_start_request with a whole payload that fits in a block. *)
LEMMA StartSmall ==
    ASSUME NEW q, Active(q), Unstarted(q), q.host = q.given, q.len <= Block,
           NEW x \in coap_start_request(q), NEW m
    PROVE  ReqInv(x, m)
<1> DEFINE r == [q EXCEPT !.started = TRUE]
           p == [r EXCEPT !.pc = "idle"]
           t == [r EXCEPT !.lib = "resp", !.sent = q.len]
<1>1. q \in Requests /\ q.len \in Nat /\ q.owed = 1 /\ ~q.untrue BY DEF Active, Requests
<1>2. r \in Requests BY <1>1, ZenonT(30) DEF Requests
<1>3. p \in Requests BY <1>2, ZenonT(30) DEF Requests
<1>4. p.owed = 1 /\ ~p.untrue BY <1>1 DEF Requests
<1>5. x = coap_fail_request(p) \/ x = t BY DEF coap_start_request
<1>6. CASE x = coap_fail_request(p)
  <2> HIDE DEF p
  <2> QED BY <1>3, <1>4, <1>6, FailInv
<1>7. CASE x = t
  <2>1. "resp" \in {"none", "up", "resp"} OBVIOUS
  <2>2. t \in Requests BY <1>1, <1>2, <2>1, ZenonT(30) DEF Requests
  <2>3. /\ t.started /\ t.lib = "resp" /\ t.sent = q.len
        /\ t.on = q.on /\ t.owed = q.owed /\ t.untrue = q.untrue
        /\ t.aborted = q.aborted /\ t.len = q.len /\ t.given = q.given /\ t.host = q.host
        /\ t.staging = q.staging /\ t.cb = q.cb /\ t.pc = q.pc
        /\ t.bytes = q.bytes /\ t.rx = q.rx /\ t.resp = q.resp /\ t.rxc = q.rxc
    BY <1>1 DEF Requests
  <2> HIDE DEF t
  <2>4. ResponseInv(t)
    <3>1. q.cb = "idle" BY DEF Active, ResponseInv, Unstarted
    <3> QED BY <2>3, <3>1 DEF ResponseInv, Active
  <2>5. StagingInv(t) BY <2>3 DEF StagingInv, Active
  <2>6. t.sent = t.given /\ t.host = t.given /\ t.len = t.given /\ t.sent <= t.len
        /\ Len(t.staging) <= Block
    BY <1>1, <2>3 DEF Active
  <2>7. t.on /\ t.owed = 1 /\ ~t.untrue /\ ~t.aborted /\ t.pc # "staged"
    BY <2>3, ZenonT(30) DEF Active, Unstarted
  <2>8. UploadInv(t) BY <2>3, <2>6, <2>7 DEF UploadInv
  <2>9. Active(t) BY <2>2, <2>4, <2>5, <2>6, <2>7 DEF Active
  <2> QED BY <1>7, <2>3, <2>8, <2>9, ActiveInv
<1> QED BY <1>5, <1>6, <1>7

(* Data mode ends with its length: a small payload is sent, a large one is  *)
(* with the library or ready for it.                                        *)
LEMMA ExitInv ==
    ASSUME NEW q, \A mm : ReqInv(q, mm), q.on, q.pc # "staged", q.host = q.given,
           q.given <= Block => ~q.started, NEW y \in DatamodeExit(q), NEW m
    PROVE  ReqInv(y, m)
<1> DEFINE n == Len(q.staging)
           same == [q EXCEPT !.len = n]
<1>1. ReqInv(q, "data") /\ ReqInv(q, m) OBVIOUS
<1>2. q \in Requests /\ ~q.aborted /\ UploadInv(q) /\ q.owed = 1 /\ ~q.untrue
  BY <1>1, ZenonT(30) DEF ReqInv, AbortedInv
<1>3. Active(q) BY <1>1, <1>2 DEF ReqInv, Active, UploadInv
<1>4. /\ n \in Nat /\ q.len = q.given /\ q.sent \in Nat /\ q.len \in Nat /\ Block \in Nat
      /\ q.lib \in {"none", "up", "resp"}
  BY <1>2, <1>3, CoapAssumption DEF Requests, Active
<1>5. CASE q.given <= Block
  <2>1. Unstarted(q) BY <1>2, <1>5 DEF UploadInv
  <2>2. n = q.len BY <1>4, <2>1 DEF Unstarted
  <2>3. same = q BY <1>2, <2>2 DEF Requests
  <2>4. y \in IF n > 0 THEN coap_start_request(same) ELSE {coap_fail_request(q)}
    BY <1>4, <1>5 DEF DatamodeExit
  <2> HIDE DEF n, same
  <2>5. CASE n > 0
    BY <1>3, <1>4, <1>5, <2>1, <2>3, <2>4, <2>5, StartSmall
  <2>6. CASE ~(n > 0) BY <1>2, <2>4, <2>6, FailInv
  <2> QED BY <2>5, <2>6
<1>6. CASE q.given > Block
  <2>1. q.started BY <1>2, <1>4, <1>6 DEF UploadInv, Unstarted
  <2>2. q.lib = "up" \/ q.lib = "resp" BY <1>2, <1>4, <2>1 DEF UploadInv
  <2>3. q.sent + n >= q.len
    <3>1. CASE q.lib = "up" BY <1>2, <1>4, <3>1 DEF UploadInv, Uploading
    <3>2. CASE q.lib = "resp" BY <1>2, <1>4, <3>2 DEF UploadInv
    <3> QED BY <2>2, <3>1, <3>2
  <2>4. y = q BY <1>4, <1>6, <2>1, <2>3 DEF DatamodeExit
  <2> QED BY <1>1, <2>4
<1> QED BY <1>4, <1>5, <1>6 DEF Requests

LEMMA StartGiven ==
    ASSUME NEW q \in Requests, q.owed = 1, ~q.untrue, NEW x \in coap_start_request(q)
    PROVE  x \in Requests /\ (~x.on \/ x.given = q.given)
<1> DEFINE r == [q EXCEPT !.started = TRUE]
           s == [r EXCEPT !.cb = "idle"]
           p == [r EXCEPT !.pc = "idle"]
           t == [r EXCEPT !.lib = "resp", !.sent = q.len]
<1>1. \/ x = coap_fail_request(p) \/ x = t \/ x = coap_fail_request(s) \/ x = HandOver(r)
  BY DEF coap_start_request, coap_payload_cb
<1>2. r \in Requests BY ZenonT(30) DEF Requests
<1>3. "resp" \in {"none", "up", "resp"} /\ q.len \in Nat BY DEF Requests
<1>4. p \in Requests /\ s \in Requests /\ t \in Requests
  BY <1>2, <1>3, ZenonT(30) DEF Requests
<1>5. p.owed = 1 /\ ~p.untrue /\ s.owed = 1 /\ ~s.untrue /\ t.given = q.given /\ r.given = q.given
  BY DEF Requests
<1>6. HandOver(r).given = r.given BY <1>2 DEF HandOver, Requests
<1> HIDE DEF p, t, s, r
<1>7. HandOver(r) \in Requests
  <2> DEFINE n == Len(r.staging)
             last == r.sent + n >= r.len
             lib == IF last THEN "resp" ELSE "up"
             wrong == r.staging # [i \in 1..n |-> r.sent + i]
  <2>1. r.sent + n \in Nat
    <3>1. r.staging \in Seq(Nat) /\ r.sent \in Nat BY <1>2 DEF Requests
    <3>2. Len(r.staging) \in Nat BY <3>1
    <3> QED BY <3>1, <3>2
  <2>2. (r.consumed \/ ~last) \in BOOLEAN /\ (r.untrue \/ wrong) \in BOOLEAN
    BY <1>2 DEF Requests
  <2>3. lib \in {"none", "up", "resp"} OBVIOUS
  <2>4. HandOver(r) = [r EXCEPT !.sent = r.sent + n, !.ready = FALSE, !.cb = "idle",
                                !.consumed = r.consumed \/ ~last, !.lib = lib,
                                !.untrue = r.untrue \/ wrong]
    BY DEF HandOver
  <2> HIDE DEF n, last, lib, wrong
  <2> QED BY <1>2, <2>1, <2>2, <2>3, <2>4, ZenonT(30) DEF Requests
<1>8. /\ coap_fail_request(p) \in Requests /\ ~coap_fail_request(p).on
      /\ coap_fail_request(s) \in Requests /\ ~coap_fail_request(s).on
  BY <1>4, <1>5, FailInv DEF ReqInv
<1> QED BY <1>1, <1>4, <1>5, <1>6, <1>7, <1>8

LEMMA TurnGiven ==
    ASSUME NEW q, NEW n, CanTurn(q, n), NEW x \in Turn(q, n)
    PROVE  ~x.on \/ x.given = q.given
<1> DEFINE k == Least(n, Block - Len(q.staging))
           r == Staged(q, k, n)
           g == [r EXCEPT !.ready = TRUE]
           begun == IF q.started THEN {g} ELSE coap_start_request(g)
           In(y) == y \in Requests /\ (~y.on \/ y.given = q.given)
<1>1. \/ x \in {[y EXCEPT !.pc = IF y.on THEN "staged" ELSE "idle"] : y \in begun}
      \/ x \in begun \/ x = r
  BY DEF Turn, Staged
<1>2. r \in Requests /\ r.given = q.given /\ r.owed = 1 /\ ~r.untrue
  <2>1. /\ q \in Requests /\ StagingInv(q) /\ Len(q.staging) < Block /\ n \in Nat \ {0}
        /\ q.host + n <= q.given
    BY DEF CanTurn, Active
  <2>2. q.host \in Nat /\ q.given \in Nat /\ Len(q.staging) \in Nat /\ Block \in Nat
    BY <2>1, CoapAssumption DEF Requests
  <2>3. Block - Len(q.staging) \in Nat /\ n \in Nat BY <2>1, <2>2
  <2>4. k = Least(n, Block - Len(q.staging)) /\ r = Staged(q, k, n) OBVIOUS
  <2> HIDE DEF r
  <2> DEFINE b == Block - Len(q.staging)
  <2>5. k = Least(n, b) /\ b \in Nat BY <2>3, <2>4
  <2> HIDE DEF k, b
  <2>6. k \in Nat /\ k <= n BY <2>3, <2>5, LeastIs
  <2>7. q.host + k <= q.given BY <2>1, <2>2, <2>3, <2>6
  <2>8. r \in Requests /\ Keeps(r, q)
    BY <2>1, <2>3, <2>4, <2>6, <2>7, StagedInv
  <2> QED BY <2>8 DEF Keeps, CanTurn, Active
<1> HIDE DEF r
<1>3. g \in Requests BY <1>2, ZenonT(30) DEF Requests
<1>4. g.given = q.given /\ g.owed = 1 /\ ~g.untrue BY <1>2 DEF Requests
<1> HIDE DEF g
<1>5. \A y \in begun : In(y) BY <1>3, <1>4, StartGiven
<1> HIDE DEF begun
<1>6. ASSUME NEW y \in begun PROVE LET z == [y EXCEPT !.pc = IF y.on THEN "staged" ELSE "idle"]
                                  IN  ~z.on \/ z.given = q.given
  BY <1>5 DEF Requests
<1> QED BY <1>1, <1>2, <1>5, <1>6

(* DATAMODE_SEND. *)
LEMMA SendInv ==
    ASSUME NEW q, ReqInv(q, "data"), q.on, q.pc = "idle", NEW n \in Nat \ {0},
           q.host + n <= q.given, NEW x \in DatamodeSend(q, n), NEW m
    PROVE  ReqInv(x, m) /\ (x.on /\ x.given <= Block => ~x.started)
<1>1. q \in Requests /\ ~q.aborted /\ UploadInv(q) /\ q.owed = 1 /\ ~q.untrue
  BY ZenonT(30) DEF ReqInv, AbortedInv
<1>2. Active(q) BY <1>1 DEF ReqInv, Active, UploadInv
<1>3. /\ q.len = q.given /\ q.len \in Nat /\ q.host \in Nat /\ q.given \in Nat /\ Block \in Nat
      /\ q.rest \in Nat /\ Len(q.staging) \in Nat /\ q.lib \in {"none", "up", "resp"}
  BY <1>1, <1>2, CoapAssumption DEF Requests, Active
<1>4. CASE q.given <= Block
  <2>1. ~(q.host = q.given) BY <1>3
  <2>2. ~q.started BY <1>1, <1>3, <1>4, <2>1 DEF UploadInv, Uploading
  <2>3. Unstarted(q) BY <1>1, <2>2 DEF UploadInv
  <2> DEFINE r == Staged(q, n, q.rest + n)
  <2>4. x = r
    <3>1. x = [q EXCEPT !.staging = @ \o [i \in 1..n |-> q.host + i], !.host = @ + n]
      BY <1>3, <1>4 DEF DatamodeSend
    <3>2. q.rest = (q.rest + n) - n BY <1>3
    <3>3. [q EXCEPT !.staging = @ \o [i \in 1..n |-> q.host + i], !.host = @ + n]
          = [q EXCEPT !.staging = @ \o [i \in 1..n |-> q.host + i], !.host = @ + n,
                      !.rest = q.rest]
      BY <1>1, ZenonT(30) DEF Requests
    <3> QED BY <3>1, <3>2, <3>3 DEF Staged
  <2> HIDE DEF r
  <2>5. n \in Nat /\ q.rest + n \in Nat /\ n <= q.rest + n /\ StagingInv(q)
    BY <1>2, <1>3 DEF Active
  <2>6. /\ r \in Requests /\ StagingInv(r) /\ Len(r.staging) = Len(q.staging) + n
        /\ r.host = q.host + n /\ r.ready = q.ready /\ r.pc = q.pc /\ Keeps(r, q)
    BY <1>1, <2>5, StagedInv DEF r
  <2>7. r.given = q.given /\ r.lib = "none" /\ r.sent = 0 /\ ~r.consumed /\ ~r.started /\ ~r.ready
        /\ r.pc = "idle"
    BY <2>2, <2>3, <2>6, ZenonT(30) DEF Keeps, Unstarted
  <2>8. Len(r.staging) = r.host /\ Len(r.staging) <= Block
    BY <1>3, <1>4, <2>3, <2>6 DEF Unstarted
  <2>9. Active(r) BY <1>2, <2>6, <2>7, <2>8, KeepsActive
  <2>10. Unstarted(r) BY <1>3, <1>4, <2>7, <2>8 DEF Unstarted
  <2>11. UploadInv(r) BY <2>7, <2>9, <2>10 DEF UploadInv, Active
  <2> QED BY <2>4, <2>7, <2>9, <2>11, ActiveInv
<1>5. CASE q.given > Block
  <2>1. CanTurn(q, n) BY <1>1, <1>5, CanStage
  <2>2. x \in Turn(q, n) BY <1>3, <1>5 DEF DatamodeSend
  <2>3. ~x.on \/ x.given = q.given BY <2>1, <2>2, TurnGiven
  <2>4. ReqInv(x, m) BY <2>1, <2>2, TurnInv
  <2> QED BY <1>3, <1>5, <2>3, <2>4
<1> QED BY <1>3, <1>4, <1>5

(* The library took the block that sm_work_q waits for: the buffer is free, *)
(* and the rest of what the host sent is staged.                            *)
LEMMA ConsumedInv ==
    ASSUME NEW q, NEW mm, ReqInv(q, mm), q.on, q.pc = "staged", q.consumed,
           NEW x \in Consumed(q), NEW m
    PROVE  ReqInv(x, m) /\ (x.on /\ x.given <= Block => ~x.started)
<1> DEFINE r == [q EXCEPT !.consumed = FALSE, !.staging = <<>>, !.pc = "idle"]
<1>1. q \in Requests /\ ~q.aborted /\ UploadInv(q) /\ q.owed = 1 /\ ~q.untrue /\ ResponseInv(q)
      /\ StagingInv(q) /\ q.sent <= q.len
  BY ZenonT(30) DEF ReqInv, AbortedInv
<1>2. q.started /\ q.lib = "up" /\ Uploading(q) /\ q.len = q.given
  BY <1>1 DEF UploadInv, Unstarted, Requests
<1>3. /\ q.sent = q.host /\ ~q.ready /\ q.host + q.rest <= q.given /\ q.host < q.given
      /\ q.given > Block
  BY <1>2 DEF Uploading
<1>4. <<>> \in Seq(Nat) /\ Len(<<>>) = 0 OBVIOUS
<1>5. r \in Requests BY <1>1, <1>4, ZenonT(30) DEF Requests
<1>6. /\ r.staging = <<>> /\ ~r.consumed /\ r.pc = "idle"
      /\ r.on = q.on /\ r.len = q.len /\ r.sent = q.sent /\ r.started = q.started
      /\ r.aborted = q.aborted /\ r.ready = q.ready /\ r.rxc = q.rxc /\ r.rx = q.rx
      /\ r.lib = q.lib /\ r.cb = q.cb /\ r.given = q.given /\ r.owed = q.owed
      /\ r.resp = q.resp /\ r.bytes = q.bytes /\ r.untrue = q.untrue /\ r.host = q.host
      /\ r.rest = q.rest
  BY <1>1 DEF Requests
<1>7. x \in IF q.rest = 0 THEN {r} ELSE Turn(r, q.rest) BY DEF Consumed
<1> HIDE DEF r
<1>8. ResponseInv(r) BY <1>1, <1>6 DEF ResponseInv
<1>9. StagingInv(r) BY <1>1, <1>4, <1>6 DEF StagingInv
<1>10. Len(r.staging) = 0 /\ Len(r.staging) <= Block /\ Len(r.staging) < Block
       /\ r.sent + Len(r.staging) = r.host /\ r.sent <= r.len
  BY <1>1, <1>3, <1>4, <1>6, CoapAssumption DEF Requests
<1>11. Active(r)
  BY <1>1, <1>2, <1>5, <1>6, <1>8, <1>9, <1>10 DEF Active
<1>12. Uploading(r) BY <1>3, <1>6, <1>10 DEF Uploading
<1>13. ReqInv(r, m) BY <1>2, <1>6, <1>11, <1>12, UploadStep
<1>14. CASE q.rest = 0
  <2>1. x = r BY <1>7, <1>14
  <2>2. ~(r.given <= Block) BY <1>3, <1>5, <1>6, CoapAssumption DEF Requests
  <2> QED BY <1>13, <2>1, <2>2
<1>15. CASE q.rest # 0
  <2>1. q.rest \in Nat \ {0} /\ r.host + q.rest <= r.given /\ r.given > Block
    BY <1>1, <1>3, <1>6, <1>15 DEF Requests
  <2>2. CanTurn(r, q.rest) BY <1>1, <1>6, <1>13, <2>1, CanStage
  <2>3. x \in Turn(r, q.rest) BY <1>7, <1>15
  <2>4. ReqInv(x, m) BY <2>2, <2>3, TurnInv
  <2>5. ~x.on \/ x.given = r.given BY <2>2, <2>3, TurnGiven
  <2>6. ~(r.given <= Block) BY <2>1, <1>5, CoapAssumption DEF Requests
  <2> QED BY <2>4, <2>5, <2>6
<1> QED BY <1>14, <1>15

(* It did not in time: the upload is given up, and what was received only   *)
(* kept until the library asks again.                                       *)
LEMMA TimeoutInv ==
    ASSUME NEW q, NEW mm, ReqInv(q, mm), q.on, q.pc = "staged", ~q.consumed,
           NEW y \in DatamodeExit(ConsumedTimeout(q))
    PROVE  ReqInv(y, "null")
<1> DEFINE r == ConsumedTimeout(q)
           n == Len(r.staging)
           t == [r EXCEPT !.ready = TRUE, !.len = IF n > 0 THEN r.sent + n ELSE @,
                          !.aborted = @ \/ n = 0]
<1>1. q \in Requests /\ ~q.aborted /\ UploadInv(q) /\ q.owed = 1 /\ ~q.untrue /\ ResponseInv(q)
      /\ StagingInv(q) /\ q.sent <= q.len /\ Len(q.staging) <= Block
  BY ZenonT(30) DEF ReqInv, AbortedInv
<1>2. q.started /\ q.lib = "up" /\ q.len = q.given /\ q.given > Block
  BY <1>1 DEF UploadInv, Unstarted, Uploading, Requests
<1>3. r \in Requests BY <1>1, ZenonT(30) DEF ConsumedTimeout, Requests
<1>4. /\ r.aborted /\ r.pc = "idle"
      /\ r.on = q.on /\ r.len = q.len /\ r.sent = q.sent /\ r.started = q.started
      /\ r.rxc = q.rxc /\ r.rx = q.rx /\ r.staging = q.staging
      /\ r.lib = q.lib /\ r.cb = q.cb /\ r.given = q.given /\ r.owed = q.owed
      /\ r.resp = q.resp /\ r.bytes = q.bytes /\ r.untrue = q.untrue /\ r.host = q.host
  BY <1>1 DEF ConsumedTimeout, Requests
<1> HIDE DEF r
<1>5. n \in Nat /\ r.sent \in Nat /\ r.len \in Nat /\ n <= Block /\ Block \in Nat
  BY <1>1, <1>3, <1>4, CoapAssumption DEF Requests
<1>6. ~(r.len <= Block) /\ r.sent <= r.len BY <1>1, <1>2, <1>4, <1>5
<1>7. y = t \/ y = r BY <1>2, <1>4, <1>6, ZenonT(30) DEF DatamodeExit, r
<1>8. y \in Requests /\ y.sent <= y.len /\ y.aborted
  <2>1. CASE y = r BY <1>3, <1>4, <1>6, <2>1
  <2>2. CASE y = t
    <3>1. r.sent + n \in Nat BY <1>5
    <3>2. (r.aborted \/ n = 0) \in BOOLEAN BY <1>4
    <3> DEFINE l == IF n > 0 THEN r.sent + n ELSE r.len
    <3>3. l \in Nat /\ r.sent <= l BY <1>5, <1>6, <3>1
    <3>4. t = [r EXCEPT !.ready = TRUE, !.len = l, !.aborted = r.aborted \/ n = 0] OBVIOUS
    <3> HIDE DEF l, n, t
    <3>5. t \in Requests BY <1>3, <3>2, <3>3, <3>4, ZenonT(30) DEF Requests
    <3>6. t.sent = r.sent /\ t.len = l /\ t.aborted = (r.aborted \/ n = 0)
      BY <1>3, <3>4 DEF Requests
    <3> QED BY <1>4, <2>2, <3>3, <3>5, <3>6
  <2> QED BY <1>7, <2>1, <2>2
<1>9. /\ y.pc = "idle" /\ y.on = q.on /\ y.started = q.started
      /\ y.rxc = q.rxc /\ y.rx = q.rx /\ y.staging = q.staging
      /\ y.lib = q.lib /\ y.cb = q.cb /\ y.given = q.given /\ y.owed = q.owed
      /\ y.resp = q.resp /\ y.bytes = q.bytes /\ y.untrue = q.untrue /\ y.host = q.host
  <2>1. CASE y = r BY <1>4, <2>1
  <2>2. CASE y = t BY <1>3, <1>4, <2>2 DEF Requests
  <2> QED BY <1>7, <2>1, <2>2
<1> HIDE DEF t
<1>10. ResponseInv(y) BY <1>1, <1>9 DEF ResponseInv
<1>11. StagingInv(y) BY <1>1, <1>9 DEF StagingInv
<1>12. AbortedInv(y, "null") BY <1>2, <1>9 DEF AbortedInv
<1> QED BY <1>1, <1>2, <1>8, <1>9, <1>10, <1>11, <1>12 DEF ReqInv

(* coap_payload_cb has a block that is ready. *)
LEMMA PayloadInv ==
    ASSUME NEW q, NEW m, ReqInv(q, m), q.lib # "none", q.cb = "payload", q.ready
    PROVE  ReqInv(coap_payload_cb(q), m)
<1>1. /\ q \in Requests /\ q.on /\ q.started /\ q.owed = 1 /\ ~q.untrue /\ ResponseInv(q)
      /\ StagingInv(q) /\ Len(q.staging) <= Block
  BY DEF ReqInv
<1>2. q.lib = "up" BY <1>1 DEF ResponseInv
<1>3. CASE q.aborted
  <2> DEFINE r == [q EXCEPT !.cb = "idle"]
  <2>1. r \in Requests BY <1>1, ZenonT(30) DEF Requests
  <2>2. r.owed = 1 /\ ~r.untrue BY <1>1 DEF Requests
  <2>3. coap_payload_cb(q) = coap_fail_request(r) BY <1>3 DEF coap_payload_cb
  <2> HIDE DEF r
  <2> QED BY <2>1, <2>2, <2>3, FailInv
<1>4. CASE ~q.aborted
  <2>1. UploadInv(q) BY <1>1, <1>4 DEF ReqInv
  <2>2. Uploading(q) /\ q.len = q.given BY <1>2, <2>1 DEF UploadInv
  <2>3. /\ q.host \in Nat /\ q.given \in Nat /\ Len(q.staging) \in Nat
        /\ q.given > Block /\ ~q.consumed /\ q.sent + Len(q.staging) = q.host
        /\ q.cb # "pull"
    <3>1. ~q.consumed BY <2>2 DEF Uploading
    <3>2. q.host \in Nat /\ q.given \in Nat /\ q.staging \in Seq(Nat) BY <1>1 DEF Requests
    <3>3. q.given > Block /\ q.sent + Len(q.staging) = q.host BY <2>2, <3>1 DEF Uploading
    <3> QED BY <3>1, <3>2, <3>3
  <2>4. /\ (q.host < q.given => Len(q.staging) = Block /\ q.pc = "staged")
        /\ (q.host < q.given => q.host + q.rest <= q.given)
        /\ (q.host = q.given => q.pc # "staged")
    BY <2>2, <2>3 DEF Uploading
  <2>5. q.pc \in {"staged", q.pc} /\ (q.host < q.given => q.pc = "staged") BY <2>4
  <2>6. ReqInv([HandOver(q) EXCEPT !.pc = q.pc], m)
    BY <1>1, <1>4, <2>2, <2>3, <2>4, <2>5, HandOverInv
  <2>7. [HandOver(q) EXCEPT !.pc = q.pc] = HandOver(q) BY <1>1, HandOverPc
  <2> QED BY <1>4, <2>6, <2>7 DEF coap_payload_cb
<1> QED BY <1>3, <1>4

-----------------------------------------------------------------------------
(* The response.                                                            *)

(* What the response and its way to the host leave alone. *)
SameUpload(x, q) ==
    /\ x.on = q.on /\ x.len = q.len /\ x.sent = q.sent /\ x.staging = q.staging
    /\ x.started = q.started /\ x.aborted = q.aborted /\ x.ready = q.ready
    /\ x.consumed = q.consumed /\ x.lib = q.lib /\ x.rest = q.rest /\ x.given = q.given
    /\ x.host = q.host /\ x.owed = q.owed /\ x.untrue = q.untrue
    /\ (x.pc = "staged" <=> q.pc = "staged")

LEMMA FrameInv ==
    ASSUME NEW q, NEW x \in Requests, NEW m, ReqInv(q, m), SameUpload(x, q),
           x.on => ResponseInv(x)
    PROVE  ReqInv(x, m)
<1>1. StagingInv(x) = StagingInv(q) BY DEF SameUpload, StagingInv
<1>2. Unstarted(x) = Unstarted(q) BY DEF SameUpload, Unstarted
<1>3. Uploading(x) = Uploading(q) BY DEF SameUpload, Uploading
<1>4. UploadInv(x) = UploadInv(q) BY <1>2, <1>3 DEF SameUpload, UploadInv
<1>5. AbortedInv(x, m) = AbortedInv(q, m) BY DEF SameUpload, AbortedInv
<1>6. Len(x.staging) <= Block /\ x.sent <= x.len BY DEF ReqInv, SameUpload
<1>7. x.owed = (IF x.on THEN 1 ELSE 0) /\ ~x.untrue /\ (~x.on => x.lib = "none")
      /\ (x.lib # "none" => x.started)
  BY DEF ReqInv, SameUpload
<1>8. x.on => StagingInv(x) /\ IF x.aborted THEN AbortedInv(x, m) ELSE UploadInv(x)
  BY <1>1, <1>4, <1>5 DEF ReqInv, SameUpload
<1> QED BY <1>6, <1>7, <1>8 DEF ReqInv

(* A callback that starts or a command that begins or returns: nothing of   *)
(* the response moves.                                                      *)
LEMMA PcInv ==
    ASSUME NEW q, NEW m, ReqInv(q, m), q.pc # "staged", NEW p \in {"idle", "cancel"}
    PROVE  ReqInv([q EXCEPT !.pc = p], m)
<1> DEFINE x == [q EXCEPT !.pc = p]
<1>1. q \in Requests BY DEF ReqInv
<1>2. x \in Requests BY <1>1, ZenonT(30) DEF Requests
<1>3. /\ SameUpload(x, q) /\ x.pc = p /\ x.bytes = q.bytes /\ x.rx = q.rx /\ x.resp = q.resp
      /\ x.cb = q.cb /\ x.rxc = q.rxc
  BY <1>1 DEF Requests, SameUpload
<1> HIDE DEF x
<1>4. x.on => ResponseInv(x) BY <1>3 DEF ReqInv, ResponseInv, SameUpload
<1>5. ReqInv(x, m) BY <1>2, <1>3, <1>4, FrameInv
<1> QED BY <1>5 DEF x

LEMMA AskedInv ==
    ASSUME NEW q, NEW m, ReqInv(q, m), q.lib = "up", q.cb = "idle"
    PROVE  ReqInv([q EXCEPT !.cb = "payload"], m)
<1> DEFINE x == [q EXCEPT !.cb = "payload"]
<1>1. q \in Requests /\ q.on /\ ResponseInv(q) BY DEF ReqInv
<1>2. x \in Requests BY <1>1, ZenonT(30) DEF Requests
<1>3. /\ SameUpload(x, q) /\ x.pc = q.pc /\ x.bytes = q.bytes /\ x.rx = q.rx /\ x.resp = q.resp
      /\ x.cb = "payload" /\ x.rxc = q.rxc
  BY <1>1 DEF Requests, SameUpload
<1> HIDE DEF x
<1>4. ResponseInv(x) BY <1>1, <1>3 DEF ResponseInv, SameUpload
<1>5. ReqInv(x, m) BY <1>2, <1>3, <1>4, FrameInv
<1> QED BY <1>5 DEF x

(* AT#XCOAPCDATA, ... *)
LEMMA DataInv ==
    ASSUME NEW q, NEW m, ReqInv(q, m), q.on, q.rx > 0, q.pc = "idle", NEW max \in 1..Block
    PROVE  ReqInv(handle_at_coap_data(q, max), m)
<1> DEFINE k == Least(max, q.rx)
           p == IF k > 0 /\ k = q.rx THEN "give" ELSE q.pc
           x == [q EXCEPT !.bytes = q.bytes + k, !.rx = q.rx - k, !.pc = p]
<1>1. q \in Requests /\ ResponseInv(q) BY DEF ReqInv
<1>2. q.rx \in 0..Block /\ q.rx \in Nat /\ q.bytes \in Nat /\ q.resp \in Nat /\ Block \in Nat
  BY <1>1, CoapAssumption DEF Requests
<1>3. max \in Nat /\ max > 0 BY <1>2
<1>4. k = Least(max, q.rx) /\ handle_at_coap_data(q, max) = x BY DEF handle_at_coap_data
<1> HIDE DEF k
<1>5. k \in Nat /\ k <= q.rx BY <1>2, <1>3, <1>4, LeastIs
<1>6. q.bytes + k \in Nat /\ q.rx - k \in 0..Block BY <1>2, <1>5
<1>7. p \in {"idle", "staged", "give", "cancel"} OBVIOUS
<1>8. p = "give" => k = q.rx BY DEF p
<1>9. p # "staged" OBVIOUS
<1> HIDE DEF p
<1>10. x \in Requests BY <1>1, <1>6, <1>7, ZenonT(30) DEF Requests
<1>11. /\ SameUpload(x, q) /\ x.pc = p /\ x.bytes = q.bytes + k /\ x.rx = q.rx - k
      /\ x.resp = q.resp /\ x.cb = q.cb /\ x.rxc = q.rxc
  BY <1>1, <1>9 DEF Requests, SameUpload
<1> HIDE DEF x
<1>12. ResponseInv(x)
  <2>1. x.bytes + x.rx = x.resp BY <1>1, <1>2, <1>5, <1>11 DEF ResponseInv
  <2>2. x.cb = "pull" BY <1>1, <1>11 DEF ResponseInv
  <2>3. ~x.rxc BY <1>1, <1>2, <1>11 DEF ResponseInv
  <2>4. x.pc = "give" => x.rx = 0 BY <1>2, <1>11, <1>8
  <2>5. x.lib # "none" BY <1>1, <1>11, <2>2 DEF ResponseInv, SameUpload
  <2> QED BY <2>1, <2>2, <2>3, <2>4, <2>5 DEF ResponseInv
<1>13. ReqInv(x, m) BY <1>10, <1>11, <1>12, FrameInv
<1> QED BY <1>4, <1>13

(* ... which gives a block that is drained back. *)
LEMMA GiveInv ==
    ASSUME NEW q, NEW m, ReqInv(q, m), q.on, q.pc = "give"
    PROVE  ReqInv([q EXCEPT !.pc = "idle", !.rxc = TRUE], m)
<1> DEFINE x == [q EXCEPT !.pc = "idle", !.rxc = TRUE]
<1>1. q \in Requests /\ ResponseInv(q) BY DEF ReqInv
<1>2. x \in Requests BY <1>1, ZenonT(30) DEF Requests
<1>3. /\ SameUpload(x, q) /\ x.pc = "idle" /\ x.bytes = q.bytes /\ x.rx = q.rx
      /\ x.resp = q.resp /\ x.cb = q.cb /\ x.rxc
  BY <1>1 DEF Requests, SameUpload
<1> HIDE DEF x
<1>4. ResponseInv(x) BY <1>1, <1>3 DEF ResponseInv, SameUpload
<1>5. ReqInv(x, m) BY <1>2, <1>3, <1>4, FrameInv
<1> QED BY <1>5 DEF x

(* coap_callback goes on when a block was pulled. *)
LEMMA PulledInv ==
    ASSUME NEW q, NEW m, ReqInv(q, m), q.lib # "none", q.cb = "pull", q.rxc
    PROVE  ReqInv(Pulled(q), m)
<1> DEFINE x == [q EXCEPT !.rxc = FALSE, !.cb = "idle"]
<1>1. q \in Requests /\ q.on /\ ResponseInv(q) /\ q.owed = 1 /\ ~q.untrue BY DEF ReqInv
<1>2. x \in Requests BY <1>1, ZenonT(30) DEF Requests
<1>3. /\ SameUpload(x, q) /\ x.pc = q.pc /\ x.bytes = q.bytes /\ x.rx = q.rx
      /\ x.resp = q.resp /\ x.cb = "idle" /\ ~x.rxc
  BY <1>1 DEF Requests, SameUpload
<1>4. Pulled(q) = IF q.last THEN coap_finish_request(x) ELSE x BY DEF Pulled
<1> HIDE DEF x
<1>5. ResponseInv(x) BY <1>1, <1>3 DEF ResponseInv, SameUpload
<1>6. ReqInv(x, m) BY <1>2, <1>3, <1>5, FrameInv
<1>7. x.owed = 1 /\ ~x.untrue BY <1>1, <1>3 DEF SameUpload
<1>8. x.bytes = x.resp BY <1>1, <1>2, <1>3 DEF ResponseInv, Requests
<1>9. ReqInv(coap_finish_request(x), m) BY <1>2, <1>7, <1>8, FinishInv
<1> QED BY <1>4, <1>6, <1>9

(* coap_callback with a block of the response. *)
LEMMA CallbackInv ==
    ASSUME NEW q, NEW m, ReqInv(q, m), q.lib # "none", q.cb = "idle",
           NEW n \in 0..(Block + 1), NEW last \in BOOLEAN
    PROVE  ReqInv(coap_callback(q, n, last), m)
<1> DEFINE b == IF q.manual THEN q.bytes ELSE q.bytes + n
           r == [q EXCEPT !.resp = q.resp + n, !.bytes = b]
           x == [r EXCEPT !.rx = n, !.cb = "pull", !.last = last]
<1>1. q \in Requests /\ q.on /\ ResponseInv(q) /\ q.owed = 1 /\ ~q.untrue BY DEF ReqInv
<1>2. q.bytes \in Nat /\ q.resp \in Nat /\ q.rx \in Nat /\ n \in Nat
  BY <1>1, CoapAssumption DEF Requests
<1>3. q.rx = 0 /\ q.bytes = q.resp /\ ~q.rxc /\ q.pc # "give"
  <2>1. q.rx = 0 BY <1>1, <1>2 DEF ResponseInv
  <2> QED BY <1>1, <1>2, <2>1 DEF ResponseInv
<1>4. b \in Nat /\ q.resp + n \in Nat BY <1>2
<1>5. \/ coap_callback(q, n, last) = coap_fail_request(r) /\ q.manual
      \/ coap_callback(q, n, last) = x /\ q.manual /\ n \in 0..Block
      \/ coap_callback(q, n, last) = coap_finish_request(r) /\ (n = 0 \/ ~q.manual)
      \/ coap_callback(q, n, last) = r /\ (n = 0 \/ ~q.manual)
  <2>1. n > Block \/ n \in 1..Block \/ n = 0 BY <1>2, CoapAssumption
  <2>2. n = 0 => ~(n > Block) /\ n \notin 1..Block BY CoapAssumption
  <2>3. n \in 1..Block => ~(n > Block) /\ n # 0 /\ n \in 0..Block BY <1>2, CoapAssumption
  <2>4. CASE ~q.manual BY <2>4, Zenon DEF coap_callback
  <2>5. CASE q.manual /\ n = 0 BY <2>2, <2>5, Zenon DEF coap_callback
  <2>6. CASE q.manual /\ n # 0 BY <2>1, <2>3, <2>6, SMTT(30) DEF coap_callback
  <2> QED BY <2>4, <2>5, <2>6
<1>6. (n = 0 \/ ~q.manual => b = q.resp + n) /\ (q.manual => b + n = q.resp + n)
  BY <1>2, <1>3
<1> HIDE DEF b
<1>7. r \in Requests BY <1>1, <1>4, ZenonT(30) DEF Requests
<1>8. n \in 0..Block => x \in Requests BY <1>7, ZenonT(30) DEF Requests
<1>9. /\ SameUpload(r, q) /\ r.pc = q.pc /\ r.bytes = b /\ r.rx = q.rx
      /\ r.resp = q.resp + n /\ r.cb = q.cb /\ r.rxc = q.rxc
  BY <1>1 DEF Requests, SameUpload
<1>10. /\ SameUpload(x, q) /\ x.pc = q.pc /\ x.bytes = b /\ x.rx = n
       /\ x.resp = q.resp + n /\ x.cb = "pull" /\ x.rxc = q.rxc
  BY <1>1 DEF Requests, SameUpload
<1> HIDE DEF r, x
<1>11. CASE coap_callback(q, n, last) = x /\ q.manual /\ n \in 0..Block
  <2>1. x.lib # "none" BY <1>10 DEF SameUpload
  <2>2. ResponseInv(x) BY <1>3, <1>6, <1>10, <1>11, <2>1 DEF ResponseInv
  <2> QED BY <1>8, <1>10, <1>11, <2>2, FrameInv
<1>12. CASE coap_callback(q, n, last) = coap_fail_request(r) /\ q.manual
  <2>1. r.owed = 1 /\ ~r.untrue BY <1>1, <1>9 DEF SameUpload
  <2> QED BY <1>7, <1>12, <2>1, FailInv
<1>13. CASE n = 0 \/ ~q.manual
  <2>1. r.bytes = r.resp BY <1>6, <1>9, <1>13
  <2>2. r.lib # "none" /\ r.owed = 1 /\ ~r.untrue BY <1>1, <1>9 DEF SameUpload
  <2>3. r.bytes + r.rx = r.resp /\ r.rx = 0 BY <1>3, <1>4, <1>9, <2>1
  <2>4. ResponseInv(r) BY <1>3, <1>9, <2>2, <2>3 DEF ResponseInv
  <2>5. ReqInv(r, m) BY <1>7, <1>9, <2>4, FrameInv
  <2>6. ReqInv(coap_finish_request(r), m) BY <1>7, <2>1, <2>2, FinishInv
  <2> QED BY <1>5, <1>11, <1>12, <2>5, <2>6
<1> QED BY <1>5, <1>11, <1>12, <1>13

-----------------------------------------------------------------------------
(* The invariant.                                                           *)

(* A request that AT#XCOAPCREQ has allocated. *)
LEMMA AllocInv ==
    ASSUME NEW len \in Nat, NEW manual \in BOOLEAN
    PROVE  LET q == alloc_request(len, manual)
           IN  Active(q) /\ Unstarted(q) /\ ~q.started /\ q.len = len /\ q.host = 0
<1> DEFINE q == alloc_request(len, manual)
<1>1. 0 \in Nat /\ 1 \in Nat /\ 0 \in 0..Block /\ <<>> \in Seq(Nat) /\ Len(<<>>) = 0
  BY CoapAssumption
<1>2. NoCoap \in Requests BY <1>1, ZenonT(30) DEF NoCoap, Requests
<1>3. q \in Requests BY <1>1, <1>2, ZenonT(30) DEF alloc_request, Requests
<1>4. /\ q.on /\ q.len = len /\ q.given = len /\ q.owed = 1 /\ ~q.started /\ ~q.aborted
      /\ q.sent = 0 /\ q.host = 0 /\ q.staging = <<>> /\ q.lib = "none" /\ q.cb = "idle"
      /\ q.pc = "idle" /\ ~q.ready /\ ~q.consumed /\ ~q.rxc /\ q.rx = 0 /\ q.bytes = 0
      /\ q.resp = 0 /\ ~q.untrue
  BY DEF alloc_request, NoCoap
<1> HIDE DEF q
<1>5. ResponseInv(q) BY <1>4 DEF ResponseInv
<1>6. StagingInv(q) BY <1>1, <1>4 DEF StagingInv
<1>7. Len(q.staging) = 0 /\ Len(q.staging) <= Block /\ q.sent <= q.len
  BY <1>1, <1>4, CoapAssumption
<1>8. Unstarted(q) BY <1>4, <1>7, CoapAssumption DEF Unstarted
<1>9. Active(q) BY <1>3, <1>4, <1>5, <1>6, <1>7 DEF Active
<1> QED BY <1>4, <1>8, <1>9 DEF q

(* What a DATAMODE_SEND means for data mode keeps the invariant. *)
LEMMA AfterSendInv ==
    ASSUME NEW x, \A m : ReqInv(x, m), x.on /\ x.given <= Block => ~x.started,
           mode \in {"at", "data", "null"}, AfterSend(x)
    PROVE  ReqInv(req', mode') /\ mode' \in {"at", "data", "null"}
<1>1. CASE x.on /\ x.pc # "staged" /\ x.host = x.given
  <2>1. req' \in DatamodeExit(x) /\ mode' = "at" BY <1>1, ZenonT(30) DEF AfterSend
  <2> QED BY <1>1, <2>1, ExitInv
<1>2. CASE ~(x.on /\ x.pc # "staged" /\ x.host = x.given)
  <2>1. req' = x /\ (mode' = mode \/ mode' = "null") BY <1>2, ZenonT(30) DEF AfterSend
  <2> QED BY <2>1
<1> QED BY <1>1, <1>2

LEMMA InitIInv == Init => IInv
<1> SUFFICES ASSUME Init PROVE IInv OBVIOUS
<1>1. 0 \in Nat /\ 0 \in 0..Block /\ <<>> \in Seq(Nat) /\ Len(<<>>) = 0 BY CoapAssumption
<1>2. NoCoap \in Requests BY <1>1, ZenonT(30) DEF NoCoap, Requests
<1>3. /\ ~NoCoap.on /\ NoCoap.owed = 0 /\ ~NoCoap.untrue /\ NoCoap.lib = "none"
      /\ NoCoap.staging = <<>> /\ NoCoap.sent = 0 /\ NoCoap.len = 0
  BY DEF NoCoap
<1>4. ReqInv(NoCoap, mode) BY <1>1, <1>2, <1>3, CoapAssumption DEF ReqInv
<1> QED BY <1>4, CoapAssumption DEF Init, IInv

LEMMA RequestStep ==
    ASSUME IInv, CoapRequest
    PROVE  ReqInv(req', mode') /\ mode' \in {"at", "data", "null"}
<1>1. PICK len \in PayloadLens, manual \in BOOLEAN :
        \/ len > 0 /\ req' = alloc_request(len, manual) /\ mode' = "data"
        \/ len = 0 /\ req' \in coap_start_request(alloc_request(len, manual)) /\ mode' = mode
  BY DEF CoapRequest
<1> DEFINE q == alloc_request(len, manual)
<1>2. len \in Nat BY CoapAssumption
<1>3. Active(q) /\ Unstarted(q) /\ ~q.started /\ q.len = len /\ q.host = 0
  BY <1>2, AllocInv
<1> HIDE DEF q
<1>4. CASE len > 0
  <2>1. req' = q /\ mode' = "data" BY <1>1, <1>2, <1>4 DEF q
  <2>2. UploadInv(q) BY <1>3 DEF UploadInv, Unstarted, Active
  <2>3. ReqInv(q, "data") BY <1>3, <2>2, ActiveInv DEF Unstarted
  <2> QED BY <2>1, <2>3
<1>5. CASE len = 0
  <2>1. req' \in coap_start_request(q) /\ mode' = mode BY <1>1, <1>5 DEF q
  <2>2. q.host = q.given /\ q.len <= Block BY <1>3, <1>5, CoapAssumption DEF Active
  <2>3. ReqInv(req', mode) BY <1>3, <2>1, <2>2, StartSmall
  <2> QED BY <2>1, <2>3 DEF IInv
<1> QED BY <1>2, <1>4, <1>5

LEMMA RefusedStep == ASSUME CoapRefused PROVE ReqInv(req', mode')
<1> DEFINE q == [alloc_request(0, FALSE) EXCEPT !.owed = 0]
<1>1. Active(alloc_request(0, FALSE)) BY AllocInv
<1>2. alloc_request(0, FALSE) \in Requests /\ ~alloc_request(0, FALSE).untrue BY <1>1 DEF Active
<1>3. q \in Requests /\ q.owed = 0 /\ ~q.untrue BY <1>2 DEF Requests
<1>4. req' = coap_close_request(q) BY DEF CoapRefused
<1> HIDE DEF q
<1> QED BY <1>3, <1>4, CloseInv

LEMMA DataModeSendStep ==
    ASSUME IInv, CoapDataModeSend
    PROVE  ReqInv(req', mode') /\ mode' \in {"at", "data", "null"}
<1>1. req.pc = "idle" /\ mode = "data" /\ ReqInv(req, "data") BY DEF CoapDataModeSend, Idle, IInv
<1>2. PICK n \in 1..(IF req.on THEN req.given - req.host ELSE 1) :
          \E x \in DatamodeSend(req, n) : AfterSend(x)
  BY DEF CoapDataModeSend
<1>3. PICK x \in DatamodeSend(req, n) : AfterSend(x) BY <1>2
<1>4. (\A m : ReqInv(x, m)) /\ (x.on /\ x.given <= Block => ~x.started)
  <2>1. CASE req.on
    <3>1. req.given \in Nat /\ req.host \in Nat BY <1>1 DEF ReqInv, Requests
    <3>2. n \in Nat \ {0} /\ req.host + n <= req.given BY <1>2, <2>1, <3>1
    <3> QED BY <1>1, <1>3, <2>1, <3>2, SendInv
  <2>2. CASE ~req.on
    <3>1. x = req BY <1>3, <2>2 DEF DatamodeSend
    <3> QED BY <1>1, <2>2, <3>1 DEF ReqInv
  <2> QED BY <2>1, <2>2
<1> QED BY <1>1, <1>3, <1>4, AfterSendInv

(* Each step of the host, of sm_work_q and of the library's thread.         *)
LEMMA NextIInv == IInv /\ [Next]_vars => IInv'
<1> SUFFICES ASSUME IInv, [Next]_vars PROVE IInv' OBVIOUS
<1> DEFINE Modes == mode' \in {"at", "data", "null"}
<1>1. /\ ReqInv(req, mode) /\ req \in Requests /\ mode \in {"at", "data", "null"}
      /\ (req.on => req.owed = 1) /\ ~req.untrue /\ (req.lib # "none" => req.on)
  BY DEF IInv, ReqInv
<1>2. cmds' \in 0..MaxCmds /\ wire' \in 0..MaxWire
  <2>1. cmds \in 0..MaxCmds /\ wire \in 0..MaxWire /\ MaxCmds \in Nat /\ MaxWire \in Nat
    BY CoapAssumption DEF IInv
  <2>2. \/ cmds' = cmds /\ wire' = wire
        \/ cmds < MaxCmds /\ cmds' = cmds + 1 /\ wire' = wire
        \/ wire < MaxWire /\ wire' = wire + 1 /\ cmds' = cmds
    BY DEF Next, Host, Work, Thread, CoapRequest, CoapRefused, CoapDataModeSend, DataModeExit,
           CoapData, CoapCancel, BlockConsumed, BlockTimeout, CoapGive, CoapCancels,
           PayloadAsked, PayloadTaken, PullDone, CallbackTimeout, CoapError, CoapResponse,
           Cmd, Step, Still, vars
  <2> QED BY <2>1, <2>2
<1>3. ReqInv(req', mode') /\ Modes
  <2>1. CASE CoapRequest BY <2>1, RequestStep
  <2>2. CASE CoapRefused BY <2>2, <1>1, RefusedStep DEF CoapRefused
  <2>3. CASE CoapDataModeSend BY <2>3, DataModeSendStep
  <2>4. CASE DataModeExit
    BY <2>4, <1>1 DEF DataModeExit, ReqInv, AbortedInv
  <2>5. CASE CoapData
    <3>1. PICK max \in 1..Block : req' = handle_at_coap_data(req, max) BY <2>5 DEF CoapData
    <3>2. req.on /\ req.rx > 0 /\ req.pc = "idle" /\ mode' = mode
      BY <2>5 DEF CoapData, Accepts, Idle, Still
    <3> QED BY <1>1, <3>1, <3>2, DataInv
  <2>6. CASE CoapCancel
    <3>1. req' = [req EXCEPT !.pc = "cancel"] /\ req.pc # "staged" /\ mode' = mode
      BY <2>6 DEF CoapCancel, Accepts, Idle, Still
    <3>2. ReqInv([req EXCEPT !.pc = "cancel"], mode) BY <1>1, <3>1, PcInv
    <3> QED BY <1>1, <3>1, <3>2
  <2>7. CASE BlockConsumed
    <3>1. PICK x \in Consumed(req) : AfterSend(x) BY <2>7 DEF BlockConsumed
    <3>2. req.pc = "staged" /\ req.on /\ req.consumed BY <2>7 DEF BlockConsumed
    <3>3. (\A m : ReqInv(x, m)) /\ (x.on /\ x.given <= Block => ~x.started)
      BY <1>1, <3>1, <3>2, ConsumedInv
    <3> QED BY <1>1, <3>1, <3>3, AfterSendInv
  <2>8. CASE BlockTimeout
    <3>1. req.pc = "staged" /\ req.on /\ ~req.consumed /\ mode' = "null"
          /\ req' \in DatamodeExit(ConsumedTimeout(req))
      BY <2>8 DEF BlockTimeout
    <3> QED BY <1>1, <3>1, TimeoutInv
  <2>9. CASE CoapGive
    <3>1. req.pc = "give" /\ req.on /\ req' = [req EXCEPT !.pc = "idle", !.rxc = TRUE]
          /\ mode' = mode
      BY <2>9 DEF CoapGive, Still
    <3>2. ReqInv([req EXCEPT !.pc = "idle", !.rxc = TRUE], mode) BY <1>1, <3>1, GiveInv
    <3> QED BY <1>1, <3>1, <3>2
  <2>10. CASE CoapCancels
    <3> DEFINE q == [req EXCEPT !.pc = "idle"]
    <3>1. req' = (IF q.lib = "none" THEN q ELSE coap_fail_request(q)) /\ mode' = mode
          /\ req.pc # "staged"
      BY <2>10 DEF CoapCancels, Still
    <3>2. q.lib = req.lib /\ q.owed = req.owed /\ q.untrue = req.untrue BY <1>1 DEF Requests
    <3>3. ReqInv(q, mode) BY <1>1, <3>1, PcInv
    <3> HIDE DEF q
    <3>4. q \in Requests BY <3>3 DEF ReqInv
    <3>5. CASE q.lib = "none" BY <1>1, <3>1, <3>3, <3>5
    <3>6. CASE q.lib # "none"
      <4>1. q.owed = 1 /\ ~q.untrue BY <1>1, <3>2, <3>6
      <4> QED BY <1>1, <3>1, <3>4, <3>6, <4>1, FailInv
    <3> QED BY <3>5, <3>6
  <2>11. CASE PayloadAsked
    <3>1. req' = [req EXCEPT !.cb = "payload"] /\ req.lib = "up" /\ req.cb = "idle" /\ mode' = mode
      BY <2>11 DEF PayloadAsked, LibraryAt, Still
    <3>2. ReqInv([req EXCEPT !.cb = "payload"], mode) BY <1>1, <3>1, AskedInv
    <3> QED BY <1>1, <3>1, <3>2
  <2>12. CASE PayloadTaken
    BY <1>1, <2>12, PayloadInv DEF PayloadTaken, LibraryAt, Still
  <2>13. CASE PullDone BY <1>1, <2>13, PulledInv DEF PullDone, LibraryAt, Still
  <2>14. CASE CallbackTimeout
    <3>1. req.lib # "none" /\ req' = coap_fail_request(req) /\ mode' = mode
      BY <2>14 DEF CallbackTimeout, LibraryAt, Still
    <3> QED BY <1>1, <3>1, FailInv
  <2>15. CASE CoapError
    <3>1. req.lib # "none" /\ req' = coap_fail_request(req) /\ mode' = mode
      BY <2>15 DEF CoapError, LibraryAt, Still
    <3> QED BY <1>1, <3>1, FailInv
  <2>16. CASE CoapResponse
    <3>1. PICK n \in 0..(Block + 1), last \in BOOLEAN : req' = coap_callback(req, n, last)
      BY <2>16 DEF CoapResponse
    <3>2. req.lib # "none" /\ req.cb = "idle" /\ mode' = mode
      BY <2>16 DEF CoapResponse, LibraryAt
    <3> QED BY <1>1, <3>1, <3>2, CallbackInv
  <2>17. CASE UNCHANGED vars BY <1>1, <2>17 DEF vars
  <2> QED BY <2>1, <2>2, <2>3, <2>4, <2>5, <2>6, <2>7, <2>8, <2>9, <2>10, <2>11, <2>12, <2>13,
             <2>14, <2>15, <2>16, <2>17 DEF Next, Host, Work, Thread
<1> QED BY <1>2, <1>3 DEF IInv

LEMMA IInvInvariant == Spec => []IInv
BY InitIInv, NextIInv, PTL DEF Spec

-----------------------------------------------------------------------------
(* The fields of struct coap_request, for every block size and payload: the *)
(* staging buffer is never overrun, no more than payload_len is handed      *)
(* over, and the library never holds a request that was freed.              *)
THEOREM TypeCorrect == Spec => []TypeOK
<1>1. IInv => TypeOK BY DEF IInv, ReqInv, TypeOK
<1> QED BY <1>1, IInvInvariant, PTL

(* Every request that was accepted is active or has ended with exactly one  *)
(* #XCOAPCSTAT; with the status of the server the host has the whole        *)
(* response, and every block handed to the library is what the host sent    *)
(* next.                                                                    *)
THEOREM SettledCorrect == Spec => []RequestSettled
<1>1. IInv => RequestSettled BY DEF IInv, ReqInv, RequestSettled
<1> QED BY <1>1, IInvInvariant, PTL

(* The library is told that a payload is complete only when it has all that *)
(* the host announced, however the waits of the two threads time out.       *)
THEOREM UploadCorrect == Spec => []UploadWhole
<1>1. IInv => UploadWhole BY DEF IInv, ReqInv, UploadWhole, UploadInv, AbortedInv
<1> QED BY <1>1, IInvInvariant, PTL
=============================================================================
