--------------------------- MODULE DataModeProofs ---------------------------
(***************************************************************************)
(* Proofs about DataMode, for every terminator, buffer size and set of     *)
(* lengths, and for both answers of sm_at_host_get_current() to a NULL     *)
(* current_ctx.  The operations on a context are sets of outcomes, so the  *)
(* proof goes operation by operation: what an outcome of raw_send and of   *)
(* write_data_buf is for a context in data mode (it goes on, or the send   *)
(* failed and it is in null mode), then for a byte, then for a step.       *)
(***************************************************************************)
EXTENDS DataMode, SequenceTheorems, TLAPS

(* The context is the one sm_at_host_get_current() gives. *)
Own(c) == sm_at_host_get_current(c) = "own"

(* In data mode, with all of s handed over or buffered. *)
Live(c, s) ==
    /\ c.at_mode = "DATA" /\ c.handler /\ c.handler_result
    /\ c.null_match_count = 0
    /\ s = c.handed \o c.data_rb

(* The service met no error of its own. *)
NoError == FALSE

(* In null mode after s was received: the handler is gone for good.  Unless *)
(* the service met an error of its own (e), some of s was refused, and none *)
(* of that is of the terminator matched since.                              *)
Dead(c, s, e) ==
    /\ c.at_mode = "NULL" /\ ~c.handler /\ ~c.handler_result
    /\ e = TRUE \/ Len(c.handed) + c.null_match_count < Len(s)

(* In AT mode, with nothing of the session left. *)
Clean(c) ==
    /\ c.at_mode = "AT"
    /\ c.data_rb = <<>> /\ c.data_len = 0
    /\ c.quit_str_match = 0 /\ c.null_match_count = 0
    /\ ~c.handler /\ c.handler_result

(* The result of a session entered with data_len n, in which s was received. *)
Truthful(c, s, n, e) ==
    IF c.rsp.ok THEN /\ n = 0 => c.handed = SubSeq(s, 1, Len(s) - Len(Terminator))
                     /\ n > 0 => c.handed = s /\ Len(s) = n
                ELSE \/ e = TRUE
                     \/ Len(c.handed) < Len(s) - Len(Terminator)
                     \/ Len(s) = n /\ Len(c.handed) < n

(* The conjuncts of the inductive invariant: what each mode means for the   *)
(* bytes received so far.  In data mode the work queue uses this context.   *)
TypeLogs == input \in Seq(Chars) /\ asked \in 0..SIZE_MAX /\ sessions \in Nat
            /\ erred \in BOOLEAN

InData(c, s, n) ==
    /\ Live(c, c.handed \o c.data_rb)
    /\ s = c.handed \o c.data_rb \o QuitStr(c.quit_str_match)
    /\ n = 0 => c.data_len = 0
    /\ n > 0 => c.data_len = n - Len(s) /\ c.data_len > 0 /\ c.quit_str_match = 0

ModeMeans(c, s, n, e) ==
    /\ c.at_mode = "DATA" => InData(c, s, n)
    /\ c.at_mode = "NULL" => Dead(c, s, e)
    /\ c.at_mode = "AT" => Clean(c)

IInv ==
    /\ TypeOK /\ TypeLogs
    /\ ModeMeans(ctx, input, asked, erred)
    /\ (ctx.at_mode = "AT" /\ sessions > 0) => Truthful(ctx, input, asked, erred)
    /\ (ctx.at_mode = "DATA" /\ rxWork) => Own(ctx)
    /\ ctx.at_mode = "DATA" => ~erred

-----------------------------------------------------------------------------
(* Sequences. *)

(* Concatenation of what was handed over, buffered and written. *)
LEMMA Assoc ==
    ASSUME NEW s \in Seq(Chars), NEW t \in Seq(Chars), NEW u \in Seq(Chars)
    PROVE  (s \o t) \o u = s \o (t \o u)
BY ConcatAssociative

(* What a concatenation is. *)
LEMMA Cat ==
    ASSUME NEW S, NEW s \in Seq(S), NEW t \in Seq(S)
    PROVE  s \o t \in Seq(S) /\ Len(s \o t) = Len(s) + Len(t)
OBVIOUS

(* A sequence is its first k elements followed by the others. *)
LEMMA Split ==
    ASSUME NEW S, NEW s \in Seq(S), NEW k \in 0..Len(s)
    PROVE  /\ SubSeq(s, 1, k) \in Seq(S) /\ Len(SubSeq(s, 1, k)) = k
           /\ SubSeq(s, k + 1, Len(s)) \in Seq(S)
           /\ Len(SubSeq(s, k + 1, Len(s))) = Len(s) - k
           /\ s = SubSeq(s, 1, k) \o SubSeq(s, k + 1, Len(s))
<1>1. /\ SubSeq(s, 1, k) \in Seq(S) /\ Len(SubSeq(s, 1, k)) = k
      /\ \A i \in 1..k : SubSeq(s, 1, k)[i] = s[i]
  OBVIOUS
<1>2. /\ SubSeq(s, k + 1, Len(s)) \in Seq(S)
      /\ Len(SubSeq(s, k + 1, Len(s))) = Len(s) - k
      /\ \A i \in 1..(Len(s) - k) : SubSeq(s, k + 1, Len(s))[i] = s[k + i]
  OBVIOUS
<1> DEFINE a == SubSeq(s, 1, k)
           b == SubSeq(s, k + 1, Len(s))
<1>3. /\ a \in Seq(S) /\ b \in Seq(S) /\ Len(a) = k /\ Len(b) = Len(s) - k
      /\ \A i \in 1..k : a[i] = s[i]
      /\ \A i \in 1..(Len(s) - k) : b[i] = s[k + i]
  BY <1>1, <1>2
<1> HIDE DEF a, b
<1>4. a \o b \in Seq(S) /\ Len(a \o b) = Len(s)
  BY <1>3
<1>5. \A i \in 1..Len(s) : (a \o b)[i] = s[i]
  <2> TAKE i \in 1..Len(s)
  <2>1. CASE i <= k
    BY <1>3, <2>1
  <2>2. CASE i > k
    <3>1. (a \o b)[i] = b[i - k] /\ i - k \in 1..(Len(s) - k)
      BY <1>3, <2>2
    <3> QED BY <1>3, <3>1
  <2>3. i <= k \/ i > k
    BY Len(s) \in Nat
  <2> QED BY <2>1, <2>2, <2>3
<1>6. a \o b = s
  BY <1>4, <1>5, SeqEqual
<1> QED BY <1>1, <1>2, <1>6 DEF a, b

(* The part of the terminator that is held back. *)
LEMMA QuitStrSeq ==
    ASSUME NEW n \in 0..Len(Terminator)
    PROVE  QuitStr(n) \in Seq(Chars) /\ Len(QuitStr(n)) = n
BY DataModeAssumption DEF QuitStr

-----------------------------------------------------------------------------
(* The operations. *)

(* A context whose buffer keeps to its size. *)
Fits(c) == c \in Ctx /\ Len(c.data_rb) <= Capacity

(* The fields of a context and the constants that bound them. *)
LEMMA CtxTypes ==
    ASSUME NEW c, c \in Ctx
    PROVE  /\ c.data_rb \in Seq(Chars) /\ Len(c.data_rb) \in Nat
           /\ c.handed \in Seq(Chars) /\ Len(c.handed) \in Nat
           /\ c.quit_str_match \in 0..Len(Terminator) - 1
           /\ c.null_match_count \in 0..Len(Terminator) - 1
           /\ c.data_len \in 0..SIZE_MAX
           /\ Capacity \in Nat /\ Len(Terminator) \in Nat \ {0}
           /\ Len(Terminator) <= Capacity /\ SIZE_MAX \in Nat
<1>1. /\ Capacity \in Nat /\ Len(Terminator) \in Nat \ {0}
      /\ Len(Terminator) <= Capacity /\ SIZE_MAX \in Nat
  BY DataModeAssumption
<1>2. /\ c.data_rb \in Seq(Chars) /\ c.handed \in Seq(Chars)
      /\ c.quit_str_match \in 0..Len(Terminator) - 1
      /\ c.null_match_count \in 0..Len(Terminator) - 1
      /\ c.data_len \in 0..SIZE_MAX
  BY DEF Ctx
<1> QED BY <1>1, <1>2

(* The fields of a context whose buffer is written. *)
LEMMA SetBuffer ==
    ASSUME NEW c, c \in Ctx, NEW r \in Seq(Chars), NEW d, d = [c EXCEPT !.data_rb = r]
    PROVE  /\ d \in Ctx /\ d.data_rb = r /\ d.handed = c.handed
           /\ d.at_mode = c.at_mode /\ d.handler = c.handler
           /\ d.handler_result = c.handler_result /\ d.data_len = c.data_len
           /\ d.quit_str_match = c.quit_str_match
           /\ d.null_match_count = c.null_match_count
           /\ d.current = c.current /\ d.rsp = c.rsp
BY DEF Ctx

(* exit_datamode_handler leaves data mode for null mode. *)
LEMMA ExitHandler ==
    ASSUME NEW c, c \in Ctx, c.at_mode # "AT", NEW d, d = exit_datamode_handler(c)
    PROVE  /\ d \in Ctx /\ d.at_mode = "NULL" /\ ~d.handler /\ ~d.handler_result
           /\ d.data_len = 0 /\ d.handed = c.handed /\ d.data_rb = c.data_rb
           /\ d.quit_str_match = c.quit_str_match
           /\ d.null_match_count = c.null_match_count
<1>1. 0 \in 0..SIZE_MAX
  BY CtxTypes
<1>2. d = [c EXCEPT !.at_mode = "NULL", !.handler = FALSE, !.handler_result = FALSE,
                    !.data_len = 0, !.current = FALSE]
  BY DEF exit_datamode_handler
<1>3. d \in Ctx
  BY <1>1, <1>2 DEF Ctx
<1>4. /\ d.at_mode = "NULL" /\ d.handler = FALSE /\ d.handler_result = FALSE
      /\ d.data_len = 0 /\ d.handed = c.handed /\ d.data_rb = c.data_rb
      /\ d.quit_str_match = c.quit_str_match
      /\ d.null_match_count = c.null_match_count
  BY <1>2 DEF Ctx
<1> QED BY <1>3, <1>4

(* exit_datamode leaves a clean context in AT mode and reports the result   *)
(* of the handler.                                                          *)
LEMMA Exit ==
    ASSUME NEW c, c \in Ctx, NEW e, e = exit_datamode(c)
    PROVE  /\ e \in Ctx /\ e.handed = c.handed
           /\ e.rsp.ok = c.handler_result
           /\ e.null_match_count = c.null_match_count
           /\ e.at_mode = "AT" /\ e.handler = FALSE /\ e.handler_result = TRUE
           /\ e.data_len = 0 /\ e.quit_str_match = 0 /\ e.data_rb = <<>>
<1> DEFINE r == [to |-> sm_at_host_get_current(c), ok |-> c.handler_result]
<1>1. /\ sm_at_host_get_current(c) \in {"own", "other"} /\ c.handler_result \in BOOLEAN
  BY DEF sm_at_host_get_current, Ctx
<1>2. r \in [to : {"nobody", "own", "other"}, ok : BOOLEAN] /\ r.ok = c.handler_result
  BY <1>1
<1>3. 0 \in 0..SIZE_MAX /\ 0 \in 0..Len(Terminator) - 1 /\ <<>> \in Seq(Chars)
  BY CtxTypes
<1>4. e = [c EXCEPT !.at_mode = "AT", !.handler = FALSE, !.handler_result = TRUE,
              !.data_len = 0, !.quit_str_match = 0, !.data_rb = <<>>, !.rsp = r]
  BY DEF exit_datamode
<1> HIDE DEF r
<1>5. e \in Ctx
  BY <1>2, <1>3, <1>4, ZenonT(30) DEF Ctx
<1>6. /\ e.at_mode = "AT" /\ e.handler = FALSE /\ e.handler_result = TRUE
      /\ e.data_len = 0 /\ e.quit_str_match = 0 /\ e.data_rb = <<>> /\ e.rsp = r
      /\ e.null_match_count = c.null_match_count /\ e.handed = c.handed
  BY <1>4 DEF Ctx
<1> QED BY <1>2, <1>5, <1>6

(* In data mode, raw_send hands over the whole buffer, or it fails before   *)
(* its end and data mode is left.                                           *)
LEMMA SendLive ==
    ASSUME NEW c, c \in Ctx, NEW s, Own(c), Live(c, s), NEW d \in raw_send(c)
    PROVE  /\ d \in Ctx /\ d.quit_str_match = c.quit_str_match
           /\ d.null_match_count = 0 /\ d.data_rb = <<>>
           /\ \/ /\ Live(d, s) /\ d.handed = s
                 /\ d.data_len = c.data_len /\ d.current = c.current
              \/ Dead(d, s, NoError) /\ d.data_len = 0 /\ Len(d.handed) < Len(s)
<1>1. PICK k \in 0..Len(c.data_rb) : d = Sent(c, k)
  BY DEF raw_send, Own, Live
<1> DEFINE h == c.handed \o SubSeq(c.data_rb, 1, k)
           b == [c EXCEPT !.handed = h, !.data_rb = <<>>]
<1>2. /\ SubSeq(c.data_rb, 1, k) \in Seq(Chars)
      /\ Len(SubSeq(c.data_rb, 1, k)) = k /\ k \in Nat
  BY CtxTypes, Split
<1>3. h \in Seq(Chars) /\ Len(h) = Len(c.handed) + k
  <2> HIDE DEF b
  <2>1. c.handed \in Seq(Chars)
    BY CtxTypes
  <2> QED BY <1>2, <2>1, Cat
<1>4. Len(s) = Len(c.handed) + Len(c.data_rb)
  BY CtxTypes DEF Live
<1>5. /\ b \in Ctx /\ b.quit_str_match = c.quit_str_match /\ b.data_rb = <<>>
      /\ b.null_match_count = 0 /\ b.data_len = c.data_len /\ b.current = c.current
      /\ b.at_mode = "DATA" /\ b.handler = c.handler
      /\ b.handler_result = c.handler_result /\ b.handed = h
  <2> HIDE DEF h
  <2>1. c.at_mode = "DATA" /\ c.null_match_count = 0 /\ <<>> \in Seq(Chars)
    BY DEF Live
  <2> QED BY <1>3, <2>1 DEF Ctx
<1>6. CASE k = Len(c.data_rb)
  <2>1. SubSeq(c.data_rb, 1, k) = c.data_rb
    BY <1>6, CtxTypes
  <2>2. d = b
    BY <1>1, <1>6 DEF Sent
  <2>3. s = h
    BY <2>1 DEF Live
  <2>4. h \o <<>> = h
    BY <1>3
  <2> HIDE DEF b, h
  <2> QED BY <1>5, <2>2, <2>3, <2>4 DEF Live
<1>7. CASE k # Len(c.data_rb)
  <2>1. d = exit_datamode_handler(b)
    BY <1>1, <1>7 DEF Sent
  <2> HIDE DEF b, h
  <2>2. Len(h) < Len(s) /\ Len(h) <= Len(s)
    <3>1. Len(c.handed) \in Nat /\ Len(c.data_rb) \in Nat
      BY CtxTypes
    <3>2. k < Len(c.data_rb)
      BY <1>7, <3>1
    <3>3. Len(h) = Len(c.handed) + k /\ k \in Nat
      BY <1>2, <1>3
    <3> DEFINE m == Len(c.handed)
               n == Len(c.data_rb)
    <3>4. Len(h) = m + k /\ Len(s) = m + n /\ m \in Nat /\ n \in Nat /\ k < n
      BY <1>4, <3>1, <3>2, <3>3
    <3> HIDE DEF m, n
    <3> QED BY <3>3, <3>4
  <2>3. /\ d \in Ctx /\ d.at_mode = "NULL" /\ ~d.handler /\ ~d.handler_result
        /\ d.data_len = 0 /\ d.handed = h /\ d.data_rb = <<>>
        /\ d.quit_str_match = c.quit_str_match /\ d.null_match_count = 0
    BY <1>5, <2>1, ExitHandler
  <2>4. Len(d.handed) + d.null_match_count < Len(s)
    BY <1>3, <2>2, <2>3
  <2> QED BY <2>2, <2>3, <2>4 DEF Dead
<1> QED BY <1>6, <1>7

(* In null mode, raw_send drops the buffer or does nothing. *)
LEMMA SendDead ==
    ASSUME NEW c, c \in Ctx, NEW s, NEW x, Dead(c, s, x), NEW d \in raw_send(c)
    PROVE  /\ d \in Ctx /\ d.quit_str_match = c.quit_str_match
           /\ d.data_len = c.data_len /\ d.null_match_count = c.null_match_count
           /\ Dead(d, s, x)
           /\ d.data_rb = c.data_rb \/ d.data_rb = <<>>
<1>1. d = c \/ d = [c EXCEPT !.data_rb = <<>>]
  BY DEF raw_send, Dead
<1>2. CASE d = [c EXCEPT !.data_rb = <<>>]
  <2>1. /\ d \in Ctx /\ d.data_rb = <<>> /\ d.handed = c.handed
        /\ d.at_mode = c.at_mode /\ d.handler = c.handler
        /\ d.handler_result = c.handler_result /\ d.data_len = c.data_len
        /\ d.quit_str_match = c.quit_str_match
        /\ d.null_match_count = c.null_match_count
    BY <1>2, <<>> \in Seq(Chars) DEF Ctx
  <2> QED BY <2>1 DEF Dead
<1> QED BY <1>1, <1>2

(* In data mode, write_data_buf buffers all it is given, or a send fails on *)
(* the way.                                                                 *)
LEMMA WriteLive ==
    ASSUME NEW c, Fits(c), NEW s \in Seq(Chars), Own(c), Live(c, s),
           NEW buf \in Seq(Chars), Len(buf) <= Capacity,
           NEW d \in write_data_buf(c, buf)
    PROVE  /\ Fits(d) /\ d.quit_str_match = c.quit_str_match
           /\ d.null_match_count = 0
           /\ \/ /\ Live(d, s \o buf)
                 /\ d.data_len = c.data_len /\ d.current = c.current
              \/ Dead(d, s \o buf, NoError) /\ d.data_len = 0
<1> DEFINE room == Capacity - Len(c.data_rb)
<1>1. /\ c \in Ctx /\ room \in Nat /\ Len(c.data_rb) \in Nat /\ Capacity \in Nat
      /\ c.data_rb \in Seq(Chars) /\ c.handed \in Seq(Chars)
      /\ Len(buf) \in Nat /\ Len(s) \in Nat
  BY CtxTypes DEF Fits
<1>2. CASE Len(buf) <= room
  <2>1. d = [c EXCEPT !.data_rb = c.data_rb \o buf]
    BY <1>2 DEF write_data_buf, Own
  <2> DEFINE r == c.data_rb \o buf
  <2>2. r \in Seq(Chars) /\ Len(r) = Len(c.data_rb) + Len(buf)
    BY <1>1, Cat
  <2>3. c.handed \o r = s \o buf
    <3>1. (c.handed \o c.data_rb) \o buf = c.handed \o (c.data_rb \o buf)
      BY <1>1, Assoc
    <3> QED BY <3>1 DEF Live
  <2> HIDE DEF r
  <2>4. /\ d \in Ctx /\ d.data_rb = r /\ d.handed = c.handed
        /\ d.at_mode = c.at_mode /\ d.handler = c.handler
        /\ d.handler_result = c.handler_result /\ d.data_len = c.data_len
        /\ d.quit_str_match = c.quit_str_match
        /\ d.null_match_count = c.null_match_count /\ d.current = c.current
    BY <1>1, <2>1, <2>2 DEF Ctx, r
  <2>5. Len(r) <= Capacity
    BY <1>1, <1>2, <2>2
  <2> QED BY <2>3, <2>4, <2>5 DEF Live, Fits
<1>3. CASE ~(Len(buf) <= room)
  <2> DEFINE p == SubSeq(buf, 1, room)
             q == SubSeq(buf, room + 1, Len(buf))
             r == c.data_rb \o p
             b == [c EXCEPT !.data_rb = r]
  <2>1. PICK f \in raw_send(b) : d = [f EXCEPT !.data_rb = q]
    BY <1>3 DEF write_data_buf, Own
  <2>2. room \in 0..Len(buf)
    BY <1>1, <1>3
  <2>3. /\ p \in Seq(Chars) /\ Len(p) = room
        /\ q \in Seq(Chars) /\ Len(q) = Len(buf) - room /\ buf = p \o q
    <3> HIDE DEF room
    <3> QED BY <2>2, Split, ZenonT(30)
  <2> HIDE DEF p, q
  <2>4. r \in Seq(Chars)
    BY <1>1, <2>3, Cat
  <2>5. c.handed \o r = s \o p
    <3>0. c.handed \in Seq(Chars) /\ c.data_rb \in Seq(Chars) /\ p \in Seq(Chars)
      BY <1>1, <2>3
    <3>1. (c.handed \o c.data_rb) \o p = c.handed \o (c.data_rb \o p)
      BY <3>0, Assoc, ZenonT(30)
    <3> QED BY <3>1 DEF Live
  <2> HIDE DEF r
  <2>6. /\ b \in Ctx /\ b.data_rb = r /\ b.handed = c.handed
        /\ b.at_mode = c.at_mode /\ b.handler = c.handler
        /\ b.handler_result = c.handler_result /\ b.data_len = c.data_len
        /\ b.quit_str_match = c.quit_str_match
        /\ b.null_match_count = c.null_match_count /\ b.current = c.current
    BY <1>1, <2>4 DEF Ctx
  <2> HIDE DEF b, room
  <2>7. Own(b) /\ Live(b, s \o p)
    BY <2>5, <2>6 DEF Own, Live, sm_at_host_get_current
  <2>8. /\ f \in Ctx /\ f.quit_str_match = b.quit_str_match
        /\ f.null_match_count = 0
        /\ \/ /\ Live(f, s \o p) /\ f.handed = s \o p
              /\ f.data_len = b.data_len /\ f.current = b.current
           \/ Dead(f, s \o p, NoError) /\ f.data_len = 0
    BY <2>1, <2>6, <2>7, SendLive
  <2>9. /\ d \in Ctx /\ d.data_rb = q /\ d.handed = f.handed
        /\ d.at_mode = f.at_mode /\ d.handler = f.handler
        /\ d.handler_result = f.handler_result /\ d.data_len = f.data_len
        /\ d.quit_str_match = f.quit_str_match
        /\ d.null_match_count = f.null_match_count /\ d.current = f.current
    BY <2>1, <2>3, <2>8 DEF Ctx
  <2>10. Len(q) <= Capacity
    BY <1>1, <2>2, <2>3
  <2>11. CASE Live(f, s \o p) /\ f.handed = s \o p /\ f.data_len = b.data_len
              /\ f.current = b.current
    <3>0. (s \o p) \o q = s \o (p \o q)
      BY <2>3, Assoc, ZenonT(30)
    <3>1. (s \o p) \o q = s \o buf
      BY <2>3, <3>0
    <3> QED BY <2>6, <2>8, <2>9, <2>10, <2>11, <3>1 DEF Live, Fits
  <2>12. CASE Dead(f, s \o p, NoError) /\ f.data_len = 0
    <3>1. Len(s \o p) = Len(s) + room /\ Len(s \o buf) = Len(s) + Len(buf)
      BY <2>3, Cat
    <3>2. Len(f.handed) < Len(s \o buf)
      <4> DEFINE x == Len(s \o p)
                 y == Len(s \o buf)
                 z == Len(f.handed)
      <4>1. x \in Nat /\ y \in Nat /\ x <= y
        BY <1>1, <2>2, <3>1
      <4>2. z \in Nat /\ z < x
        <5>1. z \in Nat
          BY <2>8, CtxTypes
        <5>2. z + 0 < x
          BY <2>8, <2>12 DEF Dead, NoError
        <5> QED BY <4>1, <5>1, <5>2
      <4> HIDE DEF x, y, z
      <4>3. z < y
        BY <4>1, <4>2
      <4> QED BY <4>3 DEF y, z
    <3>3. Len(d.handed) + d.null_match_count < Len(s \o buf)
      <4>1. d.null_match_count = 0 /\ d.handed = f.handed /\ Len(f.handed) \in Nat
        BY <2>8, <2>9, CtxTypes
      <4> QED BY <3>2, <4>1
    <3> QED BY <2>6, <2>8, <2>9, <2>10, <2>12, <3>3 DEF Dead, Fits
  <2> QED BY <2>8, <2>11, <2>12
<1> QED BY <1>2, <1>3

(* In null mode, nothing that is written reaches the handler. *)
LEMMA WriteDead ==
    ASSUME NEW c, Fits(c), NEW s, NEW x, Dead(c, s, x),
           NEW buf \in Seq(Chars), Len(buf) <= Capacity,
           NEW d \in write_data_buf(c, buf)
    PROVE  /\ Fits(d) /\ d.quit_str_match = c.quit_str_match
           /\ d.data_len = c.data_len /\ d.null_match_count = c.null_match_count
           /\ Dead(d, s, x)
<1> DEFINE room == Capacity - Len(c.data_rb)
<1>1. /\ c \in Ctx /\ room \in Nat /\ Len(c.data_rb) \in Nat /\ Capacity \in Nat
      /\ c.data_rb \in Seq(Chars) /\ Len(buf) \in Nat
  BY CtxTypes DEF Fits
<1>2. CASE d = [c EXCEPT !.hung = TRUE]
  <2>1. /\ d \in Ctx /\ d.data_rb = c.data_rb /\ d.handed = c.handed
        /\ d.at_mode = c.at_mode /\ d.handler = c.handler
        /\ d.handler_result = c.handler_result /\ d.data_len = c.data_len
        /\ d.quit_str_match = c.quit_str_match
        /\ d.null_match_count = c.null_match_count
    BY <1>1, <1>2 DEF Ctx
  <2> QED BY <2>1 DEF Dead, Fits
<1>3. CASE d = [c EXCEPT !.data_rb = c.data_rb \o buf] /\ Len(buf) <= room
  <2> DEFINE r == c.data_rb \o buf
  <2>1. r \in Seq(Chars) /\ Len(r) = Len(c.data_rb) + Len(buf)
    BY <1>1, Cat
  <2> HIDE DEF r
  <2>2. /\ d \in Ctx /\ d.data_rb = r /\ d.handed = c.handed
        /\ d.at_mode = c.at_mode /\ d.handler = c.handler
        /\ d.handler_result = c.handler_result /\ d.data_len = c.data_len
        /\ d.quit_str_match = c.quit_str_match
        /\ d.null_match_count = c.null_match_count
    BY <1>1, <1>3, <2>1 DEF Ctx, r
  <2>3. Len(r) <= Capacity
    BY <1>1, <1>3, <2>1
  <2> QED BY <2>2, <2>3 DEF Dead, Fits
<1>4. CASE /\ ~(Len(buf) <= room)
           /\ d \in {[f EXCEPT !.data_rb = SubSeq(buf, room + 1, Len(buf))] :
                    f \in raw_send([c EXCEPT !.data_rb = @ \o SubSeq(buf, 1, room)])}
  <2> DEFINE p == SubSeq(buf, 1, room)
             q == SubSeq(buf, room + 1, Len(buf))
             r == c.data_rb \o p
             b == [c EXCEPT !.data_rb = r]
  <2>1. PICK f \in raw_send(b) : d = [f EXCEPT !.data_rb = q]
    BY <1>4
  <2>2. room \in 0..Len(buf)
    BY <1>1, <1>4
  <2>3. /\ p \in Seq(Chars) /\ q \in Seq(Chars) /\ Len(q) = Len(buf) - room
    <3> HIDE DEF room
    <3> QED BY <2>2, Split
  <2> HIDE DEF p, q
  <2>4. r \in Seq(Chars)
    BY <1>1, <2>3, Cat
  <2> HIDE DEF r
  <2>5. /\ b \in Ctx /\ b.handed = c.handed
        /\ b.at_mode = c.at_mode /\ b.handler = c.handler
        /\ b.handler_result = c.handler_result /\ b.data_len = c.data_len
        /\ b.quit_str_match = c.quit_str_match
        /\ b.null_match_count = c.null_match_count
    BY <1>1, <2>4 DEF Ctx
  <2> HIDE DEF b, room
  <2>6. Dead(b, s, x)
    BY <2>5 DEF Dead
  <2>7. /\ f \in Ctx /\ f.quit_str_match = c.quit_str_match
        /\ f.data_len = c.data_len
        /\ f.null_match_count = c.null_match_count /\ Dead(f, s, x)
    BY <2>1, <2>5, <2>6, SendDead
  <2>8. /\ d \in Ctx /\ d.data_rb = q /\ d.handed = f.handed
        /\ d.at_mode = f.at_mode /\ d.handler = f.handler
        /\ d.handler_result = f.handler_result /\ d.data_len = f.data_len
        /\ d.quit_str_match = f.quit_str_match
        /\ d.null_match_count = f.null_match_count
    BY <2>1, <2>3, <2>7 DEF Ctx
  <2>9. Len(q) <= Capacity
    BY <1>1, <2>2, <2>3
  <2> QED BY <2>7, <2>8, <2>9 DEF Dead, Fits
<1> QED BY <1>2, <1>3, <1>4 DEF write_data_buf

-----------------------------------------------------------------------------
(* A byte. *)

(* What handling a byte may leave behind: the modes keep their meaning for  *)
(* the bytes t received by then, a result is true of them, and data mode    *)
(* goes on only for the same current context.                               *)
Handled(c, d, t, n, x) ==
    /\ Fits(d) /\ ModeMeans(d, t, n, x)
    /\ d.at_mode = "AT" => Truthful(d, t, n, x)
    /\ d.at_mode = "DATA" => d.current = c.current

(* One more character of the terminator. *)
LEMMA QuitStrNext ==
    ASSUME NEW m \in 0..Len(Terminator) - 1
    PROVE  /\ QuitStr(m) \o <<Terminator[m + 1]>> = QuitStr(m + 1)
           /\ Terminator[m + 1] \in Chars
<1> DEFINE T == Terminator
<1>0. T \in Seq(Chars) /\ Len(T) \in Nat
  BY DataModeAssumption
<1> HIDE DEF T
<1>1. m + 1 \in 1..Len(T) /\ T[m + 1] \in Chars /\ m \in Nat /\ m + 1 <= Len(T)
  BY <1>0 DEF T
<1>2. /\ SubSeq(T, 1, m) \in Seq(Chars) /\ Len(SubSeq(T, 1, m)) = m
      /\ \A i \in 1..m : SubSeq(T, 1, m)[i] = T[i]
  BY <1>0, <1>1
<1>3. /\ SubSeq(T, 1, m + 1) \in Seq(Chars) /\ Len(SubSeq(T, 1, m + 1)) = m + 1
      /\ \A i \in 1..m + 1 : SubSeq(T, 1, m + 1)[i] = T[i]
  BY <1>0, <1>1
<1> DEFINE a == SubSeq(T, 1, m)
           b == SubSeq(T, 1, m + 1)
           x == T[m + 1]
<1>4. /\ a \in Seq(Chars) /\ Len(a) = m /\ \A i \in 1..m : a[i] = T[i]
      /\ b \in Seq(Chars) /\ Len(b) = m + 1 /\ \A i \in 1..m + 1 : b[i] = T[i]
      /\ x \in Chars /\ x = T[m + 1] /\ m \in Nat
  BY <1>1, <1>2, <1>3
<1> HIDE DEF a, b, x
<1>5. a \o <<x>> \in Seq(Chars) /\ Len(a \o <<x>>) = m + 1
  BY <1>4
<1>6. \A i \in 1..m + 1 : (a \o <<x>>)[i] = b[i]
  BY <1>4
<1>7. a \o <<x>> = b
  BY <1>4, <1>5, <1>6, SeqEqual
<1> QED BY <1>1, <1>7 DEF a, b, x, T, QuitStr

(* A byte that is data, or goes on with the terminator. *)
LEMMA MatchLive ==
    ASSUME NEW c, Fits(c), NEW s \in Seq(Chars), Own(c), Live(c, s), c.data_len = 0,
           NEW ch \in Chars,
           c.quit_str_match = 0 \/ ch = Terminator[c.quit_str_match + 1],
           NEW d \in rx_match(c, ch)
    PROVE  Handled(c, d, s \o QuitStr(c.quit_str_match) \o <<ch>>, 0, NoError)
<1> DEFINE m == c.quit_str_match
           q == QuitStr(m)
           t == s \o q \o <<ch>>
<1>1. /\ c \in Ctx /\ m \in 0..Len(Terminator) - 1 /\ Len(Terminator) \in Nat \ {0}
      /\ c.handed \in Seq(Chars) /\ c.data_rb \in Seq(Chars)
      /\ Capacity \in Nat /\ Capacity >= Len(Terminator)
  BY CtxTypes DEF Fits
<1>2. q \in Seq(Chars) /\ Len(q) = m
  BY <1>1, QuitStrSeq
<1>3. <<ch>> \in Seq(Chars) /\ Len(<<ch>>) = 1
  OBVIOUS
<1>4. t = s \o (q \o <<ch>>)
  BY <1>2, <1>3, Assoc
<1>5. Len(s) \in Nat /\ Len(t) = Len(s) + m + 1
  <2>1. Len(s \o q) = Len(s) + m /\ s \o q \in Seq(Chars) /\ Len(s) \in Nat
    BY <1>2, Cat
  <2> QED BY <1>3, <2>1, Cat
<1>6. CASE ch = Terminator[m + 1] /\ m + 1 = Len(Terminator)
  <2>1. PICK f \in raw_send(c) : d = exit_datamode(f)
    BY <1>6 DEF rx_match
  <2>2. /\ f \in Ctx /\ f.null_match_count = 0
        /\ \/ Live(f, s) /\ f.handed = s
           \/ Dead(f, s, NoError) /\ Len(f.handed) < Len(s)
    BY <1>1, SendLive
  <2>3. /\ d \in Ctx /\ d.handed = f.handed /\ d.rsp.ok = f.handler_result
        /\ Clean(d) /\ d.at_mode = "AT" /\ d.data_rb = <<>>
    <3>1. /\ d \in Ctx /\ d.handed = f.handed /\ d.rsp.ok = f.handler_result
          /\ d.null_match_count = f.null_match_count
          /\ d.at_mode = "AT" /\ d.handler = FALSE /\ d.handler_result = TRUE
          /\ d.data_len = 0 /\ d.quit_str_match = 0 /\ d.data_rb = <<>>
      BY <2>1, <2>2, Exit, ZenonT(30)
    <3> QED BY <2>2, <3>1 DEF Clean
  <2>4. Truthful(d, t, 0, NoError)
    <3>1. CASE Live(f, s) /\ f.handed = s
      <4>1. d.rsp.ok /\ d.handed = s
        BY <2>3, <3>1 DEF Live
      <4>2. Len(t) - Len(Terminator) = Len(s)
        BY <1>1, <1>5, <1>6
      <4>3. q \o <<ch>> \in Seq(Chars)
        BY <1>2, <1>3, Cat
      <4>4. SubSeq(s \o (q \o <<ch>>), 1, Len(s)) = s
        <5> HIDE DEF q
        <5> QED BY <4>3
      <4> HIDE DEF t
      <4>5. d.handed = SubSeq(t, 1, Len(t) - Len(Terminator))
        BY <1>4, <4>1, <4>2, <4>4
      <4> QED BY <4>1, <4>5 DEF Truthful
    <3>2. CASE Dead(f, s, NoError) /\ Len(f.handed) < Len(s)
      <4>1. ~d.rsp.ok /\ d.handed = f.handed
        BY <2>3, <3>2 DEF Dead
      <4>2. Len(f.handed) \in Nat
        BY <2>2, CtxTypes
      <4> HIDE DEF t, m
      <4>3. Len(f.handed) < Len(t) - Len(Terminator)
        BY <1>1, <1>5, <1>6, <3>2, <4>2
      <4> QED BY <4>1, <4>3 DEF Truthful
    <3> QED BY <2>2, <3>1, <3>2
  <2>5. Len(d.data_rb) <= Capacity
    BY <1>1, <2>3
  <2> HIDE DEF t
  <2>6. ModeMeans(d, t, 0, NoError)
    BY <2>3 DEF ModeMeans
  <2> QED BY <2>3, <2>4, <2>5, <2>6 DEF Handled, Fits, t
<1>7. CASE ch = Terminator[m + 1] /\ m + 1 # Len(Terminator)
  <2>1. d = [c EXCEPT !.quit_str_match = m + 1]
    BY <1>7 DEF rx_match
  <2>2. m + 1 \in 0..Len(Terminator) - 1
    BY <1>1, <1>7
  <2> HIDE DEF m
  <2>3. /\ d \in Ctx /\ d.data_rb = c.data_rb /\ d.handed = c.handed
        /\ d.at_mode = c.at_mode /\ d.handler = c.handler
        /\ d.handler_result = c.handler_result /\ d.data_len = c.data_len
        /\ d.null_match_count = c.null_match_count /\ d.current = c.current
        /\ d.quit_str_match = m + 1
    BY <1>1, <2>1, <2>2 DEF Ctx
  <2>4. q \o <<ch>> = QuitStr(m + 1)
    BY <1>1, <1>7, QuitStrNext
  <2> HIDE DEF q, t
  <2>5. t = d.handed \o d.data_rb \o QuitStr(d.quit_str_match)
    BY <1>4, <2>3, <2>4 DEF Live
  <2>6. InData(d, t, 0)
    BY <2>3, <2>5 DEF InData, Live
  <2>7. Handled(c, d, t, 0, NoError)
    BY <2>3, <2>6 DEF Handled, ModeMeans, Fits, Live
  <2> QED BY <2>7 DEF t, q, m
<1>8. CASE ch # Terminator[m + 1]
  <2>1. m = 0 /\ d \in write_data_buf(c, <<ch>>)
    BY <1>8 DEF rx_match
  <2>2. q = <<>>
    BY <1>2, <2>1, EmptySeq
  <2>3. s \o q = s
    BY <2>2
  <2> HIDE DEF m, q
  <2>4. t = s \o <<ch>>
    BY <2>3
  <2>5. Len(<<ch>>) <= Capacity
    BY <1>1, <1>3
  <2>6. /\ Fits(d) /\ d.quit_str_match = c.quit_str_match
        /\ d.null_match_count = 0
        /\ \/ /\ Live(d, s \o <<ch>>)
              /\ d.data_len = c.data_len /\ d.current = c.current
           \/ Dead(d, s \o <<ch>>, NoError) /\ d.data_len = 0
    BY <1>3, <2>1, <2>5, WriteLive
  <2> HIDE DEF t
  <2>7. CASE Live(d, t) /\ d.data_len = c.data_len /\ d.current = c.current
    <3>1. QuitStr(d.quit_str_match) = <<>>
      BY <2>1, <2>2, <2>6 DEF m, q
    <3>2. d.handed \o d.data_rb \in Seq(Chars)
      BY <2>6, CtxTypes, Cat DEF Fits
    <3>3. t = d.handed \o d.data_rb
      BY <2>7 DEF Live
    <3>4. (d.handed \o d.data_rb) \o <<>> = d.handed \o d.data_rb
      BY <3>2
    <3>5. t = d.handed \o d.data_rb \o QuitStr(d.quit_str_match)
      BY <3>1, <3>3, <3>4
    <3>6. InData(d, t, 0)
      <4>1. Live(d, d.handed \o d.data_rb) /\ d.data_len = 0
        BY <2>7 DEF Live
      <4> QED BY <3>5, <4>1 DEF InData
    <3> QED BY <2>6, <2>7, <3>6 DEF Handled, ModeMeans, Live, t, q, m
  <2>8. CASE Dead(d, t, NoError)
    BY <2>6, <2>8 DEF Handled, ModeMeans, Dead, t, q, m
  <2> QED BY <2>4, <2>6, <2>7, <2>8
<1> QED BY <1>6, <1>7, <1>8

(* In null mode, a byte that starts the terminator or is written. *)
LEMMA MatchDead ==
    ASSUME NEW c, Fits(c), NEW s, NEW x, Dead(c, s, x), c.quit_str_match = 0,
           Len(Terminator) # 1, NEW ch \in Chars, NEW d \in rx_match(c, ch)
    PROVE  Fits(d) /\ Dead(d, s, x)
<1>1. /\ c \in Ctx /\ Len(Terminator) \in Nat \ {0}
      /\ Capacity \in Nat /\ Capacity >= Len(Terminator)
  BY CtxTypes DEF Fits
<1>2. d = [c EXCEPT !.quit_str_match = 1] \/ d \in write_data_buf(c, <<ch>>)
  <2>1. c.quit_str_match + 1 # Len(Terminator) /\ c.quit_str_match + 1 = 1
    OBVIOUS
  <2>2. \/ d = [c EXCEPT !.quit_str_match = c.quit_str_match + 1]
        \/ d \in write_data_buf(c, <<ch>>)
    BY <2>1 DEF rx_match
  <2> QED BY <2>1, <2>2
<1>3. CASE d = [c EXCEPT !.quit_str_match = 1]
  <2>1. 1 \in 0..Len(Terminator) - 1
    <3> DEFINE L == Len(Terminator)
    <3>1. L \in Nat \ {0} /\ L # 1
      BY <1>1
    <3> HIDE DEF L
    <3>2. 1 \in 0..L - 1
      BY <3>1
    <3> QED BY <3>2 DEF L
  <2>2. /\ d \in Ctx /\ d.data_rb = c.data_rb /\ d.handed = c.handed
        /\ d.at_mode = c.at_mode /\ d.handler = c.handler
        /\ d.handler_result = c.handler_result
        /\ d.null_match_count = c.null_match_count
    BY <1>1, <1>3, <2>1 DEF Ctx
  <2> QED BY <2>2 DEF Dead, Fits
<1>4. CASE d \in write_data_buf(c, <<ch>>)
  <2>1. <<ch>> \in Seq(Chars) /\ Len(<<ch>>) = 1
    OBVIOUS
  <2>2. Len(<<ch>>) <= Capacity
    BY <1>1, <2>1
  <2> QED BY <1>4, <2>1, <2>2, WriteDead
<1> QED BY <1>2, <1>3, <1>4

(* A byte in data mode with <data_len>: the last one of them ends it. *)
LEMMA LengthLive ==
    ASSUME NEW c, Fits(c), NEW s \in Seq(Chars), Own(c), Live(c, s),
           c.quit_str_match = 0, NEW n \in 1..SIZE_MAX,
           c.data_len = n - Len(s), c.data_len > 0,
           NEW ch \in Chars, NEW d \in rx_data_len(c, ch)
    PROVE  Handled(c, d, s \o <<ch>>, n, NoError)
<1> DEFINE t == s \o <<ch>>
           next(l) == IF l = 0 THEN SIZE_MAX ELSE l - 1
<1>1. /\ c \in Ctx /\ Capacity \in Nat /\ Len(Terminator) \in Nat \ {0}
      /\ Capacity >= Len(Terminator) /\ SIZE_MAX \in Nat /\ n \in Nat
      /\ c.data_len \in 0..SIZE_MAX
  BY CtxTypes DEF Fits
<1>2. <<ch>> \in Seq(Chars) /\ Len(<<ch>>) = 1
  OBVIOUS
<1>3. t \in Seq(Chars) /\ Len(t) = Len(s) + 1 /\ Len(s) \in Nat
  BY <1>2, Cat
<1>4. PICK w \in write_data_buf(c, <<ch>>) :
         d \in LET left == IF w.data_len = 0 THEN SIZE_MAX ELSE w.data_len - 1
                   e    == [w EXCEPT !.data_len = left]
               IN  IF left = 0 THEN {exit_datamode(f) : f \in raw_send(e)} ELSE {e}
  BY DEF rx_data_len
<1> DEFINE left == next(w.data_len)
           e    == [w EXCEPT !.data_len = left]
<1>5. d \in IF left = 0 THEN {exit_datamode(f) : f \in raw_send(e)} ELSE {e}
  BY <1>4
<1>6. Len(<<ch>>) <= Capacity
  BY <1>1, <1>2
<1>7. /\ Fits(w) /\ w.quit_str_match = 0 /\ w.null_match_count = 0
      /\ \/ /\ Live(w, t)
            /\ w.data_len = c.data_len /\ w.current = c.current
         \/ Dead(w, t, NoError) /\ w.data_len = 0
  BY <1>2, <1>4, <1>6, WriteLive, ZenonT(30)
<1> HIDE DEF t
<1>8. w \in Ctx /\ left \in 0..SIZE_MAX
  BY <1>1, <1>7 DEF Fits
<1>9. SIZE_MAX # 0
  BY <1>1
<1>10. (w.data_len = 0 => left = SIZE_MAX) /\ (w.data_len # 0 => left = w.data_len - 1)
  OBVIOUS
<1> HIDE DEF left
<1>11. /\ e \in Ctx /\ e.data_len = left /\ e.data_rb = w.data_rb
       /\ e.handed = w.handed /\ e.at_mode = w.at_mode /\ e.handler = w.handler
       /\ e.handler_result = w.handler_result
       /\ e.quit_str_match = w.quit_str_match
       /\ e.null_match_count = w.null_match_count /\ e.current = w.current
  BY <1>8 DEF Ctx
<1> HIDE DEF e, next
<1>12. Fits(e)
  BY <1>7, <1>11 DEF Fits
<1>13. CASE Dead(w, t, NoError) /\ w.data_len = 0
  <2>1. d = e
    BY <1>5, <1>9, <1>10, <1>13
  <2>2. Dead(e, t, NoError)
    BY <1>11, <1>13 DEF Dead
  <2> QED BY <1>12, <2>1, <2>2 DEF Handled, ModeMeans, Dead, t
<1>14. CASE Live(w, t) /\ w.data_len = c.data_len /\ w.current = c.current
  <2>1. left = n - Len(t) /\ left = c.data_len - 1
    BY <1>1, <1>3, <1>10, <1>14
  <2>2. Live(e, t) /\ e.current = c.current
    BY <1>11, <1>14 DEF Live
  <2>3. CASE left = 0
    <3>1. PICK f \in raw_send(e) : d = exit_datamode(f)
      BY <1>5, <2>3
    <3>2. Own(e)
      BY <2>2 DEF Own, sm_at_host_get_current
    <3>3. /\ f \in Ctx /\ f.null_match_count = 0
          /\ \/ Live(f, t) /\ f.handed = t
             \/ Dead(f, t, NoError) /\ Len(f.handed) < Len(t)
      BY <1>11, <2>2, <3>2, SendLive
    <3>4. /\ d \in Ctx /\ d.handed = f.handed /\ d.rsp.ok = f.handler_result
          /\ d.null_match_count = f.null_match_count
          /\ d.at_mode = "AT" /\ d.handler = FALSE /\ d.handler_result = TRUE
          /\ d.data_len = 0 /\ d.quit_str_match = 0 /\ d.data_rb = <<>>
      BY <3>1, <3>3, Exit, ZenonT(30)
    <3>5. Clean(d) /\ Len(d.data_rb) <= Capacity
      BY <1>1, <3>3, <3>4 DEF Clean
    <3>6. Len(t) = n /\ n # 0
      BY <1>1, <1>3, <2>1, <2>3
    <3>7. Truthful(d, t, n, NoError)
      BY <1>1, <3>3, <3>4, <3>6 DEF Truthful, Live, Dead
    <3> QED BY <3>4, <3>5, <3>7 DEF Handled, ModeMeans, Fits, t
  <2>4. CASE left # 0
    <3>1. d = e
      BY <1>5, <2>4
    <3>2. left > 0 /\ n # 0
      BY <1>1, <1>8, <2>4
    <3>3. QuitStr(e.quit_str_match) = <<>>
      BY <1>1, <1>7, <1>11, QuitStrSeq, EmptySeq
    <3>4. t = e.handed \o e.data_rb /\ t \o <<>> = t
      BY <1>3, <2>2 DEF Live
    <3>5. t = e.handed \o e.data_rb \o QuitStr(e.quit_str_match)
      BY <3>3, <3>4
    <3>6. InData(e, t, n)
      <4>1. Live(e, e.handed \o e.data_rb) /\ e.data_len = left /\ e.quit_str_match = 0
        BY <1>7, <1>11, <2>2, <3>4
      <4> QED BY <2>1, <3>2, <3>5, <4>1 DEF InData
    <3> QED BY <1>12, <2>2, <3>1, <3>6 DEF Handled, ModeMeans, Live, t
  <2> QED BY <2>3, <2>4
<1> QED BY <1>7, <1>13, <1>14

(* A byte in data mode. *)
LEMMA ByteLive ==
    ASSUME NEW c, Fits(c), NEW s \in Seq(Chars), Own(c), NEW n \in 0..SIZE_MAX,
           InData(c, s, n), NEW ch \in Chars, NEW d \in raw_rx_handler(c, ch)
    PROVE  Handled(c, d, s \o <<ch>>, n, NoError)
<1> DEFINE b == c.handed \o c.data_rb
           m == c.quit_str_match
           q == QuitStr(m)
<1>1. /\ c \in Ctx /\ Capacity \in Nat /\ Len(Terminator) \in Nat \ {0}
      /\ Capacity >= Len(Terminator) /\ SIZE_MAX \in Nat
      /\ c.handed \in Seq(Chars) /\ c.data_rb \in Seq(Chars)
      /\ m \in 0..Len(Terminator) - 1
  BY CtxTypes DEF Fits
<1>2. b \in Seq(Chars)
  BY <1>1, Cat
<1>3. q \in Seq(Chars) /\ Len(q) = m
  BY <1>1, QuitStrSeq
<1>4. Live(c, b) /\ s = b \o q
  BY DEF InData
<1> HIDE DEF b, q, m
<1>5. CASE n > 0
  <2>1. c.data_len = n - Len(s) /\ c.data_len > 0 /\ m = 0 /\ n \in 1..SIZE_MAX
    <3>1. c.data_len = n - Len(s) /\ c.data_len > 0 /\ m = 0
      BY <1>5 DEF InData, m
    <3>2. n \in 1..SIZE_MAX
      BY <1>1, <1>5
    <3> QED BY <3>1, <3>2
  <2>2. s = b
    <3>1. q = <<>>
      BY <1>3, <2>1, EmptySeq
    <3>2. b \o <<>> = b
      BY <1>2
    <3> QED BY <1>4, <3>1, <3>2
  <2>3. d \in rx_data_len(c, ch)
    BY <2>1 DEF raw_rx_handler
  <2> QED BY <1>4, <2>1, <2>2, <2>3, LengthLive DEF m
<1>6. CASE n = 0
  <2>1. c.data_len = 0
    BY <1>6 DEF InData
  <2>2. CASE m > 0 /\ ch # Terminator[m + 1]
    <3>1. PICK w \in write_data_buf(c, q) : d \in rx_match([w EXCEPT !.quit_str_match = 0], ch)
      BY <2>1, <2>2 DEF raw_rx_handler, m, q
    <3> DEFINE e == [w EXCEPT !.quit_str_match = 0]
    <3>2. Len(q) <= Capacity
      BY <1>1, <1>3
    <3>3. /\ Fits(w)
          /\ \/ Live(w, s) /\ w.data_len = c.data_len /\ w.current = c.current
             \/ Dead(w, s, NoError)
      BY <1>2, <1>3, <1>4, <3>1, <3>2, WriteLive
    <3>4. 0 \in 0..Len(Terminator) - 1
      BY <1>1
    <3>5. /\ e \in Ctx /\ e.data_len = w.data_len /\ e.data_rb = w.data_rb
          /\ e.handed = w.handed /\ e.at_mode = w.at_mode /\ e.handler = w.handler
          /\ e.handler_result = w.handler_result /\ e.quit_str_match = 0
          /\ e.null_match_count = w.null_match_count /\ e.current = w.current
      BY <3>3, <3>4 DEF Ctx, Fits
    <3>6. d \in rx_match(e, ch)
      BY <3>1
    <3> HIDE DEF e
    <3>7. Fits(e)
      BY <3>3, <3>5 DEF Fits
    <3>8. CASE Live(w, s) /\ w.data_len = c.data_len /\ w.current = c.current
      <4>1. Live(e, s) /\ Own(e) /\ e.data_len = 0 /\ e.current = c.current
        BY <2>1, <3>5, <3>8 DEF Live, Own, sm_at_host_get_current
      <4>2. Handled(e, d, s \o QuitStr(e.quit_str_match) \o <<ch>>, 0, NoError)
        BY <3>5, <3>6, <3>7, <4>1, MatchLive
      <4>3. QuitStr(e.quit_str_match) = <<>>
        BY <1>1, <3>5, QuitStrSeq, EmptySeq
      <4>4. s \o <<>> = s
        OBVIOUS
      <4> QED BY <1>6, <4>1, <4>2, <4>3, <4>4 DEF Handled
    <3>9. CASE Dead(w, s, NoError)
      <4>1. Dead(e, s, NoError)
        BY <3>5, <3>9 DEF Dead
      <4>2. Len(Terminator) # 1
        BY <1>1, <2>2
      <4>3. Fits(d) /\ Dead(d, s, NoError)
        BY <3>5, <3>6, <3>7, <4>1, <4>2, MatchDead
      <4>4. Dead(d, s \o <<ch>>, NoError)
        <5>1. Len(s \o <<ch>>) = Len(s) + 1 /\ Len(s) \in Nat
          OBVIOUS
        <5>2. Len(d.handed) \in Nat
          BY <4>3, CtxTypes DEF Fits
        <5>3. Len(d.handed) + d.null_match_count < Len(s) /\ d.null_match_count \in Nat
          BY <1>1, <4>3, CtxTypes DEF Dead, Fits, NoError
        <5>4. Len(d.handed) + d.null_match_count < Len(s \o <<ch>>)
          BY <5>1, <5>2, <5>3
        <5> QED BY <4>3, <5>4 DEF Dead
      <4> QED BY <4>3, <4>4 DEF Handled, ModeMeans, Dead
    <3> QED BY <3>3, <3>8, <3>9
  <2>3. CASE ~(m > 0 /\ ch # Terminator[m + 1])
    <3>1. d \in rx_match(c, ch)
      BY <2>1, <2>3 DEF raw_rx_handler, m
    <3>2. m = 0 \/ ch = Terminator[m + 1]
      BY <1>1, <2>3
    <3>3. Handled(c, d, b \o QuitStr(c.quit_str_match) \o <<ch>>, 0, NoError)
      BY <1>2, <1>4, <2>1, <3>1, <3>2, MatchLive DEF m
    <3> QED BY <1>4, <1>6, <3>3 DEF m, q
  <2> QED BY <2>2, <2>3
<1> QED BY <1>1, <1>5, <1>6

(* A byte in null mode is dropped; the last of the terminator ends it. *)
LEMMA ByteDead ==
    ASSUME NEW c, Fits(c), NEW s \in Seq(Chars), NEW x, Dead(c, s, x), NEW n \in 0..SIZE_MAX,
           NEW ch \in Chars, NEW d, d = null_handler(c, ch)
    PROVE  Handled(c, d, s \o <<ch>>, n, x)
<1> DEFINE t == s \o <<ch>>
           T == Terminator
           m == c.null_match_count
<1>1. /\ c \in Ctx /\ Capacity \in Nat /\ Len(T) \in Nat \ {0}
      /\ m \in 0..Len(T) - 1 /\ Len(c.handed) \in Nat
  BY CtxTypes DEF Fits
<1>2. Len(t) = Len(s) + 1 /\ Len(s) \in Nat
  OBVIOUS
<1>3. x = TRUE \/ Len(c.handed) + m < Len(s)
  BY DEF Dead
<1> HIDE DEF t
<1> DEFINE h == Len(c.handed)
           l == Len(T)
           k == Len(s)
<1>4. /\ h \in Nat /\ l \in Nat /\ k \in Nat /\ Len(t) = k + 1 /\ m \in Nat
      /\ x = TRUE \/ h + m < k
  BY <1>1, <1>2, <1>3
<1>5. CASE ch = T[m + 1] /\ m + 1 = Len(T)
  <2> DEFINE e == exit_datamode(c)
  <2>1. d = [e EXCEPT !.null_match_count = 0]
    BY <1>5 DEF null_handler
  <2>2. /\ e \in Ctx /\ e.handed = c.handed /\ e.rsp.ok = c.handler_result
        /\ e.at_mode = "AT" /\ e.handler = FALSE /\ e.handler_result = TRUE
        /\ e.data_len = 0 /\ e.quit_str_match = 0 /\ e.data_rb = <<>>
    <3> HIDE DEF e
    <3> QED BY <1>1, Exit DEF e
  <2> HIDE DEF e
  <2>3. 0 \in 0..Len(T) - 1
    BY <1>1
  <2>4. /\ d \in Ctx /\ d.handed = e.handed /\ d.rsp = e.rsp
        /\ d.at_mode = e.at_mode /\ d.handler = e.handler
        /\ d.handler_result = e.handler_result
        /\ d.data_len = e.data_len /\ d.quit_str_match = e.quit_str_match
        /\ d.data_rb = e.data_rb /\ d.null_match_count = 0
    BY <2>1, <2>2, <2>3 DEF Ctx
  <2>5. Clean(d)
    BY <2>2, <2>4 DEF Clean
  <2>6. ~d.rsp.ok
    BY <2>2, <2>4 DEF Dead
  <2>9. x = TRUE \/ h < Len(t) - l
    <3> HIDE DEF h, l, k, m
    <3>1. m = l - 1
      BY <1>4, <1>5 DEF l
    <3> QED BY <1>4, <3>1
  <2>7. Truthful(d, t, n, x)
    BY <2>2, <2>4, <2>6, <2>9 DEF Truthful
  <2>8. Len(d.data_rb) <= Capacity
    BY <1>1, <2>2, <2>4
  <2> QED BY <2>4, <2>5, <2>7, <2>8 DEF Handled, ModeMeans, Fits, Clean, t
<1>6. CASE ~(ch = T[m + 1] /\ m + 1 = Len(T))
  <2>1. PICK j \in 0..Len(Terminator) - 1 :
          (j = 0 \/ j = m + 1) /\ d = [c EXCEPT !.null_match_count = j]
    <3>1. 0 \in 0..Len(T) - 1 /\ (m + 1 # Len(T) => m + 1 \in 0..Len(T) - 1)
      BY <1>1
    <3> QED BY <1>6, <3>1 DEF null_handler
  <2>2. /\ d \in Ctx /\ d.data_rb = c.data_rb /\ d.handed = c.handed
        /\ d.at_mode = c.at_mode /\ d.handler = c.handler
        /\ d.handler_result = c.handler_result /\ d.null_match_count = j
    <3> HIDE DEF h, l, k, m, T
    <3> QED BY <1>1, <2>1 DEF Ctx
  <2>3. x = TRUE \/ h + j < Len(t)
    <3> HIDE DEF h, l, k, m
    <3> QED BY <1>4, <2>1
  <2>4. Fits(d) /\ Dead(d, t, x)
    BY <2>2, <2>3 DEF Fits, Dead
  <2> QED BY <2>4 DEF Handled, ModeMeans, Dead, t
<1> QED BY <1>5, <1>6

-----------------------------------------------------------------------------
(* The steps. *)

(* The invariant holds initially. *)
LEMMA InitIInv == Init => IInv
<1> SUFFICES ASSUME Init PROVE IInv
  OBVIOUS
<1>0. /\ Len(Terminator) \in Nat \ {0} /\ SIZE_MAX \in Nat /\ Capacity \in Nat
  BY DataModeAssumption
<1>1. /\ ctx.at_mode = "AT" /\ ctx.data_rb = <<>> /\ ctx.data_len = 0
      /\ ctx.quit_str_match = 0 /\ ctx.null_match_count = 0
      /\ ctx.handler = FALSE /\ ctx.handler_result = TRUE
  BY DEF Init
<1>2. 0 \in 0..SIZE_MAX /\ 0 \in 0..Len(Terminator) - 1 /\ <<>> \in Seq(Chars)
  BY <1>0
<1>3. ctx \in Ctx
  BY <1>2 DEF Init, Ctx, NoRsp
<1>4. Len(ctx.data_rb) <= Capacity
  BY <1>0, <1>1
<1>5. Clean(ctx)
  BY <1>1 DEF Clean
<1>6. TypeOK /\ TypeLogs
  BY <1>0, <1>2, <1>3, <1>4 DEF Init, TypeOK, TypeLogs
<1>7. ModeMeans(ctx, input, asked, erred)
  BY <1>1, <1>5 DEF ModeMeans
<1>8. ~(sessions > 0) /\ ~rxWork /\ ~erred
  BY DEF Init
<1> QED BY <1>1, <1>6, <1>7, <1>8 DEF IInv

(* What the invariant says of the context and the bytes received. *)
LEMMA IInvFacts ==
    ASSUME IInv
    PROVE  /\ Fits(ctx) /\ ctx \in Ctx
           /\ rxWork \in BOOLEAN /\ timer \in BOOLEAN /\ sendWork \in BOOLEAN
           /\ input \in Seq(Chars) /\ asked \in 0..SIZE_MAX /\ erred \in BOOLEAN /\ sessions \in Nat
           /\ ctx.at_mode \in {"AT", "DATA", "NULL"}
           /\ ctx.at_mode = "DATA" => ~erred
           /\ ctx.at_mode = "DATA" => InData(ctx, input, asked)
           /\ ctx.at_mode = "NULL" => Dead(ctx, input, erred)
           /\ ctx.at_mode = "AT" => Clean(ctx)
BY DEF IInv, TypeOK, TypeLogs, ModeMeans, Fits, Ctx

(* The current context may change: its meaning does not depend on it. *)
LEMMA SetCurrent ==
    ASSUME NEW c, c \in Ctx, NEW v \in BOOLEAN, NEW d, d = [c EXCEPT !.current = v],
           NEW s, NEW n, NEW x
    PROVE  /\ d \in Ctx /\ d.current = v
           /\ Fits(c) => Fits(d)
           /\ ModeMeans(c, s, n, x) => ModeMeans(d, s, n, x)
           /\ Truthful(c, s, n, x) => Truthful(d, s, n, x)
<1>1. /\ d \in Ctx /\ d.current = v /\ d.data_rb = c.data_rb /\ d.handed = c.handed
      /\ d.at_mode = c.at_mode /\ d.handler = c.handler
      /\ d.handler_result = c.handler_result /\ d.data_len = c.data_len
      /\ d.quit_str_match = c.quit_str_match
      /\ d.null_match_count = c.null_match_count /\ d.rsp = c.rsp
  BY DEF Ctx
<1>2. Fits(c) => Fits(d)
  BY <1>1 DEF Fits
<1>3. /\ ModeMeans(c, s, n, x) => ModeMeans(d, s, n, x)
      /\ Truthful(c, s, n, x) => Truthful(d, s, n, x)
  BY <1>1 DEF ModeMeans, InData, Live, Dead, Clean, Truthful
<1> QED BY <1>1, <1>2, <1>3

(* The receive work begins and ends. *)
LEMMA RxWorkKeeps == IInv /\ (RxWorkStart \/ RxWorkEnd) => IInv'
<1> SUFFICES ASSUME IInv, RxWorkStart \/ RxWorkEnd PROVE IInv'
  OBVIOUS
<1>1. PICK v \in BOOLEAN : ctx' = [ctx EXCEPT !.current = v] /\ rxWork' = v
  BY DEF RxWorkStart, RxWorkEnd
<1>2. UNCHANGED <<timer, sendWork, input, asked, erred, sessions>>
  BY DEF RxWorkStart, RxWorkEnd
<1>3. /\ ctx' \in Ctx /\ ctx'.current = v /\ Fits(ctx')
      /\ ModeMeans(ctx, input, asked, erred) => ModeMeans(ctx', input, asked, erred)
      /\ Truthful(ctx, input, asked, erred) => Truthful(ctx', input, asked, erred)
  BY <1>1, IInvFacts, SetCurrent
<1>4. ctx'.at_mode = ctx.at_mode
  BY <1>1, IInvFacts DEF Ctx
<1>5. TypeOK' /\ TypeLogs'
  BY <1>1, <1>2, <1>3 DEF IInv, TypeOK, TypeLogs, Fits
<1>6. ModeMeans(ctx', input', asked', erred')
  BY <1>2, <1>3 DEF IInv
<1>7. (ctx'.at_mode = "AT" /\ sessions' > 0) => Truthful(ctx', input', asked', erred')
  BY <1>2, <1>3, <1>4 DEF IInv
<1>8. rxWork' => Own(ctx')
  BY <1>1, <1>3 DEF Own, sm_at_host_get_current
<1>9. ctx'.at_mode = "DATA" => ~erred'
  BY <1>2, <1>4 DEF IInv
<1> QED BY <1>5, <1>6, <1>7, <1>8, <1>9 DEF IInv

(* A session begins. *)
LEMMA EnterKeeps == IInv /\ EnterDataMode => IInv'
<1> SUFFICES ASSUME IInv, EnterDataMode PROVE IInv'
  OBVIOUS
<1>1. PICK n \in DataLens :
         /\ asked' = n
         /\ ctx' = [ctx EXCEPT !.at_mode = "DATA", !.handler = TRUE, !.data_len = n,
                               !.data_rb = <<>>, !.handed = <<>>, !.rsp = NoRsp]
  BY DEF EnterDataMode
<1>2. n \in 0..SIZE_MAX /\ Capacity \in Nat /\ n \in Nat
  BY DataModeAssumption
<1>3. Clean(ctx) /\ ctx \in Ctx /\ rxWork
  BY IInvFacts DEF EnterDataMode
<1>4. <<>> \in Seq(Chars) /\ NoRsp \in [to : {"nobody", "own", "other"}, ok : BOOLEAN]
  BY DEF NoRsp
<1>5. /\ ctx' \in Ctx /\ ctx'.at_mode = "DATA" /\ ctx'.handler = TRUE
      /\ ctx'.data_len = n /\ ctx'.data_rb = <<>> /\ ctx'.handed = <<>>
      /\ ctx'.handler_result = ctx.handler_result /\ ctx'.current = ctx.current
      /\ ctx'.quit_str_match = ctx.quit_str_match
      /\ ctx'.null_match_count = ctx.null_match_count
  BY <1>1, <1>2, <1>3, <1>4 DEF Ctx
<1>6. /\ timer' = TRUE /\ input' = <<>> /\ rxWork' = rxWork /\ sendWork' = sendWork
      /\ sessions' = sessions + 1 /\ erred' = FALSE
  BY DEF EnterDataMode
<1>7. Len(<<>>) = 0 /\ Len(ctx'.data_rb) <= Capacity
  BY <1>2, <1>5
<1>13. erred' \in BOOLEAN
  BY <1>6
<1>8. TypeOK' /\ TypeLogs'
  BY <1>1, <1>2, <1>4, <1>5, <1>6, <1>7, <1>13, IInvFacts DEF TypeOK, TypeLogs
<1>9. /\ ctx'.quit_str_match = 0 /\ ctx'.null_match_count = 0 /\ ctx'.handler_result
      /\ ctx'.handler
  BY <1>3, <1>5 DEF Clean
<1>10. <<>> \o <<>> = <<>> /\ QuitStr(0) = <<>>
  BY DataModeAssumption, QuitStrSeq, EmptySeq
<1>11. InData(ctx', input', asked')
  <2>1. Live(ctx', ctx'.handed \o ctx'.data_rb)
    BY <1>5, <1>9 DEF Live
  <2>2. input' = ctx'.handed \o ctx'.data_rb \o QuitStr(ctx'.quit_str_match)
    BY <1>5, <1>6, <1>9, <1>10
  <2>3. ctx'.data_len = n - Len(input')
    BY <1>2, <1>5, <1>6, <1>7
  <2> QED BY <1>1, <1>5, <1>9, <2>1, <2>2, <2>3 DEF InData
<1>12. Own(ctx')
  BY <1>5 DEF EnterDataMode, Own, sm_at_host_get_current
<1> QED BY <1>5, <1>6, <1>8, <1>11, <1>12 DEF IInv, ModeMeans

(* A byte is received. *)
LEMMA ByteKeeps == IInv /\ RxByte => IInv'
<1> SUFFICES ASSUME IInv, RxByte PROVE IInv'
  OBVIOUS
<1>1. PICK ch \in Chars :
         /\ ctx' \in IF ctx.at_mode = "DATA" THEN raw_rx_handler(ctx, ch)
                                             ELSE {null_handler(ctx, ch)}
         /\ input' = Append(input, ch)
  BY DEF RxByte
<1>2. /\ rxWork /\ ctx.at_mode # "AT" /\ timer' = (ctx'.at_mode = "DATA")
      /\ UNCHANGED <<rxWork, sendWork, asked, erred, sessions>>
  BY DEF RxByte
<1>3. input \in Seq(Chars) /\ asked \in 0..SIZE_MAX /\ Fits(ctx)
  BY IInvFacts
<1>4. input' = input \o <<ch>> /\ input' \in Seq(Chars)
  BY <1>1, <1>3
<1>5. Handled(ctx, ctx', input \o <<ch>>, asked, erred)
  <2>1. CASE ctx.at_mode = "DATA"
    <3>1. InData(ctx, input, asked) /\ Own(ctx) /\ erred = NoError
      BY <1>2, <2>1, IInvFacts DEF IInv, NoError
    <3>2. ctx' \in raw_rx_handler(ctx, ch)
      BY <1>1, <2>1
    <3> QED BY <1>3, <3>1, <3>2, ByteLive
  <2>2. CASE ctx.at_mode # "DATA"
    <3>1. Dead(ctx, input, erred)
      BY <1>2, <2>2, IInvFacts
    <3>2. ctx' = null_handler(ctx, ch)
      BY <1>1, <2>2
    <3> QED BY <1>3, <3>1, <3>2, ByteDead
  <2> QED BY <2>1, <2>2
<1>6. /\ Fits(ctx') /\ ModeMeans(ctx', input', asked', erred')
      /\ ctx'.at_mode = "AT" => Truthful(ctx', input', asked', erred')
      /\ ctx'.at_mode = "DATA" => ctx'.current = ctx.current
  BY <1>2, <1>4, <1>5 DEF Handled
<1>7. timer' \in BOOLEAN
  BY <1>2
<1>8. TypeOK' /\ TypeLogs'
  BY <1>2, <1>4, <1>6, <1>7, IInvFacts DEF TypeOK, TypeLogs, Fits
<1>9. ctx'.at_mode = "DATA" => Own(ctx')
  <2>1. CASE ctx.at_mode = "DATA"
    BY <1>2, <1>6, <2>1 DEF IInv, Own, sm_at_host_get_current
  <2>2. CASE ctx.at_mode # "DATA"
    <3>1. ctx.at_mode = "NULL" /\ ctx \in Ctx
      BY <1>2, <2>2, IInvFacts
    <3>2. ctx' = null_handler(ctx, ch)
      BY <1>1, <2>2
    <3>3. ctx'.at_mode # "DATA"
      BY <3>1, <3>2 DEF null_handler, exit_datamode, Ctx
    <3> QED BY <3>3
  <2> QED BY <2>1, <2>2
<1>10. ctx'.at_mode = "DATA" => ~erred'
  <2> HAVE ctx'.at_mode = "DATA"
  <2>1. CASE ctx.at_mode = "DATA"
    BY <1>2, <2>1, IInvFacts
  <2>2. CASE ctx.at_mode # "DATA"
    <3>1. ctx.at_mode = "NULL" /\ ctx \in Ctx /\ ctx' = null_handler(ctx, ch)
      BY <1>1, <1>2, <2>2, IInvFacts
    <3> QED BY <3>1 DEF null_handler, exit_datamode, Ctx
  <2> QED BY <2>1, <2>2
<1> QED BY <1>6, <1>8, <1>9, <1>10 DEF IInv

(* In AT mode, the scheduled send finds nothing to do. *)
LEMMA ScheduledClean ==
    ASSUME NEW c, c \in Ctx, Clean(c), c.current = TRUE,
           NEW d \in write_data_buf(c, QuitStr(c.quit_str_match)),
           NEW e \in raw_send([d EXCEPT !.quit_str_match = 0])
    PROVE  /\ e \in Ctx /\ Clean(e)
           /\ e.handed = c.handed /\ e.rsp = c.rsp
<1> DEFINE f == [d EXCEPT !.quit_str_match = 0]
<1>1. /\ c.quit_str_match = 0 /\ c.data_rb = <<>> /\ QuitStr(0) = <<>>
      /\ Capacity \in Nat /\ Len(Terminator) \in Nat \ {0}
  BY DataModeAssumption, QuitStrSeq, EmptySeq DEF Clean
<1>2. /\ 0 \in 0..Len(Terminator) - 1 /\ <<>> \in Seq(Chars) /\ Len(<<>>) = 0
      /\ <<>> \o <<>> = <<>> /\ 0 <= Capacity - 0
  BY <1>1
<1>3. sm_at_host_get_current(c) # "other"
  BY DEF sm_at_host_get_current
<1>4. d = [c EXCEPT !.data_rb = <<>>]
  BY <1>1, <1>2, <1>3 DEF write_data_buf
<1>5. /\ d \in Ctx /\ d.data_rb = <<>> /\ d.handed = c.handed
      /\ d.at_mode = c.at_mode /\ d.handler = c.handler
      /\ d.handler_result = c.handler_result /\ d.data_len = c.data_len
      /\ d.null_match_count = c.null_match_count /\ d.rsp = c.rsp
  BY <1>2, <1>4 DEF Ctx
<1>6. /\ f \in Ctx /\ f.data_rb = d.data_rb /\ f.handed = d.handed
      /\ f.at_mode = d.at_mode /\ f.handler = d.handler
      /\ f.handler_result = d.handler_result /\ f.data_len = d.data_len
      /\ f.null_match_count = d.null_match_count /\ f.rsp = d.rsp
      /\ f.quit_str_match = 0
  BY <1>2, <1>5 DEF Ctx
<1>7. e \in raw_send(f)
  OBVIOUS
<1> HIDE DEF f
<1>8. ~f.handler
  BY <1>5, <1>6 DEF Clean
<1>9. e = f \/ e = [f EXCEPT !.data_rb = <<>>]
  BY <1>7, <1>8 DEF raw_send
<1>10. /\ e \in Ctx /\ e.data_rb = <<>> /\ e.handed = f.handed
       /\ e.at_mode = f.at_mode /\ e.handler = f.handler
       /\ e.handler_result = f.handler_result /\ e.data_len = f.data_len
       /\ e.null_match_count = f.null_match_count /\ e.rsp = f.rsp
       /\ e.quit_str_match = 0
  <2>1. CASE e = f
    BY <1>5, <1>6, <2>1
  <2>2. CASE e = [f EXCEPT !.data_rb = <<>>]
    BY <1>2, <1>6, <2>2 DEF Ctx
  <2> QED BY <1>9, <2>1, <2>2
<1> QED BY <1>5, <1>6, <1>10 DEF Clean

(* In data mode, the scheduled send first writes the part of a terminator   *)
(* it held back.                                                            *)
LEMMA ScheduledLive ==
    ASSUME NEW c, Fits(c), c.current = TRUE, NEW s \in Seq(Chars), NEW n \in 0..SIZE_MAX,
           InData(c, s, n),
           NEW d \in write_data_buf(c, QuitStr(c.quit_str_match)),
           NEW e \in raw_send([d EXCEPT !.quit_str_match = 0])
    PROVE  Fits(e) /\ ModeMeans(e, s, n, NoError) /\ e.at_mode # "AT"
<1> DEFINE b == c.handed \o c.data_rb
           q == QuitStr(c.quit_str_match)
           f == [d EXCEPT !.quit_str_match = 0]
<1>1. /\ c \in Ctx /\ Capacity \in Nat /\ Len(Terminator) \in Nat \ {0}
      /\ Capacity >= Len(Terminator)
      /\ c.handed \in Seq(Chars) /\ c.data_rb \in Seq(Chars)
      /\ c.quit_str_match \in 0..Len(Terminator) - 1
  BY CtxTypes DEF Fits
<1>2. b \in Seq(Chars)
  BY <1>1, Cat
<1>3. q \in Seq(Chars) /\ Len(q) = c.quit_str_match
  BY <1>1, QuitStrSeq
<1>4. Live(c, b) /\ s = b \o q /\ Own(c)
  BY DEF InData, Own, sm_at_host_get_current
<1> HIDE DEF b
<1>5. Len(q) <= Capacity
  BY <1>1, <1>3
<1> HIDE DEF q
<1>6. /\ Fits(d)
      /\ \/ Live(d, s) /\ d.data_len = c.data_len /\ d.current = c.current
         \/ Dead(d, s, NoError) /\ d.data_len = 0
  BY <1>2, <1>3, <1>4, <1>5, WriteLive DEF q
<1>7. 0 \in 0..Len(Terminator) - 1
  BY <1>1
<1>8. /\ f \in Ctx /\ f.data_len = d.data_len /\ f.data_rb = d.data_rb
      /\ f.handed = d.handed /\ f.at_mode = d.at_mode /\ f.handler = d.handler
      /\ f.handler_result = d.handler_result /\ f.quit_str_match = 0
      /\ f.null_match_count = d.null_match_count /\ f.current = d.current
  BY <1>6, <1>7 DEF Ctx, Fits
<1>9. e \in raw_send(f)
  OBVIOUS
<1> HIDE DEF f
<1>10. Fits(f)
  BY <1>6, <1>8 DEF Fits
<1>11. CASE Dead(d, s, NoError)
  <2>1. Dead(f, s, NoError)
    BY <1>8, <1>11 DEF Dead
  <2>2. e \in Ctx /\ Dead(e, s, NoError) /\ (e.data_rb = f.data_rb \/ e.data_rb = <<>>)
    BY <1>8, <1>9, <2>1, SendDead
  <2>3. Len(<<>>) <= Capacity
    BY <1>1
  <2> QED BY <1>10, <2>2, <2>3 DEF Fits, ModeMeans, Dead
<1>12. CASE Live(d, s) /\ d.data_len = c.data_len /\ d.current = c.current
  <2>1. Live(f, s) /\ Own(f)
    BY <1>8, <1>12 DEF Live, Own, sm_at_host_get_current
  <2>2. /\ e \in Ctx /\ e.quit_str_match = f.quit_str_match /\ e.data_rb = <<>>
        /\ \/ Live(e, s) /\ e.data_len = f.data_len
           \/ Dead(e, s, NoError)
    BY <1>8, <1>9, <2>1, SendLive
  <2>3. Fits(e)
    BY <1>1, <2>2 DEF Fits
  <2>4. CASE Dead(e, s, NoError)
    BY <2>3, <2>4 DEF ModeMeans, Dead
  <2>5. CASE Live(e, s) /\ e.data_len = f.data_len
    <3>1. QuitStr(e.quit_str_match) = <<>>
      BY <1>1, <1>8, <2>2, QuitStrSeq, EmptySeq
    <3>2. s = e.handed \o e.data_rb /\ s \o <<>> = s
      BY <2>5 DEF Live
    <3>3. s = e.handed \o e.data_rb \o QuitStr(e.quit_str_match)
      BY <3>1, <3>2
    <3>4. Live(e, e.handed \o e.data_rb) /\ e.data_len = c.data_len /\ e.quit_str_match = 0
      BY <1>8, <1>12, <2>2, <2>5, <3>2
    <3>5. InData(e, s, n)
      BY <3>3, <3>4 DEF InData
    <3> QED BY <2>3, <2>5, <3>5 DEF ModeMeans, Live
  <2> QED BY <2>2, <2>4, <2>5
<1> QED BY <1>6, <1>11, <1>12

(* In null mode, the scheduled send drops what is left. *)
LEMMA ScheduledDead ==
    ASSUME NEW c, Fits(c), NEW s, NEW x, Dead(c, s, x),
           NEW d \in write_data_buf(c, QuitStr(c.quit_str_match)),
           NEW e \in raw_send([d EXCEPT !.quit_str_match = 0])
    PROVE  Fits(e) /\ Dead(e, s, x)
<1> DEFINE q == QuitStr(c.quit_str_match)
           f == [d EXCEPT !.quit_str_match = 0]
<1>1. /\ Capacity \in Nat /\ Len(Terminator) \in Nat \ {0}
      /\ Capacity >= Len(Terminator)
      /\ c.quit_str_match \in 0..Len(Terminator) - 1
  BY CtxTypes DEF Fits
<1>2. q \in Seq(Chars) /\ Len(q) = c.quit_str_match
  BY <1>1, QuitStrSeq
<1>3. Len(q) <= Capacity
  BY <1>1, <1>2
<1> HIDE DEF q
<1>4. Fits(d) /\ Dead(d, s, x)
  BY <1>2, <1>3, WriteDead DEF q
<1>5. 0 \in 0..Len(Terminator) - 1 /\ Len(<<>>) <= Capacity
  BY <1>1
<1>6. /\ f \in Ctx /\ f.data_rb = d.data_rb
      /\ f.handed = d.handed /\ f.at_mode = d.at_mode /\ f.handler = d.handler
      /\ f.handler_result = d.handler_result
      /\ f.null_match_count = d.null_match_count
  BY <1>4, <1>5 DEF Ctx, Fits
<1>7. e \in raw_send(f)
  OBVIOUS
<1> HIDE DEF f
<1>8. Dead(f, s, x)
  BY <1>4, <1>6 DEF Dead
<1>9. e \in Ctx /\ Dead(e, s, x) /\ (e.data_rb = f.data_rb \/ e.data_rb = <<>>)
  BY <1>6, <1>7, <1>8, SendDead
<1> QED BY <1>4, <1>5, <1>6, <1>9 DEF Fits

(* The scheduled send runs. *)
LEMMA ScheduledKeeps == IInv /\ RawSendScheduled => IInv'
<1> SUFFICES ASSUME IInv, RawSendScheduled PROVE IInv'
  OBVIOUS
<1> DEFINE c == [ctx EXCEPT !.current = TRUE]
<1>1. PICK d \in write_data_buf(c, QuitStr(c.quit_str_match)) :
        \E e \in raw_send([d EXCEPT !.quit_str_match = 0]) : ctx' = [e EXCEPT !.current = FALSE]
  BY DEF RawSendScheduled
<1>2. PICK e \in raw_send([d EXCEPT !.quit_str_match = 0]) : ctx' = [e EXCEPT !.current = FALSE]
  BY <1>1
<1>3. /\ ~rxWork /\ sendWork' = FALSE
      /\ UNCHANGED <<rxWork, timer, input, asked, erred, sessions>>
  BY DEF RawSendScheduled
<1>4. /\ ctx \in Ctx /\ Fits(ctx) /\ input \in Seq(Chars) /\ asked \in 0..SIZE_MAX
      /\ ModeMeans(ctx, input, asked, erred)
  BY IInvFacts DEF IInv
<1>5. /\ c \in Ctx /\ c.current = TRUE /\ Fits(c) /\ ModeMeans(c, input, asked, erred)
      /\ Truthful(ctx, input, asked, erred) => Truthful(c, input, asked, erred)
  <2> HIDE DEF c
  <2>1. c = [ctx EXCEPT !.current = TRUE]
    BY DEF c
  <2> QED BY <1>4, <2>1, SetCurrent
<1>6. c.at_mode = ctx.at_mode /\ c.at_mode \in {"AT", "DATA", "NULL"}
  BY <1>4 DEF Ctx
<1> HIDE DEF c
<1>7. /\ e \in Ctx /\ Fits(e) /\ ModeMeans(e, input, asked, erred)
      /\ e.at_mode = "DATA" => c.at_mode = "DATA"
      /\ e.at_mode = "AT" => c.at_mode = "AT" /\ e.handed = c.handed /\ e.rsp = c.rsp
  <2>1. CASE c.at_mode = "AT"
    <3>1. Clean(c)
      BY <1>5, <2>1 DEF ModeMeans
    <3>2. e \in Ctx /\ Clean(e) /\ e.handed = c.handed /\ e.rsp = c.rsp
      BY <1>2, <1>5, <3>1, ScheduledClean
    <3>3. Len(<<>>) <= Capacity
      BY DataModeAssumption
    <3> QED BY <2>1, <3>2, <3>3 DEF ModeMeans, Fits, Clean
  <2>2. CASE c.at_mode = "DATA"
    <3>1. InData(c, input, asked) /\ erred = NoError
      BY <1>5, <1>6, <2>2, IInvFacts DEF ModeMeans, NoError
    <3>2. Fits(e) /\ ModeMeans(e, input, asked, NoError) /\ e.at_mode # "AT"
      BY <1>2, <1>4, <1>5, <3>1, ScheduledLive
    <3> QED BY <2>2, <3>1, <3>2 DEF Fits
  <2>3. CASE c.at_mode = "NULL"
    <3>1. Dead(c, input, erred)
      BY <1>5, <2>3 DEF ModeMeans
    <3>2. Fits(e) /\ Dead(e, input, erred)
      BY <1>2, <1>5, <3>1, ScheduledDead
    <3> QED BY <3>2 DEF Fits, ModeMeans, Dead
  <2> QED BY <1>6, <2>1, <2>2, <2>3
<1>8. /\ Fits(ctx') /\ ModeMeans(ctx', input, asked, erred)
      /\ Truthful(e, input, asked, erred) => Truthful(ctx', input, asked, erred)
  BY <1>2, <1>7, SetCurrent
<1>9. ctx'.at_mode = e.at_mode
  BY <1>2, <1>7 DEF Ctx
<1>10. (ctx'.at_mode = "AT" /\ sessions > 0) => Truthful(ctx', input, asked, erred)
  <2> HAVE ctx'.at_mode = "AT" /\ sessions > 0
  <2>1. ctx.at_mode = "AT" /\ e.handed = c.handed /\ e.rsp = c.rsp
    BY <1>6, <1>7, <1>9
  <2>2. Truthful(c, input, asked, erred)
    BY <1>5, <2>1 DEF IInv
  <2>3. Truthful(e, input, asked, erred)
    BY <2>1, <2>2 DEF Truthful
  <2> QED BY <1>8, <2>3
<1>11. TypeOK' /\ TypeLogs'
  BY <1>3, <1>8, IInvFacts DEF TypeOK, TypeLogs, Fits
<1>12. ctx'.at_mode = "DATA" => ~erred'
  BY <1>3, <1>6, <1>7, <1>9, IInvFacts
<1> QED BY <1>3, <1>8, <1>10, <1>11, <1>12 DEF IInv

(* The timer and the error of a service. *)
LEMMA TimerKeeps == IInv /\ InactivityTimer => IInv'
<1> SUFFICES ASSUME IInv, InactivityTimer PROVE IInv'
  OBVIOUS
<1>1. /\ timer' = FALSE /\ sendWork' = (sendWork \/ ctx.data_rb # <<>>)
      /\ UNCHANGED <<ctx, rxWork, input, asked, erred, sessions>>
  BY DEF InactivityTimer
<1>2. sendWork' \in BOOLEAN
  BY <1>1
<1>3. TypeOK' /\ TypeLogs'
  BY <1>1, <1>2, IInvFacts DEF TypeOK, TypeLogs, Fits
<1> QED BY <1>1, <1>3 DEF IInv

(* A service's error leaves data mode with what was handed over so far. *)
LEMMA ErrorKeeps == IInv /\ ServiceError => IInv'
<1> SUFFICES ASSUME IInv, ServiceError PROVE IInv'
  OBVIOUS
<1>1. /\ ctx.at_mode = "DATA" /\ ctx' = exit_datamode_handler(ctx)
      /\ UNCHANGED <<rxWork, timer, sendWork, input, asked, sessions>>
  BY DEF ServiceError
<1>2. /\ ctx \in Ctx /\ Fits(ctx) /\ InData(ctx, input, asked) /\ input \in Seq(Chars)
  BY <1>1, IInvFacts
<1>3. /\ ctx' \in Ctx /\ ctx'.at_mode = "NULL" /\ ~ctx'.handler /\ ~ctx'.handler_result
      /\ ctx'.handed = ctx.handed /\ ctx'.data_rb = ctx.data_rb
  BY <1>1, <1>2, ExitHandler
<1>4. erred' = TRUE /\ erred' \in BOOLEAN
  BY DEF ServiceError
<1>5. Dead(ctx', input, erred')
  BY <1>3, <1>4 DEF Dead
<1>6. TypeOK' /\ TypeLogs'
  BY <1>1, <1>2, <1>3, <1>4, IInvFacts DEF TypeOK, TypeLogs, Fits
<1>7. ModeMeans(ctx', input', asked', erred')
  BY <1>1, <1>3, <1>5 DEF ModeMeans
<1> QED BY <1>3, <1>6, <1>7 DEF IInv

LEMMA IInvStep == IInv /\ [Next]_vars => IInv'
<1> SUFFICES ASSUME IInv, [Next]_vars PROVE IInv'
  OBVIOUS
<1>1. CASE UNCHANGED vars
  BY <1>1 DEF vars, IInv, TypeOK, TypeLogs
<1>2. CASE RxWorkStart \/ RxWorkEnd
  BY <1>2, RxWorkKeeps
<1>3. CASE EnterDataMode
  BY <1>3, EnterKeeps
<1>4. CASE RxByte
  BY <1>4, ByteKeeps
<1>5. CASE InactivityTimer
  BY <1>5, TimerKeeps
<1>6. CASE RawSendScheduled
  BY <1>6, ScheduledKeeps
<1>7. CASE ServiceError
  BY <1>7, ErrorKeeps
<1> QED BY <1>1, <1>2, <1>3, <1>4, <1>5, <1>6, <1>7 DEF Next

(* The invariant is inductive. *)
THEOREM IInvInvariant == Spec => []IInv
BY IInvStep, InitIInv, PTL DEF Spec

(* Every variable keeps its type: whatever the handler accepts, the buffer  *)
(* never holds more than its size, and a match of the terminator never runs *)
(* past its end.                                                            *)
THEOREM TypeCorrect == Spec => []TypeOK
<1>1. IInv => TypeOK
  BY DEF IInv
<1> QED BY <1>1, IInvInvariant, PTL

(* While data mode lasts, what was handed over, buffered and held back is   *)
(* what the host sent, byte for byte.                                       *)
THEOREM DataCorrect == Spec => []DataAsIs
<1>1. IInv => DataAsIs
  BY DEF IInv, ModeMeans, InData, DataAsIs
<1> QED BY <1>1, IInvInvariant, PTL

(* With <data_len>, data mode ends with exactly that many bytes, and the    *)
(* counter never wraps in a live session.                                   *)
THEOREM LengthCorrect == Spec => []LengthHonoured
<1>1. IInv => LengthHonoured
  BY DEF IInv, ModeMeans, InData, LengthHonoured
<1> QED BY <1>1, IInvInvariant, PTL

(* AT mode is clean: nothing of a session reaches the next one. *)
THEOREM ExitClean == Spec => []CleanExit
<1>1. IInv => CleanExit
  BY DEF IInv, ModeMeans, Clean, CleanExit
<1> QED BY <1>1, IInvInvariant, PTL

(* #XDATAMODE reports success only if the handler accepted all of the       *)
(* payload, and a failure only if the service reported an error of its own  *)
(* or the handler refused some of the payload.                              *)
THEOREM ResultCorrect == Spec => []ResultTruthful
<1>1. IInv => ResultTruthful
  <2> SUFFICES ASSUME IInv, ctx.at_mode = "AT", sessions > 0
               PROVE  ResultTruthful
    BY DEF ResultTruthful
  <2>1. Truthful(ctx, input, asked, erred)
    BY DEF IInv
  <2>2. asked \in Nat /\ (asked > 0 \/ asked = 0)
    BY DataModeAssumption DEF IInv, TypeLogs
  <2>3. CASE ctx.rsp.ok
    BY <2>1, <2>2, <2>3 DEF Truthful, ResultTruthful
  <2>4. CASE ~ctx.rsp.ok
    BY <2>1, <2>2, <2>4 DEF Truthful, ResultTruthful
  <2> QED BY <2>3, <2>4
<1> QED BY <1>1, IInvInvariant, PTL

-----------------------------------------------------------------------------
(* The terminator.  The matcher starts again from the beginning when a match *)
(* breaks off, so of a terminator like `aab' it misses the one in `aaab'.    *)
(* It misses none if all characters are the same, as in the default, `+++':  *)
(* then it has always matched at least the characters of the terminator that *)
(* were received last.                                                       *)
Uniform == \A i \in 1..Len(Terminator) : Terminator[i] = Terminator[1]

Matched(c) == IF c.at_mode = "DATA" THEN c.quit_str_match ELSE c.null_match_count

(* The bytes r end with at most m characters of the terminator. *)
AtMost(r, m) == Len(r) <= m \/ r[Len(r) - m] # Terminator[1]

RunInv ==
    /\ recent \in Seq(Chars)
    /\ (asked = 0 /\ ~split /\ ctx.at_mode # "AT") => AtMost(recent, Matched(ctx))

(* Sending and writing leave the matches alone. *)
LEMMA SendCounts ==
    ASSUME NEW c \in Ctx, NEW d \in raw_send(c)
    PROVE  /\ d \in Ctx /\ d.quit_str_match = c.quit_str_match
           /\ d.null_match_count = c.null_match_count
<1>1. c.data_rb \in Seq(Chars) /\ c.handed \in Seq(Chars) /\ <<>> \in Seq(Chars) BY DEF Ctx
<1>2. CASE d = c BY <1>2
<1>3. CASE d = [c EXCEPT !.data_rb = <<>>] BY <1>1, <1>3 DEF Ctx
<1>4. CASE \E k \in 0..Len(c.data_rb) : d = Sent(c, k)
  <2>1. PICK k \in 0..Len(c.data_rb) : d = Sent(c, k) BY <1>4
  <2> DEFINE h == c.handed \o SubSeq(c.data_rb, 1, k)
             e == [c EXCEPT !.handed = h, !.data_rb = <<>>]
  <2>2. SubSeq(c.data_rb, 1, k) \in Seq(Chars) BY <1>1, <2>1, Split
  <2>3. h \in Seq(Chars) BY <1>1, <2>2, Cat
  <2>4. d = e \/ d = exit_datamode_handler(e) BY <2>1 DEF Sent
  <2> HIDE DEF h
  <2>5. /\ e \in Ctx /\ e.quit_str_match = c.quit_str_match
        /\ e.null_match_count = c.null_match_count
    BY <1>1, <2>3 DEF Ctx
  <2> HIDE DEF e
  <2>6. CASE d = exit_datamode_handler(e)
    <3>1. 0 \in 0..SIZE_MAX BY DataModeAssumption
    <3> QED BY <2>5, <2>6, <3>1 DEF exit_datamode_handler, Ctx
  <2> QED BY <2>4, <2>5, <2>6
<1> QED BY <1>2, <1>3, <1>4 DEF raw_send

LEMMA WriteCounts ==
    ASSUME NEW c \in Ctx, Len(c.data_rb) <= Capacity, NEW buf \in Seq(Chars),
           Len(buf) <= Capacity, NEW d \in write_data_buf(c, buf)
    PROVE  /\ d \in Ctx /\ d.quit_str_match = c.quit_str_match
           /\ d.null_match_count = c.null_match_count
           /\ Len(d.data_rb) <= Capacity
<1> DEFINE room == Capacity - Len(c.data_rb)
           b == [c EXCEPT !.data_rb = @ \o SubSeq(buf, 1, room)]
<1>1. c.data_rb \in Seq(Chars) /\ Len(c.data_rb) \in Nat /\ Capacity \in Nat
  BY DataModeAssumption DEF Ctx
<1>2. Len(buf) \in Nat /\ room \in Int BY <1>1
<1>3. CASE d = [c EXCEPT !.hung = TRUE] BY <1>3 DEF Ctx
<1>4. CASE Len(buf) <= room /\ d = [c EXCEPT !.data_rb = @ \o buf]
  <2> DEFINE r == c.data_rb \o buf
  <2>1. r \in Seq(Chars) /\ Len(r) = Len(c.data_rb) + Len(buf) BY <1>1, Cat
  <2>2. Len(r) <= Capacity BY <1>1, <1>4, <1>2, <2>1
  <2>3. d = [c EXCEPT !.data_rb = r] BY <1>4
  <2> HIDE DEF r
  <2> QED BY <2>1, <2>2, <2>3 DEF Ctx
<1>5. CASE Len(buf) > room /\ \E e \in raw_send(b) :
                d = [e EXCEPT !.data_rb = SubSeq(buf, room + 1, Len(buf))]
  <2>1. room \in 0..Len(buf) BY <1>1, <1>5
  <2> DEFINE q == SubSeq(buf, room + 1, Len(buf))
  <2>2. /\ SubSeq(buf, 1, room) \in Seq(Chars) /\ q \in Seq(Chars)
        /\ Len(q) = Len(buf) - room
    BY <2>1, Split
  <2>3. Len(q) <= Capacity BY <1>1, <1>2, <2>1, <2>2
  <2>4. c.data_rb \o SubSeq(buf, 1, room) \in Seq(Chars) BY <1>1, <2>2, Cat
  <2>5. PICK e \in raw_send(b) : d = [e EXCEPT !.data_rb = q]
    BY <1>5
  <2>6. b \in Ctx /\ b.quit_str_match = c.quit_str_match /\ b.null_match_count = c.null_match_count
    BY <2>4 DEF Ctx
  <2> HIDE DEF b, q
  <2>7. e \in Ctx /\ e.quit_str_match = b.quit_str_match /\ e.null_match_count = b.null_match_count
    BY <2>5, <2>6, SendCounts
  <2> QED BY <2>2, <2>5, <2>6, <2>7, <2>3 DEF Ctx
<1>6. \/ d \in {[c EXCEPT !.hung = TRUE]}
      \/ Len(buf) <= room /\ d \in {[c EXCEPT !.data_rb = @ \o buf]}
      \/ ~(Len(buf) <= room)
         /\ d \in {[e EXCEPT !.data_rb = SubSeq(buf, room + 1, Len(buf))] : e \in raw_send(b)}
  BY Zenon DEF write_data_buf
<1>7. ASSUME ~(Len(buf) <= room) PROVE Len(buf) > room BY <1>2, <1>7
<1> HIDE DEF room, b
<1> QED BY <1>3, <1>4, <1>5, <1>6, <1>7, Zenon

(* A byte of the terminator makes the match longer or ends data mode;       *)
(* another one begins it anew, in whichever mode.                           *)
LEMMA ByteCounts ==
    ASSUME Uniform, IInv, NEW ch \in Chars, ctx.at_mode # "AT", asked = 0, NEW d,
           d \in IF ctx.at_mode = "DATA" THEN raw_rx_handler(ctx, ch)
                                         ELSE {null_handler(ctx, ch)},
           d.at_mode # "AT"
    PROVE  IF ch = Terminator[1] THEN Matched(d) = Matched(ctx) + 1 ELSE Matched(d) = 0
<1>1. ctx \in Ctx /\ Fits(ctx) /\ ModeMeans(ctx, input, asked, erred) BY IInvFacts DEF IInv
<1>2. /\ ctx.quit_str_match \in 0..Len(Terminator) - 1 /\ 0 \in 0..Len(Terminator) - 1
      /\ ctx.null_match_count \in 0..Len(Terminator) - 1 /\ Len(Terminator) \in Nat \ {0}
      /\ ctx.at_mode \in {"AT", "DATA", "NULL"}
  BY <1>1, CtxTypes DEF Ctx
<1>3. /\ Terminator[ctx.quit_str_match + 1] = Terminator[1]
      /\ Terminator[ctx.null_match_count + 1] = Terminator[1]
  BY <1>2 DEF Uniform
<1>4. <<ch>> \in Seq(Chars) OBVIOUS
<1>5. CASE ctx.at_mode = "DATA"
  <2>1. ctx.data_len = 0 /\ ctx.null_match_count = 0 /\ ~(ctx.data_len > 0)
    BY <1>1, <1>5 DEF ModeMeans, InData, Live
  <2>2. d \in raw_rx_handler(ctx, ch) BY <1>5
  <2>3. CASE ch = Terminator[1]
    <3>1. d \in rx_match(ctx, ch) BY <1>3, <2>1, <2>2, <2>3 DEF raw_rx_handler
    <3>2. CASE ctx.quit_str_match + 1 = Len(Terminator)
      <4>1. PICK e \in raw_send(ctx) : d = exit_datamode(e)
        BY <1>3, <2>3, <3>1, <3>2 DEF rx_match
      <4>2. e \in Ctx BY <1>1, <4>1, SendCounts
      <4>3. d.at_mode = "AT" BY <4>1, <4>2 DEF exit_datamode, Ctx
      <4> QED BY <4>3
    <3>3. CASE ctx.quit_str_match + 1 # Len(Terminator)
      <4>1. d = [ctx EXCEPT !.quit_str_match = @ + 1] BY <1>3, <2>3, <3>1, <3>3 DEF rx_match
      <4>2. d.at_mode = ctx.at_mode /\ d.quit_str_match = ctx.quit_str_match + 1
        BY <1>1, <4>1 DEF Ctx
      <4> QED BY <1>5, <2>3, <4>2 DEF Matched
    <3> QED BY <3>2, <3>3
  <2>4. CASE ch # Terminator[1]
    <3> DEFINE b == [ctx EXCEPT !.quit_str_match = 0]
    <3>1. \E c \in Ctx : /\ Len(c.data_rb) <= Capacity /\ c.quit_str_match = 0
                         /\ c.null_match_count = 0 /\ d \in write_data_buf(c, <<ch>>)
      <4>1. CASE ctx.quit_str_match = 0
        <5>1. d \in write_data_buf(ctx, <<ch>>)
          BY <1>2, <1>3, <2>1, <2>2, <2>4, <4>1 DEF raw_rx_handler, rx_match
        <5> QED BY <1>1, <2>1, <4>1, <5>1 DEF Fits
      <4>2. CASE ctx.quit_str_match # 0
        <5>1. ctx.quit_str_match > 0 BY <1>2, <4>2
        <5>2. PICK e \in write_data_buf(ctx, QuitStr(ctx.quit_str_match)) :
                      d \in rx_match([e EXCEPT !.quit_str_match = 0], ch)
          BY <1>3, <2>1, <2>2, <2>4, <5>1 DEF raw_rx_handler
        <5>3. /\ QuitStr(ctx.quit_str_match) \in Seq(Chars)
              /\ Len(QuitStr(ctx.quit_str_match)) = ctx.quit_str_match
          BY <1>2, QuitStrSeq
        <5>4. Len(QuitStr(ctx.quit_str_match)) <= Capacity
          BY <1>2, <5>3, DataModeAssumption
        <5>5. e \in Ctx /\ e.null_match_count = 0 /\ Len(e.data_rb) <= Capacity
          BY <1>1, <2>1, <5>2, <5>3, <5>4, WriteCounts DEF Fits
        <5> DEFINE c == [e EXCEPT !.quit_str_match = 0]
        <5>6. /\ c \in Ctx /\ c.data_rb = e.data_rb /\ c.quit_str_match = 0
              /\ c.null_match_count = 0
          BY <1>2, <5>5 DEF Ctx
        <5>7. d \in rx_match(c, ch) BY <5>2
        <5> HIDE DEF c
        <5>8. d \in write_data_buf(c, <<ch>>)
          BY <2>4, <5>6, <5>7 DEF rx_match
        <5> QED BY <5>5, <5>6, <5>8
      <4> QED BY <4>1, <4>2
    <3>2. d.quit_str_match = 0 /\ d.null_match_count = 0
      <4>1. Len(<<ch>>) <= Capacity BY DataModeAssumption
      <4> QED BY <1>4, <3>1, <4>1, WriteCounts
    <3> QED BY <2>4, <3>2 DEF Matched
  <2> QED BY <2>3, <2>4
<1>6. CASE ctx.at_mode = "NULL"
  <2>1. d = null_handler(ctx, ch) BY <1>6
  <2>2. CASE ch # Terminator[1]
    <3>1. d = [ctx EXCEPT !.null_match_count = 0] BY <1>3, <2>1, <2>2 DEF null_handler
    <3>2. d.at_mode = "NULL" /\ d.null_match_count = 0 BY <1>1, <1>6, <3>1 DEF Ctx
    <3> QED BY <2>2, <3>2 DEF Matched
  <2>3. CASE ch = Terminator[1]
    <3>1. CASE ctx.null_match_count + 1 = Len(Terminator)
      <4>1. d = [exit_datamode(ctx) EXCEPT !.null_match_count = 0]
        BY <1>3, <2>1, <2>3, <3>1 DEF null_handler
      <4>2. d.at_mode = "AT" BY <1>1, <4>1 DEF exit_datamode, Ctx
      <4> QED BY <4>2
    <3>2. CASE ctx.null_match_count + 1 # Len(Terminator)
      <4>1. d = [ctx EXCEPT !.null_match_count = @ + 1]
        BY <1>3, <2>1, <2>3, <3>2 DEF null_handler
      <4>2. d.at_mode = "NULL" /\ d.null_match_count = ctx.null_match_count + 1
        BY <1>1, <1>6, <4>1 DEF Ctx
      <4> QED BY <1>6, <2>3, <4>2 DEF Matched
    <3> QED BY <3>1, <3>2
  <2> QED BY <2>2, <2>3
<1> QED BY <1>2, <1>5, <1>6

LEMMA RunKeeps == ASSUME Uniform PROVE IInv /\ RunInv /\ [Next]_vars => RunInv'
<1> SUFFICES ASSUME IInv, RunInv, [Next]_vars PROVE RunInv'
  OBVIOUS
<1>1. ctx \in Ctx /\ recent \in Seq(Chars) BY IInvFacts DEF RunInv
<1>2. Matched(ctx) \in Nat BY <1>1, DataModeAssumption DEF Matched, Ctx
<1>3. CASE UNCHANGED vars BY <1>3 DEF vars, RunInv, Matched
<1>4. CASE RxWorkStart \/ RxWorkEnd
  <2>1. /\ ctx'.at_mode = ctx.at_mode /\ ctx'.quit_str_match = ctx.quit_str_match
        /\ ctx'.null_match_count = ctx.null_match_count
    BY <1>1, <1>4 DEF RxWorkStart, RxWorkEnd, Ctx
  <2>2. UNCHANGED <<asked, recent, split>> BY <1>4 DEF RxWorkStart, RxWorkEnd
  <2> QED BY <2>1, <2>2 DEF RunInv, Matched
<1>5. CASE recent' = <<>>
  <2>1. Len(<<>>) = 0 /\ <<>> \in Seq(Chars) OBVIOUS
  <2>2. ctx' \in Ctx
    <3>1. IInv' BY IInvStep
    <3> QED BY <3>1 DEF IInv, TypeOK
  <2>3. 0 <= Matched(ctx') BY <2>2, DataModeAssumption DEF Matched, Ctx
  <2> QED BY <1>5, <2>1, <2>3 DEF RunInv, AtMost
<1>6. CASE RxByte
  <2>1. PICK ch \in Chars :
          /\ ctx' \in IF ctx.at_mode = "DATA" THEN raw_rx_handler(ctx, ch)
                                              ELSE {null_handler(ctx, ch)}
          /\ recent' = Append(recent, ch)
    BY <1>6 DEF RxByte
  <2>2. ctx.at_mode # "AT" /\ asked' = asked /\ split' = split BY <1>6 DEF RxByte
  <2>3. /\ recent' \in Seq(Chars) /\ Len(recent') = Len(recent) + 1
        /\ recent'[Len(recent) + 1] = ch
        /\ \A i \in 1..Len(recent) : recent'[i] = recent[i]
    BY <1>1, <2>1
  <2>4. ASSUME asked = 0, ~split, ctx'.at_mode # "AT"
        PROVE  AtMost(recent', Matched(ctx'))
    <3>1. AtMost(recent, Matched(ctx)) BY <2>2, <2>4 DEF RunInv
    <3>2. IF ch = Terminator[1] THEN Matched(ctx') = Matched(ctx) + 1 ELSE Matched(ctx') = 0
      BY <2>1, <2>2, <2>4, ByteCounts
    <3>3. CASE ch # Terminator[1] BY <1>1, <2>3, <3>2, <3>3 DEF AtMost
    <3>4. CASE ch = Terminator[1]
      <4>1. CASE Len(recent) <= Matched(ctx) BY <1>1, <1>2, <2>3, <3>2, <3>4, <4>1 DEF AtMost
      <4>2. CASE Len(recent) > Matched(ctx)
        <5>1. Len(recent) - Matched(ctx) \in 1..Len(recent) BY <1>1, <1>2, <4>2
        <5>2. Len(recent') - Matched(ctx') = Len(recent) - Matched(ctx)
          BY <1>1, <1>2, <2>3, <3>2, <3>4
        <5>3. recent[Len(recent) - Matched(ctx)] # Terminator[1]
          BY <1>1, <1>2, <3>1, <4>2 DEF AtMost
        <5> QED BY <2>3, <5>1, <5>2, <5>3 DEF AtMost
      <4> QED BY <1>1, <1>2, <4>1, <4>2
    <3> QED BY <3>3, <3>4
  <2> QED BY <2>2, <2>3, <2>4 DEF RunInv
<1>7. CASE ServiceError
  <2>1. recent' = recent /\ split' = (recent # <<>>) BY <1>7 DEF ServiceError
  <2>2. CASE recent = <<>> BY <1>5, <2>1, <2>2
  <2>3. CASE recent # <<>> BY <1>1, <2>1, <2>3 DEF RunInv
  <2> QED BY <2>2, <2>3
<1> QED BY <1>3, <1>4, <1>5, <1>6, <1>7
        DEF Next, EnterDataMode, InactivityTimer, RawSendScheduled

(* A terminator whose characters are all the same, as the default, is never *)
(* missed: received without a pause it ends data mode, and the dropping of  *)
(* data after a failure, wherever the buffer fills up or a send fails.      *)
THEOREM TerminatorCorrect == Uniform => (Spec => []TerminatorExits)
<1> SUFFICES ASSUME Uniform PROVE Spec => []TerminatorExits
  OBVIOUS
<1>1. Init => RunInv
  BY DEF Init, RunInv
<1>2. IInv /\ RunInv /\ [Next]_vars => RunInv'
  BY RunKeeps
<1>3. IInv /\ RunInv => TerminatorExits
  <2> SUFFICES ASSUME IInv, RunInv, asked = 0, ~split, EndsInTerminator(recent),
                      ctx.at_mode # "AT"
               PROVE  FALSE
    BY DEF TerminatorExits
  <2> DEFINE n == Len(recent)
             l == Len(Terminator)
             m == Matched(ctx)
  <2>1. ctx \in Ctx /\ recent \in Seq(Chars) /\ n \in Nat /\ l \in Nat \ {0}
        /\ Terminator \in Seq(Chars)
    BY IInvFacts, DataModeAssumption DEF RunInv
  <2>2. m \in 0..l - 1 BY <2>1 DEF Matched, Ctx
  <2>3. n >= l /\ SubSeq(recent, n - l + 1, n) = Terminator BY DEF EndsInTerminator
  <2>4. recent[n - m] # Terminator[1]
    <3>1. AtMost(recent, m) BY DEF RunInv
    <3> HIDE DEF m
    <3> QED BY <2>1, <2>2, <2>3, <3>1 DEF AtMost
  <2> HIDE DEF m
  <2>5. l - m \in 1..l BY <2>1, <2>2
  <2>6. Terminator[l - m] = recent[n - m]
    <3>1. \A i \in 1..l : SubSeq(recent, n - l + 1, n)[i] = recent[n - l + i]
      BY <2>1, <2>3
    <3>2. Terminator[l - m] = recent[n - l + (l - m)] BY <2>3, <2>5, <3>1
    <3> QED BY <2>1, <2>2, <3>2
  <2>7. Terminator[l - m] = Terminator[1] BY <2>5 DEF Uniform
  <2> QED BY <2>4, <2>6, <2>7
<1> QED BY <1>1, <1>2, <1>3, IInvInvariant, PTL DEF Spec
=============================================================================
