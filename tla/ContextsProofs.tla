--------------------------- MODULE ContextsProofs ---------------------------
(***************************************************************************)
(* Proofs about Contexts, for every number of channels, contexts and       *)
(* queued messages: instance_list stays a list of different contexts and   *)
(* is never empty, and no pipe is left with a context that was destroyed.  *)
(*                                                                         *)
(* The second is not inductive.  Whether a pipe with a destroyed context   *)
(* gets its callback taken off depends on the message that was queued when *)
(* the context lost the pipe, and on nobody else having used the context   *)
(* in between; the invariant follows a pipe's callback through all of it.  *)
(***************************************************************************)
EXTENDS Contexts, WellFoundedInduction, SequenceTheorems, TLAPS

-----------------------------------------------------------------------------
(* Types. *)

Addrs == Range(Ctxs)
Callbacks == {"none", "null", "at", "cmux", "ppp"}
Msgs == [ev : {"opened", "closed"}, ctx : Addrs \cup {NULL}, pipe : Pipes]

Hosts == [inst : Seq(Addrs), pipe : [Addrs -> Pipes \cup {NULL, Deadbeef}],
          cb : [Pipes -> Callbacks], user : [Pipes -> Addrs \cup {NULL}],
          open : SUBSET Pipes, msgs : Seq(Msgs), lock : SUBSET Addrs,
          uart_pipe : BOOLEAN, at_channel : 1..2, urc_channel : 0..Len(Dlcis),
          purged : BOOLEAN]

PppEvents == [action : {"START", "STOP", "RESTART"},
              reason : {"CMD", "NETWORK", "PEER", "ERROR"}]

Ppps == [state : {"STOPPED", "STARTING", "RUNNING", "STOPPING"},
         pipe : Pipes \cup {NULL}, mod : Pipes \cup {NULL}, keep : BOOLEAN,
         detach : BOOLEAN, auto : BOOLEAN, monitor : BOOLEAN, peer : BOOLEAN,
         queue : Seq(PppEvents)]

(* instance_list has a context, and each only once; the message queue is    *)
(* within its size.                                                         *)
Listed(s) == s.inst # <<>> /\ IsInjective(s.inst) /\ Len(s.msgs) <= MsgqLen

(* A context is marked while it is about to be destroyed, and only then. *)
ClosingInv(s, m) ==
    /\ m # NoMsg => m \in Msgs /\ m.ctx \in Range(s.inst)
    /\ \A c \in Addrs : s.pipe[c] = Deadbeef <=> m # NoMsg /\ m.ctx = c

(* The message that takes the callback off p is queued. *)
CloseQueued(s, p) ==
    \E i \in 1..Len(s.msgs) : s.msgs[i] = [ev |-> "closed", ctx |-> s.user[p], pipe |-> p]

(* Where the context of a pipe's callback is: on the pipe, about to be told *)
(* of its close, or about to be destroyed (m); and no context is that of    *)
(* two pipes.                                                               *)
TrackedPipe(s, m, p) ==
    /\ s.user[p] \in Addrs
    /\ \/ s.user[p] \in Range(s.inst) /\ s.pipe[s.user[p]] = p
       \/ CloseQueued(s, p)
       \/ m # NoMsg /\ m.ctx = s.user[p] /\ m.pipe = p
    /\ ~Stale(s, p)
    /\ \A q \in Pipes : /\ s.cb[q] = "at" /\ s.user[q] = s.user[p]
                        /\ s.user[p] \in Range(s.inst)
                        => p = q
Tracked(s, m) == \A p \in Pipes : s.cb[p] = "at" => TrackedPipe(s, m, p)

(* What every operation of the AT host keeps; m is the message whose        *)
(* context is about to be destroyed, left that a callback was left behind.  *)
Sound(s, m, left) ==
    /\ s \in Hosts /\ Listed(s) /\ ClosingInv(s, m)
    /\ s.purged \/ left \/ Tracked(s, m)

Left == "callback left" \in mishaps

(* PPP's state, with its queue within its size. *)
PppSound(q) == q \in Ppps /\ Len(q.queue) <= QueueLen

IInv ==
    /\ Sound(h, closing, Left)
    /\ closing # NoMsg => closing.ev = "closed"
    /\ PppSound(ppp) /\ event \in PppEvents

-----------------------------------------------------------------------------
(* Sequences and choices. *)

(* The addresses of the code are different ones. *)
LEMMA Names ==
    /\ NULL # Deadbeef /\ NULL \notin Pipes /\ Deadbeef \notin Pipes
    /\ NULL \notin Addrs /\ Deadbeef \notin Addrs /\ Uart \in Pipes
    /\ \A i \in 1..Len(Dlcis) : Dlcis[i] \in Pipes
    /\ Len(Dlcis) \in Nat /\ Len(Dlcis) > 1 /\ DOMAIN Dlcis = 1..Len(Dlcis)
    /\ Len(Ctxs) \in Nat /\ Len(Ctxs) > 0 /\ DOMAIN Ctxs = 1..Len(Ctxs)
    /\ \A i \in 1..Len(Ctxs) : Ctxs[i] \in Addrs
<1>1. /\ Len(Dlcis) \in Nat /\ DOMAIN Dlcis = 1..Len(Dlcis)
      /\ Len(Ctxs) \in Nat /\ DOMAIN Ctxs = 1..Len(Ctxs)
  BY ContextsAssumption
<1>2. /\ \A i \in 1..Len(Dlcis) : Dlcis[i] \in Range(Dlcis)
      /\ \A i \in 1..Len(Ctxs) : Ctxs[i] \in Range(Ctxs)
  BY <1>1 DEF Range
<1> QED BY <1>1, <1>2, ContextsAssumption DEF NULL, Deadbeef, Pipes, Uart, Addrs

(* A set of positions has a first one. *)
LEMMA First ==
    ASSUME NEW n \in Nat, NEW I, I \subseteq 1..n, I # {}
    PROVE  \E i \in I : \A j \in I : i <= j
<1> DEFINE R == OpToRel(<, Nat)
<1>1. I \subseteq Nat
  OBVIOUS
<1>2. \A a, b \in Nat : <<a, b>> \in R <=> a < b
  BY DEF OpToRel
<1>3. IsWellFoundedOn(R, Nat)
  BY NatLessThanWellFounded, Zenon
<1> HIDE DEF R
<1>4. \E i \in I : \A j \in I : <<j, i>> \notin R
  BY <1>1, <1>3, WFMin
<1>5. \A i, j \in Nat : ~(j < i) => i <= j
  OBVIOUS
<1> QED BY <1>1, <1>2, <1>4, <1>5

(* A list without one of its elements. *)
LEMMA Removed ==
    ASSUME NEW S, NEW q \in Seq(S), IsInjective(q), NEW c, c \in Range(q)
    PROVE  /\ RemoveFirst(q, c) \in Seq(S) /\ IsInjective(RemoveFirst(q, c))
           /\ Range(RemoveFirst(q, c)) = Range(q) \ {c}
           /\ Len(RemoveFirst(q, c)) = Len(q) - 1
<1>1. Len(q) \in Nat /\ DOMAIN q = 1..Len(q) /\ \A i \in 1..Len(q) : q[i] \in S
  OBVIOUS
<1> DEFINE I == {i \in 1..Len(q) : q[i] = c}
           k == Min(I)
           r == SubSeq(q, 1, k - 1) \o SubSeq(q, k + 1, Len(q))
<1>2. I # {} /\ I \subseteq 1..Len(q)
  BY <1>1 DEF Range
<1>3. k \in I
  BY <1>1, <1>2, First DEF Min
<1>4. RemoveFirst(q, c) = r
  BY <1>2 DEF RemoveFirst, RemoveAt, SelectInSeq
<1>5. k \in 1..Len(q) /\ q[k] = c
  BY <1>3
<1> HIDE DEF k
<1>6. /\ SubSeq(q, 1, k - 1) \in Seq(S) /\ Len(SubSeq(q, 1, k - 1)) = k - 1
      /\ \A i \in 1..k - 1 : SubSeq(q, 1, k - 1)[i] = q[i]
  BY <1>1, <1>5
<1>7. /\ SubSeq(q, k + 1, Len(q)) \in Seq(S)
      /\ Len(SubSeq(q, k + 1, Len(q))) = Len(q) - k
      /\ \A i \in 1..Len(q) - k : SubSeq(q, k + 1, Len(q))[i] = q[k + i]
  <2> DEFINE b == SubSeq(q, k + 1, Len(q))
  <2>1. k + 1 \in Int /\ Len(q) \in Int /\ \A i \in k + 1 .. Len(q) : q[i] \in S
    BY <1>1, <1>5
  <2>2. /\ b \in Seq(S)
        /\ Len(b) = IF k + 1 <= Len(q) THEN Len(q) - (k + 1) + 1 ELSE 0
        /\ \A i \in 1..Len(q) - (k + 1) + 1 : b[i] = q[(k + 1) + i - 1]
    BY <2>1, SubSeqProperties
  <2> HIDE DEF b
  <2>3. /\ Len(b) = Len(q) - k /\ Len(q) - (k + 1) + 1 = Len(q) - k
        /\ \A i \in 1..Len(q) - k : (k + 1) + i - 1 = k + i
    <3> DEFINE n == Len(q)
    <3>1. n \in Nat /\ k \in 1..n
      BY <1>1, <1>5
    <3> HIDE DEF n
    <3>2. /\ (IF k + 1 <= n THEN n - (k + 1) + 1 ELSE 0) = n - k
          /\ n - (k + 1) + 1 = n - k
      BY <3>1
    <3>3. \A i \in 1..n - k : (k + 1) + i - 1 = k + i
      BY <3>1
    <3> QED BY <2>2, <3>2, <3>3 DEF n
  <2>4. \A i \in 1..Len(q) - k : b[i] = q[k + i]
    BY <2>2, <2>3
  <2> QED BY <2>2, <2>3, <2>4 DEF b
<1>8. /\ r \in Seq(S) /\ Len(r) = Len(q) - 1
      /\ \A i \in 1..Len(q) - 1 : r[i] = IF i < k THEN q[i] ELSE q[i + 1]
  <2> DEFINE a == SubSeq(q, 1, k - 1)
             b == SubSeq(q, k + 1, Len(q))
  <2> HIDE DEF a, b
  <2>1. /\ a \in Seq(S) /\ Len(a) = k - 1 /\ \A i \in 1..k - 1 : a[i] = q[i]
        /\ b \in Seq(S) /\ Len(b) = Len(q) - k /\ \A i \in 1..Len(q) - k : b[i] = q[k + i]
    BY <1>6, <1>7 DEF a, b
  <2>2. /\ a \o b \in Seq(S) /\ Len(a \o b) = Len(q) - 1
        /\ \A i \in 1..Len(q) - 1 : (a \o b)[i] = IF i <= k - 1 THEN a[i] ELSE b[i - (k - 1)]
    <3>1. /\ a \o b \in Seq(S) /\ Len(a \o b) = Len(a) + Len(b)
          /\ \A i \in 1..Len(a) + Len(b) :
                (a \o b)[i] = IF i <= Len(a) THEN a[i] ELSE b[i - Len(a)]
      BY <2>1, ConcatProperties
    <3>2. Len(a) + Len(b) = Len(q) - 1
      BY <1>1, <1>5, <2>1
    <3> QED BY <2>1, <3>1, <3>2
  <2>3. \A i \in 1..Len(q) - 1 : i < k => (a \o b)[i] = q[i]
    BY <1>1, <1>5, <2>1, <2>2
  <2>4. \A i \in 1..Len(q) - 1 : ~(i < k) => (a \o b)[i] = q[i + 1]
    <3> SUFFICES ASSUME NEW i \in 1..Len(q) - 1, ~(i < k) PROVE (a \o b)[i] = q[i + 1]
      OBVIOUS
    <3>1. i - (k - 1) \in 1..Len(q) - k /\ k + (i - (k - 1)) = i + 1
      BY <1>1, <1>5
    <3>2. (a \o b)[i] = b[i - (k - 1)]
      BY <1>1, <1>5, <2>2
    <3> QED BY <2>1, <3>1, <3>2
  <2> QED BY <2>2, <2>3, <2>4 DEF a, b
<1> HIDE DEF r
<1>9. DOMAIN r = 1..Len(q) - 1
  BY <1>8
<1>10. IsInjective(r)
  <2> DEFINE at(i) == IF i < k THEN i ELSE i + 1
  <2>1. \A i \in 1..Len(q) - 1 : at(i) \in 1..Len(q) /\ r[i] = q[at(i)]
    BY <1>1, <1>5, <1>8
  <2>2. \A i, j \in 1..Len(q) - 1 : at(i) = at(j) => i = j
    BY <1>1, <1>5
  <2> HIDE DEF at
  <2>3. \A i, j \in 1..Len(q) : q[i] = q[j] => i = j
    BY <1>1 DEF IsInjective
  <2> QED BY <1>9, <2>1, <2>2, <2>3 DEF IsInjective
<1>11. \A i \in 1..Len(q) - 1 : r[i] \in Range(q) \ {c}
  BY <1>1, <1>5, <1>8, SMTT(30) DEF IsInjective, Range
<1>12. \A x \in Range(q) \ {c} : \E i \in 1..Len(q) - 1 : r[i] = x
  <2> SUFFICES ASSUME NEW j \in 1..Len(q), q[j] # c PROVE \E i \in 1..Len(q) - 1 : r[i] = q[j]
    BY <1>1 DEF Range
  <2>1. CASE j < k
    BY <1>1, <1>5, <1>8, <2>1
  <2>2. CASE j > k
    <3>1. j - 1 \in 1..Len(q) - 1 /\ ~(j - 1 < k) /\ (j - 1) + 1 = j
      BY <1>1, <1>5, <2>2
    <3> QED BY <1>8, <3>1
  <2> QED BY <1>1, <1>5, <2>1, <2>2
<1>13. Range(r) = Range(q) \ {c}
  BY <1>9, <1>11, <1>12 DEF Range
<1> QED BY <1>4, <1>8, <1>10, <1>13

(* A list with one more element. *)
LEMMA Appended ==
    ASSUME NEW S, NEW q \in Seq(S), IsInjective(q), NEW c \in S, c \notin Range(q)
    PROVE  /\ Append(q, c) # <<>> /\ IsInjective(Append(q, c))
           /\ Range(Append(q, c)) = Range(q) \cup {c}
<1> DEFINE r == Append(q, c)
<1>1. /\ Len(q) \in Nat /\ DOMAIN q = 1..Len(q) /\ DOMAIN r = 1..Len(q) + 1
      /\ r[Len(q) + 1] = c /\ \A i \in 1..Len(q) : r[i] = q[i]
  OBVIOUS
<1>2. r # <<>>
  BY <1>1
<1> HIDE DEF r
<1>3. /\ \A i \in 1..Len(q) + 1 : i \in 1..Len(q) \/ i = Len(q) + 1
      /\ \A i \in 1..Len(q) : i \in 1..Len(q) + 1
      /\ Len(q) + 1 \in 1..Len(q) + 1
  BY <1>1
<1>4. \A i \in 1..Len(q) : q[i] # c
  BY <1>1 DEF Range
<1>5. IsInjective(r)
  BY <1>1, <1>3, <1>4 DEF IsInjective
<1>6. Range(r) = Range(q) \cup {c}
  BY <1>1, <1>3 DEF Range
<1> QED BY <1>2, <1>5, <1>6 DEF r

(* Which context has a pipe: none, or one of the list. *)
LEMMA CtxFrom ==
    ASSUME NEW s \in Hosts, NEW p
    PROVE  LET c == sm_at_host_get_ctx_from(s, p)
           IN  /\ c = NULL \/ (p # NULL /\ c \in Range(s.inst) /\ c \in Addrs /\ s.pipe[c] = p)
               /\ (p # NULL /\ \E x \in Range(s.inst) : s.pipe[x] = p) => c # NULL
<1> DEFINE I == {i \in DOMAIN s.inst : s.pipe[s.inst[i]] = p}
           f == CHOOSE i \in I : \A j \in I : i <= j
<1>1. /\ Len(s.inst) \in Nat /\ DOMAIN s.inst = 1..Len(s.inst)
      /\ \A i \in 1..Len(s.inst) : s.inst[i] \in Addrs
  BY DEF Hosts
<1>2. I # {} => f \in I
  BY <1>1, First
<1>3. sm_at_host_get_ctx_from(s, p) = IF p = NULL \/ I = {} THEN NULL ELSE s.inst[f]
  BY DEF sm_at_host_get_ctx_from
<1>4. (\E x \in Range(s.inst) : s.pipe[x] = p) => I # {}
  BY DEF Range
<1> HIDE DEF f
<1>5. I # {} => /\ s.inst[f] \in Range(s.inst) /\ s.inst[f] \in Addrs
                /\ s.pipe[s.inst[f]] = p
  BY <1>1, <1>2 DEF Range
<1> QED BY <1>3, <1>4, <1>5, Names

(* The context for URCs is one of the list, if there is one. *)
LEMMA UrcCtx ==
    ASSUME NEW s \in Hosts, Listed(s)
    PROVE  LET u == sm_at_host_get_urc_ctx(s)
           IN  /\ u = NULL \/ (u \in Range(s.inst) /\ u \in Addrs)
               /\ ~s.uart_pipe => u # NULL
<1> DEFINE C == {ch \in DOMAIN Dlcis : sm_at_host_get_ctx_from(s, Dlcis[ch]) # NULL}
           d == Dlcis[CHOOSE i \in C : \A j \in C : i <= j]
           From(p) == sm_at_host_get_ctx_from(s, p)
<1>1. \A p : From(p) = NULL \/ (From(p) \in Range(s.inst) /\ From(p) \in Addrs)
  BY CtxFrom
<1> HIDE DEF From
<1>2. Head(s.inst) \in Range(s.inst) /\ Head(s.inst) \in Addrs
  <2>1. s.inst \in Seq(Addrs) /\ s.inst # <<>>
    BY DEF Hosts, Listed
  <2>2. Head(s.inst) = s.inst[1] /\ 1 \in DOMAIN s.inst
    BY <2>1
  <2> QED BY <2>1, <2>2 DEF Range
<1>3. sm_at_host_get_urc_ctx(s) =
        CASE s.uart_pipe /\ s.urc_channel # 0 -> From(Dlcis[s.urc_channel])
          [] s.uart_pipe /\ s.urc_channel = 0 /\ C # {} -> From(d)
          [] OTHER -> Head(s.inst)
  BY DEF sm_at_host_get_urc_ctx, From
<1> HIDE DEF C, d
<1>4. ~s.uart_pipe => sm_at_host_get_urc_ctx(s) = Head(s.inst)
  BY <1>3
<1>5. \/ sm_at_host_get_urc_ctx(s) = Head(s.inst)
      \/ sm_at_host_get_urc_ctx(s) = From(d)
      \/ sm_at_host_get_urc_ctx(s) = From(Dlcis[s.urc_channel])
  BY <1>3
<1> QED BY <1>1, <1>2, <1>4, <1>5, Names

-----------------------------------------------------------------------------
(* What the operations on pipes and messages change. *)

(* modem_pipe_attach *)
LEMMA Attach ==
    ASSUME NEW s \in Hosts, NEW p \in Pipes, NEW fn \in Callbacks, NEW c \in Addrs \cup {NULL}
    PROVE  LET t == modem_pipe_attach(s, p, fn, c)
           IN  /\ t \in Hosts /\ t.inst = s.inst /\ t.pipe = s.pipe
               /\ t.msgs = s.msgs /\ t.purged = s.purged
               /\ t.cb = [s.cb EXCEPT ![p] = fn] /\ t.user = [s.user EXCEPT ![p] = c]
BY DEF modem_pipe_attach, Hosts

(* ... of a callback that is not the AT host's. *)
LEMMA AttachSound ==
    ASSUME NEW s, NEW m, NEW left \in BOOLEAN, Sound(s, m, left), NEW p \in Pipes,
           NEW fn \in Callbacks, fn # "at", NEW c \in Addrs \cup {NULL}
    PROVE  Sound(modem_pipe_attach(s, p, fn, c), m, left)
<1> DEFINE t == modem_pipe_attach(s, p, fn, c)
<1>0. s \in Hosts
  BY DEF Sound
<1>1. /\ t \in Hosts /\ t.inst = s.inst /\ t.pipe = s.pipe
      /\ t.msgs = s.msgs /\ t.purged = s.purged
      /\ t.cb = [s.cb EXCEPT ![p] = fn] /\ t.user = [s.user EXCEPT ![p] = c]
  BY <1>0, Attach
<1> HIDE DEF t
<1>2. s.cb \in [Pipes -> Callbacks] /\ s.user \in [Pipes -> Addrs \cup {NULL}]
  BY <1>0 DEF Hosts
<1>3. Listed(t) /\ ClosingInv(t, m)
  BY <1>1 DEF Sound, Listed, ClosingInv
<1>4. \A q \in Pipes : t.cb[q] = "at" => /\ q # p /\ s.cb[q] = "at" /\ t.user[q] = s.user[q]
  BY <1>1, <1>2
<1>5. Tracked(s, m) => Tracked(t, m)
  <2> SUFFICES ASSUME Tracked(s, m), NEW q \in Pipes, t.cb[q] = "at"
               PROVE  TrackedPipe(t, m, q)
    BY DEF Tracked
  <2>1. TrackedPipe(s, m, q) /\ s.cb[q] = "at" /\ t.user[q] = s.user[q]
    BY <1>4 DEF Tracked
  <2>2. CloseQueued(s, q) => CloseQueued(t, q)
    BY <1>1, <2>1 DEF CloseQueued
  <2>3. Stale(t, q) => Stale(s, q)
    BY <1>1, <2>1 DEF Stale
  <2> QED BY <1>1, <1>4, <2>1, <2>2, <2>3 DEF TrackedPipe
<1>6. t.purged \/ left \/ Tracked(t, m)
  BY <1>1, <1>5 DEF Sound
<1>7. Sound(t, m, left)
  BY <1>1, <1>3, <1>6 DEF Sound
<1> QED BY <1>7 DEF t

(* Steps that change none of the six fields that matter. *)
LEMMA SameSound ==
    ASSUME NEW s, NEW m, NEW left \in BOOLEAN, Sound(s, m, left), NEW t \in Hosts,
           t.inst = s.inst, t.pipe = s.pipe, t.cb = s.cb, t.user = s.user,
           t.msgs = s.msgs, t.purged = s.purged
    PROVE  Sound(t, m, left)
<1>1. Listed(t) /\ ClosingInv(t, m)
  BY DEF Sound, Listed, ClosingInv
<1>2. Tracked(s, m) => Tracked(t, m)
  BY DEF Tracked, TrackedPipe, CloseQueued, Stale
<1> QED BY <1>1, <1>2 DEF Sound

(* modem_pipe_release *)
LEMMA ReleaseSound ==
    ASSUME NEW s, NEW m, NEW left \in BOOLEAN, Sound(s, m, left), NEW p \in Pipes \cup {NULL}
    PROVE  Sound(modem_pipe_release(s, p), m, left)
BY AttachSound DEF modem_pipe_release, Callbacks

(* send_msg: the message is queued, also if all others are lost. *)
LEMMA Send ==
    ASSUME NEW s \in Hosts, Listed(s), NEW m \in Msgs
    PROVE  LET t == send_msg(s, m)
           IN  /\ t \in Hosts /\ Listed(t) /\ t.inst = s.inst /\ t.pipe = s.pipe
               /\ t.cb = s.cb /\ t.user = s.user
               /\ t.purged \/ (t.purged = s.purged /\ t.msgs = Append(s.msgs, m))
               /\ s.purged => t.purged
<1>1. s.msgs \in Seq(Msgs) /\ Len(s.msgs) <= MsgqLen /\ s.inst # <<>> /\ IsInjective(s.inst)
  BY DEF Hosts, Listed
<1>2. MsgqLen \in Nat \ {0} /\ Len(<<m>>) = 1 /\ <<m>> \in Seq(Msgs)
  BY ContextsAssumption
<1>3. CASE Len(s.msgs) = MsgqLen
  <2> DEFINE t == [s EXCEPT !.msgs = <<m>>, !.purged = TRUE]
  <2>1. /\ t \in Hosts /\ t.inst = s.inst /\ t.pipe = s.pipe
        /\ t.cb = s.cb /\ t.user = s.user /\ t.purged = TRUE /\ t.msgs = <<m>>
    BY <1>2 DEF Hosts
  <2>2. send_msg(s, m) = t
    BY <1>3 DEF send_msg
  <2> HIDE DEF t
  <2>3. Len(t.msgs) <= MsgqLen
    BY <1>2, <2>1
  <2> QED BY <1>1, <2>1, <2>2, <2>3 DEF Listed
<1>4. CASE Len(s.msgs) # MsgqLen
  <2> DEFINE t == [s EXCEPT !.msgs = Append(@, m)]
  <2>1. Append(s.msgs, m) \in Seq(Msgs) /\ Len(Append(s.msgs, m)) <= MsgqLen
    BY <1>1, <1>2, <1>4
  <2>2. /\ t \in Hosts /\ t.inst = s.inst /\ t.pipe = s.pipe
        /\ t.cb = s.cb /\ t.user = s.user /\ t.purged = s.purged
        /\ t.msgs = Append(s.msgs, m)
    BY <2>1 DEF Hosts
  <2>3. send_msg(s, m) = t
    BY <1>4 DEF send_msg
  <2> HIDE DEF t
  <2> QED BY <1>1, <2>1, <2>2, <2>3 DEF Listed
<1> QED BY <1>3, <1>4

(* A message more takes nothing from what is queued. *)
LEMMA SendSound ==
    ASSUME NEW s, NEW m, NEW left \in BOOLEAN, Sound(s, m, left), NEW n \in Msgs
    PROVE  Sound(send_msg(s, n), m, left)
<1> DEFINE t == send_msg(s, n)
<1>0. s \in Hosts /\ Listed(s)
  BY DEF Sound
<1>1. /\ t \in Hosts /\ Listed(t) /\ t.inst = s.inst /\ t.pipe = s.pipe
      /\ t.cb = s.cb /\ t.user = s.user
      /\ t.purged \/ (t.purged = s.purged /\ t.msgs = Append(s.msgs, n))
  BY <1>0, Send
<1> HIDE DEF t
<1>2. ClosingInv(t, m)
  BY <1>1 DEF Sound, ClosingInv
<1>3. ASSUME t.msgs = Append(s.msgs, n), Tracked(s, m) PROVE Tracked(t, m)
  <2> SUFFICES ASSUME NEW p \in Pipes, t.cb[p] = "at" PROVE TrackedPipe(t, m, p)
    BY DEF Tracked
  <2>1. TrackedPipe(s, m, p)
    BY <1>1, <1>3 DEF Tracked
  <2>2. CloseQueued(s, p) => CloseQueued(t, p)
    <3>1. s.msgs \in Seq(Msgs)
      BY <1>0 DEF Hosts
    <3>2. \A i \in 1..Len(s.msgs) : i \in 1..Len(t.msgs) /\ t.msgs[i] = s.msgs[i]
      BY <1>3, <3>1
    <3> QED BY <1>1, <3>2 DEF CloseQueued
  <2>3. Stale(t, p) => Stale(s, p)
    BY <1>1 DEF Stale
  <2> QED BY <1>1, <2>1, <2>2, <2>3 DEF TrackedPipe
<1>4. t.purged \/ left \/ Tracked(t, m)
  BY <1>1, <1>3 DEF Sound
<1> QED BY <1>1, <1>2, <1>4 DEF Sound, t

(* One context gets another value for its pipe. *)
LEMMA PipeOf ==
    ASSUME NEW s \in Hosts, NEW c \in Addrs, NEW v \in Pipes \cup {NULL, Deadbeef}
    PROVE  LET t == [s EXCEPT !.pipe[c] = v]
           IN  /\ t \in Hosts /\ t.inst = s.inst /\ t.cb = s.cb /\ t.user = s.user
               /\ t.msgs = s.msgs /\ t.purged = s.purged
               /\ t.pipe = [s.pipe EXCEPT ![c] = v]
BY DEF Hosts

(* sm_at_pipe_opened: a context without pipe takes the one that names it,   *)
(* and no other pipe names the context.                                     *)
LEMMA OpenedSound ==
    ASSUME NEW s, NEW m, NEW left \in BOOLEAN, Sound(s, m, left), NEW p \in Pipes, NEW c,
           c = NULL \/ (c \in Range(s.inst) /\ c \in Addrs /\ s.cb[p] = "at" /\ s.user[p] = c)
    PROVE  Sound(sm_at_pipe_opened(s, c, p), m, left)
<1>0. s \in Hosts /\ Listed(s)
  BY DEF Sound
<1>1. CASE c # NULL /\ s.pipe[c] = NULL
  <2> DEFINE t == [s EXCEPT !.pipe[c] = p]
  <2>1. /\ t \in Hosts /\ t.inst = s.inst /\ t.cb = s.cb /\ t.user = s.user
        /\ t.msgs = s.msgs /\ t.purged = s.purged
        /\ t.pipe = [s.pipe EXCEPT ![c] = p]
    BY <1>0, <1>1, PipeOf
  <2>2. sm_at_pipe_opened(s, c, p) = t
    BY <1>1, Names DEF sm_at_pipe_opened
  <2> HIDE DEF t
  <2>3. s.pipe \in [Addrs -> Pipes \cup {NULL, Deadbeef}]
    BY <1>0 DEF Hosts
  <2>4. Listed(t)
    BY <1>0, <2>1 DEF Listed
  <2>5. ClosingInv(t, m)
    BY <1>1, <2>1, <2>3, Names DEF Sound, ClosingInv
  <2>6. ASSUME Tracked(s, m) PROVE Tracked(t, m)
    <3> SUFFICES ASSUME NEW q \in Pipes, t.cb[q] = "at" PROVE TrackedPipe(t, m, q)
      BY DEF Tracked
    <3>1. TrackedPipe(s, m, q) /\ TrackedPipe(s, m, p)
      BY <1>1, <2>1, <2>6 DEF Tracked
    <3>2. s.user[q] = c => q = p
      BY <1>1, <2>1, <3>1 DEF TrackedPipe
    <3>3. CloseQueued(s, q) => CloseQueued(t, q)
      BY <2>1 DEF CloseQueued
    <3>4. t.pipe[c] = p /\ \A x \in Addrs : x # c => t.pipe[x] = s.pipe[x]
      BY <1>1, <2>1, <2>3
    <3>5. ~Stale(t, q)
      BY <2>1, <3>1, <3>2, <3>4 DEF Stale, TrackedPipe
    <3> QED BY <1>1, <2>1, <3>1, <3>2, <3>3, <3>4, <3>5 DEF TrackedPipe
  <2> QED BY <2>1, <2>2, <2>4, <2>5, <2>6 DEF Sound
<1>2. CASE c # NULL /\ s.pipe[c] = p
  <2>1. sm_at_pipe_opened(s, c, p) = s
    BY <1>2, Names DEF sm_at_pipe_opened
  <2> QED BY <2>1
<1>3. CASE ~(c # NULL /\ s.pipe[c] = NULL) /\ ~(c # NULL /\ s.pipe[c] = p)
  <2> DEFINE n == [ev |-> "opened", ctx |-> c, pipe |-> p]
  <2>1. n \in Msgs
    BY DEF Msgs
  <2>2. sm_at_pipe_opened(s, c, p) = send_msg(s, n)
    BY <1>3 DEF sm_at_pipe_opened
  <2> QED BY <2>1, <2>2, SendSound
<1> QED BY <1>1, <1>2, <1>3

(* sm_at_pipe_closed: the pipe that named the context is waited for. *)
LEMMA ClosedSound ==
    ASSUME NEW s, NEW m, NEW left \in BOOLEAN, Sound(s, m, left), NEW p \in Pipes,
           NEW c \in Addrs, c \in Range(s.inst)
    PROVE  Sound(sm_at_pipe_closed(s, c, p), m, left)
<1>0. s \in Hosts /\ Listed(s) /\ c # NULL
  BY Names DEF Sound
<1>1. CASE s.pipe[c] # p
  BY <1>1 DEF sm_at_pipe_closed
<1>2. CASE s.pipe[c] = p
  <2> DEFINE n == [ev |-> "closed", ctx |-> c, pipe |-> p]
             r == [s EXCEPT !.pipe[c] = NULL]
             t == send_msg(r, n)
  <2>1. /\ r \in Hosts /\ r.inst = s.inst /\ r.cb = s.cb /\ r.user = s.user
        /\ r.msgs = s.msgs /\ r.purged = s.purged
        /\ r.pipe = [s.pipe EXCEPT ![c] = NULL]
    BY <1>0, PipeOf
  <2>2. sm_at_pipe_closed(s, c, p) = t
    BY <1>0, <1>2 DEF sm_at_pipe_closed
  <2> HIDE DEF r
  <2>3. n \in Msgs /\ Listed(r)
    BY <1>0, <2>1 DEF Msgs, Listed
  <2>4. /\ t \in Hosts /\ Listed(t) /\ t.inst = r.inst /\ t.pipe = r.pipe
        /\ t.cb = r.cb /\ t.user = r.user
        /\ t.purged \/ (t.purged = r.purged /\ t.msgs = Append(r.msgs, n))
    BY <2>1, <2>3, Send
  <2> HIDE DEF t
  <2>5. /\ s.pipe \in [Addrs -> Pipes \cup {NULL, Deadbeef}] /\ s.msgs \in Seq(Msgs)
    BY <1>0 DEF Hosts
  <2>6. t.pipe[c] = NULL /\ \A x \in Addrs : x # c => t.pipe[x] = s.pipe[x]
    BY <2>1, <2>4, <2>5
  <2>7. ClosingInv(t, m)
    BY <1>2, <2>1, <2>4, <2>6, Names DEF Sound, ClosingInv
  <2>8. ASSUME Tracked(s, m), t.msgs = Append(s.msgs, n) PROVE Tracked(t, m)
    <3> SUFFICES ASSUME NEW q \in Pipes, t.cb[q] = "at" PROVE TrackedPipe(t, m, q)
      BY DEF Tracked
    <3>1. TrackedPipe(s, m, q) /\ t.user[q] = s.user[q] /\ t.inst = s.inst /\ t.cb = s.cb
      BY <2>1, <2>4, <2>8 DEF Tracked
    <3>2. /\ \A i \in 1..Len(s.msgs) : i \in 1..Len(t.msgs) /\ t.msgs[i] = s.msgs[i]
          /\ Len(s.msgs) + 1 \in 1..Len(t.msgs) /\ t.msgs[Len(s.msgs) + 1] = n
      BY <2>3, <2>5, <2>8
    <3>3. CloseQueued(s, q) => CloseQueued(t, q)
      BY <3>1, <3>2 DEF CloseQueued
    <3>4. s.user[q] = c => q = p /\ CloseQueued(t, q)
      <4> SUFFICES ASSUME s.user[q] = c PROVE q = p /\ CloseQueued(t, q)
        OBVIOUS
      <4>1. q = p
        BY <1>2, <2>1, <2>4, <3>1, Names DEF TrackedPipe, Stale
      <4> QED BY <3>1, <3>2, <4>1 DEF CloseQueued
    <3>5. ~Stale(t, q)
      BY <2>6, <3>1 DEF Stale, TrackedPipe
    <3> QED BY <2>1, <2>4, <2>6, <3>1, <3>3, <3>4, <3>5 DEF TrackedPipe
  <2>9. t.purged \/ left \/ Tracked(t, m)
    BY <2>1, <2>4, <2>8 DEF Sound
  <2> QED BY <2>2, <2>4, <2>7, <2>9 DEF Sound
<1> QED BY <1>1, <1>2

(* sm_at_host_release, of the context that has the pipe. *)
LEMMA HostReleaseSound ==
    ASSUME NEW s, NEW m, NEW left \in BOOLEAN, Sound(s, m, left), NEW p \in Pipes \cup {NULL}
    PROVE  Sound(sm_at_host_release(s, sm_at_host_get_ctx_from(s, p)), m, left)
<1> DEFINE c == sm_at_host_get_ctx_from(s, p)
<1>0. s \in Hosts
  BY DEF Sound
<1>1. c = NULL \/ (p # NULL /\ c \in Range(s.inst) /\ c \in Addrs /\ s.pipe[c] = p)
  BY <1>0, CtxFrom
<1> HIDE DEF c
<1>2. CASE c = NULL
  <2>1. sm_at_host_release(s, c) = s
    BY <1>2 DEF sm_at_host_release, sm_at_ctx_check
  <2> QED BY <2>1 DEF c
<1>3. CASE c # NULL
  <2> DEFINE r == modem_pipe_release(s, p)
  <2>1. Sound(r, m, left) /\ r.inst = s.inst
    <3>1. Sound(r, m, left)
      BY ReleaseSound
    <3>2. r = modem_pipe_attach(s, p, "none", NULL)
      BY <1>1, <1>3 DEF modem_pipe_release
    <3> HIDE DEF r
    <3>3. modem_pipe_attach(s, p, "none", NULL).inst = s.inst
      BY <1>0 DEF modem_pipe_attach, Hosts
    <3> QED BY <3>1, <3>2, <3>3
  <2>2. sm_at_host_release(s, c) = sm_at_pipe_closed(r, c, p)
    BY <1>1, <1>3 DEF sm_at_host_release, sm_at_ctx_check
  <2> HIDE DEF r
  <2>3. Sound(sm_at_pipe_closed(r, c, p), m, left)
    BY <1>1, <1>3, <2>1, ClosedSound
  <2> QED BY <2>2, <2>3 DEF c
<1> QED BY <1>2, <1>3

(* Reserve *)
LEMMA ReserveSound ==
    ASSUME NEW s, NEW m, NEW left \in BOOLEAN, Sound(s, m, left), NEW p \in Pipes
    PROVE  Sound(Reserve(s, p), m, left)
BY HostReleaseSound, ReleaseSound DEF Reserve

(* sm_at_host_attach *)
LEMMA HostAttachSound ==
    ASSUME NEW s, NEW m, NEW left \in BOOLEAN, Sound(s, m, left), NEW p \in Pipes \cup {NULL}
    PROVE  Sound(sm_at_host_attach(s, p), m, left)
<1>1. CASE p = NULL
  <2>1. p \notin s.open
    BY <1>1, Names DEF Sound, Hosts
  <2>2. sm_at_host_attach(s, p) = s
    BY <1>1, <2>1 DEF sm_at_host_attach
  <2> QED BY <2>2
<1>2. CASE p # NULL
  <2> DEFINE t == modem_pipe_attach(s, p, "null", NULL)
  <2>1. Sound(t, m, left)
    BY <1>2, AttachSound DEF Callbacks
  <2>2. sm_at_host_attach(s, p) = t \/ sm_at_host_attach(s, p) = sm_at_pipe_opened(t, NULL, p)
    BY <1>2 DEF sm_at_host_attach
  <2> HIDE DEF t
  <2>3. Sound(sm_at_pipe_opened(t, NULL, p), m, left)
    BY <1>2, <2>1, OpenedSound
  <2> QED BY <2>1, <2>2, <2>3
<1> QED BY <1>1, <1>2

(* The callbacks of a pipe that opens or closes. *)
LEMMA NotifySound ==
    ASSUME NEW s, NEW m, NEW left \in BOOLEAN, Sound(s, m, left), NEW p \in Pipes
    PROVE  Sound(NotifyOpened(s, p), m, left) /\ Sound(NotifyClosed(s, p), m, left)
<1> DEFINE c == s.user[p]
<1>0. s \in Hosts /\ c \in Addrs \cup {NULL}
  BY DEF Sound, Hosts
<1>1. CASE s.cb[p] = "at" /\ c # NULL /\ c \in Range(s.inst)
  <2>1. NotifyOpened(s, p) = sm_at_pipe_opened(s, c, p)
    BY <1>1 DEF NotifyOpened, sm_at_ctx_check
  <2>2. NotifyClosed(s, p) = sm_at_pipe_closed(s, c, p)
    BY <1>1 DEF NotifyClosed, sm_at_ctx_check
  <2> QED BY <1>0, <1>1, <2>1, <2>2, OpenedSound, ClosedSound
<1>2. CASE ~(s.cb[p] = "at" /\ c # NULL /\ c \in Range(s.inst))
  <2>1. NotifyOpened(s, p) = s \/ NotifyOpened(s, p) = sm_at_pipe_opened(s, NULL, p)
    BY <1>2 DEF NotifyOpened, sm_at_ctx_check
  <2>2. NotifyClosed(s, p) = s
    BY <1>2 DEF NotifyClosed, sm_at_ctx_check
  <2> QED BY <2>1, <2>2, OpenedSound
<1> QED BY <1>1, <1>2

-----------------------------------------------------------------------------
(* A context gets another pipe. *)

(* sm_at_host_destroy, of a context that is not the last one. *)
LEMMA Destroy ==
    ASSUME NEW s \in Hosts, Listed(s), NEW c \in Addrs, c \in Range(s.inst), Len(s.inst) # 1
    PROVE  LET t == sm_at_host_destroy(s, c)
           IN  /\ t \in Hosts /\ Listed(t) /\ t.cb = s.cb /\ t.user = s.user
               /\ t.msgs = s.msgs /\ t.purged = s.purged
               /\ t.pipe = [s.pipe EXCEPT ![c] = NULL]
               /\ Range(t.inst) = Range(s.inst) \ {c}
<1> DEFINE q == RemoveFirst(s.inst, c)
           t == [s EXCEPT !.inst = q, !.pipe[c] = NULL, !.lock = @ \ {c}]
<1>1. /\ s.inst \in Seq(Addrs) /\ IsInjective(s.inst) /\ s.inst # <<>>
      /\ Len(s.msgs) <= MsgqLen
  BY DEF Hosts, Listed
<1>2. /\ q \in Seq(Addrs) /\ IsInjective(q) /\ Range(q) = Range(s.inst) \ {c}
      /\ Len(q) = Len(s.inst) - 1
  BY <1>1, Removed
<1>3. sm_at_host_destroy(s, c) = t
  BY Names DEF sm_at_host_destroy, sm_at_ctx_check
<1> HIDE DEF q
<1>4. /\ t \in Hosts /\ t.inst = q /\ t.cb = s.cb /\ t.user = s.user
      /\ t.msgs = s.msgs /\ t.purged = s.purged /\ t.pipe = [s.pipe EXCEPT ![c] = NULL]
  <2>1. s.lock \ {c} \in SUBSET Addrs
    BY DEF Hosts
  <2> QED BY <1>2, <2>1 DEF Hosts
<1>5. q # <<>>
  <2>1. Len(s.inst) \in Nat /\ Len(s.inst) # 0
    BY <1>1, EmptySeq
  <2>2. Len(q) # 0
    BY <1>2, <2>1
  <2> QED BY <1>2, <2>2, EmptySeq
<1> HIDE DEF t
<1> QED BY <1>1, <1>2, <1>3, <1>4, <1>5 DEF Listed

(* Two different contexts: none is the last one. *)
LEMMA TwoListed ==
    ASSUME NEW s \in Hosts, NEW c \in Range(s.inst), NEW d \in Range(s.inst), c # d
    PROVE  Len(s.inst) # 1
BY DEF Hosts, Range

(* sm_at_host_set_pipe: context c moves to pipe p, the pipe that it had     *)
(* gets the null handler, and the context d that had p is destroyed.        *)
LEMMA SetPipe ==
    ASSUME NEW s \in Hosts, Listed(s), NEW c \in Addrs, c \in Range(s.inst),
           s.pipe[c] # Deadbeef, NEW p \in Pipes
    PROVE  LET t == sm_at_host_set_pipe(s, c, p)
           IN  /\ t \in Hosts /\ Listed(t) /\ t.msgs = s.msgs /\ t.purged = s.purged
               /\ c \in Range(t.inst) /\ t.pipe[c] = p
               /\ t.cb[p] = "at" /\ t.user[p] = c
               /\ \A r \in Pipes : r # p => \/ r = s.pipe[c] /\ t.cb[r] = "null"
                                            \/ /\ r # s.pipe[c] /\ t.cb[r] = s.cb[r]
                                               /\ t.user[r] = s.user[r]
               /\ \E d \in Addrs :
                    /\ d # c => s.pipe[d] = p /\ t.pipe[d] = NULL /\ d \in Range(s.inst)
                    /\ \A x \in Addrs : x # c /\ x # d =>
                         t.pipe[x] = s.pipe[x] /\ (x \in Range(t.inst) <=> x \in Range(s.inst))
<1> DEFINE old == s.pipe[c]
           s1 == [s EXCEPT !.pipe[c] = p]
           s2 == IF old = NULL THEN s1 ELSE modem_pipe_attach(s1, old, "null", NULL)
           d  == sm_at_host_get_ctx_from(s2, p)
           s3 == IF d # c THEN sm_at_host_destroy(s2, d) ELSE s2
           t  == modem_pipe_attach(s3, p, "at", c)
<1>1. /\ s1 \in Hosts /\ s1.inst = s.inst /\ s1.cb = s.cb /\ s1.user = s.user
      /\ s1.msgs = s.msgs /\ s1.purged = s.purged
      /\ s1.pipe = [s.pipe EXCEPT ![c] = p]
  BY PipeOf
<1>2. /\ old \in Pipes \cup {NULL} /\ s.pipe \in [Addrs -> Pipes \cup {NULL, Deadbeef}]
      /\ s.cb \in [Pipes -> Callbacks] /\ s.user \in [Pipes -> Addrs \cup {NULL}]
  BY DEF Hosts
<1>3. sm_at_host_set_pipe(s, c, p) = t
  BY DEF sm_at_host_set_pipe
<1> HIDE DEF s1, old
<1>4. /\ s2 \in Hosts /\ s2.inst = s.inst /\ s2.pipe = s1.pipe
      /\ s2.msgs = s.msgs /\ s2.purged = s.purged
      /\ \A r \in Pipes : \/ r = old /\ s2.cb[r] = "null"
                          \/ r # old /\ s2.cb[r] = s.cb[r] /\ s2.user[r] = s.user[r]
  <2>1. CASE old = NULL
    BY <1>1, <2>1, Names
  <2>2. CASE old # NULL
    <3> DEFINE u == modem_pipe_attach(s1, old, "null", NULL)
    <3>1. /\ u \in Hosts /\ u.inst = s1.inst /\ u.pipe = s1.pipe
          /\ u.msgs = s1.msgs /\ u.purged = s1.purged
          /\ u.cb = [s1.cb EXCEPT ![old] = "null"] /\ u.user = [s1.user EXCEPT ![old] = NULL]
      <4>1. old \in Pipes /\ "null" \in Callbacks /\ NULL \in Addrs \cup {NULL}
        BY <1>2, <2>2 DEF Callbacks
      <4> QED BY <1>1, <4>1, Attach, SMTT(30)
    <3>2. s2 = u
      BY <2>2
    <3> HIDE DEF u, s2
    <3> QED BY <1>1, <1>2, <3>1, <3>2
  <2> QED BY <2>1, <2>2
<1> HIDE DEF s2
<1>5. s2.pipe[c] = p /\ \A x \in Addrs : x # c => s2.pipe[x] = s.pipe[x]
  BY <1>1, <1>2, <1>4
<1>6. d \in Range(s.inst) /\ d \in Addrs /\ s2.pipe[d] = p
  <2>1. /\ d = NULL \/ (p # NULL /\ d \in Range(s2.inst) /\ d \in Addrs /\ s2.pipe[d] = p)
        /\ (p # NULL /\ \E x \in Range(s2.inst) : s2.pipe[x] = p) => d # NULL
    BY <1>4, CtxFrom
  <2> HIDE DEF d
  <2> QED BY <1>4, <1>5, <2>1, Names
<1> HIDE DEF d
<1>7. /\ s3 \in Hosts /\ Listed(s3) /\ s3.msgs = s.msgs /\ s3.purged = s.purged
      /\ s3.cb = s2.cb /\ s3.user = s2.user
      /\ c \in Range(s3.inst) /\ s3.pipe[c] = p
      /\ d # c => s3.pipe[d] = NULL
      /\ \A x \in Addrs : x # c /\ x # d =>
           s3.pipe[x] = s.pipe[x] /\ (x \in Range(s3.inst) <=> x \in Range(s.inst))
  <2>1. Listed(s2)
    BY <1>4 DEF Listed
  <2>2. CASE d = c
    BY <1>4, <1>5, <2>1, <2>2
  <2>3. CASE d # c
    <3> DEFINE u == sm_at_host_destroy(s2, d)
    <3>1. Len(s2.inst) # 1
      BY <1>4, <1>6, <2>3, TwoListed
    <3>2. /\ u \in Hosts /\ Listed(u) /\ u.cb = s2.cb /\ u.user = s2.user
          /\ u.msgs = s2.msgs /\ u.purged = s2.purged
          /\ u.pipe = [s2.pipe EXCEPT ![d] = NULL]
          /\ Range(u.inst) = Range(s2.inst) \ {d}
      BY <1>4, <1>6, <2>1, <3>1, Destroy
    <3>3. s3 = u
      BY <2>3
    <3>4. s2.pipe \in [Addrs -> Pipes \cup {NULL, Deadbeef}]
      BY <1>4 DEF Hosts
    <3> HIDE DEF u, s3
    <3> QED BY <1>4, <1>5, <1>6, <2>3, <3>2, <3>3, <3>4
  <2> QED BY <2>2, <2>3
<1> HIDE DEF s3
<1>8. /\ t \in Hosts /\ t.inst = s3.inst /\ t.pipe = s3.pipe
      /\ t.msgs = s3.msgs /\ t.purged = s3.purged
      /\ t.cb = [s3.cb EXCEPT ![p] = "at"] /\ t.user = [s3.user EXCEPT ![p] = c]
  <2>1. "at" \in Callbacks /\ c \in Addrs \cup {NULL}
    BY DEF Callbacks
  <2> QED BY <1>7, <2>1, Attach
<1> HIDE DEF t
<1>9. s3.cb \in [Pipes -> Callbacks] /\ s3.user \in [Pipes -> Addrs \cup {NULL}]
  BY <1>7 DEF Hosts
<1>10. Listed(t)
  BY <1>7, <1>8 DEF Listed
<1>11. t.cb[p] = "at" /\ t.user[p] = c
  BY <1>8, <1>9
<1>12. \A r \in Pipes : r # p => t.cb[r] = s2.cb[r] /\ t.user[r] = s2.user[r]
  BY <1>7, <1>8, <1>9
<1>13. \A r \in Pipes : r # p => \/ r = old /\ t.cb[r] = "null"
                                 \/ r # old /\ t.cb[r] = s.cb[r] /\ t.user[r] = s.user[r]
  BY <1>4, <1>12
<1>14. \E x \in Addrs :
         /\ x # c => s.pipe[x] = p /\ t.pipe[x] = NULL /\ x \in Range(s.inst)
         /\ \A y \in Addrs : y # c /\ y # x =>
              t.pipe[y] = s.pipe[y] /\ (y \in Range(t.inst) <=> y \in Range(s.inst))
  <2>1. d # c => s.pipe[d] = p /\ t.pipe[d] = NULL /\ d \in Range(s.inst)
    BY <1>5, <1>6, <1>7, <1>8
  <2>2. \A y \in Addrs : y # c /\ y # d =>
              t.pipe[y] = s.pipe[y] /\ (y \in Range(t.inst) <=> y \in Range(s.inst))
    BY <1>7, <1>8
  <2> QED BY <1>6, <2>1, <2>2
<1> QED BY <1>3, <1>7, <1>8, <1>10, <1>11, <1>13, <1>14 DEF old

(* Of a context that only its own pipe names, and that is not about to be   *)
(* destroyed.                                                               *)
Sole(s, c) == \A q \in Pipes : s.cb[q] = "at" /\ s.user[q] = c => s.pipe[c] = q

(* The context of a command, which no other pipe names, may move to any pipe. *)
LEMMA SetPipeSound ==
    ASSUME NEW s, NEW left \in BOOLEAN, Sound(s, NoMsg, left), NEW c \in Addrs,
           c \in Range(s.inst), s.purged \/ left \/ Sole(s, c), NEW p \in Pipes
    PROVE  Sound(sm_at_host_set_pipe(s, c, p), NoMsg, left)
<1> DEFINE t == sm_at_host_set_pipe(s, c, p)
<1>0. s \in Hosts /\ Listed(s) /\ \A x \in Addrs : s.pipe[x] # Deadbeef
  BY DEF Sound, ClosingInv
<1>1. /\ t \in Hosts /\ Listed(t) /\ t.msgs = s.msgs /\ t.purged = s.purged
      /\ c \in Range(t.inst) /\ t.pipe[c] = p
      /\ t.cb[p] = "at" /\ t.user[p] = c
      /\ \A r \in Pipes : r # p => \/ r = s.pipe[c] /\ t.cb[r] = "null"
                                   \/ /\ r # s.pipe[c] /\ t.cb[r] = s.cb[r]
                                      /\ t.user[r] = s.user[r]
  BY <1>0, SetPipe
<1>2. PICK d \in Addrs :
        /\ d # c => s.pipe[d] = p /\ t.pipe[d] = NULL /\ d \in Range(s.inst)
        /\ \A x \in Addrs : x # c /\ x # d =>
             t.pipe[x] = s.pipe[x] /\ (x \in Range(t.inst) <=> x \in Range(s.inst))
  BY <1>0, SetPipe
<1> HIDE DEF t
<1>3. ClosingInv(t, NoMsg)
  BY <1>0, <1>1, <1>2, Names DEF ClosingInv
<1>4. ASSUME Tracked(s, NoMsg), Sole(s, c) PROVE Tracked(t, NoMsg)
  <2>1. ASSUME NEW r \in Pipes, r # p, t.cb[r] = "at"
        PROVE  /\ s.cb[r] = "at" /\ t.user[r] = s.user[r]
               /\ s.user[r] # c /\ s.user[r] # d /\ TrackedPipe(s, NoMsg, r)
    <3>1. s.cb[r] = "at" /\ t.user[r] = s.user[r] /\ r # s.pipe[c] /\ TrackedPipe(s, NoMsg, r)
      BY <1>1, <1>4, <2>1 DEF Tracked
    <3>2. s.user[r] # c
      BY <1>4, <3>1 DEF Sole
    <3>3. s.user[r] # d
      BY <1>2, <2>1, <3>1, <3>2, Names DEF TrackedPipe, Stale
    <3> QED BY <3>1, <3>2, <3>3
  <2> SUFFICES ASSUME NEW r \in Pipes, t.cb[r] = "at" PROVE TrackedPipe(t, NoMsg, r)
    BY DEF Tracked
  <2>2. CASE r = p
    <3>1. ~Stale(t, p)
      BY <1>1 DEF Stale
    <3>2. \A q \in Pipes : t.cb[q] = "at" /\ t.user[q] = c => q = p
      BY <2>1
    <3> QED BY <1>1, <2>2, <3>1, <3>2 DEF TrackedPipe
  <2>3. CASE r # p
    <3>1. /\ s.cb[r] = "at" /\ t.user[r] = s.user[r] /\ s.user[r] # c /\ s.user[r] # d
          /\ TrackedPipe(s, NoMsg, r) /\ s.user[r] \in Addrs
      BY <2>1, <2>3 DEF TrackedPipe
    <3>2. CloseQueued(s, r) => CloseQueued(t, r)
      BY <1>1, <3>1 DEF CloseQueued
    <3>3. /\ t.pipe[s.user[r]] = s.pipe[s.user[r]]
          /\ s.user[r] \in Range(t.inst) <=> s.user[r] \in Range(s.inst)
      BY <1>2, <3>1
    <3>4. ~Stale(t, r)
      BY <3>1, <3>3 DEF Stale, TrackedPipe
    <3>5. \A q \in Pipes : t.cb[q] = "at" /\ t.user[q] = s.user[r] =>
             s.cb[q] = "at" /\ s.user[q] = s.user[r]
      BY <1>1, <2>1, <3>1
    <3> QED BY <3>1, <3>2, <3>3, <3>4, <3>5 DEF TrackedPipe
  <2> QED BY <2>2, <2>3
<1>5. t.purged \/ left \/ Tracked(t, NoMsg)
  BY <1>1, <1>4 DEF Sound
<1> QED BY <1>1, <1>3, <1>5 DEF Sound, t

(* What Reserve leaves of the callbacks and the contexts' pipes. *)
LEMMA ReserveFields ==
    ASSUME NEW s \in Hosts, Listed(s), NEW p \in Pipes
    PROVE  LET t == Reserve(s, p)
           IN  /\ t.inst = s.inst /\ t.cb[p] = "none" /\ (s.purged => t.purged)
               /\ \A q \in Pipes : q # p => t.cb[q] = s.cb[q] /\ t.user[q] = s.user[q]
               /\ \A x \in Addrs : t.pipe[x] = s.pipe[x] \/ s.pipe[x] = p
<1> DEFINE d == sm_at_host_get_ctx_from(s, p)
           r == sm_at_host_release(s, d)
           t == modem_pipe_attach(r, p, "none", NULL)
<1>0. /\ s.pipe \in [Addrs -> Pipes \cup {NULL, Deadbeef}] /\ s.cb \in [Pipes -> Callbacks]
      /\ s.user \in [Pipes -> Addrs \cup {NULL}]
  BY DEF Hosts
<1>1. d = NULL \/ (p # NULL /\ d \in Range(s.inst) /\ d \in Addrs /\ s.pipe[d] = p)
  BY CtxFrom
<1>2. Reserve(s, p) = t
  BY Names DEF Reserve, modem_pipe_release
<1> HIDE DEF d
<1>3. /\ r \in Hosts /\ r.inst = s.inst /\ (s.purged => r.purged)
      /\ \A q \in Pipes : q # p => r.cb[q] = s.cb[q] /\ r.user[q] = s.user[q]
      /\ \A x \in Addrs : r.pipe[x] = s.pipe[x] \/ s.pipe[x] = p
  <2>1. CASE d = NULL
    <3>1. r = s
      BY <2>1 DEF sm_at_host_release, sm_at_ctx_check
    <3> QED BY <3>1
  <2>2. CASE d # NULL
    <3> DEFINE n == [ev |-> "closed", ctx |-> d, pipe |-> p]
               a == modem_pipe_attach(s, p, "none", NULL)
               b == [a EXCEPT !.pipe[d] = NULL]
    <3>1. /\ a \in Hosts /\ a.inst = s.inst /\ a.pipe = s.pipe /\ a.msgs = s.msgs
          /\ a.purged = s.purged
          /\ a.cb = [s.cb EXCEPT ![p] = "none"] /\ a.user = [s.user EXCEPT ![p] = NULL]
      BY DEF modem_pipe_attach, Hosts, Callbacks
    <3>2. r = send_msg(b, n)
      BY <1>1, <2>2, <3>1, Names
         DEF sm_at_host_release, sm_at_ctx_check, sm_at_pipe_closed, modem_pipe_release
    <3> HIDE DEF a
    <3>3. /\ b \in Hosts /\ b.inst = a.inst /\ b.cb = a.cb /\ b.user = a.user
          /\ b.msgs = a.msgs /\ b.purged = a.purged /\ b.pipe = [a.pipe EXCEPT ![d] = NULL]
      BY <1>1, <2>2, <3>1, PipeOf
    <3> HIDE DEF b
    <3>4. n \in Msgs /\ Listed(b)
      BY <1>1, <2>2, <3>1, <3>3 DEF Msgs, Listed
    <3>5. /\ r \in Hosts /\ r.inst = b.inst /\ r.pipe = b.pipe /\ r.cb = b.cb
          /\ r.user = b.user /\ (b.purged => r.purged)
      BY <3>2, <3>3, <3>4, Send
    <3> HIDE DEF r
    <3>6. \A q \in Pipes : q # p => r.cb[q] = s.cb[q] /\ r.user[q] = s.user[q]
      BY <1>0, <3>1, <3>3, <3>5
    <3>7. \A x \in Addrs : r.pipe[x] = s.pipe[x] \/ s.pipe[x] = p
      BY <1>0, <1>1, <2>2, <3>1, <3>3, <3>5
    <3> QED BY <3>1, <3>3, <3>5, <3>6, <3>7
  <2> QED BY <2>1, <2>2
<1> HIDE DEF r
<1>4. /\ t.inst = r.inst /\ t.pipe = r.pipe /\ t.purged = r.purged
      /\ t.cb = [r.cb EXCEPT ![p] = "none"] /\ t.user = [r.user EXCEPT ![p] = NULL]
  BY <1>3 DEF modem_pipe_attach, Hosts
<1>5. r.cb \in [Pipes -> Callbacks] /\ r.user \in [Pipes -> Addrs \cup {NULL}]
  BY <1>3 DEF Hosts
<1> HIDE DEF t
<1>6. /\ t.cb[p] = "none"
      /\ \A q \in Pipes : q # p => t.cb[q] = r.cb[q] /\ t.user[q] = r.user[q]
  BY <1>4, <1>5
<1> QED BY <1>2, <1>3, <1>4, <1>6

(* A context whose only pipe is reserved has none. *)
LEMMA ReserveSole ==
    ASSUME NEW s \in Hosts, Listed(s), NEW p \in Pipes, NEW c \in Addrs, Sole(s, c)
    PROVE  Sole(Reserve(s, p), c)
<1> DEFINE t == Reserve(s, p)
<1>1. /\ t.cb[p] = "none"
      /\ \A q \in Pipes : q # p => t.cb[q] = s.cb[q] /\ t.user[q] = s.user[q]
      /\ \A x \in Addrs : t.pipe[x] = s.pipe[x] \/ s.pipe[x] = p
  BY ReserveFields
<1> HIDE DEF t
<1>2. Sole(t, c)
  BY <1>1 DEF Sole
<1> QED BY <1>2 DEF t

(* cmux_start *)
LEMMA CmuxStartSound ==
    ASSUME NEW s, NEW left \in BOOLEAN, Sound(s, NoMsg, left), NEW c \in Addrs,
           c \in Range(s.inst), s.purged \/ left \/ Sole(s, c)
    PROVE  Sound(cmux_start(s, c), NoMsg, left)
<1> DEFINE r == [s EXCEPT !.uart_pipe = TRUE]
           p == Dlcis[s.at_channel]
           t == sm_at_host_set_pipe(r, c, p)
<1>0. s \in Hosts
  BY DEF Sound
<1>1. /\ r \in Hosts /\ r.inst = s.inst /\ r.pipe = s.pipe /\ r.cb = s.cb
      /\ r.user = s.user /\ r.msgs = s.msgs /\ r.purged = s.purged
  BY <1>0 DEF Hosts
<1>2. p \in Pipes
  BY <1>0, Names DEF Hosts
<1>3. cmux_start(s, c) = modem_pipe_attach(t, Uart, "cmux", NULL)
  BY DEF cmux_start
<1> HIDE DEF r, p
<1>4. Sound(r, NoMsg, left)
  BY <1>1, SameSound
<1>5. r.purged \/ left \/ Sole(r, c)
  BY <1>1 DEF Sole
<1>6. Sound(t, NoMsg, left)
  BY <1>1, <1>2, <1>4, <1>5, SetPipeSound
<1> HIDE DEF t
<1>7. Uart \in Pipes /\ "cmux" \in Callbacks /\ "cmux" # "at" /\ NULL \in Addrs \cup {NULL}
  BY Names DEF Callbacks
<1> QED BY <1>3, <1>6, <1>7, AttachSound

(* stop_work_fn: whatever the pipes' callbacks were, the channels' get the  *)
(* null handler and the UART's the first context.                           *)
LEMMA StopSound ==
    ASSUME NEW s \in Hosts, Listed(s), ClosingInv(s, NoMsg), NEW u \in Addrs,
           u \in Range(s.inst), NEW left \in BOOLEAN
    PROVE  Sound(init_dlcis(sm_at_host_set_pipe(s, u, Uart)), NoMsg, left)
<1> DEFINE r == sm_at_host_set_pipe(s, u, Uart)
           t == init_dlcis(r)
<1>0. \A x \in Addrs : s.pipe[x] # Deadbeef
  BY DEF ClosingInv
<1>1. /\ r \in Hosts /\ Listed(r) /\ u \in Range(r.inst) /\ r.pipe[u] = Uart
      /\ r.cb[Uart] = "at" /\ r.user[Uart] = u
  BY <1>0, SetPipe, Names
<1>2. \A x \in Addrs : r.pipe[x] # Deadbeef
  <2>1. PICK d \in Addrs :
          /\ d # u => r.pipe[d] = NULL
          /\ \A x \in Addrs : x # u /\ x # d => r.pipe[x] = s.pipe[x]
    BY <1>0, SetPipe, Names
  <2> QED BY <1>0, <1>1, <2>1, Names
<1> HIDE DEF r
<1>3. /\ t \in Hosts /\ t.inst = r.inst /\ t.pipe = r.pipe
      /\ t.msgs = r.msgs /\ t.purged = r.purged
      /\ t.cb = [p \in Pipes |-> IF p = Uart THEN r.cb[p] ELSE "null"]
      /\ t.user = [p \in Pipes |-> IF p = Uart THEN r.user[p] ELSE NULL]
  <2> DEFINE cb == [p \in Pipes |-> IF p = Uart THEN r.cb[p] ELSE "null"]
             user == [p \in Pipes |-> IF p = Uart THEN r.user[p] ELSE NULL]
  <2>1. cb \in [Pipes -> Callbacks] /\ user \in [Pipes -> Addrs \cup {NULL}]
    BY <1>1 DEF Hosts, Callbacks
  <2>2. {Uart} \in SUBSET Pipes
    BY Names
  <2>3. t = [r EXCEPT !.open = {Uart}, !.cb = cb, !.user = user]
    BY DEF init_dlcis
  <2> HIDE DEF cb, user, t
  <2>4. /\ t \in Hosts /\ t.inst = r.inst /\ t.pipe = r.pipe
        /\ t.msgs = r.msgs /\ t.purged = r.purged /\ t.cb = cb /\ t.user = user
    BY <1>1, <2>1, <2>2, <2>3 DEF Hosts
  <2> QED BY <2>4 DEF cb, user
<1> HIDE DEF t
<1>4. Listed(t) /\ ClosingInv(t, NoMsg)
  BY <1>1, <1>2, <1>3 DEF Listed, ClosingInv
<1>5. \A p \in Pipes : t.cb[p] = "at" => p = Uart
  BY <1>3
<1>6. t.user[Uart] = u /\ t.pipe[u] = Uart /\ u \in Range(t.inst)
  BY <1>1, <1>3, Names
<1>7. Tracked(t, NoMsg)
  BY <1>5, <1>6 DEF Tracked, TrackedPipe, Stale
<1>8. Sound(t, NoMsg, left)
  BY <1>3, <1>4, <1>7 DEF Sound
<1> QED BY <1>8 DEF t, r

-----------------------------------------------------------------------------
(* Messages. *)

(* HostMessage: what is left behind is recorded, and everything else        *)
(* follows the message.                                                     *)
LEMMA MessageSound ==
    ASSUME IInv, HostMessage
    PROVE  /\ Sound(h', closing', Left')
           /\ closing' # NoMsg => closing'.ev = "closed"
<1> DEFINE m == Head(h.msgs)
           s == [h EXCEPT !.msgs = Tail(@)]
           c == IF sm_at_ctx_check(h, m.ctx) THEN m.ctx ELSE NULL
<1>0. /\ h \in Hosts /\ Listed(h) /\ closing = NoMsg /\ h.msgs # <<>>
      /\ \A x \in Addrs : h.pipe[x] # Deadbeef
      /\ h.purged \/ Left \/ Tracked(h, NoMsg)
  BY DEF IInv, Sound, HostMessage, WorkerIdle, ClosingInv
<1>1. /\ h.msgs \in Seq(Msgs) /\ h.pipe \in [Addrs -> Pipes \cup {NULL, Deadbeef}]
      /\ h.cb \in [Pipes -> Callbacks] /\ h.user \in [Pipes -> Addrs \cup {NULL}]
      /\ h.lock \in SUBSET Addrs /\ h.inst \in Seq(Addrs)
  BY <1>0 DEF Hosts
<1>2. /\ m \in Msgs /\ Tail(h.msgs) \in Seq(Msgs) /\ Len(Tail(h.msgs)) <= MsgqLen
      /\ \A i \in 1..Len(h.msgs) : h.msgs[i] = m \/ \E j \in 1..Len(Tail(h.msgs)) :
                                                      Tail(h.msgs)[j] = h.msgs[i]
  <2>1. Len(h.msgs) \in Nat \ {0} /\ Len(h.msgs) <= MsgqLen /\ MsgqLen \in Nat
    BY <1>0, <1>1, ContextsAssumption DEF Listed
  <2>2. /\ m = h.msgs[1] /\ Tail(h.msgs) \in Seq(Msgs) /\ Len(Tail(h.msgs)) = Len(h.msgs) - 1
        /\ \A j \in 1..Len(h.msgs) - 1 : Tail(h.msgs)[j] = h.msgs[j + 1]
    BY <1>0, <1>1
  <2>3. \A i \in 1..Len(h.msgs) : i = 1 \/ (i - 1 \in 1..Len(h.msgs) - 1 /\ (i - 1) + 1 = i)
    BY <2>1
  <2>4. m \in Msgs /\ Len(Tail(h.msgs)) <= MsgqLen
    BY <1>1, <2>1, <2>2
  <2> QED BY <2>2, <2>3, <2>4
<1>3. /\ s \in Hosts /\ s.inst = h.inst /\ s.pipe = h.pipe /\ s.cb = h.cb
      /\ s.user = h.user /\ s.purged = h.purged /\ s.msgs = Tail(h.msgs)
      /\ s.uart_pipe = h.uart_pipe /\ s.lock = h.lock
  BY <1>0, <1>2 DEF Hosts
<1>4. m.pipe \in Pipes /\ m.ctx \in Addrs \cup {NULL}
  BY <1>2 DEF Msgs
<1>5. c = NULL \/ (c = m.ctx /\ c \in Addrs /\ c \in Range(h.inst))
  BY <1>4 DEF sm_at_ctx_check
<1>6. Listed(s)
  BY <1>0, <1>2, <1>3 DEF Listed
<1>7. Left => Left'
  BY DEF HostMessage, Left
<1>8. ~Left' => \A p \in Pipes : Stale(h', p) => Stale(h, p)
  BY DEF HostMessage, Left
(* A message that is not the one that takes p's callback off. *)
<1>9. ASSUME NEW p \in Pipes, CloseQueued(h, p),
             m # [ev |-> "closed", ctx |-> h.user[p], pipe |-> p],
             h'.msgs = Tail(h.msgs), h'.user[p] = h.user[p]
      PROVE  CloseQueued(h', p)
  BY <1>2, <1>9 DEF CloseQueued
<1>10. \/ /\ m.ev = "opened"
          /\ h' = CASE c = NULL -> sm_at_host_create(s, m.pipe)
                    [] c # NULL /\ h.pipe[c] = NULL ->
                         modem_pipe_attach([s EXCEPT !.pipe[c] = m.pipe], m.pipe, "at", c)
                    [] OTHER -> s
          /\ closing' = NoMsg
       \/ /\ m.ev = "closed" /\ c # NULL /\ h.pipe[c] = NULL
          /\ h' = [s EXCEPT !.pipe[c] = Deadbeef]
          /\ closing' = m
       \/ /\ m.ev = "closed" /\ ~(c # NULL /\ h.pipe[c] = NULL)
          /\ h' = IF c = NULL /\ h.cb[m.pipe] = "at"
                  THEN modem_pipe_attach(s, m.pipe, "null", NULL) ELSE s
          /\ closing' = NoMsg
  BY <1>0 DEF HostMessage
<1> HIDE DEF m, s, c
(* The cases in which context x gets pipe m.pipe. *)
<1>11. ASSUME NEW x \in Addrs, h' \in Hosts, Listed(h'), m.ev = "opened", closing' = NoMsg,
              h'.msgs = Tail(h.msgs), h'.purged = h.purged,
              h'.cb = [h.cb EXCEPT ![m.pipe] = "at"],
              h'.user = [h.user EXCEPT ![m.pipe] = x],
              h'.pipe = [h.pipe EXCEPT ![x] = m.pipe],
              Range(h'.inst) = Range(h.inst) \cup {x},
              x \in Range(h.inst) => h.pipe[x] = NULL
       PROVE  Sound(h', NoMsg, Left')
  <2>1. /\ h'.cb[m.pipe] = "at" /\ h'.user[m.pipe] = x /\ h'.pipe[x] = m.pipe
        /\ \A q \in Pipes : q # m.pipe => h'.cb[q] = h.cb[q] /\ h'.user[q] = h.user[q]
        /\ \A y \in Addrs : y # x => h'.pipe[y] = h.pipe[y]
    BY <1>1, <1>4, <1>11
  <2>2. ClosingInv(h', NoMsg)
    BY <1>0, <1>4, <2>1, Names DEF ClosingInv
  <2>3. ASSUME Tracked(h, NoMsg), ~Left' PROVE Tracked(h', NoMsg)
    <3>1. \A p \in Pipes : ~Stale(h', p)
      <4> SUFFICES ASSUME NEW p \in Pipes, Stale(h', p) PROVE FALSE
        OBVIOUS
      <4>1. Stale(h, p)
        BY <1>8, <2>3
      <4> QED BY <2>3, <4>1 DEF Tracked, TrackedPipe, Stale
    <3>2. ASSUME NEW q \in Pipes, q # m.pipe, h'.cb[q] = "at"
          PROVE  /\ h.user[q] # x /\ h.cb[q] = "at" /\ h'.user[q] = h.user[q]
                 /\ TrackedPipe(h, NoMsg, q)
      <4>1. h.cb[q] = "at" /\ h'.user[q] = h.user[q] /\ TrackedPipe(h, NoMsg, q)
        BY <2>1, <2>3, <3>2 DEF Tracked
      <4>2. h.user[q] # x
        BY <1>4, <1>11, <2>1, <3>1, <3>2, <4>1, Names DEF Stale
      <4> QED BY <4>1, <4>2
    <3> SUFFICES ASSUME NEW q \in Pipes, h'.cb[q] = "at" PROVE TrackedPipe(h', NoMsg, q)
      BY DEF Tracked
    <3>3. CASE q = m.pipe
      BY <1>11, <2>1, <3>1, <3>2, <3>3 DEF TrackedPipe
    <3>4. CASE q # m.pipe
      <4>1. /\ h.user[q] # x /\ h.cb[q] = "at" /\ h'.user[q] = h.user[q]
            /\ TrackedPipe(h, NoMsg, q) /\ h.user[q] \in Addrs
        BY <3>2, <3>4 DEF TrackedPipe
      <4>2. CloseQueued(h, q) => CloseQueued(h', q)
        BY <1>9, <1>11, <4>1
      <4>3. /\ h'.pipe[h.user[q]] = h.pipe[h.user[q]]
            /\ h.user[q] \in Range(h'.inst) <=> h.user[q] \in Range(h.inst)
        BY <1>11, <2>1, <4>1
      <4>4. \A r \in Pipes : h'.cb[r] = "at" /\ h'.user[r] = h.user[q] =>
               h.cb[r] = "at" /\ h.user[r] = h.user[q]
        BY <2>1, <4>1
      <4> QED BY <3>1, <4>1, <4>2, <4>3, <4>4 DEF TrackedPipe
    <3> QED BY <3>3, <3>4
  <2> QED BY <1>0, <1>7, <1>11, <2>2, <2>3 DEF Sound
(* The cases in which the contexts keep their pipes; p loses its callback   *)
(* if its context is not there.                                             *)
<1>12. ASSUME h' \in Hosts, Listed(h'), closing' = NoMsg,
              h'.inst = h.inst, h'.pipe = h.pipe, h'.msgs = Tail(h.msgs),
              h'.purged = h.purged,
              \A q \in Pipes : h'.cb[q] = "at" => h.cb[q] = "at" /\ h'.user[q] = h.user[q],
              \/ /\ m.ev = "closed" /\ ~(c # NULL /\ h.pipe[c] = NULL)
                 /\ h'.cb[m.pipe] = "at" => c # NULL
              \/ m.ev = "opened"
       PROVE  Sound(h', NoMsg, Left')
  <2>1. ClosingInv(h', NoMsg)
    BY <1>0, <1>12 DEF ClosingInv
  <2>2. ASSUME Tracked(h, NoMsg), NEW q \in Pipes, h'.cb[q] = "at"
        PROVE  TrackedPipe(h', NoMsg, q)
    <3>1. h.cb[q] = "at" /\ h'.user[q] = h.user[q] /\ TrackedPipe(h, NoMsg, q)
      BY <1>12, <2>2 DEF Tracked
    <3>2. ~Stale(h', q)
      BY <1>12, <3>1 DEF TrackedPipe, Stale
    <3>3. \/ h.user[q] \in Range(h.inst) /\ h.pipe[h.user[q]] = q
          \/ CloseQueued(h', q)
      <4>1. CASE CloseQueued(h, q) /\ m # [ev |-> "closed", ctx |-> h.user[q], pipe |-> q]
        BY <1>9, <1>12, <3>1, <4>1
      <4>2. CASE m = [ev |-> "closed", ctx |-> h.user[q], pipe |-> q]
        <5>1. m.ev = "closed" /\ m.ctx = h.user[q] /\ m.pipe = q
          BY <4>2
        <5>2. c # NULL /\ h.pipe[c] # NULL
          BY <1>12, <2>2, <5>1
        <5>3. c = h.user[q] /\ c \in Range(h.inst) /\ c \in Addrs
          BY <1>5, <5>1, <5>2
        <5> QED BY <1>0, <3>1, <5>2, <5>3 DEF TrackedPipe, Stale
      <4>3. CASE ~CloseQueued(h, q)
        BY <3>1, <4>3 DEF TrackedPipe
      <4> QED BY <4>1, <4>2, <4>3
    <3>4. h.user[q] \in Addrs
      BY <3>1 DEF TrackedPipe
    <3>5. \A r \in Pipes : h'.cb[r] = "at" /\ h'.user[r] = h.user[q] =>
             h.cb[r] = "at" /\ h.user[r] = h.user[q]
      BY <1>12
    <3> QED BY <1>12, <3>1, <3>2, <3>3, <3>4, <3>5 DEF TrackedPipe
  <2>3. Tracked(h, NoMsg) => Tracked(h', NoMsg)
    BY <2>2 DEF Tracked
  <2> QED BY <1>0, <1>7, <1>12, <2>1, <2>3 DEF Sound
<1>13. CASE m.ev = "opened" /\ closing' = NoMsg /\ h' = s
  BY <1>3, <1>6, <1>12, <1>13
<1>14. CASE /\ m.ev = "opened" /\ c # NULL /\ h.pipe[c] = NULL /\ closing' = NoMsg
            /\ h' = modem_pipe_attach([s EXCEPT !.pipe[c] = m.pipe], m.pipe, "at", c)
  <2> DEFINE r == [s EXCEPT !.pipe[c] = m.pipe]
  <2>0. c \in Addrs /\ c \in Range(h.inst)
    BY <1>5, <1>14
  <2>1. /\ r \in Hosts /\ r.inst = s.inst /\ r.cb = s.cb /\ r.user = s.user
        /\ r.msgs = s.msgs /\ r.purged = s.purged
        /\ r.pipe = [s.pipe EXCEPT ![c] = m.pipe]
    BY <1>3, <1>4, <2>0, PipeOf
  <2>2. h' = modem_pipe_attach(r, m.pipe, "at", c)
    BY <1>14
  <2> HIDE DEF r
  <2>3. /\ h' \in Hosts /\ h'.inst = r.inst /\ h'.pipe = r.pipe
        /\ h'.msgs = r.msgs /\ h'.purged = r.purged
        /\ h'.cb = [r.cb EXCEPT ![m.pipe] = "at"]
        /\ h'.user = [r.user EXCEPT ![m.pipe] = c]
    <3>1. "at" \in Callbacks /\ c \in Addrs \cup {NULL}
      BY <2>0 DEF Callbacks
    <3> QED BY <1>4, <2>1, <2>2, <3>1, Attach
  <2>4. Listed(h') /\ Range(h'.inst) = Range(h.inst) \cup {c}
    BY <1>3, <1>6, <2>0, <2>1, <2>3 DEF Listed
  <2> QED BY <1>3, <1>11, <1>14, <2>0, <2>1, <2>3, <2>4
<1>15. CASE m.ev = "opened" /\ c = NULL /\ closing' = NoMsg /\ h' = sm_at_host_create(s, m.pipe)
  <2> DEFINE u == sm_at_host_get_urc_ctx(s)
             unused == {i \in DOMAIN Ctxs : Ctxs[i] \notin Range(s.inst)}
             x == Ctxs[CHOOSE i \in unused : \A j \in unused : i <= j]
             r == [s EXCEPT !.pipe[u] = m.pipe, !.lock = @ \ {u}]
             t == [s EXCEPT !.pipe[x] = m.pipe, !.inst = Append(@, x)]
  <2>1. u = NULL \/ (u \in Range(s.inst) /\ u \in Addrs)
    BY <1>3, <1>6, UrcCtx
  <2>2. unused # {} => x \in Addrs /\ x \notin Range(s.inst)
    <3>1. unused \subseteq 1..Len(Ctxs) /\ Len(Ctxs) \in Nat
      BY Names
    <3>2. unused # {} => \E i \in unused : \A j \in unused : i <= j
      BY <3>1, First
    <3> QED BY <3>2, Names
  <2>3. h' = CASE u # NULL /\ s.pipe[u] = NULL -> modem_pipe_attach(r, m.pipe, "at", u)
               [] (u = NULL \/ s.pipe[u] # NULL) /\ unused # {} ->
                    modem_pipe_attach(t, m.pipe, "at", x)
               [] OTHER -> s
    BY <1>15 DEF sm_at_host_create
  <2> HIDE DEF u, x, unused
  <2>4. "at" \in Callbacks
    BY DEF Callbacks
  <2>5. CASE u # NULL /\ s.pipe[u] = NULL
    <3>1. h' = modem_pipe_attach(r, m.pipe, "at", u)
      BY <2>3, <2>5
    <3>2. /\ r \in Hosts /\ r.inst = s.inst /\ r.cb = s.cb /\ r.user = s.user
          /\ r.msgs = s.msgs /\ r.purged = s.purged
          /\ r.pipe = [s.pipe EXCEPT ![u] = m.pipe]
      <4>1. s.lock \ {u} \in SUBSET Addrs
        BY <1>1, <1>3
      <4> QED BY <1>3, <1>4, <2>1, <2>5, <4>1 DEF Hosts
    <3> HIDE DEF r
    <3>3. /\ h' \in Hosts /\ h'.inst = r.inst /\ h'.pipe = r.pipe
          /\ h'.msgs = r.msgs /\ h'.purged = r.purged
          /\ h'.cb = [r.cb EXCEPT ![m.pipe] = "at"]
          /\ h'.user = [r.user EXCEPT ![m.pipe] = u]
      <4>1. u \in Addrs \cup {NULL}
        BY <2>1
      <4> QED BY <1>4, <2>4, <3>1, <3>2, <4>1, Attach
    <3>4. Listed(h') /\ Range(h'.inst) = Range(h.inst) \cup {u}
      BY <1>3, <1>6, <2>1, <2>5, <3>2, <3>3 DEF Listed
    <3> QED BY <1>3, <1>11, <1>15, <2>1, <2>5, <3>2, <3>3, <3>4
  <2>6. CASE ~(u # NULL /\ s.pipe[u] = NULL) /\ unused # {}
    <3>1. h' = modem_pipe_attach(t, m.pipe, "at", x)
      BY <2>3, <2>6
    <3>2. Append(s.inst, x) \in Seq(Addrs)
      BY <1>1, <1>3, <2>2, <2>6
    <3>3. /\ t \in Hosts /\ t.inst = Append(s.inst, x) /\ t.cb = s.cb /\ t.user = s.user
          /\ t.msgs = s.msgs /\ t.purged = s.purged
          /\ t.pipe = [s.pipe EXCEPT ![x] = m.pipe]
      BY <1>3, <1>4, <2>2, <2>6, <3>2 DEF Hosts
    <3> HIDE DEF t
    <3>4. /\ h' \in Hosts /\ h'.inst = t.inst /\ h'.pipe = t.pipe
          /\ h'.msgs = t.msgs /\ h'.purged = t.purged
          /\ h'.cb = [t.cb EXCEPT ![m.pipe] = "at"]
          /\ h'.user = [t.user EXCEPT ![m.pipe] = x]
      <4>1. x \in Addrs \cup {NULL}
        BY <2>2, <2>6
      <4> HIDE DEF r
      <4>2. t \in Hosts
        BY <3>3
      <4> QED BY <1>4, <2>4, <3>1, <4>1, <4>2, Attach
    <3>5. /\ Append(s.inst, x) # <<>> /\ IsInjective(Append(s.inst, x))
          /\ Range(Append(s.inst, x)) = Range(s.inst) \cup {x}
      BY <1>1, <1>3, <1>6, <2>2, <2>6, Appended DEF Listed
    <3>6. Listed(h') /\ Range(h'.inst) = Range(h.inst) \cup {x} /\ x \notin Range(h.inst)
      BY <1>3, <1>6, <2>2, <2>6, <3>3, <3>4, <3>5 DEF Listed
    <3> QED BY <1>3, <1>11, <1>15, <2>2, <2>6, <3>3, <3>4, <3>6
  <2>7. CASE ~(u # NULL /\ s.pipe[u] = NULL) /\ unused = {}
    <3>1. h' = s
      BY <2>3, <2>7
    <3> QED BY <1>3, <1>6, <1>12, <1>15, <3>1
  <2> QED BY <2>5, <2>6, <2>7
<1>16. CASE /\ m.ev = "closed" /\ ~(c # NULL /\ h.pipe[c] = NULL) /\ closing' = NoMsg
            /\ h' = IF c = NULL /\ h.cb[m.pipe] = "at"
                    THEN modem_pipe_attach(s, m.pipe, "null", NULL) ELSE s
  <2>1. CASE c = NULL /\ h.cb[m.pipe] = "at"
    <3>1. h' = modem_pipe_attach(s, m.pipe, "null", NULL)
      BY <1>16, <2>1
    <3>2. /\ h' \in Hosts /\ h'.inst = s.inst /\ h'.pipe = s.pipe
          /\ h'.msgs = s.msgs /\ h'.purged = s.purged
          /\ h'.cb = [s.cb EXCEPT ![m.pipe] = "null"]
          /\ h'.user = [s.user EXCEPT ![m.pipe] = NULL]
      BY <1>3, <1>4, <3>1 DEF modem_pipe_attach, Hosts, Callbacks
    <3>3. Listed(h')
      BY <1>6, <3>2 DEF Listed
    <3>4. /\ \A q \in Pipes : h'.cb[q] = "at" => h.cb[q] = "at" /\ h'.user[q] = h.user[q]
          /\ h'.cb[m.pipe] # "at"
      BY <1>1, <1>3, <1>4, <3>2
    <3> QED BY <1>3, <1>12, <1>16, <3>2, <3>3, <3>4
  <2>2. CASE ~(c = NULL /\ h.cb[m.pipe] = "at")
    <3>1. h' = s
      BY <1>16, <2>2
    <3> QED BY <1>3, <1>6, <1>12, <1>16, <2>2, <3>1
  <2> QED BY <2>1, <2>2
(* The context is about to be destroyed. *)
<1>17. CASE /\ m.ev = "closed" /\ c # NULL /\ h.pipe[c] = NULL
            /\ h' = [s EXCEPT !.pipe[c] = Deadbeef] /\ closing' = m
  <2>0. c \in Addrs /\ c \in Range(h.inst) /\ c = m.ctx /\ m # NoMsg
    BY <1>4, <1>5, <1>17, Names DEF NoMsg
  <2>1. /\ h' \in Hosts /\ h'.inst = s.inst /\ h'.cb = s.cb /\ h'.user = s.user
        /\ h'.msgs = s.msgs /\ h'.purged = s.purged
        /\ h'.pipe = [s.pipe EXCEPT ![c] = Deadbeef]
    <3>1. Deadbeef \in Pipes \cup {NULL, Deadbeef} /\ s \in Hosts /\ c \in Addrs
      BY <1>3, <2>0
    <3> DEFINE t == [s EXCEPT !.pipe[c] = Deadbeef]
    <3>2. /\ t \in Hosts /\ t.inst = s.inst /\ t.cb = s.cb /\ t.user = s.user
          /\ t.msgs = s.msgs /\ t.purged = s.purged
          /\ t.pipe = [s.pipe EXCEPT ![c] = Deadbeef]
      BY <3>1, PipeOf
    <3>3. h' = t
      BY <1>17
    <3> QED BY <3>2, <3>3
  <2>2. h'.pipe[c] = Deadbeef /\ \A x \in Addrs : x # c => h'.pipe[x] = h.pipe[x]
    BY <1>1, <1>3, <2>0, <2>1
  <2>3. Listed(h')
    BY <1>6, <2>1 DEF Listed
  <2>4. ClosingInv(h', m)
    BY <1>0, <1>2, <1>3, <2>0, <2>1, <2>2 DEF ClosingInv
  <2>5. ASSUME Tracked(h, NoMsg), NEW q \in Pipes, h'.cb[q] = "at" PROVE TrackedPipe(h', m, q)
    <3>1. h.cb[q] = "at" /\ h'.user[q] = h.user[q] /\ TrackedPipe(h, NoMsg, q)
      BY <1>3, <2>1, <2>5 DEF Tracked
    <3>2. CloseQueued(h, q) => CloseQueued(h', q) \/ (m.ctx = h.user[q] /\ m.pipe = q)
      BY <1>3, <1>9, <2>1, <3>1
    <3>3. ~Stale(h', q)
      BY <1>3, <2>1, <2>2, <3>1 DEF TrackedPipe, Stale
    <3>4. /\ h.user[q] \in Addrs
          /\ h.user[q] = c => h.pipe[h.user[q]] # q
      BY <1>17, <3>1, Names DEF TrackedPipe
    <3> QED BY <1>3, <2>0, <2>1, <2>2, <3>1, <3>2, <3>3, <3>4 DEF TrackedPipe
  <2>6. Tracked(h, NoMsg) => Tracked(h', m)
    BY <2>5 DEF Tracked
  <2> QED BY <1>0, <1>3, <1>7, <1>17, <2>1, <2>3, <2>4, <2>6 DEF Sound
<1> QED BY <1>10, <1>13, <1>14, <1>15, <1>16, <1>17, Names

(* HostClosed: no other pipe has the context that is destroyed. *)
LEMMA ClosedContext ==
    ASSUME IInv, HostClosed
    PROVE  Sound(h', NoMsg, Left)
<1> DEFINE c == closing.ctx
           p == closing.pipe
           s == IF h.user[p] = c THEN modem_pipe_attach(h, p, "null", NULL) ELSE h
           t == sm_at_host_destroy(s, c)
<1>0. /\ Sound(h, closing, Left) /\ h \in Hosts /\ closing # NoMsg /\ h' = t
      /\ Left \in BOOLEAN
  <2>1. Left \in BOOLEAN
    BY DEF Left
  <2>2. h' = t /\ closing # NoMsg
    BY DEF HostClosed
  <2> HIDE DEF t
  <2> QED BY <2>1, <2>2 DEF IInv, Sound
<1>1. c \in Range(h.inst) /\ c \in Addrs /\ p \in Pipes
  <2>1. closing \in Msgs /\ c \in Range(h.inst)
    BY <1>0 DEF Sound, ClosingInv
  <2>2. h.inst \in Seq(Addrs)
    BY <1>0 DEF Hosts
  <2>3. c \in Addrs
    BY <2>1, <2>2, RangeOfSeq
  <2> QED BY <2>1, <2>3 DEF Msgs
<1> HIDE DEF c, p
<1>2. /\ Sound(s, closing, Left) /\ s.inst = h.inst
      /\ \A q \in Pipes : s.cb[q] = "at" => ~(q = p /\ s.user[q] = c)
  <2>1. CASE h.user[p] # c
    BY <1>0, <2>1
  <2>2. CASE h.user[p] = c
    <3> DEFINE r == modem_pipe_attach(h, p, "null", NULL)
    <3>1. s = r
      BY <2>2
    <3>2. Sound(r, closing, Left)
      <4>1. "null" \in Callbacks /\ "null" # "at" /\ NULL \in Addrs \cup {NULL}
        BY DEF Callbacks
      <4> QED BY <1>0, <1>1, <4>1, AttachSound
    <3>3. r.inst = h.inst /\ r.cb[p] = "null"
      BY <1>0, <1>1 DEF modem_pipe_attach, Hosts
    <3> HIDE DEF r, s
    <3> QED BY <1>1, <3>1, <3>2, <3>3
  <2> QED BY <2>1, <2>2
<1> HIDE DEF s
<1>3. /\ s \in Hosts /\ Listed(s) /\ s.pipe[c] = Deadbeef
      /\ \A x \in Addrs : x # c => s.pipe[x] # Deadbeef
      /\ s.pipe \in [Addrs -> Pipes \cup {NULL, Deadbeef}]
  BY <1>0, <1>1, <1>2 DEF Sound, ClosingInv, Hosts, c
<1>4. /\ t \in Hosts /\ Listed(t) /\ t.cb = s.cb /\ t.user = s.user
      /\ t.msgs = s.msgs /\ t.purged = s.purged
      /\ t.pipe = [s.pipe EXCEPT ![c] = NULL]
      /\ \A x \in Addrs : x # c => (x \in Range(t.inst) <=> x \in Range(s.inst))
  <2>1. CASE Len(s.inst) = 1
    <3> DEFINE r == [s EXCEPT !.pipe[c] = NULL]
    <3>1. t = r
      BY <1>1, <1>2, <2>1, Names DEF sm_at_host_destroy, sm_at_ctx_check
    <3>2. /\ r \in Hosts /\ r.inst = s.inst /\ r.cb = s.cb /\ r.user = s.user
          /\ r.msgs = s.msgs /\ r.purged = s.purged
          /\ r.pipe = [s.pipe EXCEPT ![c] = NULL]
      BY <1>1, <1>3, PipeOf
    <3> HIDE DEF r, t
    <3>3. Listed(t)
      BY <1>3, <3>1, <3>2 DEF Listed
    <3> QED BY <3>1, <3>2, <3>3
  <2>2. CASE Len(s.inst) # 1
    <3>1. /\ t \in Hosts /\ Listed(t) /\ t.cb = s.cb /\ t.user = s.user
          /\ t.msgs = s.msgs /\ t.purged = s.purged
          /\ t.pipe = [s.pipe EXCEPT ![c] = NULL]
          /\ Range(t.inst) = Range(s.inst) \ {c}
      BY <1>1, <1>2, <1>3, <2>2, Destroy
    <3> QED BY <3>1
  <2> QED BY <2>1, <2>2
<1> HIDE DEF t
<1>5. t.pipe[c] = NULL /\ \A x \in Addrs : x # c => t.pipe[x] = s.pipe[x]
  BY <1>1, <1>3, <1>4
<1>6. ClosingInv(t, NoMsg)
  BY <1>3, <1>5, Names DEF ClosingInv
<1>7. ASSUME Tracked(s, closing), NEW q \in Pipes, t.cb[q] = "at"
      PROVE  TrackedPipe(t, NoMsg, q)
  <2>1. s.cb[q] = "at" /\ t.user[q] = s.user[q] /\ TrackedPipe(s, closing, q)
    BY <1>4, <1>7 DEF Tracked
  <2>2. s.user[q] \in Addrs /\ ~(q = p /\ s.user[q] = c)
    BY <1>2, <2>1 DEF TrackedPipe
  <2>3. CloseQueued(s, q) => CloseQueued(t, q)
    BY <1>4, <2>1 DEF CloseQueued
  <2>4. s.user[q] = c => s.pipe[s.user[q]] # q
    BY <1>3, Names
  <2>5. ~Stale(t, q)
    BY <1>4, <1>5, <2>1, <2>2 DEF TrackedPipe, Stale
  <2>6. \/ s.user[q] \in Range(s.inst) /\ s.pipe[s.user[q]] = q
        \/ CloseQueued(s, q)
    BY <2>1, <2>2 DEF TrackedPipe, c, p
  <2>7. \/ t.user[q] \in Range(t.inst) /\ t.pipe[t.user[q]] = q
        \/ CloseQueued(t, q)
    BY <1>4, <1>5, <2>1, <2>2, <2>3, <2>4, <2>6
  <2>8. s.user[q] \in Range(t.inst) => s.user[q] \in Range(s.inst)
    BY <1>1, <1>2, <1>4, <2>2
  <2>9. \A r \in Pipes : /\ s.cb[r] = "at" /\ s.user[r] = s.user[q]
                         /\ s.user[q] \in Range(s.inst)
                         => q = r
    BY <2>1 DEF TrackedPipe
  <2> QED BY <1>4, <2>1, <2>2, <2>5, <2>7, <2>8, <2>9 DEF TrackedPipe
<1>8. Tracked(s, closing) => Tracked(t, NoMsg)
  BY <1>7 DEF Tracked
<1>9. t.purged \/ Left \/ Tracked(t, NoMsg)
  BY <1>2, <1>4, <1>8 DEF Sound
<1> QED BY <1>0, <1>4, <1>6, <1>9 DEF Sound

-----------------------------------------------------------------------------
(* PPP. *)

(* delegate_ppp_event: the queue stays within its size ... *)
LEMMA DelegateSound ==
    ASSUME NEW q, PppSound(q), NEW e \in PppEvents
    PROVE  PppSound(delegate_ppp_event(q, e.action, e.reason))
<1>1. q \in Ppps /\ q.queue \in Seq(PppEvents) /\ Len(q.queue) <= QueueLen /\ QueueLen \in Nat
  BY ContextsAssumption DEF PppSound, Ppps
<1> DEFINE f == [action |-> e.action, reason |-> e.reason]
           t == [q EXCEPT !.queue = Append(@, f)]
<1>2. f \in PppEvents
  BY DEF PppEvents
<1> HIDE DEF f
<1>3. CASE Len(q.queue) = QueueLen
  BY <1>3 DEF delegate_ppp_event
<1>4. CASE Len(q.queue) # QueueLen
  <2>1. Append(q.queue, f) \in Seq(PppEvents) /\ Len(Append(q.queue, f)) <= QueueLen
    BY <1>1, <1>2, <1>4
  <2>2. t \in Ppps /\ t.queue = Append(q.queue, f)
    BY <1>1, <2>1 DEF Ppps
  <2>3. delegate_ppp_event(q, e.action, e.reason) = t
    BY <1>4 DEF delegate_ppp_event, f
  <2> HIDE DEF t
  <2> QED BY <2>1, <2>2, <2>3 DEF PppSound
<1> QED BY <1>3, <1>4

(* ... of an action and its reason. *)
LEMMA Delegated ==
    ASSUME NEW q, PppSound(q), NEW a \in {"START", "STOP", "RESTART"},
           NEW r \in {"CMD", "NETWORK", "PEER", "ERROR"}
    PROVE  PppSound(delegate_ppp_event(q, a, r))
<1> DEFINE e == [action |-> a, reason |-> r]
<1>1. e \in PppEvents /\ e.action = a /\ e.reason = r
  BY DEF PppEvents
<1> HIDE DEF e
<1> QED BY <1>1, DelegateSound

(* sm_ppp_detach *)
LEMMA DetachSound == ASSUME NEW q, PppSound(q) PROVE PppSound(sm_ppp_detach(q))
<1> DEFINE d == [q EXCEPT !.pipe = NULL, !.keep = FALSE, !.auto = FALSE]
<1>1. PppSound(d)
  BY DEF PppSound, Ppps
<1>2. sm_ppp_detach(q) = d \/ sm_ppp_detach(q) = delegate_ppp_event(d, "STOP", "CMD")
  BY DEF sm_ppp_detach
<1> HIDE DEF d
<1> QED BY <1>1, <1>2, Delegated

(* PPP keeps its types, whoever delegates what to it. *)
LEMMA PppStep == IInv /\ [Next]_vars => PppSound(ppp') /\ event' \in PppEvents
<1> SUFFICES ASSUME IInv, [Next]_vars PROVE PppSound(ppp') /\ event' \in PppEvents
  OBVIOUS
<1> USE DEF workerVars, pppThread
<1>0. PppSound(ppp) /\ event \in PppEvents
  BY DEF IInv
<1>1. CASE Commands
  <2> PICK p \in Pipes :
        \/ handle_at_cmux(p) \/ handle_at_xcmuxcld(p)
        \/ \E ch \in 1..2 : handle_at_xcmux(p, ch)
        \/ \E ch \in 0..Len(Dlcis) : handle_at_xcmuxurc(p, ch)
        \/ PppStartCommand(p) \/ PppStopCommand(p) \/ handle_at_cgdata(p)
    BY <1>1 DEF Commands
  <2>0. event' = event
    BY DEF handle_at_cmux, handle_at_xcmuxcld, handle_at_xcmux, handle_at_xcmuxurc,
       PppStartCommand, PppStopCommand, handle_at_cgdata
  <2>1. CASE ppp' = ppp
    BY <1>0, <2>0, <2>1
  <2>2. CASE \E ch \in 1..2 : handle_at_xcmux(p, ch)
    <3> PICK ch \in 1..2 : handle_at_xcmux(p, ch)
      BY <2>2
    <3> DEFINE other == Dlcis[3 - ch]
    <3>1. other \in Pipes
      BY Names
    <3>2. ppp' = [sm_ppp_attach(ppp, other) EXCEPT !.keep = FALSE]
          \/ ppp' = sm_ppp_attach(ppp, other)
      BY DEF handle_at_xcmux
    <3> HIDE DEF other
    <3>3. PppSound(sm_ppp_attach(ppp, other))
      BY <1>0, <3>1 DEF PppSound, Ppps, sm_ppp_attach
    <3>4. PppSound([sm_ppp_attach(ppp, other) EXCEPT !.keep = FALSE])
      BY <1>0, <3>1 DEF PppSound, Ppps, sm_ppp_attach
    <3> QED BY <1>0, <2>0, <3>2, <3>3, <3>4
  <2>3. CASE PppStartCommand(p)
    <3> DEFINE q == [ppp EXCEPT !.auto = TRUE, !.pipe = IF @ = NULL THEN p ELSE @,
                                !.detach = @ \/ ppp.pipe = NULL]
    <3>1. PppSound(q)
      BY <1>0 DEF PppSound, Ppps
    <3>2. ppp' = delegate_ppp_event(q, "START", "CMD")
      BY <2>3 DEF PppStartCommand
    <3> HIDE DEF q
    <3> QED BY <1>0, <2>0, <3>1, <3>2, Delegated
  <2>4. CASE PppStopCommand(p)
    <3> DEFINE q == [ppp EXCEPT !.auto = FALSE]
    <3>1. PppSound(q)
      BY <1>0 DEF PppSound, Ppps
    <3>2. ppp' = delegate_ppp_event(q, "STOP", "CMD")
      BY <2>4 DEF PppStopCommand
    <3> HIDE DEF q
    <3> QED BY <1>0, <2>0, <3>1, <3>2, Delegated
  <2>5. CASE handle_at_cgdata(p)
    <3> DEFINE q == IF ppp.pipe = NULL THEN ppp ELSE sm_ppp_detach(ppp)
    <3>1. PppSound(q)
      BY <1>0, DetachSound
    <3>2. ppp' = [q EXCEPT !.pipe = p, !.keep = FALSE]
      BY <2>5 DEF handle_at_cgdata
    <3> HIDE DEF q
    <3>3. PppSound([q EXCEPT !.pipe = p, !.keep = FALSE])
      BY <3>1 DEF PppSound, Ppps
    <3> QED BY <1>0, <2>0, <3>2, <3>3
  <2>6. \/ ppp' = ppp \/ \E ch \in 1..2 : handle_at_xcmux(p, ch)
        \/ PppStartCommand(p) \/ PppStopCommand(p) \/ handle_at_cgdata(p)
    BY DEF handle_at_cmux, handle_at_xcmuxcld, handle_at_xcmuxurc
  <2> QED BY <2>1, <2>2, <2>3, <2>4, <2>5, <2>6
<1>2. CASE Messages \/ UNCHANGED vars
  BY <1>0, <1>2 DEF Messages, HostMessage, HostClosed, vars
<1>3. CASE stop_work_fn
  <2>1. event' = event /\ (ppp' = ppp \/ ppp' = sm_ppp_detach(ppp))
    BY <1>3 DEF stop_work_fn
  <2> QED BY <1>0, <2>1, DetachSound
<1>4. CASE Pdp
  <2>0. event' = event
    BY <1>4 DEF Pdp, ActivatePdp, ActivatePdpFails
  <2>1. CASE ActivatePdpFails
    <3>1. ppp' = [ppp EXCEPT !.pipe = NULL]
      BY <2>1 DEF ActivatePdpFails
    <3> QED BY <1>0, <2>0, <3>1 DEF PppSound, Ppps
  <2>2. CASE ActivatePdp
    <3> DEFINE q == [ppp EXCEPT !.mod = ModuleWith(ppp.pipe), !.auto = TRUE]
    <3>1. ppp' = ppp \/ ppp' = delegate_ppp_event(q, "START", "CMD")
      BY <2>2 DEF ActivatePdp
    <3>2. PppSound(q)
      BY <1>0 DEF PppSound, Ppps, ModuleWith
    <3> HIDE DEF q
    <3> QED BY <1>0, <2>0, <3>1, <3>2, Delegated
  <2> QED BY <1>4, <2>1, <2>2 DEF Pdp
<1>5. CASE PppThread
  <2>1. CASE PppTake
    <3>1. /\ event' = Head(ppp.queue) /\ ppp' = [ppp EXCEPT !.queue = Tail(@)]
          /\ ppp.queue # <<>>
      BY <2>1 DEF PppTake
    <3>2. ppp \in Ppps /\ ppp.queue \in Seq(PppEvents) /\ Len(ppp.queue) <= QueueLen
          /\ QueueLen \in Nat
      BY <1>0, ContextsAssumption DEF PppSound, Ppps
    <3>3. /\ Head(ppp.queue) \in PppEvents /\ Tail(ppp.queue) \in Seq(PppEvents)
          /\ Len(Tail(ppp.queue)) <= QueueLen
      BY <3>1, <3>2
    <3>4. ppp' \in Ppps /\ ppp'.queue = Tail(ppp.queue)
      BY <3>1, <3>2, <3>3 DEF Ppps
    <3> QED BY <3>1, <3>3, <3>4 DEF PppSound
  <2>2. CASE PppStart
    <3>1. /\ event' = event
          /\ \/ ppp' = ppp \/ ppp' = [ppp EXCEPT !.monitor = TRUE]
             \/ ppp' = [ppp EXCEPT !.monitor = TRUE, !.state = "STARTING"]
      BY <2>2 DEF PppStart
    <3> QED BY <1>0, <3>1 DEF PppSound, Ppps
  <2>3. CASE PppStartFails
    BY <1>0, <2>3 DEF PppStartFails, PppEvents
  <2>4. CASE PppRunning
    <3>1. event' = event /\ (\/ ppp' = ppp
                             \/ ppp' = [ppp EXCEPT !.mod = ModuleWith(ppp.pipe),
                                                   !.state = "RUNNING"])
      BY <2>4 DEF PppRunning
    <3> QED BY <1>0, <3>1 DEF PppSound, Ppps, ModuleWith
  <2>5. CASE PppStop
    <3> DEFINE restarting == ppp.keep /\ event.reason \in {"NETWORK", "ERROR"}
               q == [ppp EXCEPT !.state = "STOPPING", !.monitor = @ /\ restarting]
    <3>1. /\ event' = event
          /\ \/ ppp' = ppp \/ ppp' = q
             \/ ppp' = delegate_ppp_event(q, "STOP", event.reason)
      BY <2>5 DEF PppStop
    <3>2. event.reason \in {"CMD", "NETWORK", "PEER", "ERROR"}
      BY <1>0 DEF PppEvents
    <3> HIDE DEF restarting
    <3>3. PppSound(q)
      BY <1>0 DEF PppSound, Ppps
    <3> HIDE DEF q
    <3> QED BY <1>0, <3>1, <3>2, <3>3, Delegated
  <2>6. CASE PppStopped
    <3>1. /\ event' = event
          /\ ppp' = [ppp EXCEPT !.mod = NULL, !.state = "STOPPED",
                                !.pipe = IF ppp.keep THEN @ ELSE NULL,
                                !.detach = @ /\ ppp.keep]
      BY <2>6 DEF PppStopped
    <3> QED BY <1>0, <3>1 DEF PppSound, Ppps
  <2> QED BY <1>5, <2>1, <2>2, <2>3, <2>4, <2>5, <2>6 DEF PppThread
<1>6. CASE Events
  <2>0. event' = event
    BY <1>6 DEF Events, DlciOpens, DlciCloses, CmuxDisconnected, PdnActivated,
       ConnectionDown, PollFails, PeerConnected, PeerDisconnected, Delegate
  <2>1. CASE \E d \in Range(Dlcis) : DlciOpens(d) \/ DlciCloses(d)
    BY <1>0, <2>0, <2>1 DEF DlciOpens, DlciCloses
  <2>2. CASE CmuxDisconnected
    BY <1>0, <2>0, <2>2 DEF CmuxDisconnected
  <2>3. CASE PdnActivated
    BY <1>0, <2>0, <2>3, Delegated DEF PdnActivated, Delegate
  <2>4. CASE ConnectionDown
    <3> DEFINE q == [ppp EXCEPT !.state = "STOPPING"]
    <3>1. PppSound(q)
      BY <1>0 DEF PppSound, Ppps
    <3>2. ppp' = delegate_ppp_event(q, "STOP", "NETWORK")
      BY <2>4 DEF ConnectionDown, Delegate
    <3> HIDE DEF q
    <3> QED BY <1>0, <2>0, <3>1, <3>2, Delegated
  <2>5. CASE PollFails
    <3> DEFINE q == [ppp EXCEPT !.state = "STARTING"]
    <3>1. PppSound(q)
      BY <1>0 DEF PppSound, Ppps
    <3>2. ppp' = delegate_ppp_event(q, "RESTART", "ERROR")
      BY <2>5 DEF PollFails, Delegate
    <3> HIDE DEF q
    <3> QED BY <1>0, <2>0, <3>1, <3>2, Delegated
  <2>6. CASE PeerConnected \/ PeerDisconnected
    <3> DEFINE q == [ppp EXCEPT !.peer = FALSE]
               r == [ppp EXCEPT !.peer = TRUE]
    <3>1. PppSound(q) /\ PppSound(r)
      BY <1>0 DEF PppSound, Ppps
    <3>2. ppp' = q \/ ppp' = r \/ ppp' = delegate_ppp_event(q, "STOP", "PEER")
      BY <2>6 DEF PeerConnected, PeerDisconnected, Delegate
    <3> HIDE DEF q, r
    <3> QED BY <1>0, <2>0, <3>1, <3>2, Delegated
  <2> QED BY <1>6, <2>1, <2>2, <2>3, <2>4, <2>5, <2>6 DEF Events
<1> QED BY <1>1, <1>2, <1>3, <1>4, <1>5, <1>6 DEF Next

-----------------------------------------------------------------------------
(* The invariant is inductive. *)

(* What a command may count on: the context of its pipe is of the list, has *)
(* that pipe, and no other pipe names it.                                   *)
LEMMA CommandFacts ==
    ASSUME IInv, NEW p \in Pipes, Command(p)
    PROVE  /\ closing = NoMsg /\ Sound(h, NoMsg, Left) /\ h \in Hosts /\ Listed(h)
           /\ h.user[p] \in Addrs /\ h.user[p] \in Range(h.inst)
           /\ h.purged \/ Left \/ Sole(h, h.user[p])
<1>1. /\ closing = NoMsg /\ h.cb[p] = "at" /\ h.user[p] # NULL
      /\ h.user[p] \in Range(h.inst) /\ h.pipe[h.user[p]] = p
  BY DEF Command, Served, Attached, sm_at_ctx_check
<1>2. Sound(h, NoMsg, Left) /\ h \in Hosts /\ Listed(h)
  BY <1>1 DEF IInv, Sound
<1>3. h.user[p] \in Addrs
  BY <1>1, <1>2 DEF Hosts
<1>4. Tracked(h, NoMsg) => Sole(h, h.user[p])
  BY <1>1 DEF Tracked, TrackedPipe, Sole
<1> QED BY <1>1, <1>2, <1>3, <1>4 DEF Sound

(* What was left behind stays recorded. *)
LEMMA LeftStays == [Next]_vars => (Left => Left')
<1> SUFFICES ASSUME [Next]_vars, Left PROVE Left'
  OBVIOUS
<1> USE DEF workerVars, pppThread, Left
<1>1. CASE Commands
  BY <1>1 DEF Commands, handle_at_cmux, handle_at_xcmuxcld, handle_at_xcmux,
     handle_at_xcmuxurc, PppStartCommand, PppStopCommand, handle_at_cgdata
<1>2. CASE Messages \/ stop_work_fn \/ Pdp
  BY <1>2 DEF Messages, HostMessage, HostClosed, stop_work_fn, Pdp, ActivatePdp,
     ActivatePdpFails
<1>3. CASE PppThread
  BY <1>3 DEF PppThread, PppTake, PppStart, PppStartFails, PppRunning, PppStop, PppStopped
<1>4. CASE Events
  BY <1>4 DEF Events, DlciOpens, DlciCloses, CmuxDisconnected, PdnActivated,
     ConnectionDown, PollFails, PeerConnected, PeerDisconnected, Delegate
<1>5. CASE UNCHANGED vars
  BY <1>5 DEF vars
<1> QED BY <1>1, <1>2, <1>3, <1>4, <1>5 DEF Next

(* The commands of the host. *)
LEMMA CommandsSound ==
    ASSUME IInv, Commands
    PROVE  Sound(h', closing', Left)
<1> USE DEF workerVars, pppThread
<1>0. Sound(h, closing, Left) /\ Left \in BOOLEAN
  <2>1. Left \in BOOLEAN
    BY DEF Left
  <2> QED BY <2>1 DEF IInv
<1>1. PICK p \in Pipes :
        \/ handle_at_cmux(p) \/ handle_at_xcmuxcld(p)
        \/ \E ch \in 1..2 : handle_at_xcmux(p, ch)
        \/ \E ch \in 0..Len(Dlcis) : handle_at_xcmuxurc(p, ch)
        \/ PppStartCommand(p) \/ PppStopCommand(p) \/ handle_at_cgdata(p)
  BY DEF Commands
<1> DEFINE c == h.user[p]
<1>2. Command(p) /\ closing' = closing
  BY <1>1 DEF handle_at_cmux, handle_at_xcmuxcld, handle_at_xcmux, handle_at_xcmuxurc,
     PppStartCommand, PppStopCommand, handle_at_cgdata
<1>3. /\ closing = NoMsg /\ Sound(h, NoMsg, Left) /\ h \in Hosts /\ Listed(h)
      /\ c \in Addrs /\ c \in Range(h.inst)
      /\ h.purged \/ Left \/ Sole(h, c)
  BY <1>2, CommandFacts
<1> HIDE DEF c
<1>4. CASE handle_at_cmux(p)
  <2>1. h' = cmux_start(h, c)
    BY <1>4 DEF handle_at_cmux, c
  <2> QED BY <1>0, <1>2, <1>3, <2>1, CmuxStartSound
<1>5. CASE \E ch \in 1..2 : handle_at_xcmux(p, ch)
  <2> PICK ch \in 1..2 : handle_at_xcmux(p, ch)
    BY <1>5
  <2> DEFINE other == Dlcis[3 - ch]
             s == [h EXCEPT !.at_channel = ch]
  <2>1. other \in Pipes /\ Dlcis[ch] \in Pipes
    BY Names
  <2>2. /\ s \in Hosts /\ s.inst = h.inst /\ s.pipe = h.pipe /\ s.cb = h.cb
        /\ s.user = h.user /\ s.msgs = h.msgs /\ s.purged = h.purged
    BY <1>3 DEF Hosts
  <2>3. h' = Reserve(sm_at_host_set_pipe(s, c, Dlcis[ch]), other)
        \/ h' = cmux_start(Reserve(s, other), c)
    BY DEF handle_at_xcmux, c
  <2> HIDE DEF s, other
  <2>4. Sound(s, NoMsg, Left) /\ Listed(s)
    <3>1. Sound(s, NoMsg, Left)
      BY <1>0, <1>3, <2>2, SameSound
    <3> QED BY <3>1 DEF Sound
  <2>5. s.purged \/ Left \/ Sole(s, c)
    BY <1>3, <2>2 DEF Sole
  <2>6. Sound(Reserve(sm_at_host_set_pipe(s, c, Dlcis[ch]), other), NoMsg, Left)
    <3>1. Sound(sm_at_host_set_pipe(s, c, Dlcis[ch]), NoMsg, Left)
      BY <1>0, <1>3, <2>1, <2>2, <2>4, <2>5, SetPipeSound
    <3> QED BY <1>0, <2>1, <3>1, ReserveSound
  <2>7. Sound(cmux_start(Reserve(s, other), c), NoMsg, Left)
    <3> DEFINE r == Reserve(s, other)
    <3>1. Sound(r, NoMsg, Left)
      BY <1>0, <2>1, <2>4, ReserveSound
    <3>2. r.inst = s.inst
      BY <2>1, <2>2, <2>4, ReserveFields
    <3>3. Sole(s, c) => Sole(r, c)
      BY <1>3, <2>1, <2>2, <2>4, ReserveSole
    <3>4. s.purged => r.purged
      BY <2>1, <2>2, <2>4, ReserveFields
    <3> HIDE DEF r
    <3>5. r.purged \/ Left \/ Sole(r, c)
      BY <2>5, <3>3, <3>4
    <3>6. c \in Range(r.inst)
      BY <1>3, <2>2, <3>2
    <3>7. Sound(cmux_start(r, c), NoMsg, Left)
      BY <1>0, <1>3, <3>1, <3>5, <3>6, CmuxStartSound
    <3> QED BY <3>7 DEF r
  <2> QED BY <1>2, <1>3, <2>3, <2>6, <2>7
<1>6. CASE \E ch \in 0..Len(Dlcis) : handle_at_xcmuxurc(p, ch)
  <2> PICK ch \in 0..Len(Dlcis) : handle_at_xcmuxurc(p, ch)
    BY <1>6
  <2>1. h' = [h EXCEPT !.urc_channel = ch]
    BY DEF handle_at_xcmuxurc
  <2>2. /\ h' \in Hosts /\ h'.inst = h.inst /\ h'.pipe = h.pipe /\ h'.cb = h.cb
        /\ h'.user = h.user /\ h'.msgs = h.msgs /\ h'.purged = h.purged
    BY <1>3, <2>1 DEF Hosts
  <2> QED BY <1>0, <1>2, <2>2, SameSound
<1>7. CASE handle_at_cgdata(p)
  <2>1. h' = [h EXCEPT !.lock = @ \cup {c}]
    BY <1>7 DEF handle_at_cgdata, c
  <2>2. h.lock \cup {c} \in SUBSET Addrs
    BY <1>3 DEF Hosts
  <2>3. /\ h' \in Hosts /\ h'.inst = h.inst /\ h'.pipe = h.pipe /\ h'.cb = h.cb
        /\ h'.user = h.user /\ h'.msgs = h.msgs /\ h'.purged = h.purged
    BY <1>3, <2>1, <2>2 DEF Hosts
  <2> QED BY <1>0, <1>2, <2>3, SameSound
<1>8. CASE handle_at_xcmuxcld(p) \/ PppStartCommand(p) \/ PppStopCommand(p)
  <2>1. h' = h
    BY <1>8 DEF handle_at_xcmuxcld, PppStartCommand, PppStopCommand
  <2> QED BY <1>0, <1>2, <2>1
<1> QED BY <1>1, <1>4, <1>5, <1>6, <1>7, <1>8

(* The PPP thread and the activation of a PDP context. *)
LEMMA PppHostSound ==
    ASSUME IInv, stop_work_fn \/ Pdp \/ PppThread
    PROVE  Sound(h', closing', Left)
<1> USE DEF workerVars, pppThread
<1>0. /\ Sound(h, closing, Left) /\ Left \in BOOLEAN /\ h \in Hosts /\ Listed(h)
      /\ ppp.pipe \in Pipes \cup {NULL} /\ ppp.mod \in Pipes \cup {NULL}
  <2>1. Left \in BOOLEAN
    BY DEF Left
  <2>2. ppp.pipe \in Pipes \cup {NULL} /\ ppp.mod \in Pipes \cup {NULL}
    BY DEF IInv, PppSound, Ppps
  <2> QED BY <2>1, <2>2 DEF IInv, Sound
<1>1. closing' = closing
  BY DEF stop_work_fn, Pdp, ActivatePdp, ActivatePdpFails, PppThread, PppTake, PppStart,
     PppStartFails, PppRunning, PppStop, PppStopped
<1>2. CASE h' = h
  BY <1>0, <1>1, <1>2
<1>3. CASE stop_work_fn /\ h.uart_pipe
  <2> DEFINE r == modem_pipe_release(h, Uart)
             s == [r EXCEPT !.at_channel = 1, !.uart_pipe = FALSE]
             u == sm_at_host_get_urc_ctx(s)
  <2>1. closing = NoMsg /\ h' = init_dlcis(sm_at_host_set_pipe(s, u, Uart))
    BY <1>3 DEF stop_work_fn, WorkerIdle
  <2>2. Sound(r, NoMsg, Left)
    BY <1>0, <2>1, ReleaseSound, Names
  <2> HIDE DEF r
  <2>3. r \in Hosts
    BY <2>2 DEF Sound
  <2>4. /\ s \in Hosts /\ s.inst = r.inst /\ s.pipe = r.pipe /\ s.cb = r.cb
        /\ s.user = r.user /\ s.msgs = r.msgs /\ s.purged = r.purged
    <3>1. 1 \in 1..2 /\ FALSE \in BOOLEAN
      OBVIOUS
    <3>2. s \in Hosts
      BY <2>3, <3>1 DEF Hosts
    <3>3. /\ s.inst = r.inst /\ s.pipe = r.pipe /\ s.cb = r.cb
          /\ s.user = r.user /\ s.msgs = r.msgs
      BY <2>3 DEF Hosts
    <3>4. s.purged = r.purged
      BY <2>3 DEF Hosts
    <3> QED BY <3>2, <3>3, <3>4
  <2>5. ~s.uart_pipe
    BY <2>3 DEF Hosts
  <2> HIDE DEF s
  <2>6. Listed(s) /\ ClosingInv(s, NoMsg)
    BY <2>2, <2>4 DEF Sound, Listed, ClosingInv
  <2>7. u \in Range(s.inst) /\ u \in Addrs
    BY <2>4, <2>5, <2>6, UrcCtx
  <2> HIDE DEF u
  <2> QED BY <1>0, <1>1, <2>1, <2>4, <2>6, <2>7, StopSound
<1>4. CASE ActivatePdpFails
  <2> DEFINE c == sm_at_host_get_ctx_from(h, ppp.pipe)
  <2>1. h' = h \/ h' = [h EXCEPT !.lock = @ \ {c}]
    BY <1>4 DEF ActivatePdpFails
  <2> HIDE DEF c
  <2>2. h.lock \ {c} \in SUBSET Addrs
    BY <1>0 DEF Hosts
  <2>3. /\ h' \in Hosts /\ h'.inst = h.inst /\ h'.pipe = h.pipe /\ h'.cb = h.cb
        /\ h'.user = h.user /\ h'.msgs = h.msgs /\ h'.purged = h.purged
    BY <1>0, <2>1, <2>2 DEF Hosts
  <2> QED BY <1>0, <1>1, <2>3, SameSound
<1>5. ASSUME ActivatePdp \/ PppRunning PROVE Sound(h', closing', Left)
  <2> DEFINE s == sm_at_host_release(h, sm_at_host_get_ctx_from(h, ppp.pipe))
  <2>1. Sound(s, closing, Left)
    BY <1>0, HostReleaseSound
  <2>2. \/ h' = h
        \/ /\ ~(ppp.pipe = NULL /\ ppp.mod = NULL)
           /\ \/ h' = modem_ppp_attach_pipe(s, ppp.pipe)
              \/ h' = modem_ppp_attach_pipe(h, ppp.pipe)
    BY <1>5 DEF ActivatePdp, PppRunning
  <2> HIDE DEF s
  <2>3. ASSUME NEW r, Sound(r, closing, Left), ~(ppp.pipe = NULL /\ ppp.mod = NULL)
        PROVE  Sound(modem_ppp_attach_pipe(r, ppp.pipe), closing, Left)
    <3>1. CASE ppp.mod # NULL
      BY <2>3, <3>1 DEF modem_ppp_attach_pipe
    <3>2. CASE ppp.mod = NULL
      <4>1. modem_ppp_attach_pipe(r, ppp.pipe) = modem_pipe_attach(r, ppp.pipe, "ppp", NULL)
        BY <3>2 DEF modem_ppp_attach_pipe
      <4>2. /\ ppp.pipe \in Pipes /\ "ppp" \in Callbacks /\ "ppp" # "at"
            /\ NULL \in Addrs \cup {NULL}
        BY <1>0, <2>3, <3>2 DEF Callbacks
      <4> QED BY <1>0, <2>3, <4>1, <4>2, AttachSound
    <3> QED BY <3>1, <3>2
  <2> QED BY <1>0, <1>1, <2>1, <2>2, <2>3
<1>6. CASE PppStopped
  <2> DEFINE s == modem_pipe_release(h, ppp.mod)
  <2>1. h' = s \/ h' = sm_at_host_attach(s, ppp.pipe)
    BY <1>6 DEF PppStopped
  <2>2. Sound(s, closing, Left)
    BY <1>0, ReleaseSound
  <2> HIDE DEF s
  <2> QED BY <1>0, <1>1, <2>1, <2>2, HostAttachSound
<1>7. \/ h' = h \/ (stop_work_fn /\ h.uart_pipe) \/ ActivatePdpFails
      \/ ActivatePdp \/ PppRunning \/ PppStopped
  BY DEF stop_work_fn, Pdp, PppThread, PppTake, PppStart, PppStartFails, PppStop
<1> QED BY <1>2, <1>3, <1>4, <1>5, <1>6, <1>7

(* Channels, the network and the peer of PPP. *)
LEMMA EventsSound ==
    ASSUME IInv, Events
    PROVE  Sound(h', closing', Left)
<1> USE DEF workerVars, pppThread
<1>0. Sound(h, closing, Left) /\ Left \in BOOLEAN /\ h \in Hosts
  <2>1. Left \in BOOLEAN
    BY DEF Left
  <2> QED BY <2>1 DEF IInv, Sound
<1>1. closing' = closing
  BY DEF Events, DlciOpens, DlciCloses, CmuxDisconnected, PdnActivated,
     ConnectionDown, PollFails, PeerConnected, PeerDisconnected, Delegate
<1>2. ASSUME NEW d \in Range(Dlcis), DlciOpens(d) \/ DlciCloses(d)
      PROVE  Sound(h', closing', Left)
  <2> DEFINE s == [h EXCEPT !.open = @ \cup {d}]
             t == [h EXCEPT !.open = @ \ {d}]
  <2>1. d \in Pipes
    BY DEF Pipes
  <2>2. h' = NotifyOpened(s, d) \/ h' = NotifyClosed(t, d)
    BY <1>2 DEF DlciOpens, DlciCloses
  <2>3. h.open \cup {d} \in SUBSET Pipes /\ h.open \ {d} \in SUBSET Pipes
    BY <1>0, <2>1 DEF Hosts
  <2>4. /\ s \in Hosts /\ s.inst = h.inst /\ s.pipe = h.pipe /\ s.cb = h.cb
        /\ s.user = h.user /\ s.msgs = h.msgs /\ s.purged = h.purged
    BY <1>0, <2>3 DEF Hosts
  <2>5. /\ t \in Hosts /\ t.inst = h.inst /\ t.pipe = h.pipe /\ t.cb = h.cb
        /\ t.user = h.user /\ t.msgs = h.msgs /\ t.purged = h.purged
    BY <1>0, <2>3 DEF Hosts
  <2> HIDE DEF s, t
  <2>6. Sound(s, closing, Left) /\ Sound(t, closing, Left)
    BY <1>0, <2>4, <2>5, SameSound
  <2> QED BY <1>0, <1>1, <2>1, <2>2, <2>6, NotifySound
<1>3. CASE h' = h
  BY <1>0, <1>1, <1>3
<1>4. h' = h \/ \E d \in Range(Dlcis) : DlciOpens(d) \/ DlciCloses(d)
  BY DEF Events, CmuxDisconnected, PdnActivated,
     ConnectionDown, PollFails, PeerConnected, PeerDisconnected, Delegate
<1> QED BY <1>2, <1>3, <1>4

(* No step breaks the invariant. *)
LEMMA IInvStep == IInv /\ [Next]_vars => IInv'
<1> SUFFICES ASSUME IInv, [Next]_vars PROVE IInv'
  OBVIOUS
<1>0. (Left => Left') /\ PppSound(ppp') /\ event' \in PppEvents
  BY LeftStays, PppStep
<1>1. Sound(h', closing', Left) => Sound(h', closing', Left')
  BY <1>0 DEF Sound
<1>2. /\ Sound(h', closing', Left')
      /\ closing' # NoMsg => closing'.ev = "closed"
  <2>1. CASE HostMessage
    BY <2>1, MessageSound
  <2>2. CASE HostClosed
    BY <1>1, <2>2, ClosedContext DEF HostClosed
  <2>3. CASE UNCHANGED vars
    BY <1>1, <2>3 DEF IInv, vars
  <2>4. CASE Commands \/ stop_work_fn \/ Pdp \/ PppThread \/ Events
    <3>1. closing' = closing
      BY <2>4 DEF Commands, handle_at_cmux, handle_at_xcmuxcld, handle_at_xcmux,
         handle_at_xcmuxurc, PppStartCommand, PppStopCommand, handle_at_cgdata,
         stop_work_fn, Pdp, ActivatePdp, ActivatePdpFails, PppThread, PppTake, PppStart,
         PppStartFails, PppRunning, PppStop, PppStopped, Events, DlciOpens, DlciCloses,
         CmuxDisconnected, PdnActivated, ConnectionDown, PollFails, PeerConnected,
         PeerDisconnected, Delegate, workerVars, pppThread
    <3>2. Sound(h', closing', Left)
      BY <2>4, CommandsSound, PppHostSound, EventsSound
    <3> QED BY <1>1, <3>1, <3>2 DEF IInv
  <2> QED BY <2>1, <2>2, <2>3, <2>4 DEF Next, Messages
<1> QED BY <1>0, <1>2 DEF IInv

(* One context on the UART. *)
LEMMA InitIInv == Init => IInv
<1> SUFFICES ASSUME Init PROVE IInv
  OBVIOUS
<1> DEFINE c == Ctxs[1]
           pipe == [x \in Range(Ctxs) |-> IF x = c THEN Uart ELSE NULL]
           cb == [p \in Pipes |-> IF p = Uart THEN "at" ELSE "null"]
           user == [p \in Pipes |-> IF p = Uart THEN c ELSE NULL]
<1>1. c \in Addrs
  BY Names
<1>2. /\ pipe \in [Addrs -> Pipes \cup {NULL, Deadbeef}] /\ cb \in [Pipes -> Callbacks]
      /\ user \in [Pipes -> Addrs \cup {NULL}]
  BY <1>1, Names DEF Addrs, Callbacks
<1>3. h = [inst |-> <<c>>, pipe |-> pipe, cb |-> cb, user |-> user,
           open |-> {Uart}, msgs |-> <<>>, lock |-> {}, uart_pipe |-> FALSE,
           at_channel |-> 1, urc_channel |-> 0, purged |-> FALSE]
  BY DEF Init
<1>4. /\ pipe[c] = Uart /\ cb[Uart] = "at" /\ user[Uart] = c
      /\ \A x \in Addrs : pipe[x] # Deadbeef
      /\ \A p \in Pipes : cb[p] = "at" => p = Uart
  BY <1>1, Names DEF Addrs
<1> HIDE DEF c, pipe, cb, user
<1>5. /\ <<c>> \in Seq(Addrs) /\ <<>> \in Seq(Msgs)
      /\ {Uart} \in SUBSET Pipes /\ {} \in SUBSET Addrs
      /\ Len(<<>>) = 0 /\ 0 \in 0..Len(Dlcis)
  BY <1>1, Names
<1>6. /\ h \in Hosts /\ h.inst = <<c>> /\ h.pipe = pipe /\ h.cb = cb /\ h.user = user
      /\ h.msgs = <<>>
  BY <1>2, <1>3, <1>5 DEF Hosts
<1>7. <<c>> # <<>> /\ IsInjective(<<c>>) /\ c \in Range(<<c>>)
  BY DEF IsInjective, Range
<1>8. Listed(h)
  BY <1>6, <1>7, ContextsAssumption DEF Listed
<1>9. closing = NoMsg
  BY DEF Init
<1>10. ClosingInv(h, closing)
  BY <1>4, <1>6, <1>9 DEF ClosingInv
<1>11. Tracked(h, closing)
  BY <1>1, <1>4, <1>6, <1>7 DEF Tracked, TrackedPipe, Stale
<1>12. Sound(h, closing, Left)
  BY <1>6, <1>8, <1>10, <1>11 DEF Sound
<1>13. PppSound(ppp) /\ event \in PppEvents
  <2>1. ppp = [state |-> "STOPPED", pipe |-> NULL, mod |-> NULL, keep |-> FALSE,
               detach |-> FALSE, auto |-> FALSE, monitor |-> FALSE, peer |-> FALSE,
               queue |-> <<>>]
    BY DEF Init
  <2>2. <<>> \in Seq(PppEvents) /\ Len(<<>>) = 0
    OBVIOUS
  <2>3. ppp \in Ppps /\ ppp.queue = <<>>
    BY <2>1, <2>2 DEF Ppps
  <2>4. event \in PppEvents
    BY DEF Init, PppEvents
  <2> QED BY <2>2, <2>3, <2>4, ContextsAssumption DEF PppSound
<1> QED BY <1>9, <1>12, <1>13 DEF IInv

-----------------------------------------------------------------------------
(* The theorems. *)

(* Every pipe's callback is followed. *)
THEOREM IInvInvariant == Spec => []IInv
BY InitIInv, IInvStep, PTL DEF Spec

(* instance_list never gets empty and never holds a context twice, though   *)
(* contexts are created, destroyed and moved by messages, commands and the  *)
(* end of CMUX; sm_at_host_msgq and the queue of PPP stay within their size.*)
THEOREM TypeCorrect == Spec => []TypeOK
<1>1. IInv => TypeOK
  <2> SUFFICES ASSUME IInv PROVE TypeOK
    OBVIOUS
  <2>1. h \in Hosts /\ Listed(h) /\ ppp \in Ppps /\ Len(ppp.queue) <= QueueLen
    BY DEF IInv, Sound, PppSound
  <2>2. /\ h.inst \in Seq(Range(Ctxs)) /\ h.pipe \in [Addrs -> Pipes \cup {NULL, Deadbeef}]
        /\ h.cb \in [Pipes -> Callbacks] /\ h.user \in [Pipes -> Range(Ctxs) \cup {NULL}]
    BY <2>1 DEF Hosts, Addrs
  <2>3. \A c \in Range(h.inst) : c \in Addrs
    BY <2>2, RangeOfSeq DEF Addrs
  <2>4. ppp.pipe \in Pipes \cup {NULL} /\ ppp.mod \in Pipes \cup {NULL}
    BY <2>1 DEF Ppps
  <2>5. \A p \in Pipes : /\ h.cb[p] \in {"none", "null", "at", "cmux", "ppp"}
                         /\ h.user[p] \in Range(Ctxs) \cup {NULL}
    BY <2>2 DEF Callbacks
  <2> QED BY <2>1, <2>2, <2>3, <2>4, <2>5 DEF TypeOK, Listed
<1> QED BY <1>1, IInvInvariant, PTL

(* No pipe is left for good with a context that was destroyed, in whatever  *)
(* order channels open and close, CMUX and PPP start and stop, and their    *)
(* messages are handled, unless the message queue was purged or a context   *)
(* was given to another pipe before its close was handled.                  *)
THEOREM HandlersCorrect == Spec => []HandlersLive
<1>1. IInv => HandlersLive
  <2> SUFFICES ASSUME IInv, ~h.purged, "callback left" \notin mishaps,
                      NEW p \in Pipes, h.cb[p] = "at"
               PROVE  \/ sm_at_ctx_check(h, h.user[p])
                      \/ \E m \in Range(h.msgs) : m.ev = "closed" /\ m.pipe = p
    BY DEF HandlersLive
  <2>1. h \in Hosts /\ TrackedPipe(h, closing, p) /\ ClosingInv(h, closing)
    BY DEF IInv, Sound, Left, Tracked
  <2>2. CASE CloseQueued(h, p)
    <3>1. h.msgs \in Seq(Msgs)
      BY <2>1 DEF Hosts
    <3> DEFINE m == [ev |-> "closed", ctx |-> h.user[p], pipe |-> p]
    <3>2. PICK i \in 1..Len(h.msgs) : h.msgs[i] = m
      BY <2>2 DEF CloseQueued
    <3>3. m.ev = "closed" /\ m.pipe = p
      OBVIOUS
    <3> HIDE DEF m
    <3>4. DOMAIN h.msgs = 1..Len(h.msgs)
      BY <3>1, LenProperties
    <3>5. m \in Range(h.msgs)
      BY <3>2, <3>4 DEF Range
    <3> QED BY <3>3, <3>5
  <2>3. CASE ~CloseQueued(h, p)
    <3>1. h.user[p] \in Range(h.inst) /\ h.user[p] \in Addrs
      BY <2>1, <2>3 DEF TrackedPipe, ClosingInv
    <3> QED BY <3>1, Names DEF sm_at_ctx_check
  <2> QED BY <2>2, <2>3
<1> QED BY <1>1, IInvInvariant, PTL
=============================================================================
