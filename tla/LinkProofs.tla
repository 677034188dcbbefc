----------------------------- MODULE LinkProofs -----------------------------
(***************************************************************************)
(* Proofs about Link: for any number of commands and of disturbances and   *)
(* any length of the queues, every variable keeps its type, a command gets *)
(* no response but its own unless an earlier one failed or something was   *)
(* lost or sent twice, and the two ends agree on the state of the link.    *)
(*                                                                         *)
(* The invariant has a part for the modem's driver, one for the host's     *)
(* library, and one for what is on its way between them.                   *)
(***************************************************************************)
EXTENDS Link, SequenceTheorems, TLAPS

Units == Cmds \cup {Urc, Err}

Drivers ==
    [dtr_state : BOOLEAN, tx_buf : Units \cup {None}, tx_in_progress : BOOLEAN,
     app_rx_enabled : BOOLEAN, rx_active : BOOLEAN, pm_suspended : BOOLEAN,
     ri : BOOLEAN, sync : BOOLEAN, on : BOOLEAN, rx : {"on", "stopping", "off"},
     tx : Units \cup {None}, abort : BOOLEAN, out : Seq(Units), busy : BOOLEAN,
     pipe : {"open", "closed", "failed"}]

(* What the driver sends or has stored is the application's first unit; of  *)
(* an application that is not busy, or has just looked, it has none (a is   *)
(* apiPc).                                                                  *)
TxInv(s, a) ==
    /\ (~s.busy \/ a # "idle") => s.tx = None /\ s.tx_buf = None
    /\ a # "idle" => s.busy
    /\ (s.tx # None \/ s.tx_buf # None \/ a # "idle") => s.out # <<>>
    /\ s.tx # None => s.tx = Head(s.out)
    /\ s.tx_buf # None => s.tx_buf = Head(s.out)
    /\ s.tx_in_progress => s.tx # None
    /\ s.tx_buf # None /\ ~s.tx_in_progress => s.tx = None

(* RI is up only while a unit is stored. *)
Loud(s) == s.ri => s.tx_buf # None /\ s.tx = None

(* Unless an edge of RI may be lost, it is up exactly then, and none is     *)
(* stored with DTR asserted.                                                *)
RiInv(s, a) ==
    /\ a = "store" => ~s.dtr_state
    /\ a = "direct" => s.dtr_state
    /\ s.tx_buf # None /\ ~s.tx_in_progress => s.ri /\ ~s.dtr_state
    /\ s.ri => ~s.dtr_state

(* The driver follows DTR, and the power of the UART follows the driver. *)
DtrInv(s, d, w, p) ==
    /\ w \/ s.dtr_state = (d /\ ~s.pm_suspended)
    /\ p = "idle" => s.on = s.dtr_state
    /\ p = "down" => ~s.dtr_state

ModemInv ==
    /\ m \in Drivers /\ dtr \in BOOLEAN /\ work \in BOOLEAN /\ raced \in BOOLEAN
    /\ hpc \in {"idle", "down"} /\ apiPc \in {"idle", "direct", "store"}
    /\ TxInv(m, apiPc) /\ Loud(m) /\ DtrInv(m, dtr, work, hpc)
    /\ ~raced => RiInv(m, apiPc)

-----------------------------------------------------------------------------
(* The driver's operations.                                                 *)

(* None is no unit. *)
LEMMA NoUnit ==
    /\ None \notin Units /\ Cmds \subseteq Units /\ Urc \in Units /\ Err \in Units
    /\ Urc \notin Cmds /\ Err \notin Cmds /\ Cr \notin Cmds /\ Part \notin Cmds
    /\ 0 \notin Cmds
BY LinkAssumption DEF None, Units, Cmds, Err, Cr, Part

(* What an operation on TX leaves alone. *)
SameButTx(s, t) ==
    /\ t.dtr_state = s.dtr_state /\ t.pm_suspended = s.pm_suspended /\ t.on = s.on
    /\ t.out = s.out

(* A callback after tx_complete: the application has nothing left, or sends *)
(* on, or stores its next unit and raises RI.                               *)
LEMMA CallbackTx ==
    ASSUME NEW s \in Drivers, s.tx_buf = None
    PROVE  LET t == user_callback_tx(s)
           IN  /\ t \in Drivers /\ SameButTx(s, t)
               /\ t.tx_in_progress = s.tx_in_progress
               /\ \/ /\ s.out = <<>> /\ ~t.busy /\ t.tx = s.tx /\ t.tx_buf = None
                     /\ t.ri = s.ri
                  \/ /\ s.out # <<>> /\ s.dtr_state /\ t.busy = s.busy /\ t.tx_buf = None
                     /\ t.tx = s.tx \/ t.tx = Head(s.out)
                     /\ t.ri = s.ri
                  \/ /\ s.out # <<>> /\ ~s.dtr_state /\ t.busy = s.busy /\ t.tx = s.tx
                     /\ t.tx_buf = Head(s.out) /\ t.ri
<1> DEFINE t == user_callback_tx(s)
<1>1. s.out # <<>> => Head(s.out) \in Units
  BY DEF Drivers
<1>2. CASE s.out = <<>>
  <2>1. t = [s EXCEPT !.busy = FALSE]
    BY <1>2 DEF user_callback_tx
  <2> QED BY <1>2, <2>1 DEF Drivers, SameButTx
<1>3. CASE s.out # <<>> /\ s.dtr_state
  <2>1. t = s \/ t = [s EXCEPT !.tx = Head(s.out), !.abort = FALSE]
    BY <1>3 DEF user_callback_tx, api_tx, uart_tx
  <2>2. CASE t = s
    BY <1>3, <2>2 DEF SameButTx
  <2>3. CASE t = [s EXCEPT !.tx = Head(s.out), !.abort = FALSE]
    BY <1>1, <1>3, <2>3, ZenonT(30) DEF Drivers, SameButTx
  <2> QED BY <2>1, <2>2, <2>3
<1>4. CASE s.out # <<>> /\ ~s.dtr_state
  <2>1. t = [s EXCEPT !.tx_buf = Head(s.out), !.ri = TRUE]
    BY <1>4 DEF user_callback_tx, api_tx
  <2> QED BY <1>1, <1>4, <2>1 DEF Drivers, SameButTx
<1> QED BY <1>2, <1>3, <1>4

(* RX is none of TX's business. *)
SameButRx(s, t) ==
    /\ SameButTx(s, t) /\ t.tx = s.tx /\ t.tx_buf = s.tx_buf /\ t.busy = s.busy
    /\ t.tx_in_progress = s.tx_in_progress /\ t.ri = s.ri

LEMMA RxOps ==
    ASSUME NEW s \in Drivers, NEW x
    PROVE  /\ uart_rx_enable(s) \in Drivers /\ SameButRx(s, uart_rx_enable(s))
           /\ activate_rx(s, x) \in Drivers /\ SameButRx(s, activate_rx(s, x))
           /\ deactivate_rx(s) \in Drivers /\ SameButRx(s, deactivate_rx(s))
<1>0. uart_rx_enable(s) \in Drivers /\ SameButRx(s, uart_rx_enable(s))
  BY DEF uart_rx_enable, Drivers, SameButRx, SameButTx
<1>1. activate_rx(s, x) \in Drivers /\ SameButRx(s, activate_rx(s, x))
  <2>1. activate_rx(s, x) = s \/ activate_rx(s, x) = uart_rx_enable(s)
    BY DEF activate_rx, api_rx_buf_rsp
  <2>2. SameButRx(s, s)
    BY DEF SameButRx, SameButTx
  <2> QED BY <1>0, <2>1, <2>2
<1>2. deactivate_rx(s) \in Drivers /\ SameButRx(s, deactivate_rx(s))
  BY DEF deactivate_rx, Drivers, SameButRx, SameButTx
<1> QED BY <1>0, <1>1, <1>2

(* TX keeps its invariant over what it has nothing to do with. *)
LEMMA TxKept ==
    ASSUME NEW s, NEW t, NEW a, SameButRx(s, t)
    PROVE  /\ TxInv(s, a) => TxInv(t, a)
           /\ RiInv(s, a) => RiInv(t, a)
           /\ Loud(s) => Loud(t)
BY DEF SameButRx, SameButTx, TxInv, RiInv, Loud

(* tx_complete, for a transmission that the UART does not know of. *)
LEMMA Complete ==
    ASSUME NEW s \in Drivers
    PROVE  LET t == tx_complete(s)
           IN  /\ t \in Drivers /\ SameButTx(s, t) /\ t.tx_buf = None /\ ~t.tx_in_progress
               /\ t.tx = s.tx /\ t.busy = s.busy /\ t.ri = s.ri
BY DEF tx_complete, Drivers, SameButTx

(* DTR is asserted: what was stored is sent, and RI goes down. *)
LEMMA Up ==
    ASSUME NEW s \in Drivers, NEW a, s.dtr_state, TxInv(s, a), NEW y
    PROVE  LET t == DtrUp(s, y)
           IN  /\ t \in Drivers /\ TxInv(t, a) /\ t.on /\ t.dtr_state
               /\ t.pm_suspended = s.pm_suspended /\ t.out = s.out /\ ~t.ri
               /\ t.tx_buf # None => t.tx_in_progress
<1> DEFINE u == [s EXCEPT !.on = TRUE]
           v == activate_rx(u, y)
           w == activate_tx(v)
<1>1. /\ u \in Drivers /\ u.on /\ u.dtr_state /\ u.pm_suspended = s.pm_suspended
      /\ u.out = s.out /\ u.tx = s.tx /\ u.tx_buf = s.tx_buf /\ u.busy = s.busy
      /\ u.tx_in_progress = s.tx_in_progress
  BY DEF Drivers
<1>2. TxInv(u, a)
  BY <1>1 DEF TxInv
<1> HIDE DEF u
<1>3. v \in Drivers /\ SameButRx(u, v)
  BY <1>1, RxOps
<1>4. TxInv(v, a) /\ v.on /\ v.dtr_state /\ v.pm_suspended = s.pm_suspended /\ v.out = s.out
  BY <1>1, <1>2, <1>3, TxKept DEF SameButRx, SameButTx
<1> HIDE DEF v
<1>5. /\ w \in Drivers /\ SameButTx(v, w) /\ TxInv(w, a)
      /\ w.tx_buf # None => w.tx_in_progress
  <2>1. CASE v.tx_buf = None
    <3>1. w = v
      BY <2>1 DEF activate_tx
    <3> QED BY <1>3, <1>4, <2>1, <3>1 DEF SameButTx
  <2>2. CASE v.tx_buf # None /\ v.tx = None
    <3>1. w = [v EXCEPT !.tx_in_progress = TRUE, !.tx = v.tx_buf, !.abort = FALSE]
      <4>1. w = uart_tx([v EXCEPT !.tx_in_progress = TRUE], v.tx_buf)
        BY <1>4, <2>2 DEF activate_tx, CanTx
      <4> QED BY <1>3, <4>1 DEF uart_tx, Drivers
    <3>2. v.tx_buf \in Units
      BY <1>3, <2>2 DEF Drivers
    <3>3. /\ w \in Drivers /\ SameButTx(v, w) /\ w.tx_in_progress /\ w.tx = v.tx_buf
          /\ w.tx_buf = v.tx_buf /\ w.busy = v.busy
      BY <1>3, <3>1, <3>2, ZenonT(30) DEF Drivers, SameButTx
    <3> QED BY <1>4, <2>2, <3>3 DEF TxInv, SameButTx
  <2>3. CASE v.tx_buf # None /\ v.tx # None
    <3> DEFINE x == tx_complete(v)
    <3>1. w = user_callback_tx(x)
      BY <2>3 DEF activate_tx, CanTx
    <3>2. /\ x \in Drivers /\ SameButTx(v, x) /\ x.tx_buf = None /\ ~x.tx_in_progress
          /\ x.tx = v.tx /\ x.busy = v.busy
      BY <1>3, Complete
    <3> HIDE DEF x
    <3>3. a = "idle" /\ v.busy /\ v.out # <<>> /\ v.tx = Head(v.out)
      BY <1>4, <2>3 DEF TxInv
    <3>4. x.out # <<>> /\ x.dtr_state
      BY <1>4, <3>2, <3>3 DEF SameButTx
    <3>5. /\ w \in Drivers /\ SameButTx(x, w) /\ w.tx_in_progress = x.tx_in_progress
          /\ w.busy = x.busy /\ w.tx_buf = None
          /\ w.tx = x.tx \/ w.tx = Head(x.out)
      BY <3>1, <3>2, <3>4, CallbackTx
    <3> QED BY <2>3, <3>2, <3>3, <3>5 DEF TxInv, SameButTx
  <2> QED BY <2>1, <2>2, <2>3
<1> HIDE DEF w
<1>6. DtrUp(s, y) = [w EXCEPT !.ri = FALSE]
  BY DEF DtrUp, ri_stop, u, v, w
<1> DEFINE t == [w EXCEPT !.ri = FALSE]
<1>7. /\ t \in Drivers /\ SameButTx(w, t) /\ ~t.ri /\ t.tx = w.tx /\ t.tx_buf = w.tx_buf
      /\ t.busy = w.busy /\ t.tx_in_progress = w.tx_in_progress
  BY <1>5 DEF Drivers, SameButTx
<1> HIDE DEF t
<1>8. TxInv(t, a)
  BY <1>5, <1>7 DEF TxInv, SameButTx
<1> QED BY <1>4, <1>5, <1>6, <1>7, <1>8 DEF SameButTx, t

(* DTR is deasserted: a unit that waits is stored again, and RI raised. *)
LEMMA Down ==
    ASSUME NEW s \in Drivers, NEW a, ~s.dtr_state, TxInv(s, a), Loud(s)
    PROVE  LET t == DtrDown(s)
           IN  /\ t \in Drivers /\ TxInv(t, a) /\ Loud(t) /\ SameButTx(s, t)
               /\ (s.tx_buf # None => s.tx_in_progress) /\ ~s.ri =>
                    (t.tx_buf # None => t.tx_in_progress) /\ ~t.ri
<1> DEFINE u == deactivate_tx(s)
           v == [u EXCEPT !.sync = FALSE]
<1>1. /\ u \in Drivers /\ SameButTx(s, u) /\ TxInv(u, a) /\ Loud(u)
      /\ (s.tx_buf # None => s.tx_in_progress) /\ ~s.ri =>
           (u.tx_buf # None => u.tx_in_progress) /\ ~u.ri
  <2>1. CASE s.tx_buf # None /\ ~s.tx_in_progress
    <3> DEFINE x == tx_complete(s)
    <3>1. u = user_callback_tx(x)
      BY <2>1 DEF deactivate_tx
    <3>2. /\ x \in Drivers /\ SameButTx(s, x) /\ x.tx_buf = None /\ ~x.tx_in_progress
          /\ x.tx = s.tx /\ x.busy = s.busy
      BY Complete
    <3> HIDE DEF x
    <3>3. a = "idle" /\ s.busy /\ s.out # <<>> /\ s.tx_buf = Head(s.out)
      BY <2>1 DEF TxInv
    <3>4. /\ u \in Drivers /\ SameButTx(x, u) /\ u.tx_in_progress = x.tx_in_progress
          /\ u.busy = x.busy /\ u.tx_buf = Head(x.out) /\ u.tx = x.tx
      BY <3>1, <3>2, <3>3, CallbackTx, ZenonT(30) DEF SameButTx
    <3>5. Head(x.out) # None
      <4>1. x.out \in Seq(Units) /\ x.out # <<>>
        BY <3>2, <3>3 DEF Drivers, SameButTx
      <4> QED BY <4>1, NoUnit
    <3> QED BY <2>1, <3>2, <3>3, <3>4, <3>5 DEF TxInv, Loud, SameButTx
  <2>2. CASE ~(s.tx_buf # None /\ ~s.tx_in_progress)
    <3>1. u = [s EXCEPT !.abort = s.tx # None]
      BY <2>2 DEF deactivate_tx
    <3>2. (s.tx # None) \in BOOLEAN
      OBVIOUS
    <3>3. u \in Drivers /\ SameButRx(s, u)
      BY <3>1, <3>2 DEF Drivers, SameButRx, SameButTx
    <3> QED BY <3>3, TxKept DEF SameButRx
  <2> QED BY <2>1, <2>2
<1> HIDE DEF u
<1>2. v \in Drivers /\ SameButRx(u, v)
  BY <1>1 DEF Drivers, SameButRx, SameButTx
<1> HIDE DEF v
<1> DEFINE t == deactivate_rx(v)
<1>3. t \in Drivers /\ SameButRx(v, t)
  BY <1>2, RxOps
<1>4. DtrDown(s) = t
  BY DEF DtrDown, u, v
<1> HIDE DEF t
<1>5. TxInv(t, a) /\ Loud(t)
  BY <1>1, <1>2, <1>3, TxKept
<1> QED BY <1>1, <1>2, <1>3, <1>4, <1>5 DEF SameButRx, SameButTx

-----------------------------------------------------------------------------
(* The driver's steps.                                                      *)

(* dtr_work_handler, for what pm_suspended is set to. *)
LEMMA HandleKeeps ==
    ASSUME ModemInv, NEW s \in Drivers, s.dtr_state = m.dtr_state, s.on = m.on, s.out = m.out,
           TxInv(s, apiPc), Loud(s), ~raced => RiInv(s, apiPc), NEW y, Handle(s, y),
           work' \in BOOLEAN
    PROVE  ModemInv' /\ m'.out = m.out
<1> DEFINE asserted == dtr /\ ~s.pm_suspended
           t == [s EXCEPT !.dtr_state = asserted]
<1>0. /\ asserted \in BOOLEAN /\ hpc = "idle" /\ apiPc' = apiPc /\ dtr' = dtr
      /\ apiPc \in {"idle", "direct", "store"} /\ dtr \in BOOLEAN /\ raced \in BOOLEAN
      /\ m.on = m.dtr_state
  BY DEF Handle, ModemInv, DtrInv
<1>1. raced' \in BOOLEAN /\ (~raced' => ~raced)
  BY <1>0 DEF Handle
<1>2. CASE s.dtr_state = asserted
  <2>1. m' = s /\ hpc' = "idle"
    BY <1>0, <1>2 DEF Handle
  <2>2. DtrInv(s, dtr, work', "idle")
    BY <1>0, <1>2 DEF DtrInv
  <2> QED BY <1>0, <1>1, <2>1, <2>2 DEF ModemInv
<1>3. CASE s.dtr_state # asserted
  <2>1. raced' \/ apiPc = "idle"
    BY <1>3 DEF Handle
  <2>2. /\ t \in Drivers /\ t.dtr_state = asserted /\ t.pm_suspended = s.pm_suspended
        /\ t.on = s.on /\ t.out = s.out /\ t.tx = s.tx /\ t.tx_buf = s.tx_buf
        /\ t.busy = s.busy /\ t.tx_in_progress = s.tx_in_progress /\ t.ri = s.ri
    BY <1>0 DEF Drivers
  <2>3. /\ m' = IF asserted THEN DtrUp(t, y) ELSE DtrDown(t)
        /\ hpc' = IF asserted THEN "idle" ELSE "down"
    BY <1>3 DEF Handle
  <2>4. s.dtr_state \in BOOLEAN
    BY DEF Drivers
  <2> HIDE DEF t
  <2>5. TxInv(t, apiPc) /\ Loud(t)
    BY <2>2 DEF TxInv, Loud
  <2>6. CASE asserted
    <3>1. m' = DtrUp(t, y) /\ hpc' = "idle" /\ t.dtr_state
      BY <2>2, <2>3, <2>6
    <3>2. /\ m' \in Drivers /\ TxInv(m', apiPc) /\ m'.on /\ m'.dtr_state /\ ~m'.ri
          /\ m'.pm_suspended = t.pm_suspended /\ m'.out = t.out
          /\ m'.tx_buf # None => m'.tx_in_progress
      BY <2>2, <2>5, <3>1, Up
    <3>3. m'.on = m'.dtr_state /\ m'.dtr_state = (dtr /\ ~m'.pm_suspended)
      <4>1. m'.on \in BOOLEAN /\ m'.dtr_state \in BOOLEAN
        BY <3>2 DEF Drivers
      <4> QED BY <2>2, <2>6, <3>2, <4>1
    <3>4. DtrInv(m', dtr', work', hpc')
      BY <1>0, <3>1, <3>3 DEF DtrInv
    <3>5. ~raced' => RiInv(m', apiPc')
      BY <1>0, <2>1, <3>2 DEF RiInv
    <3> QED BY <1>0, <1>1, <2>2, <3>1, <3>2, <3>4, <3>5 DEF ModemInv, Loud
  <2>7. CASE ~asserted
    <3>1. m' = DtrDown(t) /\ hpc' = "down" /\ ~t.dtr_state /\ s.dtr_state
      BY <1>0, <1>3, <2>2, <2>3, <2>7, <2>4
    <3>2. /\ m' \in Drivers /\ TxInv(m', apiPc) /\ Loud(m') /\ SameButTx(t, m')
          /\ (t.tx_buf # None => t.tx_in_progress) /\ ~t.ri =>
               (m'.tx_buf # None => m'.tx_in_progress) /\ ~m'.ri
      BY <2>2, <2>5, <3>1, Down
    <3>3. m'.dtr_state = (dtr /\ ~m'.pm_suspended) /\ ~m'.dtr_state
      BY <2>2, <2>7, <3>1, <3>2 DEF SameButTx
    <3>4. DtrInv(m', dtr', work', hpc')
      BY <1>0, <3>1, <3>3 DEF DtrInv
    <3>5. ~raced' => RiInv(m', apiPc')
      <4>1. ~raced' => (s.tx_buf # None => s.tx_in_progress) /\ ~s.ri
        BY <1>1, <3>1 DEF RiInv
      <4> QED BY <1>0, <2>1, <2>2, <3>2, <4>1 DEF RiInv
    <3> QED BY <1>0, <1>1, <2>2, <3>1, <3>2, <3>4, <3>5 DEF ModemInv, SameButTx
  <2> QED BY <2>6, <2>7
<1> QED BY <1>2, <1>3

(* The end of a transmission, of which q is left. *)
LEMMA TxEnds ==
    ASSUME ModemInv, m.tx # None, NEW q \in Seq(Units),
           m' = user_callback_tx(tx_complete([m EXCEPT !.tx = None, !.abort = FALSE,
                                                       !.out = q])),
           UNCHANGED <<dtr, work, hpc, apiPc>>,
           raced' = raced \/ raced' = (raced /\ m'.out # <<>>)
    PROVE  ModemInv' /\ m'.out = q
<1> DEFINE s == [m EXCEPT !.tx = None, !.abort = FALSE, !.out = q]
           x == tx_complete(s)
<1>0. m \in Drivers /\ TxInv(m, apiPc) /\ Loud(m) /\ DtrInv(m, dtr, work, hpc)
  BY DEF ModemInv
<1>1. apiPc = "idle" /\ m.busy /\ ~m.ri
  BY <1>0 DEF TxInv, Loud, ModemInv
<1>2. /\ s \in Drivers /\ s.out = q /\ s.tx = None /\ s.busy = m.busy /\ s.ri = m.ri
      /\ s.dtr_state = m.dtr_state /\ s.pm_suspended = m.pm_suspended /\ s.on = m.on
  BY <1>0 DEF Drivers
<1> HIDE DEF s
<1>3. /\ x \in Drivers /\ SameButTx(s, x) /\ x.tx_buf = None /\ ~x.tx_in_progress
      /\ x.tx = s.tx /\ x.busy = s.busy /\ x.ri = s.ri
  BY <1>2, Complete
<1>4. m' = user_callback_tx(x)
  BY DEF s
<1> HIDE DEF x
<1>5. /\ m' \in Drivers /\ SameButTx(x, m') /\ m'.tx_in_progress = x.tx_in_progress
      /\ \/ /\ x.out = <<>> /\ ~m'.busy /\ m'.tx = x.tx /\ m'.tx_buf = None /\ m'.ri = x.ri
         \/ /\ x.out # <<>> /\ x.dtr_state /\ m'.busy = x.busy /\ m'.tx_buf = None
            /\ m'.tx = x.tx \/ m'.tx = Head(x.out)
            /\ m'.ri = x.ri
         \/ /\ x.out # <<>> /\ ~x.dtr_state /\ m'.busy = x.busy /\ m'.tx = x.tx
            /\ m'.tx_buf = Head(x.out) /\ m'.ri
  BY <1>3, <1>4, CallbackTx
<1>6. TxInv(m', apiPc)
  BY <1>1, <1>2, <1>3, <1>5 DEF TxInv, SameButTx
<1>7. (~raced => RiInv(m', apiPc')) /\ Loud(m')
  <2>1. x.out # <<>> => Head(x.out) # None
    <3>1. x.out \in Seq(Units)
      BY <1>3 DEF Drivers
    <3> QED BY <3>1, NoUnit
  <2> QED BY <1>1, <1>2, <1>3, <1>5, <2>1 DEF RiInv, Loud, SameButTx
<1>9. m'.out = <<>> => RiInv(m', apiPc')
  BY <1>1, <1>2, <1>3, <1>5 DEF RiInv, SameButTx
<1>10. raced' \in BOOLEAN /\ (~raced' => ~raced \/ m'.out = <<>>)
  BY DEF ModemInv
<1>8. DtrInv(m', dtr, work, hpc)
  BY <1>0, <1>2, <1>3, <1>5 DEF DtrInv, SameButTx
<1> QED BY <1>2, <1>3, <1>5, <1>6, <1>7, <1>8, <1>9, <1>10 DEF ModemInv, SameButTx

(* The other calls of the application and events of the UART. *)
LEMMA CallKeeps ==
    ASSUME ModemInv, NEW b \in BOOLEAN,
           \/ ApiTx \/ PowerOff(b) \/ RxDisabled \/ api_rx_enable \/ api_rx_disable
    PROVE  ModemInv' /\ m'.out = m.out
<1>0. /\ m \in Drivers /\ TxInv(m, apiPc) /\ Loud(m) /\ DtrInv(m, dtr, work, hpc)
      /\ ~raced => RiInv(m, apiPc)
  BY DEF ModemInv
<1>1. CASE ApiTx
  <2>1. m.out # <<>> /\ m.tx = None /\ m.tx_buf = None /\ ~m.tx_in_progress /\ m.busy
    BY <1>0, <1>1 DEF ApiTx, TxInv
  <2>2. Head(m.out) \in Units /\ Head(m.out) # None
    <3>1. m.out \in Seq(Units)
      BY <1>0 DEF Drivers
    <3> QED BY <2>1, <3>1, NoUnit
  <2>3. /\ apiPc' = "idle" /\ UNCHANGED <<dtr, work, hpc, raced>>
        /\ \/ apiPc = "store" /\ m' = [m EXCEPT !.tx_buf = Head(m.out), !.ri = TRUE]
           \/ apiPc = "direct" /\ m' = [m EXCEPT !.tx = Head(m.out), !.abort = FALSE]
           \/ apiPc = "direct" /\ m' = [m EXCEPT !.busy = FALSE]
    <3>1. apiPc \in {"direct", "store"}
      BY <1>1 DEF ApiTx, ModemInv
    <3> QED BY <1>1, <3>1 DEF ApiTx, uart_tx
  <2>4. /\ m' \in Drivers /\ SameButTx(m, m') /\ ~m'.tx_in_progress
        /\ \/ /\ apiPc = "store" /\ m'.busy /\ m'.tx = None /\ m'.ri
              /\ m'.tx_buf = Head(m.out)
           \/ /\ apiPc = "direct" /\ m'.busy /\ m'.tx = Head(m.out) /\ m'.ri = m.ri
              /\ m'.tx_buf = None
           \/ /\ apiPc = "direct" /\ m'.tx = None /\ m'.ri = m.ri /\ m'.tx_buf = None
    <3>1. CASE apiPc = "store" /\ m' = [m EXCEPT !.tx_buf = Head(m.out), !.ri = TRUE]
      BY <1>0, <2>1, <2>2, <3>1 DEF Drivers, SameButTx
    <3>2. CASE apiPc = "direct" /\ m' = [m EXCEPT !.tx = Head(m.out), !.abort = FALSE]
      BY <1>0, <2>1, <2>2, <3>2 DEF Drivers, SameButTx
    <3>3. CASE apiPc = "direct" /\ m' = [m EXCEPT !.busy = FALSE]
      BY <1>0, <2>1, <3>3 DEF Drivers, SameButTx
    <3> QED BY <2>3, <3>1, <3>2, <3>3
  <2>5. TxInv(m', "idle")
    BY <2>1, <2>2, <2>4 DEF TxInv, SameButTx
  <2>6. (~raced => RiInv(m', "idle")) /\ Loud(m')
    BY <1>0, <2>1, <2>2, <2>4 DEF RiInv, Loud, SameButTx
  <2>7. DtrInv(m', dtr, work, hpc)
    BY <1>0, <2>4 DEF DtrInv, SameButTx
  <2> QED BY <2>3, <2>4, <2>5, <2>6, <2>7 DEF ModemInv, SameButTx
<1>2. CASE PowerOff(b)
  <2>1. /\ hpc = "down" /\ hpc' = "idle" /\ m' = [m EXCEPT !.on = FALSE, !.sync = FALSE]
        /\ UNCHANGED <<dtr, work, apiPc, raced>>
    BY <1>2 DEF PowerOff
  <2>2. /\ m' \in Drivers /\ m'.on = FALSE /\ m'.dtr_state = m.dtr_state
        /\ m'.pm_suspended = m.pm_suspended /\ m'.out = m.out
        /\ m'.tx = m.tx /\ m'.tx_buf = m.tx_buf /\ m'.busy = m.busy
        /\ m'.tx_in_progress = m.tx_in_progress /\ m'.ri = m.ri
    BY <1>0, <2>1 DEF Drivers
  <2>3. TxInv(m', apiPc) /\ (~raced => RiInv(m', apiPc)) /\ Loud(m')
    BY <1>0, <2>2 DEF TxInv, RiInv, Loud
  <2>4. m.dtr_state = FALSE
    <3>1. m.dtr_state \in BOOLEAN /\ ~m.dtr_state
      BY <1>0, <2>1 DEF Drivers, DtrInv
    <3> QED BY <3>1
  <2>5. DtrInv(m', dtr, work, "idle")
    BY <1>0, <2>2, <2>4 DEF DtrInv
  <2> QED BY <2>1, <2>2, <2>3, <2>5 DEF ModemInv
<1>3. CASE RxDisabled \/ api_rx_enable \/ api_rx_disable
  <2>1. m' \in Drivers /\ SameButRx(m, m') /\ UNCHANGED <<dtr, work, hpc, apiPc, raced>>
    <3>1. CASE RxDisabled
      <4>1. /\ (m.app_rx_enabled /\ ~m.dtr_state) \in BOOLEAN
            /\ (m.sync \/ ~m.dtr_state) \in BOOLEAN
        OBVIOUS
      <4> QED BY <1>0, <3>1, <4>1, ZenonT(30)
              DEF RxDisabled, Drivers, SameButRx, SameButTx
    <3>2. CASE api_rx_enable
      <4> DEFINE x == IF m.pipe = "closed" THEN "open" ELSE m.pipe
                 z == IF m.pipe = "closed" THEN "failed" ELSE x
                 s == [m EXCEPT !.pipe = x, !.app_rx_enabled = TRUE]
                 t == uart_rx_enable(s)
      <4>1. x \in {"open", "closed", "failed"} /\ z \in {"open", "closed", "failed"}
        BY <1>0 DEF Drivers
      <4>2. s \in Drivers /\ SameButRx(m, s) /\ s.pipe = x
        <5> HIDE DEF x
        <5> QED BY <1>0, <4>1 DEF Drivers, SameButRx, SameButTx
      <4>3. t \in Drivers /\ SameButRx(s, t) /\ t.pipe = x
        <5>1. t \in Drivers /\ SameButRx(s, t)
          <6> HIDE DEF s
          <6> QED BY <4>2, RxOps
        <5>2. t.pipe = s.pipe
          <6> HIDE DEF s
          <6> QED BY <4>2 DEF uart_rx_enable, Drivers
        <5> QED BY <4>2, <5>1, <5>2
      <4>4. m' = s \/ m' = t \/ m' = [t EXCEPT !.pipe = z]
        BY <3>2, <4>2, <4>3 DEF api_rx_enable
      <4>5. UNCHANGED <<dtr, work, hpc, apiPc, raced>>
        BY <3>2 DEF api_rx_enable
      <4> HIDE DEF x, z, s, t
      <4>6. [t EXCEPT !.pipe = z] \in Drivers /\ SameButRx(t, [t EXCEPT !.pipe = z])
        BY <4>1, <4>3 DEF Drivers, SameButRx, SameButTx
      <4> QED BY <4>2, <4>3, <4>4, <4>5, <4>6 DEF SameButRx, SameButTx
    <3>3. CASE api_rx_disable
      <4> DEFINE s == [m EXCEPT !.pipe = "closed"]
      <4>1. m' = s \/ m' = [s EXCEPT !.app_rx_enabled = FALSE] \/ m' = deactivate_rx(s)
        BY <3>3 DEF api_rx_disable
      <4>2. s \in Drivers /\ SameButRx(m, s)
        BY <1>0 DEF Drivers, SameButRx, SameButTx
      <4> HIDE DEF s
      <4>3. CASE m' = deactivate_rx(s)
        <5>1. m' \in Drivers /\ SameButRx(s, m')
          BY <4>2, <4>3, RxOps
        <5> QED BY <3>3, <4>2, <5>1 DEF api_rx_disable, SameButRx, SameButTx
      <4>4. CASE m' = [s EXCEPT !.app_rx_enabled = FALSE]
        <5>1. m' \in Drivers /\ SameButRx(s, m')
          BY <4>2, <4>4 DEF Drivers, SameButRx, SameButTx
        <5> QED BY <3>3, <4>2, <5>1 DEF api_rx_disable, SameButRx, SameButTx
      <4>5. CASE m' = s
        BY <3>3, <4>2, <4>5 DEF api_rx_disable
      <4> QED BY <4>1, <4>3, <4>4, <4>5
    <3> QED BY <1>3, <3>1, <3>2, <3>3
  <2>2. TxInv(m', apiPc) /\ (~raced => RiInv(m', apiPc)) /\ Loud(m')
    BY <1>0, <2>1, TxKept
  <2>3. DtrInv(m', dtr, work, hpc)
    BY <1>0, <2>1 DEF DtrInv, SameButRx, SameButTx
  <2> QED BY <2>1, <2>2, <2>3 DEF ModemInv, SameButRx, SameButTx
<1> QED BY <1>1, <1>2, <1>3

(* A unit of the application. *)
LEMMA WriteKeeps ==
    ASSUME ModemInv, NEW x \in Units, Write(x)
    PROVE  ModemInv' /\ m'.out = Append(m.out, x)
<1>0. /\ m \in Drivers /\ TxInv(m, "idle") /\ DtrInv(m, dtr, work, hpc) /\ apiPc = "idle"
      /\ Loud(m) /\ (~raced => RiInv(m, "idle"))
  BY DEF ModemInv, Write
<1>1. /\ m' = [m EXCEPT !.out = Append(m.out, x), !.busy = TRUE]
      /\ UNCHANGED <<dtr, work, hpc, raced>>
      /\ \/ m.busy /\ apiPc' = "idle"
         \/ ~m.busy /\ m.dtr_state /\ apiPc' = "direct"
         \/ ~m.busy /\ ~m.dtr_state /\ apiPc' = "store"
  BY DEF Write
<1>2. m.out \in Seq(Units) /\ Append(m.out, x) \in Seq(Units) /\ Append(m.out, x) # <<>>
  BY <1>0 DEF Drivers
<1>3. /\ m' \in Drivers /\ m'.out = Append(m.out, x) /\ m'.busy = TRUE
      /\ m'.dtr_state = m.dtr_state /\ m'.pm_suspended = m.pm_suspended /\ m'.on = m.on
      /\ m'.tx = m.tx /\ m'.tx_buf = m.tx_buf /\ m'.tx_in_progress = m.tx_in_progress
      /\ m'.ri = m.ri
  BY <1>0, <1>1, <1>2 DEF Drivers
<1>4. m.out # <<>> => Head(m'.out) = Head(m.out)
  BY <1>2, <1>3
<1>5. TxInv(m', apiPc')
  BY <1>0, <1>1, <1>2, <1>3, <1>4 DEF TxInv
<1>6. (~raced => RiInv(m', apiPc')) /\ Loud(m')
  BY <1>0, <1>1, <1>3 DEF RiInv, TxInv, Loud
<1>7. DtrInv(m', dtr, work, hpc)
  BY <1>0, <1>3 DEF DtrInv
<1> QED BY <1>1, <1>3, <1>5, <1>6, <1>7 DEF ModemInv

(* The driver's own steps keep its invariant, and what is to be sent. *)
LEMMA DriverKeeps ==
    ASSUME ModemInv,
           \/ ModemWork \/ dtr_work_handler("none") \/ PowerOff(TRUE)
           \/ api_rx_enable \/ api_rx_disable
           \/ \E b \in BOOLEAN : dtr_uart_pm_action(b)
    PROVE  ModemInv' /\ m'.out = m.out
<1>0. /\ m \in Drivers /\ TxInv(m, apiPc) /\ Loud(m) /\ (~raced => RiInv(m, apiPc))
      /\ work \in BOOLEAN
  BY DEF ModemInv
<1>1. ASSUME NEW y, dtr_work_handler(y)
      PROVE  ModemInv' /\ m'.out = m.out
  BY <1>0, <1>1, HandleKeeps DEF dtr_work_handler
<1>2. ASSUME NEW b \in BOOLEAN, dtr_uart_pm_action(b)
      PROVE  ModemInv' /\ m'.out = m.out
  <2> DEFINE s == [m EXCEPT !.pm_suspended = b]
  <2>1. Handle(s, "buffer") /\ work' = work
    BY <1>2 DEF dtr_uart_pm_action
  <2>2. /\ s \in Drivers /\ s.dtr_state = m.dtr_state /\ s.on = m.on /\ s.out = m.out
        /\ s.tx = m.tx /\ s.tx_buf = m.tx_buf /\ s.busy = m.busy
        /\ s.tx_in_progress = m.tx_in_progress /\ s.ri = m.ri
    BY <1>0 DEF Drivers
  <2> HIDE DEF s
  <2>3. TxInv(s, apiPc) /\ Loud(s) /\ (~raced => RiInv(s, apiPc))
    BY <1>0, <2>2 DEF TxInv, RiInv, Loud
  <2> QED BY <1>0, <2>1, <2>2, <2>3, HandleKeeps
<1>3. CASE TxAborted
  <2>1. m = [m EXCEPT !.out = m.out] /\ m.out \in Seq(Units)
    BY <1>0 DEF Drivers
  <2>2. [m EXCEPT !.tx = None, !.abort = FALSE]
          = [m EXCEPT !.tx = None, !.abort = FALSE, !.out = m.out]
    BY <1>0 DEF Drivers
  <2> QED BY <1>3, <2>1, <2>2, TxEnds DEF TxAborted
<1>4. ASSUME NEW b \in BOOLEAN, PowerOff(b)
      PROVE  ModemInv' /\ m'.out = m.out
  BY <1>4, CallKeeps
<1> QED BY <1>1, <1>2, <1>3, <1>4, CallKeeps DEF ModemWork

-----------------------------------------------------------------------------
(* The host's library.                                                      *)

Clients ==
    [state : {"OK", "PENDING", "ERROR"}, rsp : Cmds \cup {Open, Err}, at_rsp : BOOLEAN,
     resp : Seq(Units \cup {Part}), tx_en : BOOLEAN, rx_en : BOOLEAN, no_recovery : BOOLEAN,
     tx_done : BOOLEAN, ring : Seq(Cmds \cup {Cr}), tx : Nat, claimed : BOOLEAN,
     abort : BOOLEAN, rx : {"on", "stopping", "starved", "off"},
     rxq : Seq(Units \cup {Part}), disabled : BOOLEAN, active : BOOLEAN,
     automatic : BOOLEAN, pin : BOOLEAN, rx_work : BOOLEAN, en_work : BOOLEAN,
     dis_work : BOOLEAN, fifo : Seq(Units \cup {Part}), missed : BOOLEAN, twice : BOOLEAN,
     cut : BOOLEAN]

(* Recovery is off exactly while DTR is.  A host that is active receives,   *)
(* or learns that it does not; dtr_uart_disable waits for an event that is  *)
(* to come, or has still to be processed (w is wpc).                        *)
RxInv(s, w) ==
    /\ s.no_recovery = ~s.active
    /\ s.rx_en => s.rx # "off"
    /\ w = "rxoff" => s.rx_work \/ (~s.disabled /\ s.rx \in {"stopping", "starved"})
    /\ s.active => s.rx_en \/ s.rx_work \/ s.rx \in {"stopping", "starved"}
    /\ ~s.active /\ w = "idle" => ~s.rx_en

(* The pin and TX follow, but in the middle of dtr_uart_enable (p is pc). *)
PinInv(s, p) ==
    /\ p \in {"pin", "tx"} => s.active
    /\ p = "tx" => s.pin
    /\ p \notin {"pin", "tx"} => s.active = s.pin /\ s.tx_en = s.active

Bounded(s) ==
    /\ Len(s.rxq) <= RxEvents /\ Len(s.fifo) <= HeapLen /\ Len(s.resp) <= RespLen
    /\ Len(s.ring) <= RingLen /\ s.tx <= Len(s.ring)

(* Where the thread is while a command is being sent. *)
Writing == {"pin", "tx", "put", "room"}

HostInv ==
    /\ c \in Clients /\ Bounded(c) /\ RxInv(c, wpc) /\ PinInv(c, pc)
    /\ pc \in {"idle", "wait", "late"} \cup Writing /\ wpc \in {"idle", "rxoff"}

(* What an operation on the link leaves alone: the command, its response,   *)
(* and what was received.  A transmission takes all of the ring.            *)
SameTalk(s, t) ==
    /\ t.state = s.state /\ t.rsp = s.rsp /\ t.at_rsp = s.at_rsp
    /\ t.ring = s.ring /\ t.rxq = s.rxq /\ t.resp = s.resp
    /\ t.missed = s.missed /\ t.twice = s.twice
    /\ t.tx = s.tx \/ t.tx = Len(s.ring)
    /\ t.fifo = s.fifo \/ t.fifo = <<>>

SameLink(s, t) ==
    /\ t.active = s.active /\ t.no_recovery = s.no_recovery /\ t.pin = s.pin
    /\ t.rx_en = s.rx_en /\ t.rx = s.rx /\ t.disabled = s.disabled
    /\ t.rx_work = s.rx_work /\ t.tx_en = s.tx_en

(* An error response does not stay as that of a command that went well. *)
Settled(s, t) ==
    \/ t.rsp = s.rsp /\ (t.state = s.state \/ t.state # "OK")
    \/ t.rsp \in Cmds \cup {Open}
    \/ t.rsp = Err /\ t.state # "OK"

(* It loses nothing that would count, and overruns no queue. *)
LEMMA TalkSame ==
    ASSUME NEW s \in Clients
    PROVE  /\ SameTalk(s, s)
           /\ \A t : SameTalk(s, t) /\ Bounded(s) => Bounded(t)
           /\ \A t, u : SameTalk(s, t) /\ SameTalk(t, u) => SameTalk(s, u)
<1>1. Len(<<>>) = 0 /\ \A q \in Seq(Units \cup {Part}) : Len(q) \in Nat
  OBVIOUS
<1>2. Len(s.ring) \in Nat
  BY DEF Clients
<1>3. ASSUME NEW t, SameTalk(s, t), Bounded(s) PROVE Bounded(t)
  BY <1>1, <1>2, <1>3, ClientAssumption DEF Bounded, SameTalk
<1> QED BY <1>3 DEF SameTalk

LEMMA LinkSame ==
    ASSUME NEW s, NEW t, NEW u, SameLink(s, t), SameLink(t, u)
    PROVE  SameLink(s, u)
BY DEF SameLink

(* The receiver is switched on. *)
LEMMA RxOn ==
    ASSUME NEW s \in Clients
    PROVE  LET t == rx_enable(s)
           IN  /\ t \in Clients /\ SameTalk(s, t)
               /\ t.active = s.active /\ t.no_recovery = s.no_recovery /\ t.pin = s.pin
               /\ t.disabled = s.disabled /\ t.rx_work = s.rx_work /\ t.tx_en = s.tx_en
               /\ t.rx_en = TRUE
               /\ t.rx = IF s.rx = "off" /\ ~s.rx_en THEN "on" ELSE s.rx
<1>1. CASE s.rx_en
  <2>1. rx_enable(s) = s
    BY <1>1 DEF rx_enable
  <2>2. s.rx_en = TRUE
    BY <1>1 DEF Clients
  <2> QED BY <1>1, <2>1, <2>2, TalkSame
<1>2. CASE ~s.rx_en
  <2> DEFINE x == IF s.rx = "off" THEN "on" ELSE s.rx
  <2>1. rx_enable(s) = [s EXCEPT !.rx = x, !.rx_en = TRUE]
    BY <1>2 DEF rx_enable
  <2>2. x \in {"on", "stopping", "starved", "off"}
    BY DEF Clients
  <2>3. x = IF s.rx = "off" /\ ~s.rx_en THEN "on" ELSE s.rx
    BY <1>2
  <2> HIDE DEF x
  <2> QED BY <2>1, <2>2, <2>3 DEF Clients, SameTalk
<1> QED BY <1>1, <1>2

(* dtr_uart_enable, its first part ... *)
LEMMA OnRx ==
    ASSUME NEW s \in Clients
    PROVE  LET t == EnableRx(s)
           IN  /\ t \in Clients /\ SameTalk(s, t)
               /\ t.active = TRUE /\ t.no_recovery = FALSE /\ t.pin = s.pin
               /\ t.disabled = s.disabled /\ t.rx_work = s.rx_work /\ t.tx_en = s.tx_en
               /\ t.rx_en = TRUE
               /\ t.rx = IF s.rx = "off" /\ ~s.rx_en THEN "on" ELSE s.rx
<1> DEFINE u == [s EXCEPT !.active = TRUE, !.no_recovery = FALSE]
<1>1. /\ u \in Clients /\ SameTalk(s, u)
      /\ u.active = TRUE /\ u.no_recovery = FALSE /\ u.pin = s.pin
      /\ u.disabled = s.disabled /\ u.rx_work = s.rx_work /\ u.tx_en = s.tx_en
      /\ u.rx_en = s.rx_en /\ u.rx = s.rx
  BY DEF Clients, SameTalk
<1>2. EnableRx(s) = rx_enable(u)
  BY DEF EnableRx
<1> HIDE DEF u
<1> DEFINE t == rx_enable(u)
<1>3. /\ t \in Clients /\ SameTalk(u, t)
      /\ t.active = u.active /\ t.no_recovery = u.no_recovery /\ t.pin = u.pin
      /\ t.disabled = u.disabled /\ t.rx_work = u.rx_work /\ t.tx_en = u.tx_en
      /\ t.rx_en = TRUE /\ t.rx = IF u.rx = "off" /\ ~u.rx_en THEN "on" ELSE u.rx
  BY <1>1, RxOn
<1> HIDE DEF t
<1>4. SameTalk(s, t)
  BY <1>1, <1>3, TalkSame
<1>5. EnableRx(s) = t
  BY <1>2 DEF t
<1> QED BY <1>1, <1>3, <1>4, <1>5

(* All that is queued is sent, or nothing. *)
LEMMA Started ==
    ASSUME NEW s \in Clients
    PROVE  LET t == tx_start(s) IN t \in Clients /\ SameTalk(s, t) /\ SameLink(s, t)
<1>1. CASE CanSend(s)
  <2>1. tx_start(s) = [s EXCEPT !.tx = Len(s.ring), !.claimed = TRUE]
    BY <1>1 DEF tx_start
  <2>2. Len(s.ring) \in Nat
    BY DEF Clients
  <2> DEFINE t == tx_start(s)
  <2>3. t \in Clients
    BY <2>1, <2>2 DEF Clients
  <2>4. SameTalk(s, t) /\ SameLink(s, t)
    BY <2>1 DEF Clients, SameTalk, SameLink
  <2> QED BY <2>3, <2>4
<1>2. CASE ~CanSend(s)
  <2> DEFINE x == s.claimed /\ ~s.tx_en
  <2>1. tx_start(s) = [s EXCEPT !.claimed = x]
    BY <1>2 DEF tx_start
  <2>2. x \in BOOLEAN
    OBVIOUS
  <2> HIDE DEF x
  <2> QED BY <2>1, <2>2 DEF Clients, SameTalk, SameLink
<1> QED BY <1>1, <1>2

(* ... and its last. *)
LEMMA OnTx ==
    ASSUME NEW s \in Clients
    PROVE  LET t == EnableTx(s)
           IN  /\ t \in Clients /\ SameTalk(s, t)
               /\ t.active = s.active /\ t.no_recovery = s.no_recovery /\ t.pin = s.pin
               /\ t.rx_en = s.rx_en /\ t.rx = s.rx /\ t.disabled = s.disabled
               /\ t.rx_work = s.rx_work /\ t.tx_en = TRUE
<1> DEFINE u == tx_enable(s)
<1>1. /\ u \in Clients /\ SameTalk(s, u)
      /\ u.active = s.active /\ u.no_recovery = s.no_recovery /\ u.pin = s.pin
      /\ u.rx_en = s.rx_en /\ u.rx = s.rx /\ u.disabled = s.disabled
      /\ u.rx_work = s.rx_work /\ u.tx_en = TRUE
  <2>1. CASE s.tx_en
    <3>1. u = s
      BY <2>1 DEF tx_enable
    <3>2. s.tx_en = TRUE
      BY <2>1 DEF Clients
    <3> QED BY <3>1, <3>2, TalkSame
  <2>2. CASE ~s.tx_en
    <3>1. u = [s EXCEPT !.tx_en = TRUE, !.tx_done = TRUE]
      BY <2>2 DEF tx_enable
    <3> QED BY <3>1 DEF Clients, SameTalk
  <2> QED BY <2>1, <2>2
<1>2. EnableTx(s) = u \/ EnableTx(s) = tx_start(u)
  BY DEF EnableTx
<1> HIDE DEF u
<1> DEFINE t == tx_start(u)
<1>3. t \in Clients /\ SameTalk(u, t) /\ SameLink(u, t)
  BY <1>1, Started
<1> HIDE DEF t
<1>4. SameTalk(s, t)
  BY <1>1, <1>3, TalkSame
<1>5. CASE EnableTx(s) = u
  BY <1>1, <1>5
<1>6. CASE EnableTx(s) = t
  BY <1>1, <1>3, <1>4, <1>6 DEF SameLink
<1> QED BY <1>2, <1>5, <1>6 DEF t

(* Nothing changes for the link. *)
LEMMA LinkKept ==
    ASSUME NEW s, NEW t, SameLink(s, t), NEW w, NEW p, NEW q,
           p = q \/ (p \notin {"pin", "tx"} /\ q \notin {"pin", "tx"})
    PROVE  (RxInv(s, w) => RxInv(t, w)) /\ (PinInv(s, p) => PinInv(t, q))
<1>1. RxInv(s, w) => RxInv(t, w)
  BY DEF SameLink, RxInv
<1>2. PinInv(s, p) => PinInv(t, q)
  BY DEF SameLink, PinInv
<1> QED BY <1>1, <1>2

(* DTR is switched off: TX at once, and the receiver asked to stop. *)
LEMMA Off ==
    ASSUME NEW s \in Clients
    PROVE  LET t == dtr_uart_disable(s)
           IN  /\ t \in Clients /\ SameTalk(s, t)
               /\ t.active = FALSE /\ t.no_recovery = TRUE /\ t.pin = FALSE
               /\ t.tx_en = FALSE /\ t.disabled = FALSE
               /\ t.rx_en = s.rx_en /\ t.rx_work = s.rx_work
               /\ t.rx = IF s.rx_en /\ s.rx = "on" THEN "stopping" ELSE s.rx
<1> DEFINE a == [s EXCEPT !.active = FALSE]
           u == tx_disable(a)
           x == IF s.rx_en /\ s.rx = "on" THEN "stopping" ELSE s.rx
           t == [u EXCEPT !.pin = FALSE, !.no_recovery = TRUE, !.disabled = FALSE, !.rx = x]
<1>1. /\ a \in Clients /\ SameTalk(s, a) /\ a.active = FALSE
      /\ a.rx_en = s.rx_en /\ a.rx = s.rx /\ a.rx_work = s.rx_work
  BY DEF Clients, SameTalk
<1> HIDE DEF a
<1>2. /\ u \in Clients /\ SameTalk(a, u) /\ u.active = a.active
      /\ u.rx_en = a.rx_en /\ u.rx = a.rx /\ u.rx_work = a.rx_work /\ u.tx_en = FALSE
  <2>1. CASE ~a.tx_en
    <3>1. u = a /\ a.tx_en = FALSE
      BY <1>1, <2>1 DEF tx_disable, Clients
    <3> QED BY <1>1, <3>1, TalkSame
  <2>2. CASE a.tx_en /\ a.tx_done
    <3>1. u = [a EXCEPT !.tx_en = FALSE, !.tx_done = FALSE]
      BY <2>2 DEF tx_disable
    <3> QED BY <1>1, <3>1 DEF Clients, SameTalk
  <2>3. CASE a.tx_en /\ ~a.tx_done
    <3>1. \/ u = [a EXCEPT !.tx_en = FALSE, !.abort = TRUE]
          \/ u = [a EXCEPT !.tx_en = FALSE, !.abort = FALSE]
      BY <2>3 DEF tx_disable
    <3>2. CASE u = [a EXCEPT !.tx_en = FALSE, !.abort = TRUE]
      <4>1. a \in Clients
        BY <1>1
      <4>2. u \in Clients
        BY <3>2, <4>1 DEF Clients
      <4>3. SameTalk(a, u) /\ u.tx_en = FALSE
        BY <3>2, <4>1 DEF Clients, SameTalk
      <4> QED BY <3>2, <4>1, <4>2, <4>3 DEF Clients
    <3>3. CASE u = [a EXCEPT !.tx_en = FALSE, !.abort = FALSE]
      <4>1. a \in Clients
        BY <1>1
      <4>2. u \in Clients
        BY <3>3, <4>1 DEF Clients
      <4>3. SameTalk(a, u) /\ u.tx_en = FALSE
        BY <3>3, <4>1 DEF Clients, SameTalk
      <4> QED BY <3>3, <4>1, <4>2, <4>3 DEF Clients
    <3> QED BY <3>1, <3>2, <3>3
  <2> QED BY <2>1, <2>2, <2>3
<1> HIDE DEF u
<1>3. dtr_uart_disable(s) = t
  <2>1. u.rx = s.rx
    BY <1>1, <1>2
  <2> QED BY <2>1 DEF dtr_uart_disable, a, u
<1>4. x \in {"on", "stopping", "starved", "off"}
  BY DEF Clients
<1> HIDE DEF x
<1>5. /\ t \in Clients /\ t.active = u.active /\ t.no_recovery = TRUE
      /\ t.pin = FALSE /\ t.tx_en = u.tx_en /\ t.disabled = FALSE /\ t.rx_en = u.rx_en
      /\ t.rx_work = u.rx_work /\ t.rx = x
  BY <1>2, <1>4 DEF Clients
<1>6. SameTalk(u, t)
  BY <1>2 DEF Clients, SameTalk
<1> HIDE DEF t
<1>7. SameTalk(s, t)
  BY <1>1, <1>2, <1>6, TalkSame
<1> QED BY <1>1, <1>2, <1>3, <1>5, <1>7 DEF x

(* The inactivity timer, and the interrupt of RI. *)
LEMMA Timer ==
    ASSUME NEW s \in Clients
    PROVE  /\ reschedule_disable(s) \in Clients /\ SameTalk(s, reschedule_disable(s))
           /\ SameLink(s, reschedule_disable(s))
           /\ gpio_cb_func(s) \in Clients /\ SameTalk(s, gpio_cb_func(s))
           /\ SameLink(s, gpio_cb_func(s))
<1>1. /\ \/ reschedule_disable(s) = [s EXCEPT !.dis_work = TRUE]
         \/ reschedule_disable(s) = [s EXCEPT !.dis_work = FALSE]
      /\ \/ gpio_cb_func(s) = [s EXCEPT !.en_work = TRUE]
         \/ gpio_cb_func(s) = [s EXCEPT !.en_work = FALSE]
  <2>1. /\ reschedule_disable(s)
             = [s EXCEPT !.dis_work = s.dis_work \/ (s.active /\ s.automatic)]
        /\ gpio_cb_func(s) = [s EXCEPT !.en_work = s.en_work \/ (s.automatic /\ ~s.active)]
    BY DEF reschedule_disable, gpio_cb_func
  <2>2. \A x : (x \in BOOLEAN) => x = TRUE \/ x = FALSE
    OBVIOUS
  <2> QED BY <2>1, <2>2, Zenon
<1>2. ASSUME NEW t, t = [s EXCEPT !.dis_work = TRUE] \/ t = [s EXCEPT !.dis_work = FALSE]
      PROVE  t \in Clients /\ SameTalk(s, t) /\ SameLink(s, t)
  <2>1. CASE t = [s EXCEPT !.dis_work = TRUE]
    BY <2>1 DEF Clients, SameTalk, SameLink
  <2>2. CASE t = [s EXCEPT !.dis_work = FALSE]
    BY <2>2 DEF Clients, SameTalk, SameLink
  <2> QED BY <1>2, <2>1, <2>2
<1>3. ASSUME NEW t, t = [s EXCEPT !.en_work = TRUE] \/ t = [s EXCEPT !.en_work = FALSE]
      PROVE  t \in Clients /\ SameTalk(s, t) /\ SameLink(s, t)
  <2>1. CASE t = [s EXCEPT !.en_work = TRUE]
    BY <2>1 DEF Clients, SameTalk, SameLink
  <2>2. CASE t = [s EXCEPT !.en_work = FALSE]
    BY <2>2 DEF Clients, SameTalk, SameLink
  <2> QED BY <1>3, <2>1, <2>2
<1> QED BY <1>1, <1>2, <1>3, Zenon

-----------------------------------------------------------------------------
(* The host's steps that switch the link.                                   *)

LinkSteps ==
    \/ SetPin \/ SwitchTx \/ TimedOut
    \/ PutFull /\ pc' = "room"
    \/ Room /\ CanSend(c)
    \/ sm_at_client_automatic_dtr_uart
    \/ sm_at_client_disable_dtr_uart \/ sm_at_client_enable_dtr_uart
    \/ dtr_uart_enable_work_fn \/ sm_monitor_task \/ ClientRxDisabled
    \/ \E b \in BOOLEAN : RxOff(b)
    \/ Inactive /\ dtr_uart_disable_work_fn

(* Where the thread is, as far as a command is concerned. *)
SamePlace(p, q) == p = q \/ {p, q} \subseteq Writing \/ (p = "wait" /\ q = "late")

(* The link is as it was. *)
LEMMA HostKept ==
    ASSUME HostInv, c' \in Clients, Bounded(c'), SameLink(c, c'), wpc' = wpc,
           pc' \in {"idle", "wait", "late"} \cup Writing,
           pc' = pc \/ (pc \notin {"pin", "tx"} /\ pc' \notin {"pin", "tx"})
    PROVE  HostInv'
<1>1. RxInv(c', wpc) /\ PinInv(c', pc')
  BY LinkKept DEF HostInv
<1> QED BY <1>1 DEF HostInv

(* What is common to those that set one bit or other. *)
LEMMA BitsKeep ==
    ASSUME HostInv,
           \/ TimedOut
           \/ PutFull /\ pc' = "room"
           \/ Room /\ CanSend(c)
           \/ sm_at_client_automatic_dtr_uart
           \/ sm_at_client_disable_dtr_uart \/ sm_at_client_enable_dtr_uart
           \/ sm_monitor_task
    PROVE  /\ c' \in Clients /\ SameTalk(c, c') /\ SameLink(c, c')
           /\ wpc' = wpc /\ SamePlace(pc, pc')
           /\ pc' \in {"idle", "wait", "late"} \cup Writing
           /\ pc' = pc \/ (pc \notin {"pin", "tx"} /\ pc' \notin {"pin", "tx"})
<1>0. c \in Clients /\ Bounded(c) /\ pc \in {"idle", "wait", "late"} \cup Writing
  BY DEF HostInv
<1>1. CASE TimedOut \/ (PutFull /\ pc' = "room")
  <2>1. c' = c /\ wpc' = wpc /\ SamePlace(pc, pc') /\ pc' \in {"room", "late"}
        /\ pc \notin {"pin", "tx"}
    BY <1>1 DEF TimedOut, PutFull, SamePlace, Writing
  <2> QED BY <1>0, <2>1 DEF SameTalk, SameLink, Writing
<1>2. CASE Room /\ CanSend(c)
  <2> DEFINE s == [c EXCEPT !.tx_done = FALSE]
  <2>1. /\ pc = "room" /\ pc' = "put" /\ wpc' = wpc
        /\ c' = reschedule_disable(c) \/ c' = tx_start(s)
    BY <1>2 DEF Room
  <2>2. s \in Clients /\ SameTalk(c, s) /\ SameLink(c, s)
    BY <1>0 DEF Clients, SameTalk, SameLink
  <2> HIDE DEF s
  <2>3. CASE c' = reschedule_disable(c)
    BY <1>0, <2>1, <2>3, Timer DEF SamePlace, Writing
  <2>4. CASE c' = tx_start(s)
    <3>1. c' \in Clients /\ SameTalk(s, c') /\ SameLink(s, c')
      BY <2>2, <2>4, Started
    <3>2. SameTalk(c, c') /\ SameLink(c, c')
      BY <1>0, <2>2, <3>1, TalkSame, LinkSame
    <3> QED BY <2>1, <3>1, <3>2 DEF SamePlace, Writing
  <2> QED BY <2>1, <2>3, <2>4
<1>3. CASE sm_at_client_automatic_dtr_uart
  <2>1. PICK x, y \in BOOLEAN :
           c' = [c EXCEPT !.automatic = TRUE, !.en_work = x, !.dis_work = y]
    BY <1>3 DEF sm_at_client_automatic_dtr_uart
  <2>2. c' \in Clients
    BY <1>0, <2>1, ZenonT(30) DEF Clients
  <2>3. SameTalk(c, c')
    BY <1>0, <2>1 DEF Clients, SameTalk
  <2>4. SameLink(c, c')
    BY <1>0, <2>1 DEF Clients, SameLink
  <2> QED BY <1>0, <1>3, <2>2, <2>3, <2>4 DEF sm_at_client_automatic_dtr_uart, SamePlace
<1>4. CASE sm_at_client_disable_dtr_uart \/ sm_at_client_enable_dtr_uart
  <2>1. \/ c' = [c EXCEPT !.automatic = FALSE, !.en_work = FALSE, !.dis_work = TRUE]
        \/ c' = [c EXCEPT !.automatic = FALSE, !.dis_work = FALSE, !.en_work = TRUE]
    BY <1>4 DEF sm_at_client_disable_dtr_uart, sm_at_client_enable_dtr_uart
  <2>2. c' \in Clients
    <3>1. CASE c' = [c EXCEPT !.automatic = FALSE, !.en_work = FALSE, !.dis_work = TRUE]
      BY <1>0, <3>1 DEF Clients
    <3>2. CASE c' = [c EXCEPT !.automatic = FALSE, !.dis_work = FALSE, !.en_work = TRUE]
      BY <1>0, <3>2 DEF Clients
    <3> QED BY <2>1, <3>1, <3>2
  <2>3. SameTalk(c, c')
    BY <1>0, <2>1 DEF Clients, SameTalk
  <2>4. SameLink(c, c')
    BY <1>0, <2>1 DEF Clients, SameLink
  <2> QED BY <1>0, <1>4, <2>2, <2>3, <2>4
          DEF sm_at_client_disable_dtr_uart, sm_at_client_enable_dtr_uart, SamePlace
<1>5. CASE sm_monitor_task
  <2>1. c' = [c EXCEPT !.fifo = <<>>]
    BY <1>5 DEF sm_monitor_task
  <2>2. <<>> \in Seq(Units \cup {Part})
    OBVIOUS
  <2>3. c' \in Clients
    BY <1>0, <2>1, <2>2 DEF Clients
  <2>4. SameTalk(c, c') /\ SameLink(c, c')
    BY <1>0, <2>1 DEF Clients, SameTalk, SameLink
  <2> QED BY <1>0, <1>5, <2>3, <2>4 DEF sm_monitor_task, SamePlace
<1> QED BY <1>1, <1>2, <1>3, <1>4, <1>5

(* The steps that switch the link keep its invariant and no command notices. *)
LEMMA LinkKeeps ==
    ASSUME HostInv, LinkSteps
    PROVE  /\ HostInv' /\ SameTalk(c, c') /\ SamePlace(pc, pc')
           /\ UNCHANGED <<cmd, word, got>>
<1>1. /\ c \in Clients /\ Bounded(c) /\ RxInv(c, wpc) /\ PinInv(c, pc)
      /\ pc \in {"idle", "wait", "late"} \cup Writing /\ wpc \in {"idle", "rxoff"}
  BY DEF HostInv
<1>2. UNCHANGED <<cmd, word, got>>
  BY DEF LinkSteps, SetPin, SwitchTx, TimedOut, PutFull, Room, Fail,
     sm_at_client_automatic_dtr_uart,
     sm_at_client_disable_dtr_uart, sm_at_client_enable_dtr_uart, dtr_uart_enable_work_fn,
     RxOff, sm_monitor_task, ClientRxDisabled, dtr_uart_disable_work_fn
<1>3. CASE \/ TimedOut
           \/ PutFull /\ pc' = "room"
           \/ Room /\ CanSend(c)
           \/ sm_at_client_automatic_dtr_uart
           \/ sm_at_client_disable_dtr_uart \/ sm_at_client_enable_dtr_uart
           \/ sm_monitor_task
  <2>1. /\ c' \in Clients /\ SameTalk(c, c') /\ SameLink(c, c')
        /\ wpc' = wpc /\ SamePlace(pc, pc')
        /\ pc' \in {"idle", "wait", "late"} \cup Writing
        /\ pc' = pc \/ (pc \notin {"pin", "tx"} /\ pc' \notin {"pin", "tx"})
    BY <1>3, BitsKeep
  <2>2. Bounded(c')
    BY <1>1, <2>1, TalkSame
  <2> QED BY <1>2, <2>1, <2>2, HostKept
<1>4. CASE SetPin
  <2>1. pc = "pin" /\ pc' = "tx" /\ c' = [c EXCEPT !.pin = TRUE] /\ wpc' = wpc
    BY <1>4 DEF SetPin
  <2>2. /\ c' \in Clients /\ c'.pin = TRUE /\ c'.active = c.active
        /\ c'.no_recovery = c.no_recovery /\ c'.rx_en = c.rx_en /\ c'.rx = c.rx
        /\ c'.disabled = c.disabled /\ c'.rx_work = c.rx_work
    BY <1>1, <2>1 DEF Clients
  <2>3. SameTalk(c, c')
    BY <1>1, <2>1 DEF Clients, SameTalk
  <2>4. RxInv(c', wpc) /\ PinInv(c', "tx") /\ Bounded(c')
    BY <1>1, <2>1, <2>2, <2>3, TalkSame DEF RxInv, PinInv
  <2> QED BY <1>1, <1>2, <2>1, <2>2, <2>3, <2>4 DEF HostInv, SamePlace, Writing
<1>5. CASE SwitchTx
  <2>1. pc = "tx" /\ pc' = "put" /\ c' = EnableTx(c) /\ wpc' = wpc
    BY <1>5 DEF SwitchTx
  <2>2. /\ c' \in Clients /\ SameTalk(c, c')
        /\ c'.active = c.active /\ c'.no_recovery = c.no_recovery /\ c'.pin = c.pin
        /\ c'.rx_en = c.rx_en /\ c'.rx = c.rx /\ c'.disabled = c.disabled
        /\ c'.rx_work = c.rx_work /\ c'.tx_en = TRUE
    BY <1>1, <2>1, OnTx
  <2>3. c.active = TRUE /\ c.pin = TRUE
    <3>1. c.active \in BOOLEAN /\ c.pin \in BOOLEAN /\ c.active /\ c.pin
      BY <1>1, <2>1 DEF Clients, PinInv
    <3> QED BY <3>1
  <2>4. RxInv(c', wpc) /\ PinInv(c', "put") /\ Bounded(c')
    BY <1>1, <2>2, <2>3, TalkSame DEF RxInv, PinInv
  <2> QED BY <1>1, <1>2, <2>1, <2>2, <2>4 DEF HostInv, SamePlace, Writing
<1>6. CASE dtr_uart_enable_work_fn
  <2> DEFINE s == [c EXCEPT !.en_work = FALSE]
             u == EnableRx(s)
             v == [u EXCEPT !.pin = TRUE]
  <2>1. wpc = "idle" /\ wpc' = "idle" /\ pc' = pc /\ c' = EnableTx(v)
    BY <1>1, <1>6 DEF dtr_uart_enable_work_fn, dtr_uart_enable
  <2>2. s \in Clients /\ SameTalk(c, s) /\ SameLink(c, s)
    BY <1>1 DEF Clients, SameTalk, SameLink
  <2> HIDE DEF s
  <2>3. /\ u \in Clients /\ SameTalk(s, u)
        /\ u.active = TRUE /\ u.no_recovery = FALSE
        /\ u.disabled = s.disabled /\ u.rx_work = s.rx_work
        /\ u.rx_en = TRUE /\ u.rx = IF s.rx = "off" /\ ~s.rx_en THEN "on" ELSE s.rx
    BY <2>2, OnRx
  <2> HIDE DEF u
  <2>4. /\ v \in Clients /\ v.active = u.active /\ v.pin = TRUE
        /\ v.no_recovery = u.no_recovery /\ v.disabled = u.disabled
        /\ v.rx_work = u.rx_work /\ v.rx_en = u.rx_en /\ v.rx = u.rx
    BY <2>3 DEF Clients
  <2>5. SameTalk(u, v)
    BY <2>3 DEF Clients, SameTalk
  <2> HIDE DEF v
  <2>6. /\ c' \in Clients /\ SameTalk(v, c')
        /\ c'.active = v.active /\ c'.no_recovery = v.no_recovery /\ c'.pin = v.pin
        /\ c'.rx_en = v.rx_en /\ c'.rx = v.rx /\ c'.disabled = v.disabled
        /\ c'.rx_work = v.rx_work /\ c'.tx_en = TRUE
    BY <2>1, <2>4, OnTx
  <2>7. SameTalk(c, c')
    <3>1. SameTalk(c, u)
      BY <1>1, <2>2, <2>3, TalkSame
    <3>2. SameTalk(c, v)
      BY <1>1, <2>5, <3>1, TalkSame
    <3> QED BY <1>1, <2>6, <3>2, TalkSame
  <2>8. /\ c'.active = TRUE /\ c'.no_recovery = FALSE /\ c'.pin = TRUE /\ c'.tx_en = TRUE
        /\ c'.rx_en = TRUE /\ c'.rx = IF c.rx = "off" /\ ~c.rx_en THEN "on" ELSE c.rx
    BY <2>2, <2>3, <2>4, <2>6 DEF SameLink
  <2>9. c'.rx # "off"
    BY <1>1, <2>8 DEF RxInv
  <2>10. RxInv(c', "idle") /\ PinInv(c', pc) /\ Bounded(c')
    BY <1>1, <2>7, <2>8, <2>9, TalkSame DEF RxInv, PinInv
  <2> QED BY <1>1, <1>2, <2>1, <2>6, <2>7, <2>10 DEF HostInv, SamePlace
<1>7. ASSUME NEW b \in BOOLEAN, RxOff(b)
      PROVE  HostInv' /\ SameTalk(c, c') /\ SamePlace(pc, pc') /\ UNCHANGED <<cmd, word, got>>
  <2>1. /\ wpc = "rxoff" /\ wpc' = "idle" /\ pc' = pc
        /\ c' = [c EXCEPT !.rx_en = FALSE, !.disabled = FALSE]
    BY <1>7 DEF RxOff
  <2>3. /\ c' \in Clients /\ c'.rx_en = FALSE /\ c'.active = c.active
        /\ c'.no_recovery = c.no_recovery /\ c'.rx = c.rx /\ c'.rx_work = c.rx_work
        /\ c'.pin = c.pin /\ c'.tx_en = c.tx_en
    BY <1>1, <2>1 DEF Clients
  <2>4. SameTalk(c, c')
    BY <1>1, <2>1 DEF Clients, SameTalk
  <2>5. RxInv(c', "idle") /\ PinInv(c', pc) /\ Bounded(c')
    BY <1>1, <2>1, <2>3, <2>4, TalkSame DEF RxInv, PinInv
  <2> QED BY <1>1, <1>2, <2>1, <2>3, <2>4, <2>5 DEF HostInv, SamePlace
<1>8. CASE ClientRxDisabled
  <2>1. /\ c.rx \in {"stopping", "starved"} /\ wpc' = wpc /\ pc' = pc
        /\ c' = [c EXCEPT !.rx = "off", !.rx_en = FALSE, !.disabled = TRUE,
                          !.rx_work = TRUE]
    BY <1>8 DEF ClientRxDisabled
  <2>2. /\ c' \in Clients /\ c'.rx_en = FALSE /\ c'.active = c.active
        /\ c'.no_recovery = c.no_recovery /\ c'.rx = "off" /\ c'.rx_work = TRUE
        /\ c'.pin = c.pin /\ c'.tx_en = c.tx_en /\ c'.disabled = TRUE
    BY <1>1, <2>1 DEF Clients
  <2>3. SameTalk(c, c')
    BY <1>1, <2>1 DEF Clients, SameTalk
  <2>4. RxInv(c', wpc) /\ PinInv(c', pc) /\ Bounded(c')
    BY <1>1, <2>1, <2>2, <2>3, TalkSame DEF RxInv, PinInv
  <2> QED BY <1>1, <1>2, <2>1, <2>2, <2>3, <2>4 DEF HostInv, SamePlace
<1>9. CASE Inactive /\ dtr_uart_disable_work_fn
  <2> DEFINE s == [c EXCEPT !.dis_work = FALSE]
  <2>1. /\ wpc = "idle" /\ pc' = pc /\ pc \notin {"pin", "tx"} /\ c' = dtr_uart_disable(s)
        /\ wpc' = IF c.rx_en THEN "rxoff" ELSE "idle"
    BY <1>9 DEF dtr_uart_disable_work_fn, Inactive
  <2>2. s \in Clients /\ SameTalk(c, s) /\ SameLink(c, s)
    BY <1>1 DEF Clients, SameTalk, SameLink
  <2> HIDE DEF s
  <2>3. /\ c' \in Clients /\ SameTalk(s, c')
        /\ c'.active = FALSE /\ c'.no_recovery = TRUE /\ c'.pin = FALSE
        /\ c'.tx_en = FALSE /\ c'.disabled = FALSE
        /\ c'.rx_en = s.rx_en /\ c'.rx_work = s.rx_work
        /\ c'.rx = IF s.rx_en /\ s.rx = "on" THEN "stopping" ELSE s.rx
    BY <2>1, <2>2, Off
  <2>4. SameTalk(c, c')
    BY <1>1, <2>2, <2>3, TalkSame
  <2>5. RxInv(c', wpc')
    <3>1. c.rx \in {"on", "stopping", "starved", "off"}
      BY <1>1 DEF Clients
    <3> QED BY <1>1, <2>1, <2>2, <2>3, <3>1 DEF RxInv, SameLink
  <2>6. PinInv(c', pc) /\ Bounded(c') /\ wpc' \in {"idle", "rxoff"}
    BY <1>1, <2>1, <2>2, <2>3, <2>4, TalkSame DEF PinInv
  <2>7. HostInv'
    BY <1>1, <2>1, <2>3, <2>5, <2>6 DEF HostInv
  <2>8. SamePlace(pc, pc')
    BY <2>1 DEF SamePlace
  <2> QED BY <1>2, <2>4, <2>7, <2>8
<1>10. CASE \E b \in BOOLEAN : RxOff(b)
  BY <1>7, <1>10
<1>11. \/ \/ TimedOut
          \/ PutFull /\ pc' = "room"
          \/ Room /\ CanSend(c)
          \/ sm_at_client_automatic_dtr_uart
          \/ sm_at_client_disable_dtr_uart \/ sm_at_client_enable_dtr_uart
          \/ sm_monitor_task
       \/ SetPin \/ SwitchTx \/ dtr_uart_enable_work_fn \/ ClientRxDisabled
       \/ Inactive /\ dtr_uart_disable_work_fn
       \/ \E b \in BOOLEAN : RxOff(b)
  BY DEF LinkSteps
<1> QED BY <1>3, <1>4, <1>5, <1>6, <1>8, <1>9, <1>10, <1>11

-----------------------------------------------------------------------------
(* The host's steps that concern a command.                                 *)

(* DTR follows the pin: dtr_work sees every change. *)
LEMMA DtrFollows ==
    ASSUME ModemInv, NEW b \in BOOLEAN, SetDtr(b), UNCHANGED <<m, hpc, apiPc>>,
           raced' \in BOOLEAN, raced => raced'
    PROVE  ModemInv'
<1>1. dtr' \in BOOLEAN /\ work' \in BOOLEAN
  BY DEF SetDtr
<1>2. work' \/ (dtr' = dtr /\ ~work)
  BY DEF SetDtr, ModemInv
<1>3. DtrInv(m, dtr', work', hpc)
  BY <1>2 DEF ModemInv, DtrInv
<1> QED BY <1>1, <1>3 DEF ModemInv

(* An edge of RI. *)
LEMMA EdgeKeeps ==
    ASSUME HostInv, c' = c \/ c' = gpio_cb_func(c), UNCHANGED <<pc, wpc>>
    PROVE  HostInv' /\ SameTalk(c, c')
<1>0. c \in Clients /\ Bounded(c) /\ pc \in {"idle", "wait", "late"} \cup Writing
  BY DEF HostInv
<1>1. c' \in Clients /\ SameTalk(c, c') /\ SameLink(c, c')
  <2>1. CASE c' = c
    BY <1>0, <2>1 DEF SameTalk, SameLink
  <2>2. CASE c' = gpio_cb_func(c)
    BY <1>0, <2>2, Timer
  <2> QED BY <2>1, <2>2
<1>2. Bounded(c')
  BY <1>0, <1>1, TalkSame
<1> QED BY <1>0, <1>1, <1>2, HostKept

(* A timeout of TX, and a receiver without buffers. *)
LEMMA FaultKeeps ==
    ASSUME HostInv, HostTxTimeout \/ Starve
    PROVE  HostInv' /\ SameTalk(c, c')
<1>0. /\ c \in Clients /\ Bounded(c) /\ RxInv(c, wpc) /\ PinInv(c, pc)
      /\ pc \in {"idle", "wait", "late"} \cup Writing
  BY DEF HostInv
<1>1. CASE HostTxTimeout
  <2>1. c' = [c EXCEPT !.abort = TRUE] /\ pc' = pc /\ wpc' = wpc
    BY <1>1 DEF HostTxTimeout
  <2>2. c' \in Clients
    BY <1>0, <2>1 DEF Clients
  <2>3. SameTalk(c, c') /\ SameLink(c, c')
    BY <1>0, <2>1 DEF Clients, SameTalk, SameLink
  <2>4. Bounded(c')
    BY <1>0, <2>3, TalkSame
  <2> QED BY <1>0, <2>1, <2>2, <2>3, <2>4, HostKept
<1>2. CASE Starve
  <2>1. c' = [c EXCEPT !.rx = "starved"] /\ c.rx = "on" /\ pc' = pc /\ wpc' = wpc
    BY <1>2 DEF Starve
  <2>2. /\ c' \in Clients /\ c'.rx = "starved" /\ c'.rx_en = c.rx_en
        /\ c'.active = c.active /\ c'.no_recovery = c.no_recovery /\ c'.pin = c.pin
        /\ c'.tx_en = c.tx_en /\ c'.rx_work = c.rx_work /\ c'.disabled = c.disabled
    BY <1>0, <2>1 DEF Clients
  <2>3. SameTalk(c, c')
    BY <1>0, <2>1 DEF Clients, SameTalk
  <2>4. RxInv(c', wpc) /\ PinInv(c', pc) /\ Bounded(c')
    BY <1>0, <2>1, <2>2, <2>3, TalkSame DEF RxInv, PinInv
  <2> QED BY <2>1, <2>2, <2>3, <2>4 DEF HostInv
<1> QED BY <1>1, <1>2

(* tx_write switches the link on if it must. *)
LEMMA WriteSwitches ==
    ASSUME HostInv, NEW s \in Clients, Bounded(s), SameLink(c, s),
           pc \notin {"pin", "tx"}, NEW x, tx_write(s, x), wpc' = wpc
    PROVE  /\ HostInv' /\ SameTalk(s, c') /\ pc' \in {"pin", "put"} /\ word' = x
<1>0. /\ c \in Clients /\ RxInv(c, wpc) /\ PinInv(c, pc) /\ wpc \in {"idle", "rxoff"}
  BY DEF HostInv
<1>1. RxInv(s, wpc) /\ PinInv(s, pc)
  BY <1>0, LinkKept
<1>2. CASE s.automatic /\ ~s.active
  <2>1. c' = EnableRx(s) /\ pc' = "pin" /\ word' = x
    BY <1>2 DEF tx_write
  <2>2. /\ c' \in Clients /\ SameTalk(s, c')
        /\ c'.active = TRUE /\ c'.no_recovery = FALSE /\ c'.pin = s.pin
        /\ c'.disabled = s.disabled /\ c'.rx_work = s.rx_work /\ c'.tx_en = s.tx_en
        /\ c'.rx_en = TRUE /\ c'.rx = IF s.rx = "off" /\ ~s.rx_en THEN "on" ELSE s.rx
    BY <2>1, OnRx
  <2>3. RxInv(c', wpc) /\ PinInv(c', "pin")
    BY <1>1, <2>2 DEF RxInv, PinInv
  <2>4. Bounded(c')
    BY <2>2, TalkSame
  <2> QED BY <1>0, <2>1, <2>2, <2>3, <2>4 DEF HostInv, Writing
<1>3. CASE ~(s.automatic /\ ~s.active)
  <2>1. c' = s /\ pc' = "put" /\ word' = x
    BY <1>3 DEF tx_write
  <2>2. RxInv(c', wpc) /\ PinInv(c', "put")
    BY <1>1, <2>1 DEF PinInv
  <2> QED BY <1>0, <2>1, <2>2, TalkSame DEF HostInv, Writing
<1> QED BY <1>2, <1>3

(* A command is begun. *)
LEMMA BeginKeeps ==
    ASSUME HostInv, NEW k \in Cmds, sm_at_client_send_cmd(k)
    PROVE  /\ HostInv' /\ pc' \in {"pin", "put"} /\ word' = k
           /\ c'.state = "PENDING" /\ c'.at_rsp = c.at_rsp /\ c'.ring = c.ring
           /\ c'.rxq = c.rxq /\ c'.missed = c.missed /\ c'.twice = c.twice
           /\ Settled(c, c')
<1>0. c \in Clients /\ Bounded(c)
  BY DEF HostInv
<1> DEFINE s == [c EXCEPT !.state = "PENDING"]
<1>1. pc = "idle" /\ wpc' = wpc /\ tx_write(s, k)
  BY DEF sm_at_client_send_cmd
<1>2. /\ s \in Clients /\ s.state = "PENDING" /\ s.at_rsp = c.at_rsp /\ s.ring = c.ring
      /\ s.rsp = c.rsp
      /\ s.rxq = c.rxq /\ s.missed = c.missed /\ s.twice = c.twice
      /\ s.tx = c.tx /\ s.fifo = c.fifo /\ s.resp = c.resp
  BY <1>0 DEF Clients
<1>3. SameLink(c, s)
  BY <1>0 DEF Clients, SameLink
<1> HIDE DEF s
<1>4. Bounded(s)
  BY <1>0, <1>2 DEF Bounded
<1>5. /\ HostInv' /\ SameTalk(s, c') /\ pc' \in {"pin", "put"} /\ word' = k
  BY <1>1, <1>2, <1>3, <1>4, WriteSwitches
<1> QED BY <1>2, <1>5 DEF SameTalk, Settled

(* Its text is queued. *)
LEMMA QueueKeeps ==
    ASSUME HostInv, word \in Cmds \cup {Cr}, PutText
    PROVE  /\ HostInv' /\ pc = "put" /\ pc' \in {"pin", "put"} /\ word # Cr /\ word' = Cr
           /\ UNCHANGED <<cmd, got>>
           /\ c'.state = c.state /\ c'.at_rsp = c.at_rsp /\ c'.rxq = c.rxq
           /\ c'.missed = c.missed /\ c'.twice = c.twice /\ c'.ring = Append(c.ring, word)
           /\ c'.rsp = c.rsp
<1>0. c \in Clients /\ Bounded(c)
  BY DEF HostInv
<1> DEFINE s == [c EXCEPT !.ring = Append(c.ring, word)]
<1>1. /\ pc = "put" /\ word # Cr /\ Len(c.ring) < RingLen /\ wpc' = wpc
      /\ tx_write(s, Cr) /\ UNCHANGED <<cmd, got>>
  BY DEF PutText
<1>2. c.ring \in Seq(Cmds \cup {Cr}) /\ c.tx \in Nat
  BY <1>0 DEF Clients
<1>3. /\ Append(c.ring, word) \in Seq(Cmds \cup {Cr})
      /\ Len(Append(c.ring, word)) = Len(c.ring) + 1 /\ Len(c.ring) \in Nat
  BY <1>1, <1>2
<1>4. /\ s \in Clients /\ s.state = c.state /\ s.at_rsp = c.at_rsp
      /\ s.ring = Append(c.ring, word) /\ s.rsp = c.rsp
      /\ s.rxq = c.rxq /\ s.missed = c.missed /\ s.twice = c.twice
      /\ s.tx = c.tx /\ s.fifo = c.fifo /\ s.resp = c.resp
  BY <1>0, <1>3 DEF Clients
<1>5. SameLink(c, s)
  BY <1>0 DEF Clients, SameLink
<1> HIDE DEF s
<1>6. Bounded(s)
  BY <1>0, <1>1, <1>2, <1>3, <1>4, ClientAssumption DEF Bounded
<1>7. /\ HostInv' /\ SameTalk(s, c') /\ pc' \in {"pin", "put"} /\ word' = Cr
  BY <1>1, <1>4, <1>5, <1>6, WriteSwitches
<1> QED BY <1>1, <1>4, <1>7 DEF SameTalk

(* Its terminator is queued, and all is sent, or it fails. *)
LEMMA EndKeeps ==
    ASSUME HostInv, PutTerminator
    PROVE  /\ HostInv' /\ pc = "put" /\ word = Cr /\ UNCHANGED <<cmd, word>>
           /\ c'.state = c.state /\ c'.at_rsp = c.at_rsp /\ c'.rxq = c.rxq
           /\ c'.missed = c.missed /\ c'.twice = c.twice /\ c'.ring = Append(c.ring, Cr)
           /\ c'.rsp = c.rsp
           /\ \/ pc' = "wait" /\ got' = got
              \/ pc' = "idle" /\ got' = [got EXCEPT ![cmd] = Failed]
<1>0. c \in Clients /\ Bounded(c)
  BY DEF HostInv
<1> DEFINE s == [c EXCEPT !.ring = Append(c.ring, Cr)]
           u == [s EXCEPT !.tx_done = FALSE]
<1>1. /\ pc = "put" /\ word = Cr /\ Len(c.ring) < RingLen /\ wpc' = wpc
      /\ UNCHANGED <<cmd, word>>
      /\ c' = s \/ c' = tx_start(u) \/ c' = tx_start(s)
      /\ \/ pc' = "wait" /\ got' = got
         \/ pc' = "idle" /\ got' = [got EXCEPT ![cmd] = Failed]
  BY DEF PutTerminator, Fail
<1>2. c.ring \in Seq(Cmds \cup {Cr}) /\ c.tx \in Nat
  BY <1>0 DEF Clients
<1>3. /\ Append(c.ring, Cr) \in Seq(Cmds \cup {Cr})
      /\ Len(Append(c.ring, Cr)) = Len(c.ring) + 1 /\ Len(c.ring) \in Nat
  BY <1>2
<1>4. /\ s \in Clients /\ s.state = c.state /\ s.at_rsp = c.at_rsp
      /\ s.ring = Append(c.ring, Cr) /\ s.rsp = c.rsp
      /\ s.rxq = c.rxq /\ s.missed = c.missed /\ s.twice = c.twice
      /\ s.tx = c.tx /\ s.fifo = c.fifo /\ s.resp = c.resp
  BY <1>0, <1>3 DEF Clients
<1>5. SameLink(c, s)
  BY <1>0 DEF Clients, SameLink
<1> HIDE DEF s
<1>6. Bounded(s)
  BY <1>0, <1>1, <1>2, <1>3, <1>4, ClientAssumption DEF Bounded
<1>7. u \in Clients /\ SameTalk(s, u) /\ SameLink(s, u)
  BY <1>4 DEF Clients, SameTalk, SameLink
<1> HIDE DEF u
<1>8. c' \in Clients /\ SameTalk(s, c') /\ SameLink(c, c')
  <2>1. CASE c' = s
    BY <1>4, <1>5, <2>1, TalkSame
  <2>2. CASE c' = tx_start(u)
    <3>1. c' \in Clients /\ SameTalk(u, c') /\ SameLink(u, c')
      BY <1>7, <2>2, Started
    <3>2. SameTalk(s, c') /\ SameLink(s, c')
      BY <1>4, <1>7, <3>1, TalkSame, LinkSame
    <3> QED BY <1>5, <3>1, <3>2, LinkSame
  <2>3. CASE c' = tx_start(s)
    <3>1. c' \in Clients /\ SameTalk(s, c') /\ SameLink(s, c')
      BY <1>4, <2>3, Started
    <3> QED BY <1>5, <3>1, LinkSame
  <2> QED BY <1>1, <2>1, <2>2, <2>3
<1>9. Bounded(c')
  BY <1>4, <1>6, <1>8, TalkSame
<1>10. HostInv'
  BY <1>1, <1>8, <1>9, HostKept
<1> QED BY <1>1, <1>4, <1>8, <1>10 DEF SameTalk

(* It fails otherwise. *)
LEMMA FailKeeps ==
    ASSUME HostInv,
           \/ GiveUp
           \/ PutFull /\ pc' # "room"
           \/ Room /\ ~CanSend(c)
    PROVE  /\ HostInv' /\ pc # "idle" /\ pc' = "idle" /\ cmd' = cmd /\ word' = Cr
           /\ c'.missed = c.missed /\ c'.twice = c.twice /\ Settled(c, c')
           /\ got' = [got EXCEPT ![cmd] = Failed]
<1>0. c \in Clients /\ Bounded(c)
  BY DEF HostInv
<1> DEFINE s == [c EXCEPT !.state = "ERROR", !.rsp = Open]
<1>1. /\ pc \in {"late", "put", "room"} /\ pc' = "idle" /\ cmd' = cmd /\ word' = Cr
      /\ wpc' = wpc /\ got' = [got EXCEPT ![cmd] = Failed]
      /\ c' = c \/ c' = s \/ c' = tx_start(c)
  BY DEF GiveUp, PutFull, Room, Fail
<1>2. /\ s \in Clients /\ s.missed = c.missed /\ s.twice = c.twice /\ s.tx = c.tx
      /\ s.rsp = Open
      /\ s.ring = c.ring /\ s.rxq = c.rxq /\ s.fifo = c.fifo /\ s.resp = c.resp
  BY <1>0 DEF Clients
<1>3. SameLink(c, s) /\ SameLink(c, c)
  BY <1>0 DEF Clients, SameLink
<1> HIDE DEF s
<1>4. tx_start(c) \in Clients /\ SameTalk(c, tx_start(c)) /\ SameLink(c, tx_start(c))
  BY <1>0, Started
<1>5. Bounded(s) /\ Bounded(tx_start(c))
  BY <1>0, <1>2, <1>4, TalkSame DEF Bounded
<1>6. /\ c' \in Clients /\ SameLink(c, c') /\ Bounded(c')
      /\ c'.missed = c.missed /\ c'.twice = c.twice /\ Settled(c, c')
  BY <1>0, <1>1, <1>2, <1>3, <1>4, <1>5 DEF SameTalk, Settled
<1>7. HostInv'
  BY <1>1, <1>6, HostKept
<1> QED BY <1>1, <1>6, <1>7

(* It returns with its response. *)
LEMMA AnswerKeeps ==
    ASSUME HostInv, Answered
    PROVE  /\ HostInv' /\ pc = "wait" /\ pc' = "idle" /\ UNCHANGED <<cmd, word>>
           /\ c.at_rsp /\ ~c'.at_rsp /\ c'.state = c.state
           /\ c'.ring = c.ring /\ c'.rxq = c.rxq
           /\ c'.missed = c.missed /\ c'.twice = c.twice /\ c'.rsp = Open
<1>0. c \in Clients /\ Bounded(c)
  BY DEF HostInv
<1>1. /\ pc' = "idle" /\ pc = "wait" /\ UNCHANGED <<cmd, word, wpc>> /\ c.at_rsp
      /\ c' = [c EXCEPT !.at_rsp = FALSE, !.rsp = Open]
  BY DEF Answered
<1>2. /\ c' \in Clients /\ ~c'.at_rsp /\ c'.state = c.state /\ c'.rsp = Open
      /\ c'.ring = c.ring /\ c'.rxq = c.rxq /\ c'.missed = c.missed /\ c'.twice = c.twice
      /\ c'.tx = c.tx /\ c'.fifo = c.fifo /\ c'.resp = c.resp
  BY <1>0, <1>1 DEF Clients
<1>3. SameLink(c, c')
  BY <1>0, <1>1 DEF Clients, SameLink
<1>4. HostInv'
  BY <1>0, <1>1, <1>2, <1>3, HostKept DEF Bounded
<1> QED BY <1>1, <1>2, <1>4

(* What is no response. *)
Noise == {Urc, Part}

(* Something is received, or dropped. *)
LEMMA Received ==
    ASSUME NEW s \in Clients, NEW x \in Units \cup {Part}, Bounded(s), s.rx = "on",
           NEW w, NEW p, RxInv(s, w), PinInv(s, p)
    PROVE  LET t == RxRdy(s, x)
           IN  /\ t \in Clients /\ Bounded(t) /\ RxInv(t, w) /\ PinInv(t, p)
               /\ t.state = s.state /\ t.rsp = s.rsp /\ t.at_rsp = s.at_rsp
               /\ t.ring = s.ring /\ t.twice = s.twice /\ (s.missed => t.missed)
               /\ t.rxq = s.rxq \/ t.rxq = Append(s.rxq, x)
<1> DEFINE u == [s EXCEPT !.rxq = Append(s.rxq, x), !.rx_work = TRUE]
<1>1. /\ s.rxq \in Seq(Units \cup {Part}) /\ Append(s.rxq, x) \in Seq(Units \cup {Part})
      /\ Len(Append(s.rxq, x)) = Len(s.rxq) + 1 /\ Len(s.rxq) \in Nat
  BY DEF Clients
<1>2. CASE Len(s.rxq) = RxEvents
  <2> DEFINE t == [s EXCEPT !.missed = TRUE]
  <2>1. RxRdy(s, x) = t
    BY <1>2 DEF RxRdy
  <2>2. /\ t \in Clients /\ t.missed = TRUE
        /\ t.state = s.state /\ t.rsp = s.rsp /\ t.at_rsp = s.at_rsp
        /\ t.ring = s.ring /\ t.tx = s.tx /\ t.twice = s.twice
        /\ t.rxq = s.rxq /\ t.fifo = s.fifo /\ t.resp = s.resp
    BY DEF Clients
  <2>3. SameLink(s, t)
    BY DEF Clients, SameLink
  <2> HIDE DEF t
  <2>4. Bounded(t) /\ RxInv(t, w) /\ PinInv(t, p)
    BY <2>2, <2>3, LinkKept DEF Bounded
  <2> QED BY <2>1, <2>2, <2>4
<1>3. CASE Len(s.rxq) # RxEvents
  <2> DEFINE t == RxRdy(s, x)
  <2>1. t = u \/ t = reschedule_disable(u)
    BY <1>3 DEF RxRdy
  <2>2. /\ u \in Clients /\ u.rxq = Append(s.rxq, x)
        /\ u.state = s.state /\ u.rsp = s.rsp /\ u.at_rsp = s.at_rsp
        /\ u.ring = s.ring /\ u.tx = s.tx /\ u.twice = s.twice /\ u.missed = s.missed
        /\ u.fifo = s.fifo /\ u.resp = s.resp
    BY <1>1 DEF Clients
  <2>3. /\ u.active = s.active /\ u.no_recovery = s.no_recovery /\ u.pin = s.pin
        /\ u.rx_en = s.rx_en /\ u.rx = s.rx /\ u.disabled = s.disabled
        /\ u.tx_en = s.tx_en /\ u.rx_work = TRUE
    BY DEF Clients
  <2> HIDE DEF u
  <2>4. Bounded(u) /\ RxInv(u, w) /\ PinInv(u, p)
    <3>1. Len(u.rxq) <= RxEvents
      BY <1>1, <1>3, <2>2, ClientAssumption DEF Bounded
    <3> QED BY <2>2, <2>3, <3>1 DEF Bounded, RxInv, PinInv
  <2>5. CASE t = u
    BY <2>2, <2>4, <2>5
  <2>6. CASE t = reschedule_disable(u)
    <3>1. t \in Clients /\ SameTalk(u, t) /\ SameLink(u, t)
      BY <2>2, <2>6, Timer
    <3> HIDE DEF t
    <3>2. Bounded(t) /\ RxInv(t, w) /\ PinInv(t, p)
      BY <2>2, <2>4, <3>1, LinkKept, TalkSame
    <3>3. /\ t \in Clients /\ t.state = s.state /\ t.rsp = s.rsp /\ t.at_rsp = s.at_rsp
          /\ t.ring = s.ring /\ t.twice = s.twice /\ t.missed = s.missed
          /\ t.rxq = Append(s.rxq, x)
      BY <2>2, <3>1 DEF SameTalk
    <3> QED BY <3>2, <3>3 DEF t
  <2> QED BY <2>1, <2>5, <2>6
<1> QED BY <1>2, <1>3

(* What was received is parsed: the first response ends a command that is   *)
(* pending, and everything else goes to the monitors.                       *)
LEMMA Parsed ==
    ASSUME NEW s \in Clients, Bounded(s), NEW x \in Units \cup {Part}
    PROVE  LET t == response_handler(s, x)
           IN  /\ t \in Clients /\ Bounded(t) /\ SameLink(s, t)
               /\ t.ring = s.ring /\ t.rxq = s.rxq /\ t.twice = s.twice
               /\ (s.missed => t.missed) /\ Settled(s, t)
               /\ \/ t.missed
                  \/ /\ s.state = "PENDING" /\ x \notin Noise
                     /\ t.rsp = x /\ (x # Err => t.state = "OK")
                  \/ /\ ~(s.state = "PENDING" /\ x \notin Noise) /\ t.state = s.state
                     /\ t.rsp = s.rsp /\ t.at_rsp = s.at_rsp
<1> DEFINE fits == Len(s.resp) < RespLen
           r == IF fits THEN Append(s.resp, x) ELSE s.resp
           t == response_handler(s, x)
<1>1. /\ s.resp \in Seq(Units \cup {Part}) /\ Len(s.resp) \in Nat
      /\ s.fifo \in Seq(Units \cup {Part}) /\ RespLen \in Nat \ {0}
      /\ Len(s.resp) <= RespLen /\ Len(<<>>) = 0
      /\ Len(<<>>) <= RespLen /\ Len(<<x>>) <= RespLen
      /\ <<>> \in Seq(Units \cup {Part}) /\ <<x>> \in Seq(Units \cup {Part})
      /\ Len(Append(s.resp, x)) = Len(s.resp) + 1
      /\ Append(s.resp, x) \in Seq(Units \cup {Part})
  BY ClientAssumption DEF Clients, Bounded
<1>2. r \in Seq(Units \cup {Part}) /\ Len(r) <= RespLen
  BY <1>1
<1>3. CASE s.state = "PENDING" /\ fits /\ x \notin Noise
  <2>1. t = parse_at_response(s, x)
    BY <1>3 DEF response_handler, Noise
  <2>2. \/ x = Err
           /\ t = [s EXCEPT !.resp = <<>>, !.state = "ERROR", !.rsp = x, !.at_rsp = TRUE]
        \/ x # Err
           /\ t = [s EXCEPT !.resp = <<>>, !.state = "OK", !.rsp = x, !.at_rsp = TRUE]
    BY <2>1 DEF parse_at_response
  <2>3. x \in Cmds \cup {Err}
    BY <1>3 DEF Noise, Units
  <2> HIDE DEF t, r, fits
  <2>4. t \in Clients
    <3>1. CASE t = [s EXCEPT !.resp = <<>>, !.state = "ERROR", !.rsp = x, !.at_rsp = TRUE]
      BY <1>1, <2>3, <3>1 DEF Clients
    <3>2. CASE t = [s EXCEPT !.resp = <<>>, !.state = "OK", !.rsp = x, !.at_rsp = TRUE]
      BY <1>1, <2>3, <3>2 DEF Clients
    <3> QED BY <2>2, <3>1, <3>2
  <2>5. /\ t.ring = s.ring /\ t.tx = s.tx /\ t.rxq = s.rxq /\ t.twice = s.twice
        /\ t.missed = s.missed /\ t.rsp = x /\ t.fifo = s.fifo /\ t.resp = <<>>
        /\ x # Err => t.state = "OK"
        /\ x = Err => t.state = "ERROR"
    BY <2>2 DEF Clients
  <2>6. SameLink(s, t)
    BY <2>2 DEF Clients, SameLink
  <2>7. Bounded(t)
    BY <1>1, <2>5 DEF Bounded
  <2>8. Settled(s, t)
    BY <2>3, <2>5 DEF Settled
  <2> QED BY <1>3, <2>4, <2>5, <2>6, <2>7, <2>8 DEF t
<1>4. CASE s.state = "PENDING" /\ ~(fits /\ x \notin Noise) /\ Len(r) = RespLen
  <2> DEFINE y == IF fits THEN <<>> ELSE <<x>>
  <2>1. t = [s EXCEPT !.resp = y, !.at_rsp = TRUE, !.missed = TRUE]
    BY <1>4 DEF response_handler, Noise
  <2>2. y \in Seq(Units \cup {Part}) /\ Len(y) <= RespLen
    <3>1. y = <<>> \/ y = <<x>>
      OBVIOUS
    <3> HIDE DEF y
    <3> QED BY <1>1, <3>1, Zenon
  <2> HIDE DEF y, t, r, fits
  <2>3. /\ t \in Clients /\ t.missed = TRUE /\ t.ring = s.ring /\ t.tx = s.tx
        /\ t.rxq = s.rxq /\ t.twice = s.twice /\ t.fifo = s.fifo /\ t.resp = y
        /\ t.state = s.state /\ t.rsp = s.rsp
    BY <2>1, <2>2 DEF Clients
  <2>4. SameLink(s, t)
    BY <2>1 DEF Clients, SameLink
  <2>5. Bounded(t)
    BY <2>2, <2>3 DEF Bounded
  <2> QED BY <2>3, <2>4, <2>5 DEF t, Settled
<1>5. CASE s.state # "PENDING" /\ fits /\ x # Part
  <2> DEFINE q == s.fifo \o r
             f == IF Len(q) <= HeapLen THEN q ELSE SubSeq(q, 1, HeapLen)
  <2>1. t = [s EXCEPT !.resp = <<>>, !.fifo = f]
    BY <1>5 DEF response_handler, sm_monitor_dispatch
  <2> HIDE DEF r, fits
  <2>2. /\ q \in Seq(Units \cup {Part}) /\ Len(q) \in Nat
        /\ \A i \in 1..Len(q) : q[i] \in Units \cup {Part}
    BY <1>1, <1>2, ConcatProperties, ElementOfSeq
  <2> HIDE DEF q
  <2>3. f \in Seq(Units \cup {Part}) /\ Len(f) <= HeapLen
    <3>1. CASE Len(q) <= HeapLen
      BY <2>2, <3>1
    <3>2. CASE ~(Len(q) <= HeapLen)
      <4>1. HeapLen \in Nat \ {0} /\ \A i \in 1..HeapLen : q[i] \in Units \cup {Part}
        BY <2>2, <3>2, ClientAssumption
      <4>2. /\ SubSeq(q, 1, HeapLen) \in Seq(Units \cup {Part})
            /\ Len(SubSeq(q, 1, HeapLen)) = HeapLen
        BY <4>1, SubSeqProperties
      <4> QED BY <3>2, <4>1, <4>2
    <3> QED BY <3>1, <3>2
  <2> HIDE DEF f, t
  <2>4. /\ t \in Clients /\ t.ring = s.ring /\ t.tx = s.tx /\ t.rxq = s.rxq
        /\ t.state = s.state /\ t.rsp = s.rsp /\ t.fifo = f /\ t.at_rsp = s.at_rsp
        /\ t.twice = s.twice /\ t.missed = s.missed /\ t.resp = <<>>
    BY <1>1, <2>1, <2>3 DEF Clients
  <2>5. SameLink(s, t)
    BY <2>1 DEF Clients, SameLink
  <2>6. Bounded(t)
    BY <1>1, <2>3, <2>4 DEF Bounded
  <2> QED BY <1>5, <2>4, <2>5, <2>6 DEF t, Settled
<1>6. CASE /\ ~(s.state = "PENDING" /\ fits /\ x \notin Noise)
           /\ ~(s.state = "PENDING" /\ ~(fits /\ x \notin Noise) /\ Len(r) = RespLen)
           /\ ~(s.state # "PENDING" /\ fits /\ x # Part)
  <2>1. \/ fits /\ t = [s EXCEPT !.resp = r]
        \/ ~fits /\ t = [s EXCEPT !.resp = r, !.missed = TRUE]
    <3>1. t = [s EXCEPT !.resp = r, !.missed = s.missed \/ ~fits]
      BY <1>6 DEF response_handler, Noise
    <3>2. CASE fits
      <4>1. (s.missed \/ ~fits) = s.missed
        BY <3>2 DEF Clients
      <4>2. t = [s EXCEPT !.resp = r, !.missed = s.missed]
        BY <3>1, <4>1
      <4> HIDE DEF r, t, fits
      <4> QED BY <3>2, <4>2 DEF Clients
    <3>3. CASE ~fits
      <4>1. (s.missed \/ ~fits) = TRUE
        BY <3>3
      <4>2. t = [s EXCEPT !.resp = r, !.missed = TRUE]
        BY <3>1, <4>1
      <4> QED BY <3>3, <4>2
    <3> QED BY <3>2, <3>3
  <2>2. fits => ~(s.state = "PENDING" /\ x \notin Noise)
    BY <1>6
  <2> HIDE DEF t, r, fits
  <2>3. t \in Clients
    <3>1. CASE t = [s EXCEPT !.resp = r]
      BY <1>2, <3>1 DEF Clients
    <3>2. CASE t = [s EXCEPT !.resp = r, !.missed = TRUE]
      BY <1>2, <3>2 DEF Clients
    <3> QED BY <2>1, <3>1, <3>2
  <2>4. /\ t.ring = s.ring /\ t.tx = s.tx /\ t.rxq = s.rxq
        /\ t.state = s.state /\ t.rsp = s.rsp /\ t.fifo = s.fifo /\ t.at_rsp = s.at_rsp
        /\ t.twice = s.twice /\ (s.missed => t.missed) /\ t.resp = r
        /\ fits \/ t.missed = TRUE
    BY <2>1 DEF Clients
  <2>5. SameLink(s, t)
    BY <2>1 DEF Clients, SameLink
  <2>6. Bounded(t)
    BY <1>2, <2>4 DEF Bounded
  <2> QED BY <2>2, <2>3, <2>4, <2>5, <2>6 DEF t, Settled
<1> HIDE DEF t, r, fits
<1>7. s.state = "PENDING" \/ s.state # "PENDING"
  OBVIOUS
<1> QED BY <1>3, <1>4, <1>5, <1>6

(* rx_process: the first of the queue, or nothing, and RX again if it is    *)
(* to be recovered.                                                         *)
LEMMA ProcessKeeps ==
    ASSUME HostInv, rx_process
    PROVE  /\ HostInv' /\ UNCHANGED <<pc, cmd, word, got>>
           /\ c'.ring = c.ring /\ c'.twice = c.twice /\ (c.missed => c'.missed)
           /\ Settled(c, c')
           /\ \/ SameTalk(c, c')
              \/ c'.missed
              \/ /\ c.rxq # <<>> /\ c'.rxq = Tail(c.rxq)
                 /\ LET x == Head(c.rxq)
                    IN  \/ /\ c.state = "PENDING" /\ x \notin Noise
                           /\ c'.rsp = x /\ (x # Err => c'.state = "OK")
                        \/ /\ ~(c.state = "PENDING" /\ x \notin Noise)
                           /\ c'.state = c.state
                           /\ c'.rsp = c.rsp /\ c'.at_rsp = c.at_rsp
<1> DEFINE s == [c EXCEPT !.rxq = IF c.rxq = <<>> THEN c.rxq ELSE Tail(c.rxq)]
           t == IF c.rxq = <<>> THEN s ELSE response_handler(s, Head(c.rxq))
           u == [t EXCEPT !.rx_work = FALSE]
           v == rx_enable(u)
           x == Head(c.rxq)
<1>0. /\ c \in Clients /\ Bounded(c) /\ RxInv(c, wpc) /\ PinInv(c, pc)
      /\ pc \in {"idle", "wait", "late"} \cup Writing
  BY DEF HostInv
<1>1. /\ wpc = "idle" /\ UNCHANGED <<pc, wpc, cmd, word, got>>
      /\ \/ t.rxq # <<>> /\ c' = t
         \/ t.rxq = <<>> /\ u.no_recovery /\ c' = u
         \/ t.rxq = <<>> /\ ~u.no_recovery /\ c' = v
  BY DEF rx_process, rx_recovery
<1>2. /\ t \in Clients /\ Bounded(t) /\ SameLink(c, t) /\ t.ring = c.ring
      /\ t.twice = c.twice /\ (c.missed => t.missed) /\ Settled(c, t)
      /\ \/ SameTalk(c, t)
         \/ t.missed
         \/ /\ c.rxq # <<>> /\ t.rxq = Tail(c.rxq)
            /\ \/ /\ c.state = "PENDING" /\ x \notin Noise
                  /\ t.rsp = x /\ (x # Err => t.state = "OK")
               \/ /\ ~(c.state = "PENDING" /\ x \notin Noise) /\ t.state = c.state
                  /\ t.rsp = c.rsp /\ t.at_rsp = c.at_rsp
  <2>1. CASE c.rxq = <<>>
    <3>1. t = [c EXCEPT !.rxq = c.rxq]
      BY <2>1
    <3>2. t = c
      BY <1>0, <3>1 DEF Clients
    <3> QED BY <1>0, <3>2 DEF SameTalk, SameLink, Settled
  <2>2. CASE c.rxq # <<>>
    <3> DEFINE z == [c EXCEPT !.rxq = Tail(c.rxq)]
    <3>1. t = response_handler(z, x)
      BY <2>2
    <3>2. c.rxq \in Seq(Units \cup {Part}) /\ Len(c.rxq) <= RxEvents
      BY <1>0 DEF Clients, Bounded
    <3>3. /\ x \in Units \cup {Part} /\ Tail(c.rxq) \in Seq(Units \cup {Part})
          /\ Len(Tail(c.rxq)) <= RxEvents
      BY <2>2, <3>2, ClientAssumption, HeadTailProperties
    <3>4. /\ z \in Clients /\ z.rxq = Tail(c.rxq) /\ z.ring = c.ring /\ z.tx = c.tx
          /\ z.state = c.state /\ z.rsp = c.rsp /\ z.at_rsp = c.at_rsp
          /\ z.fifo = c.fifo /\ z.resp = c.resp /\ z.missed = c.missed /\ z.twice = c.twice
      BY <1>0, <3>3 DEF Clients
    <3>5. SameLink(c, z)
      BY <1>0 DEF Clients, SameLink
    <3> HIDE DEF z, x
    <3>6. Bounded(z)
      BY <1>0, <3>3, <3>4 DEF Bounded
    <3> HIDE DEF t
    <3>7. /\ t \in Clients /\ Bounded(t) /\ SameLink(z, t)
          /\ t.ring = z.ring /\ t.rxq = z.rxq /\ t.twice = z.twice
          /\ (z.missed => t.missed) /\ Settled(z, t)
          /\ \/ t.missed
             \/ /\ z.state = "PENDING" /\ x \notin Noise
                /\ t.rsp = x /\ (x # Err => t.state = "OK")
             \/ /\ ~(z.state = "PENDING" /\ x \notin Noise) /\ t.state = z.state
                /\ t.rsp = z.rsp /\ t.at_rsp = z.at_rsp
      BY <3>1, <3>3, <3>4, <3>6, Parsed
    <3>8. SameLink(c, t)
      BY <3>5, <3>7 DEF SameLink
    <3>9. Settled(c, t)
      BY <3>4, <3>7 DEF Settled
    <3> QED BY <2>2, <3>4, <3>7, <3>8, <3>9
  <2> QED BY <2>1, <2>2
<1> HIDE DEF t
<1>3. u \in Clients /\ SameTalk(t, u)
  BY <1>2 DEF Clients, SameTalk
<1>4. /\ u.active = t.active /\ u.no_recovery = t.no_recovery /\ u.pin = t.pin
      /\ u.rx_en = t.rx_en /\ u.rx = t.rx /\ u.disabled = t.disabled /\ u.tx_en = t.tx_en
  BY <1>2 DEF Clients
<1> HIDE DEF u
<1>5. /\ v \in Clients /\ SameTalk(u, v)
      /\ v.active = u.active /\ v.no_recovery = u.no_recovery /\ v.pin = u.pin
      /\ v.disabled = u.disabled /\ v.rx_work = u.rx_work /\ v.tx_en = u.tx_en
      /\ v.rx_en = TRUE /\ v.rx = IF u.rx = "off" /\ ~u.rx_en THEN "on" ELSE u.rx
  BY <1>3, RxOn
<1> HIDE DEF v
<1>6. /\ SameTalk(t, c') /\ c' \in Clients /\ Bounded(c')
  <2>1. SameTalk(t, t) /\ SameTalk(t, u) /\ SameTalk(t, v)
    BY <1>2, <1>3, <1>5, TalkSame
  <2>2. Bounded(u) /\ Bounded(v)
    BY <1>2, <2>1, TalkSame
  <2> QED BY <1>1, <1>2, <1>3, <1>5, <2>1, <2>2
<1>7. RxInv(t, wpc) /\ PinInv(t, pc)
  BY <1>0, <1>2, LinkKept
<1>8. RxInv(c', wpc) /\ PinInv(c', pc)
  <2>1. CASE c' = t
    BY <1>7, <2>1
  <2>2. CASE u.no_recovery /\ c' = u
    <3>1. ~u.active
      BY <1>2, <1>4, <1>7, <2>2 DEF RxInv, Clients
    <3> QED BY <1>1, <1>4, <1>7, <2>2, <3>1 DEF RxInv, PinInv
  <2>3. CASE ~u.no_recovery /\ c' = v
    <3>1. u.active
      BY <1>2, <1>4, <1>7, <2>3 DEF RxInv, Clients
    <3>2. v.rx # "off"
      BY <1>4, <1>5, <1>7 DEF RxInv
    <3> QED BY <1>1, <1>4, <1>5, <1>7, <2>3, <3>1, <3>2 DEF RxInv, PinInv
  <2> QED BY <1>1, <2>1, <2>2, <2>3
<1>9. HostInv'
  BY <1>0, <1>1, <1>6, <1>8 DEF HostInv
<1>10. /\ c'.ring = c.ring /\ c'.twice = c.twice /\ (c.missed => c'.missed)
       /\ Settled(c, c')
       /\ \/ SameTalk(c, c')
          \/ c'.missed
          \/ /\ c.rxq # <<>> /\ c'.rxq = Tail(c.rxq)
             /\ \/ /\ c.state = "PENDING" /\ x \notin Noise
                   /\ c'.rsp = x /\ (x # Err => c'.state = "OK")
                \/ /\ ~(c.state = "PENDING" /\ x \notin Noise) /\ c'.state = c.state
                   /\ c'.rsp = c.rsp /\ c'.at_rsp = c.at_rsp
  <2> HIDE DEF x
  <2>1. SameTalk(c, t) => SameTalk(c, c')
    BY <1>0, <1>6, TalkSame
  <2>2. /\ c'.ring = t.ring /\ c'.twice = t.twice /\ c'.missed = t.missed
        /\ c'.rxq = t.rxq /\ c'.rsp = t.rsp /\ c'.state = t.state /\ c'.at_rsp = t.at_rsp
    BY <1>6 DEF SameTalk
  <2>3. Settled(c, c')
    BY <1>2, <2>2 DEF Settled
  <2> QED BY <1>2, <2>1, <2>2, <2>3
<1> QED BY <1>1, <1>9, <1>10

(* A transmission ends: the ring loses what was claimed, and goes on. *)
LEMMA SentKeeps ==
    ASSUME HostInv, ClientTxDone
    PROVE  /\ HostInv' /\ UNCHANGED <<pc, cmd, word, got>>
           /\ c'.state = c.state /\ c'.rsp = c.rsp /\ c'.at_rsp = c.at_rsp
           /\ c'.rxq = c.rxq /\ c'.missed = c.missed /\ (c.twice => c'.twice)
           /\ c'.twice \/ c'.ring = SubSeq(c.ring, c.tx + 1, Len(c.ring))
<1> DEFINE w == IF c.claimed THEN c.twice ELSE TRUE
           q == IF c.claimed THEN SubSeq(c.ring, c.tx + 1, Len(c.ring)) ELSE c.ring
           a == [c EXCEPT !.ring = q, !.tx = 0, !.claimed = FALSE, !.abort = FALSE]
           s == [a EXCEPT !.twice = w]
           d == [s EXCEPT !.tx_done = TRUE]
           e == tx_start(s)
           r == reschedule_disable(d)
<1>0. c \in Clients /\ Bounded(c) /\ pc \in {"idle", "wait", "late"} \cup Writing
  BY DEF HostInv
<1>1. UNCHANGED <<pc, wpc, cmd, word, got>> /\ (c' = r \/ c' = d \/ c' = e)
  <2>1. (c.twice \/ ~c.claimed) = w
    BY <1>0 DEF Clients
  <2>2. [c EXCEPT !.ring = q, !.tx = 0, !.claimed = FALSE, !.abort = FALSE, !.twice = w] = s
    BY <1>0 DEF Clients
  <2> DEFINE s0 == [c EXCEPT !.ring = q, !.tx = 0, !.claimed = FALSE, !.abort = FALSE,
                             !.twice = c.twice \/ ~c.claimed]
  <2>3. s0 = s
    BY <2>1, <2>2
  <2>4. /\ UNCHANGED <<pc, wpc, cmd, word, got>>
        /\ \/ c' = reschedule_disable([s0 EXCEPT !.tx_done = TRUE])
           \/ c' = tx_start(s0)
           \/ c' = [s0 EXCEPT !.tx_done = TRUE]
    BY DEF ClientTxDone
  <2> HIDE DEF s0, s
  <2> QED BY <2>3, <2>4
<1>2. /\ q \in Seq(Cmds \cup {Cr}) /\ Len(q) <= Len(c.ring) /\ Len(q) \in Nat
      /\ c.claimed => q = SubSeq(c.ring, c.tx + 1, Len(c.ring))
  <2>1. c.ring \in Seq(Cmds \cup {Cr}) /\ c.tx \in Nat /\ c.tx <= Len(c.ring)
    BY <1>0 DEF Clients, Bounded
  <2>2. /\ c.tx + 1 \in Int /\ Len(c.ring) \in Int
        /\ \A i \in c.tx + 1 .. Len(c.ring) : c.ring[i] \in Cmds \cup {Cr}
    BY <2>1, LenProperties, ElementOfSeq
  <2>3. /\ SubSeq(c.ring, c.tx + 1, Len(c.ring)) \in Seq(Cmds \cup {Cr})
        /\ Len(SubSeq(c.ring, c.tx + 1, Len(c.ring)))
             = IF c.tx + 1 <= Len(c.ring) THEN Len(c.ring) - (c.tx + 1) + 1 ELSE 0
    BY <2>2, SubSeqProperties
  <2>4. Len(SubSeq(c.ring, c.tx + 1, Len(c.ring))) <= Len(c.ring) /\ Len(c.ring) \in Nat
    BY <2>1, <2>3
  <2>5. /\ q = SubSeq(c.ring, c.tx + 1, Len(c.ring)) \/ q = c.ring
        /\ c.claimed => q = SubSeq(c.ring, c.tx + 1, Len(c.ring))
    OBVIOUS
  <2> HIDE DEF q
  <2>6. Len(q) <= Len(c.ring) /\ Len(q) \in Nat
    <3>1. CASE q = SubSeq(c.ring, c.tx + 1, Len(c.ring))
      BY <2>3, <2>4, <3>1, LenProperties, Zenon
    <3>2. CASE q = c.ring
      <4>1. \A n \in Nat : n <= n
        OBVIOUS
      <4> QED BY <2>4, <3>2, <4>1, Zenon
    <3> QED BY <2>5, <3>1, <3>2, Zenon
  <2>7. q \in Seq(Cmds \cup {Cr})
    BY <2>1, <2>3, <2>5
  <2> QED BY <2>5, <2>6, <2>7
<1>3. w \in BOOLEAN /\ (c.twice => w) /\ (w \/ c.claimed)
  BY <1>0 DEF Clients
<1> HIDE DEF q, w
<1>4. a \in Clients
  BY <1>0, <1>2 DEF Clients
<1>5. /\ a.state = c.state /\ a.rsp = c.rsp /\ a.at_rsp = c.at_rsp
      /\ a.rxq = c.rxq /\ a.ring = q /\ a.tx = 0 /\ a.fifo = c.fifo /\ a.resp = c.resp
      /\ a.missed = c.missed
  BY <1>0 DEF Clients
<1>6. SameLink(c, a)
  BY <1>0 DEF Clients, SameLink
<1> HIDE DEF a
<1>7. s \in Clients
  BY <1>3, <1>4, ZenonT(30) DEF Clients
<1>8. /\ s.state = c.state /\ s.rsp = c.rsp /\ s.at_rsp = c.at_rsp
      /\ s.rxq = c.rxq /\ s.ring = q /\ s.tx = 0 /\ s.fifo = c.fifo /\ s.resp = c.resp
      /\ s.missed = c.missed /\ s.twice = w
  BY <1>4, <1>5 DEF Clients
<1>9. SameLink(a, s)
  BY <1>4 DEF Clients, SameLink
<1>10. SameLink(c, s)
  BY <1>6, <1>9, LinkSame
<1> HIDE DEF s
<1>11. d \in Clients /\ SameTalk(s, d)
  BY <1>7 DEF Clients, SameTalk
<1>12. SameLink(s, d)
  BY <1>7 DEF Clients, SameLink
<1> HIDE DEF d
<1>13. e \in Clients /\ SameTalk(s, e) /\ SameLink(s, e)
  BY <1>7, Started
<1> HIDE DEF e
<1>14. r \in Clients /\ SameTalk(d, r) /\ SameLink(d, r)
  BY <1>11, Timer
<1> HIDE DEF r
<1>15. c' \in Clients /\ SameTalk(s, c')
  <2>1. SameTalk(s, r)
    BY <1>7, <1>11, <1>14, TalkSame
  <2> QED BY <1>1, <1>11, <1>13, <1>14, <2>1
<1>16. SameLink(c, c')
  <2>1. SameLink(s, r)
    BY <1>12, <1>14, LinkSame
  <2>2. SameLink(s, c')
    BY <1>1, <1>12, <1>13, <2>1
  <2> QED BY <1>10, <2>2, LinkSame
<1>17. Bounded(c')
  <2>1. Bounded(s)
    <3>1. c.ring \in Seq(Cmds \cup {Cr})
      BY <1>0 DEF Clients
    <3> QED BY <1>0, <1>2, <1>8, <3>1, ClientAssumption DEF Bounded
  <2> QED BY <1>7, <1>15, <2>1, TalkSame
<1>18. HostInv'
  BY <1>0, <1>1, <1>15, <1>16, <1>17, HostKept
<1>19. /\ c'.state = c.state /\ c'.rsp = c.rsp /\ c'.at_rsp = c.at_rsp
       /\ c'.rxq = c.rxq /\ c'.missed = c.missed /\ c'.twice = w /\ c'.ring = q
  BY <1>8, <1>15 DEF SameTalk
<1> QED BY <1>1, <1>2, <1>3, <1>18, <1>19

(* A transmission is aborted: nothing is left of it, and nobody waits. *)
LEMMA AbortedKeeps ==
    ASSUME HostInv, ClientTxAborted
    PROVE  /\ HostInv' /\ UNCHANGED <<cmd, word, got>> /\ SamePlace(pc, pc')
           /\ c.tx \in 1..Len(c.ring) /\ (pc = "wait" => pc' = "late")
           /\ c'.state = c.state /\ c'.rsp = c.rsp /\ ~c'.at_rsp
           /\ c'.rxq = c.rxq /\ c'.ring = <<>>
           /\ c'.missed = c.missed /\ c'.twice = c.twice
<1> DEFINE y == IF pc \in {"pin", "tx", "put", "room"} THEN TRUE ELSE c.cut
           a == [c EXCEPT !.ring = <<>>, !.tx = 0, !.claimed = FALSE, !.abort = FALSE]
           b == [a EXCEPT !.tx_done = TRUE, !.at_rsp = FALSE]
           s == [b EXCEPT !.cut = y]
<1>0. c \in Clients /\ Bounded(c) /\ pc \in {"idle", "wait", "late"} \cup Writing
  BY DEF HostInv
<1>1. /\ c.tx > 0 /\ UNCHANGED <<wpc, cmd, word, got>>
      /\ pc' = IF pc = "wait" THEN "late" ELSE pc
      /\ c' = reschedule_disable([c EXCEPT !.ring = <<>>, !.tx = 0, !.claimed = FALSE,
                   !.abort = FALSE, !.tx_done = TRUE, !.at_rsp = FALSE,
                   !.cut = c.cut \/ pc \in {"pin", "tx", "put", "room"}])
  BY DEF ClientTxAborted
<1>2. /\ c' = reschedule_disable(s)
  <2>1. (c.cut \/ pc \in {"pin", "tx", "put", "room"}) = y
    BY <1>0 DEF Clients
  <2>2. [c EXCEPT !.ring = <<>>, !.tx = 0, !.claimed = FALSE, !.abort = FALSE,
                  !.tx_done = TRUE, !.at_rsp = FALSE, !.cut = y] = s
    BY <1>0 DEF Clients
  <2> DEFINE s0 == [c EXCEPT !.ring = <<>>, !.tx = 0, !.claimed = FALSE, !.abort = FALSE,
                             !.tx_done = TRUE, !.at_rsp = FALSE,
                             !.cut = c.cut \/ pc \in {"pin", "tx", "put", "room"}]
  <2>3. s0 = s
    BY <2>1, <2>2
  <2>4. c' = reschedule_disable(s0)
    BY <1>1
  <2> HIDE DEF s0, s
  <2> QED BY <2>3, <2>4
<1>3. <<>> \in Seq(Cmds \cup {Cr}) /\ y \in BOOLEAN /\ Len(<<>>) = 0
  <2>1. y = TRUE \/ y = c.cut
    OBVIOUS
  <2>2. c.cut \in BOOLEAN
    BY <1>0 DEF Clients
  <2> HIDE DEF y
  <2>3. y \in BOOLEAN
    BY <2>1, <2>2, Zenon
  <2> QED BY <2>3
<1> HIDE DEF y
<1>4. a \in Clients
  BY <1>0, <1>3 DEF Clients
<1>5. /\ a.state = c.state /\ a.rsp = c.rsp /\ a.resp = c.resp
      /\ a.rxq = c.rxq /\ a.ring = <<>> /\ a.tx = 0 /\ a.fifo = c.fifo
      /\ a.missed = c.missed /\ a.twice = c.twice
  BY <1>0 DEF Clients
<1>6. SameLink(c, a)
  BY <1>0 DEF Clients, SameLink
<1> HIDE DEF a
<1>7. b \in Clients /\ b.at_rsp = FALSE
  BY <1>4 DEF Clients
<1>8. /\ b.state = a.state /\ b.rsp = a.rsp /\ b.resp = a.resp
      /\ b.rxq = a.rxq /\ b.ring = a.ring /\ b.tx = a.tx /\ b.fifo = a.fifo
      /\ b.missed = a.missed /\ b.twice = a.twice
  BY <1>4 DEF Clients
<1>9. SameLink(a, b)
  BY <1>4 DEF Clients, SameLink
<1> HIDE DEF b
<1>10. s \in Clients
  BY <1>3, <1>7, ZenonT(30) DEF Clients
<1>11. SameTalk(b, s) /\ SameLink(b, s)
  BY <1>7 DEF Clients, SameTalk, SameLink
<1> HIDE DEF s
<1>12. c' \in Clients /\ SameTalk(s, c') /\ SameLink(s, c')
  BY <1>2, <1>10, Timer
<1>13. SameTalk(b, c')
  BY <1>7, <1>11, <1>12, TalkSame
<1>14. SameLink(c, c')
  BY <1>6, <1>9, <1>11, <1>12 DEF SameLink
<1>15. Bounded(c')
  <2>1. Bounded(b)
    BY <1>0, <1>3, <1>5, <1>8, ClientAssumption DEF Bounded
  <2> QED BY <1>7, <1>13, <2>1, TalkSame
<1>16. HostInv'
  BY <1>0, <1>1, <1>12, <1>14, <1>15, HostKept
<1>17. c.tx \in 1..Len(c.ring)
  BY <1>0, <1>1 DEF Bounded, Clients
<1> QED BY <1>0, <1>1, <1>5, <1>7, <1>8, <1>13, <1>16, <1>17 DEF SameTalk, SamePlace

-----------------------------------------------------------------------------
(* What is on its way.                                                      *)

(* No command has failed so far, and nothing was lost or sent twice. *)
Clean ==
    /\ pc # "late" /\ ~c.missed /\ ~c.twice
    /\ \A k \in Cmds : got[k] # Failed

(* No response among the units of q; one of command k, and no other. *)
Free(q) == \A i \in 1..Len(q) : q[i] \in Noise
One(q, k) == \E i \in 1..Len(q) : q[i] = k /\ \A j \in 1..Len(q) : j = i \/ q[j] \in Noise

(* The response to command k is in one place at most (s is c, o is m.out). *)
Quiet(s, o) == Free(o) /\ Free(s.rxq)
OnTheWay(s, o, k) ==
    \/ Quiet(s, o)
    \/ One(o, k) /\ Free(s.rxq)
    \/ Free(o) /\ One(s.rxq, k)

Waiting(s) == s.state = "PENDING" /\ ~s.at_rsp

(* Where the thread is (p is pc, w is word, k is cmd), and where the command*)
(* and its response are; q is what was sent of it, but not read.            *)
Talk(s, o, q, p, w, k) ==
    /\ p = "idle" => Quiet(s, o) /\ q = <<>> /\ ~s.at_rsp
    /\ p \in Writing =>
          /\ Quiet(s, o) /\ Waiting(s)
          /\ \/ q = <<>>
             \/ w = Cr /\ q = <<k>>
    /\ p = "wait" =>
          \/ Waiting(s) /\ Quiet(s, o) /\ q \in {<<Cr>>, <<k, Cr>>}
          \/ Waiting(s) /\ OnTheWay(s, o, k) /\ q = <<>>
          \/ Quiet(s, o) /\ q = <<>> /\ s.state = "OK" /\ s.rsp = k

(* Commands are sent in turn. *)
Order ==
    /\ inbox \in Seq(Cmds \cup {Cr}) /\ cmd \in 0..MaxCmds /\ word \in Cmds \cup {Cr}
    /\ got \in [Cmds -> Cmds \cup {Open, Failed, Pending}]
    /\ pc # "idle" => cmd \in Cmds /\ word \in {cmd, Cr}
    /\ c.rsp \in Cmds \cup {Open, Err} /\ (c.rsp = Err => c.state # "OK")
    /\ \A k \in Cmds : k > cmd \/ (k = cmd /\ pc # "idle") => got[k] = Open

TalkInv ==
    /\ Order /\ AnswerMatches
    /\ Clean => Talk(c, m.out, inbox \o c.ring, pc, word, cmd)

(* A queue and its ends. *)
LEMMA QueueEnds ==
    ASSUME NEW S, NEW q \in Seq(S), NEW k \in Cmds
    PROVE  /\ Free(<<>>) /\ ~One(<<>>, k)
           /\ Free(q) => One(Append(q, k), k)
           /\ \A x \in Noise : /\ Free(q) => Free(Append(q, x))
                               /\ One(q, k) => One(Append(q, x), k)
           /\ q # <<>> /\ Free(q) => Head(q) \in Noise /\ Free(Tail(q))
           /\ q # <<>> /\ One(q, k) => \/ Head(q) \in Noise /\ One(Tail(q), k)
                                       \/ Head(q) = k /\ Free(Tail(q))
<1>0. Len(q) \in Nat
  OBVIOUS
<1>1. Free(<<>>) /\ ~One(<<>>, k)
  BY DEF Free, One
<1>2. ASSUME NEW x
      PROVE  /\ Len(Append(q, x)) = Len(q) + 1
             /\ Append(q, x)[Len(q) + 1] = x
             /\ \A i \in 1..Len(q) : Append(q, x)[i] = q[i]
  OBVIOUS
<1>3. ASSUME Free(q) PROVE One(Append(q, k), k)
  <2> DEFINE a == Append(q, k)
  <2>1. /\ Len(a) = Len(q) + 1 /\ a[Len(q) + 1] = k
        /\ \A i \in 1..Len(q) : a[i] \in Noise
    BY <1>0, <1>2, <1>3 DEF Free
  <2> HIDE DEF a
  <2>2. \A j \in 1..Len(a) : j = Len(q) + 1 \/ a[j] \in Noise
    BY <1>0, <2>1
  <2>3. Len(q) + 1 \in 1..Len(a)
    BY <1>0, <2>1
  <2>4. One(a, k)
    BY <2>1, <2>2, <2>3 DEF One
  <2> QED BY <2>4 DEF a
<1>4. ASSUME NEW x \in Noise
      PROVE  /\ Free(q) => Free(Append(q, x))
             /\ One(q, k) => One(Append(q, x), k)
  <2> DEFINE a == Append(q, x)
  <2>1. /\ Len(a) = Len(q) + 1 /\ a[Len(q) + 1] = x
        /\ \A j \in 1..Len(q) : a[j] = q[j]
    BY <1>2
  <2> HIDE DEF a
  <2>2. ASSUME Free(q) PROVE Free(a)
    BY <1>0, <2>1, <2>2 DEF Free
  <2>3. ASSUME One(q, k) PROVE One(a, k)
    <3>1. PICK i \in 1..Len(q) : q[i] = k /\ \A j \in 1..Len(q) : j = i \/ q[j] \in Noise
      BY <2>3 DEF One
    <3>2. i \in 1..Len(a) /\ a[i] = k /\ \A j \in 1..Len(a) : j = i \/ a[j] \in Noise
      BY <1>0, <2>1, <3>1
    <3> QED BY <3>2 DEF One
  <2> QED BY <2>2, <2>3 DEF a
<1>5. ASSUME q # <<>>
      PROVE  /\ Head(q) = q[1] /\ 1 \in 1..Len(q) /\ Len(Tail(q)) = Len(q) - 1
             /\ \A i \in 1..Len(Tail(q)) : Tail(q)[i] = q[i + 1]
  BY <1>5, HeadTailProperties
<1>6. ASSUME q # <<>>, Free(q) PROVE Head(q) \in Noise /\ Free(Tail(q))
  BY <1>0, <1>5, <1>6 DEF Free
<1>7. ASSUME q # <<>>, One(q, k)
      PROVE  \/ Head(q) \in Noise /\ One(Tail(q), k)
             \/ Head(q) = k /\ Free(Tail(q))
  <2> DEFINE b == Tail(q)
  <2>1. PICK i \in 1..Len(q) : q[i] = k /\ \A j \in 1..Len(q) : j = i \/ q[j] \in Noise
    BY <1>7 DEF One
  <2>2. /\ Head(q) = q[1] /\ 1 \in 1..Len(q) /\ Len(b) = Len(q) - 1
        /\ \A j \in 1..Len(b) : b[j] = q[j + 1]
    BY <1>5, <1>7
  <2> HIDE DEF b
  <2>3. CASE i = 1
    <3>1. Head(q) = k /\ Free(b)
      BY <1>0, <2>1, <2>2, <2>3 DEF Free
    <3> QED BY <3>1 DEF b
  <2>4. CASE i # 1
    <3>1. Head(q) \in Noise
      BY <2>1, <2>2, <2>4
    <3>2. i - 1 \in 1..Len(b) /\ b[i - 1] = k
      BY <1>0, <2>1, <2>2, <2>4
    <3>3. \A j \in 1..Len(b) : j = i - 1 \/ b[j] \in Noise
      BY <1>0, <2>1, <2>2, <2>4
    <3>4. One(b, k)
      BY <3>2, <3>3 DEF One
    <3> QED BY <3>1, <3>4 DEF b
  <2> QED BY <2>3, <2>4
<1> QED BY <1>1, <1>3, <1>4, <1>6, <1>7

(* What does not return a command keeps the order. *)
LEMMA OrderKept ==
    ASSUME TalkInv, UNCHANGED <<cmd, got>>, pc' # "idle" <=> pc # "idle",
           pc = "late" => pc' = "late", word' \in {word, Cr},
           inbox' \in Seq(Cmds \cup {Cr}), c.missed => c'.missed, c.twice => c'.twice,
           Settled(c, c')
    PROVE  Order' /\ AnswerMatches' /\ (Clean' => Clean)
<1>1. c'.rsp \in Cmds \cup {Open, Err} /\ (c'.rsp = Err => c'.state # "OK")
  BY NoUnit DEF TalkInv, Order, Settled, Open, Err
<1>2. Order'
  BY <1>1 DEF TalkInv, Order
<1>3. AnswerMatches' /\ (Clean' => Clean)
  BY DEF TalkInv, AnswerMatches, Clean
<1> QED BY <1>2, <1>3

(* Nothing changes for a command. *)
LEMMA TalkKept ==
    ASSUME TalkInv, SameTalk(c, c'), SamePlace(pc, pc'), m'.out = m.out,
           UNCHANGED <<inbox, cmd, word, got>>
    PROVE  TalkInv'
<1>1. /\ pc' # "idle" <=> pc # "idle"
      /\ pc = "late" => pc' = "late"
  BY DEF SamePlace, Writing
<1>2. Order' /\ AnswerMatches' /\ (Clean' => Clean)
  <2>1. /\ inbox' \in Seq(Cmds \cup {Cr}) /\ Settled(c, c')
        /\ c.missed => c'.missed
        /\ c.twice => c'.twice
    BY DEF TalkInv, Order, SameTalk, Settled
  <2> QED BY <1>1, <2>1, OrderKept
<1>3. ASSUME Clean, Clean' PROVE Talk(c', m.out, inbox \o c.ring, pc', word, cmd)
  <2> DEFINE q == inbox \o c.ring
  <2>1. Talk(c, m.out, q, pc, word, cmd) /\ pc' # "late"
    BY <1>3 DEF TalkInv, Clean
  <2> HIDE DEF q
  <2>2. /\ Quiet(c, m.out) => Quiet(c', m.out)
        /\ Waiting(c) => Waiting(c')
        /\ OnTheWay(c, m.out, cmd) => OnTheWay(c', m.out, cmd)
    BY DEF SameTalk, Quiet, Waiting, OnTheWay
  <2>3. pc' = pc \/ (pc \in Writing /\ pc' \in Writing /\ pc' \notin {"idle", "wait"})
    BY <2>1 DEF SamePlace, Writing
  <2>4. Talk(c', m.out, q, pc', word, cmd)
    BY <2>1, <2>2, <2>3 DEF SameTalk, Talk
  <2> QED BY <2>4 DEF q
<1>4. c'.ring = c.ring
  BY DEF SameTalk
<1> QED BY <1>2, <1>3, <1>4 DEF TalkInv

(* The command returns with x: its own response, or any if it is not the    *)
(* first to fail.                                                           *)
LEMMA Returned ==
    ASSUME Order, AnswerMatches, pc # "idle", pc' = "idle", UNCHANGED <<cmd, inbox>>,
           word' \in {word, Cr}, c'.missed = c.missed, c'.twice = c.twice, Settled(c, c'),
           NEW x \in Cmds \cup {Open, Failed, Pending}, got' = [got EXCEPT ![cmd] = x],
           x \in {Open, Failed, cmd} \/ (~Clean /\ pc # "late")
    PROVE  /\ Order' /\ AnswerMatches'
           /\ Clean' => x # Failed /\ (pc # "late" => Clean)
<1>0. /\ cmd \in Cmds /\ got \in [Cmds -> Cmds \cup {Open, Failed, Pending}]
      /\ got[cmd] = Open /\ Open # Failed /\ cmd \in Int /\ Cmds \subseteq Int
      /\ \A k \in Cmds : k > cmd => got[k] = Open
  BY DEF Order, Open, Failed, Cmds
<1>1. got'[cmd] = x /\ \A k \in Cmds : k # cmd => got'[k] = got[k]
  BY <1>0
<1>2. Order'
  <2>1. got' \in [Cmds -> Cmds \cup {Open, Failed, Pending}]
    BY <1>0
  <2>2. \A k \in Cmds : k > cmd => got'[k] = Open
    BY <1>0, <1>1
  <2>3. c'.rsp \in Cmds \cup {Open, Err} /\ (c'.rsp = Err => c'.state # "OK")
    BY NoUnit DEF Order, Settled, Open, Err
  <2> QED BY <2>1, <2>2, <2>3 DEF Order
<1>3. \A j \in Cmds : got[j] = Failed => j < cmd /\ got'[j] = Failed
  BY <1>0, <1>1
<1>4. AnswerMatches'
  <2> SUFFICES ASSUME NEW k \in Cmds
               PROVE  \/ got'[k] \in {Open, Failed, k} \/ c'.missed \/ c'.twice
                      \/ \E j \in Cmds : j < k /\ got'[j] = Failed
    BY DEF AnswerMatches
  <2>1. CASE k = cmd
    BY <1>1, <1>3, <2>1 DEF Clean
  <2>2. CASE k # cmd
    BY <1>1, <1>3, <2>2 DEF AnswerMatches
  <2> QED BY <2>1, <2>2
<1>5. Clean' => x # Failed /\ (pc # "late" => Clean)
  BY <1>0, <1>1, <1>3 DEF Clean
<1> QED BY <1>2, <1>4, <1>5

(* A command is begun. *)
LEMMA BeginTalks ==
    ASSUME HostInv, TalkInv, NEW k \in Cmds, cmd = k - 1,
           sm_at_client_send_cmd(k), UNCHANGED <<m, inbox>>
    PROVE  TalkInv'
<1>1. /\ pc' \in {"pin", "put"} /\ c'.state = "PENDING" /\ c'.at_rsp = c.at_rsp
      /\ c'.ring = c.ring /\ c'.rxq = c.rxq /\ word' = k
      /\ c'.missed = c.missed /\ c'.twice = c.twice /\ Settled(c, c')
  BY BeginKeeps
<1>2. pc = "idle" /\ cmd' = k /\ got' = got
  BY DEF sm_at_client_send_cmd
<1>3. Order' /\ AnswerMatches' /\ (Clean' => Clean)
  <2>1. k \in 0..MaxCmds /\ cmd < k /\ Cmds \subseteq Int
    BY LinkAssumption DEF Cmds
  <2>2. Order'
    <3>1. c'.rsp \in Cmds \cup {Open, Err} /\ (c'.rsp = Err => c'.state # "OK")
      BY <1>1, NoUnit DEF TalkInv, Order, Settled, Open, Err
    <3> QED BY <1>1, <1>2, <2>1, <3>1 DEF TalkInv, Order
  <2>3. AnswerMatches' /\ (Clean' => Clean)
    BY <1>1, <1>2 DEF TalkInv, AnswerMatches, Clean
  <2> QED BY <2>2, <2>3
<1>4. ASSUME Clean PROVE Talk(c', m.out, inbox \o c.ring, pc', k, k)
  <2>1. Quiet(c, m.out) /\ ~c.at_rsp /\ inbox \o c.ring = <<>>
    BY <1>2, <1>4 DEF TalkInv, Talk
  <2> QED BY <1>1, <2>1 DEF Talk, Quiet, Waiting
<1> QED BY <1>1, <1>2, <1>3, <1>4 DEF TalkInv

(* A text and its terminator. *)
LEMMA Pair ==
    ASSUME NEW a, NEW b
    PROVE  Append(<<a>>, b) = <<a, b>>
<1>1. /\ <<a>> \in Seq({a, b}) /\ <<a, b>> \in Seq({a, b})
      /\ Len(<<a>>) = 1 /\ Len(<<a, b>>) = 2
  OBVIOUS
<1>2. /\ Append(<<a>>, b) \in Seq({a, b}) /\ Len(Append(<<a>>, b)) = 2
      /\ \A i \in 1..2 : Append(<<a>>, b)[i] = <<a, b>>[i]
  BY <1>1, AppendProperties
<1> QED BY <1>1, <1>2, SeqEqual

(* What the host queues comes last, and a transmission only moves it. *)
LEMMA Queued ==
    ASSUME HostInv, TalkInv
    PROVE  /\ \A x \in Cmds \cup {Cr} :
                 inbox \o Append(c.ring, x) = Append(inbox \o c.ring, x)
           /\ \A n \in 0..Len(c.ring) :
                 /\ SubSeq(c.ring, 1, n) \in Seq(Cmds \cup {Cr})
                 /\ inbox \o SubSeq(c.ring, 1, n) \in Seq(Cmds \cup {Cr})
                 /\ (inbox \o SubSeq(c.ring, 1, n)) \o SubSeq(c.ring, n + 1, Len(c.ring))
                       = inbox \o c.ring
<1> DEFINE T == Cmds \cup {Cr}
<1>1. inbox \in Seq(T) /\ c.ring \in Seq(T)
  BY DEF HostInv, Clients, TalkInv, Order
<1> HIDE DEF T
<1>2. ASSUME NEW x \in T
      PROVE  inbox \o Append(c.ring, x) = Append(inbox \o c.ring, x)
  <2>1. inbox \o c.ring \in Seq(T)
    BY <1>1, ConcatProperties
  <2> DEFINE y == <<x>>
  <2>2. y \in Seq(T)
    OBVIOUS
  <2>3. Append(c.ring, x) = c.ring \o y
    BY <1>1, AppendIsConcat
  <2>4. Append(inbox \o c.ring, x) = (inbox \o c.ring) \o y
    BY <2>1, AppendIsConcat
  <2> HIDE DEF y
  <2>5. (inbox \o c.ring) \o y = inbox \o (c.ring \o y)
    <3> DEFINE b == c.ring
    <3>1. b \in Seq(T) /\ inbox \in Seq(T)
      BY <1>1
    <3> HIDE DEF b
    <3>2. (inbox \o b) \o y = inbox \o (b \o y)
      BY <2>2, <3>1
    <3> QED BY <3>2 DEF b
  <2> QED BY <2>3, <2>4, <2>5
<1>3. ASSUME NEW n \in 0..Len(c.ring)
      PROVE  /\ SubSeq(c.ring, 1, n) \in Seq(T)
             /\ inbox \o SubSeq(c.ring, 1, n) \in Seq(T)
             /\ (inbox \o SubSeq(c.ring, 1, n)) \o SubSeq(c.ring, n + 1, Len(c.ring))
                   = inbox \o c.ring
  <2> DEFINE a == SubSeq(c.ring, 1, n)
             b == SubSeq(c.ring, n + 1, Len(c.ring))
  <2>1. /\ 1 \in 1..Len(c.ring) + 1 /\ n \in (1 - 1)..Len(c.ring)
        /\ Len(c.ring) \in n..Len(c.ring) /\ Len(c.ring) \in Nat
    BY <1>1
  <2>2. a \o b = SubSeq(c.ring, 1, Len(c.ring))
    BY <1>1, <2>1, ConcatAdjacentSubSeq
  <2>3. SubSeq(c.ring, 1, Len(c.ring)) = c.ring
    BY <1>1, SubSeqFull
  <2>4. \A i \in 1..Len(c.ring) : c.ring[i] \in T
    BY <1>1, ElementOfSeq
  <2>5. a \in Seq(T)
    <3>1. \A i \in 1..n : c.ring[i] \in T
      BY <1>1, <2>1, <2>4
    <3> QED BY <2>1, <3>1, SubSeqProperties
  <2>6. b \in Seq(T)
    <3>1. \A i \in (n + 1)..Len(c.ring) : c.ring[i] \in T
      BY <1>1, <2>1, <2>4
    <3> QED BY <2>1, <3>1, SubSeqProperties
  <2> HIDE DEF a, b
  <2>7. inbox \o a \in Seq(T)
    BY <1>1, <2>5, ConcatProperties
  <2>8. (inbox \o a) \o b = inbox \o (a \o b)
    BY <1>1, <2>5, <2>6
  <2> QED BY <2>2, <2>3, <2>5, <2>7, <2>8 DEF a, b
<1> QED BY <1>2, <1>3 DEF T


(* The text is queued, after all that was before it. *)
LEMMA QueueTalks ==
    ASSUME HostInv, TalkInv, PutText, UNCHANGED <<m, inbox>>
    PROVE  TalkInv'
<1>0. word \in Cmds \cup {Cr}
  BY DEF TalkInv, Order
<1>1. /\ pc = "put" /\ pc' \in {"pin", "put"} /\ word # Cr /\ word' = Cr
      /\ UNCHANGED <<cmd, got>>
      /\ c'.state = c.state /\ c'.at_rsp = c.at_rsp /\ c'.rxq = c.rxq
      /\ c'.missed = c.missed /\ c'.twice = c.twice /\ c'.ring = Append(c.ring, word)
      /\ Settled(c, c')
  BY <1>0, QueueKeeps DEF Settled
<1>2. Order' /\ AnswerMatches' /\ (Clean' => Clean)
  <2>1. inbox' \in Seq(Cmds \cup {Cr})
    BY DEF TalkInv, Order
  <2> QED BY <1>1, <2>1, OrderKept
<1>3. ASSUME Clean PROVE Talk(c', m.out, inbox \o c'.ring, pc', Cr, cmd)
  <2>1. /\ Talk(c, m.out, inbox \o c.ring, pc, word, cmd) /\ word = cmd
    BY <1>1, <1>3 DEF TalkInv, Order
  <2>2. Quiet(c, m.out) /\ Waiting(c) /\ inbox \o c.ring = <<>>
    BY <1>1, <2>1 DEF Talk, Writing
  <2>3. inbox \o c'.ring = Append(inbox \o c.ring, cmd)
    BY <1>0, <1>1, <2>1, Queued
  <2>4. inbox \o c'.ring = <<cmd>>
    BY <2>2, <2>3
  <2>5. Quiet(c', m.out) /\ Waiting(c')
    BY <1>1, <2>2 DEF Quiet, Waiting
  <2> QED BY <1>1, <2>4, <2>5 DEF Talk
<1> QED BY <1>1, <1>2, <1>3 DEF TalkInv

(* So is the terminator. *)
LEMMA EndTalks ==
    ASSUME HostInv, TalkInv, PutTerminator, UNCHANGED <<m, inbox>>
    PROVE  TalkInv'
<1>1. /\ pc = "put" /\ word = Cr /\ UNCHANGED <<cmd, word>>
      /\ c'.state = c.state /\ c'.at_rsp = c.at_rsp /\ c'.rxq = c.rxq
      /\ c'.missed = c.missed /\ c'.twice = c.twice /\ c'.ring = Append(c.ring, Cr)
      /\ Settled(c, c')
      /\ \/ pc' = "wait" /\ got' = got
         \/ pc' = "idle" /\ got' = [got EXCEPT ![cmd] = Failed]
  BY EndKeeps DEF Settled
<1>2. CASE pc' = "wait" /\ got' = got
  <2>1. Order' /\ AnswerMatches' /\ (Clean' => Clean)
    <3>1. inbox' \in Seq(Cmds \cup {Cr})
      BY DEF TalkInv, Order
    <3> QED BY <1>1, <1>2, <3>1, OrderKept
  <2>2. ASSUME Clean PROVE Talk(c', m.out, inbox \o c'.ring, "wait", Cr, cmd)
    <3>1. Talk(c, m.out, inbox \o c.ring, pc, word, cmd)
      BY <2>2 DEF TalkInv
    <3>2. Quiet(c, m.out) /\ Waiting(c) /\ inbox \o c.ring \in {<<>>, <<cmd>>}
      BY <1>1, <3>1 DEF Talk, Writing
    <3>3. inbox \o c'.ring = Append(inbox \o c.ring, Cr)
      BY <1>1, Queued
    <3>4. inbox \o c'.ring \in {<<Cr>>, <<cmd, Cr>>}
      <4>1. CASE inbox \o c.ring = <<>>
        BY <3>3, <4>1
      <4>2. CASE inbox \o c.ring = <<cmd>>
        <5>1. Append(<<cmd>>, Cr) = <<cmd, Cr>>
          BY Pair
        <5> QED BY <3>3, <4>2, <5>1
      <4> QED BY <3>2, <4>1, <4>2
    <3>5. Quiet(c', m.out) /\ Waiting(c')
      BY <1>1, <3>2 DEF Quiet, Waiting
    <3> QED BY <3>4, <3>5 DEF Talk, Writing
  <2> QED BY <1>1, <1>2, <2>1, <2>2 DEF TalkInv
<1>3. CASE pc' = "idle" /\ got' = [got EXCEPT ![cmd] = Failed]
  <2>1. Order' /\ AnswerMatches' /\ ~Clean'
    BY <1>1, <1>3, Returned DEF TalkInv
  <2> QED BY <2>1 DEF TalkInv
<1> QED BY <1>1, <1>2, <1>3

(* The command fails. *)
LEMMA FailTalks ==
    ASSUME HostInv, TalkInv, UNCHANGED <<m, inbox>>,
           \/ GiveUp
           \/ PutFull /\ pc' # "room"
           \/ Room /\ ~CanSend(c)
    PROVE  TalkInv'
<1>1. /\ pc # "idle" /\ pc' = "idle" /\ cmd' = cmd /\ word' = Cr
      /\ c'.missed = c.missed /\ c'.twice = c.twice /\ Settled(c, c')
      /\ got' = [got EXCEPT ![cmd] = Failed]
  BY FailKeeps
<1>2. Order' /\ AnswerMatches' /\ ~Clean'
  BY <1>1, Returned DEF TalkInv
<1> QED BY <1>2 DEF TalkInv

(* It returns. *)
LEMMA ReturnTalks ==
    ASSUME HostInv, TalkInv, Answered, UNCHANGED <<m, inbox>>
    PROVE  TalkInv'
<1>1. /\ pc = "wait" /\ pc' = "idle" /\ UNCHANGED <<cmd, word>>
      /\ c.at_rsp /\ ~c'.at_rsp /\ c'.state = c.state
      /\ c'.ring = c.ring /\ c'.rxq = c.rxq
      /\ c'.missed = c.missed /\ c'.twice = c.twice /\ Settled(c, c')
  BY AnswerKeeps DEF Settled
<1> DEFINE x == IF c.state = "PENDING" THEN Pending
                ELSE IF c.state = "ERROR" THEN Failed ELSE c.rsp
           q == inbox \o c.ring
<1>2. got' = [got EXCEPT ![cmd] = x]
  BY DEF Answered
<1>3. ASSUME Clean PROVE x = cmd /\ Quiet(c, m.out) /\ q = <<>>
  <2>1. Talk(c, m.out, q, pc, word, cmd)
    BY <1>3 DEF TalkInv
  <2> HIDE DEF q
  <2> QED BY <1>1, <2>1 DEF Talk, Waiting
<1>4. x \in Cmds \cup {Open, Failed, Pending}
  <2>1. /\ c.rsp \in Cmds \cup {Open, Err} /\ (c.rsp = Err => c.state # "OK")
        /\ c.state \in {"OK", "PENDING", "ERROR"}
    BY DEF TalkInv, Order, HostInv, Clients
  <2> QED BY <2>1
<1> HIDE DEF x
<1>5. Order' /\ AnswerMatches' /\ (Clean' => Clean)
  BY <1>1, <1>2, <1>3, <1>4, Returned DEF TalkInv
<1>6. Clean => Talk(c', m.out, q, "idle", word, cmd)
  BY <1>1, <1>3 DEF Talk, Quiet, Writing
<1> QED BY <1>1, <1>5, <1>6 DEF TalkInv



(* What was received is parsed: the first response is the command's own. *)
LEMMA ProcessTalks ==
    ASSUME HostInv, TalkInv, rx_process, UNCHANGED <<m, inbox>>
    PROVE  TalkInv'
<1> DEFINE x == Head(c.rxq)
<1>1. /\ UNCHANGED <<pc, cmd, word, got>> /\ c'.ring = c.ring /\ c'.twice = c.twice
      /\ (c.missed => c'.missed) /\ Settled(c, c')
      /\ \/ SameTalk(c, c')
         \/ c'.missed
         \/ /\ c.rxq # <<>> /\ c'.rxq = Tail(c.rxq)
            /\ \/ /\ c.state = "PENDING" /\ x \notin Noise
                  /\ c'.rsp = x /\ (x # Err => c'.state = "OK")
               \/ /\ ~(c.state = "PENDING" /\ x \notin Noise) /\ c'.state = c.state
                  /\ c'.rsp = c.rsp /\ c'.at_rsp = c.at_rsp
  BY ProcessKeeps
<1>2. Order' /\ AnswerMatches' /\ (Clean' => Clean)
  <2>1. inbox' \in Seq(Cmds \cup {Cr})
    BY DEF TalkInv, Order
  <2> QED BY <1>1, <2>1, OrderKept
<1>3. CASE SameTalk(c, c')
  BY <1>1, <1>3, TalkKept DEF SamePlace
<1>4. CASE ~SameTalk(c, c')
  <2> DEFINE q == c.rxq
             sent == inbox \o c.ring
  <2>1. ASSUME Clean, Clean' PROVE Talk(c', m.out, sent, pc, word, cmd)
    <3>1. /\ Talk(c, m.out, sent, pc, word, cmd) /\ (pc # "idle" => cmd \in Cmds)
          /\ 1 \in Cmds /\ pc # "late" /\ pc \in {"idle", "wait", "late"} \cup Writing
      BY <2>1, LinkAssumption DEF TalkInv, Order, Cmds, Clean, HostInv
    <3>2. /\ q # <<>> /\ q \in Seq(Units \cup {Part}) /\ c'.rxq = Tail(q)
          /\ \/ /\ c.state = "PENDING" /\ x \notin Noise
                /\ c'.rsp = x /\ (x # Err => c'.state = "OK")
             \/ /\ ~(c.state = "PENDING" /\ x \notin Noise) /\ c'.state = c.state
                /\ c'.rsp = c.rsp /\ c'.at_rsp = c.at_rsp
      BY <1>1, <1>4, <2>1 DEF HostInv, Clients, Clean
    <3> HIDE DEF x, q, sent
    <3>3. ASSUME Free(q)
          PROVE  x \in Noise /\ Free(c'.rxq) /\ c'.state = c.state /\ c'.rsp = c.rsp
                 /\ c'.at_rsp = c.at_rsp
      <4>1. x \in Noise /\ Free(Tail(q))
        BY <3>1, <3>2, <3>3, QueueEnds DEF x, q
      <4> QED BY <3>2, <4>1
    <3>4. CASE Quiet(c, m.out)
      <4>1. Quiet(c', m.out) /\ (Waiting(c) => Waiting(c'))
        BY <3>3, <3>4 DEF Quiet, Waiting, q
      <4>2. c'.state = c.state /\ c'.rsp = c.rsp /\ c'.at_rsp = c.at_rsp
        BY <3>3, <3>4 DEF Quiet, q
      <4> QED BY <3>1, <4>1, <4>2 DEF Talk, OnTheWay
    <3>5. CASE ~Quiet(c, m.out)
      <4>1. /\ pc = "wait" /\ Waiting(c) /\ OnTheWay(c, m.out, cmd) /\ sent = <<>>
            /\ cmd \in Cmds
        BY <3>1, <3>5 DEF Talk
      <4>2. CASE Free(q)
        <5>1. Waiting(c') /\ OnTheWay(c', m.out, cmd)
          BY <3>3, <3>5, <4>1, <4>2, QueueEnds DEF Waiting, OnTheWay, Quiet, q
        <5> QED BY <4>1, <5>1 DEF Talk, Writing
      <4>3. CASE ~Free(q)
        <5>1. One(q, cmd) /\ Free(m.out)
          BY <4>1, <4>3 DEF OnTheWay, Quiet, q
        <5>2. \/ x \in Noise /\ One(Tail(q), cmd)
              \/ x = cmd /\ Free(Tail(q)) /\ x \notin Noise /\ x # Err
          BY <3>2, <4>1, <5>1, QueueEnds, NoUnit DEF Noise, x, q
        <5>3. CASE x \in Noise /\ One(Tail(q), cmd)
          <6>1. Waiting(c') /\ OnTheWay(c', m.out, cmd)
            BY <3>2, <4>1, <5>1, <5>3 DEF Waiting, OnTheWay
          <6> QED BY <4>1, <6>1 DEF Talk, Writing
        <5>4. CASE x = cmd /\ Free(Tail(q)) /\ x \notin Noise /\ x # Err
          <6>1. Quiet(c', m.out) /\ c'.state = "OK" /\ c'.rsp = cmd
            BY <3>2, <4>1, <5>1, <5>4 DEF Waiting, Quiet
          <6> QED BY <4>1, <6>1 DEF Talk, Writing
        <5> QED BY <5>2, <5>3, <5>4
      <4> QED BY <4>2, <4>3
    <3> QED BY <3>4, <3>5
  <2> QED BY <1>1, <1>2, <2>1 DEF TalkInv
<1> QED BY <1>3, <1>4

(* A transmission ends: what was sent is with the modem. *)
LEMMA SentTalks ==
    ASSUME HostInv, TalkInv, ClientTxDone, inbox' = inbox \o SubSeq(c.ring, 1, c.tx),
           UNCHANGED m
    PROVE  TalkInv'
<1>1. /\ UNCHANGED <<pc, cmd, word, got>>
      /\ c'.state = c.state /\ c'.rsp = c.rsp /\ c'.at_rsp = c.at_rsp
      /\ c'.rxq = c.rxq /\ c'.missed = c.missed /\ (c.twice => c'.twice)
      /\ c'.twice \/ c'.ring = SubSeq(c.ring, c.tx + 1, Len(c.ring))
  BY SentKeeps
<1>2. c.tx \in 0..Len(c.ring)
  BY DEF HostInv, Bounded, Clients
<1>3. /\ inbox' \in Seq(Cmds \cup {Cr})
      /\ c'.twice \/ inbox' \o c'.ring = inbox \o c.ring
  BY <1>1, <1>2, Queued
<1>4. Order' /\ AnswerMatches' /\ (Clean' => Clean)
  BY <1>1, <1>3, OrderKept DEF Settled
<1>5. ASSUME Clean, Clean' PROVE Talk(c', m.out, inbox' \o c'.ring, pc, word, cmd)
  <2> DEFINE q == inbox \o c.ring
  <2>1. Talk(c, m.out, q, pc, word, cmd) /\ inbox' \o c'.ring = q
    BY <1>3, <1>5 DEF TalkInv, Clean
  <2> HIDE DEF q
  <2>2. /\ Quiet(c, m.out) => Quiet(c', m.out)
        /\ Waiting(c) => Waiting(c')
        /\ OnTheWay(c, m.out, cmd) => OnTheWay(c', m.out, cmd)
    BY <1>1 DEF Quiet, Waiting, OnTheWay
  <2>3. Talk(c', m.out, q, pc, word, cmd)
    BY <1>1, <2>1, <2>2 DEF Talk
  <2> QED BY <2>1, <2>3
<1> QED BY <1>1, <1>4, <1>5 DEF TalkInv

(* A transmission is aborted: the modem may have the text, and the thread   *)
(* is not left to wait.                                                     *)
LEMMA AbortedTalks ==
    ASSUME HostInv, TalkInv, ClientTxAborted, NEW n \in 0..c.tx,
           inbox' = inbox \o SubSeq(c.ring, 1, n), UNCHANGED m
    PROVE  TalkInv'
<1>1. /\ UNCHANGED <<cmd, word, got>> /\ SamePlace(pc, pc')
      /\ c.tx \in 1..Len(c.ring) /\ (pc = "wait" => pc' = "late")
      /\ c'.state = c.state /\ c'.rsp = c.rsp /\ ~c'.at_rsp
      /\ c'.rxq = c.rxq /\ c'.ring = <<>>
      /\ c'.missed = c.missed /\ c'.twice = c.twice
  BY AbortedKeeps
<1>2. inbox \in Seq(Cmds \cup {Cr}) /\ c.ring \in Seq(Cmds \cup {Cr})
  BY DEF HostInv, Clients, TalkInv, Order
<1>3. n \in 0..Len(c.ring) /\ Len(c.ring) > 0
  BY <1>1, <1>2
<1>4. inbox' \in Seq(Cmds \cup {Cr})
  BY <1>3, Queued
<1>5. /\ pc' # "idle" <=> pc # "idle"
      /\ pc = "late" => pc' = "late"
  BY <1>1 DEF SamePlace, Writing
<1>6. Order' /\ AnswerMatches' /\ (Clean' => Clean)
  BY <1>1, <1>4, <1>5, OrderKept DEF Settled
<1>7. ASSUME Clean, Clean' PROVE Talk(c', m.out, inbox' \o c'.ring, pc', word, cmd)
  <2> DEFINE q == inbox \o c.ring
  <2>1. /\ Talk(c, m.out, q, pc, word, cmd) /\ pc # "wait" /\ pc # "late"
        /\ pc \in {"idle", "wait", "late"} \cup Writing
    BY <1>1, <1>7 DEF TalkInv, Clean, HostInv
  <2>2. /\ q \in Seq(Cmds \cup {Cr}) /\ Len(q) = Len(inbox) + Len(c.ring)
        /\ \A i \in 1..Len(inbox) + Len(c.ring) :
             q[i] = IF i <= Len(inbox) THEN inbox[i] ELSE c.ring[i - Len(inbox)]
    BY <1>2, ConcatProperties
  <2> HIDE DEF q
  <2>3. q # <<>> /\ Len(inbox) \in Nat /\ Len(c.ring) \in Nat
    BY <1>2, <1>3, <2>2
  <2>4. pc \in Writing /\ Quiet(c, m.out) /\ Waiting(c) /\ word = Cr /\ q = <<cmd>>
    BY <2>1, <2>3 DEF Talk
  <2>5. Len(q) = 1 /\ q[1] = cmd
    BY <2>4
  <2>6. Len(inbox) = 0 /\ Len(c.ring) = 1
    <3>1. Len(inbox) + Len(c.ring) = 1 /\ Len(c.ring) > 0
      BY <1>3, <2>2, <2>5
    <3>2. \A i, j \in Nat : i + j = 1 /\ j > 0 => i = 0 /\ j = 1
      OBVIOUS
    <3> QED BY <2>3, <3>1, <3>2, Zenon
  <2>7. inbox = <<>> /\ c.ring[1] = cmd
    BY <1>2, <2>2, <2>5, <2>6
  <2>8. inbox' \o c'.ring = SubSeq(c.ring, 1, n)
    <3>1. SubSeq(c.ring, 1, n) \in Seq(Cmds \cup {Cr})
      BY <1>3, Queued
    <3>2. inbox' = SubSeq(c.ring, 1, n)
      BY <2>7, <3>1, ConcatEmptySeq
    <3> QED BY <1>1, <3>1, <3>2, ConcatEmptySeq
  <2>9. SubSeq(c.ring, 1, n) \in {<<>>, <<cmd>>}
    <3>1. n = 0 \/ n = Len(c.ring)
      BY <1>3, <2>6
    <3>2. CASE n = 0
      BY <3>2, SubSeqEmpty
    <3>3. CASE n = Len(c.ring)
      <4>1. SubSeq(c.ring, 1, n) = c.ring
        BY <1>2, <3>3, SubSeqFull
      <4>2. c.ring = <<cmd>>
        BY <1>2, <2>6, <2>7
      <4> QED BY <4>1, <4>2
    <3> QED BY <3>1, <3>2, <3>3
  <2>10. pc' \in Writing /\ pc' \notin {"idle", "wait"}
    BY <1>1, <1>7, <2>4 DEF SamePlace, Writing, Clean
  <2>11. Quiet(c', m.out) /\ Waiting(c')
    BY <1>1, <2>4 DEF Quiet, Waiting
  <2> QED BY <2>4, <2>8, <2>9, <2>10, <2>11 DEF Talk
<1> QED BY <1>1, <1>6, <1>7 DEF TalkInv


(* The modem has a URC. *)
LEMMA UrcTalks ==
    ASSUME ModemInv, HostInv, TalkInv, SameTalk(c, c'), m'.out = Append(m.out, Urc),
           UNCHANGED <<pc, cmd, word, got, inbox>>
    PROVE  TalkInv'
<1>1. Order' /\ AnswerMatches' /\ (Clean' => Clean)
  <2>1. /\ inbox' \in Seq(Cmds \cup {Cr}) /\ Settled(c, c')
        /\ c.missed => c'.missed
        /\ c.twice => c'.twice
    BY DEF TalkInv, Order, SameTalk, Settled
  <2> QED BY <2>1, OrderKept
<1>2. ASSUME Clean PROVE Talk(c', m'.out, inbox \o c.ring, pc, word, cmd)
  <2> DEFINE q == inbox \o c.ring
             o == m.out
  <2>1. /\ Talk(c, o, q, pc, word, cmd) /\ (pc # "idle" => cmd \in Cmds)
        /\ o \in Seq(Units) /\ 1 \in Cmds /\ m'.out = Append(o, Urc)
    BY <1>2, LinkAssumption DEF TalkInv, Order, Cmds, ModemInv, Drivers
  <2> HIDE DEF q, o
  <2>2. Free(o) => Free(m'.out)
    BY <2>1, QueueEnds DEF Noise
  <2>3. cmd \in Cmds /\ One(o, cmd) => One(m'.out, cmd)
    BY <2>1, QueueEnds DEF Noise
  <2>4. /\ Quiet(c, o) => Quiet(c', m'.out)
        /\ Waiting(c) => Waiting(c')
        /\ cmd \in Cmds /\ OnTheWay(c, o, cmd) => OnTheWay(c', m'.out, cmd)
    BY <2>2, <2>3 DEF Quiet, OnTheWay, Waiting, SameTalk
  <2>5. Talk(c', m'.out, q, pc, word, cmd)
    BY <2>1, <2>4 DEF Talk, SameTalk
  <2> QED BY <2>5 DEF q
<1> QED BY <1>1, <1>2 DEF TalkInv, SameTalk

(* It answers a line: that of the command. *)
LEMMA ReplyTalks ==
    ASSUME ModemInv, HostInv, TalkInv, SameTalk(c, c'), UNCHANGED <<pc, cmd, word, got>>,
           NEW i \in 2..Len(inbox), Line(i), inbox' = SubSeq(inbox, i + 1, Len(inbox)),
           m'.out = Append(m.out, IF i = 2 THEN inbox[1] ELSE Err)
    PROVE  TalkInv'
<1>1. inbox \in Seq(Cmds \cup {Cr}) /\ c.ring \in Seq(Cmds \cup {Cr}) /\ m.out \in Seq(Units)
  BY DEF HostInv, Clients, TalkInv, Order, ModemInv, Drivers
<1>2. inbox' \in Seq(Cmds \cup {Cr})
  <2>1. /\ i + 1 \in Int /\ Len(inbox) \in Int
        /\ \A j \in (i + 1)..Len(inbox) : inbox[j] \in Cmds \cup {Cr}
    BY <1>1, ElementOfSeq
  <2> QED BY <2>1, SubSeqProperties
<1>3. Order' /\ AnswerMatches' /\ (Clean' => Clean)
  <2>1. /\ Settled(c, c')
        /\ c.missed => c'.missed
        /\ c.twice => c'.twice
    BY DEF SameTalk, Settled
  <2> QED BY <1>2, <2>1, OrderKept
<1>4. ASSUME Clean PROVE Talk(c', m'.out, inbox' \o c.ring, pc, word, cmd)
  <2> DEFINE q == inbox \o c.ring
  <2>1. /\ Talk(c, m.out, q, pc, word, cmd) /\ (pc # "idle" => cmd \in Cmds)
        /\ pc \in {"idle", "wait"} \cup Writing
    BY <1>4 DEF TalkInv, Order, HostInv, Clean
  <2>2. /\ Len(q) = Len(inbox) + Len(c.ring) /\ Len(inbox) >= 2
        /\ Len(inbox) \in Nat /\ Len(c.ring) \in Nat
    BY <1>1, ConcatProperties
  <2> HIDE DEF q
  <2>3. pc = "wait" /\ Waiting(c) /\ Quiet(c, m.out) /\ q = <<cmd, Cr>>
    <3>1. Len(q) # 0 /\ Len(q) # 1
      BY <2>2
    <3>2. Len(<<>>) = 0 /\ Len(<<cmd>>) = 1 /\ Len(<<Cr>>) = 1
      OBVIOUS
    <3>3. q # <<>> /\ q # <<cmd>> /\ q # <<Cr>>
      BY <3>1, <3>2, Zenon
    <3> QED BY <2>1, <3>3 DEF Talk
  <2>4. Len(q) = 2 /\ q[1] = cmd
    BY <2>3
  <2>5. Len(inbox) = 2 /\ Len(c.ring) = 0
    <3>1. \A a, b \in Nat : a + b = 2 /\ a >= 2 => a = 2 /\ b = 0
      OBVIOUS
    <3>2. Len(inbox) + Len(c.ring) = 2
      BY <2>2, <2>4
    <3> QED BY <2>2, <3>1, <3>2, Zenon
  <2>6. c.ring = <<>> /\ inbox = q
    <3>1. c.ring = <<>>
      BY <1>1, <2>5
    <3> QED BY <1>1, <3>1, ConcatEmptySeq DEF q
  <2>7. i = 2 /\ m'.out = Append(m.out, cmd)
    BY <2>4, <2>5, <2>6
  <2>8. inbox' \o c.ring = <<>>
    <3>1. inbox' = <<>>
      BY <2>5, <2>7, SubSeqEmpty
    <3> QED BY <2>6, <3>1
  <2>9. One(m'.out, cmd)
    BY <1>1, <2>1, <2>3, <2>7, QueueEnds DEF Quiet
  <2>10. Waiting(c') /\ OnTheWay(c', m'.out, cmd)
    BY <2>3, <2>9 DEF Waiting, OnTheWay, Quiet, SameTalk
  <2> QED BY <2>3, <2>8, <2>10 DEF Talk, Writing
<1> QED BY <1>3, <1>4 DEF TalkInv, SameTalk

(* It skips the end of a text that was lost. *)
LEMMA SkipTalks ==
    ASSUME HostInv, TalkInv, Line(1), inbox' = Tail(inbox),
           UNCHANGED <<m, c, pc, cmd, word, got>>
    PROVE  TalkInv'
<1>1. /\ inbox \in Seq(Cmds \cup {Cr}) /\ c.ring \in Seq(Cmds \cup {Cr})
      /\ inbox # <<>> /\ inbox[1] = Cr
  BY DEF HostInv, Clients, TalkInv, Order, Line
<1>2. inbox' \in Seq(Cmds \cup {Cr}) /\ Len(inbox') = Len(inbox) - 1
  BY <1>1, HeadTailProperties
<1>3. Order' /\ AnswerMatches' /\ (Clean' => Clean)
  BY <1>2, OrderKept DEF Settled
<1>4. ASSUME Clean PROVE Talk(c, m.out, inbox' \o c.ring, pc, word, cmd)
  <2> DEFINE q == inbox \o c.ring
  <2>1. /\ Talk(c, m.out, q, pc, word, cmd) /\ (pc # "idle" => cmd \in Cmds)
        /\ pc \in {"idle", "wait"} \cup Writing
    BY <1>4 DEF TalkInv, Order, HostInv, Clean
  <2>2. /\ Len(inbox) \in Nat /\ Len(c.ring) \in Nat /\ Len(inbox) > 0
        /\ Len(q) = Len(inbox) + Len(c.ring) /\ q[1] = Cr
    <3>1. Len(inbox) \in Nat /\ Len(c.ring) \in Nat /\ Len(inbox) > 0
      BY <1>1
    <3>2. 1 \in 1..Len(inbox) + Len(c.ring) /\ 1 <= Len(inbox)
      BY <3>1
    <3> QED BY <1>1, <3>1, <3>2, ConcatProperties
  <2> HIDE DEF q
  <2>3. pc = "wait" /\ Waiting(c) /\ Quiet(c, m.out) /\ q = <<Cr>>
    <3>1. q # <<>>
      BY <2>2
    <3>2. cmd \in Cmds => q # <<cmd>> /\ q # <<cmd, Cr>>
      BY <2>2, NoUnit
    <3> QED BY <2>1, <3>1, <3>2 DEF Talk, Writing
  <2>4. Len(inbox) = 1 /\ Len(c.ring) = 0
    <3>1. \A a, b \in Nat : a + b = 1 /\ a > 0 => a = 1 /\ b = 0
      OBVIOUS
    <3>2. Len(q) = 1
      BY <2>3
    <3>3. Len(inbox) + Len(c.ring) = 1
      BY <2>2, <3>2
    <3> QED BY <2>2, <3>1, <3>3, Zenon
  <2>5. inbox' \o c.ring = <<>>
    <3>1. c.ring = <<>>
      BY <1>1, <2>4
    <3>2. inbox' = <<>>
      BY <1>2, <2>4
    <3> QED BY <3>1, <3>2
  <2> QED BY <2>3, <2>5 DEF Talk, Writing, OnTheWay
<1> QED BY <1>3, <1>4 DEF TalkInv

(* The host receives what the modem sends, a part of it, or nothing. *)
LEMMA DeliverTalks ==
    ASSUME ModemInv, HostInv, TalkInv, UNCHANGED <<pc, cmd, word, got, inbox>>,
           c'.state = c.state, c'.rsp = c.rsp, c'.at_rsp = c.at_rsp, c'.ring = c.ring,
           c'.twice = c.twice, c.missed => c'.missed, NEW x,
           \/ m'.out = m.out /\ x = Part
           \/ m.out # <<>> /\ m'.out = Tail(m.out) /\ x = Head(m.out),
           c'.rxq = c.rxq \/ c'.rxq = Append(c.rxq, x)
    PROVE  TalkInv'
<1>1. Order' /\ AnswerMatches' /\ (Clean' => Clean)
  <2>1. inbox' \in Seq(Cmds \cup {Cr}) /\ Settled(c, c')
    BY DEF TalkInv, Order, Settled
  <2> QED BY <2>1, OrderKept
<1>2. ASSUME Clean PROVE Talk(c', m'.out, inbox \o c.ring, pc, word, cmd)
  <2> DEFINE q == inbox \o c.ring
             o == m.out
             r == c.rxq
  <2>1. /\ Talk(c, o, q, pc, word, cmd) /\ (pc # "idle" => cmd \in Cmds)
        /\ o \in Seq(Units) /\ r \in Seq(Units \cup {Part}) /\ 1 \in Cmds
        /\ c'.rxq = r \/ c'.rxq = Append(r, x)
        /\ \/ m'.out = o /\ x \in Noise
           \/ o # <<>> /\ m'.out = Tail(o) /\ x = Head(o)
    BY <1>2, LinkAssumption
       DEF TalkInv, Order, Cmds, ModemInv, Drivers, HostInv, Clients, Noise
  <2> HIDE DEF q
  <2>2. Free(o) => x \in Noise /\ Free(m'.out)
    BY <2>1, QueueEnds
  <2> HIDE DEF o, r
  <2>3. x \in Noise /\ Free(r) => Free(c'.rxq)
    <3>1. \A y \in Noise : Free(r) => Free(Append(r, y))
      BY <2>1, QueueEnds
    <3> QED BY <2>1, <3>1
  <2>4. Quiet(c, o) => Quiet(c', m'.out)
    BY <2>2, <2>3 DEF Quiet, r
  <2>5. ASSUME cmd \in Cmds, OnTheWay(c, o, cmd)
        PROVE  OnTheWay(c', m'.out, cmd)
    <3>1. CASE Quiet(c, o)
      BY <2>4, <3>1 DEF OnTheWay
    <3>2. CASE Free(o) /\ One(r, cmd)
      <4>1. x \in Noise /\ One(Append(r, x), cmd)
        BY <2>1, <2>2, <2>5, <3>2, QueueEnds
      <4>2. Free(m'.out) /\ One(c'.rxq, cmd)
        BY <2>1, <2>2, <3>2, <4>1
      <4> QED BY <4>2 DEF OnTheWay
    <3>3. CASE One(o, cmd) /\ Free(r)
      <4>1. \/ x \in Noise /\ One(m'.out, cmd)
            \/ x = cmd /\ Free(m'.out)
        <5>1. o # <<>> => \/ Head(o) \in Noise /\ One(Tail(o), cmd)
                          \/ Head(o) = cmd /\ Free(Tail(o))
          BY <2>1, <2>5, <3>3, QueueEnds
        <5> QED BY <2>1, <3>3, <5>1
      <4>2. CASE x \in Noise /\ One(m'.out, cmd)
        BY <2>3, <3>3, <4>2 DEF OnTheWay
      <4>3. CASE x = cmd /\ Free(m'.out)
        <5>1. One(Append(r, cmd), cmd)
          BY <2>1, <2>5, <3>3, QueueEnds
        <5>2. Free(c'.rxq) \/ One(c'.rxq, cmd)
          BY <2>1, <3>3, <4>3, <5>1
        <5> QED BY <4>3, <5>2 DEF OnTheWay, Quiet
      <4> QED BY <4>1, <4>2, <4>3
    <3> QED BY <2>5, <3>1, <3>2, <3>3 DEF OnTheWay, r
  <2>6. Waiting(c) => Waiting(c')
    BY DEF Waiting
  <2>7. Talk(c', m'.out, q, pc, word, cmd)
    BY <2>1, <2>4, <2>5, <2>6 DEF Talk
  <2> QED BY <2>7 DEF q
<1> QED BY <1>1, <1>2 DEF TalkInv

-----------------------------------------------------------------------------
(* The invariant, and what follows from it.                                 *)

IInv == ModemInv /\ HostInv /\ TalkInv

(* It holds at the start: the driver takes DTR as asserted, and it is. *)
LEMMA InitOK == Init => IInv
<1> SUFFICES ASSUME Init PROVE IInv
  OBVIOUS
<1> USE DEF Init, DtrInit, ClientInit
<1>1. /\ <<>> \in Seq(Units) /\ <<>> \in Seq(Cmds \cup {Cr})
      /\ <<>> \in Seq(Units \cup {Part}) /\ Len(<<>>) = 0
  OBVIOUS
<1>2. m \in Drivers
  BY <1>1 DEF Drivers
<1>3. TxInv(m, apiPc) /\ Loud(m) /\ DtrInv(m, dtr, work, hpc) /\ RiInv(m, apiPc)
  BY DEF TxInv, Loud, DtrInv, RiInv
<1>4. ModemInv
  BY <1>2, <1>3 DEF ModemInv
<1>5. c \in Clients
  BY <1>1 DEF Clients
<1>6. Bounded(c)
  BY <1>1, ClientAssumption DEF Bounded
<1>7. RxInv(c, wpc) /\ PinInv(c, pc)
  BY DEF RxInv, PinInv
<1>8. HostInv
  BY <1>5, <1>6, <1>7 DEF HostInv
<1>9. Order /\ AnswerMatches
  BY <1>1, LinkAssumption DEF Order, AnswerMatches, Open, Err
<1>10. Talk(c, m.out, inbox \o c.ring, pc, word, cmd)
  <2>1. Free(<<>>) /\ <<>> \o <<>> = <<>>
    BY DEF Free
  <2>2. /\ c.ring = <<>> /\ c.rxq = <<>> /\ c.at_rsp = FALSE /\ m.out = <<>>
        /\ inbox = <<>> /\ pc = "idle"
    OBVIOUS
  <2> QED BY ONLY <2>1, <2>2 DEF Talk, Quiet, Writing
<1> QED BY <1>4, <1>8, <1>9, <1>10 DEF IInv, TalkInv

(* A step of the host. *)
LEMMA HostKeeps ==
    ASSUME IInv, SetDtr(c'.pin), UNCHANGED <<m, hpc, apiPc, inbox>>,
           raced' \in BOOLEAN, raced => raced',
           \/ LinkSteps \/ PutText \/ PutTerminator \/ PutFull \/ Room
           \/ Answered \/ GiveUp \/ rx_process \/ SendCmd
    PROVE  IInv'
<1>0. ModemInv /\ HostInv /\ TalkInv
  BY DEF IInv
<1>1. HostInv' /\ TalkInv'
  <2>1. CASE LinkSteps
    BY <1>0, <2>1, LinkKeeps, TalkKept
  <2>2. CASE PutText
    <3>1. word \in Cmds \cup {Cr}
      BY <1>0 DEF TalkInv, Order
    <3> QED BY <1>0, <2>2, <3>1, QueueKeeps, QueueTalks
  <2>3. CASE PutTerminator
    BY <1>0, <2>3, EndKeeps, EndTalks
  <2>4. CASE GiveUp \/ (PutFull /\ pc' # "room") \/ (Room /\ ~CanSend(c))
    BY <1>0, <2>4, FailKeeps, FailTalks
  <2>5. CASE Answered
    BY <1>0, <2>5, AnswerKeeps, ReturnTalks
  <2>6. CASE rx_process
    BY <1>0, <2>6, ProcessKeeps, ProcessTalks
  <2>7. CASE SendCmd
    BY <1>0, <2>7, BeginKeeps, BeginTalks DEF SendCmd
  <2>8. CASE (PutFull /\ pc' = "room") \/ (Room /\ CanSend(c))
    BY <2>1, <2>8 DEF LinkSteps
  <2> QED BY <2>1, <2>2, <2>3, <2>4, <2>5, <2>6, <2>7, <2>8
<1>2. c'.pin \in BOOLEAN
  BY <1>1 DEF HostInv, Clients
<1>3. ModemInv'
  BY <1>0, <1>2, DtrFollows
<1> QED BY <1>1, <1>3 DEF IInv

(* A transmission of the host ends, one way or the other. *)
LEMMA TransmitKeeps ==
    ASSUME IInv, HostTxDone \/ HostTxAborted
    PROVE  IInv'
<1>0. ModemInv /\ HostInv /\ TalkInv
  BY DEF IInv
<1>1. SetDtr(c'.pin) /\ UNCHANGED <<m, hpc, apiPc, raced>>
  BY DEF HostTxDone, HostTxAborted
<1>2. HostInv' /\ TalkInv'
  <2>1. CASE HostTxDone
    <3>1. ClientTxDone /\ inbox' = inbox \o SubSeq(c.ring, 1, c.tx)
      BY <2>1 DEF HostTxDone
    <3> QED BY <1>0, <1>1, <3>1, SentKeeps, SentTalks
  <2>2. CASE HostTxAborted
    <3>1. ClientTxAborted
      BY <2>2 DEF HostTxAborted
    <3>2. PICK n \in 0..c.tx : inbox' = inbox \o SubSeq(c.ring, 1, n)
      BY <2>2 DEF HostTxAborted
    <3> QED BY <1>0, <1>1, <3>1, <3>2, AbortedKeeps, AbortedTalks
  <2> QED BY <2>1, <2>2
<1>3. c'.pin \in BOOLEAN
  BY <1>2 DEF HostInv, Clients
<1>4. ModemInv'
  <2>1. raced' \in BOOLEAN /\ (raced => raced')
    BY <1>0, <1>1 DEF ModemInv
  <2> QED BY <1>0, <1>1, <1>3, <2>1, DtrFollows
<1> QED BY <1>2, <1>4 DEF IInv

(* A step of the modem, with a rising edge of RI or none. *)
LEMMA ModemKeeps ==
    ASSUME IInv, c' = c \/ c' = gpio_cb_func(c), UNCHANGED <<pc, wpc, cmd, word, got, inbox>>,
           \/ ModemWork \/ dtr_work_handler("none") \/ PowerOff(TRUE)
           \/ api_rx_enable \/ api_rx_disable \/ Write(Urc)
           \/ \E b \in BOOLEAN : dtr_uart_pm_action(b)
    PROVE  IInv'
<1>0. ModemInv /\ HostInv /\ TalkInv
  BY DEF IInv
<1>1. HostInv' /\ SameTalk(c, c')
  BY <1>0, EdgeKeeps
<1>2. CASE \/ ModemWork \/ dtr_work_handler("none") \/ PowerOff(TRUE)
           \/ api_rx_enable \/ api_rx_disable
           \/ \E b \in BOOLEAN : dtr_uart_pm_action(b)
  <2>1. ModemInv' /\ m'.out = m.out
    BY <1>0, <1>2, DriverKeeps
  <2>2. TalkInv'
    BY <1>0, <1>1, <2>1, TalkKept DEF SamePlace
  <2> QED BY <1>1, <2>1, <2>2 DEF IInv
<1>3. CASE Write(Urc)
  <2>1. ModemInv' /\ m'.out = Append(m.out, Urc)
    BY <1>0, <1>3, NoUnit, WriteKeeps
  <2>2. TalkInv'
    BY <1>0, <1>1, <2>1, UrcTalks
  <2> QED BY <1>1, <2>1, <2>2 DEF IInv
<1> QED BY <1>2, <1>3

(* The AT host of the modem reads. *)
LEMMA ReadKeeps ==
    ASSUME IInv, Reply \/ SkipLine
    PROVE  IInv'
<1>0. ModemInv /\ HostInv /\ TalkInv
  BY DEF IInv
<1>1. CASE Reply
  <2>1. PICK i \in 2..Len(inbox) :
           /\ Line(i) /\ inbox' = SubSeq(inbox, i + 1, Len(inbox))
           /\ Modem(Write(IF i = 2 THEN inbox[1] ELSE Err))
    BY <1>1 DEF Reply
  <2> DEFINE x == IF i = 2 THEN inbox[1] ELSE Err
  <2>2. /\ Write(x) /\ (c' = c \/ c' = gpio_cb_func(c))
        /\ UNCHANGED <<pc, wpc, cmd, word, got>>
    BY <2>1 DEF Modem
  <2>3. x \in Units
    <3>1. inbox \in Seq(Cmds \cup {Cr}) /\ 1 \in 1..(i - 1) /\ 1 \in 1..Len(inbox)
      BY <1>0, <2>1 DEF TalkInv, Order
    <3>2. inbox[1] \in Cmds
      BY <2>1, <3>1 DEF Line
    <3> QED BY <3>2, NoUnit
  <2> HIDE DEF x
  <2>4. ModemInv' /\ m'.out = Append(m.out, x)
    BY <1>0, <2>2, <2>3, WriteKeeps
  <2>5. HostInv' /\ SameTalk(c, c')
    BY <1>0, <2>2, EdgeKeeps
  <2>6. TalkInv'
    BY <1>0, <2>1, <2>2, <2>4, <2>5, ReplyTalks DEF x
  <2> QED BY <2>4, <2>5, <2>6 DEF IInv
<1>2. CASE SkipLine
  <2>1. /\ Line(1) /\ inbox' = Tail(inbox) /\ UNCHANGED <<m, dtr, work, hpc, apiPc, raced>>
        /\ UNCHANGED <<c, pc, wpc, cmd, word, got>>
    BY <1>2 DEF SkipLine, dtrVars, cliVars
  <2>2. TalkInv'
    BY <1>0, <2>1, SkipTalks
  <2>3. ModemInv' /\ HostInv'
    BY <1>0, <2>1 DEF ModemInv, HostInv
  <2> QED BY <2>2, <2>3 DEF IInv
<1> QED BY <1>1, <1>2

(* A unit, or a part of one, reaches the host. *)
LEMMA DeliverKeeps ==
    ASSUME IInv, ModemTxDone \/ ModemTxPart
    PROVE  IInv'
<1>0. ModemInv /\ HostInv /\ TalkInv
  BY DEF IInv
<1>1. PICK x :
        /\ \/ x = Part /\ UNCHANGED <<m, dtr, work, hpc, apiPc, raced>>
           \/ x = m.tx /\ TxDone
        /\ c.rx = "on" /\ m.tx # None /\ UNCHANGED <<pc, wpc, cmd, word, got, inbox>>
        /\ c' = RxRdy(c, x) \/ c' = gpio_cb_func(RxRdy(c, x))
  BY DEF ModemTxDone, ModemTxPart, TxDone, dtrVars
<1> DEFINE d == RxRdy(c, x)
<1>2. m.out # <<>> /\ m.tx = Head(m.out) /\ m.out \in Seq(Units)
  BY <1>0, <1>1 DEF ModemInv, TxInv, Drivers
<1>3. /\ m.tx \in Units /\ Tail(m.out) \in Seq(Units)
      /\ x \in Units \cup {Part}
  BY <1>1, <1>2
<1>4. /\ ModemInv'
      /\ \/ m'.out = m.out /\ x = Part
         \/ m.out # <<>> /\ m'.out = Tail(m.out) /\ x = Head(m.out)
  <2>1. CASE x = Part /\ UNCHANGED <<m, dtr, work, hpc, apiPc, raced>>
    BY <1>0, <2>1 DEF ModemInv
  <2>2. CASE x = m.tx /\ TxDone
    <3>1. ModemInv' /\ m'.out = Tail(m.out)
      BY <1>0, <1>1, <1>2, <1>3, <2>2, TxEnds DEF TxDone
    <3> QED BY <1>2, <2>2, <3>1
  <2> QED BY <1>1, <2>1, <2>2
<1>5. /\ c \in Clients /\ Bounded(c) /\ RxInv(c, wpc) /\ PinInv(c, pc)
      /\ pc \in {"idle", "wait", "late"} \cup Writing /\ wpc \in {"idle", "rxoff"}
  BY <1>0 DEF HostInv
<1>6. /\ d \in Clients /\ Bounded(d) /\ RxInv(d, wpc) /\ PinInv(d, pc)
      /\ d.state = c.state /\ d.rsp = c.rsp /\ d.at_rsp = c.at_rsp
      /\ d.ring = c.ring /\ d.twice = c.twice /\ (c.missed => d.missed)
      /\ d.rxq = c.rxq \/ d.rxq = Append(c.rxq, x)
  BY <1>1, <1>3, <1>5, Received
<1> HIDE DEF d
<1>7. c' \in Clients /\ SameTalk(d, c') /\ SameLink(d, c')
  <2>1. CASE c' = d
    BY <1>6, <2>1 DEF SameTalk, SameLink
  <2>2. CASE c' = gpio_cb_func(d)
    BY <1>6, <2>2, Timer
  <2> QED BY <1>1, <2>1, <2>2 DEF d
<1>8. HostInv'
  <2>1. RxInv(c', wpc) /\ PinInv(c', pc) /\ Bounded(c')
    BY <1>6, <1>7, LinkKept, TalkSame
  <2> QED BY <1>1, <1>5, <1>7, <2>1 DEF HostInv
<1>9. /\ c'.state = c.state /\ c'.rsp = c.rsp /\ c'.at_rsp = c.at_rsp
      /\ c'.ring = c.ring /\ c'.twice = c.twice /\ (c.missed => c'.missed)
      /\ c'.rxq = c.rxq \/ c'.rxq = Append(c.rxq, x)
  BY <1>6, <1>7 DEF SameTalk
<1>10. TalkInv'
  BY <1>0, <1>1, <1>4, <1>9, DeliverTalks
<1> QED BY <1>4, <1>8, <1>10 DEF IInv

(* Every step keeps the invariant. *)
LEMMA NextOK == IInv /\ [Next]_vars => IInv'
<1> SUFFICES ASSUME IInv, [Next]_vars PROVE IInv'
  OBVIOUS
<1>0. ModemInv /\ HostInv /\ TalkInv /\ raced \in BOOLEAN
  BY DEF IInv, ModemInv
<1>1. ASSUME \/ LinkSteps \/ PutText \/ PutTerminator \/ PutFull \/ Room
             \/ Answered \/ GiveUp \/ rx_process \/ SendCmd,
             SetDtr(c'.pin), UNCHANGED <<m, hpc, apiPc, raced, inbox>>
      PROVE  IInv'
  BY <1>0, <1>1, HostKeeps
<1>2. CASE HostStep
  <2>1. CASE HostIdle /\ Host(HostThread)
    BY <1>1, <2>1 DEF Host, HostThread, LinkSteps
  <2>2. CASE Host(HostWork \/ ClientRxDisabled)
    <3>1. LinkSteps \/ rx_process
      BY <2>2 DEF Host, HostWork, LinkSteps
    <3> QED BY <1>1, <2>2, <3>1 DEF Host
  <2> QED BY <1>2, <2>1, <2>2 DEF HostStep
<1>3. CASE \/ Host(TimedOut \/ RxOff(TRUE))
           \/ Host(Inactive /\ pc \in {"put", "room"} /\ dtr_uart_disable_work_fn)
           \/ Host(HostApi \/ SendCmd)
  <2>1. LinkSteps \/ SendCmd
    BY <1>3 DEF Host, HostApi, LinkSteps
  <2> QED BY <1>1, <1>3, <2>1 DEF Host
<1>4. CASE Automatic
  <2>1. /\ LinkSteps /\ SetDtr(c'.pin) /\ UNCHANGED <<m, hpc, apiPc, inbox>>
        /\ raced' \in BOOLEAN /\ (raced => raced')
    BY <1>4 DEF Automatic, LinkSteps
  <2> QED BY <2>1, HostKeeps
<1>5. CASE HostTxDone \/ HostTxAborted
  BY <1>5, TransmitKeeps
<1>6. CASE HostTxTimeout \/ Starve
  <2>1. /\ UNCHANGED <<m, dtr, work, hpc, apiPc, raced>>
        /\ UNCHANGED <<pc, cmd, word, got, inbox>>
    BY <1>6 DEF HostTxTimeout, Starve, dtrVars
  <2>2. HostInv' /\ SameTalk(c, c')
    BY <1>0, <1>6, FaultKeeps
  <2>3. TalkInv'
    BY <1>0, <2>1, <2>2, TalkKept DEF SamePlace
  <2>4. ModemInv'
    BY <1>0, <2>1 DEF ModemInv
  <2> QED BY <2>2, <2>3, <2>4 DEF IInv
<1>7. CASE ModemTxPart \/ ModemTxDone
  BY <1>7, DeliverKeeps
<1>8. CASE Reply \/ SkipLine
  BY <1>8, ReadKeeps
<1>9. CASE /\ \/ Modem(ModemWork) \/ Modem(dtr_work_handler("none") \/ PowerOff(TRUE))
              \/ Modem(Write(Urc)) \/ Modem(api_rx_disable) \/ Modem(api_rx_enable)
           /\ UNCHANGED inbox
  BY <1>9, ModemKeeps DEF Modem
<1>10. ASSUME NEW b \in BOOLEAN, Modem(dtr_uart_pm_action(b)), UNCHANGED inbox
       PROVE  IInv'
  BY <1>10, ModemKeeps DEF Modem
<1>11. CASE UNCHANGED vars
  <2>1. /\ UNCHANGED <<m, dtr, work, hpc, apiPc, raced>>
        /\ UNCHANGED <<c, pc, wpc, cmd, word, got, inbox>>
    BY <1>11 DEF vars, dtrVars, cliVars
  <2>2. ModemInv'
    BY <1>0, <2>1 DEF ModemInv
  <2>3. HostInv' /\ SameTalk(c, c')
    BY <1>0, <2>1, EdgeKeeps
  <2>4. TalkInv'
    BY <1>0, <2>1, <2>3, TalkKept DEF SamePlace
  <2> QED BY <2>2, <2>3, <2>4 DEF IInv
<1> QED BY <1>2, <1>3, <1>4, <1>5, <1>6, <1>7, <1>8, <1>9, <1>10, <1>11 DEF Next

(* The invariant holds in every reachable state. *)
THEOREM IInvInvariant == Spec => []IInv
BY InitOK, NextOK, PTL DEF Spec

(* Every variable keeps its type, and tx_buf, rx_event_queue, at_cmd_resp   *)
(* and at_monitor_heap never hold more than they have room for, whatever    *)
(* their sizes (sm_at_client.c:276-335, 371-424, 499-513).                  *)
THEOREM TypeCorrect == Spec => []TypeOK
<1>1. IInv => TypeOK
  <2> SUFFICES ASSUME IInv PROVE TypeOK
    OBVIOUS
  <2>0. ModemInv /\ HostInv /\ TalkInv
    BY DEF IInv
  <2>1. /\ m.dtr_state \in BOOLEAN /\ m.tx \in Cmds \cup {None, Urc, Err}
        /\ m.rx \in {"on", "stopping", "off"} /\ m.pipe \in {"open", "closed", "failed"}
    BY <2>0 DEF ModemInv, Drivers, Units
  <2>2. c.rx \in {"on", "stopping", "starved", "off"}
    BY <2>0 DEF HostInv, Clients
  <2>3. pc \in {"idle", "pin", "tx", "put", "room", "wait", "late"}
    BY <2>0 DEF HostInv, Writing
  <2> QED BY <2>0, <2>1, <2>2, <2>3 DEF TypeOK, ModemInv, HostInv, TalkInv, Order, Bounded
<1> QED BY <1>1, IInvInvariant, PTL

(* A command returns with its own response or fails, unless an earlier one  *)
(* failed, or something was lost or sent twice, for any number of commands, *)
(* of URCs and of disturbances (sm_at_client.c:276-335, 371-424, 886-923).  *)
THEOREM AnswerCorrect == Spec => []AnswerMatches
<1>1. IInv => AnswerMatches
  BY DEF IInv, TalkInv
<1> QED BY <1>1, IInvInvariant, PTL

(* Where nobody switches, the two ends agree on DTR, the power of the UARTs *)
(* and RI (dtr_uart.c:238-276, 354-387; sm_at_client.c:610-718).            *)
THEOREM AgreeCorrect == Spec => []LinkAgrees
<1>1. IInv => LinkAgrees
  <2> SUFFICES ASSUME IInv PROVE LinkAgrees
    OBVIOUS
  <2>0. ModemInv /\ HostInv
    BY DEF IInv
  <2>1. ASSUME pc \notin {"pin", "tx"}, wpc = "idle", ~c.en_work, ~c.rx_work
        PROVE  /\ c.active = c.pin /\ c.tx_en = c.active
               /\ c.rx_en => c.active
               /\ c.active => c.rx_en \/ c.rx \in {"stopping", "starved"}
    BY <2>0, <2>1 DEF HostInv, PinInv, RxInv
  <2>2. ASSUME ~work, hpc = "idle", ~raced
        PROVE  /\ m.dtr_state = (dtr /\ ~m.pm_suspended) /\ m.on = m.dtr_state
               /\ m.tx_buf # None /\ ~m.tx_in_progress => m.ri /\ ~m.dtr_state
               /\ m.ri => m.tx_buf # None
    BY <2>0, <2>2 DEF ModemInv, DtrInv, RiInv, Loud
  <2> QED BY <2>1, <2>2 DEF LinkAgrees
<1> QED BY <1>1, IInvInvariant, PTL

=============================================================================
