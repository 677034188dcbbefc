----------------------------- MODULE MCServices -----------------------------
(* Sockets and the HTTP client on a small number of handles. *)
EXTENDS Services
MCFds == 1..2
MCMaxWire == [sockets |-> 2, http |-> 3]
=============================================================================
