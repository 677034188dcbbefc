----------------------------- MODULE MCContexts -----------------------------
(* Contexts for TLC: two channels, memory for three contexts. *)
EXTENDS Contexts

MCDlcis == <<"d1", "d2">>
MCCtxs == <<"c1", "c2", "c3">>
=============================================================================
