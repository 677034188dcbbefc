------------------------------ MODULE MCAtHost ------------------------------
(* AtHost for TLC. *)
EXTENDS AtHost
=============================================================================
