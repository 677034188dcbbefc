------------------------------- MODULE MCCoap -------------------------------
(* No payload, one that fits a block, one of two blocks and one of three. *)
EXTENDS Coap
MCPayloadLens == {0, 1, 2 * Block, 2 * Block + 1}
=============================================================================
