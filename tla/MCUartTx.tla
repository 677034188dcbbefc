------------------------------ MODULE MCUartTx ------------------------------
(* UartTx for TLC. *)
EXTENDS UartTx

MCMsgSizes == {1, 4}
=============================================================================
