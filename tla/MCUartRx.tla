------------------------------ MODULE MCUartRx ------------------------------
(* UartRx for TLC: blocks are model values. *)
EXTENDS UartRx

CONSTANTS b1, b2

MCTwoBlocks == {b1, b2}
MCReadSizes == {1, 3}
=============================================================================
