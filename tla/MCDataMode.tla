----------------------------- MODULE MCDataMode -----------------------------
(* DataMode for TLC, with the default terminator "+++" and one more         *)
(* character.                                                               *)
EXTENDS DataMode

MCTerminator == <<"+", "+", "+">>
MCChars == {"+", "d"}
MCDataLens == {0, 2, 4}
=============================================================================
