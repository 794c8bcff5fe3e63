------------------------------ MODULE MCClock ------------------------------
(* TIMER2 of three nibbles of one bit, so of -8 .. 7 with its sign.        *)
EXTENDS Clock

BitWeight == [i \in 0 .. Nibbles |-> 2^i]

SomeSettings == {-8, 3}

SomeControls == {{}, {"run"}, {"run", "int"}, {"run", "wake"}, {"int", "due"}}
=============================================================================
