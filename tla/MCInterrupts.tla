---------------------------- MODULE MCInterrupts ----------------------------
(* Values for the constants of Interrupts: a two-slot return stack, three  *)
(* program addresses and at most three frames outstanding, so that an      *)
(* overflow, an underflow and a nested service all happen.                 *)
EXTENDS Interrupts

MCCode == {0, 15, 100}

=============================================================================
