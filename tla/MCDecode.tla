------------------------------ MODULE MCDecode ------------------------------
(* An address in the middle of the space and one that a jump leaves over   *)
(* its end; digits with and without the sign bit.                          *)
EXTENDS Decode

MCPCs    == {2^16, 2^20 - 3}
MCDigits == {0, 7, 15}
=============================================================================
