------------------------------ MODULE MCSerial ------------------------------
(* Values for the constants of Serial.  The two links are interchangeable. *)
EXTENDS Serial

CONSTANTS wire, ir

BothLinks == {wire, ir}
LinkSymmetry == Permutations(BothLinks)

=============================================================================
