---------------------------- MODULE MCRegisters ----------------------------
EXTENDS Registers

(* Zero, the largest decimal number, a decimal number with every digit,    *)
(* and a number of fifteens but for one digit, so that a comparison and    *)
(* its lowest digits disagree.                                             *)
MCWords == {[i \in Positions |-> 0], [i \in Positions |-> 9],
            [i \in Positions |-> (i + 1) % 10],
            [i \in Positions |-> IF i = 3 THEN 0 ELSE 15]}

MCPointers   == {0, 3}
MCLiterals   == {<<10>>, <<1, 2>>, <<15, 0, 9, 4, 8>>}
MCImmediates == {1, 16}
MCIndices    == {0, 2, 15}
=============================================================================
