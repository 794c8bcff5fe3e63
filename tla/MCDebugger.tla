----------------------------- MODULE MCDebugger -----------------------------
(* Three instructions: the first of the ROM, one of the program and the      *)
(* entry of the service routine.                                            *)
EXTENDS Debugger

MCCode == {0, 1, 15}

(* Two less than no breakpoint: delete at 0 with both slots unused.          *)
MCMinCount == -2
=============================================================================
