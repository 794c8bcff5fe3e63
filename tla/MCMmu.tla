------------------------------- MODULE MCMmu -------------------------------
(* Values for the constants of Mmu: addresses and sizes that let the        *)
(* controllers of both models overlap, and the corners of their windows.    *)
EXTENDS Mmu

ConfsSX == [i \in Chain |->
  CASE i = 0 -> {\h100}
    [] i = 1 -> {\h70000, \hf0000, \hfe000}
    [] i = 5 -> {}
    [] OTHER -> {\h80000, \hc0000}]

ConfsGX == [i \in Chain |->
  CASE i = 0 -> {\h100, \h90000}
    [] i = 1 -> {\h40000, \h80000, \hc0000}
    [] i = 2 -> {\h7f000, \h90000}
    [] i = 3 -> {\ha0000, \hc0000}
    [] i = 4 -> {\h7e000, \hc0000}
    [] i = 5 -> {}]

BothConfs == [gx \in BOOLEAN |-> IF gx THEN ConfsGX ELSE ConfsSX]

Corners == {0, \h100, \h13f, \h40000, \h71fff, \h72000, \h7e000, \h7f000,
            \h7f041, \h7f07f, \h80000, \h82000, \h90000, \h9007f, \ha0000,
            \hbffff, \hc0000, \hd0000, \hfffff}
=============================================================================
