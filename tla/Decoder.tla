------------------------------ MODULE Decoder ------------------------------
(***************************************************************************)
(* How step_instruction and the decoders it calls read an instruction:     *)
(* which nibbles are which instruction, on which registers and which field *)
(* of them it works, how many nibbles it takes and where it jumps.  What   *)
(* the instruction then does is in modules Registers, Interrupts and Mmu.  *)
(*                                                                         *)
(* The code c is a function of the distance from saturn.PC, so that c[2]   *)
(* is read_nibble(saturn.PC + 2).                                          *)
(***************************************************************************)
EXTENDS RegisterOps

AddressSpace == 2^20

NoJump == -1
Return == -2   \* a conditional return, written as a jump by nothing

None == ""     \* no register

(* What is done: the operation, its destination and two operands, the      *)
(* field it works on as first and last nibble, and a number of the code.   *)
Ins(op, d, l, r, f, n) == [op |-> op, d |-> d, l |-> l, r |-> r, f |-> f, n |-> n]

Plain(op)       == Ins(op, None, None, None, <<>>, 0)
With(op, d, n)  == Ins(op, d, None, None, <<>>, n)

(* A decoded instruction: its length, what it does and where it may jump.  *)
At(len, ins)       == [len |-> len, ins |-> ins, to |-> NoJump]
Jump(len, ins, to) == [len |-> len, ins |-> ins, to |-> to]

Illegal(reads) == At(reads, Plain("illegal"))

-----------------------------------------------------------------------------
(* The field an instruction's nibble stands for.                           *)
Span(code) == <<start_fields[code + 1], end_fields[code + 1]>>

On(op, d, l, r, code) == Ins(op, d, l, r, Span(code), 0)

(* The registers the tables go through; an entry k of the groups 9 to f is *)
(* about First[k] and Other[k].                                            *)
First == <<"A", "B", "C", "D">>
Other == <<"B", "C", "A", "C">>
Left  == <<"A", "B", "A", "C">>
Right == <<"B", "C", "C", "D">>

(* read_nibbles: n nibbles from distance i, the least significant first.   *)
Read(c, i, n) ==
  LET digit(k) == IF k < n THEN c[i + k] * 16^k ELSE 0
  IN digit(0) + digit(1) + digit(2) + digit(3) + digit(4)

(* What the jumpmasks do to a displacement of n nibbles.                   *)
Signed(v, n) == IF v < 2^(4 * n - 1) THEN v ELSE v - 2^(4 * n)

(* The address n nibbles from distance i on lead to, relative to base.     *)
Relative(pc, base, c, i, n) == (pc + base + Signed(Read(c, i, n), n)) % AddressSpace

(* The end of a test: two nibbles at distance i say where to go.           *)
Branch(pc, c, i) == IF Read(c, i, 2) = 0 THEN Return ELSE Relative(pc, i, c, i, 2)

-----------------------------------------------------------------------------
(* Opcode 0.                                                               *)
Opcode0 == <<"RTNSXM", "RTN", "RTNSC", "RTNCC", "SETHEX", "SETDEC", "RSTK=C", "C=RSTK",
             "CLRST", "C=ST", "ST=C", "CSTEX", "P=P+1", "P=P-1", None, "RTI">>

Group0(c) ==
  LET k == (c[3] % 4) + 1
      op == IF c[3] < 8 THEN "&" ELSE "!"
  IN IF c[1] # 14 THEN At(2, Plain(Opcode0[c[1] + 1]))
     ELSE At(4, IF c[3] % 8 < 4 THEN On(op, First[k], First[k], Other[k], c[2])
                ELSE On(op, Other[k], Other[k], First[k], c[2]))

(* Moves between A or C and a scratch register: kind 0 saves, 1 recalls,   *)
(* 2 exchanges.  Numbers 5 to 7 are the registers R1 to R3 once more.      *)
Scratch5 == <<"R0", "R1", "R2", "R3", "R4", "R1", "R2", "R3">>

ScratchMove(kind, n, f) ==
  LET w == IF n < 8 THEN "A" ELSE "C"
      s == Scratch5[(n % 8) + 1]
  IN CASE kind = 0 -> On("=", s, w, None, f)
       [] kind = 1 -> On("=", w, s, None, f)
       [] kind = 2 -> On("EX", w, s, None, f)

(* Opcode 13: between A or C and a pointer; from 8 on only four nibbles.   *)
PointerMove(n) ==
  LET w == IF n % 8 < 4 THEN "A" ELSE "C"
      p == IF n % 2 = 0 THEN "D0" ELSE "D1"
      f == IF n < 8 THEN <<0, 4>> ELSE <<0, 3>>
  IN IF n % 4 < 2 THEN Ins("=", p, w, None, f, 0) ELSE Ins("EX", w, p, None, f, 0)

(* Opcodes 14 and 15: between A or C and the memory a pointer points to.   *)
MemoryMove(k, f, n) ==
  LET w == IF k < 4 THEN "A" ELSE "C"
      m == IF k % 2 = 0 THEN "DAT0" ELSE "DAT1"
  IN IF k % 4 < 2 THEN Ins("=", m, w, None, f, n) ELSE Ins("=", w, m, None, f, n)

(* The opcodes of group 1 that change a pointer by a constant or load it.  *)
PointerStep(c) ==
  LET p == IF c[1] \in {6, 8} THEN "D0" ELSE "D1"
      by == c[2] + 1
  IN At(3, With("+", p, IF c[1] < 8 THEN by ELSE -by))

PointerLoad(c) ==
  LET p == IF c[1] < 12 THEN "D0" ELSE "D1"
      n == CASE c[1] \in {9, 13} -> 2 [] c[1] \in {10, 14} -> 4 [] c[1] \in {11, 15} -> 5
  IN At(2 + n, With("load", p, n))

Group1(c) ==
  CASE c[1] < 3 -> At(3, ScratchMove(c[1], c[2], W_FIELD))
    [] c[1] = 3 -> At(3, PointerMove(c[2]))
    [] c[1] = 4 -> At(3, MemoryMove(c[2] % 8, Span(IF c[2] < 8 THEN A_FIELD ELSE 6), 0))
    [] c[1] = 5 -> At(4, IF c[2] < 8 THEN MemoryMove(c[2], Span(c[3]), 0)
                         ELSE MemoryMove(c[2] % 8, <<>>, c[3] + 1))
    [] c[1] \in {6, 7, 8, 12} -> PointerStep(c)
    [] OTHER -> PointerLoad(c)

(* Opcode 3 and 8082: as many digits as the nibble says, and one more.     *)
(* Mutant: the first digit is taken for the count.                         *)
ConstantLoadShort(w, at, n) == At(at + n, With("load", w, n + 1))

ConstantLoad(w, at, n) == At(at + 1 + n, With("load", w, n + 1))

-----------------------------------------------------------------------------
(* The groups with a field: 9, a and b, and 8a, 8b and c to f, where the   *)
(* field is A.                                                             *)
Test(high, n, f) ==
  LET k == (n % 4) + 1
      q == (n \div 4) + 1
  IN IF high THEN On(<<"?>", "?<", "?>=", "?<=">>[q], None, First[k], Other[k], f)
     ELSE IF q <= 2 THEN On(<<"?=", "?#">>[q], None, Left[k], Right[k], f)
     ELSE On(<<"?=", "?#">>[q - 2], None, First[k], "0", f)

(* Groups a, c and d.                                                      *)
AddOrMove(high, n, f) ==
  LET k == (n % 4) + 1
      x == First[k]
      y == Other[k]
  IN IF high THEN << On("=", x, "0", None, f), On("=", x, y, None, f), On("=", y, x, None, f),
                     On("EX", Left[k], Right[k], None, f) >>[(n \div 4) + 1]
     ELSE << On("+", x, x, y, f), On("+", x, x, x, f), On("+", y, y, x, f),
             On("-1", x, None, None, f) >>[(n \div 4) + 1]

(* Groups b, e and f.                                                      *)
SubOrShift(high, n, f) ==
  LET k == (n % 4) + 1
      x == First[k]
      y == Other[k]
  IN IF high THEN On(<<"SL", "SR", "neg", "not">>[(n \div 4) + 1], x, None, None, f)
     ELSE << On("-", x, x, y, f), On("+1", x, None, None, f), On("-", y, y, x, f),
             On("-", x, y, x, f) >>[(n \div 4) + 1]

-----------------------------------------------------------------------------
(* Group 8.                                                                *)
In80 == <<"OUT=CS", "OUT=C", "A=IN", "C=IN", "UNCNFG", "CONFIG", "C=ID", "SHUTDN",
          None, "C+P+1", "RESET", "BUSCC", "C=P", "P=C", "SREQ?", "CPEX">>

Group808(pc, c) ==
  LET n == c[3]
      w == IF n < 8 THEN "A" ELSE "C"
      bit == IF n \in {4, 6, 8, 10} THEN "BIT=0" ELSE "BIT=1"
  IN CASE n = 1 -> At(5, Plain("RSI"))
       [] n = 2 -> ConstantLoad("A", 5, c[4])
       [] n \in {4, 5, 8, 9}   -> At(5, With(bit, w, c[4]))
       [] n \in {6, 7, 10, 11} -> Jump(7, With(IF bit = "BIT=0" THEN "?BIT=0" ELSE "?BIT=1", w, c[4]),
                                       Branch(pc, c, 5))
       [] n = 0  -> At(4, Plain("INTON"))
       [] n = 3  -> At(4, Plain("BUSCB"))
       [] n = 12 -> At(4, Plain("PC=(A)"))
       [] n = 13 -> At(4, Plain("BUSCD"))
       [] n = 14 -> At(4, Plain("PC=(C)"))
       [] n = 15 -> At(4, Plain("INTOFF"))

Group80(pc, c) ==
  CASE c[2] = 8               -> Group808(pc, c)
    [] c[2] \in {12, 13, 15}  -> At(4, With(In80[c[2] + 1], None, c[3]))
    [] OTHER                  -> At(3, Plain(In80[c[2] + 1]))

Group81(c) ==
  LET n == c[2]
      w == First[(n % 4) + 1]
  IN CASE n < 4  -> At(3, On("SLC", w, None, None, W_FIELD))
       [] n \in 4 .. 7 -> At(3, On("SRC", w, None, None, W_FIELD))
       [] n = 8  -> At(6, Ins(IF c[4] < 8 THEN "+CON" ELSE "-CON", First[(c[4] % 4) + 1], None, None,
                              Span(c[3]), c[5] + 1))
       [] n = 9  -> At(5, On("SRB", First[(c[4] % 4) + 1], None, None, c[3]))
       [] n = 10 -> IF c[4] > 2 THEN Illegal(6) ELSE At(6, ScratchMove(c[4], c[5], c[3]))
       [] n = 11 -> IF c[3] \in 2 .. 7
                    THEN At(4, Plain(<<"PC=A", "PC=C", "A=PC", "C=PC", "APCEX", "CPCEX">>[c[3] - 1]))
                    ELSE Illegal(4)
       [] n >= 12 -> At(3, On("SRB", w, None, None, W_FIELD))

(* The tests of 83 and 86 to 8b: yes leads where the last two nibbles say. *)
FlagTests == [n \in {3, 6, 7, 8, 9} |->
                CASE n = 3 -> "?HST=0" [] n = 6 -> "?ST=0" [] n = 7 -> "?ST=1"
                  [] n = 8 -> "?P#" [] n = 9 -> "?P="]

(* The long jumps and calls; what the displacement of 8c and 8e is         *)
(* relative to.                                                            *)
(* Mutant: a call jumps relative to its displacement too.                  *)
AtDisplacement(call) == 2

LongBase(call) == IF call THEN 6 ELSE 2

LongJumps(pc, c) ==
  CASE c[1] = 12 -> Jump(6, Plain("GOLONG"), Relative(pc, LongBase(FALSE), c, 2, 4))
    [] c[1] = 13 -> Jump(7, Plain("GOVLNG"), Read(c, 2, 5))
    [] c[1] = 14 -> Jump(6, Plain("GOSUBL"), Relative(pc, LongBase(TRUE), c, 2, 4))
    [] c[1] = 15 -> Jump(7, Plain("GOSBVL"), Read(c, 2, 5))

Group8(pc, c) ==
  CASE c[1] = 0 -> Group80(pc, c)
    [] c[1] = 1 -> Group81(c)
    [] c[1] = 2 -> At(3, With("HST=0", None, c[2]))
    [] c[1] = 4 -> At(3, With("ST=0", None, c[2]))
    [] c[1] = 5 -> At(3, With("ST=1", None, c[2]))
    [] c[1] \in DOMAIN FlagTests -> Jump(5, With(FlagTests[c[1]], None, c[2]), Branch(pc, c, 3))
    [] c[1] \in {10, 11} -> Jump(5, Test(c[1] = 11, c[2], A_FIELD), Branch(pc, c, 3))
    [] c[1] >= 12 -> LongJumps(pc, c)

(* Opcodes 4 and 5, on CARRY set and clear.                                *)
CarryJump(pc, c) ==
  IF c[0] = 4 /\ Read(c, 1, 2) = 2 THEN At(3, Plain("NOP3"))
  ELSE Jump(3, Plain(IF c[0] = 4 THEN "GOC" ELSE "GONC"), Branch(pc, c, 1))

(* Opcode 6: NOP4 and NOP5 are written as jumps.  The fifth nibble of NOP5 *)
(* is 0; with another one it is a trap, for the debugger.                  *)
Goto(pc, c) ==
  CASE Read(c, 1, 3) = 3 -> At(4, Plain("NOP4"))
    [] Read(c, 1, 3) = 4 -> At(5, Plain(IF c[4] = 0 THEN "NOP5" ELSE "TRAP"))
    [] OTHER -> Jump(4, Plain("GOTO"), Relative(pc, 1, c, 1, 3))

step_instruction(pc, c) ==
  CASE c[0] = 0 -> Group0(c)
    [] c[0] = 1 -> Group1(c)
    [] c[0] = 2 -> At(2, With("P=", None, c[1]))
    [] c[0] = 3 -> ConstantLoad("C", 2, c[1])
    [] c[0] \in {4, 5} -> CarryJump(pc, c)
    [] c[0] = 6 -> Goto(pc, c)
    [] c[0] = 7 -> Jump(4, Plain("GOSUB"), Relative(pc, 4, c, 1, 3))
    [] c[0] = 8 -> Group8(pc, c)
    [] c[0] = 9 -> Jump(5, Test(c[1] >= 8, c[2], c[1] % 8), Branch(pc, c, 3))
    [] c[0] = 10 -> At(3, AddOrMove(c[1] >= 8, c[2], c[1] % 8))
    [] c[0] = 11 -> At(3, SubOrShift(c[1] >= 8, c[2], c[1] % 8))
    [] c[0] \in {12, 13} -> At(2, AddOrMove(c[0] = 13, c[1], A_FIELD))
    [] c[0] \in {14, 15} -> At(2, SubOrShift(c[0] = 15, c[1], A_FIELD))
=============================================================================
