----------------------------- MODULE Registers -----------------------------
(***************************************************************************)
(* The instructions that compute in the CPU's registers: the data side of  *)
(* step_instruction and of the decoders it calls.  One instruction is one  *)
(* step.  What an instruction does to the program counter and the return   *)
(* stack is in module Interrupts and what it moves through memory in       *)
(* module Mmu; here a test ends with the CARRY that decides its branch.    *)
(***************************************************************************)
EXTENDS RegisterOps

CONSTANTS
  Words,           \* the contents the working registers start with
  Pointers,        \* the values P starts with
  Literals,        \* digit sequences that LC, LA and D0= find in the code
  Immediates,      \* the constants that a nibble of the code stands for
  Indices,         \* the nibble and bit numbers that appear in the code
  Scratch,         \* those of the registers R0 to R4 that are used
  MaxInstructions, \* bound on the length of a run
  Longest          \* the length of the longest fields whose numbers are computed

ASSUME RegistersAssumption ==
  /\ Words \subseteq Word
  /\ Pointers \subseteq Nibble
  /\ Literals \subseteq Seq(Nibble)
  /\ Immediates \subseteq 1 .. 16
  /\ Indices \subseteq Nibble
  /\ MaxInstructions \in Nat /\ Longest \in Nat

VARIABLES
  reg,       \* saturn.A, B, C, D and the scratch registers
  D0,        \* saturn.D0; D1 behaves alike and is left out
  P,         \* saturn.P
  hexmode,   \* saturn.hexmode
  CARRY,     \* saturn.CARRY
  hst,       \* those of the flags XM, SB, SR and MP that are set
  PSTAT,     \* saturn.PSTAT
  last,      \* history: the instruction executed last
  executed   \* history: the number of instructions executed

vars == <<reg, D0, P, hexmode, CARRY, hst, PSTAT, last, executed>>

DEC == 10
HEX == 16

Working == {"A", "B", "C", "D"}

(* The operand pairs of the opcode tables; the first is the destination.   *)
Pairs    == {<<"A", "B">>, <<"B", "C">>, <<"C", "A">>, <<"D", "C">>}
Reversed == {<<"B", "A">>, <<"C", "B">>, <<"A", "C">>, <<"C", "D">>}
Doubles  == {<<r, r>> : r \in Working}

(* The field codes: those of the opcode groups 9, a and b, and A.          *)
Fields == 0 .. 7 \cup {A_FIELD}

S(f) == get_start(f, P)
E(f) == get_end(f, P)

(* An instruction: its name, destination, source and field.                *)
Instr(op, d, s, f) == [op |-> op, d |-> d, s |-> s, f |-> f]

NoInstr == Instr("none", "A", "A", A_FIELD)

Executed(i) == /\ executed' = executed + 1
               /\ last' = i

Init ==
  /\ \E a, b \in Words :
       /\ reg = [r \in Working \cup Scratch |-> IF r \in {"A", "D"} THEN a ELSE b]
       /\ D0 = dat_to_addr(a)
  /\ P \in Pointers
  /\ hexmode \in {DEC, HEX}
  /\ CARRY = 0
  /\ hst = {"MP"}
  /\ PSTAT = [i \in Positions |-> i % 2]
  /\ last = NoInstr
  /\ executed = 0

(* An operation of register.c that returns a value and a carry.            *)
Computes(i, r) == /\ Executed(i)
                  /\ reg' = [reg EXCEPT ![i.d] = r.value]
                  /\ CARRY' = r.carry
                  /\ UNCHANGED <<D0, P, hexmode, hst, PSTAT>>

(* An operation that leaves CARRY alone.                                   *)
Moves(i, w) == /\ Executed(i)
               /\ reg' = [reg EXCEPT ![i.d] = w]
               /\ UNCHANGED <<D0, P, hexmode, CARRY, hst, PSTAT>>

-----------------------------------------------------------------------------
(* Opcode groups a, b and c to f: arithmetic and moves on a field.         *)
Add == \E p \in Pairs \cup Reversed \cup Doubles, f \in Fields :
         Computes(Instr("add", p[1], p[2], f),
                  add_register(reg[p[1]], reg[p[1]], reg[p[2]], S(f), E(f), hexmode))

Sub == \E p \in Pairs \cup Reversed, f \in Fields :
         Computes(Instr("sub", p[1], p[2], f),
                  sub_register(reg[p[1]], reg[p[1]], reg[p[2]], S(f), E(f), hexmode))

(* A=B-A and its like: the destination is subtracted from the source.      *)
SubFrom == \E p \in Pairs, f \in Fields :
             Computes(Instr("subfrom", p[1], p[2], f),
                      sub_register(reg[p[1]], reg[p[2]], reg[p[1]], S(f), E(f), hexmode))

Inc == \E r \in Working, f \in Fields :
         Computes(Instr("inc", r, r, f), inc_register(reg[r], S(f), E(f), hexmode))

Dec == \E r \in Working, f \in Fields :
         Computes(Instr("dec", r, r, f), dec_register(reg[r], S(f), E(f), hexmode))

Negate == \E r \in Working, f \in Fields :
            Computes(Instr("neg", r, r, f),
                     complement_2_register(reg[r], S(f), E(f), hexmode))

Complement == \E r \in Working, f \in Fields :
                Computes(Instr("not", r, r, f),
                         complement_1_register(reg[r], S(f), E(f), hexmode))

Zero == \E r \in Working, f \in Fields :
          Moves(Instr("zero", r, r, f), zero_register(reg[r], S(f), E(f)))

Copy == \E p \in Pairs \cup Reversed, f \in Fields :
          Moves(Instr("copy", p[1], p[2], f),
                copy_register(reg[p[1]], reg[p[2]], S(f), E(f)))

ShiftLeft == \E r \in Working, f \in Fields :
               Moves(Instr("sl", r, r, f), shift_left_register(reg[r], S(f), E(f)))

Exchange == \E p \in Pairs, f \in Fields :
  LET d == p[1]  r == p[2] IN
  /\ Executed(Instr("ex", d, r, f))
  /\ reg' = [reg EXCEPT ![d] = copy_register(reg[d], reg[r], S(f), E(f)),
                        ![r] = copy_register(reg[r], reg[d], S(f), E(f))]
  /\ UNCHANGED <<D0, P, hexmode, CARRY, hst, PSTAT>>

(* A=A&B and its like, opcode group 0E.                                    *)
And == \E p \in Pairs \cup Reversed, f \in Fields :
         Moves(Instr("and", p[1], p[2], f),
               and_register(reg[p[1]], reg[p[1]], reg[p[2]], S(f), E(f)))

Or == \E p \in Pairs \cup Reversed, f \in Fields :
        Moves(Instr("or", p[1], p[2], f),
              or_register(reg[p[1]], reg[p[1]], reg[p[2]], S(f), E(f)))

(* The shifts to the right remember in the sticky bit SB that something    *)
(* other than zero fell out.                                               *)
ShiftsRight(i, w, lost) ==
  /\ Executed(i)
  /\ reg' = [reg EXCEPT ![i.d] = w]
  /\ hst' = IF lost # 0 THEN hst \cup {"SB"} ELSE hst
  /\ UNCHANGED <<D0, P, hexmode, CARRY, PSTAT>>

ShiftRight == \E r \in Working, f \in Fields :
  ShiftsRight(Instr("sr", r, r, f), shift_right_register(reg[r], S(f), E(f)), reg[r][S(f)])

ShiftRightBit == \E r \in Working, f \in Fields :
  ShiftsRight(Instr("srb", r, r, f),
              shift_right_bit_register(reg[r], S(f), E(f)), reg[r][S(f)] % 2)

ShiftRightCirc == \E r \in Working :
  ShiftsRight(Instr("src", r, r, W_FIELD),
              shift_right_circ_register(reg[r], 0, 15), reg[r][0])

ShiftLeftCirc == \E r \in Working :
  Moves(Instr("slc", r, r, W_FIELD), shift_left_circ_register(reg[r], 0, 15))

(* Opcode 818: R=R+CON and R=R-CON.                                        *)
AddConstant == \E r \in Working, f \in Fields, n \in Immediates :
  Computes(Instr("addcon", r, r, f), add_register_constant(reg[r], S(f), E(f), n))

SubConstant == \E r \in Working, f \in Fields, n \in Immediates :
  Computes(Instr("subcon", r, r, f), sub_register_constant(reg[r], S(f), E(f), n))

(* Opcodes 10, 11, 12 and 81A: A and C and the scratch registers.          *)
SaveOrRecall == \E r \in Scratch, w \in {"A", "C"}, f \in Fields :
  \/ Moves(Instr("copy", r, w, f), copy_register(reg[r], reg[w], S(f), E(f)))
  \/ Moves(Instr("copy", w, r, f), copy_register(reg[w], reg[r], S(f), E(f)))
  \/ /\ Executed(Instr("ex", w, r, f))
     /\ reg' = [reg EXCEPT ![w] = copy_register(reg[w], reg[r], S(f), E(f)),
                           ![r] = copy_register(reg[r], reg[w], S(f), E(f))]
     /\ UNCHANGED <<D0, P, hexmode, CARRY, hst, PSTAT>>

-----------------------------------------------------------------------------
(* The tests of opcode groups 8A, 8B and 9: only CARRY changes, and the    *)
(* branch that follows is taken when it is set.                            *)
Tests(i, holds) == /\ Executed(i)
                   /\ CARRY' = IF holds THEN 1 ELSE 0
                   /\ UNCHANGED <<reg, D0, P, hexmode, hst, PSTAT>>

TestZero == \E r \in Working, f \in Fields :
  \/ Tests(Instr("=0", r, r, f), is_zero_register(reg[r], S(f), E(f)))
  \/ Tests(Instr("#0", r, r, f), ~is_zero_register(reg[r], S(f), E(f)))

TestEqual == \E p \in Pairs, f \in Fields :
  LET equal == is_equal_register(reg[p[1]], reg[p[2]], S(f), E(f)) IN
  \/ Tests(Instr("=", p[1], p[2], f), equal)
  \/ Tests(Instr("#", p[1], p[2], f), ~equal)

TestOrder == \E p \in Pairs, f \in Fields :
  LET T(op, Holds(_, _, _, _)) ==
        Tests(Instr(op, p[1], p[2], f), Holds(reg[p[1]], reg[p[2]], S(f), E(f)))
  IN \/ T(">", is_greater_register)
     \/ T("<", is_less_register)
     \/ T(">=", is_greater_or_equal_register)
     \/ T("<=", is_less_or_equal_register)

-----------------------------------------------------------------------------
(* Opcode group 0, 2 and 80: the mode, the pointer P, the status bits and  *)
(* constants.                                                              *)
SetMode == /\ Executed(NoInstr)
           /\ hexmode' \in {DEC, HEX}
           /\ UNCHANGED <<reg, D0, P, CARRY, hst, PSTAT>>

(* P=P+1 and P=P-1, with a carry when P wraps.                             *)
StepP == \E n \in {1, -1} :
  /\ Executed(NoInstr)
  /\ P' = (P + n) % 16
  /\ CARRY' = IF P + n \in Nibble THEN 0 ELSE 1
  /\ UNCHANGED <<reg, D0, hexmode, hst, PSTAT>>

(* P=n, C=P n, P=C n, CPEX n.                                              *)
MoveP ==
  /\ Executed(NoInstr)
  /\ \E n \in Indices :
       \/ P' = n /\ UNCHANGED reg
       \/ P' = P /\ reg' = [reg EXCEPT !["C"][n] = P]
       \/ P' = reg["C"][n] /\ UNCHANGED reg
       \/ P' = reg["C"][n] /\ reg' = [reg EXCEPT !["C"][n] = P]
  /\ UNCHANGED <<D0, hexmode, CARRY, hst, PSTAT>>

AddPPlusOne == Computes(Instr("c+p+1", "C", "C", A_FIELD), add_p_plus_one(reg["C"], P))

(* LC and LA.                                                              *)
LoadConstant == \E r \in {"A", "C"}, digits \in Literals :
  Moves(Instr("load", r, r, W_FIELD), load_constant(reg[r], digits, P))

(* CLRST, ST=0 n, ST=1 n, ST=C; C=ST; CSTEX.                               *)
SetStatus ==
  /\ Executed(NoInstr)
  /\ \/ PSTAT' = [i \in Positions |-> IF i < 12 THEN 0 ELSE PSTAT[i]] /\ UNCHANGED reg
     \/ \E n \in Indices, b \in {0, 1} : PSTAT' = [PSTAT EXCEPT ![n] = b] /\ UNCHANGED reg
     \/ PSTAT' = register_to_status(PSTAT, reg["C"]) /\ UNCHANGED reg
     \/ PSTAT' = PSTAT /\ reg' = [reg EXCEPT !["C"] = status_to_register(@, PSTAT)]
     \/ /\ PSTAT' = register_to_status(PSTAT, reg["C"])
        /\ reg' = [reg EXCEPT !["C"] = status_to_register(@, PSTAT)]
  /\ UNCHANGED <<D0, P, hexmode, CARRY, hst>>

(* ABIT and CBIT.                                                          *)
SetBit == \E r \in {"A", "C"}, n \in Indices :
  \/ Moves(Instr("setbit", r, r, A_FIELD), set_register_bit(reg[r], n))
  \/ Moves(Instr("clrbit", r, r, A_FIELD), clear_register_bit(reg[r], n))

TestBit == \E r \in {"A", "C"}, n \in Indices, b \in {0, 1} :
  Tests(NoInstr, get_register_bit(reg[r], n) = b)

TestP == \E n \in Indices : Tests(NoInstr, P = n) \/ Tests(NoInstr, P # n)

TestStatus == \E n \in Indices, b \in {0, 1} : Tests(NoInstr, PSTAT[n] = b)

(* The flags a nibble of the code names.                                   *)
Flags(n) == {x \in {"XM", "SB", "SR", "MP"} :
               Bit(n, CASE x = "XM" -> 0 [] x = "SB" -> 1 [] x = "SR" -> 2 [] x = "MP" -> 3) = 1}

(* CLRHST n, and RTNSXM and SREQ? as far as these registers go.            *)
SetHardwareStatus ==
  /\ Executed(NoInstr)
  /\ \/ \E n \in Indices : hst' = hst \ Flags(n) /\ UNCHANGED reg
     \/ hst' = hst \cup {"XM"} /\ UNCHANGED reg
     \/ hst' = hst \ {"SR"} /\ reg' = [reg EXCEPT !["C"][0] = 0]
  /\ UNCHANGED <<D0, P, hexmode, CARRY, PSTAT>>

TestHardwareStatus == \E n \in Indices : Tests(NoInstr, hst \cap Flags(n) = {})

-----------------------------------------------------------------------------
(* Opcode group 1: the data pointers, of which D0 stands for both.  The    *)
(* short forms, AD0XS and its like, leave the fifth nibble of D0 alone.    *)
LoadPointer ==
  /\ Executed(NoInstr)
  /\ \/ \E r \in {"A", "C"}, n \in {4, 5} : D0' = register_to_address(D0, reg[r], n)
     \/ \E digits \in Literals :
          /\ Len(digits) \in {2, 4, 5}
          /\ D0' = register_to_address(D0, [i \in 0 .. Len(digits) - 1 |-> digits[i + 1]],
                                       Len(digits))
  /\ UNCHANGED <<reg, P, hexmode, CARRY, hst, PSTAT>>

ExchangePointer == \E r \in {"A", "C"}, n \in {4, 5} :
  /\ Executed(NoInstr)
  /\ D0' = register_to_address(D0, reg[r], n)
  /\ reg' = [reg EXCEPT ![r] = address_to_register(@, D0, n)]
  /\ UNCHANGED <<P, hexmode, CARRY, hst, PSTAT>>

AdvancePointer == \E n \in Immediates, sign \in {1, -1} :
  LET r == add_address(D0, sign * n) IN
  /\ Executed(NoInstr)
  /\ D0' = r.value
  /\ CARRY' = r.carry
  /\ UNCHANGED <<reg, P, hexmode, hst, PSTAT>>

Instruction ==
  \/ Add \/ Sub \/ SubFrom \/ Inc \/ Dec \/ Negate \/ Complement \/ AddConstant \/ SubConstant
  \/ Zero \/ Copy \/ Exchange \/ And \/ Or \/ SaveOrRecall
  \/ ShiftLeft \/ ShiftRight \/ ShiftRightBit \/ ShiftRightCirc \/ ShiftLeftCirc
  \/ TestZero \/ TestEqual \/ TestOrder \/ TestBit \/ TestP \/ TestStatus \/ TestHardwareStatus
  \/ SetMode \/ StepP \/ MoveP \/ AddPPlusOne \/ LoadConstant
  \/ SetStatus \/ SetBit \/ SetHardwareStatus
  \/ LoadPointer \/ ExchangePointer \/ AdvancePointer

(* The end of a bounded run.                                               *)
Done == executed = MaxInstructions /\ UNCHANGED vars

Next == (executed < MaxInstructions /\ Instruction) \/ Done

Spec == Init /\ [][Next]_vars

-----------------------------------------------------------------------------
(* What a field is, said without the tables of register.c: the pointer's   *)
(* nibble and those up to it, the exponent's sign and the exponent, the    *)
(* sign, the mantissa, the byte, the word and the address.                 *)
FieldOf(f, p) == CASE f = 0  -> {p}
                   [] f = 1  -> 0 .. p
                   [] f = 2  -> {2}
                   [] f = 3  -> 0 .. 2
                   [] f = 4  -> {15}
                   [] f = 5  -> 3 .. 14
                   [] f = 6  -> 0 .. 1
                   [] f = 7  -> 0 .. 15
                   [] f = 15 -> 0 .. 4

(* What an instruction may change.                                         *)
FieldStep ==
  LET i == last' IN
  i # NoInstr =>
    \A r \in DOMAIN reg : \A k \in Positions :
      reg'[r][k] # reg[r][k] => /\ r = i.d \/ (i.op = "ex" /\ r = i.s)
                               /\ k \in FieldOf(i.f, P)

(* An instruction on a field changes no nibble outside its field and no    *)
(* register but its destination and, when it exchanges, its source: the    *)
(* tables start_fields and end_fields and the bounds of every loop.        *)
OnlyTheField == [][FieldStep]_vars

(* A field no longer than Longest, its number and how many there are.      *)
Power(b, n)     == LET p[k \in 0 .. 16] == IF k = 0 THEN 1 ELSE b * p[k - 1] IN p[n]
Short(f)        == E(f) - S(f) < Longest
Value(w, f, b)  == Number(w, S(f), E(f), b)
Modulus(f, b)   == Power(b, E(f) - S(f) + 1)
Digits(w, f, b) == \A k \in FieldOf(f, P) : w[k] < b

(* What an arithmetic instruction computes.                                *)
ArithmeticStep ==
  LET i == last'
      b == IF i.op \in {"addcon", "subcon", "c+p+1"} THEN 16 ELSE hexmode
      m == Modulus(i.f, b)
      d == Value(reg[i.d], i.f, b)
      s == Value(reg[i.s], i.f, b)
      r == Value(reg'[i.d], i.f, b)
  IN i # NoInstr /\ Short(i.f) /\ Digits(reg[i.d], i.f, b) /\ Digits(reg[i.s], i.f, b) =>
       /\ i.op = "add"     => r + m * CARRY' = d + s
       /\ i.op = "sub"     => r - m * CARRY' = d - s
       /\ i.op = "subfrom" => r - m * CARRY' = s - d
       /\ i.op = "inc"     => r + m * CARRY' = d + 1
       /\ i.op = "dec"     => r - m * CARRY' = d - 1
       /\ i.op = "neg"     => r = (-d) % m /\ CARRY' = (IF d = 0 THEN 0 ELSE 1)
       /\ i.op = "not"     => r = m - 1 - d /\ CARRY' = 0
       /\ i.op = "addcon"  => \E n \in Immediates : r + m * CARRY' = d + n
       /\ i.op = "subcon"  => \E n \in Immediates : r - m * CARRY' = d - n
       /\ i.op = "c+p+1"   => r + m * CARRY' = d + P + 1

(* Nibble by nibble arithmetic is arithmetic on the numbers the fields     *)
(* hold, decimal or hexadecimal as the mode says, and CARRY is what does   *)
(* not fit; constants, and C+P+1, count in sixteens in both modes.         *)
ArithmeticIsExact == [][ArithmeticStep]_vars

(* What an addition loses: nothing.                                        *)
AdditionStep ==
  LET i == last' IN
  /\ i.op = "add" /\ i.d # i.s
  /\ Digits(reg[i.d], i.f, hexmode) /\ Digits(reg[i.s], i.f, hexmode)
  => sub_register(reg'[i.d], reg'[i.d], reg[i.s], S(i.f), E(i.f), hexmode)
       = [value |-> reg[i.d], carry |-> CARRY']

(* On every field, the long ones too, subtracting what an addition added   *)
(* gives back what was there and borrows exactly when the addition         *)
(* carried.                                                                *)
SubtractionUndoesAddition == [][AdditionStep]_vars

(* What decimal digits become.                                             *)
DecimalStep ==
  LET i == last' IN
  /\ hexmode = DEC /\ i # NoInstr
  /\ i.op \notin {"and", "or", "srb", "addcon", "subcon", "c+p+1", "load", "setbit", "clrbit"}
  /\ Digits(reg[i.d], W_FIELD, DEC) /\ Digits(reg[i.s], W_FIELD, DEC)
  => Digits(reg'[i.d], W_FIELD, DEC) /\ Digits(reg'[i.s], W_FIELD, DEC)

(* In decimal mode the arithmetic, moves and nibble shifts leave decimal   *)
(* digits where they found decimal digits: no sum or borrow leaks a digit  *)
(* above nine that later arithmetic would carry along.                     *)
DecimalStaysDecimal == [][DecimalStep]_vars

(* What a test decides.                                                    *)
TestStep ==
  LET i == last'
      d == Value(reg[i.d], i.f, 16)
      s == Value(reg[i.s], i.f, 16)
      Decides(op, holds) == i.op = op => CARRY' = (IF holds THEN 1 ELSE 0)
  IN i # NoInstr /\ Short(i.f) =>
       /\ Decides("=0", d = 0) /\ Decides("#0", d # 0)
       /\ Decides("=", d = s)  /\ Decides("#", d # s)
       /\ Decides("<", d < s)  /\ Decides("<=", d <= s)
       /\ Decides(">", d > s)  /\ Decides(">=", d >= s)

(* The nibble-wise tests compare the numbers the fields hold, whatever the *)
(* mode: the branch decision in CARRY is that comparison.                  *)
TestsCompareNumbers == [][TestStep]_vars

(* What a shift computes.                                                  *)
ShiftStep ==
  LET i == last'
      d == Value(reg[i.d], i.f, 16)
      r == Value(reg'[i.d], i.f, 16)
      Divides(n) == r = d \div n /\ hst' = hst \cup (IF d % n = 0 THEN {} ELSE {"SB"})
  IN i # NoInstr =>
       /\ i.op = "sl"  /\ Short(i.f) => r = (16 * d) % Modulus(i.f, 16)
       /\ i.op = "sr"  /\ Short(i.f) => Divides(16)
       /\ i.op = "srb" /\ Short(i.f) => Divides(2)
       /\ i.op = "slc" => shift_right_circ_register(reg'[i.d], 0, 15) = reg[i.d]
       /\ i.op = "src" => shift_left_circ_register(reg'[i.d], 0, 15) = reg[i.d]

(* A shift multiplies or divides by sixteen, SRB divides by two, and the   *)
(* sticky bit tells that the division was not exact; the circular shifts   *)
(* undo each other.                                                        *)
ShiftsMultiplyAndDivide == [][ShiftStep]_vars
=============================================================================
