---------------------------- MODULE Disassembler ----------------------------
(***************************************************************************)
(* What disassemble says of an instruction, in either of the two sets of   *)
(* mnemonics, "HP" and "CLASS": the operation, registers and field the     *)
(* text names, the address it prints, and how far it advances the address. *)
(* HP writes destination, equals sign and operands; CLASS writes the       *)
(* operation, the source and then the destination.  Where the two tables   *)
(* say the same the model has one.  Layout is left out.                    *)
(***************************************************************************)
EXTENDS Decoder

(* A line of disassembly; the pointer is left next nibbles further on.  A  *)
(* jump is printed with the address it leads to and, if it is a relative   *)
(* one, with its distance from the instruction.                            *)
NoDistance == AddressSpace   \* none is printed: it has at most five digits

Target(to, by) == [to |-> to, by |-> by]

JumpLine(next, ins, t) == [next |-> next, ins |-> ins, to |-> t.to, by |-> t.by]
Line(next, ins)        == JumpLine(next, ins, Target(NoJump, NoDistance))
Blank(next)            == Line(next, Plain("illegal"))

(* No line at all: the emulator crashes, and no address is returned.       *)
NoAddress == -1
Crash     == Line(NoAddress, Plain("crash"))

(* The names of the fields, and what they mean to a reader.                *)
field_tbl == <<"P", "WP", "XS", "X", "S", "M", "B", "W",
               "P", "WP", "XS", "X", "S", "M", "B", "A">>

Meaning == [P |-> <<-1, -1>>, WP |-> <<0, -1>>, XS |-> <<2, 2>>, X |-> <<0, 2>>,
            S |-> <<15, 15>>, M |-> <<3, 14>>, B |-> <<0, 1>>, W |-> <<0, 15>>,
            A |-> <<0, 4>>]

append_field(fn) == Meaning[field_tbl[fn + 1]]

op_str_81 == <<"A", "B", "C", "D">>

(* append_r_addr: the target of a displacement, relative to pc, and its    *)
(* distance from the instruction, offset nibbles before pc.  The distance  *)
(* is printed as a sign and five digits: when a jump back is shorter than  *)
(* offset, as a minus and what is left of the address space.               *)
append_r_addr(pc, disp, n, offset) ==
  LET d == IF disp >= 2^(4 * n - 1) THEN disp - 2^(4 * n) ELSE disp
  IN Target((pc + d) % AddressSpace,
            IF d < 0 THEN -((-d - offset) % AddressSpace) ELSE (d + offset) % AddressSpace)

(* GOYES and RTNYES.                                                       *)
GoYes(pc, disp, offset) ==
  IF disp = 0 THEN Target(Return, NoDistance) ELSE append_r_addr(pc, disp, 2, offset)

(* What a CLASS line with a source and a destination does.                 *)
ClassIns(op, src, dst, f) ==
  CASE op = "add"  -> Ins("+", dst, dst, src, f, 0)
    [] op = "sub"  -> Ins("-", dst, dst, src, f, 0)
    [] op = "subr" -> Ins("-", dst, src, dst, f, 0)
    [] op = "and"  -> Ins("&", dst, dst, src, f, 0)
    [] op = "or"   -> Ins("!", dst, dst, src, f, 0)
    [] op = "move" -> Ins("=", dst, src, None, f, 0)
    [] op = "exg"  -> Ins("EX", dst, src, None, f, 0)

-----------------------------------------------------------------------------
(* Opcode 0.                                                               *)
opcode_0_tbl == <<"RTNSXM", "RTN", "RTNSC", "RTNCC", "SETHEX", "SETDEC", "RSTK=C", "C=RSTK",
                  "CLRST", "C=ST", "ST=C", "CSTEX", "P=P+1", "P=P-1", None, "RTI">>

op_str_0_HP == <<<<"A", "A", "B">>, <<"B", "B", "C">>, <<"C", "C", "A">>, <<"D", "D", "C">>,
                 <<"B", "B", "A">>, <<"C", "C", "B">>, <<"A", "A", "C">>, <<"C", "C", "D">>>>

op_str_0_CLASS == <<<<"B", "A">>, <<"C", "B">>, <<"A", "C">>, <<"C", "D">>,
                    <<"A", "B">>, <<"B", "C">>, <<"C", "A">>, <<"D", "C">>>>

disasm_0(mode, c) ==
  LET hp == op_str_0_HP[(c[3] % 8) + 1]
      cl == op_str_0_CLASS[(c[3] % 8) + 1]
      f  == append_field(c[2])
  IN IF c[1] # 14 THEN Line(2, Plain(opcode_0_tbl[c[1] + 1]))
     ELSE Line(4, IF mode = "HP"
                  THEN Ins(IF c[3] < 8 THEN "&" ELSE "!", hp[1], hp[2], hp[3], f, 0)
                  ELSE ClassIns(IF c[3] < 8 THEN "and" ELSE "or", cl[1], cl[2], f))

-----------------------------------------------------------------------------
(* Group 1.                                                                *)

(* The moves to and from the scratch registers: the nibble is masked       *)
(* before it is asked for A or C, so that A is always named.               *)
disasm_scratch(kind, n) ==
  LET fn == n % 8
      r == <<"R0", "R1", "R2", "R3", "R4">>[(IF fn > 4 THEN fn - 4 ELSE fn) + 1]
      w == IF fn < 8 THEN "A" ELSE "C"
      f == append_field(7)
  IN CASE kind = 0 -> Ins("=", r, w, None, f, 0)
       [] kind = 1 -> Ins("=", w, r, None, f, 0)
       [] kind = 2 -> Ins("EX", w, r, None, f, 0)

disasm_pointer(n) ==
  LET w == IF n % 8 >= 4 THEN "C" ELSE "A"
      d == IF n % 2 = 1 THEN "D1" ELSE "D0"
      f == IF n < 8 THEN Meaning["A"] ELSE <<0, 3>>
  IN IF (n % 4) >= 2 THEN Ins("EX", w, d, None, f, 0) ELSE Ins("=", d, w, None, f, 0)

op_str_1 == <<<<"DAT0", "A">>, <<"DAT1", "A">>, <<"A", "DAT0">>, <<"A", "DAT1">>,
              <<"DAT0", "C">>, <<"DAT1", "C">>, <<"C", "DAT0">>, <<"C", "DAT1">>>>

disasm_memory(fn, f, n) ==
  LET m == op_str_1[(fn % 8) + 1] IN Ins("=", m[1], m[2], None, f, n)

(* D0=D0+n and the like: the increment advances the pointer to the         *)
(* address, not the address.                                               *)
disasm_step(c) ==
  LET d == IF c[1] \in {6, 8} THEN "D0" ELSE "D1"
  IN Line(2, With("+", d, IF c[1] < 8 THEN c[2] + 1 ELSE -(c[2] + 1)))

disasm_load(c) ==
  LET n == <<2, 4, 5>>[c[1] % 4]
  IN Line(2 + n, With("load", IF c[1] < 13 THEN "D0" ELSE "D1", n))

disasm_1(c) ==
  CASE c[1] \in 0 .. 2 -> Line(3, disasm_scratch(c[1], c[2]))
    [] c[1] = 3 -> Line(3, disasm_pointer(c[2]))
    [] c[1] = 4 -> Line(3, disasm_memory(c[2], Meaning[IF c[2] < 8 THEN "A" ELSE "B"], 0))
    [] c[1] = 5 -> Line(4, IF c[2] < 8 THEN disasm_memory(c[2], append_field(c[3]), 0)
                           ELSE disasm_memory(c[2], <<>>, c[3] + 1))
    [] c[1] \in {6, 7, 8, 12} -> disasm_step(c)
    [] OTHER -> disasm_load(c)

-----------------------------------------------------------------------------
(* Group 8.                                                                *)
in_str_80 == [n \in 0 .. 7 \cup {9, 10, 11, 14} |->
  CASE n = 0 -> "OUT=CS" [] n = 1 -> "OUT=C"  [] n = 2 -> "A=IN"    [] n = 3 -> "C=IN"
    [] n = 4 -> "UNCNFG" [] n = 5 -> "CONFIG" [] n = 6 -> "C=ID"    [] n = 7 -> "SHUTDN"
    [] n = 9 -> "C+P+1"  [] n = 10 -> "RESET" [] n = 11 -> "BUSCC"  [] n = 14 -> "SREQ?"]

in_str_808 == [n \in {0, 3, 12, 13, 14, 15} |->
  CASE n = 0 -> "INTON"   [] n = 3 -> "BUSCB"   [] n = 12 -> "PC=(A)"
    [] n = 13 -> "BUSCD"  [] n = 14 -> "PC=(C)" [] n = 15 -> "INTOFF"]

(* RSI followed by another nibble than 0 prints nothing and leaves in p    *)
(* the null pointer that the look-up returned; disassemble then ends the   *)
(* line by writing through it.                                             *)
disasm_808(pc, c) ==
  LET fn == c[3]
      one == fn % 2 = 1
  IN CASE fn \in DOMAIN in_str_808 -> Line(4, Plain(in_str_808[fn]))
       [] fn = 1 -> IF c[4] = 0 THEN Line(5, Plain("RSI")) ELSE Crash
       [] fn = 2 -> Line(5 + c[4] + 1, With("load", "A", c[4] + 1))
       [] fn \in {4, 5, 8, 9} ->
            Line(5, With(IF one THEN "BIT=1" ELSE "BIT=0", IF fn >= 8 THEN "C" ELSE "A", c[4]))
       [] fn \in {6, 7, 10, 11} ->
            JumpLine(7, With(IF one THEN "?BIT=1" ELSE "?BIT=0", IF fn < 10 THEN "A" ELSE "C", c[4]),
                     GoYes(pc + 5, Read(c, 5, 2), 5))

(* C=P, P=C and CPEX: the CLASS text has source and destination of the     *)
(* two moves the wrong way round.                                          *)
disasm_P(mode, n) ==
  CASE n = 15 -> "CPEX"
    [] n = 12 -> IF mode = "HP" THEN "C=P" ELSE "P=C"
    [] n = 13 -> IF mode = "HP" THEN "P=C" ELSE "C=P"

disasm_80(mode, pc, c) ==
  CASE c[2] \in DOMAIN in_str_80 -> Line(3, Plain(in_str_80[c[2]]))
    [] c[2] = 8                  -> disasm_808(pc, c)
    [] c[2] \in {12, 13, 15}     -> Line(4, With(disasm_P(mode, c[2]), None, c[3]))

in_str_81b == [n \in 2 .. 7 |->
  <<"PC=A", "PC=C", "A=PC", "C=PC", "APCEX", "CPCEX">>[n - 1]]

(* 81a: a number above 4 is not taken for one of R1 to R3 here.            *)
disasm_81a(c) ==
  LET w == IF c[5] < 8 THEN "A" ELSE "C"
      r == <<"R0", "R1", "R2", "R3", "R4">>[(c[5] % 8) + 1]
      f == append_field(c[3])
  IN IF c[4] > 2 THEN Blank(5)
     ELSE IF c[5] % 8 > 4 THEN Blank(6)
     ELSE Line(6, CASE c[4] = 2 -> Ins("EX", w, r, None, f, 0)
                    [] c[4] = 1 -> Ins("=", w, r, None, f, 0)
                    [] c[4] = 0 -> Ins("=", r, w, None, f, 0))

(* 819 names the register by the nibble that selected SRB, 9, and leaves   *)
(* the register's own nibble unread.                                       *)
disasm_81(c) ==
  LET n == c[2]
      r == op_str_81[(n % 4) + 1]
  IN CASE n < 4 -> Line(3, Ins("SLC", r, None, None, Meaning["W"], 0))
       [] n \in 4 .. 7 -> Line(3, Ins("SRC", r, None, None, Meaning["W"], 0))
       [] n = 8  -> Line(6, Ins(IF c[4] < 8 THEN "+CON" ELSE "-CON", op_str_81[(c[4] % 4) + 1],
                                None, None, append_field(c[3]), c[5] + 1))
       [] n = 9  -> Line(4, Ins("SRB", r, None, None, append_field(c[3]), 0))
       [] n = 10 -> disasm_81a(c)
       [] n = 11 -> IF c[3] \in DOMAIN in_str_81b THEN Line(4, Plain(in_str_81b[c[3]]))
                    ELSE Blank(4)
       [] n >= 12 -> Line(3, Ins("SRB", r, None, None, Meaning["W"], 0))

(* The tests of flags, of program status bits and of P.                    *)
disasm_test(pc, c) ==
  LET what == CASE c[1] = 3 -> "?HST=0"
                [] c[1] \in {6, 7} -> IF c[1] = 6 THEN "?ST=0" ELSE "?ST=1"
                [] c[1] \in {8, 9} -> IF c[1] = 8 THEN "?P#" ELSE "?P="
  IN JumpLine(5, With(what, None, c[2]), GoYes(pc + 3, Read(c, 3, 2), 3))

(* 8d and 8f both read as the call: their nibble is compared with 0xc.     *)
disasm_jump(pc, c) ==
  IF c[1] \in {12, 14}
  THEN JumpLine(6, Plain(IF c[1] = 12 THEN "GOLONG" ELSE "GOSUBL"),
                append_r_addr(IF c[1] = 14 THEN pc + 6 ELSE pc + 2, Read(c, 2, 4), 4,
                              IF c[1] = 12 THEN 2 ELSE 6))
  ELSE JumpLine(7, Plain(IF c[1] = 12 THEN "GOVLNG" ELSE "GOSBVL"),
                Target(Read(c, 2, 5), NoDistance))

disasm_8(mode, pc, c) ==
  CASE c[1] = 0 -> disasm_80(mode, pc, c)
    [] c[1] = 1 -> disasm_81(c)
    [] c[1] = 2 -> Line(3, With("HST=0", None, c[2]))
    [] c[1] \in {4, 5} -> Line(3, With(IF c[1] = 4 THEN "ST=0" ELSE "ST=1", None, c[2]))
    [] c[1] \in {3, 6, 7, 8, 9} -> disasm_test(pc, c)
    [] c[1] \in 12 .. 15 -> disasm_jump(pc, c)

-----------------------------------------------------------------------------
(* Opcodes 4 to 7: jumps of three and four nibbles.                        *)
disasm_carry(pc, c) ==
  LET disp == Read(c, 1, 2)
  IN IF disp = 2 THEN Line(3, Plain("NOP3"))
     ELSE JumpLine(3, Plain(IF c[0] = 4 THEN "GOC" ELSE "GONC"), GoYes(pc + 1, disp, 1))

disasm_goto(pc, c) ==
  LET disp == Read(c, 1, 3)
  IN CASE disp = 3 -> Line(4, Plain("NOP4"))
       [] disp = 4 -> Line(4, Plain("NOP5"))
       [] OTHER -> JumpLine(4, Plain("GOTO"), append_r_addr(pc + 1, disp, 3, 1))

disasm_gosub(pc, c) == JumpLine(4, Plain("GOSUB"), append_r_addr(pc + 4, Read(c, 1, 3), 3, 4))

-----------------------------------------------------------------------------
(* Opcodes 9, 8a and 8b: comparisons.                                      *)
op_str_9 == <<<<"A", "B">>, <<"B", "C">>, <<"C", "A">>, <<"D", "C">>,
              <<"A", "0">>, <<"B", "0">>, <<"C", "0">>, <<"D", "0">>>>

in_str_9 == <<"?=", "?#", "?=", "?#", "?>", "?<", "?>=", "?<=">>

disasm_9(pc, c) ==
  LET fn   == IF c[0] = 8 THEN 15 ELSE c[1] % 8
      high == IF c[0] = 8 THEN c[1] # 10 ELSE c[1] >= 8
      n    == c[2]
      ops  == op_str_9[(n % 4) + (IF ~high /\ n >= 8 THEN 5 ELSE 1)]
      op   == in_str_9[(n \div 4) + (IF high THEN 5 ELSE 1)]
  IN JumpLine(5, Ins(op, None, ops[1], ops[2], append_field(fn), 0), GoYes(pc + 3, Read(c, 3, 2), 3))

-----------------------------------------------------------------------------
(* Opcodes a to f.                                                         *)
op_str_af_HP ==
  <<<<"A", "A", "B">>, <<"B", "B", "C">>, <<"C", "C", "A">>, <<"D", "D", "C">>,
    <<"A", "A", "A">>, <<"B", "B", "B">>, <<"C", "C", "C">>, <<"D", "D", "D">>,
    <<"B", "B", "A">>, <<"C", "C", "B">>, <<"A", "A", "C">>, <<"C", "C", "D">>,
    <<"A", "B", "A">>, <<"B", "C", "B">>, <<"C", "A", "C">>, <<"D", "C", "D">>>>

op_str_af_CLASS ==
  <<<<"B", "A">>, <<"C", "B">>, <<"A", "C">>, <<"C", "D">>,
    <<"A", "A">>, <<"B", "B">>, <<"C", "C">>, <<"D", "D">>,
    <<"A", "B">>, <<"B", "C">>, <<"C", "A">>, <<"D", "C">>,
    <<"B", "A">>, <<"C", "B">>, <<"A", "C">>, <<"C", "D">>>>

hp_reg_1_af == <<"A", "B", "C", "D", "A", "B", "C", "D", "B", "C", "A", "C", "A", "B", "A", "C">>
hp_reg_2_af == <<"0", "0", "0", "0", "B", "C", "A", "C", "A", "B", "C", "D", "B", "C", "C", "D">>

(* The HP text; its line for the negation is that of the decrement.        *)
hp_af(add, high, n, fn) ==
  LET f == append_field(fn)
      x == op_str_81[(n % 4) + 1]
      t == op_str_af_HP[n + 1]
      One(op)   == Ins(op, x, None, None, f, 0)
      Three(op) == Ins(op, t[1], t[2], t[3], f, 0)
      Two(op)   == Ins(op, hp_reg_1_af[n + 1], hp_reg_2_af[n + 1], None, f, 0)
  IN CASE add /\ ~high  -> IF n < 12 THEN Three("+") ELSE One("-1")
       [] add /\ high   -> IF n < 4 THEN Ins("=", x, "0", None, f, 0)
                           ELSE IF n >= 12 THEN Two("EX") ELSE Two("=")
       [] ~add /\ ~high -> IF n \in 4 .. 7 THEN One("+1") ELSE Three("-")
       [] ~add /\ high  -> One(<<"SL", "SR", "-1", "not">>[(n \div 4) + 1])

(* The copies of the second row of CLASS take the operands of the first.   *)
(* Mutant: they take their own.                                            *)
OwnRow(n) == n

CopyRow(n) == IF n < 8 THEN n - 4 ELSE n

class_af(add, high, n, fn) ==
  LET f == append_field(fn)
      x == op_str_81[(n % 4) + 1]
      One(op)    == Ins(op, x, None, None, f, 0)
      Two(op, i) == ClassIns(op, op_str_af_CLASS[i + 1][1], op_str_af_CLASS[i + 1][2], f)
  IN CASE add /\ ~high  -> IF n < 12 THEN Two("add", n) ELSE One("-1")
       [] add /\ high   -> IF n < 4 THEN Ins("=", x, "0", None, f, 0)
                           ELSE IF n >= 12 THEN Two("exg", n)
                           ELSE Two("move", CopyRow(n))
       [] ~add /\ ~high -> IF n >= 12 THEN Two("subr", n)
                           ELSE IF n \in 4 .. 7 THEN One("+1") ELSE Two("sub", n)
       [] ~add /\ high  -> One(<<"SL", "SR", "neg", "not">>[(n \div 4) + 1])

disasm_af(mode, c) ==
  LET wide == c[0] < 12                                 \* the field has a nibble of its own
      n    == IF wide THEN c[2] ELSE c[1]
      fn   == IF wide THEN c[1] % 8 ELSE 15
      high == IF wide THEN c[1] >= 8 ELSE c[0] % 2 = 1
      add  == c[0] \in {10, 12, 13}
  IN Line(IF wide THEN 3 ELSE 2,
          IF mode = "HP" THEN hp_af(add, high, n, fn) ELSE class_af(add, high, n, fn))

disassemble(mode, pc, c) ==
  CASE c[0] = 0 -> disasm_0(mode, c)
    [] c[0] = 1 -> disasm_1(c)
    [] c[0] = 2 -> Line(2, With("P=", None, c[1]))
    [] c[0] = 3 -> Line(2 + c[1] + 1, With("load", "C", c[1] + 1))
    [] c[0] \in {4, 5} -> disasm_carry(pc, c)
    [] c[0] = 6 -> disasm_goto(pc, c)
    [] c[0] = 7 -> disasm_gosub(pc, c)
    [] c[0] = 9 \/ (c[0] = 8 /\ c[1] \in {10, 11}) -> disasm_9(pc, c)
    [] c[0] = 8 /\ c[1] \notin {10, 11} -> disasm_8(mode, pc, c)
    [] c[0] >= 10 -> disasm_af(mode, c)
=============================================================================
