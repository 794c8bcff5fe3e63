------------------------------- MODULE Decode -------------------------------
(***************************************************************************)
(* The two readers of the same code: step_instruction, which executes it,  *)
(* and disassemble, which tells the user of the debugger what will be      *)
(* executed.  They are written independently of each other, with tables of *)
(* their own, and have to agree on every instruction.                      *)
(*                                                                         *)
(* The code is looked at nibble by nibble until both readers have what     *)
(* they need; then it is executed, or the debugger changes the mnemonics.  *)
(***************************************************************************)
EXTENDS Disassembler

CONSTANTS
  PCs,         \* the addresses at which instructions are looked at
  DataDigits   \* the values of those nibbles of an instruction that are data

ASSUME DecodeAssumption ==
  /\ PCs \subseteq 0 .. AddressSpace - 1
  /\ DataDigits \subseteq Nibble /\ DataDigits # {}

VARIABLES
  mode,   \* disassembler_mode
  pc,     \* saturn.PC
  code    \* the nibbles at saturn.PC that have been looked at

decodeVars == <<mode, pc, code>>

Modes == {"HP", "CLASS"}

CodeSize == 18   \* the longest instruction: LC with sixteen digits

(* The code as both readers see it; what was not looked at does not matter *)
(* to them.                                                                *)
Code == [i \in 0 .. CodeSize + 1 |-> IF i < Len(code) THEN code[i + 1] ELSE 0]

Decoded == step_instruction(pc, Code)
Listed   == disassemble(mode, pc, Code)

Complete == Len(code) >= Decoded.len /\ Len(code) >= Listed.next

(* Nibble i of an instruction may select what it is: the first three, and  *)
(* in the groups 80 and 81 three more.  Of the digits of a constant only   *)
(* the first few differ.                                                   *)
Selects(i) == i <= 2 \/ (code[1] = 8 /\ code[2] \in {0, 1} /\ i <= 5)

Values == LET i == Len(code)
          IN IF Selects(i) THEN Nibble ELSE IF i <= 6 THEN DataDigits ELSE {0}

-----------------------------------------------------------------------------
DecodeInit == mode \in Modes /\ pc \in PCs /\ code = <<>>

Fetch == /\ ~Complete
         /\ \E n \in Values : code' = Append(code, n)
         /\ UNCHANGED <<mode, pc>>

(* The instruction is executed; the next one may be anywhere.              *)
Execute == /\ Complete
           /\ code' = <<>>
           /\ pc' \in PCs
           /\ UNCHANGED mode

(* The debugger's command mode.                                            *)
do_mode == /\ mode' \in Modes \ {mode}
           /\ UNCHANGED <<pc, code>>

DecodeNext == Fetch \/ Execute \/ do_mode

DecodeSpec == DecodeInit /\ [][DecodeNext]_decodeVars

-----------------------------------------------------------------------------
(* The instructions that disassemble is known to misread, and how.         *)

(* It takes a nibble less than the instruction has: the steps of a         *)
(* pointer, SRB with a field, and NOP5 and the trap.                       *)
TooShort ==
  \/ code[1] = 1 /\ code[2] \in {6, 7, 8, 12}
  \/ code[1] = 8 /\ code[2] = 1 /\ code[3] = 9
  \/ code[1] = 6 /\ Decoded.ins.op \in {"NOP5", "TRAP"}

(* It names another instruction: A for C and a scratch register, B for     *)
(* every register whose bits SRB shifts in a field, a call for the long    *)
(* jump 8d, NOP5 for the trap, a decrement for the negation in HP          *)
(* mnemonics, C=P for P=C and P=C for C=P in CLASS mnemonics.              *)
Misnamed ==
  \/ code[1] = 1 /\ code[2] < 3 /\ code[3] >= 8
  \/ code[1] = 8 /\ code[2] = 1 /\ code[3] = 9 /\ code[5] % 4 # 1
  \/ code[1] = 8 /\ code[2] = 13
  \/ Decoded.ins.op = "TRAP"
  \/ mode = "HP" /\ Decoded.ins.op = "neg"
  \/ mode = "CLASS" /\ Decoded.ins.op \in {"C=P", "P=C"}

(* It leaves blank what is executed: the second numbers of R1 to R3 with a *)
(* field.                                                                  *)
Unnamed == code[1] = 8 /\ code[2] = 1 /\ code[3] = 10 /\ code[5] <= 2 /\ code[6] % 8 > 4

(* It crashes: RSI before another nibble than 0.                           *)
Crashes == Decoded.ins.op = "RSI" /\ code[5] # 0

(* The same work: a test for equality and an exchange may be written       *)
(* either way round, and a jump to the next instruction does nothing.      *)
Symmetric == {"?=", "?#", "EX"}

Turned(i) == IF i.d = None THEN Ins(i.op, i.d, i.r, i.l, i.f, i.n)
             ELSE Ins(i.op, i.l, i.d, i.r, i.f, i.n)

SameWork(e, l) ==
  \/ e.ins = l.ins
  \/ e.ins.op \in Symmetric /\ e.ins = Turned(l.ins)
  \/ l.ins.op = "NOP3" /\ e.to = (pc + 3) % AddressSpace

(* What the debugger shows is what the CPU executes, the operation, its    *)
(* registers in their order, the field and the number, exactly but for     *)
(* the instructions above; it leaves blank exactly what the CPU refuses    *)
(* and those left unnamed, and crashes at no other.                        *)
ShowsWhatIsExecuted ==
  Complete => /\ SameWork(Decoded, Listed) <=> ~(Misnamed \/ Unnamed \/ Crashes)
              /\ Listed.ins.op = "illegal" <=> Decoded.ins.op = "illegal" \/ Unnamed
              /\ Listed = Crash <=> Crashes

(* The address disassemble returns is that of the instruction after the    *)
(* one executed, exactly but for those it takes too short and the one it   *)
(* returns no address for.                                                 *)
SameLength ==
  Complete /\ Decoded.ins.op # "illegal" =>
    (Decoded.len = Listed.next <=> ~TooShort /\ ~Crashes)

(* The address printed with a jump, call or test is the one the CPU goes   *)
(* to, whichever nibble of the instruction it is relative to and however   *)
(* it wraps around the address space; RTNYES is shown exactly for a        *)
(* return.  The distance printed with it leads there from the instruction. *)
SameTarget ==
  Complete => /\ \/ Decoded.to = Listed.to
                 \/ Listed.ins.op = "NOP3" /\ Decoded.to = (pc + 3) % AddressSpace
              /\ Listed.by # NoDistance => Listed.to = (pc + Listed.by) % AddressSpace

=============================================================================
