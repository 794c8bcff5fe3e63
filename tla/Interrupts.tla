----------------------------- MODULE Interrupts -----------------------------
(***************************************************************************)
(* Interrupt control of the Saturn CPU as the emulator implements it: the  *)
(* mask saturn.intenable, the one-deep memory of a masked keyboard         *)
(* interrupt saturn.int_pending, the return stack, the sleep that SHUTDN   *)
(* starts, and the loops emulate, emulate_debug and debug that decide      *)
(* between which steps an interrupt can arrive.                            *)
(*                                                                         *)
(* The running ROM is arbitrary: every step may be any instruction, and a  *)
(* program address is a member of the small set Code.  Which device raises *)
(* an interrupt, and when, is left open here (modules Scheduler and Serial *)
(* say it).  saturn.kbd_ien is written by INTON, INTOFF and RSI and read   *)
(* nowhere, so it is left out; interrupt_called is reset before every test *)
(* of it within do_shutdown, so it is the condition of AlarmPoll.          *)
(***************************************************************************)
EXTENDS ReturnStack

CONSTANTS
  Code,       \* program addresses; 0 and ISR are two of them
  ISR,        \* the interrupt entry point, address 0xf
  Keyboard,   \* whether a front end delivers key events through GetEvent
  MaxCalls    \* bound on the history variable calls

ASSUME CodeAssumption == /\ {0, ISR} \subseteq Code
                         /\ Keyboard \in BOOLEAN
                         /\ MaxCalls \in Nat

VARIABLES
  PC,             \* saturn.PC
  rstk,           \* saturn.rstk[0 .. rstkp]
  intenable,      \* saturn.intenable
  int_pending,    \* saturn.int_pending
  shutdown,       \* saturn.shutdown, set by SHUTDN until do_shutdown clears it
  outZero,        \* is_zero_register(saturn.OUT, OUT_FIELD)
  rows,           \* some saturn.keybuf.rows[i] is not zero
  enter_debugger, \* the bits of enter_debugger: "illegal", and "other" for the rest
  exec_flags,     \* EXEC_BKPT is set: the loop is emulate_debug
  loc,            \* where the loop stands
  popped,         \* history: the address the last instruction took off the
                  \* stack into C, <<a>>, or <<>> if it took none
  calls,          \* history: every frame pushed and not popped, oldest first
  overflowed,     \* history: a push found the return stack full
  disciplined     \* history: the ROM has paired interrupts and RTIs so far

cpu     == <<PC, rstk, intenable, int_pending>>
history == <<calls, overflowed, disciplined>>
vars    == <<PC, rstk, intenable, int_pending, shutdown, outZero, rows,
             enter_debugger, exec_flags, loc, popped, calls, overflowed,
             disciplined>>

Frame == [kind : {"call", "int"}, ret : Code]

(* Whether a front end delivers key presses: the rows the keyboard can be  *)
(* in.                                                                     *)
Presses == IF Keyboard THEN BOOLEAN ELSE {FALSE}

InFrame(i) == i \in 1 .. Len(calls) /\ calls[i].kind = "int"

TopIsInt == calls # <<>> /\ calls[Len(calls)].kind = "int"

-----------------------------------------------------------------------------
(* init_saturn: an empty stack and interrupts enabled.                     *)
ColdStart ==
  /\ rstk = <<>>
  /\ intenable = TRUE
  /\ calls = <<>>

(* A start from an existing ROM (init_emulator returns before init_saturn): *)
(* saturn is all zero, so rstkp = 0 counts one address, 0, and interrupts   *)
(* are masked.  It is the state of a CPU serving an interrupt that will     *)
(* return to address 0, and the history says so.                            *)
ZeroedStart ==
  /\ rstk = <<0>>
  /\ intenable = FALSE
  /\ calls = <<[kind |-> "int", ret |-> 0]>>

Init ==
  /\ PC = 0
  /\ ColdStart \/ ZeroedStart
  /\ int_pending = FALSE
  /\ shutdown = FALSE
  /\ outZero = TRUE
  /\ rows = FALSE
  /\ enter_debugger = {}
  /\ exec_flags = FALSE
  /\ loc = "step"
  /\ popped = <<>>
  /\ overflowed = FALSE
  /\ disciplined = TRUE

-----------------------------------------------------------------------------
PushFrame(kind, addr) ==
  /\ Len(calls) < MaxCalls
  /\ rstk' = Push(rstk, addr)
  /\ calls' = Append(calls, [kind |-> kind, ret |-> addr])
  /\ overflowed' = (overflowed \/ Len(rstk) = NR_RSTK)

PopFrame ==
  /\ rstk' = Pop(rstk)
  /\ calls' = Pop(calls)
  /\ UNCHANGED overflowed

NoFrame == UNCHANGED <<rstk, calls, overflowed>>

(* Mutant: an interrupt taken does not mask the next one.                  *)
TakeInterruptUnmasked(pc) ==
  /\ PushFrame("int", pc)
  /\ PC' = ISR
  /\ UNCHANGED intenable

(* do_interupt and do_kbd_int while interrupts are enabled.                *)
TakeInterrupt(pc) ==
  /\ PushFrame("int", pc)
  /\ PC' = ISR
  /\ intenable' = FALSE

(* do_interupt: an interrupt that finds them masked is forgotten.  pc is   *)
(* saturn.PC when it is called.                                            *)
DoInterupt(pc) ==
  \/ /\ intenable
     /\ TakeInterrupt(pc)
     /\ UNCHANGED int_pending
  \/ /\ ~intenable
     /\ PC' = pc
     /\ NoFrame
     /\ UNCHANGED <<intenable, int_pending>>

(* do_kbd_int: one that finds them masked is remembered for the next RTI.  *)
DoKbdInt(pc) ==
  \/ /\ intenable
     /\ TakeInterrupt(pc)
     /\ UNCHANGED int_pending
  \/ /\ ~intenable
     /\ PC' = pc
     /\ int_pending' = TRUE
     /\ NoFrame
     /\ UNCHANGED intenable

-----------------------------------------------------------------------------
(* One instruction: step_instruction, run at the top of either loop.  addr *)
(* is what it takes off the stack for C, if it does.                       *)
InstructionTaking(addr) == /\ loc = "step"
                           /\ loc' = "after"
                           /\ popped' = addr
                           /\ UNCHANGED <<rows, exec_flags>>

Instruction == InstructionTaking(<<>>)

(* Every instruction that only moves PC: the jumps, the tests not taken or *)
(* taken to a label, and all data instructions.                            *)
Jump(target) ==
  /\ Instruction
  /\ PC' = target
  /\ UNCHANGED <<rstk, intenable, int_pending, shutdown, outZero,
                 enter_debugger, history>>

(* GOSUB, GOSUBL, GOSBVL.                                                  *)
Gosub(ret, target) ==
  /\ Instruction
  /\ PushFrame("call", ret)
  /\ PC' = target
  /\ UNCHANGED <<intenable, int_pending, shutdown, outZero, enter_debugger,
                 disciplined>>

(* RSTK=C: pushes what the program computed.                               *)
RstkEqC(addr, next) ==
  /\ Instruction
  /\ PushFrame("call", addr)
  /\ PC' = next
  /\ UNCHANGED <<intenable, int_pending, shutdown, outZero, enter_debugger,
                 disciplined>>

(* C=RSTK: C receives the newest address, as a number.                     *)
CEqRstk(next) ==
  /\ InstructionTaking(<<Top(rstk)>>)
  /\ PopFrame
  /\ PC' = next
  /\ disciplined' = (disciplined /\ ~TopIsInt)
  /\ UNCHANGED <<intenable, int_pending, shutdown, outZero, enter_debugger>>

(* Mutant: the return goes to the address below the one it takes off.      *)
RtnFromBelow ==
  /\ Instruction
  /\ PopFrame
  /\ PC' = Top(Pop(rstk))
  /\ disciplined' = (disciplined /\ ~TopIsInt)
  /\ UNCHANGED <<intenable, int_pending, shutdown, outZero, enter_debugger>>

(* RTN, RTNSXM, RTNSC, RTNCC, RTNC, RTNNC and the RTNYES of a taken test.  *)
Rtn ==
  /\ Instruction
  /\ PopFrame
  /\ PC' = Top(rstk)
  /\ disciplined' = (disciplined /\ ~TopIsInt)
  /\ UNCHANGED <<intenable, int_pending, shutdown, outZero, enter_debugger>>

(* RTI, do_return_interupt, when a key is pending: the service routine     *)
(* starts again and the stack is left alone.                               *)
RtiPending ==
  /\ Instruction
  /\ int_pending
  /\ int_pending' = FALSE
  /\ intenable' = FALSE
  /\ PC' = ISR
  /\ NoFrame
  /\ UNCHANGED <<shutdown, outZero, enter_debugger, disciplined>>

(* Mutants of RTI: it forgets a pending key, it forgets to unmask.         *)
RtiForgetsPending ==
  /\ Instruction
  /\ int_pending' = FALSE
  /\ intenable' = TRUE
  /\ PC' = Top(rstk)
  /\ PopFrame
  /\ disciplined' = (disciplined /\ TopIsInt)
  /\ UNCHANGED <<shutdown, outZero, enter_debugger>>

RtiStaysMasked ==
  /\ Instruction
  /\ ~int_pending
  /\ PC' = Top(rstk)
  /\ PopFrame
  /\ disciplined' = (disciplined /\ TopIsInt)
  /\ UNCHANGED <<intenable, int_pending, shutdown, outZero, enter_debugger>>

(* RTI otherwise.                                                          *)
RtiReturn ==
  /\ Instruction
  /\ ~int_pending
  /\ PC' = Top(rstk)
  /\ PopFrame
  /\ intenable' = TRUE
  /\ disciplined' = (disciplined /\ TopIsInt)
  /\ UNCHANGED <<int_pending, shutdown, outZero, enter_debugger>>

(* RSI, do_reset_interrupt_system: a key that is down interrupts again.    *)
Rsi(next) ==
  /\ Instruction
  /\ \/ rows /\ DoKbdInt(next)
     \/ ~rows /\ PC' = next /\ NoFrame /\ UNCHANGED <<intenable, int_pending>>
  /\ UNCHANGED <<shutdown, outZero, enter_debugger, disciplined>>

(* A store to the card control register with bit 0 set: PC has moved past  *)
(* the store when do_interupt is called.                                   *)
StoreCardControl(next) ==
  /\ Instruction
  /\ DoInterupt(next)
  /\ UNCHANGED <<shutdown, outZero, enter_debugger, disciplined>>

(* OUT=C, OUT=CS.                                                          *)
Out(zero, next) ==
  /\ Instruction
  /\ outZero' = zero
  /\ PC' = next
  /\ UNCHANGED <<rstk, intenable, int_pending, shutdown, enter_debugger,
                 history>>

(* SHUTDN.                                                                 *)
Shutdn(next) ==
  /\ Instruction
  /\ shutdown' = TRUE
  /\ PC' = next
  /\ UNCHANGED <<rstk, intenable, int_pending, outZero, enter_debugger,
                 history>>

(* An instruction no decoder accepts: nothing changes until debug resets   *)
(* the CPU.                                                                *)
Illegal ==
  /\ Instruction
  /\ enter_debugger' = enter_debugger \cup {"illegal"}
  /\ UNCHANGED <<cpu, shutdown, outZero, history>>

(* The trap NOP (op 6004n, n not 0) asks for the debugger and goes on.     *)
Trap(next) ==
  /\ Instruction
  /\ PC' = next
  /\ enter_debugger' = enter_debugger \cup {"other"}
  /\ UNCHANGED <<rstk, intenable, int_pending, shutdown, outZero, history>>

-----------------------------------------------------------------------------
(* emulate_debug calls neither do_shutdown nor clears saturn.shutdown.     *)
ShutdownDue == shutdown /\ ~exec_flags

(* Mutant: sleep unmasks but keeps the pending key.                        *)
GoToSleepKeepsPending ==
  /\ loc = "after" /\ ShutdownDue
  /\ shutdown' = FALSE
  /\ loc' = "asleep"
  /\ intenable' = (intenable \/ outZero)
  /\ disciplined' = (disciplined /\ (outZero => intenable))
  /\ UNCHANGED <<PC, rstk, int_pending, outZero, rows, enter_debugger,
                 exec_flags, popped, calls, overflowed>>

(* do_shutdown up to its loop: a sleep no key can be read in (OUT = 0)     *)
(* enables interrupts and drops a pending one.                             *)
GoToSleep ==
  /\ loc = "after" /\ ShutdownDue
  /\ shutdown' = FALSE
  /\ loc' = "asleep"
  /\ intenable' = (intenable \/ outZero)
  /\ int_pending' = (int_pending /\ ~outZero)
  /\ disciplined' = (disciplined /\ (outZero => intenable))
  /\ UNCHANGED <<PC, rstk, outZero, rows, enter_debugger, exec_flags, popped,
                 calls, overflowed>>

(* One turn of do_shutdown's loop.  key: GetEvent delivers a key interrupt *)
(* first.  dev: a timer or the receiver calls do_interupt.  ctrl: a timer  *)
(* is set to wake without an interrupt.  A device call after the key's     *)
(* finds interrupts masked.                                                *)
AlarmPoll(key, dev, ctrl) ==
  /\ loc = "asleep"
  /\ \/ key /\ DoKbdInt(PC)
     \/ ~key /\ dev /\ DoInterupt(PC)
     \/ ~key /\ ~dev /\ NoFrame /\ UNCHANGED <<PC, intenable, int_pending>>
  /\ loc' = IF key \/ dev \/ ctrl \/ enter_debugger # {} THEN "after" ELSE "asleep"
  /\ rows' \in Presses
  /\ UNCHANGED <<shutdown, outZero, enter_debugger, exec_flags, popped,
                 disciplined>>

(* The rest of a turn of emulate or emulate_debug: schedule, which may     *)
(* call do_interupt for a device (dev) and then, for an alarm, GetEvent,   *)
(* which may call do_kbd_int (key); then the loop's test.                  *)
Schedule(key, dev) ==
  /\ loc = "after" /\ ~ShutdownDue
  /\ \/ /\ intenable /\ (dev \/ key)
        /\ TakeInterrupt(PC)
     \/ /\ ~(intenable /\ (dev \/ key))
        /\ NoFrame
        /\ UNCHANGED <<PC, intenable>>
  /\ int_pending' = (int_pending \/ (key /\ (dev \/ ~intenable)))
  /\ loc' = IF enter_debugger = {} THEN "step" ELSE "debug"
  /\ rows' \in Presses
  /\ UNCHANGED <<shutdown, outZero, enter_debugger, exec_flags, popped,
                 disciplined>>

(* emulate_debug leaves at a breakpoint before it calls schedule.          *)
BreakpointHit ==
  /\ loc = "after" /\ exec_flags
  /\ enter_debugger' = enter_debugger \cup {"other"}
  /\ loc' = "debug"
  /\ UNCHANGED <<cpu, shutdown, outZero, rows, exec_flags, popped, history>>

(* debug, without its step command: an illegal instruction restarts at     *)
(* address 0 (so does the reset command), the breakpoints choose the loop. *)
Debug(reset) ==
  /\ loc = "debug"
  /\ PC' = IF reset \/ "illegal" \in enter_debugger THEN 0 ELSE PC
  /\ exec_flags' \in BOOLEAN
  /\ enter_debugger' = {}
  /\ loc' = "step"
  /\ UNCHANGED <<rstk, intenable, int_pending, shutdown, outZero, rows,
                 popped, history>>

(* signal_handler(SIGINT), between any two steps of the loops.             *)
SigInt ==
  /\ loc # "debug"
  /\ enter_debugger' = enter_debugger \cup {"other"}
  /\ UNCHANGED <<cpu, shutdown, outZero, rows, exec_flags, loc, popped,
                 history>>

Step ==
  \/ \E next \in Code :
       \/ Jump(next) \/ CEqRstk(next) \/ Rsi(next) \/ StoreCardControl(next)
       \/ Shutdn(next) \/ Trap(next)
       \/ \E ret \in Code : Gosub(ret, next)
       \/ \E addr \in Code : RstkEqC(addr, next)
       \/ \E zero \in BOOLEAN : Out(zero, next)
  \/ Rtn \/ RtiPending \/ RtiReturn \/ Illegal

Loop ==
  \/ GoToSleep
  \/ \E key \in Presses, dev \in BOOLEAN, ctrl \in BOOLEAN : AlarmPoll(key, dev, ctrl)
  \/ \E key \in Presses, dev \in BOOLEAN : Schedule(key, dev)
  \/ BreakpointHit
  \/ \E reset \in BOOLEAN : Debug(reset)

Next == Step \/ Loop \/ SigInt

Spec == Init /\ [][Next]_vars

-----------------------------------------------------------------------------
(* The variables keep their types; the return stack never outgrows its     *)
(* slots.                                                                  *)
TypeOK ==
  /\ PC \in Code
  /\ rstk \in Seq(Code) /\ Len(rstk) <= NR_RSTK
  /\ intenable \in BOOLEAN
  /\ int_pending \in BOOLEAN
  /\ shutdown \in BOOLEAN
  /\ outZero \in BOOLEAN
  /\ rows \in BOOLEAN
  /\ enter_debugger \subseteq {"illegal", "other"}
  /\ exec_flags \in BOOLEAN
  /\ loc \in {"step", "after", "asleep", "debug"}
  /\ popped \in {<<>>} \cup {<<a>> : a \in Code}
  /\ calls \in Seq(Frame)
  /\ overflowed \in BOOLEAN
  /\ disciplined \in BOOLEAN

(* A key interrupt waits only while interrupts are masked: no sequence of  *)
(* keys, device interrupts, RTIs and sleeps leaves one waiting for an RTI  *)
(* that nothing will execute (actions.c, do_kbd_int, do_return_interupt,   *)
(* do_shutdown).                                                           *)
PendingOnlyWhileMasked == int_pending => ~intenable

(* The return stack holds exactly the newest of the frames pushed and not  *)
(* yet popped, in order, and loses one only after a push on a full stack:  *)
(* neither an interrupt between two instructions nor a chained service     *)
(* misplaces an address (push_return_addr, pop_return_addr).               *)
StackHoldsNewestCalls ==
  /\ Len(rstk) <= Len(calls)
  /\ \A i \in 1 .. Len(rstk) :
       rstk[i] = calls[i + (Len(calls) - Len(rstk))].ret
  /\ ~overflowed => Len(rstk) = Len(calls)

(* While the ROM pairs interrupts with RTIs, interrupts are masked exactly *)
(* while one is being served, and one at most is: a device, a key, a       *)
(* chained service or the reset after an illegal instruction never nests a *)
(* second service nor leaves the mask set behind (do_interupt, do_kbd_int, *)
(* do_return_interupt, do_shutdown).                                       *)
MaskedExactlyInService ==
  disciplined =>
    /\ intenable <=> \A i \in 1 .. Len(calls) : ~InFrame(i)
    /\ \A i, j \in 1 .. Len(calls) : InFrame(i) /\ InFrame(j) => i = j

(* An interrupt's service that ends resumes the interrupted program where  *)
(* it was, with interrupts enabled, whatever was called, pended or slept   *)
(* in between, unless the stack has lost the address to an overflow        *)
(* (do_return_interupt).                                                   *)
ServiceReturnsToInterrupted ==
  [][ (/\ disciplined'
       /\ rstk # <<>>
       /\ TopIsInt
       /\ Len(calls') < Len(calls))
      => /\ PC' = calls[Len(calls)].ret
         /\ intenable' ]_vars

(* A pending key is never just forgotten: it stops being pending only when *)
(* the service routine is entered for it, or when the CPU goes to sleep    *)
(* with OUT = 0 and interrupts enabled (do_return_interupt, do_shutdown).  *)
PendingKeyIsServed ==
  [][ int_pending /\ ~int_pending'
      => \/ loc' = "after" /\ PC' = ISR /\ ~intenable' /\ Len(calls') = Len(calls)
         \/ loc' = "asleep" /\ outZero /\ intenable' ]_vars

(* The mask, the eight slots, the sleep and the loops keep the promise of  *)
(* module CallService: a program that ends its services with RTI and nests *)
(* no more calls than there are slots sees a stack without end, at most    *)
(* one service on it, begun between two of its instructions and ended      *)
(* where it was, every RTN going to and every C=RSTK yielding the newest   *)
(* address pushed, and no key lost.                                        *)
Calls == INSTANCE CallService WITH
           pc     <- PC,
           frames <- calls,
           taken  <- popped,
           key    <- int_pending,
           turn   <- IF loc = "step" THEN "program" ELSE "machine",
           kept   <- disciplined /\ ~overflowed

ImplementsCallService == Calls!Spec

=============================================================================
