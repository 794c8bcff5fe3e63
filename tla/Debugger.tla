------------------------------ MODULE Debugger ------------------------------
(***************************************************************************)
(* The debugger of the emulator (debugger.c) and what it has to do with    *)
(* the loops that run the program (main, emulate, emulate_debug, do_step): *)
(* the table of breakpoints and its commands, single steps, illegal and    *)
(* trap instructions, and SIGINT.                                          *)
(*                                                                         *)
(* An instruction is where it leaves PC.  The commands that only show or   *)
(* set data are left out, and so are the prompt's confirmations, which     *)
(* only keep a command from happening.  The debugger is enabled.           *)
(***************************************************************************)
EXTENDS Integers, FiniteSets

CONSTANTS
  Code,             \* addresses of instructions, the program's and 0
  ISR,              \* address of the interrupt service routine, 0xf
  MAX_BREAKPOINTS,  \* size of the table
  MinCount,         \* bound: what num_bkpts is let fall to
  MaxSteps          \* bound on the argument of step

ASSUME DebuggerAssumption == /\ Code \subseteq Nat
                             /\ 0 \in Code /\ ISR \in Code
                             /\ MAX_BREAKPOINTS \in Nat \ {0}
                             /\ MinCount \in Int
                             /\ MaxSteps \in Nat \ {0}

VARIABLES
  PC,
  bkpt_tbl,        \* the address of each breakpoint, Unused when its flags are 0
  num_bkpts,
  exec_flags,      \* EXEC_BKPT is set
  enter_debugger,  \* its bits: "user", "illegal", "bkpt", "trap"
  loop,            \* "emulate", "emulate_debug" or "step"
  loc,             \* "run", "check", "schedule", "test", "entry", "prompt"
  n,               \* do_step: steps to go
  next_instr,      \* do_step: where the step over the next instruction ends
  leave,           \* do_step: the instruction under way starts a step
  first,           \* do_step: it is the one before the loop
  resumed,         \* history: the debugger let the program go on from PC
  serviced,        \* history: PC was moved by an interrupt since it was checked
  fault,           \* history: the instruction at PC is illegal and was run
  unseen,          \* history: the fault's bit was lost in do_step
  unset            \* history: a slot not in use was deleted since delete all

table  == <<bkpt_tbl, num_bkpts>>
stepper == <<n, next_instr, leave, first>>
history == <<resumed, serviced, fault, unseen, unset>>
vars   == <<PC, bkpt_tbl, num_bkpts, exec_flags, enter_debugger, loop, loc, n,
            next_instr, leave, first, resumed, serviced, fault, unseen, unset>>

Slots  == 1 .. MAX_BREAKPOINTS
Unused == -1

InUse == {k \in Slots : bkpt_tbl[k] # Unused}

(* main calls emulate with no breakpoint set.                              *)
Init ==
  /\ PC = 0
  /\ bkpt_tbl = [k \in Slots |-> Unused]
  /\ num_bkpts = 0
  /\ exec_flags = FALSE
  /\ enter_debugger = {}
  /\ loop = "emulate"
  /\ loc = "run"
  /\ n = 0 /\ next_instr = 0 /\ leave = FALSE /\ first = FALSE
  /\ resumed = FALSE
  /\ serviced = FALSE
  /\ fault = FALSE
  /\ unseen = FALSE
  /\ unset = FALSE

-----------------------------------------------------------------------------
(* step_instruction.                                                       *)
Executed ==
  /\ loc = "run"
  /\ loc' = IF loop = "emulate" THEN "schedule" ELSE "check"
  /\ resumed' = FALSE
  /\ serviced' = FALSE
  /\ UNCHANGED <<table, exec_flags, loop, n, next_instr, leave, first, unseen, unset>>

Instruction(target) ==
  /\ Executed
  /\ ~fault
  /\ PC' = target
  /\ UNCHANGED <<enter_debugger, fault>>

TrapInstruction(target) ==
  /\ Executed
  /\ ~fault
  /\ PC' = target
  /\ enter_debugger' = enter_debugger \cup {"trap"}
  /\ UNCHANGED fault

IllegalInstruction ==
  /\ Executed
  /\ enter_debugger' = enter_debugger \cup {"illegal"}
  /\ fault' = TRUE
  /\ UNCHANGED PC

(* check_breakpoint looks at the first num_bkpts slots in use.  Mutant: at *)
(* the first num_bkpts slots, in use or not.                               *)
ChecksFirstSlots(k) == k <= num_bkpts

Checks(k) == Cardinality({j \in InUse : j <= k}) <= num_bkpts

AtBreakpoint == exec_flags /\ \E k \in InUse : Checks(k) /\ bkpt_tbl[k] = PC

(* do_step returns, and its variables are gone.                            *)
StepEnds == n' = 0 /\ next_instr' = 0 /\ leave' = FALSE /\ first' = FALSE

(* emulate_debug and do_step leave at a breakpoint before schedule.        *)
BreakpointHit ==
  /\ loc = "check"
  /\ AtBreakpoint
  /\ enter_debugger' = enter_debugger \cup {"bkpt"}
  /\ loc' = IF loop = "step" THEN "prompt" ELSE "entry"
  /\ StepEnds
  /\ UNCHANGED <<PC, table, exec_flags, loop, history>>

NoBreakpoint ==
  /\ loc = "check"
  /\ ~AtBreakpoint
  /\ loc' = "schedule"
  /\ next_instr' = IF leave THEN PC ELSE next_instr
  /\ UNCHANGED <<PC, table, exec_flags, enter_debugger, loop, n, leave, first,
                 history>>

(* schedule, or its countdown; a device may interrupt.                     *)
Schedule(interrupt) ==
  /\ loc = "schedule"
  /\ loc' = "test"
  /\ PC' = IF interrupt THEN ISR ELSE PC
  /\ serviced' = interrupt
  /\ fault' = (fault /\ ~interrupt)
  /\ UNCHANGED <<table, exec_flags, enter_debugger, loop, stepper, resumed,
                 unseen, unset>>

(* The end of a turn of emulate and of emulate_debug.  Mutant: it is       *)
(* SIGINT alone that does not end it.                                      *)
LeavesUnlessUser == enter_debugger \ {"user"} # {}
Leaves == enter_debugger # {}

Test ==
  /\ loc = "test"
  /\ loop # "step"
  /\ loc' = IF Leaves THEN "entry" ELSE "run"
  /\ UNCHANGED <<PC, table, exec_flags, enter_debugger, loop, stepper, history>>

(* The end of a turn of do_step, which forgets what the first instruction  *)
(* brought up.  It steps over whatever interrupts the program.  Mutant: it *)
(* counts the instructions of the service routine too.                     *)
Bits == IF first THEN {} ELSE enter_debugger

StepsLeft == IF PC = next_instr THEN n - 1 ELSE n

StepGoesOn ==
  /\ Bits = {} /\ (PC # next_instr \/ n # 1)
  /\ loc' = "run"
  /\ n' = StepsLeft
  /\ leave' = (PC = next_instr)
  /\ first' = FALSE
  /\ UNCHANGED next_instr

StepDone ==
  /\ Bits # {} \/ (PC = next_instr /\ n = 1)
  /\ loc' = "prompt"
  /\ StepEnds

StepTest ==
  /\ loc = "test"
  /\ loop = "step"
  /\ StepGoesOn \/ StepDone
  /\ enter_debugger' = Bits
  /\ unseen' = (unseen \/ (first /\ "illegal" \in enter_debugger))
  /\ UNCHANGED <<PC, table, exec_flags, loop, resumed, serviced, fault, unset>>

-----------------------------------------------------------------------------
(* debug, when a loop has ended.                                           *)
Entry ==
  /\ loc = "entry"
  /\ enter_debugger' = enter_debugger \ {"trap"}
  /\ loc' = "prompt"
  /\ UNCHANGED <<PC, table, exec_flags, loop, stepper, history>>

Command ==
  /\ loc = "prompt"
  /\ loc' = "prompt"
  /\ UNCHANGED <<exec_flags, loop, stepper, resumed, serviced>>

(* break address: the first unused slot, if there is one.                  *)
Break(addr) ==
  LET unused == Slots \ InUse IN
  /\ Command
  /\ \E k \in unused :
       /\ \A j \in unused : k <= j
       /\ bkpt_tbl' = [bkpt_tbl EXCEPT ![k] = addr]
  /\ num_bkpts' = num_bkpts + 1
  /\ UNCHANGED <<PC, enter_debugger, fault, unseen, unset>>

Forgotten(slots) == [k \in Slots |-> IF k \in slots THEN Unused ELSE bkpt_tbl[k]]

(* delete number and delete take slots out of the table and count one      *)
(* breakpoint less for each, whether it was set or not.  Mutant: they do    *)
(* not count.                                                               *)
Uncounted(slots) == 0
CountedDown(slots) == Cardinality(slots)

Deleted(slots) ==
  /\ Command
  /\ num_bkpts - Cardinality(slots) >= MinCount
  /\ bkpt_tbl' = Forgotten(slots)
  /\ num_bkpts' = num_bkpts - CountedDown(slots)
  /\ unset' = (unset \/ ~(slots \subseteq InUse))
  /\ UNCHANGED <<PC, enter_debugger, fault, unseen>>

Delete(k) == Deleted({k})

(* Without a number, every slot with address PC; an unused one has          *)
(* address 0.                                                               *)
Here == {k \in Slots : bkpt_tbl[k] = PC \/ (bkpt_tbl[k] = Unused /\ PC = 0)}

DeleteHere == Deleted(Here)

DeleteAll ==
  /\ Command
  /\ bkpt_tbl' = Forgotten(Slots)
  /\ num_bkpts' = 0
  /\ unset' = FALSE
  /\ UNCHANGED <<PC, enter_debugger, fault, unseen>>

(* go address; reset and load are go 0.                                    *)
Go(addr) ==
  /\ Command
  /\ PC' = addr
  /\ enter_debugger' = enter_debugger \ {"illegal"}
  /\ fault' = FALSE
  /\ unseen' = FALSE
  /\ UNCHANGED <<table, unset>>

(* reg PC address: an illegal instruction still restarts the program.      *)
RegPC(addr) ==
  /\ Command
  /\ PC' = addr
  /\ fault' = FALSE
  /\ unseen' = FALSE
  /\ UNCHANGED <<table, enter_debugger, unset>>

(* step number, refused after an illegal instruction.  Mutant: it is not.  *)
MayStepAlways == TRUE
MayStep == "illegal" \notin enter_debugger

Step(k) ==
  /\ loc = "prompt"
  /\ MayStep
  /\ loop' = "step"
  /\ loc' = "run"
  /\ n' = k
  /\ leave' = TRUE
  /\ first' = TRUE
  /\ resumed' = TRUE
  /\ serviced' = FALSE
  /\ UNCHANGED <<PC, table, exec_flags, enter_debugger, next_instr, fault, unseen,
                 unset>>

(* cont, and the end of debug: main chooses the loop by exec_flags.        *)
Flag == num_bkpts # 0

Continue ==
  /\ loc = "prompt"
  /\ PC' = IF "illegal" \in enter_debugger THEN 0 ELSE PC
  /\ fault' = (fault /\ "illegal" \notin enter_debugger)
  /\ enter_debugger' = {}
  /\ exec_flags' = Flag
  /\ loop' = IF Flag THEN "emulate_debug" ELSE "emulate"
  /\ loc' = "run"
  /\ resumed' = TRUE
  /\ serviced' = FALSE
  /\ UNCHANGED <<table, stepper, unseen, unset>>

(* SIGINT at any time.                                                     *)
SigInt ==
  /\ enter_debugger' = enter_debugger \cup {"user"}
  /\ UNCHANGED <<PC, table, exec_flags, loop, loc, stepper, history>>

Program ==
  \/ \E target \in Code : Instruction(target) \/ TrapInstruction(target)
  \/ IllegalInstruction

Loop ==
  \/ Program \/ BreakpointHit \/ NoBreakpoint
  \/ \E interrupt \in BOOLEAN : Schedule(interrupt)
  \/ Test \/ StepTest \/ Entry

User ==
  \/ \E addr \in Code : Break(addr) \/ Go(addr) \/ RegPC(addr)
  \/ \E k \in Slots : Delete(k)
  \/ DeleteHere \/ DeleteAll
  \/ \E k \in 1 .. MaxSteps : Step(k)
  \/ Continue

Next == Loop \/ User \/ SigInt

(* The loops never wait; the user need not do anything.                    *)
Spec == Init /\ [][Next]_vars /\ WF_vars(Loop)

-----------------------------------------------------------------------------
(* The table and its count agree, however breakpoints are set and deleted,  *)
(* until a slot that is not in use is deleted, and again after delete all;  *)
(* and whatever is deleted it counts no breakpoint that is not there, which *)
(* check_breakpoint would look for beyond the table (do_break, do_delete).  *)
CountIsRight ==
  /\ num_bkpts <= Cardinality(InUse)
  /\ unset \/ num_bkpts = Cardinality(InUse)

Executes == loc = "run" /\ loc' # "run"

PassesBreakpoint ==
  /\ Executes /\ \E k \in Slots : bkpt_tbl[k] = PC
  /\ ~resumed /\ ~serviced
  /\ loop = "step" => exec_flags

(* No loop runs the instruction at a breakpoint without the debugger having *)
(* been there: every way to get to it stops first, jumps, steps, steps over *)
(* an interrupt (check_breakpoint).  The entry of the service routine is    *)
(* excepted when an interrupt in schedule gets there, and so are steps      *)
(* before the first cont after break, which sets exec_flags, and a count    *)
(* that the deletion of an unused slot made wrong.                          *)
StopsAtBreakpoints == [][PassesBreakpoint => unset]_vars

(* What break's help promises: a breakpoint that is set stops the program,  *)
(* also after delete named one that was not set (do_delete).                *)
SetBreakpointsStop == [][~PassesBreakpoint]_vars

(* What is illegal is never run twice: the program goes on at 0 or where    *)
(* the user sends it, and step refuses (debug, do_step), unless do_step     *)
(* lost the bit of the first instruction it ran.                            *)
IllegalIsNotRunAgain == [][Executes => ~fault \/ unseen]_vars

(* A SIGINT that finds a loop running brings up the debugger, whatever the  *)
(* loop is at and whatever interrupts the program.                          *)
SigIntEntersDebugger ==
  ("user" \in enter_debugger /\ loop # "step") ~> loc = "prompt"

=============================================================================
