-------------------------- MODULE Debugger_proofs --------------------------
(***************************************************************************)
(* Proofs about module Debugger, for a table of any size, any program and  *)
(* any number of steps: the count of breakpoints, that breakpoints stop    *)
(* the program, and that an illegal instruction is not run again.          *)
(***************************************************************************)
EXTENDS Debugger, FiniteSetTheorems, TLAPS

Conditions == {"user", "illegal", "bkpt", "trap"}

(* The types the proofs need.                                              *)
DebuggerTypes ==
  /\ PC \in Code
  /\ bkpt_tbl \in [Slots -> Code \cup {Unused}]
  /\ num_bkpts \in Int
  /\ exec_flags \in BOOLEAN
  /\ enter_debugger \subseteq Conditions
  /\ loop \in {"emulate", "emulate_debug", "step"}
  /\ loc \in {"run", "check", "schedule", "test", "entry", "prompt"}
  /\ resumed \in BOOLEAN /\ serviced \in BOOLEAN
  /\ fault \in BOOLEAN /\ unseen \in BOOLEAN /\ unset \in BOOLEAN

InLoop == {"run", "check", "schedule", "test"}

(* The loop was chosen by what the table was when the user went on, and    *)
(* only the prompt changes the table.                                      *)
LoopFitsTable ==
  /\ loop = "emulate_debug" => exec_flags
  /\ loop = "emulate" /\ loc \in InLoop => num_bkpts = 0

AtSetBreakpoint == \E k \in Slots : bkpt_tbl[k] = PC

MayRunOn == resumed \/ serviced \/ (loop = "step" /\ ~exec_flags)

(* Once it has been looked for a breakpoint, the program may go on to the  *)
(* instruction at PC.                                                      *)
BreakpointsPassed ==
  /\ loc \in {"schedule", "test", "run"} /\ AtSetBreakpoint => MayRunOn \/ unset
  /\ loc \in {"check", "schedule"} => ~resumed /\ ~serviced

(* An illegal instruction that was run is known to debug and to step.      *)
FaultIsKnown ==
  /\ fault => "illegal" \in enter_debugger \/ unseen
  /\ loc = "run" => ~fault \/ unseen

-----------------------------------------------------------------------------
LEMMA TypesInit == Init => DebuggerTypes
<1> SUFFICES ASSUME Init PROVE DebuggerTypes
  OBVIOUS
<1>1. bkpt_tbl \in [Slots -> Code \cup {Unused}] /\ PC \in Code
  BY DebuggerAssumption DEF DebuggerAssumption, Init
<1>2. /\ num_bkpts = 0 /\ exec_flags = FALSE /\ enter_debugger = {}
      /\ loop = "emulate" /\ loc = "run" /\ resumed = FALSE
      /\ serviced = FALSE /\ fault = FALSE /\ unseen = FALSE /\ unset = FALSE
  BY DEF Init
<1>3. num_bkpts \in Int /\ enter_debugger \subseteq Conditions
  BY <1>2
<1>4. /\ loop \in {"emulate", "emulate_debug", "step"}
      /\ loc \in {"run", "check", "schedule", "test", "entry", "prompt"}
  BY <1>2
<1>5. /\ exec_flags \in BOOLEAN /\ resumed \in BOOLEAN /\ serviced \in BOOLEAN
      /\ fault \in BOOLEAN /\ unseen \in BOOLEAN /\ unset \in BOOLEAN
  BY <1>2
<1> QED BY <1>1, <1>3, <1>4, <1>5 DEF DebuggerTypes

LEMMA ForgottenType ==
  ASSUME bkpt_tbl \in [Slots -> Code \cup {Unused}], NEW slots
  PROVE  Forgotten(slots) \in [Slots -> Code \cup {Unused}]
BY DEF Forgotten

(* Both forms of delete that leave some slots alone are Deleted.           *)
LEMMA DeletionsAreOfSlots ==
  ASSUME (\E k \in Slots : Delete(k)) \/ DeleteHere
  PROVE  \E slots \in SUBSET Slots : Deleted(slots)
<1>1. ASSUME NEW k \in Slots, Delete(k) PROVE \E slots \in SUBSET Slots : Deleted(slots)
  <2>1. {k} \in SUBSET Slots
    OBVIOUS
  <2> QED BY <1>1, <2>1 DEF Delete
<1>2. ASSUME DeleteHere PROVE \E slots \in SUBSET Slots : Deleted(slots)
  <2>1. Here \in SUBSET Slots
    BY DEF Here
  <2> QED BY <1>2, <2>1 DEF DeleteHere
<1> QED BY <1>1, <1>2

LEMMA TypesStep ==
  ASSUME DebuggerTypes, [Next]_vars
  PROVE  DebuggerTypes'
<1> USE DebuggerAssumption DEF DebuggerAssumption, DebuggerTypes, Conditions
<1>1. CASE Program
  BY <1>1 DEF Program, Instruction, TrapInstruction, IllegalInstruction, Executed, table
<1>2. CASE BreakpointHit \/ NoBreakpoint
  BY <1>2 DEF BreakpointHit, NoBreakpoint, table, history
<1>3. ASSUME NEW interrupt \in BOOLEAN, Schedule(interrupt) PROVE DebuggerTypes'
  BY <1>3 DEF Schedule, table, stepper
<1>4. CASE Test \/ StepTest \/ Entry
  BY <1>4 DEF Test, StepTest, Entry, StepGoesOn, StepDone, Bits, table, stepper, history
<1>5. ASSUME NEW addr \in Code, Break(addr) PROVE DebuggerTypes'
  <2>1. bkpt_tbl' \in [Slots -> Code \cup {Unused}]
    BY <1>5 DEF Break
  <2> QED BY <1>5, <2>1 DEF Break, Command, stepper
<1>6. ASSUME NEW addr \in Code, Go(addr) \/ RegPC(addr) PROVE DebuggerTypes'
  BY <1>6 DEF Go, RegPC, Command, table, stepper
<1>7. ASSUME NEW slots \in SUBSET Slots, Deleted(slots) PROVE DebuggerTypes'
  <2>1. Cardinality(slots) \in Nat
    <3>1. IsFiniteSet(Slots)
      BY FS_Interval DEF Slots
    <3> QED BY <3>1, FS_Subset, FS_CardinalityType
  <2>2. num_bkpts' \in Int
    BY <1>7, <2>1 DEF Deleted, CountedDown
  <2>3. unset' \in BOOLEAN
    BY <1>7 DEF Deleted
  <2> QED BY <1>7, <2>2, <2>3, ForgottenType DEF Deleted, Command, stepper
<1>8. CASE (\E k \in Slots : Delete(k)) \/ DeleteHere
  BY <1>7, <1>8, DeletionsAreOfSlots
<1>9. CASE DeleteAll
  <2>1. num_bkpts' \in Int
    BY <1>9 DEF DeleteAll
  <2>2. unset' = FALSE
    BY <1>9 DEF DeleteAll
  <2> QED BY <1>9, <2>1, <2>2, ForgottenType DEF DeleteAll, Command, stepper
<1>10. ASSUME NEW k \in 1 .. MaxSteps, Step(k) PROVE DebuggerTypes'
  BY <1>10 DEF Step, table
<1>11. CASE Continue
  BY <1>11 DEF Continue, Flag, table, stepper
<1>12. CASE SigInt
  BY <1>12 DEF SigInt, table, stepper, history
<1>13. CASE UNCHANGED vars
  BY <1>13 DEF vars
<1> QED BY <1>1, <1>2, <1>3, <1>4, <1>5, <1>6, <1>7, <1>8, <1>9, <1>10, <1>11, <1>12, <1>13
        DEF Next, Loop, User

-----------------------------------------------------------------------------
LEMMA InUseIsFinite == IsFiniteSet(InUse) /\ IsFiniteSet(Slots)
<1>1. IsFiniteSet(Slots)
  BY DebuggerAssumption, FS_Interval DEF DebuggerAssumption, Slots
<1> QED BY <1>1, FS_Subset DEF InUse

(* What a change of the table does to the set of slots in use: break adds  *)
(* one that was unused, the forms of delete take out those they forget.    *)
LEMMA BreakUses ==
  ASSUME DebuggerTypes, NEW addr \in Code, Break(addr)
  PROVE  \E k \in Slots \ InUse : InUse' = InUse \cup {k}
<1>1. PICK k \in Slots \ InUse : bkpt_tbl' = [bkpt_tbl EXCEPT ![k] = addr]
  BY DEF Break
<1>2. addr # Unused
  BY DebuggerAssumption DEF DebuggerAssumption, Unused
<1>3. InUse' = InUse \cup {k}
  BY <1>1, <1>2 DEF DebuggerTypes, InUse
<1> QED BY <1>1, <1>3

LEMMA ForgottenFrees ==
  ASSUME DebuggerTypes, NEW slots \in SUBSET Slots, bkpt_tbl' = Forgotten(slots)
  PROVE  InUse' = InUse \ slots
BY DEF Forgotten, InUse

(* Every step that changes the table or forgets that the count is wrong is *)
(* one of these.                                                           *)
LEMMA TableCases ==
  ASSUME DebuggerTypes, [Next]_vars
  PROVE  \/ UNCHANGED <<table, unset>>
         \/ /\ loc = "prompt" /\ loc' = "prompt"
            /\ \/ /\ num_bkpts' = num_bkpts + 1 /\ unset' = unset
                  /\ \E k \in Slots \ InUse : InUse' = InUse \cup {k}
               \/ \E slots \in SUBSET Slots :
                    /\ num_bkpts' = num_bkpts - Cardinality(slots)
                    /\ InUse' = InUse \ slots
                    /\ unset' = (unset \/ ~(slots \subseteq InUse))
               \/ num_bkpts' = 0 /\ InUse' = {}
<1>1. ASSUME NEW addr \in Code, Break(addr)
      PROVE  /\ loc = "prompt" /\ loc' = "prompt"
             /\ num_bkpts' = num_bkpts + 1 /\ unset' = unset
             /\ \E k \in Slots \ InUse : InUse' = InUse \cup {k}
  BY <1>1, BreakUses DEF Break, Command
<1>2. ASSUME NEW slots \in SUBSET Slots, Deleted(slots)
      PROVE  /\ loc = "prompt" /\ loc' = "prompt"
             /\ num_bkpts' = num_bkpts - Cardinality(slots)
             /\ InUse' = InUse \ slots
             /\ unset' = (unset \/ ~(slots \subseteq InUse))
  <2>1. InUse' = InUse \ slots
    BY <1>2, ForgottenFrees DEF Deleted
  <2> QED BY <1>2, <2>1 DEF Deleted, CountedDown, Command
<1>3. CASE (\E k \in Slots : Delete(k)) \/ DeleteHere
  BY <1>2, <1>3, DeletionsAreOfSlots
<1>4. CASE DeleteAll
  <2>1. InUse' = InUse \ Slots
    BY <1>4, ForgottenFrees DEF DeleteAll
  <2>2. InUse' = {}
    BY <2>1 DEF InUse
  <2> QED BY <1>4, <2>2 DEF DeleteAll, Command
<1>5. ASSUME \/ Program \/ BreakpointHit \/ NoBreakpoint
             \/ \E interrupt \in BOOLEAN : Schedule(interrupt)
             \/ Test \/ StepTest \/ Entry
             \/ \E addr \in Code : Go(addr) \/ RegPC(addr)
             \/ \E k \in 1 .. MaxSteps : Step(k)
             \/ Continue \/ SigInt \/ UNCHANGED vars
      PROVE  UNCHANGED <<table, unset>>
  BY <1>5 DEF Program, Instruction, TrapInstruction, IllegalInstruction, Executed,
     BreakpointHit, NoBreakpoint, Schedule, Test, StepTest, Entry, Go, RegPC, Command,
     Step, Continue, SigInt, vars, table, history
<1> QED BY <1>1, <1>3, <1>4, <1>5 DEF Next, Loop, User

LEMMA CountInit == Init => CountIsRight
<1>1. Init => InUse = {}
  BY DEF Init, InUse
<1> QED BY <1>1, FS_EmptySet DEF Init, CountIsRight

LEMMA CountStep ==
  ASSUME DebuggerTypes, CountIsRight, [Next]_vars
  PROVE  CountIsRight'
<1> USE DEF DebuggerTypes
<1>1. CASE UNCHANGED <<table, unset>>
  BY <1>1 DEF table, CountIsRight, InUse
<1>2. ASSUME NEW k \in Slots \ InUse, InUse' = InUse \cup {k}, num_bkpts' = num_bkpts + 1,
             unset' = unset
      PROVE  CountIsRight'
  <2>1. Cardinality(InUse) \in Nat /\ Cardinality(InUse') = Cardinality(InUse) + 1
    BY <1>2, InUseIsFinite, FS_AddElement, FS_CardinalityType
  <2>2. num_bkpts' <= Cardinality(InUse')
    BY <1>2, <2>1 DEF CountIsRight
  <2>3. ASSUME ~unset' PROVE num_bkpts' = Cardinality(InUse')
    BY <1>2, <2>1, <2>3 DEF CountIsRight
  <2> QED BY <2>2, <2>3 DEF CountIsRight
<1>3. ASSUME NEW slots \in SUBSET Slots, InUse' = InUse \ slots,
             num_bkpts' = num_bkpts - Cardinality(slots),
             unset' = (unset \/ ~(slots \subseteq InUse))
      PROVE  CountIsRight'
  <2> DEFINE found == InUse \cap slots
  <2>1. Cardinality(InUse') = Cardinality(InUse) - Cardinality(found)
    BY <1>3, InUseIsFinite, FS_Difference
  <2>2. IsFiniteSet(slots) /\ found \subseteq slots
    BY InUseIsFinite, FS_Subset
  <2>3. /\ Cardinality(InUse) \in Nat /\ Cardinality(slots) \in Nat
        /\ Cardinality(found) \in Nat /\ Cardinality(found) <= Cardinality(slots)
    <3> HIDE DEF found
    <3> QED BY <2>2, InUseIsFinite, FS_Subset, FS_CardinalityType
  <2>4. slots \subseteq InUse => found = slots
    OBVIOUS
  <2> HIDE DEF found
  <2>5. num_bkpts' <= Cardinality(InUse')
    BY <1>3, <2>1, <2>3 DEF CountIsRight
  <2>6. ASSUME ~unset' PROVE num_bkpts' = Cardinality(InUse')
    <3>1. ~unset /\ slots \subseteq InUse
      BY <1>3, <2>6
    <3>2. num_bkpts = Cardinality(InUse)
      BY <3>1 DEF CountIsRight
    <3>3. Cardinality(found) = Cardinality(slots)
      BY <3>1, <2>4
    <3> QED BY <1>3, <2>1, <2>3, <3>2, <3>3
  <2> QED BY <2>5, <2>6 DEF CountIsRight
<1>4. CASE num_bkpts' = 0 /\ InUse' = {}
  BY <1>4, FS_EmptySet DEF CountIsRight
<1> QED BY <1>1, <1>2, <1>3, <1>4, TableCases

(* Whatever is set and deleted, in a table of any size, the count never    *)
(* exceeds the breakpoints that are set, and it is exact until a slot not  *)
(* in use is deleted, and again after delete all.                          *)
THEOREM CountCorrect == Spec => []CountIsRight
<1>1. DebuggerTypes /\ CountIsRight /\ [Next]_vars => (DebuggerTypes /\ CountIsRight)'
  BY TypesStep, CountStep
<1> QED BY <1>1, TypesInit, CountInit, PTL DEF Spec

-----------------------------------------------------------------------------
(* With the right count, check_breakpoint looks at every breakpoint.       *)
LEMMA AllAreChecked ==
  ASSUME CountIsRight, ~unset, NEW k \in InUse
  PROVE  Checks(k)
<1> DEFINE S == {j \in InUse : j <= k}
<1>1. S \in SUBSET InUse
  OBVIOUS
<1>2. Cardinality(S) <= Cardinality(InUse)
  <2> HIDE DEF S
  <2> QED BY <1>1, InUseIsFinite, FS_Subset
<1> QED BY <1>2 DEF Checks, CountIsRight

LEMMA NoCountNoBreakpoint ==
  ASSUME DebuggerTypes, CountIsRight, ~unset, num_bkpts = 0
  PROVE  ~AtSetBreakpoint
<1>1. InUse = {}
  BY InUseIsFinite, FS_EmptySet DEF CountIsRight
<1>2. ASSUME NEW k \in Slots, bkpt_tbl[k] = PC PROVE FALSE
  BY <1>1, <1>2, DebuggerAssumption
     DEF DebuggerAssumption, DebuggerTypes, InUse, Unused
<1> QED BY <1>2 DEF AtSetBreakpoint

LEMMA BreakpointIsSeen ==
  ASSUME DebuggerTypes, CountIsRight, ~unset, exec_flags, AtSetBreakpoint
  PROVE  AtBreakpoint
<1>1. PICK k \in Slots : bkpt_tbl[k] = PC
  BY DEF AtSetBreakpoint
<1>2. k \in InUse
  BY <1>1, DebuggerAssumption DEF DebuggerAssumption, DebuggerTypes, InUse, Unused
<1> QED BY <1>1, <1>2, AllAreChecked DEF AtBreakpoint

LEMMA LoopStep ==
  ASSUME DebuggerTypes, LoopFitsTable, [Next]_vars
  PROVE  LoopFitsTable'
<1> USE DEF LoopFitsTable
<1>1. CASE Continue
  BY <1>1 DEF Continue, Flag, table
<1>2. ASSUME NEW k \in 1 .. MaxSteps, Step(k) PROVE LoopFitsTable'
  BY <1>2 DEF Step
<1>3. CASE UNCHANGED <<loop, exec_flags, table>> /\ (loc' \in InLoop => loc \in InLoop)
  BY <1>3 DEF table
<1>4. CASE UNCHANGED <<loop, exec_flags>> /\ loc' = "prompt"
  BY <1>4 DEF InLoop
<1>5. ASSUME NEW addr \in Code, Break(addr) \/ Go(addr) \/ RegPC(addr) PROVE LoopFitsTable'
  BY <1>4, <1>5 DEF Break, Go, RegPC, Command
<1>6. ASSUME (\E k \in Slots : Delete(k)) \/ DeleteHere \/ DeleteAll PROVE LoopFitsTable'
  BY <1>4, <1>6 DEF Delete, DeleteHere, Deleted, DeleteAll, Command
<1>7. ASSUME \/ Program \/ BreakpointHit \/ NoBreakpoint
             \/ \E interrupt \in BOOLEAN : Schedule(interrupt)
             \/ Test \/ StepTest \/ Entry \/ SigInt \/ UNCHANGED vars
      PROVE  LoopFitsTable'
  BY <1>3, <1>7 DEF Program, Instruction, TrapInstruction, IllegalInstruction, Executed,
     BreakpointHit, NoBreakpoint, Schedule, Test, StepTest, StepGoesOn, StepDone, Entry,
     SigInt, vars, table, history, InLoop
<1> QED BY <1>1, <1>2, <1>5, <1>6, <1>7 DEF Next, Loop, User

LEMMA PassedStep ==
  ASSUME DebuggerTypes, CountIsRight, LoopFitsTable, BreakpointsPassed,
         [Next]_vars
  PROVE  BreakpointsPassed'
<1> USE DEF BreakpointsPassed, MayRunOn
<1>1. CASE Program
  <2>1. /\ UNCHANGED <<table, loop, exec_flags, unset>> /\ ~resumed' /\ ~serviced'
        /\ loc' = IF loop = "emulate" THEN "schedule" ELSE "check"
        /\ loc = "run"
    BY <1>1 DEF Program, Instruction, TrapInstruction, IllegalInstruction, Executed
  <2>2. CASE loop = "emulate"
    <3>1. num_bkpts' = 0 /\ DebuggerTypes' /\ CountIsRight'
      BY <2>1, <2>2, TypesStep, CountStep DEF LoopFitsTable, InLoop, table
    <3>2. ~AtSetBreakpoint' \/ unset'
      <4> SUFFICES ASSUME ~unset' PROVE ~AtSetBreakpoint'
        OBVIOUS
      <4>1. InUse' = {}
        BY <3>1, <2>1, InUseIsFinite, FS_EmptySet DEF CountIsRight, InUse, table
      <4> QED BY <3>1, <4>1, DebuggerAssumption
              DEF DebuggerAssumption, DebuggerTypes, InUse, Unused, AtSetBreakpoint
    <3> QED BY <2>1, <3>2
  <2>3. CASE loop # "emulate"
    BY <2>1, <2>3
  <2> QED BY <2>2, <2>3
<1>2. CASE BreakpointHit
  BY <1>2 DEF BreakpointHit
<1>3. CASE NoBreakpoint
  <2>1. ~AtBreakpoint /\ loc = "check" /\ UNCHANGED <<PC, table, exec_flags, loop, history>>
    BY <1>3 DEF NoBreakpoint
  <2>2. ~AtSetBreakpoint \/ ~exec_flags \/ unset
    BY <2>1, BreakpointIsSeen
  <2>3. ~exec_flags /\ AtSetBreakpoint => loop = "step" \/ unset
    BY <2>1, NoCountNoBreakpoint DEF LoopFitsTable, DebuggerTypes, InLoop
  <2> QED BY <2>1, <2>2, <2>3 DEF AtSetBreakpoint, table, history
<1>4. ASSUME NEW interrupt \in BOOLEAN, Schedule(interrupt) PROVE BreakpointsPassed'
  BY <1>4 DEF Schedule, AtSetBreakpoint, table
<1>5. CASE Test \/ StepTest
  BY <1>5 DEF Test, StepTest, StepGoesOn, StepDone, AtSetBreakpoint, table, history
<1>6. ASSUME NEW k \in 1 .. MaxSteps, Step(k) PROVE BreakpointsPassed'
  BY <1>6 DEF Step
<1>7. CASE Continue
  BY <1>7 DEF Continue
<1>8. CASE loc' \in {"entry", "prompt"}
  BY <1>8
<1>9. CASE SigInt \/ UNCHANGED vars
  BY <1>9 DEF SigInt, vars, AtSetBreakpoint, table, history
<1> QED BY <1>1, <1>2, <1>3, <1>4, <1>5, <1>6, <1>7, <1>8, <1>9
        DEF Next, Loop, User, Entry, Break, Go, RegPC, Delete, DeleteHere, Deleted, DeleteAll, Command

(* What holds of every state.                                              *)
BreakpointInv == DebuggerTypes /\ CountIsRight /\ LoopFitsTable /\ BreakpointsPassed

StopsNow == PassesBreakpoint => unset

(* No loop runs the instruction at a breakpoint without the debugger       *)
(* having been there, for every program, table and sequence of commands,   *)
(* until the user deletes a slot not in use, and again after delete all.   *)
THEOREM BreakpointsStop == Spec => StopsAtBreakpoints
<1>1. Init => BreakpointInv
  <2>1. Init => LoopFitsTable /\ BreakpointsPassed
    <3> SUFFICES ASSUME Init PROVE LoopFitsTable /\ BreakpointsPassed
      OBVIOUS
    <3>1. ~AtSetBreakpoint
      BY TypesInit, CountInit, NoCountNoBreakpoint DEF Init
    <3> QED BY <3>1 DEF Init, LoopFitsTable, BreakpointsPassed
  <2> QED BY <2>1, TypesInit, CountInit DEF BreakpointInv
<1>2. BreakpointInv /\ [Next]_vars => BreakpointInv'
  BY TypesStep, CountStep, LoopStep, PassedStep DEF BreakpointInv
<1>3. BreakpointInv /\ [Next]_vars => [StopsNow]_vars
  BY DEF BreakpointInv, BreakpointsPassed, StopsNow, PassesBreakpoint, Executes,
     AtSetBreakpoint, MayRunOn
<1> QED BY <1>1, <1>2, <1>3, PTL DEF Spec, StopsAtBreakpoints, StopsNow

-----------------------------------------------------------------------------
LEMMA FaultStep ==
  ASSUME DebuggerTypes, FaultIsKnown, [Next]_vars
  PROVE  FaultIsKnown'
<1> USE DEF FaultIsKnown
<1>1. CASE Program
  BY <1>1 DEF Program, Instruction, TrapInstruction, IllegalInstruction, Executed
<1>2. CASE BreakpointHit \/ NoBreakpoint
  BY <1>2 DEF BreakpointHit, NoBreakpoint, history
<1>3. ASSUME NEW interrupt \in BOOLEAN, Schedule(interrupt) PROVE FaultIsKnown'
  BY <1>3 DEF Schedule
<1>4. CASE Test \/ Entry
  BY <1>4 DEF Test, Leaves, Entry, history
<1>5. CASE StepTest
  BY <1>5 DEF StepTest, StepGoesOn, StepDone, Bits
<1>6. ASSUME NEW addr \in Code, Break(addr) PROVE FaultIsKnown'
  BY <1>6 DEF Break, Command
<1>7. ASSUME NEW addr \in Code, Go(addr) \/ RegPC(addr) PROVE FaultIsKnown'
  BY <1>7 DEF Go, RegPC, Command
<1>8. CASE (\E k \in Slots : Delete(k)) \/ DeleteHere \/ DeleteAll
  <2>1. /\ loc' = "prompt" /\ UNCHANGED <<enter_debugger, fault, unseen>>
    BY <1>8 DEF Delete, DeleteHere, Deleted, DeleteAll, Command
  <2> QED BY <2>1
<1>9. ASSUME NEW k \in 1 .. MaxSteps, Step(k) PROVE FaultIsKnown'
  BY <1>9 DEF Step, MayStep
<1>10. CASE Continue
  BY <1>10 DEF Continue
<1>11. CASE SigInt \/ UNCHANGED vars
  BY <1>11 DEF SigInt, vars, history
<1> QED BY <1>1, <1>2, <1>3, <1>4, <1>5, <1>6, <1>7, <1>8, <1>9, <1>10, <1>11
        DEF Next, Loop, User

NotAgainNow == Executes => ~fault \/ unseen

(* What is illegal is never run twice unless do_step lost the bit of the   *)
(* first instruction it ran, for every program and sequence of commands,   *)
(* the deletion of breakpoints that are not set included.                  *)
THEOREM IllegalIsCaught == Spec => IllegalIsNotRunAgain
<1>1. Init => FaultIsKnown
  BY DEF Init, FaultIsKnown
<1>2. DebuggerTypes /\ FaultIsKnown /\ [Next]_vars => (DebuggerTypes /\ FaultIsKnown)'
  BY TypesStep, FaultStep
<1>3. FaultIsKnown /\ [Next]_vars => [NotAgainNow]_vars
  BY DEF FaultIsKnown, NotAgainNow, Executes
<1> QED BY TypesInit, <1>1, <1>2, <1>3, PTL DEF Spec, IllegalIsNotRunAgain, NotAgainNow
=============================================================================
