------------------------------- MODULE Clock -------------------------------
(***************************************************************************)
(* TIMER2 and the calculator's clock.  The clock is the number ACCESSTIME  *)
(* in RAM less TIMER2, which counts down 8192 times a second; the program  *)
(* sets it by storing either.  The emulator counts TIMER2 down by numbers  *)
(* of instructions and puts it right by the host's time (get_t1_t2 in      *)
(* timer.c, called from schedule, do_shutdown and debug).  When the two    *)
(* are further apart than half a minute it takes that for a setting by the *)
(* user, and moves its own offset instead.                                 *)
(*                                                                         *)
(* Only differences of times matter, so the host's time, the offset and    *)
(* ACCESSTIME are one variable.  TIMER1 is left out but for waking the     *)
(* sleeping CPU; what do_interupt does is in module Interrupts, and when   *)
(* schedule runs which of its jobs in module Scheduler.                    *)
(***************************************************************************)
EXTENDS Integers

CONSTANTS
  Radix,       \* 16, the values of a nibble
  Nibbles,     \* 8, the nibbles of TIMER2
  Weight,      \* what a nibble counts for: 1, 16, 256, ...
  HalfMinute,  \* 0x3c000
  Stored,      \* numbers the program stores in TIMER2
  Settings,    \* ticks by which the program changes ACCESSTIME
  Controls,    \* values the program stores in TIMER2's control nibble
  Elapsed      \* ticks of real time that pass at once

Word == Weight[Nibbles]   \* as many numbers as an int has

ASSUME ClockAssumption ==
  /\ Radix \in Nat /\ Radix % 2 = 0 /\ Nibbles \in Nat \ {0}
  /\ Weight \in [0 .. Nibbles -> Nat \ {0}]
  /\ Weight[0] = 1 /\ \A i \in 1 .. Nibbles : Weight[i] = Radix * Weight[i - 1]
  /\ HalfMinute \in Nat /\ HalfMinute < Word \div 2
  /\ Stored \subseteq 0 .. Word - 1
  /\ Settings \subseteq Int
  /\ Controls \subseteq SUBSET {"run", "int", "wake", "due"}
  /\ Elapsed \subseteq Nat \ {0}

VARIABLES
  timer2,            \* saturn.timer2, a long of 64 bits
  access_time,       \* ACCESSTIME less the host's time and time_offset
  t2_ctrl,           \* bits of saturn.t2_ctrl: "run", "int", "wake", "due"
  adj_time_pending,
  inService,         \* saturn.PC is between SrvcIoStart and SrvcIoEnd
  loc,               \* "run", "asleep", "debug", "after" or "stepped" by an instruction,
                     \* "aborted" by an assertion
  disturbed,         \* history: what else has parted the two since they were together
  moved              \* history: the last step has moved time_offset

vars == <<timer2, access_time, t2_ctrl, adj_time_pending, inService, loc,
          disturbed, moved>>

(* The times looked at: the bound of the counters that only go down.       *)
InRange(t) == t \in -Word .. Word - 1

(* init_saturn, or all zero after a start from an existing ROM; emulate    *)
(* then sets ACCESSTIME by TIMER2 (set_accesstime), neither out of range.  *)
Init ==
  /\ timer2 \in {0, Word \div 2 - 1}
  /\ access_time = timer2
  /\ t2_ctrl = {}
  /\ adj_time_pending = FALSE
  /\ inService = FALSE
  /\ loc = "run"
  /\ disturbed = {}
  /\ moved = FALSE

-----------------------------------------------------------------------------
(* Instructions, in emulate's loop or stepped in the debugger.             *)
Executed ==
  /\ moved' = FALSE
  /\ \/ loc = "run" /\ loc' = "after"
     \/ loc = "debug" /\ loc' = "stepped"

Finished == loc' = IF loc = "stepped" THEN "debug" ELSE "run"

PlainInstruction ==
  /\ Executed
  /\ inService' \in BOOLEAN
  /\ UNCHANGED <<timer2, access_time, t2_ctrl, adj_time_pending, disturbed>>

(* A store of nibbles first to last of v to TIMER2, one by one.  The last  *)
(* of all, shifted to the top of an int, is negative from 8 on, and fills  *)
(* the upper half of the long with ones; no other touches that half.       *)
StoreTimer2(v, first, last) ==
  LET Covered(t) == ((t \div Weight[first]) % Weight[last - first + 1]) * Weight[first]
      stored     == timer2 - Covered(timer2) + Covered(v)
  IN
  /\ Executed
  /\ timer2' = IF last = Nibbles - 1 /\ v >= Word \div 2
               THEN (stored % Word) - Word ELSE stored
  /\ disturbed' = disturbed \cup {"set"}
  /\ UNCHANGED <<access_time, t2_ctrl, adj_time_pending, inService>>

StoreAccessTime(by) ==
  /\ Executed
  /\ InRange(access_time + by)
  /\ access_time' = access_time + by
  /\ disturbed' = disturbed \cup {"set"}
  /\ UNCHANGED <<timer2, t2_ctrl, adj_time_pending, inService>>

StoreControl(bits) ==
  /\ Executed
  /\ t2_ctrl' = bits
  /\ disturbed' = IF "run" \in bits THEN disturbed ELSE disturbed \cup {"stopped"}
  /\ UNCHANGED <<timer2, access_time, adj_time_pending, inService>>

Shutdn ==
  /\ loc = "run" /\ loc' = "asleep" /\ moved' = FALSE
  /\ UNCHANGED <<timer2, access_time, t2_ctrl, adj_time_pending, inService, disturbed>>

-----------------------------------------------------------------------------
(* get_t1_t2.                                                              *)
AsInt(t) == ((t + Word \div 2) % Word) - Word \div 2

(* abs takes an int.  Of the least int it is not defined, and may be taken *)
(* for more or less than half a minute.                                    *)
TakenForSetting ==
  LET d == AsInt(access_time - timer2)
  IN IF d = -(Word \div 2) THEN BOOLEAN
     ELSE {(IF d < 0 THEN -d ELSE d) > HalfMinute}

(* Comparison of two signed longs as unsigned ones.                        *)
GreaterUnsigned(a, b) == IF (a < 0) = (b < 0) THEN a > b ELSE a < 0

(* The tick count returned, with a the access time after the adjustment.   *)
(* Mutant: the host's time, whether TIMER2 has passed it or not.           *)
T2TicksAnyway(a) == a

(* Mutant: the signs are forgotten.                                        *)
T2TicksUnsigned(a) == IF GreaterUnsigned(timer2, a) THEN a ELSE timer2

T2Ticks(a) ==
  IF (timer2 >= 0 /\ a < 0) \/ GreaterUnsigned(timer2, a) THEN a ELSE timer2

(* Whether a difference may be the user's doing: not after a long service  *)
(* of an interrupt, and not in the debugger.                               *)
(* Mutant: the debugger is no exception.                                   *)
MayBeUserEvenDebugging(debugging) == ~adj_time_pending

MayBeUser(debugging) == ~adj_time_pending /\ ~debugging

(* The comparison, and TIMER2 set by it if it runs.                        *)
Compare(debugging) ==
  \E setting \in IF MayBeUser(debugging) THEN TakenForSetting ELSE {FALSE} :
    LET a == IF setting THEN timer2 ELSE access_time IN
    /\ access_time' = a
    /\ timer2' = IF "run" \in t2_ctrl THEN T2Ticks(a) ELSE timer2
    /\ moved' = (setting /\ a # access_time)
    /\ disturbed' = IF access_time' - timer2' \in -HalfMinute .. HalfMinute
                    THEN {} ELSE disturbed

-----------------------------------------------------------------------------
(* schedule: the timer's own job, and the adjustment, which waits while a  *)
(* device's interrupt is served.                                           *)

(* Run out: the adjustment may have brought the timer past 0.              *)
(* Mutant: it is looked for at 0 only.                                     *)
RunOutExactly(t) == t = 0

RunOut(t) == t <= 0

(* t2_ctrl and PC when the timer asks for its interrupt or does not.       *)
Announce(asks) ==
  /\ t2_ctrl' = IF asks THEN t2_ctrl \cup {"due"} ELSE t2_ctrl
  /\ inService' \in IF asks THEN {inService, FALSE} ELSE {inService}

Counted == IF "run" \in t2_ctrl THEN timer2 - 1 ELSE timer2

(* By instructions alone: on a fast host the timer runs ahead of real time *)
(* without bound, for no adjustment takes it back up.                      *)
CountDown ==
  /\ loc \in {"after", "stepped"}
  /\ InRange(Counted)
  /\ timer2' = Counted
  /\ Announce(Counted = 0 /\ "int" \in t2_ctrl)
  /\ moved' = FALSE
  /\ UNCHANGED <<access_time, adj_time_pending, loc, disturbed>>

(* sched_adjtime, the first step in the debugger included.                 *)
Adjust ==
  /\ loc \in {"after", "stepped"} /\ Finished
  /\ ~inService
  /\ Compare(loc = "stepped")
  /\ Announce(RunOut(timer2') /\ "int" \in t2_ctrl)
  /\ adj_time_pending' = FALSE

PutOff ==
  /\ loc \in {"after", "stepped"} /\ Finished
  /\ inService
  /\ adj_time_pending' = TRUE
  /\ moved' = FALSE
  /\ UNCHANGED <<timer2, access_time, t2_ctrl, inService, disturbed>>

NextInstruction ==
  /\ loc \in {"after", "stepped"} /\ Finished
  /\ moved' = FALSE
  /\ UNCHANGED <<timer2, access_time, t2_ctrl, adj_time_pending, inService, disturbed>>

(* One turn of do_shutdown's loop for an alarm.  other: a key, timer 1, a  *)
(* byte received or the debugger wakes the CPU.                            *)
AlarmPoll(other) ==
  /\ loc = "asleep"
  /\ Compare(FALSE)
  /\ Announce(RunOut(timer2') /\ "int" \in t2_ctrl)
  /\ loc' = IF other \/ (RunOut(timer2') /\ t2_ctrl \cap {"int", "wake"} # {})
            THEN "after" ELSE "asleep"
  /\ UNCHANGED adj_time_pending

-----------------------------------------------------------------------------
(* The debugger, entered by a signal, a breakpoint or an instruction.      *)
Enter ==
  /\ loc = "run"
  /\ loc' = "debug"
  /\ moved' = FALSE
  /\ UNCHANGED <<timer2, access_time, t2_ctrl, adj_time_pending, inService, disturbed>>

(* set_accesstime: its assertion ends the emulator where the sign of an    *)
(* int is set in a timer that is not below 0.                              *)
OutOfRange(t) == t >= 0 /\ t % Word >= Word \div 2

SetAccessTime ==
  /\ moved' = FALSE
  /\ \/ /\ OutOfRange(timer2')
        /\ loc' = "aborted"
        /\ UNCHANGED <<access_time, disturbed>>
     \/ /\ ~OutOfRange(timer2')
        /\ loc' = "run"
        /\ access_time' = timer2'
        /\ disturbed' = {}

(* debug, when it is left: TIMER2 is put right, then ACCESSTIME by it.     *)
Continue ==
  /\ loc = "debug"
  /\ timer2' = IF "run" \in t2_ctrl THEN T2Ticks(access_time) ELSE timer2
  /\ SetAccessTime
  /\ UNCHANGED <<t2_ctrl, adj_time_pending, inService>>

(* Without a debugger emulate is entered again, and calls set_accesstime.  *)
Ignore ==
  /\ loc = "debug"
  /\ UNCHANGED timer2
  /\ SetAccessTime
  /\ UNCHANGED <<t2_ctrl, adj_time_pending, inService>>

-----------------------------------------------------------------------------
(* Real time.  While the loop runs, the adjustment is tried again within   *)
(* half a minute; a service that puts it off and the debugger's prompt may *)
(* last for any time.                                                      *)
MayPass(d) ==
  \/ loc \in {"debug", "stepped"} \/ adj_time_pending \/ disturbed # {}
  \/ timer2 - (access_time - d) <= HalfMinute

Pass(d, why) ==
  /\ loc # "aborted"
  /\ InRange(access_time - d)
  /\ access_time' = access_time - d
  /\ disturbed' = disturbed \cup why
  /\ moved' = FALSE
  /\ UNCHANGED <<timer2, t2_ctrl, adj_time_pending, inService, loc>>

Tick(d) == MayPass(d) /\ Pass(d, IF "run" \in t2_ctrl THEN {} ELSE {"stopped"})

(* The host suspends the emulator.                                         *)
Suspend(d) == ~MayPass(d) /\ Pass(d, {"suspended"})

Instruction ==
  \/ PlainInstruction \/ Shutdn
  \/ \E v \in Stored, i, j \in 0 .. Nibbles - 1 : i <= j /\ StoreTimer2(v, i, j)
  \/ \E by \in Settings : StoreAccessTime(by)
  \/ \E bits \in Controls : StoreControl(bits)

Schedule == CountDown \/ Adjust \/ PutOff \/ NextInstruction

Debugger == Enter \/ Continue \/ Ignore

Next == \/ Instruction \/ Schedule \/ Debugger
        \/ \E other \in BOOLEAN : AlarmPoll(other)
        \/ \E d \in Elapsed : Tick(d) \/ Suspend(d)

(* The loop runs and time passes; alarms come; the user leaves the         *)
(* debugger; the adjustment recurs (JobsOnTime of module Scheduler), the   *)
(* program does not serve a device for ever, and not always just then.     *)
Fairness ==
  /\ WF_vars(PlainInstruction) /\ WF_vars(NextInstruction)
  /\ WF_vars(AlarmPoll(FALSE))
  /\ WF_vars(\E d \in Elapsed : Tick(d))
  /\ SF_vars(PlainInstruction /\ ~inService')
  /\ SF_vars(Adjust)
  /\ SF_vars(Continue \/ Ignore)

Spec == Init /\ [][Next]_vars /\ Fairness

-----------------------------------------------------------------------------
(* The clock is the user's: time_offset moves only after the program has   *)
(* set one of the two numbers, the timer has stood still or the process    *)
(* has been suspended, or when the countdown by instructions has taken     *)
(* TIMER2 more than half a minute ahead of real time; never because TIMER2 *)
(* is behind, after however long a service of an interrupt or a stay in    *)
(* the debugger ("can't come from user, anyhow", timer.c).                 *)
TimeIsTheUsers ==
  [][moved' => disturbed # {} \/ access_time - timer2 > HalfMinute]_vars

(* TIMER2 only counts down ("Don't increment timer2", timer.c): whatever   *)
(* order of countdowns, adjustments, sleep and debugging, only an          *)
(* instruction raises it, but for the comparison without a sign, which     *)
(* takes a timer below 0 back to an access time that is not.               *)
Timer2OnlyGoesDown ==
  [][timer2' > timer2 =>
       \/ loc \in {"run", "debug"} /\ loc' \in {"after", "stepped"}
       \/ timer2 < 0 /\ access_time >= 0]_vars

(* A timer left running with its interrupt on that has run out is          *)
(* announced, also when it ran out in a service, in the sleep or in the    *)
(* debugger, or passed 0 between two looks.                                *)
Timer2IsAnnounced ==
  <>[]({"run", "int"} \subseteq t2_ctrl) => []<>("due" \in t2_ctrl \/ timer2 > 0)

(* A sleep that TIMER2 may end ends, whatever the program had set, unless  *)
(* the host suspends the emulator over and over: each time the alarm is    *)
(* put off with the clock.                                                 *)
SleepEnds ==
  <>[]("suspended" \notin disturbed) =>
    [](loc = "asleep" /\ "run" \in t2_ctrl /\ t2_ctrl \cap {"int", "wake"} # {}
         => <>(loc # "asleep"))
=============================================================================
