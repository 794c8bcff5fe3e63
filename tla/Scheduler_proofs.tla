-------------------------- MODULE Scheduler_proofs --------------------------
(***************************************************************************)
(* Proofs about module Scheduler, for all periods and ticks and any number *)
(* of instructions between two calls of schedule: no job is late, and a    *)
(* change of the display is forgotten in one way only.                     *)
(***************************************************************************)
EXTENDS Scheduler, TLAPS

SchedulerTypes ==
  /\ schedule_event \in Int
  /\ sched \in [Jobs -> Nat]
  /\ sched_display \in Nat
  /\ steps \in Nat
  /\ tick \in [Timers -> Ticks]
  /\ display_touched \in 0 .. DISP_INSTR_OFF
  /\ device_check \in BOOLEAN /\ t1_touched \in BOOLEAN /\ t2_touched \in BOOLEAN
  /\ intenable \in BOOLEAN /\ adj_time_pending \in BOOLEAN
  /\ loop \in {"emulate", "emulate_debug", "first", "step"}
  /\ loc \in {"run", "asleep", "test", "call", "debug", "prompt"}
  /\ stale \in BOOLEAN
  /\ skipped \in Nat

(* The countdown ends before the instructions counted since the last call  *)
(* of schedule have used up a wait of w: what is left of it, the           *)
(* instruction under way, and those counted, less those it has missed.     *)
Slack   == IF schedule_event > 0 THEN schedule_event ELSE 0
Ahead   == IF loc \in {"run", "debug", "prompt"} THEN 1 ELSE 0
Ends(w) == Slack + Ahead + steps - skipped <= w

JobsAhead == \A j \in Steady : sched[j] = 0 \/ Ends(sched[j])

(* The same for the display's job, which is set up for a change that has   *)
(* waited one instruction less than it has to.  A wait of no instruction   *)
(* ends after the next one all the same.                                   *)
DisplayEnd == IF sched_display = 0 THEN 1 ELSE sched_display

DisplayAhead ==
  /\ Ends(DisplayEnd)
  /\ ~device_check => sched_display = SCHED_NEVER
  /\ sched_display = SCHED_NEVER \/ sched_display < DISP_INSTR_OFF
  /\ display_touched > 0 =>
       sched_display = SCHED_NEVER \/ sched_display < display_touched

SchedulerInv == SchedulerTypes /\ JobsAhead /\ DisplayAhead

-----------------------------------------------------------------------------
Called == \E before, during, inService \in BOOLEAN :
            CallSchedule(before, during, inService)

LEMMA Constants ==
  /\ \A j \in Jobs : Period[j] \in Nat /\ Period[j] > 0
  /\ \A t \in Timers : t \in Jobs
  /\ \A t \in Ticks : t \in Nat
  /\ DISP_INSTR_OFF \in Nat /\ DISP_INSTR_OFF > 0
  /\ SCHED_NEVER \in Nat /\ SCHED_NEVER > DISP_INSTR_OFF
BY SchedulerAssumption DEF SchedulerAssumption, Jobs, Timers

(* The least of the waits NextEvent looks at, gathered one by one.         *)
HasLeast(S) == \E x \in S : \A y \in S : x <= y

LEMMA LeastOfMore ==
  ASSUME NEW S \in SUBSET Nat, NEW n \in Nat, HasLeast(S)
  PROVE  HasLeast(S \cup {n})
<1>1. PICK x \in S : \A y \in S : x <= y
  BY DEF HasLeast
<1>2. CASE x <= n
  BY <1>1, <1>2 DEF HasLeast
<1>3. CASE ~(x <= n)
  <2>1. n \in S \cup {n} /\ \A y \in S \cup {n} : n <= y
    BY <1>1, <1>3
  <2> QED BY <2>1 DEF HasLeast
<1> QED BY <1>2, <1>3

LEMMA LeastWait ==
  ASSUME NEW a \in Nat, NEW b \in Nat, NEW s \in [Jobs -> Nat], NEW S,
         S = {a, b} \cup {s[j] : j \in Jobs \ {"timer2"}}
  PROVE  Min(S) \in Nat /\ \A w \in S : w \in Nat /\ Min(S) <= w
<1> DEFINE S1 == {a} \cup {b}
           S2 == S1 \cup {s["timer1"]}
           S3 == S2 \cup {s["receive"]}
           S4 == S3 \cup {s["adjtime"]}
           S5 == S4 \cup {s["statistics"]}
<1>1. /\ s["timer1"] \in Nat /\ s["receive"] \in Nat /\ s["adjtime"] \in Nat
      /\ s["statistics"] \in Nat /\ s["rollover"] \in Nat
  BY DEF Jobs
<1>2. S = S5 \cup {s["rollover"]}
  BY DEF Jobs
<1>3. HasLeast({a})
  BY DEF HasLeast
<1>4. S1 \in SUBSET Nat /\ HasLeast(S1)
  BY <1>3, LeastOfMore
<1> HIDE DEF S1
<1>5. S2 \in SUBSET Nat /\ HasLeast(S2)
  BY <1>1, <1>4, LeastOfMore
<1> HIDE DEF S2
<1>6. S3 \in SUBSET Nat /\ HasLeast(S3)
  BY <1>1, <1>5, LeastOfMore
<1> HIDE DEF S3
<1>7. S4 \in SUBSET Nat /\ HasLeast(S4)
  BY <1>1, <1>6, LeastOfMore
<1> HIDE DEF S4
<1>8. S5 \in SUBSET Nat /\ HasLeast(S5)
  BY <1>1, <1>7, LeastOfMore
<1> HIDE DEF S5
<1>9. S \in SUBSET Nat /\ HasLeast(S)
  BY <1>1, <1>2, <1>8, LeastOfMore
<1>10. Min(S) \in S /\ \A y \in S : Min(S) <= y
  BY <1>9 DEF Min, HasLeast
<1> QED BY <1>9, <1>10

(* What the jobs' waits become.                                            *)
LEMMA RearmedType ==
  ASSUME SchedulerTypes, NEW j \in Jobs
  PROVE  Rearmed(j) \in Nat /\ Rearmed(j) > 0
BY Constants DEF SchedulerTypes, Rearmed, Expired, Left

LEMMA TimerPeriodType ==
  ASSUME SchedulerTypes, NEW t \in Timers, NEW enabled \in BOOLEAN
  PROVE  TimerPeriod(t, enabled) \in Nat
BY Constants DEF SchedulerTypes, TimerPeriod

LEMMA Timer2Type ==
  ASSUME SchedulerTypes
  PROVE  Timer2Counted \in Nat /\ tick["timer2"] \in Nat
<1>1. "timer2" \in Timers /\ "timer2" \in Jobs
  BY DEF Timers, Jobs
<1>2. TimerPeriod("timer2", intenable) \in Nat
  BY <1>1, TimerPeriodType DEF SchedulerTypes
<1>3. Left("timer2") \in Int
  BY <1>1 DEF SchedulerTypes, Left
<1> QED BY <1>1, <1>2, <1>3, Constants DEF SchedulerTypes, Timer2Counted, Expired

LEMMA Timer1Type ==
  ASSUME SchedulerTypes, NEW enabled \in BOOLEAN
  PROVE  Timer1Counted(enabled) \in Nat
<1> DEFINE left == (IF device_check /\ t1_touched THEN tick["timer1"]
                                                  ELSE sched["timer1"]) - steps
<1>1. "timer1" \in Timers /\ "timer1" \in Jobs
  BY DEF Timers, Jobs
<1>2. TimerPeriod("timer1", enabled) \in Nat
  BY <1>1, TimerPeriodType
<1>3. left \in Int
  BY <1>1, Constants DEF SchedulerTypes
<1>4. Timer1Counted(enabled) = IF left <= 0 THEN TimerPeriod("timer1", enabled) ELSE left
  BY DEF Timer1Counted
<1> QED
  <2> HIDE DEF left
  <2> QED BY <1>2, <1>3, <1>4

(* The display's change as check_devices finds it and leaves it.           *)
LEMMA DisplayFacts ==
  ASSUME SchedulerTypes
  PROVE  /\ DisplayDue \in 0 .. DISP_INSTR_OFF
         /\ DisplayAfter \in 0 .. DISP_INSTR_OFF - 1
         /\ DisplayDue > 0 => DisplayAfter = DisplayDue - 1
         /\ DisplayDue = 0 => DisplayAfter = 0
         /\ DisplayWait \in Nat
         /\ DisplayWait = IF DisplayAfter > 0 THEN DisplayAfter - 1 ELSE SCHED_NEVER
<1>1. DisplayDue \in 0 .. DISP_INSTR_OFF
  BY Constants DEF SchedulerTypes, DisplayDue
<1>2. /\ DisplayAfter \in 0 .. DISP_INSTR_OFF - 1
      /\ DisplayDue > 0 => DisplayAfter = DisplayDue - 1
      /\ DisplayDue = 0 => DisplayAfter = 0
  BY <1>1, Constants DEF DisplayAfter
<1> QED BY <1>1, <1>2, Constants DEF DisplayWait

(* schedule rearms every job and leaves a countdown that ends before any   *)
(* of them falls due.                                                      *)
LEMMA ScheduleWaits ==
  ASSUME SchedulerTypes, NEW before \in BOOLEAN, NEW during \in BOOLEAN,
         NEW inService \in BOOLEAN, Schedule(before, during, inService)
  PROVE  /\ sched' \in [Jobs -> Nat]
         /\ schedule_event' \in Int
         /\ \A j \in Steady : sched'[j] > 0 /\ schedule_event' < sched'[j]
         /\ schedule_event' < IF device_check THEN DisplayWait ELSE SCHED_NEVER
         /\ steps' = 0 /\ skipped' = 0
<1> DEFINE mask == intenable /\ ~before
           service == inService /\ ~(intenable /\ before)
           adjusted == Expired("adjtime") /\ ~service
           s == [j \in Jobs |->
                   CASE j = "timer1" -> Timer1Counted(mask /\ ~(during /\ adjusted))
                     [] j = "timer2" -> IF device_check /\ t2_touched
                                        THEN tick["timer2"] ELSE Timer2Counted
                     [] OTHER        -> Rearmed(j)]
           display == IF device_check THEN DisplayWait ELSE SCHED_NEVER
           S == {Timer2Counted, display} \cup {s[j] : j \in Jobs \ {"timer2"}}
<1>1. /\ sched' = s
      /\ schedule_event' = NextEvent(Timer2Counted, display, s) - 1
      /\ steps' = 0 /\ skipped' = 0
  BY DEF Schedule
<1>2. Timer1Counted(mask /\ ~(during /\ adjusted)) \in Nat
  BY Timer1Type DEF SchedulerTypes
<1>3. Timer2Counted \in Nat /\ tick["timer2"] \in Nat
  BY Timer2Type
<1>4. display \in Nat
  BY DisplayFacts, Constants
<1>5. ASSUME NEW j \in Jobs PROVE s[j] \in Nat
  <2>1. CASE j = "timer1"
    <3>1. s[j] = Timer1Counted(mask /\ ~(during /\ adjusted))
      BY <2>1
    <3> QED BY <3>1, <1>2
  <2>2. CASE j = "timer2"
    <3>1. s[j] = IF device_check /\ t2_touched THEN tick["timer2"] ELSE Timer2Counted
      BY <2>2
    <3> QED BY <3>1, <1>3
  <2>3. CASE j # "timer1" /\ j # "timer2"
    <3>1. s[j] = Rearmed(j)
      BY <2>3
    <3> QED BY <3>1, RearmedType
  <2> QED BY <2>1, <2>2, <2>3
<1>6. ASSUME NEW j \in Steady PROVE s[j] > 0 /\ s[j] \in S
  <2>1. j \in Jobs /\ j # "timer1" /\ j # "timer2"
    BY DEF Steady, Timers
  <2>2. s[j] = Rearmed(j)
    BY <2>1
  <2>3. s[j] \in S
    BY <2>1
  <2> QED BY <2>1, <2>2, <2>3, RearmedType
<1>7. s \in [Jobs -> Nat]
  BY <1>5
<1>8. NextEvent(Timer2Counted, display, s) = Min(S)
  BY DEF NextEvent
<1> HIDE DEF s
<1>9. display \in S
  OBVIOUS
<1> HIDE DEF display
<1>10. Min(S) \in Nat /\ \A w \in S : w \in Nat /\ Min(S) <= w
  BY <1>3, <1>4, <1>7, LeastWait
<1> HIDE DEF S
<1>11. schedule_event' \in Int /\ \A w \in S : schedule_event' < w
  BY <1>1, <1>8, <1>9, <1>10
<1>12. schedule_event' < display
  BY <1>9, <1>11
<1> QED BY <1>1, <1>6, <1>7, <1>11, <1>12 DEF display

-----------------------------------------------------------------------------
LEMMA SchedulerInit == Init => SchedulerInv
<1> SUFFICES ASSUME Init PROVE SchedulerInv
  OBVIOUS
<1>1. sched \in [Jobs -> Nat] /\ \A j \in Steady : sched[j] = Period[j]
  BY Constants DEF Init, Steady
<1>2. tick \in [Timers -> Ticks] /\ sched_display = SCHED_NEVER
  BY DEF Init
<1>3. /\ schedule_event = 0 /\ steps = 0 /\ skipped = 0 /\ display_touched \in {0, 1}
      /\ loop = "emulate" /\ loc = "run"
  BY DEF Init
<1>4. /\ device_check \in BOOLEAN /\ t1_touched \in BOOLEAN /\ t2_touched \in BOOLEAN
      /\ intenable \in BOOLEAN /\ adj_time_pending \in BOOLEAN
      /\ stale \in BOOLEAN
  BY DEF Init
<1>5. SchedulerTypes
  BY <1>1, <1>2, <1>3, <1>4, Constants DEF SchedulerTypes
<1>6. JobsAhead
  BY <1>1, <1>3, Constants DEF JobsAhead, Ends, Slack, Ahead, Steady
<1>7. DisplayAhead
  BY <1>2, <1>3, Constants DEF DisplayAhead, DisplayEnd, Ends, Slack, Ahead
<1> QED BY <1>5, <1>6, <1>7 DEF SchedulerInv

LEMMA ScheduleTypes ==
  ASSUME SchedulerTypes, NEW before \in BOOLEAN, NEW during \in BOOLEAN,
         NEW inService \in BOOLEAN, Schedule(before, during, inService), loop' = loop,
         loc' \in {"run", "debug", "prompt"}
  PROVE  SchedulerTypes'
<1> DEFINE adjusted == Expired("adjtime") /\ ~(inService /\ ~(intenable /\ before))
<1>1. /\ sched' \in [Jobs -> Nat] /\ schedule_event' \in Int
      /\ steps' = 0 /\ skipped' = 0
  BY ScheduleWaits
<1>2. tick' \in [Timers -> Ticks]
  <2>1. tick' \in TicksAfter(adjusted)
    BY DEF Schedule
  <2>2. "timer2" \in Timers
    BY DEF Timers
  <2>3. ASSUME [tick EXCEPT !["timer2"] = @ + 1]["timer2"] \in Ticks
        PROVE  [tick EXCEPT !["timer2"] = @ + 1] \in [Timers -> Ticks]
    BY <2>2, <2>3 DEF SchedulerTypes
  <2> QED BY <2>1, <2>3 DEF TicksAfter, SchedulerTypes
<1>3. /\ display_touched' \in 0 .. DISP_INSTR_OFF /\ sched_display' \in Nat
      /\ device_check' \in BOOLEAN /\ stale' \in BOOLEAN
  <2>1. CheckDisplay
    BY DEF Schedule
  <2>2. CASE device_check
    <3>1. /\ display_touched' = DisplayAfter /\ sched_display' = DisplayWait
          /\ device_check' = (DisplayAfter > 0) /\ stale' = (stale /\ DisplayDue # 1)
      BY <2>1, <2>2 DEF CheckDisplay
    <3>2. display_touched' \in 0 .. DISP_INSTR_OFF /\ sched_display' \in Nat
      BY <3>1, DisplayFacts, Constants
    <3>3. device_check' \in BOOLEAN /\ stale' \in BOOLEAN
      BY <3>1
    <3> QED BY <3>2, <3>3
  <2>3. CASE ~device_check
    BY <2>1, <2>3 DEF CheckDisplay, SchedulerTypes
  <2> QED BY <2>2, <2>3
<1>4. /\ t1_touched' \in BOOLEAN /\ t2_touched' \in BOOLEAN
      /\ intenable' \in BOOLEAN
      /\ adj_time_pending' \in BOOLEAN
  BY DEF Schedule, SchedulerTypes
<1> QED BY <1>1, <1>2, <1>3, <1>4 DEF SchedulerTypes

LEMMA TypesStep ==
  ASSUME SchedulerTypes, [Next]_vars
  PROVE  SchedulerTypes'
<1> USE Constants DEF SchedulerTypes
<1>0. "adjtime" \in Jobs
  BY DEF Jobs
<1>1. CASE PlainInstruction \/ Shutdn \/ Trap
  BY <1>1 DEF PlainInstruction, Shutdn, Trap, Executed, count, devices, cpu, history
<1>2. ASSUME NEW t1 \in BOOLEAN, NEW t2 \in BOOLEAN, NEW display \in BOOLEAN,
             DeviceAccess(t1, t2, display)
      PROVE  SchedulerTypes'
  BY <1>2 DEF DeviceAccess, Executed
<1>3. CASE Rti
  <2>1. sched' \in [Jobs -> Nat]
    BY <1>0, <1>3 DEF Rti
  <2> QED BY <1>3, <2>1 DEF Rti, Executed, devices, history
<1>4. CASE Sleep
  BY <1>4 DEF Sleep, count
<1>5. ASSUME NEW before \in BOOLEAN, NEW during \in BOOLEAN,
             NEW inService \in BOOLEAN, CallSchedule(before, during, inService)
      PROVE  SchedulerTypes'
  BY <1>5, ScheduleTypes DEF CallSchedule, Goes
<1>6. CASE CountDown
  BY <1>6 DEF CountDown, Goes, devices, cpu
<1>7. CASE BreakpointHit
  BY <1>7 DEF BreakpointHit, count, devices, cpu
<1>8. ASSUME NEW l, NEW s \in [Jobs -> Nat] PROVE Entered(l, s) \in [Jobs -> Nat]
  BY <1>8 DEF Entered
<1>9. [sched EXCEPT !["adjtime"] = 0] \in [Jobs -> Nat]
  BY <1>0
<1>10. CASE FirstStepped
  BY <1>9, <1>10 DEF FirstStepped, devices, cpu, history
<1>14. CASE EnterDebug
  BY <1>14 DEF EnterDebug, count, cpu
<1>15. CASE DebugStep
  BY <1>15 DEF DebugStep, count, devices, cpu, history
<1>11. ASSUME NEW l \in {"emulate", "emulate_debug"}, Continue(l) PROVE SchedulerTypes'
  <2>1. sched' \in [Jobs -> Nat]
    BY <1>8, <1>9, <1>11 DEF Continue
  <2> QED BY <1>11, <2>1 DEF Continue, devices, cpu, history
<1>12. CASE Ignore
  <2>1. sched' \in [Jobs -> Nat]
    BY <1>8, <1>12 DEF Ignore
  <2> QED BY <1>12, <2>1 DEF Ignore, devices, cpu, history
<1>13. CASE UNCHANGED vars
  BY <1>13 DEF vars
<1> QED BY <1>1, <1>2, <1>3, <1>4, <1>5, <1>6, <1>7, <1>10, <1>11, <1>12, <1>13,
           <1>14, <1>15
        DEF Next, Instruction, Loop, Debugger

-----------------------------------------------------------------------------
(* What a step that is no call of schedule does to the countdown: it still *)
(* ends in time for whatever it ended in time for.                         *)
LEMMA CountKept ==
  ASSUME SchedulerTypes, SchedulerTypes', [Next]_vars,
         ~Called,
         NEW w \in Nat, Ends(w)
  PROVE  Ends(w)'
<1> USE DEF SchedulerTypes, Ends, Slack, Ahead
<1>10. CASE Trap \/ FirstStepped
  <2>1. /\ loc' \in {"test", "call"} /\ UNCHANGED <<schedule_event, steps, skipped>>
    BY <1>10 DEF Trap, FirstStepped, count, history
  <2> QED BY <2>1
<1>1. CASE PlainInstruction \/ Shutdn
  <2>1. /\ loc = "run" /\ loc' \in {"test", "asleep"} /\ steps' = steps + 1
        /\ schedule_event' = schedule_event /\ skipped' = skipped
    BY <1>1 DEF PlainInstruction, Shutdn, Executed, history
  <2> QED BY <2>1
<1>2. ASSUME NEW t1 \in BOOLEAN, NEW t2 \in BOOLEAN, NEW display \in BOOLEAN,
             DeviceAccess(t1, t2, display)
      PROVE  Ends(w)'
  BY <1>2 DEF DeviceAccess, Executed
<1>3. CASE Rti
  BY <1>3 DEF Rti, Executed, history
<1>4. CASE Sleep
  BY <1>4 DEF Sleep, count
<1>5. CASE CountDown
  <2>1. schedule_event # 0
    <3>1. ~CallDue
      BY <1>5 DEF CountDown
    <3> QED BY <1>5, <3>1 DEF CallDue, CountDown
  <2>2. /\ loc = "test" /\ loc' \in {"run", "debug", "prompt"}
        /\ schedule_event' = schedule_event - 1 /\ steps' = steps
        /\ skipped' = IF schedule_event < 0 THEN skipped + 1 ELSE skipped
    BY <1>5 DEF CountDown, Goes
  <2> QED BY <2>1, <2>2
<1>6. CASE BreakpointHit
  BY <1>6 DEF BreakpointHit, count
<1>7. ASSUME NEW l \in {"emulate", "emulate_debug"}, Continue(l) PROVE Ends(w)'
  BY <1>7 DEF Continue, history
<1>8. CASE DebugStep \/ EnterDebug \/ Ignore
  BY <1>8 DEF DebugStep, EnterDebug, Ignore, count, history
<1>9. CASE UNCHANGED vars
  BY <1>9 DEF vars
<1> QED BY <1>1, <1>2, <1>3, <1>4, <1>5, <1>6, <1>7, <1>8, <1>9,
           <1>10
        DEF Next, Instruction, Loop, Debugger, Called

(* Nor does it change the wait of a job other than adjtime, which it may   *)
(* make due at once.                                                       *)
LEMMA SteadyKept ==
  ASSUME SchedulerTypes, [Next]_vars,
         ~Called,
         NEW j \in Steady
  PROVE  sched'[j] \in {sched[j], 0}
<1>0. j \in Jobs /\ j \notin Timers
  BY DEF Steady
<1>1. CASE sched' = sched
  BY <1>1
<1>2. CASE sched' = [sched EXCEPT !["adjtime"] = 0]
  BY <1>0, <1>2 DEF SchedulerTypes
<1>3. ASSUME NEW l, NEW s, sched' = Entered(l, s),
             s \in {sched, [sched EXCEPT !["adjtime"] = 0]}
      PROVE  sched'[j] \in {sched[j], 0}
  <2>1. sched'[j] = s[j]
    BY <1>0, <1>3 DEF Entered
  <2>2. s[j] \in {sched[j], 0}
    BY <1>0, <1>3 DEF SchedulerTypes
  <2> QED BY <2>1, <2>2
<1>4. CASE PlainInstruction \/ Shutdn \/ Rti
  BY <1>1, <1>2, <1>4 DEF PlainInstruction, Shutdn, Rti
<1>5. ASSUME NEW t1 \in BOOLEAN, NEW t2 \in BOOLEAN, NEW display \in BOOLEAN,
             DeviceAccess(t1, t2, display)
      PROVE  sched' = sched
  BY <1>5 DEF DeviceAccess
<1>6. CASE \/ Sleep \/ CountDown \/ BreakpointHit \/ UNCHANGED vars
           \/ Trap \/ EnterDebug \/ DebugStep
  BY <1>1, <1>6 DEF Sleep, CountDown, BreakpointHit, vars, count, Trap, EnterDebug,
     DebugStep
<1>7. CASE FirstStepped
  BY <1>2, <1>7 DEF FirstStepped
<1>8. ASSUME NEW l \in {"emulate", "emulate_debug"}, Continue(l)
      PROVE  sched'[j] \in {sched[j], 0}
  BY <1>3, <1>8 DEF Continue
<1>9. CASE Ignore
  BY <1>3, <1>9 DEF Ignore
<1> QED BY <1>1, <1>4, <1>5, <1>6, <1>7, <1>8, <1>9
        DEF Next, Instruction, Loop, Debugger, Called

(* Once all counters start again, a countdown shorter than a wait ends in  *)
(* time for it.                                                            *)
LEMMA EndsAfresh ==
  ASSUME schedule_event' \in Int, steps' = 0, skipped' = 0,
         NEW w \in Nat, 0 < w, schedule_event' < w
  PROVE  Slack' + Ahead' + steps' - skipped' <= w
<1>1. PICK e \in Int : schedule_event' = e
  OBVIOUS
<1> QED BY <1>1 DEF Slack, Ahead

LEMMA JobsStep ==
  ASSUME SchedulerInv, [Next]_vars
  PROVE  JobsAhead'
<1>1. SchedulerTypes /\ SchedulerTypes'
  BY TypesStep DEF SchedulerInv
<1>2. ASSUME NEW before \in BOOLEAN, NEW during \in BOOLEAN,
             NEW inService \in BOOLEAN, CallSchedule(before, during, inService)
      PROVE  JobsAhead'
  <2>1. /\ \A j \in Steady : sched'[j] > 0 /\ schedule_event' < sched'[j]
        /\ steps' = 0 /\ skipped' = 0
        /\ schedule_event' \in Int /\ sched' \in [Jobs -> Nat]
    BY <1>1, <1>2, ScheduleWaits DEF CallSchedule
  <2>2. ASSUME NEW j \in Steady PROVE Ends(sched[j])'
    <3>1. sched'[j] \in Nat
      BY <2>1 DEF Steady
    <3> QED BY <2>1, <3>1 DEF Ends, Slack, Ahead
  <2> QED BY <2>2 DEF JobsAhead
<1>3. ASSUME ~Called,
             NEW j \in Steady
      PROVE  sched'[j] = 0 \/ Ends(sched[j])'
  <2>1. CASE sched'[j] = 0
    BY <2>1
  <2>2. CASE sched'[j] = sched[j] /\ sched[j] # 0
    <3>1. Ends(sched[j]) /\ sched[j] \in Nat
      BY <1>1, <2>2 DEF SchedulerInv, JobsAhead, SchedulerTypes, Steady
    <3> DEFINE w == sched[j]
    <3>2. w \in Nat /\ Ends(w)
      BY <3>1
    <3>3. Slack' + Ahead' + steps' - skipped' <= w
      <4> HIDE DEF w
      <4> QED BY <1>1, <1>3, <3>2, CountKept DEF Ends
    <3> QED BY <2>2, <3>3 DEF Ends
  <2> QED BY <1>1, <1>3, <2>1, <2>2, SteadyKept
<1> QED BY <1>2, <1>3 DEF JobsAhead, Called

(* A call of schedule leaves the display's job as long as its change waits *)
(* and the countdown ends first; without a device access it has no job.    *)
LEMMA DisplayStep ==
  ASSUME SchedulerInv, [Next]_vars
  PROVE  DisplayAhead'
<1>1. SchedulerTypes /\ SchedulerTypes'
  BY TypesStep DEF SchedulerInv
<1>2. ASSUME NEW before \in BOOLEAN, NEW during \in BOOLEAN,
             NEW inService \in BOOLEAN, CallSchedule(before, during, inService)
      PROVE  DisplayAhead'
  <2>1. /\ schedule_event' < IF device_check THEN DisplayWait ELSE SCHED_NEVER
        /\ steps' = 0 /\ skipped' = 0
    BY <1>1, <1>2, ScheduleWaits DEF CallSchedule
  <2>0. steps' = 0 /\ skipped' = 0
    BY <2>1
  <2>2. CheckDisplay
    BY <1>2 DEF CallSchedule, Schedule
  <2>3. schedule_event' \in Int /\ sched_display' \in Nat
    BY <1>1 DEF SchedulerTypes
  <2>4. CASE device_check
    <3>1. /\ display_touched' = DisplayAfter /\ sched_display' = DisplayWait
          /\ (DisplayAfter > 0 => device_check')
      BY <2>2, <2>4 DEF CheckDisplay
    <3>2. Ends(DisplayEnd)'
      <4>1. schedule_event' < sched_display'
        BY <2>1, <2>4, <3>1
      <4>2. DisplayEnd' \in Nat /\ 0 < DisplayEnd' /\ schedule_event' < DisplayEnd'
        BY <2>3, <4>1 DEF DisplayEnd
      <4> QED BY <2>0, <2>3, <4>2, EndsAfresh DEF Ends
    <3>3. /\ ~device_check' => sched_display' = SCHED_NEVER
          /\ sched_display' = SCHED_NEVER \/ sched_display' < DISP_INSTR_OFF
          /\ display_touched' > 0 =>
               sched_display' = SCHED_NEVER \/ sched_display' < display_touched'
      BY <3>1, <1>1, DisplayFacts, Constants
    <3> QED BY <3>2, <3>3 DEF DisplayAhead
  <2>5. CASE ~device_check
    <3>1. /\ display_touched' = display_touched /\ sched_display' = sched_display
          /\ device_check' = device_check
      BY <2>2, <2>5 DEF CheckDisplay
    <3>2. sched_display = SCHED_NEVER
      BY <2>5 DEF SchedulerInv, DisplayAhead
    <3>3. schedule_event' < sched_display'
      BY <2>1, <2>5, <3>1, <3>2
    <3>4. DisplayEnd' \in Nat /\ 0 < DisplayEnd' /\ schedule_event' < DisplayEnd'
      BY <2>3, <3>3 DEF DisplayEnd
    <3>5. Ends(DisplayEnd)'
      BY <2>0, <2>3, <3>4, EndsAfresh DEF Ends
    <3> QED BY <3>1, <3>5, <1>1 DEF SchedulerInv, DisplayAhead
  <2> QED BY <2>4, <2>5
<1>3. CASE ~Called
  <2>1. /\ sched_display' = sched_display
        /\ \/ device_check' = device_check /\ display_touched' \in {display_touched, 0}
           \/ device_check' /\ display_touched' \in {display_touched, DISP_INSTR_OFF}
    BY <1>3 DEF Next, Instruction, Loop, Debugger, Called, PlainInstruction, Trap, Shutdn,
       Rti, DeviceAccess, Sleep, CountDown, BreakpointHit, FirstStepped, EnterDebug,
       DebugStep, Ignore, Continue, vars, count, devices, history
  <2>2. /\ Ends(DisplayEnd)
        /\ ~device_check => sched_display = SCHED_NEVER
        /\ sched_display = SCHED_NEVER \/ sched_display < DISP_INSTR_OFF
        /\ display_touched > 0 =>
             sched_display = SCHED_NEVER \/ sched_display < display_touched
        /\ sched_display \in Nat /\ display_touched \in Nat
    BY <1>1 DEF SchedulerInv, DisplayAhead, SchedulerTypes
  <2>3. Ends(DisplayEnd)'
    <3> DEFINE w == DisplayEnd
    <3>1. w \in Nat /\ Ends(w)
      BY <2>2 DEF DisplayEnd
    <3>2. Slack' + Ahead' + steps' - skipped' <= w
      <4> HIDE DEF w
      <4> QED BY <1>1, <1>3, <3>1, CountKept DEF Ends
    <3>3. DisplayEnd' = DisplayEnd
      BY <2>1 DEF DisplayEnd
    <3> QED BY <3>2, <3>3 DEF Ends
  <2> QED BY <2>1, <2>2, <2>3, Constants DEF DisplayAhead
<1> QED BY <1>2, <1>3 DEF Called

LEMMA SchedulerStep == SchedulerInv /\ [Next]_vars => SchedulerInv'
BY TypesStep, JobsStep, DisplayStep DEF SchedulerInv

(* In every state the countdown is ahead of every job and of the display.  *)
THEOREM CountdownIsAhead == Spec => []SchedulerInv
BY SchedulerInit, SchedulerStep, PTL DEF Spec

(* No job of schedule but the timers' is ever late: when an instruction is *)
(* about to be executed, fewer have passed than the job's period has left, *)
(* whatever was accessed, returned from or slept through in between.       *)
THEOREM SchedulerIsOnTime == Spec => []JobsOnTime
<1>1. SchedulerInv => JobsOnTime
  <2> SUFFICES ASSUME SchedulerInv, loc = "run", NEW j \in Steady
               PROVE  sched[j] = 0 \/ steps - skipped < sched[j]
    BY DEF JobsOnTime
  <2>1. sched[j] \in Nat /\ steps \in Nat /\ skipped \in Nat /\ schedule_event \in Int
    BY DEF SchedulerInv, SchedulerTypes, Steady
  <2>2. sched[j] = 0 \/ Ends(sched[j])
    BY DEF SchedulerInv, JobsAhead
  <2> QED BY <2>1, <2>2 DEF Ends, Slack, Ahead
<1> QED BY <1>1, CountdownIsAhead, PTL

(* A change of the display is forgotten only when the last call of         *)
(* schedule left it a wait of no instruction, for all periods, ticks and   *)
(* values of DISP_INSTR_OFF.                                               *)
THEOREM DisplayChangeIsKept == Spec => ForgottenOnlyWhenDueAtOnce
<1> DEFINE OneWay == Forgotten
                        => \/ skipped > 0
                           \/ sched_display = 0 /\ steps = 1 /\ display_touched = 1
<1>1. ASSUME SchedulerInv, Next PROVE OneWay
  <2>1. /\ stale \in BOOLEAN /\ display_touched \in 0 .. DISP_INSTR_OFF
        /\ steps \in Nat /\ skipped \in Nat /\ sched_display \in Nat
        /\ schedule_event \in Int /\ stale' \in BOOLEAN
    BY <1>1, TypesStep DEF SchedulerInv, SchedulerTypes
  <2>2. ASSUME NEW before \in BOOLEAN, NEW during \in BOOLEAN,
               NEW inService \in BOOLEAN, CallSchedule(before, during, inService)
        PROVE  OneWay
    <3>1. CheckDisplay
      BY <2>2 DEF CallSchedule, Schedule
    <3>2. CASE ~device_check
      <4>1. display_touched' = display_touched
        BY <3>1, <3>2 DEF CheckDisplay
      <4> QED BY <2>1, <4>1 DEF Forgotten
    <3>3. CASE device_check
      <4> SUFFICES ASSUME Forgotten, ~(skipped > 0)
                   PROVE  sched_display = 0 /\ steps = 1 /\ display_touched = 1
        OBVIOUS
      <4>0. stale' /\ display_touched > 0 /\ display_touched' = 0 /\ skipped = 0
        BY <2>1 DEF Forgotten
      <4>7. display_touched' = DisplayAfter /\ (stale' => DisplayDue # 1)
        BY <3>1, <3>3 DEF CheckDisplay
      <4>1. DisplayAfter = 0 /\ DisplayDue # 1 /\ display_touched > 0 /\ skipped = 0
        BY <4>0, <4>7
      <4>2. DisplayDue = 0
        BY <1>1, <4>1, DisplayFacts, Constants DEF SchedulerInv
      <4>3. sched_display <= steps /\ display_touched = steps
        BY <2>1, <4>1, <4>2 DEF DisplayDue
      <4>4. steps <= DisplayEnd
        BY <2>1, <4>1, <1>1 DEF SchedulerInv, DisplayAhead, DisplayEnd, Ends, Slack, Ahead
      <4>5. sched_display = SCHED_NEVER \/ sched_display < display_touched
        BY <1>1, <4>1 DEF SchedulerInv, DisplayAhead
      <4>6. sched_display # SCHED_NEVER
        BY <2>1, <4>3, Constants
      <4> QED BY <2>1, <4>1, <4>3, <4>4, <4>5, <4>6 DEF DisplayEnd
    <3> QED BY <3>2, <3>3
  <2>3. CASE ~Called
    <3>1. \/ display_touched' = display_touched
          \/ display_touched' = DISP_INSTR_OFF
          \/ stale' => display_touched = 0
      BY <1>1, <2>3 DEF Next, Instruction, Loop, Debugger, Called, PlainInstruction, Trap,
         Shutdn, Rti, DeviceAccess, Sleep, CountDown, BreakpointHit, FirstStepped,
         EnterDebug, DebugStep, Ignore, Continue, devices, history, count
    <3> QED BY <2>1, <3>1, Constants DEF Forgotten
  <2> QED BY <2>2, <2>3 DEF Called
<1>2. SchedulerInv /\ [Next]_vars => [OneWay]_vars
  BY <1>1
<1>3. [OneWay]_vars = [Forgotten
                        => \/ skipped > 0
                           \/ sched_display = 0 /\ steps = 1 /\ display_touched = 1]_vars
  OBVIOUS
<1> QED BY <1>2, CountdownIsAhead, PTL DEF Spec, ForgottenOnlyWhenDueAtOnce

=============================================================================
