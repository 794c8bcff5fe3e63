----------------------------- MODULE Scheduler -----------------------------
(***************************************************************************)
(* The event scheduler of the emulator (schedule in emulate.c and the      *)
(* tests that call it in emulate, emulate_debug and step): which of the    *)
(* periodic jobs runs after how many instructions, and how a device access *)
(* or the return from an interrupt brings the next call forward.           *)
(*                                                                         *)
(* What a job does is left to other modules: Serial says what receive      *)
(* does and Interrupts what do_interupt does.  Here a job rearms itself,   *)
(* moves the next call, and may mask interrupts.                           *)
(***************************************************************************)
EXTENDS Integers, FiniteSetsExt

CONSTANTS
  Period,          \* reload values SCHED_TIMER1 .. SCHED_INSTR_ROLLOVER
  Ticks,           \* values saturn.t1_tick and saturn.t2_tick can have
  DISP_INSTR_OFF,  \* instructions a display change waits for more of them
  SCHED_NEVER,     \* a wait longer than any other
  MaxDrift         \* bound on instructions without a call of schedule

Jobs   == {"timer1", "timer2", "receive", "adjtime", "statistics", "rollover"}
Timers == {"timer1", "timer2"}

(* The jobs nothing but schedule rearms while the loop runs.               *)
Steady == Jobs \ Timers

ASSUME SchedulerAssumption ==
  /\ Period \in [Jobs -> Nat \ {0}]
  /\ Ticks \subseteq Nat /\ Ticks # {}
  /\ DISP_INSTR_OFF \in Nat \ {0}
  /\ SCHED_NEVER \in Nat
  /\ \A j \in Jobs : Period[j] < SCHED_NEVER
  /\ \A t \in Ticks \cup {DISP_INSTR_OFF} : t < SCHED_NEVER
  /\ MaxDrift \in Nat

VARIABLES
  schedule_event,   \* instructions left before the next call of schedule
  sched,            \* sched_timer1, sched_timer2, sched_receive, ...
  sched_display,    \* the same for the display, SCHED_NEVER for none
  steps,            \* instructions - old_sched_instr
  tick,             \* saturn.t1_tick and saturn.t2_tick
  device_check,
  t1_touched,       \* device.t1_touched
  t2_touched,       \* device.t2_touched
  display_touched,  \* device.display_touched
  intenable,        \* saturn.intenable
  adj_time_pending,
  loop,             \* "emulate", "emulate_debug", or do_step: "first" for its
                    \* first instruction and "step" for the others
  loc,              \* "run", "asleep", "test" (whether to call schedule),
                    \* "call" (of schedule), "debug" (on entry), "prompt"
  stale,            \* history: the display has changed since its last update
  skipped           \* history: instructions the countdown has missed

count   == <<schedule_event, sched, sched_display, steps>>
devices == <<device_check, t1_touched, t2_touched, display_touched>>
cpu     == <<intenable, adj_time_pending>>
history == <<stale, skipped>>
vars    == <<schedule_event, sched, sched_display, steps, tick, device_check,
             t1_touched, t2_touched, display_touched, intenable,
             adj_time_pending, loop, loc, stale, skipped>>

(* The start: static initialisers, then emulate sets the timers from the   *)
(* ticks, which only init_saturn has made different from zero.             *)
Init ==
  /\ schedule_event = 0
  /\ tick \in [Timers -> Ticks]
  /\ sched = [j \in Jobs |-> IF j \in Timers THEN tick[j] ELSE Period[j]]
  /\ sched_display = SCHED_NEVER
  /\ steps = 0
  /\ device_check = FALSE
  /\ t1_touched = FALSE
  /\ t2_touched = FALSE
  /\ display_touched \in {0, 1}
  /\ intenable \in BOOLEAN
  /\ adj_time_pending = FALSE
  /\ loop = "emulate"
  /\ loc = "run"
  /\ stale = (display_touched = 1)
  /\ skipped = 0

-----------------------------------------------------------------------------
Executed ==
  /\ loc = "run"
  /\ steps' = steps + 1

(* An instruction the scheduler does not notice.                           *)
PlainInstruction ==
  /\ Executed
  /\ steps < MaxDrift
  /\ loc' = "test"
  /\ UNCHANGED <<schedule_event, sched, sched_display, tick, devices,
                 intenable, adj_time_pending, loop, history>>

(* A TRAP (op 6004n, n not 0) returns before it is counted; it asks for the *)
(* debugger, as SIGINT may at any time.                                    *)
Trap ==
  /\ loc = "run"
  /\ skipped < MaxDrift
  /\ loc' = "test"
  /\ UNCHANGED <<count, tick, devices, intenable, adj_time_pending, loop,
                 history>>

(* SHUTDN; only emulate sleeps at once.                                    *)
Shutdn ==
  /\ Executed
  /\ loop = "emulate"
  /\ steps < MaxDrift
  /\ loc' = "asleep"
  /\ UNCHANGED <<schedule_event, sched, sched_display, tick, devices,
                 intenable, adj_time_pending, loop, history>>

(* A store to the device area, or a load from RBR: t1 and t2 say whether   *)
(* it covers TIMER1 and TIMER2, display whether it changes the display.    *)
DeviceAccess(t1, t2, display) ==
  /\ Executed
  /\ loc' = "test"
  /\ schedule_event' = 0
  /\ device_check' = TRUE
  /\ t1_touched' = (t1_touched \/ t1)
  /\ t2_touched' = (t2_touched \/ t2)
  /\ display_touched' = IF display THEN DISP_INSTR_OFF ELSE display_touched
  /\ stale' = (stale \/ display)
  /\ UNCHANGED <<sched, sched_display, tick, intenable, adj_time_pending,
                 loop, skipped>>

(* An RTI that returns: an adjustment put off is made at once.             *)
Rti ==
  /\ Executed
  /\ steps < MaxDrift
  /\ loc' = "test"
  /\ intenable' = TRUE
  /\ schedule_event' = IF adj_time_pending THEN 0 ELSE schedule_event
  /\ sched' = IF adj_time_pending THEN [sched EXCEPT !["adjtime"] = 0] ELSE sched
  /\ UNCHANGED <<sched_display, tick, devices, adj_time_pending, loop, history>>

(* do_shutdown updates the display, sleeps, and wakes by an interrupt or   *)
(* with interrupts enabled.                                                *)
Sleep ==
  /\ loc = "asleep"
  /\ loc' = "test"
  /\ display_touched' = 0
  /\ stale' = (stale /\ display_touched = 0)
  /\ intenable' \in BOOLEAN
  /\ UNCHANGED <<count, tick, device_check, t1_touched, t2_touched,
                 adj_time_pending, loop, skipped>>

-----------------------------------------------------------------------------
Left(j)    == sched[j] - steps
Expired(j) == Left(j) <= 0

(* What a timer waits for: real ticks, or a coarse period while masked.    *)
TimerPeriod(t, enabled) == IF enabled THEN tick[t] ELSE Period[t]

(* What display_touched is when check_devices looks at it: schedule takes  *)
(* off the instructions that passed once the display's job is due.         *)
(* Mutant: a change that has waited long enough counts as shown.           *)
DisplayDueForgets ==
  IF sched_display > steps \/ display_touched = 0 THEN display_touched ELSE 0

DisplayDue ==
  IF sched_display > steps \/ display_touched = 0 THEN display_touched
  ELSE IF display_touched < steps THEN 1 ELSE display_touched - steps

(* check_devices takes off one more and updates the display at the last.   *)
DisplayAfter == IF DisplayDue > 0 THEN DisplayDue - 1 ELSE 0

DisplayWait == IF DisplayAfter > 0 THEN DisplayAfter - 1 ELSE SCHED_NEVER

CheckDisplay ==
  \/ /\ device_check
     /\ display_touched' = DisplayAfter
     /\ sched_display' = DisplayWait
     /\ device_check' = (DisplayAfter > 0)
     /\ stale' = (stale /\ DisplayDue # 1)
  \/ /\ ~device_check
     /\ UNCHANGED <<device_check, display_touched, sched_display, stale>>

(* Timer 2 is counted before check_devices restarts it for a store to      *)
(* TIMER2; timer 1, after it.                                              *)
Timer2Counted ==
  IF Expired("timer2") THEN TimerPeriod("timer2", intenable) ELSE Left("timer2")

Timer1Counted(enabled) ==
  LET left == (IF device_check /\ t1_touched THEN tick["timer1"]
                                            ELSE sched["timer1"]) - steps
  IN  IF left <= 0 THEN TimerPeriod("timer1", enabled) ELSE left

(* Every other job starts its period again when it runs.                   *)
Rearmed(j) == IF Expired(j) THEN Period[j] ELSE Left(j)

(* The jobs' effect on the ticks: statistics measures them anew; adjtime   *)
(* (get_t1_t2) may slow down timer 2 by one instruction.                   *)
TicksAfter(adjusted) ==
  IF Expired("statistics") THEN [Timers -> Ticks]
  ELSE {tick} \cup
       {t \in {[tick EXCEPT !["timer2"] = @ + 1]} : adjusted /\ t["timer2"] \in Ticks}

(* The least of the waits.  Mutant: it leaves out the receiver's.          *)
NextEventShort(timer2, display, s) ==
  Min({timer2, display} \cup {s[j] : j \in Jobs \ {"timer2", "receive"}})

NextEvent(timer2, display, s) ==
  Min({timer2, display} \cup {s[j] : j \in Jobs \ {"timer2"}})

(* schedule.  before: timer 2, a device or the receiver interrupts; during: *)
(* so does the adjustment of the clock.  Both only if not masked.           *)
(* inService: saturn.PC is between SrvcIoStart and SrvcIoEnd, which any     *)
(* instruction since the last call may have entered or left.                *)
Schedule(before, during, inService) ==
  LET mask     == intenable /\ ~before
      service  == inService /\ ~(intenable /\ before)
      adjusted == Expired("adjtime") /\ ~service
      s == [j \in Jobs |->
              CASE j = "timer1" -> Timer1Counted(mask /\ ~(during /\ adjusted))
                [] j = "timer2" -> IF device_check /\ t2_touched
                                   THEN tick["timer2"] ELSE Timer2Counted
                [] OTHER        -> Rearmed(j)]
  IN
  /\ sched' = s
  /\ CheckDisplay
  /\ schedule_event' =
       NextEvent(Timer2Counted, IF device_check THEN DisplayWait ELSE SCHED_NEVER, s) - 1
  /\ steps' = 0
  /\ tick' \in TicksAfter(adjusted)
  /\ t1_touched' = (t1_touched /\ ~device_check)
  /\ t2_touched' = (t2_touched /\ ~device_check)
  /\ intenable' = (mask /\ ~(during /\ adjusted))
  /\ adj_time_pending' = IF Expired("adjtime") THEN service ELSE adj_time_pending
  /\ skipped' = 0

-----------------------------------------------------------------------------
(* The tests: <= 0 in emulate, == 0 in emulate_debug, none in do_step.     *)
CallDue ==
  \/ loop = "emulate" /\ schedule_event <= 0
  \/ loop = "emulate_debug" /\ schedule_event = 0
  \/ loop = "step"

(* enter_debugger may be set at any time, by SIGINT or a trap, and do_step *)
(* may have done its steps.                                                *)
Goes == loc' \in {"run", IF loop = "step" THEN "prompt" ELSE "debug"}

CallSchedule(before, during, inService) ==
  /\ loc = "call" \/ (loc = "test" /\ CallDue)
  /\ Schedule(before, during, inService)
  /\ Goes
  /\ UNCHANGED loop

CountDown ==
  /\ loc = "test"
  /\ ~CallDue /\ loop # "first"
  /\ schedule_event' = schedule_event - 1
  /\ skipped' = IF schedule_event < 0 THEN skipped + 1 ELSE skipped
  /\ Goes
  /\ UNCHANGED <<sched, sched_display, steps, tick, devices, cpu, loop, stale>>

(* emulate_debug and do_step leave at a breakpoint before the call.        *)
BreakpointHit ==
  /\ loc = "test"
  /\ loop # "emulate"
  /\ steps < MaxDrift
  /\ loc' = IF loop = "emulate_debug" THEN "debug" ELSE "prompt"
  /\ skipped' = skipped + 1
  /\ UNCHANGED <<count, tick, devices, cpu, loop, stale>>

(* do_step asks for an adjustment after the first of its instructions,     *)
(* unless a breakpoint has ended it there.                                 *)
FirstStepped ==
  /\ loc = "test"
  /\ loop = "first"
  /\ loop' = "step"
  /\ loc' = "call"
  /\ sched' = [sched EXCEPT !["adjtime"] = 0]
  /\ UNCHANGED <<schedule_event, sched_display, steps, tick, devices, cpu, history>>

-----------------------------------------------------------------------------
(* debug updates the display before it prompts for a command.              *)
EnterDebug ==
  /\ loc = "debug"
  /\ loc' = "prompt"
  /\ display_touched' = 0
  /\ stale' = (stale /\ display_touched = 0)
  /\ UNCHANGED <<count, tick, device_check, t1_touched, t2_touched, cpu, loop,
                 skipped>>

(* The step command.                                                       *)
DebugStep ==
  /\ loc = "prompt"
  /\ loop' = "first"
  /\ loc' = "run"
  /\ UNCHANGED <<count, tick, devices, cpu, history>>

(* emulate starts the timers' waits again, emulate_debug does not.         *)
Entered(l, s) ==
  [j \in Jobs |-> IF l = "emulate" /\ j \in Timers THEN tick[j] ELSE s[j]]

(* The continue command; debug asks for an adjustment last.                *)
Continue(l) ==
  /\ loc = "prompt"
  /\ loop' = l
  /\ loc' = "run"
  /\ sched' = Entered(l, [sched EXCEPT !["adjtime"] = 0])
  /\ UNCHANGED <<schedule_event, sched_display, steps, tick, devices, cpu, history>>

(* debug without a debugger ignores what it was called for.                *)
Ignore ==
  /\ loc = "debug"
  /\ loop = "emulate"
  /\ loc' = "run"
  /\ sched' = Entered("emulate", sched)
  /\ UNCHANGED <<schedule_event, sched_display, steps, tick, devices, cpu,
                 loop, history>>

Instruction ==
  \/ PlainInstruction \/ Trap \/ Shutdn \/ Rti
  \/ \E t1, t2, display \in BOOLEAN : DeviceAccess(t1, t2, display)

Loop ==
  \/ \E before, during, inService \in BOOLEAN :
       CallSchedule(before, during, inService)
  \/ CountDown \/ BreakpointHit \/ FirstStepped \/ Ignore

Debugger ==
  \/ EnterDebug \/ DebugStep
  \/ \E l \in {"emulate", "emulate_debug"} : Continue(l)

Next == Instruction \/ Sleep \/ Loop \/ Debugger

Spec == Init /\ [][Next]_vars

-----------------------------------------------------------------------------
(* No job but the timers' ever waits longer than its period: schedule is   *)
(* called on the very instruction the first of them falls due, whatever    *)
(* the accesses, RTIs and sleeps between two calls, apart from             *)
(* instructions that breakpoints and a negative count hid from the count.  *)
JobsOnTime ==
  loc = "run" =>
    \A j \in Steady : sched[j] = 0 \/ steps - skipped < sched[j]

(* A change of the display that waits to be shown is given up: nothing     *)
(* will show it before the next store to the display, sleep or debugger.   *)
Forgotten == stale' /\ display_touched > 0 /\ display_touched' = 0

(* A change is forgotten in one way only, by schedule's arithmetic: the    *)
(* last call left it a wait of no instruction (a second store came on the  *)
(* very instruction an update was due on, or a TRAP that is not counted    *)
(* made the call too early), so that the next call, one instruction later, *)
(* subtracts its last 1 and leaves check_devices nothing to show.  No      *)
(* other order of stores, accesses, traps, sleeps, steps and RTIs loses    *)
(* one, unless breakpoints or a negative count have hidden instructions    *)
(* from the countdown (emulate.c 2256-2270, device.c 67).                  *)
ForgottenOnlyWhenDueAtOnce ==
  [][ Forgotten
        => \/ skipped > 0
           \/ sched_display = 0 /\ steps = 1 /\ display_touched = 1 ]_vars

(* emulate.c takes a negative count for a bug in the test of its loop.     *)
CountNotNegative == loop = "emulate" /\ loc = "test" => schedule_event >= 0

=============================================================================
