---------------------------- MODULE Clock_proofs ----------------------------
(***************************************************************************)
(* Proofs about module Clock, for words and half minutes of any size and   *)
(* every program and course of time: the clock is moved by nobody but the  *)
(* user and a timer counted down ahead of real time, and TIMER2 only       *)
(* counts down.                                                            *)
(***************************************************************************)
EXTENDS Clock, TLAPS

Bits == {"run", "int", "wake", "due"}

ClockTypes ==
  /\ timer2 \in Int /\ access_time \in Int
  /\ t2_ctrl \in SUBSET Bits
  /\ adj_time_pending \in BOOLEAN /\ inService \in BOOLEAN
  /\ loc \in {"run", "asleep", "debug", "after", "stepped", "aborted"}
  /\ disturbed \in SUBSET {"set", "stopped", "suspended"}
  /\ moved \in BOOLEAN

(* While nothing has parted them, TIMER2 is at most half a minute behind   *)
(* ACCESSTIME, except in a stay in the debugger or a service that has put  *)
(* off the adjustment, with the timer running.                             *)
InTouch ==
  \/ "run" \notin t2_ctrl
  \/ ~adj_time_pending /\ loc \notin {"debug", "stepped", "aborted"}
NotBehind == disturbed = {} /\ InTouch => timer2 - access_time <= HalfMinute

ClockInv == ClockTypes /\ NotBehind

-----------------------------------------------------------------------------
LEMMA Sizes ==
  /\ Word \in Nat /\ Word > 0 /\ HalfMinute \in Nat /\ HalfMinute < Word \div 2
  /\ \A i \in 0 .. Nibbles : Weight[i] \in Nat /\ Weight[i] > 0
  /\ Nibbles \in Nat
BY ClockAssumption DEF ClockAssumption, Word

(* Two numbers at most half a minute apart are never taken for a setting.  *)
LEMMA CloseIsNoSetting ==
  ASSUME timer2 \in Int, access_time \in Int,
         access_time - timer2 <= HalfMinute, timer2 - access_time <= HalfMinute
  PROVE  TakenForSetting = {FALSE}
<1> DEFINE t == access_time - timer2
           h == Word \div 2
<1>1. /\ t \in Int /\ -HalfMinute <= t /\ t <= HalfMinute
      /\ h \in Nat /\ HalfMinute < h /\ h + h <= Word /\ Word \in Nat /\ Word > 0
  BY Sizes
<1>2. AsInt(t) = ((t + h) % Word) - h
  BY DEF AsInt
<1> HIDE DEF t, h
<1>3. t + h \in 0 .. Word - 1
  BY <1>1, Sizes
<1>4. AsInt(t) = t
  BY <1>1, <1>2, <1>3
<1>5. t # -h /\ ~((IF t < 0 THEN -t ELSE t) > HalfMinute)
  BY <1>1, Sizes
<1>6. TakenForSetting = IF AsInt(t) = -h THEN BOOLEAN
                        ELSE {(IF AsInt(t) < 0 THEN -AsInt(t) ELSE AsInt(t)) > HalfMinute}
  BY DEF TakenForSetting, t, h
<1>7. TakenForSetting = {(IF t < 0 THEN -t ELSE t) > HalfMinute}
  BY <1>4, <1>5, <1>6
<1>8. ((IF t < 0 THEN -t ELSE t) > HalfMinute) = FALSE
  BY <1>5
<1> QED BY <1>7, <1>8

(* The tick count returned is one of the two, and the timer's own only     *)
(* when that has already been counted down to the access time.             *)
LEMMA TicksFacts ==
  ASSUME timer2 \in Int, NEW a \in Int
  PROVE  /\ T2Ticks(a) \in {a, timer2}
         /\ T2Ticks(a) # a => timer2 <= a
         /\ T2Ticks(a) > timer2 => timer2 < 0 /\ a >= 0
BY DEF T2Ticks, GreaterUnsigned

-----------------------------------------------------------------------------
LEMMA ClockInit == Init => ClockInv
<1> SUFFICES ASSUME Init PROVE ClockInv
  OBVIOUS
<1>1. timer2 \in Int /\ access_time = timer2 /\ Word \div 2 - 1 \in Int
  BY Sizes DEF Init
<1>2. ClockTypes
  BY <1>1 DEF Init, ClockTypes
<1>3. timer2 - access_time <= HalfMinute
  BY <1>1, Sizes
<1> QED BY <1>2, <1>3 DEF ClockInv, NotBehind

(* The comparison keeps the two in touch, and moves the offset only when   *)
(* something has parted them or TIMER2 is ahead.                           *)
LEMMA CompareKeeps ==
  ASSUME ClockInv, NEW debugging \in BOOLEAN, Compare(debugging),
         ~debugging => loc \notin {"debug", "stepped", "aborted"}
  PROVE  /\ timer2' \in Int /\ access_time' \in Int /\ moved' \in BOOLEAN
         /\ disturbed' \in SUBSET {"set", "stopped", "suspended"}
         /\ disturbed' = {} /\ ("run" \notin t2_ctrl => InTouch)
              => timer2' - access_time' <= HalfMinute
         /\ moved' => disturbed # {} \/ access_time - timer2 > HalfMinute
         /\ timer2' > timer2 => timer2 < 0 /\ access_time >= 0
<1>1. /\ timer2 \in Int /\ access_time \in Int /\ t2_ctrl \in SUBSET Bits
      /\ disturbed \in SUBSET {"set", "stopped", "suspended"}
      /\ adj_time_pending \in BOOLEAN /\ HalfMinute \in Nat
  BY Sizes DEF ClockInv, ClockTypes
<1>2. PICK setting \in IF MayBeUser(debugging) THEN TakenForSetting ELSE {FALSE} :
        LET a == IF setting THEN timer2 ELSE access_time IN
        /\ access_time' = a
        /\ timer2' = IF "run" \in t2_ctrl THEN T2Ticks(a) ELSE timer2
        /\ moved' = (setting /\ a # access_time)
        /\ disturbed' = IF access_time' - timer2' \in -HalfMinute .. HalfMinute
                        THEN {} ELSE disturbed
  BY DEF Compare
<1> DEFINE a == IF setting THEN timer2 ELSE access_time
<1>3. /\ access_time' = a
      /\ timer2' = IF "run" \in t2_ctrl THEN T2Ticks(a) ELSE timer2
      /\ moved' = (setting /\ a # access_time)
      /\ disturbed' = IF access_time' - timer2' \in -HalfMinute .. HalfMinute
                      THEN {} ELSE disturbed
  BY <1>2
<1>4. a \in Int /\ a \in {timer2, access_time}
  BY <1>1
<1>5. /\ T2Ticks(a) \in {a, timer2}
      /\ T2Ticks(a) # a => timer2 <= a
      /\ T2Ticks(a) > timer2 => timer2 < 0 /\ a >= 0
  BY <1>1, <1>4, TicksFacts
<1>6. timer2' \in Int /\ access_time' \in Int
  BY <1>1, <1>3, <1>4, <1>5
<1>7. moved' \in BOOLEAN /\ disturbed' \in SUBSET {"set", "stopped", "suspended"}
  BY <1>1, <1>3
<1>8. disturbed' = {} => \/ access_time' - timer2' \in -HalfMinute .. HalfMinute
                         \/ disturbed = {}
  BY <1>3
<1>9. ASSUME disturbed' = {}, "run" \notin t2_ctrl => InTouch
       PROVE  timer2' - access_time' <= HalfMinute
  <2>1. CASE access_time' - timer2' \in -HalfMinute .. HalfMinute
    <3>1. PICK x \in Int, y \in Int : timer2' = x /\ access_time' = y
      BY <1>6
    <3> QED BY <1>1, <2>1, <3>1
  <2>2. CASE disturbed = {} /\ "run" \notin t2_ctrl
    <3>1. timer2 - access_time <= HalfMinute
      BY <1>9, <2>2 DEF ClockInv, NotBehind
    <3> HIDE DEF a
    <3> QED BY <1>1, <1>3, <1>4, <2>2, <3>1
  <2>3. CASE "run" \in t2_ctrl
    <3> HIDE DEF a
    <3> QED BY <1>1, <1>3, <1>4, <1>5, <2>3
  <2> QED BY <1>8, <1>9, <2>1, <2>2, <2>3
<1>10. ASSUME setting, disturbed = {}, ~(access_time - timer2 > HalfMinute)
       PROVE  FALSE
  <2>1. MayBeUser(debugging) /\ setting \in TakenForSetting
    BY <1>10
  <2>2. InTouch
    BY <2>1 DEF MayBeUser, InTouch
  <2>3. access_time - timer2 <= HalfMinute /\ timer2 - access_time <= HalfMinute
    BY <1>1, <1>10, <2>2 DEF ClockInv, NotBehind
  <2>4. TakenForSetting = {FALSE}
    BY <1>1, <2>3, CloseIsNoSetting
  <2> QED BY <1>10, <2>1, <2>4
<1>11. moved' => disturbed # {} \/ access_time - timer2 > HalfMinute
  BY <1>3, <1>10
<1>12. timer2' > timer2 => timer2 < 0 /\ access_time >= 0
  <2> HIDE DEF a
  <2> QED BY <1>1, <1>3, <1>4, <1>5
<1> QED BY <1>6, <1>7, <1>9, <1>11, <1>12

LEMMA ClockStep == ClockInv /\ [Next]_vars => ClockInv'
<1> SUFFICES ASSUME ClockInv, [Next]_vars PROVE ClockInv'
  OBVIOUS
<1> USE DEF ClockTypes, Executed, Finished
<1>1. CASE PlainInstruction \/ Shutdn
  BY <1>1 DEF PlainInstruction, Shutdn, ClockInv, NotBehind, InTouch
<1>2. ASSUME NEW v \in Stored, NEW i \in 0 .. Nibbles - 1, NEW j \in 0 .. Nibbles - 1,
             i <= j, StoreTimer2(v, i, j)
      PROVE  ClockInv'
  <2> DEFINE Covered(t) == ((t \div Weight[i]) % Weight[j - i + 1]) * Weight[i]
             stored == timer2 - Covered(timer2) + Covered(v)
  <2>1. timer2' = IF j = Nibbles - 1 /\ v >= Word \div 2 THEN (stored % Word) - Word
                                                          ELSE stored
    BY <1>2 DEF StoreTimer2
  <2>2. Weight[i] \in Nat /\ Weight[i] > 0 /\ Weight[j - i + 1] \in Nat /\ Weight[j - i + 1] > 0
    BY <1>2, Sizes
  <2>3. \A t \in Int : Covered(t) \in Int
    BY <2>2
  <2>4. timer2 \in Int /\ v \in Int
    BY ClockAssumption DEF ClockAssumption, ClockInv
  <2> HIDE DEF Covered
  <2>5. stored \in Int
    BY <2>3, <2>4
  <2> HIDE DEF stored
  <2>6. timer2' \in Int
    BY <2>1, <2>5, Sizes
  <2> QED BY <1>2, <2>6 DEF StoreTimer2, ClockInv, NotBehind
<1>3. ASSUME NEW by \in Settings, StoreAccessTime(by)
      PROVE  ClockInv'
  <2>1. by \in Int
    BY ClockAssumption DEF ClockAssumption
  <2>2. access_time' = access_time + by /\ disturbed' = disturbed \cup {"set"} /\ timer2' = timer2
    BY <1>3 DEF StoreAccessTime
  <2>3. access_time' \in Int
    BY <2>1, <2>2 DEF ClockInv
  <2>4. ClockTypes'
    BY <1>3, <2>2, <2>3 DEF StoreAccessTime, ClockInv
  <2>5. disturbed' # {}
    BY <2>2
  <2> QED BY <2>4, <2>5 DEF ClockInv, NotBehind
<1>4. ASSUME NEW bits \in Controls, StoreControl(bits)
      PROVE  ClockInv'
  <2>1. bits \in SUBSET Bits
    BY ClockAssumption DEF ClockAssumption, Bits
  <2> QED BY <1>4, <2>1 DEF StoreControl, ClockInv, NotBehind, InTouch
<1>5. CASE CountDown
  <2>1. /\ timer2' = Counted /\ access_time' = access_time /\ disturbed' = disturbed
        /\ loc' = loc /\ adj_time_pending' = adj_time_pending /\ moved' = FALSE
    BY <1>5 DEF CountDown
  <2>2. t2_ctrl' \in {t2_ctrl, t2_ctrl \cup {"due"}} /\ inService' \in BOOLEAN
    BY <1>5 DEF CountDown, Announce, ClockInv
  <2>3. Counted \in Int /\ Counted <= timer2
    BY DEF Counted, ClockInv
  <2>4. ClockTypes'
    BY <2>1, <2>2, <2>3 DEF ClockInv, Bits
  <2>5. NotBehind'
    BY <2>1, <2>2, <2>3, Sizes DEF ClockInv, NotBehind, InTouch
  <2> QED BY <2>4, <2>5 DEF ClockInv
<1>6. ASSUME NEW debugging \in BOOLEAN, Compare(debugging),
             ~debugging => loc \notin {"debug", "stepped", "aborted"},
             t2_ctrl' \in {t2_ctrl, t2_ctrl \cup {"due"}}, inService' \in BOOLEAN,
             adj_time_pending' \in BOOLEAN, InTouch' /\ "run" \notin t2_ctrl => InTouch,
             loc' \in {"run", "asleep", "debug", "after", "stepped"}
      PROVE  ClockInv'
  <2>1. /\ timer2' \in Int /\ access_time' \in Int /\ moved' \in BOOLEAN
        /\ disturbed' \in SUBSET {"set", "stopped", "suspended"}
        /\ disturbed' = {} /\ ("run" \notin t2_ctrl => InTouch)
             => timer2' - access_time' <= HalfMinute
    BY <1>6, CompareKeeps
  <2>2. ClockTypes'
    BY <1>6, <2>1 DEF ClockInv, Bits
  <2>3. NotBehind'
    BY <1>6, <2>1 DEF NotBehind
  <2> QED BY <2>1, <2>2, <2>3 DEF ClockInv
<1>7. ASSUME NEW asks \in BOOLEAN, Announce(asks)
      PROVE  t2_ctrl' \in {t2_ctrl, t2_ctrl \cup {"due"}} /\ inService' \in BOOLEAN
  BY <1>7 DEF Announce, ClockInv
<1>8. CASE Adjust
  <2>1. /\ Compare(loc = "stepped") /\ loc \in {"after", "stepped"}
        /\ loc' = IF loc = "stepped" THEN "debug" ELSE "run"
        /\ adj_time_pending' = FALSE
    BY <1>8 DEF Adjust
  <2>2. t2_ctrl' \in {t2_ctrl, t2_ctrl \cup {"due"}} /\ inService' \in BOOLEAN
    BY <1>7, <1>8 DEF Adjust
  <2> QED BY <1>6, <2>1, <2>2 DEF InTouch
<1>9. ASSUME NEW other \in BOOLEAN, AlarmPoll(other)
      PROVE  ClockInv'
  <2>1. /\ Compare(FALSE) /\ loc = "asleep" /\ loc' \in {"after", "asleep"}
        /\ adj_time_pending' = adj_time_pending
    BY <1>9 DEF AlarmPoll
  <2>2. t2_ctrl' \in {t2_ctrl, t2_ctrl \cup {"due"}} /\ inService' \in BOOLEAN
    BY <1>7, <1>9 DEF AlarmPoll
  <2>3. adj_time_pending' \in BOOLEAN
    BY <2>1 DEF ClockInv
  <2> QED BY <1>6, <2>1, <2>2, <2>3 DEF InTouch
<1>10. CASE PutOff \/ NextInstruction \/ Enter
  BY <1>10 DEF PutOff, NextInstruction, Enter, ClockInv, NotBehind, InTouch
<1>11. CASE Continue \/ Ignore
  <2>1. timer2' \in Int /\ ("run" \in t2_ctrl \/ timer2' = timer2)
    BY <1>11, TicksFacts DEF Continue, Ignore, ClockInv
  <2>2. \A t \in Int : t - t <= HalfMinute
    BY Sizes
  <2>3. /\ moved' = FALSE /\ loc = "debug" /\ UNCHANGED <<t2_ctrl, adj_time_pending, inService>>
        /\ \/ loc' = "aborted" /\ UNCHANGED <<access_time, disturbed>>
           \/ loc' = "run" /\ access_time' = timer2' /\ disturbed' = {}
    BY <1>11 DEF Continue, Ignore, SetAccessTime
  <2>4. CASE loc' = "run" /\ access_time' = timer2' /\ disturbed' = {}
    BY <2>1, <2>2, <2>3, <2>4 DEF ClockInv, NotBehind
  <2>5. CASE loc' = "aborted" /\ UNCHANGED <<access_time, disturbed>>
    <3>1. ClockTypes'
      BY <2>1, <2>3, <2>5 DEF ClockInv
    <3>2. InTouch' => InTouch /\ timer2' = timer2
      BY <2>1, <2>3, <2>5 DEF InTouch
    <3> QED BY <2>5, <3>1, <3>2 DEF ClockInv, NotBehind
  <2> QED BY <2>3, <2>4, <2>5
<1>12. ASSUME NEW d \in Elapsed, Tick(d) \/ Suspend(d)
       PROVE  ClockInv'
  <2>1. d \in Nat
    BY ClockAssumption DEF ClockAssumption
  <2>2. /\ access_time' = access_time - d /\ moved' = FALSE
        /\ UNCHANGED <<timer2, t2_ctrl, adj_time_pending, inService, loc>>
        /\ \/ Tick(d) /\ disturbed' = disturbed \cup (IF "run" \in t2_ctrl THEN {} ELSE {"stopped"})
           \/ disturbed' = disturbed \cup {"suspended"}
    BY <1>12 DEF Tick, Suspend, Pass
  <2>3. ClockTypes'
    <3>1. access_time' \in Int
      BY <2>1, <2>2 DEF ClockInv
    <3>2. disturbed' \in SUBSET {"set", "stopped", "suspended"}
      BY <2>2 DEF ClockInv
    <3> QED BY <2>2, <3>1, <3>2 DEF ClockInv
  <2>4. ASSUME disturbed' = {}, InTouch'
        PROVE  timer2' - access_time' <= HalfMinute
    <3>1. Tick(d) /\ disturbed = {} /\ "run" \in t2_ctrl
      BY <2>2, <2>4
    <3> QED BY <2>2, <2>4, <3>1 DEF Tick, MayPass, InTouch
  <2> QED BY <2>3, <2>4 DEF ClockInv, NotBehind
<1>13. CASE UNCHANGED vars
  BY <1>13 DEF vars, ClockInv, NotBehind, InTouch
<1> QED BY <1>1, <1>2, <1>3, <1>4, <1>5, <1>8, <1>9, <1>10, <1>11, <1>12, <1>13
        DEF Next, Instruction, Schedule, Debugger

LEMMA ClockInvariant == Spec => []ClockInv
BY ClockInit, ClockStep, PTL DEF Spec

-----------------------------------------------------------------------------
(* The steps that compare the two numbers: sched_adjtime of the loop or of *)
(* the first step in the debugger, and a turn of do_shutdown's loop.       *)
LEMMA Comparisons ==
  ASSUME ClockInv, Adjust \/ \E other \in BOOLEAN : AlarmPoll(other)
  PROVE  /\ moved' => disturbed # {} \/ access_time - timer2 > HalfMinute
         /\ timer2' > timer2 => timer2 < 0 /\ access_time >= 0
<1>1. CASE Adjust
  <2>1. Compare(loc = "stepped") /\ loc \in {"after", "stepped"}
    BY <1>1 DEF Adjust
  <2> QED BY <2>1, CompareKeeps
<1>2. CASE \E other \in BOOLEAN : AlarmPoll(other)
  <2>1. Compare(FALSE) /\ loc = "asleep"
    BY <1>2 DEF AlarmPoll
  <2> QED BY <2>1, CompareKeeps
<1> QED BY <1>1, <1>2

(* The clock is the user's: whatever program runs, however its instructions, *)
(* the countdown, the adjustments, sleeps and stays in the debugger follow   *)
(* each other and whatever time they take, get_t1_t2 moves time_offset only  *)
(* when the program has set one of the two numbers, the timer has stood      *)
(* still or the process has been suspended since they were last together, or *)
(* TIMER2 has been counted down more than half a minute ahead of real time:  *)
(* never because it is behind.                                               *)
THEOREM ClockIsTheUsers == Spec => TimeIsTheUsers
<1>1. ClockInv /\ [Next]_vars
        => [moved' => disturbed # {} \/ access_time - timer2 > HalfMinute]_vars
  <2> SUFFICES ASSUME ClockInv, Next
               PROVE  moved' => disturbed # {} \/ access_time - timer2 > HalfMinute
    OBVIOUS
  <2>1. CASE Adjust \/ \E other \in BOOLEAN : AlarmPoll(other)
    BY <2>1, Comparisons
  <2>2. CASE ~(Adjust \/ \E other \in BOOLEAN : AlarmPoll(other))
    <3>1. moved' = FALSE
      BY <2>2 DEF Next, Instruction, Schedule, Debugger, Executed, PlainInstruction, Shutdn,
                  StoreTimer2, StoreAccessTime, StoreControl, CountDown, PutOff,
                  NextInstruction, Enter, Continue, Ignore, SetAccessTime, Tick, Suspend, Pass
    <3> QED BY <3>1
  <2> QED BY <2>1, <2>2
<1> QED BY <1>1, ClockInvariant, PTL DEF Spec, TimeIsTheUsers

(* TIMER2 is raised by an instruction of the program and by nothing else,    *)
(* except that a timer below 0 is taken back to an access time that is not:  *)
(* neither the countdown nor get_t1_t2, from wherever it is called, ever     *)
(* increments it.                                                            *)
THEOREM Timer2IsNotIncremented == Spec => Timer2OnlyGoesDown
<1> DEFINE Executes == loc \in {"run", "debug"} /\ loc' \in {"after", "stepped"}
           Wrapped  == timer2 < 0 /\ access_time >= 0
<1>1. ClockInv /\ [Next]_vars => [timer2' > timer2 => Executes \/ Wrapped]_vars
  <2> SUFFICES ASSUME ClockInv, Next
               PROVE  timer2' > timer2 => Executes \/ Wrapped
    OBVIOUS
  <2>1. timer2 \in Int /\ access_time \in Int
    BY DEF ClockInv, ClockTypes
  <2>2. CASE Adjust \/ \E other \in BOOLEAN : AlarmPoll(other)
    BY <2>2, Comparisons
  <2>3. CASE \E v \in Stored, i, j \in 0 .. Nibbles - 1 : i <= j /\ StoreTimer2(v, i, j)
    BY <2>3 DEF StoreTimer2, Executed
  <2>4. CASE CountDown
    BY <2>1, <2>4 DEF CountDown, Counted
  <2>5. CASE Continue
    BY <2>1, <2>5, TicksFacts DEF Continue
  <2>6. CASE ~(\/ Adjust \/ CountDown \/ Continue
               \/ \E other \in BOOLEAN : AlarmPoll(other)
               \/ \E v \in Stored, i, j \in 0 .. Nibbles - 1 : i <= j /\ StoreTimer2(v, i, j))
    <3>1. timer2' = timer2
      BY <2>6 DEF Next, Instruction, Schedule, Debugger, PlainInstruction, Shutdn,
                  StoreAccessTime, StoreControl, PutOff,
                  NextInstruction, Enter, Ignore, Tick, Suspend, Pass
    <3> QED BY <2>1, <3>1
  <2> QED BY <2>2, <2>3, <2>4, <2>5, <2>6
<1> QED BY <1>1, ClockInvariant, PTL DEF Spec, Timer2OnlyGoesDown
=============================================================================
