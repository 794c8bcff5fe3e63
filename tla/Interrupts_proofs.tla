------------------------- MODULE Interrupts_proofs -------------------------
(***************************************************************************)
(* Proofs about Interrupts, for every return stack size, every set of      *)
(* program addresses and with or without a keyboard.                       *)
(***************************************************************************)
EXTENDS Interrupts, SequenceTheorems, TLAPS

(* What Push returns: the new address on top of the newest NR_RSTK - 1 of  *)
(* the old ones (push_return_addr).                                        *)
LEMMA PushFacts ==
  ASSUME NEW S, NEW stk \in Seq(S), Len(stk) <= NR_RSTK, NEW a \in S
  PROVE  /\ Push(stk, a) \in Seq(S) /\ Len(Push(stk, a)) <= NR_RSTK
         /\ Len(stk) < NR_RSTK => Len(Push(stk, a)) = Len(stk) + 1
         /\ Len(stk) = NR_RSTK => Len(Push(stk, a)) = NR_RSTK
         /\ Push(stk, a)[Len(Push(stk, a))] = a
         /\ \A i \in 1 .. Len(Push(stk, a)) - 1 :
              Push(stk, a)[i] = stk[i + (Len(stk) + 1 - Len(Push(stk, a)))]
<1>1. CASE Len(stk) < NR_RSTK
  BY <1>1, RstkAssumption DEF Push
<1>2. CASE Len(stk) = NR_RSTK
  <2>1. stk # <<>> /\ Len(stk) \in Nat \ {0}
    BY <1>2, RstkAssumption
  <2>2. /\ Tail(stk) \in Seq(S)
        /\ Len(Tail(stk)) = Len(stk) - 1
        /\ \A i \in 1 .. Len(stk) - 1 : Tail(stk)[i] = stk[i + 1]
    BY <2>1
  <2>3. Push(stk, a) = Append(Tail(stk), a)
    BY <1>2, RstkAssumption DEF Push
  <2> QED BY <1>2, <2>1, <2>2, <2>3
<1> QED BY <1>1, <1>2, RstkAssumption

(* What Pop leaves: the stack without its top (pop_return_addr).           *)
LEMMA PopFacts ==
  ASSUME NEW S, NEW stk \in Seq(S)
  PROVE  /\ Pop(stk) \in Seq(S)
         /\ stk = <<>> => Len(Pop(stk)) = 0
         /\ stk # <<>> => Len(stk) \in Nat \ {0} /\ Len(Pop(stk)) = Len(stk) - 1
         /\ \A i \in 1 .. Len(Pop(stk)) : Pop(stk)[i] = stk[i]
<1>1. CASE stk = <<>>
  BY <1>1 DEF Pop
<1>2. CASE stk # <<>>
  <2>1. Len(stk) \in Nat \ {0}
    BY <1>2
  <2>2. Pop(stk) = SubSeq(stk, 1, Len(stk) - 1)
    BY <1>2 DEF Pop
  <2>3. /\ SubSeq(stk, 1, Len(stk) - 1) \in Seq(S)
        /\ Len(SubSeq(stk, 1, Len(stk) - 1)) = Len(stk) - 1
        /\ \A i \in 1 .. Len(stk) - 1 : SubSeq(stk, 1, Len(stk) - 1)[i] = stk[i]
    <3>1. /\ SubSeq(stk, 1, Len(stk) - 1) \in Seq(S)
          /\ \A i \in 1 .. Len(stk) - 1 : SubSeq(stk, 1, Len(stk) - 1)[i] = stk[i]
      BY <2>1
    <3>2. Len(SubSeq(stk, 1, Len(stk) - 1)) = Len(stk) - 1
      <4> DEFINE m == Len(stk) - 1
      <4>1. m \in Nat /\ 1 \in Int /\ \A i \in 1 .. m : stk[i] \in S
        BY <2>1
      <4> HIDE DEF m
      <4>2. Len(SubSeq(stk, 1, m)) = IF 1 <= m THEN m - 1 + 1 ELSE 0
        BY <4>1, SubSeqProperties
      <4>3. Len(SubSeq(stk, 1, m)) = m
        BY <4>1, <4>2
      <4> QED BY <4>3 DEF m
    <3> QED BY <3>1, <3>2
  <2> QED BY <1>2, <2>1, <2>2, <2>3
<1> QED BY <1>1, <1>2

(* The result of a pop is a program address.                               *)
LEMMA TopInCode ==
  ASSUME NEW stk \in Seq(Code)
  PROVE  Top(stk) \in Code
<1>1. CASE stk = <<>>
  BY <1>1, CodeAssumption DEF Top
<1>2. CASE stk # <<>>
  BY <1>2 DEF Top
<1> QED BY <1>1, <1>2

-----------------------------------------------------------------------------
(* What a step does to the frames: it pushes one, pops one, or leaves them *)
(* alone.                                                                  *)
LEMMA FrameCases ==
  ASSUME TypeOK, [Next]_vars
  PROVE  \/ \E kind \in {"call", "int"}, addr \in Code : PushFrame(kind, addr)
         \/ PopFrame
         \/ NoFrame
<1> USE DEF TypeOK
<1>1. CASE Step
  <2>1. CASE \E next \in Code : Jump(next) \/ Shutdn(next) \/ Trap(next)
    BY <2>1 DEF Jump, Shutdn, Trap, NoFrame, history
  <2>2. CASE \E next \in Code : CEqRstk(next)
    BY <2>2 DEF CEqRstk
  <2>3. CASE \E next \in Code : Rsi(next)
    BY <2>3 DEF Rsi, DoKbdInt, TakeInterrupt
  <2>4. CASE \E next \in Code : StoreCardControl(next)
    BY <2>4 DEF StoreCardControl, DoInterupt, TakeInterrupt
  <2>5. CASE \E next \in Code : \E ret \in Code : Gosub(ret, next)
    BY <2>5 DEF Gosub
  <2>6. CASE \E next \in Code : \E addr \in Code : RstkEqC(addr, next)
    BY <2>6 DEF RstkEqC
  <2>7. CASE \E next \in Code : \E zero \in BOOLEAN : Out(zero, next)
    BY <2>7 DEF Out, NoFrame, history
  <2>8. CASE Rtn \/ RtiPending \/ RtiReturn \/ Illegal
    BY <2>8 DEF Rtn, RtiPending, RtiReturn, Illegal, NoFrame, cpu, history
  <2> QED BY <1>1, <2>1, <2>2, <2>3, <2>4, <2>5, <2>6, <2>7, <2>8 DEF Step
<1>2. CASE Loop
  <2>1. CASE GoToSleep
    BY <2>1 DEF GoToSleep, NoFrame
  <2>2. CASE \E key \in Presses, dev \in BOOLEAN, ctrl \in BOOLEAN :
               AlarmPoll(key, dev, ctrl)
    BY <2>2 DEF AlarmPoll, DoKbdInt, DoInterupt, TakeInterrupt
  <2>3. CASE \E key \in Presses, dev \in BOOLEAN : Schedule(key, dev)
    BY <2>3 DEF Schedule, TakeInterrupt
  <2>4. CASE BreakpointHit
    BY <2>4 DEF BreakpointHit, NoFrame, cpu, history
  <2>5. CASE \E reset \in BOOLEAN : Debug(reset)
    BY <2>5 DEF Debug, NoFrame, history
  <2> QED BY <1>2, <2>1, <2>2, <2>3, <2>4, <2>5 DEF Loop
<1>3. CASE SigInt
  BY <1>3 DEF SigInt, NoFrame, cpu, history
<1>4. CASE UNCHANGED vars
  BY <1>4 DEF vars, NoFrame
<1> QED BY <1>1, <1>2, <1>3, <1>4 DEF Next

(* The frames keep their types.                                            *)
LEMMA FramesTyped ==
  ASSUME TypeOK, [Next]_vars
  PROVE  /\ rstk' \in Seq(Code) /\ Len(rstk') <= NR_RSTK
         /\ calls' \in Seq(Frame)
         /\ overflowed' \in BOOLEAN
<1> USE RstkAssumption
<1>0. /\ rstk \in Seq(Code) /\ Len(rstk) <= NR_RSTK
      /\ calls \in Seq(Frame) /\ overflowed \in BOOLEAN
  BY DEF TypeOK
<1>1. ASSUME NEW kind \in {"call", "int"}, NEW addr \in Code, PushFrame(kind, addr)
      PROVE  /\ rstk' \in Seq(Code) /\ Len(rstk') <= NR_RSTK
             /\ calls' \in Seq(Frame)
             /\ overflowed' \in BOOLEAN
  <2>1. [kind |-> kind, ret |-> addr] \in Frame
    BY DEF Frame
  <2>2. calls' \in Seq(Frame)
    BY <1>0, <1>1, <2>1 DEF PushFrame
  <2>3. rstk' \in Seq(Code) /\ Len(rstk') <= NR_RSTK
    <3>1. /\ Push(rstk, addr) \in Seq(Code)
          /\ Len(Push(rstk, addr)) <= NR_RSTK
      BY <1>0, PushFacts
    <3> QED BY <1>1, <3>1 DEF PushFrame
  <2>4. overflowed' \in BOOLEAN
    BY <1>0, <1>1 DEF PushFrame
  <2> QED BY <2>2, <2>3, <2>4
<1>2. CASE PopFrame
  <2>1. rstk' \in Seq(Code) /\ Len(rstk') <= NR_RSTK
    BY <1>0, <1>2, PopFacts DEF PopFrame
  <2>2. calls' \in Seq(Frame)
    BY <1>0, <1>2, PopFacts DEF PopFrame
  <2> QED BY <1>0, <1>2, <2>1, <2>2 DEF PopFrame
<1>3. CASE NoFrame
  BY <1>0, <1>3 DEF NoFrame
<1> QED BY <1>1, <1>2, <1>3, FrameCases

(* Every step keeps the types of the variables (Interrupts!TypeOK).        *)
LEMMA TypeStep ==
  ASSUME TypeOK, [Next]_vars
  PROVE  TypeOK'
<1> DEFINE Rest == /\ PC' \in Code
                   /\ intenable' \in BOOLEAN
                   /\ int_pending' \in BOOLEAN
                   /\ shutdown' \in BOOLEAN
                   /\ outZero' \in BOOLEAN
                   /\ rows' \in BOOLEAN
                   /\ enter_debugger' \subseteq {"illegal", "other"}
                   /\ exec_flags' \in BOOLEAN
                   /\ loc' \in {"step", "after", "asleep", "debug"}
                   /\ popped' \in {<<>>} \cup {<<a>> : a \in Code}
                   /\ disciplined' \in BOOLEAN
<1> SUFFICES Rest
  BY FramesTyped DEF TypeOK
<1>0. Presses \subseteq BOOLEAN /\ TopIsInt \in BOOLEAN /\ Top(rstk) \in Code
  BY TopInCode DEF Presses, TypeOK, TopIsInt
<1>1. CASE Step
  <2> USE <1>0, CodeAssumption DEF TypeOK, Instruction, InstructionTaking
  <2>1. CASE \E next \in Code : Jump(next) \/ Shutdn(next) \/ Trap(next)
    BY <2>1 DEF Jump, Shutdn, Trap, history
  <2>2. CASE \E next \in Code : CEqRstk(next)
    BY <2>2 DEF CEqRstk
  <2>3. CASE \E next \in Code : Rsi(next)
    BY <2>3 DEF Rsi, DoKbdInt, TakeInterrupt
  <2>4. CASE \E next \in Code : StoreCardControl(next)
    BY <2>4 DEF StoreCardControl, DoInterupt, TakeInterrupt
  <2>5. CASE \E next \in Code : \E ret \in Code : Gosub(ret, next)
    BY <2>5 DEF Gosub
  <2>6. CASE \E next \in Code : \E addr \in Code : RstkEqC(addr, next)
    BY <2>6 DEF RstkEqC
  <2>7. CASE \E next \in Code : \E zero \in BOOLEAN : Out(zero, next)
    BY <2>7 DEF Out, history
  <2>8. CASE Rtn \/ RtiPending
    BY <2>8 DEF Rtn, RtiPending
  <2>9. CASE RtiReturn \/ Illegal
    BY <2>9 DEF RtiReturn, Illegal, cpu, history
  <2> QED BY <1>1, <2>1, <2>2, <2>3, <2>4, <2>5, <2>6, <2>7, <2>8, <2>9 DEF Step
<1>2. CASE Loop
  <2> USE <1>0, CodeAssumption DEF TypeOK
  <2>1. CASE GoToSleep
    BY <2>1 DEF GoToSleep
  <2>2. CASE \E key \in Presses, dev \in BOOLEAN, ctrl \in BOOLEAN :
               AlarmPoll(key, dev, ctrl)
    BY <2>2 DEF AlarmPoll, DoKbdInt, DoInterupt, TakeInterrupt
  <2>3. CASE \E key \in Presses, dev \in BOOLEAN : Schedule(key, dev)
    BY <2>3 DEF Schedule, TakeInterrupt
  <2>4. CASE BreakpointHit
    BY <2>4 DEF BreakpointHit, cpu, history
  <2>5. CASE \E reset \in BOOLEAN : Debug(reset)
    BY <2>5 DEF Debug, history
  <2> QED BY <1>2, <2>1, <2>2, <2>3, <2>4, <2>5 DEF Loop
<1>3. CASE SigInt
  BY <1>3 DEF SigInt, cpu, history, TypeOK
<1>4. CASE UNCHANGED vars
  BY <1>4 DEF vars, TypeOK
<1> QED BY <1>1, <1>2, <1>3, <1>4 DEF Next

LEMMA TypeInit ==
  ASSUME Init
  PROVE  TypeOK
<1> USE RstkAssumption, CodeAssumption
<1>1. ASSUME ColdStart PROVE rstk \in Seq(Code) /\ Len(rstk) <= NR_RSTK /\ calls \in Seq(Frame)
  BY <1>1 DEF ColdStart
<1>2. ASSUME ZeroedStart PROVE rstk \in Seq(Code) /\ Len(rstk) <= NR_RSTK /\ calls \in Seq(Frame)
  <2>1. [kind |-> "int", ret |-> 0] \in Frame
    BY DEF Frame
  <2> QED BY <1>2, <2>1 DEF ZeroedStart
<1>3. intenable \in BOOLEAN
  BY DEF Init, ColdStart, ZeroedStart
<1> QED BY <1>1, <1>2, <1>3 DEF Init, TypeOK

(* Every variable keeps its type and the return stack never outgrows its   *)
(* slots, whatever the ROM executes.                                       *)
THEOREM TypeCorrect == Spec => []TypeOK
<1>1. Init => TypeOK
  BY TypeInit
<1>2. TypeOK /\ [Next]_vars => TypeOK'
  BY TypeStep
<1> QED BY <1>1, <1>2, PTL DEF Spec

-----------------------------------------------------------------------------
(* One step keeps the return stack equal to the newest frames.             *)
LEMMA StackStep ==
  ASSUME TypeOK, StackHoldsNewestCalls, [Next]_vars
  PROVE  StackHoldsNewestCalls'
<1> USE RstkAssumption
<1>0. /\ rstk \in Seq(Code) /\ Len(rstk) \in Nat /\ Len(rstk) <= NR_RSTK
      /\ calls \in Seq(Frame) /\ Len(calls) \in Nat
      /\ overflowed \in BOOLEAN
  BY DEF TypeOK
<1>1. ASSUME NEW kind \in {"call", "int"}, NEW addr \in Code, PushFrame(kind, addr)
      PROVE  StackHoldsNewestCalls'
  <2> DEFINE fr == [kind |-> kind, ret |-> addr]
  <2>1. fr \in Frame /\ fr.ret = addr
    BY DEF Frame
  <2>2. /\ calls' = Append(calls, fr) /\ rstk' = Push(rstk, addr)
        /\ overflowed' = (overflowed \/ Len(rstk) = NR_RSTK)
    BY <1>1 DEF PushFrame
  <2> HIDE DEF fr
  <2>3. /\ Len(calls') = Len(calls) + 1
        /\ calls'[Len(calls) + 1] = fr
        /\ \A i \in 1 .. Len(calls) : calls'[i] = calls[i]
    BY <1>0, <2>1, <2>2
  <2>4. /\ rstk' \in Seq(Code)
        /\ Len(rstk) < NR_RSTK => Len(rstk') = Len(rstk) + 1
        /\ Len(rstk) = NR_RSTK => Len(rstk') = NR_RSTK
        /\ rstk'[Len(rstk')] = addr
        /\ \A i \in 1 .. Len(rstk') - 1 : rstk'[i] = rstk[i + (Len(rstk) + 1 - Len(rstk'))]
    <3> DEFINE p == Push(rstk, addr)
    <3>1. /\ p \in Seq(Code)
          /\ Len(rstk) < NR_RSTK => Len(p) = Len(rstk) + 1
          /\ Len(rstk) = NR_RSTK => Len(p) = NR_RSTK
          /\ p[Len(p)] = addr
          /\ \A i \in 1 .. Len(p) - 1 : p[i] = rstk[i + (Len(rstk) + 1 - Len(p))]
      BY <1>0, PushFacts
    <3>2. rstk' = p
      BY <2>2
    <3> HIDE DEF p
    <3> QED BY <3>1, <3>2
  <2>5. Len(rstk') \in Nat \ {0} /\ Len(rstk') <= Len(rstk) + 1
    BY <1>0, <2>4
  <2>6. Len(rstk') <= Len(calls')
    BY <1>0, <2>3, <2>5 DEF StackHoldsNewestCalls
  <2>7. ASSUME NEW i \in 1 .. Len(rstk')
        PROVE  rstk'[i] = calls'[i + (Len(calls') - Len(rstk'))].ret
    <3>1. CASE i = Len(rstk')
      BY <1>0, <2>1, <2>3, <2>4, <2>5, <3>1
    <3>2. CASE i # Len(rstk')
      <4> DEFINE j == i + (Len(rstk) + 1 - Len(rstk'))
      <4>1. i \in 1 .. Len(rstk') - 1 /\ j \in 1 .. Len(rstk)
        BY <1>0, <2>4, <2>5, <3>2
      <4>2. rstk'[i] = rstk[j]
        BY <2>4, <4>1
      <4>3. rstk[j] = calls[j + (Len(calls) - Len(rstk))].ret
        BY <4>1 DEF StackHoldsNewestCalls
      <4>4. /\ j + (Len(calls) - Len(rstk)) = i + (Len(calls') - Len(rstk'))
            /\ j + (Len(calls) - Len(rstk)) \in 1 .. Len(calls)
        BY <1>0, <2>3, <2>5, <4>1 DEF StackHoldsNewestCalls
      <4> QED BY <2>3, <4>2, <4>3, <4>4
    <3> QED BY <3>1, <3>2
  <2>8. ~overflowed' => Len(rstk') = Len(calls')
    <3> SUFFICES ASSUME ~overflowed' PROVE Len(rstk') = Len(calls')
      OBVIOUS
    <3>1. ~overflowed /\ Len(rstk) # NR_RSTK
      BY <2>2
    <3>2. Len(rstk) = Len(calls)
      BY <3>1 DEF StackHoldsNewestCalls
    <3> QED BY <1>0, <2>3, <2>4, <3>1, <3>2
  <2> QED BY <2>6, <2>7, <2>8 DEF StackHoldsNewestCalls
<1>2. CASE PopFrame
  <2>1. rstk' = Pop(rstk) /\ calls' = Pop(calls) /\ overflowed' = overflowed
    BY <1>2 DEF PopFrame
  <2>2. /\ rstk = <<>> => Len(rstk') = 0
        /\ rstk # <<>> => Len(rstk') = Len(rstk) - 1 /\ Len(rstk) > 0
        /\ \A i \in 1 .. Len(rstk') : rstk'[i] = rstk[i]
        /\ rstk' \in Seq(Code)
    BY <1>0, <2>1, PopFacts
  <2>3. /\ calls = <<>> => Len(calls') = 0
        /\ calls # <<>> => Len(calls') = Len(calls) - 1 /\ Len(calls) > 0
        /\ \A i \in 1 .. Len(calls') : calls'[i] = calls[i]
        /\ calls' \in Seq(Frame)
    BY <1>0, <2>1, PopFacts
  <2>4. /\ rstk = <<>> <=> Len(rstk) = 0
        /\ calls = <<>> <=> Len(calls) = 0
    BY <1>0
  <2>5. Len(rstk') \in Nat /\ Len(calls') \in Nat
    BY <2>2, <2>3
  <2>6. Len(rstk') <= Len(calls')
    BY <1>0, <2>2, <2>3, <2>4 DEF StackHoldsNewestCalls
  <2>7. ASSUME NEW i \in 1 .. Len(rstk')
        PROVE  rstk'[i] = calls'[i + (Len(calls') - Len(rstk'))].ret
    <3>1. rstk # <<>> /\ calls # <<>>
      BY <1>0, <2>2, <2>4, <2>5 DEF StackHoldsNewestCalls
    <3>2. /\ i \in 1 .. Len(rstk)
          /\ Len(calls') - Len(rstk') = Len(calls) - Len(rstk)
          /\ i + (Len(calls') - Len(rstk')) \in 1 .. Len(calls')
      <4>1. Len(rstk') = Len(rstk) - 1 /\ Len(calls') = Len(calls) - 1
        BY <2>2, <2>3, <3>1
      <4>2. /\ Len(rstk) \in Nat /\ Len(calls) \in Nat /\ Len(rstk) <= Len(calls)
            /\ i \in 1 .. Len(rstk) - 1
        BY <1>0, <4>1 DEF StackHoldsNewestCalls
      <4> QED BY <4>1, <4>2
    <3>3. rstk[i] = calls[i + (Len(calls) - Len(rstk))].ret
      BY <3>2 DEF StackHoldsNewestCalls
    <3> QED BY <2>2, <2>3, <3>2, <3>3
  <2>8. ~overflowed' => Len(rstk') = Len(calls')
    BY <1>0, <2>1, <2>2, <2>3, <2>4 DEF StackHoldsNewestCalls
  <2> QED BY <2>6, <2>7, <2>8 DEF StackHoldsNewestCalls
<1>3. CASE NoFrame
  BY <1>3 DEF NoFrame, StackHoldsNewestCalls
<1> QED BY <1>1, <1>2, <1>3, FrameCases

LEMMA StackInit ==
  ASSUME Init
  PROVE  StackHoldsNewestCalls
BY DEF Init, ColdStart, ZeroedStart, StackHoldsNewestCalls

(* The return stack always holds exactly the newest calls not yet returned *)
(* from, for every stack size and every program: an interrupt between two  *)
(* instructions, a chained service and an overflow included.               *)
THEOREM StackIsCorrect == Spec => []StackHoldsNewestCalls
<1>1. Init => StackHoldsNewestCalls
  BY StackInit
<1>2. TypeOK /\ StackHoldsNewestCalls /\ [Next]_vars => StackHoldsNewestCalls'
  BY StackStep
<1> QED BY <1>1, <1>2, TypeCorrect, PTL DEF Spec

-----------------------------------------------------------------------------
(* What a step does to the mask together with the frames and the history   *)
(* of the ROM's discipline.                                                *)
Interrupting == \E pc \in Code : intenable /\ TakeInterrupt(pc) /\ UNCHANGED disciplined
Calling == /\ \E addr \in Code : PushFrame("call", addr)
           /\ UNCHANGED <<intenable, disciplined>>
Returning == /\ PopFrame
             /\ UNCHANGED intenable
             /\ disciplined' = (disciplined /\ ~TopIsInt)
EndingService == /\ PopFrame
                 /\ PC' = Top(rstk)
                 /\ intenable' = TRUE
                 /\ disciplined' = (disciplined /\ TopIsInt)
ChainingService == /\ NoFrame
                   /\ int_pending
                   /\ intenable' = FALSE
                   /\ UNCHANGED disciplined
FallingAsleep == /\ NoFrame
                 /\ intenable' = (intenable \/ outZero)
                 /\ disciplined' = (disciplined /\ (outZero => intenable))
LeavingMask == NoFrame /\ UNCHANGED <<intenable, disciplined>>

LEMMA MaskCases ==
  ASSUME TypeOK, [Next]_vars
  PROVE  \/ Interrupting \/ Calling \/ Returning \/ EndingService
         \/ ChainingService \/ FallingAsleep \/ LeavingMask
<1>0. PC \in Code
  BY DEF TypeOK
<1>1. CASE Step
  <2>1. CASE \E next \in Code : Jump(next) \/ Shutdn(next) \/ Trap(next)
    BY <2>1 DEF Jump, Shutdn, Trap, LeavingMask, NoFrame, history
  <2>2. CASE \E next \in Code : CEqRstk(next)
    BY <2>2 DEF CEqRstk, Returning
  <2>3. CASE \E next \in Code : Rsi(next)
    BY <2>3 DEF Rsi, DoKbdInt, Interrupting, LeavingMask
  <2>4. CASE \E next \in Code : StoreCardControl(next)
    BY <2>4 DEF StoreCardControl, DoInterupt, Interrupting, LeavingMask
  <2>5. CASE \E next \in Code : \E ret \in Code : Gosub(ret, next)
    BY <2>5 DEF Gosub, Calling
  <2>6. CASE \E next \in Code : \E addr \in Code : RstkEqC(addr, next)
    BY <2>6 DEF RstkEqC, Calling
  <2>7. CASE \E next \in Code : \E zero \in BOOLEAN : Out(zero, next)
    BY <2>7 DEF Out, LeavingMask, NoFrame, history
  <2>8. CASE Rtn
    BY <2>8 DEF Rtn, Returning
  <2>9. CASE RtiPending
    BY <2>9 DEF RtiPending, ChainingService
  <2>10. CASE RtiReturn
    BY <2>10 DEF RtiReturn, EndingService
  <2>11. CASE Illegal
    BY <2>11 DEF Illegal, LeavingMask, NoFrame, cpu, history
  <2> QED BY <1>1, <2>1, <2>2, <2>3, <2>4, <2>5, <2>6, <2>7, <2>8, <2>9, <2>10,
             <2>11 DEF Step
<1>2. CASE Loop
  <2>1. CASE GoToSleep
    BY <2>1 DEF GoToSleep, FallingAsleep, NoFrame
  <2>2. CASE \E key \in Presses, dev \in BOOLEAN, ctrl \in BOOLEAN :
               AlarmPoll(key, dev, ctrl)
    BY <1>0, <2>2 DEF AlarmPoll, DoKbdInt, DoInterupt, Interrupting, LeavingMask
  <2>3. CASE \E key \in Presses, dev \in BOOLEAN : Schedule(key, dev)
    BY <1>0, <2>3 DEF Schedule, Interrupting, LeavingMask
  <2>4. CASE BreakpointHit
    BY <2>4 DEF BreakpointHit, LeavingMask, NoFrame, cpu, history
  <2>5. CASE \E reset \in BOOLEAN : Debug(reset)
    BY <2>5 DEF Debug, LeavingMask, NoFrame, history
  <2> QED BY <1>2, <2>1, <2>2, <2>3, <2>4, <2>5 DEF Loop
<1>3. CASE SigInt
  BY <1>3 DEF SigInt, LeavingMask, NoFrame, cpu, history
<1>4. CASE UNCHANGED vars
  BY <1>4 DEF vars, LeavingMask, NoFrame
<1> QED BY <1>1, <1>2, <1>3, <1>4 DEF Next

(* A key waits only while interrupts are masked, through every step.       *)
LEMMA PendingStep ==
  ASSUME TypeOK, PendingOnlyWhileMasked, [Next]_vars
  PROVE  PendingOnlyWhileMasked'
<1> USE DEF PendingOnlyWhileMasked
<1>1. CASE Step
  <2>1. CASE \E next \in Code : \/ Jump(next) \/ Shutdn(next) \/ Trap(next)
                              \/ CEqRstk(next)
                              \/ \E ret \in Code : Gosub(ret, next)
                              \/ \E addr \in Code : RstkEqC(addr, next)
                              \/ \E zero \in BOOLEAN : Out(zero, next)
    BY <2>1 DEF Jump, Shutdn, Trap, CEqRstk, Gosub, RstkEqC, Out
  <2>2. CASE \E next \in Code : Rsi(next)
    BY <2>2 DEF Rsi, DoKbdInt, TakeInterrupt
  <2>3. CASE \E next \in Code : StoreCardControl(next)
    BY <2>3 DEF StoreCardControl, DoInterupt, TakeInterrupt
  <2>4. CASE Rtn \/ RtiPending \/ RtiReturn \/ Illegal
    BY <2>4 DEF Rtn, RtiPending, RtiReturn, Illegal, cpu
  <2> QED BY <1>1, <2>1, <2>2, <2>3, <2>4 DEF Step
<1>2. CASE Loop
  <2>1. CASE GoToSleep
    BY <2>1 DEF GoToSleep
  <2>2. CASE \E key \in Presses, dev \in BOOLEAN, ctrl \in BOOLEAN :
               AlarmPoll(key, dev, ctrl)
    BY <2>2 DEF AlarmPoll, DoKbdInt, DoInterupt, TakeInterrupt
  <2>3. CASE \E key \in Presses, dev \in BOOLEAN : Schedule(key, dev)
    BY <2>3 DEF Schedule, TakeInterrupt
  <2>4. CASE BreakpointHit \/ \E reset \in BOOLEAN : Debug(reset)
    BY <2>4 DEF BreakpointHit, Debug, cpu
  <2> QED BY <1>2, <2>1, <2>2, <2>3, <2>4 DEF Loop
<1>3. CASE SigInt \/ UNCHANGED vars
  BY <1>3 DEF SigInt, cpu, vars
<1> QED BY <1>1, <1>2, <1>3 DEF Next

(* A masked key interrupt never waits once interrupts are enabled again.   *)
THEOREM PendingIsCorrect == Spec => []PendingOnlyWhileMasked
<1>1. Init => PendingOnlyWhileMasked
  BY DEF Init, PendingOnlyWhileMasked
<1>2. TypeOK /\ PendingOnlyWhileMasked /\ [Next]_vars => PendingOnlyWhileMasked'
  BY PendingStep
<1> QED BY <1>1, <1>2, TypeCorrect, PTL DEF Spec

-----------------------------------------------------------------------------
(* One step keeps the mask set exactly while one interrupt is served.      *)
LEMMA MaskStep ==
  ASSUME TypeOK, PendingOnlyWhileMasked, MaskedExactlyInService, [Next]_vars
  PROVE  MaskedExactlyInService'
<1> SUFFICES ASSUME disciplined'
             PROVE  /\ intenable' <=> \A i \in 1 .. Len(calls') : ~(InFrame(i))'
                    /\ \A i, j \in 1 .. Len(calls') :
                         (InFrame(i))' /\ (InFrame(j))' => i = j
  BY DEF MaskedExactlyInService
<1>0. /\ calls \in Seq(Frame) /\ Len(calls) \in Nat
      /\ intenable \in BOOLEAN /\ disciplined \in BOOLEAN
      /\ calls = <<>> <=> Len(calls) = 0
  BY DEF TypeOK
<1>1. CASE Interrupting
  <2>1. PICK pc \in Code : TakeInterrupt(pc)
    BY <1>1 DEF Interrupting
  <2>2. /\ intenable /\ disciplined /\ intenable' = FALSE
        /\ calls' = Append(calls, [kind |-> "int", ret |-> pc])
    BY <1>1, <2>1 DEF Interrupting, TakeInterrupt, PushFrame
  <2>3. \A i \in 1 .. Len(calls) : calls[i].kind # "int"
    BY <2>2 DEF MaskedExactlyInService, InFrame
  <2>4. /\ Len(calls') = Len(calls) + 1
        /\ calls'[Len(calls) + 1].kind = "int"
        /\ \A i \in 1 .. Len(calls) : calls'[i] = calls[i]
    <3> DEFINE fr == [kind |-> "int", ret |-> pc]
    <3>1. fr \in Frame /\ fr.kind = "int"
      BY DEF Frame
    <3>2. calls' = Append(calls, fr)
      BY <2>2
    <3> HIDE DEF fr
    <3> QED BY <1>0, <3>1, <3>2
  <2> QED BY <1>0, <2>2, <2>3, <2>4 DEF InFrame
<1>2. CASE Calling
  <2>1. PICK addr \in Code : PushFrame("call", addr)
    BY <1>2 DEF Calling
  <2>2. /\ disciplined /\ intenable' = intenable
        /\ calls' = Append(calls, [kind |-> "call", ret |-> addr])
    BY <1>2, <2>1 DEF Calling, PushFrame
  <2>3. /\ Len(calls') = Len(calls) + 1
        /\ calls'[Len(calls) + 1].kind # "int"
        /\ \A i \in 1 .. Len(calls) : calls'[i] = calls[i]
    <3> DEFINE fr == [kind |-> "call", ret |-> addr]
    <3>1. fr \in Frame /\ fr.kind # "int"
      BY DEF Frame
    <3>2. calls' = Append(calls, fr)
      BY <2>2
    <3> HIDE DEF fr
    <3> QED BY <1>0, <3>1, <3>2
  <2> QED BY <1>0, <2>2, <2>3 DEF InFrame, MaskedExactlyInService
<1>3. ASSUME PopFrame
      PROVE  /\ calls = <<>> => Len(calls') = 0
             /\ calls # <<>> => Len(calls') = Len(calls) - 1 /\ Len(calls) > 0
             /\ \A i \in 1 .. Len(calls') : calls'[i] = calls[i]
             /\ Len(calls') \in Nat
  BY <1>0, <1>3, PopFacts DEF PopFrame
<1>4. CASE Returning
  <2>1. disciplined /\ ~TopIsInt /\ intenable' = intenable /\ PopFrame
    BY <1>4 DEF Returning
  <2>2. CASE calls = <<>>
    BY <1>0, <1>3, <2>1, <2>2 DEF InFrame, MaskedExactlyInService
  <2>3. CASE calls # <<>>
    <3>1. Len(calls') = Len(calls) - 1 /\ Len(calls) > 0
      BY <1>3, <2>1, <2>3
    <3>2. calls[Len(calls)].kind # "int"
      BY <2>1, <2>3 DEF TopIsInt
    <3>3. \A i \in 1 .. Len(calls') : i \in 1 .. Len(calls) /\ calls'[i] = calls[i]
      BY <1>0, <1>3, <2>1, <3>1
    <3>4. \A i \in 1 .. Len(calls) : InFrame(i) => i \in 1 .. Len(calls')
      BY <1>0, <3>1, <3>2 DEF InFrame
    <3> QED BY <2>1, <3>3, <3>4 DEF InFrame, MaskedExactlyInService
  <2> QED BY <2>2, <2>3
<1>5. CASE EndingService
  <2>1. disciplined /\ TopIsInt /\ intenable' = TRUE /\ PopFrame
    BY <1>5 DEF EndingService
  <2>2. Len(calls') = Len(calls) - 1 /\ Len(calls) > 0 /\ calls[Len(calls)].kind = "int"
    BY <1>3, <2>1 DEF TopIsInt
  <2>3. \A i \in 1 .. Len(calls) : InFrame(i) => i = Len(calls)
    BY <1>0, <2>1, <2>2 DEF InFrame, MaskedExactlyInService
  <2>4. \A i \in 1 .. Len(calls') : i \in 1 .. Len(calls) /\ calls'[i] = calls[i]
    BY <1>0, <1>3, <2>1, <2>2
  <2>5. \A i \in 1 .. Len(calls') : i # Len(calls)
    BY <1>0, <2>2
  <2> QED BY <2>1, <2>3, <2>4, <2>5 DEF InFrame
<1>6. CASE ChainingService
  BY <1>6 DEF ChainingService, NoFrame, PendingOnlyWhileMasked,
              MaskedExactlyInService, InFrame
<1>7. CASE FallingAsleep
  <2>1. disciplined /\ calls' = calls /\ (intenable' <=> intenable)
    BY <1>0, <1>7 DEF FallingAsleep, NoFrame
  <2> QED BY <2>1 DEF MaskedExactlyInService, InFrame
<1>8. CASE LeavingMask
  BY <1>8 DEF LeavingMask, NoFrame, MaskedExactlyInService, InFrame
<1> QED BY <1>1, <1>2, <1>4, <1>5, <1>6, <1>7, <1>8, MaskCases

LEMMA MaskInit ==
  ASSUME Init
  PROVE  MaskedExactlyInService
<1>1. CASE ColdStart
  BY <1>1 DEF ColdStart, MaskedExactlyInService, InFrame
<1>2. CASE ZeroedStart
  <2>1. Len(calls) = 1 /\ calls[1].kind = "int" /\ intenable = FALSE
    BY <1>2 DEF ZeroedStart
  <2>2. \A i \in 1 .. 1 : i = 1
    OBVIOUS
  <2> QED BY <2>1, <2>2 DEF MaskedExactlyInService, InFrame
<1> QED BY <1>1, <1>2 DEF Init

(* The inductive invariant: the mask argument needs the pending key to     *)
(* imply a set mask (a chained service keeps it set), the return argument  *)
(* needs the stack to hold the newest frames.                              *)
IInv == /\ TypeOK
        /\ PendingOnlyWhileMasked
        /\ StackHoldsNewestCalls
        /\ MaskedExactlyInService

LEMMA Inductive == Spec => []IInv
<1>1. Init => MaskedExactlyInService
  BY MaskInit
<1>2. TypeOK /\ PendingOnlyWhileMasked /\ MaskedExactlyInService /\ [Next]_vars
        => MaskedExactlyInService'
  BY MaskStep
<1> QED BY <1>1, <1>2, TypeCorrect, PendingIsCorrect, StackIsCorrect, PTL
        DEF Spec, IInv

(* While the ROM pairs interrupts and RTIs, interrupts are masked exactly  *)
(* while one interrupt, and never a second one, is being served.           *)
THEOREM MaskIsCorrect == Spec => []MaskedExactlyInService
<1>1. IInv => MaskedExactlyInService
  BY DEF IInv
<1> QED BY <1>1, Inductive, PTL

(* What the end of a service does, in one step.                            *)
ServiceReturns ==
  (/\ disciplined'
   /\ rstk # <<>>
   /\ TopIsInt
   /\ Len(calls') < Len(calls))
  => /\ PC' = calls[Len(calls)].ret
     /\ intenable'

LEMMA ServiceStep ==
  ASSUME IInv, [Next]_vars
  PROVE  ServiceReturns
<1> SUFFICES ASSUME disciplined', rstk # <<>>, TopIsInt, Len(calls') < Len(calls)
             PROVE  PC' = calls[Len(calls)].ret /\ intenable'
  BY DEF ServiceReturns
<1>0. /\ rstk \in Seq(Code) /\ calls \in Seq(Frame)
      /\ Len(calls) \in Nat /\ Len(rstk) \in Nat \ {0}
  BY DEF IInv, TypeOK
<1>1. ASSUME NEW fr \in Frame, calls' = Append(calls, fr)
      PROVE  FALSE
  BY <1>0, <1>1
<1>2. ASSUME NEW kind \in {"call", "int"}, NEW addr \in Code, PushFrame(kind, addr)
      PROVE  FALSE
  <2>1. [kind |-> kind, ret |-> addr] \in Frame
    BY DEF Frame
  <2> QED BY <1>1, <1>2, <2>1 DEF PushFrame
<1>3. ~NoFrame
  BY <1>0 DEF NoFrame
<1>4. rstk[Len(rstk)] = calls[Len(calls)].ret
  <2>1. Len(rstk) \in 1 .. Len(rstk) /\ Len(rstk) + (Len(calls) - Len(rstk)) = Len(calls)
    BY <1>0
  <2> QED BY <2>1 DEF IInv, StackHoldsNewestCalls
<1>5. EndingService
  <2>2. ~Interrupting
    BY <1>2 DEF Interrupting, TakeInterrupt
  <2>3. ~Calling
    BY <1>2 DEF Calling
  <2>4. ~Returning
    BY DEF Returning
  <2>5. ~ChainingService /\ ~FallingAsleep /\ ~LeavingMask
    BY <1>3 DEF ChainingService, FallingAsleep, LeavingMask
  <2>6. TypeOK
    BY DEF IInv
  <2> QED BY <2>2, <2>3, <2>4, <2>5, <2>6, MaskCases
<1> QED BY <1>4, <1>5 DEF EndingService, Top

(* The end of an interrupt's service resumes the interrupted program with  *)
(* interrupts enabled, for every stack size and every program.             *)
THEOREM ServiceReturnIsCorrect == Spec => ServiceReturnsToInterrupted
<1>1. IInv /\ [Next]_vars => [ServiceReturns]_vars
  BY ServiceStep
<1> QED BY <1>1, Inductive, PTL DEF Spec, ServiceReturnsToInterrupted, ServiceReturns

-----------------------------------------------------------------------------
(* What becomes of a pending key, in one step.                             *)
KeyIsServed ==
  int_pending /\ ~int_pending'
    => \/ loc' = "after" /\ PC' = ISR /\ ~intenable' /\ Len(calls') = Len(calls)
       \/ loc' = "asleep" /\ outZero /\ intenable'

LEMMA KeyStep ==
  ASSUME TypeOK, Next
  PROVE  KeyIsServed
<1> SUFFICES ASSUME int_pending, ~int_pending'
             PROVE  \/ loc' = "after" /\ PC' = ISR /\ ~intenable' /\ Len(calls') = Len(calls)
                    \/ loc' = "asleep" /\ outZero /\ intenable'
  BY DEF KeyIsServed
<1>1. CASE RtiPending
  BY <1>1 DEF RtiPending, Instruction, InstructionTaking, NoFrame
<1>2. CASE GoToSleep
  BY <1>2 DEF GoToSleep, TypeOK
<1>3. ASSUME Step, ~RtiPending PROVE FALSE
  <2>1. CASE \E next \in Code : \/ Jump(next) \/ Shutdn(next) \/ Trap(next)
                              \/ CEqRstk(next)
                              \/ \E ret \in Code : Gosub(ret, next)
                              \/ \E addr \in Code : RstkEqC(addr, next)
                              \/ \E zero \in BOOLEAN : Out(zero, next)
    BY <2>1 DEF Jump, Shutdn, Trap, CEqRstk, Gosub, RstkEqC, Out
  <2>2. CASE \E next \in Code : Rsi(next) \/ StoreCardControl(next)
    BY <2>2 DEF Rsi, StoreCardControl, DoKbdInt, DoInterupt
  <2>3. CASE Rtn \/ RtiReturn \/ Illegal
    BY <2>3 DEF Rtn, RtiReturn, Illegal, cpu
  <2> QED BY <1>3, <2>1, <2>2, <2>3 DEF Step
<1>4. ASSUME Loop, ~GoToSleep PROVE FALSE
  <2>1. CASE \E key \in Presses, dev \in BOOLEAN, ctrl \in BOOLEAN :
               AlarmPoll(key, dev, ctrl)
    BY <2>1 DEF AlarmPoll, DoKbdInt, DoInterupt
  <2>2. CASE \E key \in Presses, dev \in BOOLEAN : Schedule(key, dev)
    BY <2>2 DEF Schedule
  <2>3. CASE BreakpointHit \/ \E reset \in BOOLEAN : Debug(reset)
    BY <2>3 DEF BreakpointHit, Debug, cpu
  <2> QED BY <1>4, <2>1, <2>2, <2>3 DEF Loop
<1>5. ~SigInt
  BY DEF SigInt, cpu
<1> QED BY <1>1, <1>2, <1>3, <1>4, <1>5 DEF Next

(* A pending key is never just forgotten, whatever program runs and        *)
(* whatever else happens: an RTI that enters the service routine for it,   *)
(* or a sleep with OUT = 0, which enables interrupts, takes it.            *)
THEOREM PendingKeyIsNotForgotten == Spec => PendingKeyIsServed
<1>1. TypeOK /\ [Next]_vars => [KeyIsServed]_vars
  BY KeyStep
<1> QED BY <1>1, TypeCorrect, PTL DEF Spec, PendingKeyIsServed, KeyIsServed

-----------------------------------------------------------------------------
(* Interrupts implements CallService, for every return stack size, every   *)
(* set of program addresses and with or without a keyboard.                *)

(* While the rules are kept: the mask says whether a service is on the     *)
(* stack, and the return stack has every frame.                            *)
LEMMA KeptFacts ==
  ASSUME IInv, disciplined, ~overflowed
  PROVE  /\ intenable <=> ~Calls!InService
         /\ int_pending => Calls!InService
         /\ rstk = <<>> <=> calls = <<>>
         /\ rstk # <<>> => Top(rstk) = Calls!Newest.ret
         /\ TopIsInt <=> calls # <<>> /\ Calls!Newest.kind = "int"
         /\ calls # <<>> => /\ Calls!Newest.kind \in {"call", "int"}
                            /\ Pop(calls) = SubSeq(calls, 1, Len(calls) - 1)
<1>0. /\ rstk \in Seq(Code) /\ calls \in Seq(Frame)
      /\ Len(rstk) = Len(calls) /\ Len(calls) \in Nat
      /\ intenable \in BOOLEAN
  BY DEF IInv, TypeOK, StackHoldsNewestCalls
<1>1. intenable <=> ~Calls!InService
  BY DEF IInv, MaskedExactlyInService, InFrame, Calls!InService
<1>2. int_pending => Calls!InService
  BY <1>1 DEF IInv, PendingOnlyWhileMasked
<1>3. rstk = <<>> <=> calls = <<>>
  BY <1>0
<1>4. rstk # <<>> => Top(rstk) = Calls!Newest.ret
  <2> SUFFICES ASSUME rstk # <<>> PROVE rstk[Len(rstk)] = calls[Len(calls)].ret
    BY DEF Top, Calls!Newest
  <2>1. Len(rstk) \in 1 .. Len(rstk) /\ Len(rstk) + (Len(calls) - Len(rstk)) = Len(calls)
    BY <1>0
  <2> QED BY <2>1 DEF IInv, StackHoldsNewestCalls
<1>5. TopIsInt <=> calls # <<>> /\ Calls!Newest.kind = "int"
  BY DEF TopIsInt, Calls!Newest
<1>6. calls # <<>> => calls[Len(calls)].kind \in {"call", "int"}
  <2> SUFFICES ASSUME calls # <<>> PROVE calls[Len(calls)].kind \in {"call", "int"}
    OBVIOUS
  <2>1. calls[Len(calls)] \in Frame
    BY <1>0
  <2> QED BY <2>1 DEF Frame
<1>7. calls # <<>> => Pop(calls) = SubSeq(calls, 1, Len(calls) - 1)
  BY DEF Pop
<1> QED BY <1>1, <1>2, <1>3, <1>4, <1>5, <1>6, <1>7 DEF Calls!Newest

(* A step that keeps the rules found them kept.                            *)
LEMMA KeptBefore ==
  ASSUME TypeOK, [Next]_vars, disciplined', ~overflowed'
  PROVE  disciplined /\ ~overflowed
<1>1. disciplined
  BY MaskCases DEF Interrupting, Calling, Returning, EndingService,
                   ChainingService, FallingAsleep, LeavingMask
<1>2. ~overflowed
  BY FrameCases DEF PushFrame, PopFrame, NoFrame
<1> QED BY <1>1, <1>2

-----------------------------------------------------------------------------
(* A return is a Return, or a move of a program whose stack is empty.      *)
LEMMA RtnImplements ==
  ASSUME IInv, Rtn, disciplined, ~overflowed, disciplined'
  PROVE  popped' = <<>> /\ (Calls!Go \/ Calls!Return)
<1>1. /\ calls' = Pop(calls) /\ ~TopIsInt /\ PC' = Top(rstk)
      /\ popped' = <<>> /\ UNCHANGED int_pending
  BY DEF Rtn, PopFrame, Instruction, InstructionTaking
<1>2. CASE calls = <<>>
  <2>1. Top(rstk) \in Code
    BY TopInCode DEF IInv, TypeOK
  <2> QED BY <1>1, <1>2, <2>1 DEF Calls!Go, Pop
<1>3. CASE calls # <<>>
  BY <1>1, <1>3, KeptFacts DEF Calls!Return, Calls!DropNewest
<1> QED BY <1>1, <1>2, <1>3

(* C=RSTK takes the newest address as a number, or 0 off an empty stack.   *)
LEMMA CEqRstkImplements ==
  ASSUME IInv, NEW next \in Code, CEqRstk(next),
         disciplined, ~overflowed, disciplined'
  PROVE  Calls!TakeAddress \/ Calls!TakeNothing
<1>1. /\ calls' = Pop(calls) /\ ~TopIsInt /\ PC' \in Code
      /\ popped' = <<Top(rstk)>> /\ UNCHANGED int_pending
  BY DEF CEqRstk, PopFrame, InstructionTaking
<1>2. CASE calls = <<>>
  <2>1. Top(rstk) = 0
    BY <1>2, KeptFacts DEF Top
  <2> QED BY <1>1, <1>2, <2>1 DEF Calls!TakeNothing, Pop
<1>3. CASE calls # <<>>
  BY <1>1, <1>3, KeptFacts DEF Calls!TakeAddress, Calls!DropNewest
<1> QED BY <1>2, <1>3

(* An instruction, while the rules are kept.                               *)
LEMMA StepImplements ==
  ASSUME IInv, Step, disciplined, ~overflowed, disciplined'
  PROVE  Calls!Program
<1>0. /\ ISR \in Code /\ PC \in Code /\ Top(rstk) \in Code
      /\ int_pending \in BOOLEAN
  BY CodeAssumption, TopInCode DEF IInv, TypeOK
<1>1. loc = "step" /\ loc' = "after"
  BY DEF Step, Jump, CEqRstk, Rsi, StoreCardControl, Shutdn, Trap, Gosub, RstkEqC,
         Out, Rtn, RtiPending, RtiReturn, Illegal, Instruction, InstructionTaking
<1>4. CASE \E next \in Code : CEqRstk(next)
  BY <1>1, <1>4, CEqRstkImplements DEF Calls!Program
<1>11. ASSUME ~\E next \in Code : CEqRstk(next) PROVE popped' = <<>>
  BY <1>11 DEF Step, Jump, Rsi, StoreCardControl, Shutdn, Trap, Gosub, RstkEqC,
               Out, Rtn, RtiPending, RtiReturn, Illegal, Instruction,
               InstructionTaking
<1> SUFFICES ASSUME ~\E next \in Code : CEqRstk(next)
             PROVE  \/ Calls!Go \/ Calls!Call \/ Calls!Return \/ Calls!EndService
                    \/ Calls!ServeAgain \/ Calls!Interrupted
  BY <1>1, <1>4, <1>11 DEF Calls!Program
<1>2. CASE \E next \in Code : \/ Jump(next) \/ Shutdn(next) \/ Trap(next)
                              \/ \E zero \in BOOLEAN : Out(zero, next)
  BY <1>2 DEF Jump, Shutdn, Trap, Out, history, Calls!Go
<1>3. CASE Illegal
  BY <1>0, <1>3 DEF Illegal, cpu, history, Calls!Go
<1>5. CASE Rtn
  BY <1>5, RtnImplements
<1>6. CASE \E next \in Code : \/ \E ret \in Code : Gosub(ret, next)
                              \/ \E addr \in Code : RstkEqC(addr, next)
  BY <1>6 DEF Gosub, RstkEqC, PushFrame, Calls!Call
<1>7. CASE \E next \in Code : Rsi(next)
  <2> PICK next \in Code : Rsi(next)
    BY <1>7
  <2>1. CASE intenable /\ TakeInterrupt(next) /\ UNCHANGED int_pending
    BY <2>1, KeptFacts DEF TakeInterrupt, PushFrame, Calls!Interrupted, Calls!Serve
  <2>2. CASE ~intenable /\ PC' = next /\ int_pending' = TRUE /\ NoFrame
    BY <2>2, KeptFacts DEF NoFrame, Calls!Interrupted, Calls!Remember
  <2>3. CASE PC' = next /\ NoFrame /\ UNCHANGED int_pending
    BY <2>3 DEF NoFrame, Calls!Go
  <2> QED BY <2>1, <2>2, <2>3 DEF Rsi, DoKbdInt
<1>8. CASE \E next \in Code : StoreCardControl(next)
  <2> PICK next \in Code : StoreCardControl(next)
    BY <1>8
  <2>1. CASE intenable /\ TakeInterrupt(next) /\ UNCHANGED int_pending
    BY <2>1, KeptFacts DEF TakeInterrupt, PushFrame, Calls!Interrupted, Calls!Serve
  <2>2. CASE PC' = next /\ NoFrame /\ UNCHANGED int_pending
    BY <2>2 DEF NoFrame, Calls!Go
  <2> QED BY <2>1, <2>2 DEF StoreCardControl, DoInterupt
<1>9. CASE RtiPending
  BY <1>9, KeptFacts DEF RtiPending, NoFrame, Calls!ServeAgain
<1>10. CASE RtiReturn
  <2>1. calls' = Pop(calls) /\ TopIsInt /\ PC' = Top(rstk) /\ ~int_pending
        /\ UNCHANGED int_pending
    BY <1>10 DEF RtiReturn, PopFrame
  <2> QED BY <2>1, KeptFacts DEF Calls!EndService, Calls!DropNewest
<1> QED BY <1>2, <1>3, <1>5, <1>6, <1>7, <1>8, <1>9, <1>10 DEF Step

(* The sleep, the loops and the debugger, while the rules are kept.        *)
LEMMA LoopImplements ==
  ASSUME IInv, Loop, disciplined, ~overflowed, disciplined'
  PROVE  Calls!Machine
<1>0. PC \in Code /\ int_pending \in BOOLEAN /\ intenable \in BOOLEAN
      /\ outZero \in BOOLEAN
  BY DEF IInv, TypeOK
<1>1. loc # "step"
  BY DEF Loop, GoToSleep, AlarmPoll, Schedule, BreakpointHit, Debug
<1>10. popped' = popped
  BY DEF Loop, GoToSleep, AlarmPoll, Schedule, BreakpointHit, Debug
<1> SUFFICES \/ Calls!Serve(PC) /\ int_pending' \in {int_pending, TRUE}
             \/ Calls!Remember /\ UNCHANGED PC
             \/ PC' \in {PC, 0} /\ UNCHANGED <<calls, int_pending>>
  BY <1>1, <1>10 DEF Calls!Machine
<1>2. CASE GoToSleep
  <2>1. outZero => intenable
    BY <1>0, <1>2 DEF GoToSleep
  <2>2. int_pending' = int_pending
    BY <1>0, <1>2, <2>1 DEF GoToSleep, IInv, PendingOnlyWhileMasked
  <2> QED BY <1>2, <2>2 DEF GoToSleep
<1>3. ASSUME intenable, TakeInterrupt(PC), int_pending' \in {int_pending, TRUE}
      PROVE  Calls!Serve(PC) /\ int_pending' \in {int_pending, TRUE}
  BY <1>3, KeptFacts DEF TakeInterrupt, PushFrame, Calls!Serve
<1>4. ASSUME ~intenable, PC' = PC, NoFrame, int_pending' = TRUE
      PROVE  Calls!Remember /\ UNCHANGED PC
  BY <1>4, KeptFacts DEF NoFrame, Calls!Remember
<1>5. ASSUME PC' = PC, NoFrame, int_pending' = int_pending
      PROVE  PC' \in {PC, 0} /\ UNCHANGED <<calls, int_pending>>
  BY <1>5 DEF NoFrame
<1>6. CASE \E key \in Presses, dev \in BOOLEAN, ctrl \in BOOLEAN :
             AlarmPoll(key, dev, ctrl)
  BY <1>3, <1>4, <1>5, <1>6 DEF AlarmPoll, DoKbdInt, DoInterupt
<1>7. CASE \E key \in Presses, dev \in BOOLEAN : Schedule(key, dev)
  <2>1. PICK key \in Presses, dev \in BOOLEAN : Schedule(key, dev)
    BY <1>7
  <2>2. key \in BOOLEAN /\ dev \in BOOLEAN
    BY DEF Presses
  <2>3. int_pending' = (int_pending \/ (key /\ (dev \/ ~intenable)))
    BY <2>1 DEF Schedule
  <2>4. CASE intenable /\ (dev \/ key)
    <3>1. int_pending' \in {int_pending, TRUE}
      BY <1>0, <2>2, <2>3
    <3> QED BY <1>3, <2>1, <2>4, <3>1 DEF Schedule
  <2>5. CASE ~(intenable /\ (dev \/ key))
    <3>1. PC' = PC /\ NoFrame
      BY <2>1, <2>5 DEF Schedule
    <3>2. CASE key /\ ~intenable
      BY <1>4, <2>3, <3>1, <3>2
    <3>3. CASE ~(key /\ ~intenable)
      <4>1. int_pending' = int_pending
        BY <1>0, <2>2, <2>3, <2>5, <3>3
      <4> QED BY <1>5, <3>1, <4>1
    <3> QED BY <3>2, <3>3
  <2> QED BY <2>4, <2>5
<1>8. CASE BreakpointHit
  BY <1>8 DEF BreakpointHit, cpu, history
<1>9. CASE \E reset \in BOOLEAN : Debug(reset)
  BY <1>9 DEF Debug, history
<1> QED BY <1>2, <1>6, <1>7, <1>8, <1>9 DEF Loop

(* Every step is a step of CallService or leaves its variables alone.      *)
LEMMA RefinementStep ==
  ASSUME IInv, [Next]_vars
  PROVE  [Calls!Next]_(Calls!vars)
<1> DEFINE Kept == disciplined /\ ~overflowed
<1>1. CASE ~Kept'
  BY <1>1 DEF Calls!Next, Calls!Broken
<1>2. CASE Kept'
  <2>1. TypeOK
    BY DEF IInv
  <2>2. Kept
    BY <1>2, <2>1, KeptBefore
  <2>3. CASE Step
    BY <1>2, <2>2, <2>3, StepImplements DEF Calls!Next
  <2>4. CASE Loop
    BY <1>2, <2>2, <2>4, LoopImplements DEF Calls!Next
  <2>5. CASE SigInt \/ UNCHANGED vars
    BY <2>5 DEF SigInt, cpu, history, vars, Calls!vars
  <2> QED BY <2>3, <2>4, <2>5 DEF Next
<1> QED BY <1>1, <1>2

(* The mask, the slots, the remembered key, the sleep and the loops keep   *)
(* the promise of an endless stack with one service at a time.             *)
THEOREM InterruptsImplementCallService == Spec => ImplementsCallService
<1>1. Init => Calls!Init
  BY DEF Init, ColdStart, ZeroedStart, Calls!Init
<1>2. IInv /\ [Next]_vars => [Calls!Next]_(Calls!vars)
  BY RefinementStep
<1> QED BY <1>1, <1>2, Inductive, PTL DEF Spec, ImplementsCallService, Calls!Spec
=============================================================================
