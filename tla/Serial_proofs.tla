---------------------------- MODULE Serial_proofs ----------------------------
(***************************************************************************)
(* Proofs about module Serial, for any number of links and of bytes and    *)
(* every program: no byte is lost, doubled or overtaken by a later one of  *)
(* its link, none is overwritten unread, and none waits unannounced.       *)
(***************************************************************************)
EXTENDS Serial, SequenceTheorems, TLAPS

(* The bytes of one link stand in a sequence in the order of arrival, and  *)
(* those in X came before those in Y; a says which link a byte came in on. *)
Ordered(a, s) ==
  \A i, j \in 1 .. Len(s) : i < j /\ a[s[i]] = a[s[j]] => s[i] < s[j]
Before(a, X, Y) == \A x \in X, y \in Y : a[x] = a[y] => x < y

(* What the bytes of a sequence split in two are.                          *)
LEMMA BytesConcat ==
  ASSUME NEW S, NEW s \in Seq(S), NEW t \in Seq(S)
  PROVE  ToSet(s \o t) = ToSet(s) \cup ToSet(t)
<1>1. \A q : Range(q) = ToSet(q)
  BY DEF ToSet, Range
<1>2. Range(s \o t) = Range(s) \cup Range(t)
  BY RangeConcatenation
<1> QED BY <1>1, <1>2

LEMMA BytesOfSeq ==
  ASSUME NEW S, NEW s \in Seq(S)
  PROVE  ToSet(s) \subseteq S
BY LenProperties, ElementOfSeq DEF ToSet

LEMMA OneMoreByte ==
  ASSUME NEW S, NEW s \in Seq(S), NEW e \in S
  PROVE  ToSet(s \o <<e>>) = ToSet(s) \cup {e}
<1> DEFINE one == <<e>>
<1>1. one \in Seq(S) /\ ToSet(one) = {e}
  BY DEF ToSet
<1> HIDE DEF one
<1>2. ToSet(s \o one) = ToSet(s) \cup {e}
  BY <1>1, BytesConcat
<1> QED BY <1>2 DEF one

(* Order asks for nothing but the links of the bytes it is about.          *)
LEMMA OrderOfOwnBytes ==
  ASSUME NEW S, NEW s \in Seq(S), NEW a, NEW c, \A b \in S : a[b] = c[b], Ordered(a, s)
  PROVE  Ordered(c, s)
<1>1. \A i \in 1 .. Len(s) : s[i] \in S
  BY ElementOfSeq
<1> QED BY <1>1 DEF Ordered

LEMMA OrderedConcat ==
  ASSUME NEW S, NEW s \in Seq(S), NEW t \in Seq(S), NEW a
  PROVE  Ordered(a, s \o t)
           <=> Ordered(a, s) /\ Ordered(a, t) /\ Before(a, ToSet(s), ToSet(t))
<1>1. /\ Len(s \o t) = Len(s) + Len(t)
      /\ \A i \in 1 .. Len(s) + Len(t) :
           (s \o t)[i] = IF i <= Len(s) THEN s[i] ELSE t[i - Len(s)]
      /\ Len(s) \in Nat /\ Len(t) \in Nat
  BY ConcatProperties, LenProperties
<1>2. DOMAIN s = 1 .. Len(s) /\ DOMAIN t = 1 .. Len(t)
  BY LenProperties
<1>3. ASSUME Ordered(a, s \o t)
      PROVE  Ordered(a, s) /\ Ordered(a, t) /\ Before(a, ToSet(s), ToSet(t))
  <2>1. Ordered(a, s)
    BY <1>1, <1>3 DEF Ordered
  <2>2. ASSUME NEW i \in 1 .. Len(t), NEW j \in 1 .. Len(t), i < j, a[t[i]] = a[t[j]]
        PROVE  t[i] < t[j]
    <3>1. (s \o t)[Len(s) + i] = t[i] /\ (s \o t)[Len(s) + j] = t[j]
      BY <1>1
    <3>2. /\ Len(s) + i \in 1 .. Len(s \o t) /\ Len(s) + j \in 1 .. Len(s \o t)
          /\ Len(s) + i < Len(s) + j
      BY <1>1, <2>2
    <3> QED BY <1>3, <2>2, <3>1, <3>2 DEF Ordered
  <2>3. ASSUME NEW i \in 1 .. Len(s), NEW j \in 1 .. Len(t), a[s[i]] = a[t[j]]
        PROVE  s[i] < t[j]
    <3>1. (s \o t)[i] = s[i] /\ (s \o t)[Len(s) + j] = t[j]
      BY <1>1
    <3>2. /\ i \in 1 .. Len(s \o t) /\ Len(s) + j \in 1 .. Len(s \o t)
          /\ i < Len(s) + j
      BY <1>1
    <3> QED BY <1>3, <2>3, <3>1, <3>2 DEF Ordered
  <2> QED BY <1>2, <2>1, <2>2, <2>3 DEF Ordered, Before, ToSet
<1>4. ASSUME Ordered(a, s), Ordered(a, t), Before(a, ToSet(s), ToSet(t)),
             NEW i \in 1 .. Len(s \o t), NEW j \in 1 .. Len(s \o t),
             i < j, a[(s \o t)[i]] = a[(s \o t)[j]]
      PROVE  (s \o t)[i] < (s \o t)[j]
  <2>1. CASE j <= Len(s)
    BY <1>1, <1>4, <2>1 DEF Ordered
  <2>2. CASE Len(s) < i
    <3>1. i - Len(s) \in 1 .. Len(t) /\ j - Len(s) \in 1 .. Len(t)
      BY <1>1, <1>4, <2>2
    <3> QED BY <1>1, <1>4, <2>2, <3>1 DEF Ordered
  <2>3. CASE i <= Len(s) /\ Len(s) < j
    <3>1. i \in 1 .. Len(s) /\ j - Len(s) \in 1 .. Len(t)
      BY <1>1, <1>4, <2>3
    <3>2. s[i] \in ToSet(s) /\ t[j - Len(s)] \in ToSet(t)
      BY <1>2, <3>1 DEF ToSet
    <3> QED BY <1>1, <1>4, <2>3, <3>1, <3>2 DEF Before
  <2> QED BY <1>1, <2>1, <2>2, <2>3
<1> QED BY <1>3, <1>4 DEF Ordered

LEMMA SplitAt ==
  ASSUME NEW S, NEW s \in Seq(S), NEW n \in 0 .. Len(s)
  PROVE  /\ SubSeq(s, 1, n) \in Seq(S) /\ SubSeq(s, n + 1, Len(s)) \in Seq(S)
         /\ s = SubSeq(s, 1, n) \o SubSeq(s, n + 1, Len(s))
         /\ n > 0 => SubSeq(s, 1, n) # <<>>
<1>1. Len(s) \in Nat /\ \A i \in 1 .. Len(s) : s[i] \in S
  BY LenProperties, ElementOfSeq
<1>2. SubSeq(s, 1, n) \in Seq(S) /\ Len(SubSeq(s, 1, n)) = IF 1 <= n THEN n - 1 + 1 ELSE 0
  BY <1>1, SubSeqProperties
<1>3. SubSeq(s, n + 1, Len(s)) \in Seq(S)
  <2>1. \A i \in n + 1 .. Len(s) : s[i] \in S
    BY <1>1
  <2> QED BY <1>1, <2>1, SubSeqProperties
<1>4. SubSeq(s, 1, n) \o SubSeq(s, n + 1, Len(s)) = SubSeq(s, 1, Len(s))
  <2>1. 1 \in 1 .. Len(s) + 1 /\ n \in 1 - 1 .. Len(s) /\ Len(s) \in n .. Len(s)
    BY <1>1
  <2> QED BY <2>1, ConcatAdjacentSubSeq
<1>5. n > 0 => SubSeq(s, 1, n) # <<>>
  BY <1>2, EmptySeq
<1>6. s = SubSeq(s, 1, n) \o SubSeq(s, n + 1, Len(s))
  BY <1>4, SubSeqFull
<1> QED BY <1>2, <1>3, <1>5, <1>6

(* A byte taken off the front and appended to another sequence.            *)
LEMMA HeadMoves ==
  ASSUME NEW S, NEW s \in Seq(S), NEW t \in Seq(S), t # <<>>
  PROVE  /\ Append(s, Head(t)) \in Seq(S) /\ Tail(t) \in Seq(S)
         /\ Append(s, Head(t)) \o Tail(t) = s \o t
         /\ Head(t) \in ToSet(t) /\ ToSet(Tail(t)) \subseteq ToSet(t)
<1>1. /\ Head(t) \in S /\ Tail(t) \in Seq(S) /\ Len(Tail(t)) = Len(t) - 1
      /\ \A i \in 1 .. Len(Tail(t)) : Tail(t)[i] = t[i + 1]
  BY HeadTailProperties
<1>2. Len(t) \in Nat \ {0} /\ Head(t) = t[1] /\ DOMAIN t = 1 .. Len(t)
  BY EmptySeq, LenProperties
<1>3. <<Head(t)>> \in Seq(S) /\ Append(s, Head(t)) = s \o <<Head(t)>>
  BY <1>1, AppendIsConcat
<1>4. <<Head(t)>> \o Tail(t) = t
  <2>1. <<Head(t)>> \o Tail(t) \in Seq(S)
    BY <1>1, <1>3, ConcatProperties
  <2>2. Len(<<Head(t)>>) = 1 /\ <<Head(t)>>[1] = t[1]
    BY <1>2
  <2>3. Len(<<Head(t)>> \o Tail(t)) = Len(t)
    BY <1>1, <1>2, <1>3, <2>2, ConcatProperties
  <2>4. \A i \in 1 .. Len(t) : (<<Head(t)>> \o Tail(t))[i] = t[i]
    BY <1>1, <1>2, <1>3, <2>2, ConcatProperties
  <2> QED BY <2>1, <2>3, <2>4, SeqEqual
<1>5. Append(s, Head(t)) \o Tail(t) = s \o t
  BY <1>1, <1>3, <1>4, ConcatAssociative
<1>6. Head(t) \in ToSet(t)
  BY <1>2 DEF ToSet
<1>7. DOMAIN Tail(t) = 1 .. Len(Tail(t))
  BY <1>1, LenProperties
<1>8. ToSet(Tail(t)) \subseteq ToSet(t)
  BY <1>1, <1>2, <1>7 DEF ToSet
<1> QED BY <1>1, <1>5, <1>6, <1>8, AppendProperties

-----------------------------------------------------------------------------
SequenceTypes ==
  /\ inbox \in [Links -> Seq(Bytes)]
  /\ buf \in Seq(Bytes) /\ loaded \in Seq(Bytes)
  /\ arrived \in Seq(Links)

(* What receive_char may change but the sequences ...                      *)
ReceiverTypes ==
  /\ full \in BOOLEAN
  /\ seen \in BOOLEAN /\ asked \in BOOLEAN /\ forced \in BOOLEAN
  /\ switched \in BOOLEAN

(* ... and what it may not.                                                *)
ControlTypes ==
  /\ open \in SUBSET Links
  /\ link \in Links
  /\ io_ctrl \in SUBSET {"rx", "enable"}
  /\ touched \in SUBSET {"BAUD", "IOC", "RBR", "TBR"}
  /\ loc \in {"run", "end", "asleep", "poll"}
  /\ busy \in BOOLEAN
  /\ device_check \in BOOLEAN /\ due \in BOOLEAN /\ stopped \in BOOLEAN

SerialTypes == SequenceTypes /\ ReceiverTypes /\ ControlTypes

(* The bytes receive_char has taken from the host and not discarded.       *)
Held == loaded \o buf

(* A link holds only bytes that came in on it.                             *)
Arrivals == \A l \in Links : \A b \in ToSet(inbox[l]) : arrived[b] = l

InArrivalOrder ==
  /\ Ordered(arrived, Held)
  /\ \A l \in Links : /\ Ordered(arrived, inbox[l])
                      /\ Before(arrived, ToSet(Held), ToSet(inbox[l]))

NoneLost ==
  \A b \in Bytes : \/ b \in ToSet(Held \o inbox[arrived[b]])
                   \/ <<b, FALSE>> \in dropped

(* What may be in the one buffer both links share.                         *)
BufferFromLink == ~switched => \A b \in ToSet(buf) : arrived[b] = link

EmptiedIsSeen == ~full => seen

(* A byte in rbr with its interrupt enabled has been announced, or the     *)
(* devices' check that will announce it is under way ...                   *)
SilentOnlyTouched ==
  full /\ ~forced /\ "rx" \in io_ctrl => asked \/ "IOC" \in touched

(* ... and runs before the next instruction.                               *)
TouchedIsChecked ==
  touched # {} => stopped \/ (loc = "end" /\ device_check /\ due)

-----------------------------------------------------------------------------
(* The two outcomes of receive_char: nothing, or P of what the host holds  *)
(* for the link selected, followed by Q, joins the buffer.                 *)
Took(P, Q) ==
  /\ ~full
  /\ inbox[link] = P \o Q
  /\ inbox' = [inbox EXCEPT ![link] = Q]
  /\ buf # <<>> => P = <<>>
  /\ switched' = (switched /\ buf # <<>>)

LEMMA Receives ==
  ASSUME SerialTypes, NEW fds, NEW told, ReceiveChar(fds, told)
  PROVE  \/ NothingReceived(told)
         \/ \E P, Q \in Seq(Bytes) :
              /\ Took(P, Q) /\ buf \o P # <<>>
              /\ Discard(buf \o P, told) \/ Load(buf \o P)
<1>1. CASE NothingReceived(told)
  BY <1>1
<1>2. CASE ~NothingReceived(told)
  <2>1. inbox[link] \in Seq(Bytes) /\ buf \in Seq(Bytes)
    BY DEF SerialTypes, SequenceTypes, ControlTypes
  <2>2. ~full
    BY <1>2 DEF ReceiveChar, RbrFree
  <2>3. PICK n \in IF buf = <<>> THEN 1 .. Len(inbox[link]) ELSE {0} :
          /\ inbox' = [inbox EXCEPT ![link] = SubSeq(@, n + 1, Len(@))]
          /\ switched' = (switched /\ buf # <<>>)
          /\ \/ Discard(buf \o SubSeq(inbox[link], 1, n), told)
             \/ Load(buf \o SubSeq(inbox[link], 1, n))
    BY <1>2 DEF ReceiveChar, Selected
  <2> DEFINE P == SubSeq(inbox[link], 1, n)
             Q == SubSeq(inbox[link], n + 1, Len(inbox[link]))
  <2>4. n \in 0 .. Len(inbox[link]) /\ (buf = <<>> => n > 0) /\ (buf # <<>> => n = 0)
    BY <2>1, <2>3, LenProperties
  <2>5. /\ P \in Seq(Bytes) /\ Q \in Seq(Bytes) /\ inbox[link] = P \o Q
        /\ n > 0 => P # <<>>
    BY <2>1, <2>4, SplitAt
  <2>6. n = 0 => P = <<>>
    BY SubSeqEmpty
  <2>7. inbox' = [inbox EXCEPT ![link] = Q]
    BY <2>3 DEF SerialTypes, SequenceTypes, ControlTypes
  <2> HIDE DEF P, Q
  <2>8. buf \o P # <<>>
    BY <2>1, <2>4, <2>5, ConcatEqualIffEmpty
  <2>9. Took(P, Q)
    BY <2>2, <2>3, <2>4, <2>5, <2>6, <2>7 DEF Took
  <2> QED BY <2>3, <2>5, <2>8, <2>9 DEF P
<1> QED BY <1>1, <1>2

(* What the bytes in the buffer and in rbr are when a byte is loaded.      *)
LEMMA Loads ==
  ASSUME SerialTypes, NEW P \in Seq(Bytes), buf \o P # <<>>, Load(buf \o P)
  PROVE  /\ loaded' \in Seq(Bytes) /\ buf' \in Seq(Bytes)
         /\ loaded' \o buf' = Held \o P
         /\ rbr' \in ToSet(buf) \cup ToSet(P)
         /\ ToSet(buf') \subseteq ToSet(buf) \cup ToSet(P)
         /\ dropped' = dropped
<1> DEFINE t == buf \o P
<1>1. /\ loaded' = Append(loaded, Head(t)) /\ buf' = Tail(t) /\ rbr' = Head(t)
      /\ dropped' = dropped
  BY DEF Load, Rest
<1>2. t \in Seq(Bytes) /\ loaded \in Seq(Bytes) /\ buf \in Seq(Bytes) /\ t # <<>>
  BY ConcatProperties DEF SerialTypes, SequenceTypes, ControlTypes
<1>3. ToSet(t) = ToSet(buf) \cup ToSet(P)
  BY <1>2, BytesConcat
<1>4. loaded \o t = Held \o P
  BY <1>2, ConcatAssociative DEF Held
<1> HIDE DEF t
<1>5. /\ Append(loaded, Head(t)) \in Seq(Bytes) /\ Tail(t) \in Seq(Bytes)
      /\ Append(loaded, Head(t)) \o Tail(t) = loaded \o t
      /\ Head(t) \in ToSet(t) /\ ToSet(Tail(t)) \subseteq ToSet(t)
  BY <1>2, HeadMoves
<1> QED BY <1>1, <1>3, <1>4, <1>5

(* Apart from receive_char and the host nothing moves a byte.              *)
LEMMA StepsThatMoveBytes ==
  ASSUME [Next]_vars
  PROVE  \/ UNCHANGED <<inbox, buf, loaded, dropped, arrived>>
         \/ /\ \E fds, told : ReceiveChar(fds, told)
            /\ UNCHANGED <<link, io_ctrl, arrived>>
         \/ \E l \in Links : Arrive(l)
<1>1. CASE \/ Instruction \/ ScheduleEvent \/ SkipReceiver \/ NextInstruction
           \/ BreakpointHit \/ UNCHANGED vars
  BY <1>1 DEF Instruction, Store, ReadRbr, OtherInstruction, ScheduleEvent,
     SkipReceiver, NextInstruction, BreakpointHit, port, history, vars
<1>2. CASE CheckDevices
  <2>1. CASE NothingReceived(TellsOfFull)
    BY <1>2, <2>1 DEF CheckDevices, NothingReceived
  <2>2. CASE ReceiveChar(open', TellsOfFull)
    BY <1>2, <2>2 DEF CheckDevices
  <2> QED BY <1>2, <2>1, <2>2 DEF CheckDevices
<1>3. CASE PollReceiver \/ SleepReceive
  BY <1>3 DEF PollReceiver, SleepReceive
<1> QED BY <1>1, <1>2, <1>3 DEF Next, Loop

(* A byte that arrives is the last of all and the last of its link.        *)
LEMMA Arrives ==
  ASSUME SerialTypes, SequenceTypes, ControlTypes, NEW l \in Links, Arrive(l)
  PROVE  /\ arrived' \in Seq(Links) /\ Len(arrived') = Len(arrived) + 1
         /\ Bytes' = Bytes \cup {Len(arrived) + 1}
         /\ \A b \in Bytes : arrived'[b] = arrived[b]
         /\ arrived'[Len(arrived) + 1] = l
         /\ inbox' = [inbox EXCEPT ![l] = inbox[l] \o <<Len(arrived) + 1>>]
         /\ UNCHANGED <<buf, loaded, dropped>>
<1>1. arrived \in Seq(Links) /\ inbox[l] \in Seq(Bytes) /\ Len(arrived) \in Nat
  BY LenProperties DEF SerialTypes, SequenceTypes, ControlTypes
<1>2. arrived' = Append(arrived, l)
  BY DEF Arrive
<1>3. /\ arrived' \in Seq(Links) /\ Len(arrived') = Len(arrived) + 1
      /\ \A b \in 1 .. Len(arrived) : arrived'[b] = arrived[b]
      /\ arrived'[Len(arrived) + 1] = l
  BY <1>1, <1>2, AppendProperties
<1>4. Bytes' = Bytes \cup {Len(arrived) + 1}
  BY <1>1, <1>3 DEF Bytes
<1>5. inbox[l] \in Seq(Bytes') /\ Len(arrived) + 1 \in Bytes'
  BY <1>1, <1>4, SeqMonotonic
<1>6. Append(inbox[l], Len(arrived) + 1) = inbox[l] \o <<Len(arrived) + 1>>
  BY <1>5, AppendIsConcat
<1>7. inbox' = [inbox EXCEPT ![l] = inbox[l] \o <<Len(arrived) + 1>>]
  BY <1>6 DEF Arrive, SerialTypes, SequenceTypes, ControlTypes
<1> QED BY <1>3, <1>4, <1>7 DEF Arrive, Bytes

LEMMA TypesInit == Init => SerialTypes
<1> SUFFICES ASSUME Init PROVE SerialTypes
  OBVIOUS
<1>1. <<>> \in Seq(Bytes) /\ <<>> \in Seq(Links)
  BY EmptySeq
<1>2. /\ open \in SUBSET Links /\ link \in Links /\ io_ctrl \in SUBSET {"rx", "enable"}
      /\ touched \in SUBSET {"BAUD", "IOC", "RBR", "TBR"} /\ loc = "run"
      /\ inbox \in [Links -> Seq(Bytes)] /\ buf = <<>> /\ loaded = <<>> /\ arrived = <<>>
  BY <1>1 DEF Init
<1>3. /\ full \in BOOLEAN /\ busy \in BOOLEAN /\ device_check \in BOOLEAN
      /\ due \in BOOLEAN /\ seen \in BOOLEAN /\ asked \in BOOLEAN /\ forced \in BOOLEAN
      /\ switched \in BOOLEAN /\ stopped \in BOOLEAN
  BY DEF Init
<1> QED BY <1>1, <1>2, <1>3 DEF SerialTypes, SequenceTypes, ReceiverTypes, ControlTypes

LEMMA SequenceTypesStep ==
  ASSUME SerialTypes, [Next]_vars
  PROVE  SequenceTypes'
<1> USE DEF SerialTypes, SequenceTypes, ControlTypes
<1>1. CASE UNCHANGED <<inbox, buf, loaded, dropped, arrived>>
  BY <1>1 DEF Bytes
<1>2. ASSUME NEW fds, NEW told, ReceiveChar(fds, told), UNCHANGED arrived
      PROVE  SequenceTypes'
  <2>1. Bytes' = Bytes /\ arrived' \in Seq(Links)
    BY <1>2 DEF Bytes
  <2>2. CASE NothingReceived(told)
    BY <2>1, <2>2 DEF NothingReceived
  <2>3. ASSUME NEW P \in Seq(Bytes), NEW Q \in Seq(Bytes), Took(P, Q), buf \o P # <<>>,
               Discard(buf \o P, told) \/ Load(buf \o P)
        PROVE  /\ inbox' \in [Links -> Seq(Bytes)]
               /\ buf' \in Seq(Bytes) /\ loaded' \in Seq(Bytes)
    <3>1. inbox' \in [Links -> Seq(Bytes)]
      BY <2>3 DEF Took
    <3>2. CASE Discard(buf \o P, told)
      <4>1. buf' = <<>> /\ loaded' = loaded
        BY <3>2 DEF Discard
      <4> QED BY <3>1, <4>1, EmptySeq
    <3>3. CASE Load(buf \o P)
      BY <2>3, <3>1, <3>3, Loads
    <3> QED BY <2>3, <3>2, <3>3
  <2> QED BY <1>2, <2>1, <2>2, <2>3, Receives
<1>3. ASSUME NEW l \in Links, Arrive(l)
      PROVE  SequenceTypes'
  <2>1. /\ arrived' \in Seq(Links) /\ Bytes' = Bytes \cup {Len(arrived) + 1}
        /\ inbox' = [inbox EXCEPT ![l] = inbox[l] \o <<Len(arrived) + 1>>]
        /\ UNCHANGED <<buf, loaded>>
    BY <1>3, Arrives
  <2>2. \A q \in Seq(Bytes) : q \in Seq(Bytes')
    BY <2>1, SeqMonotonic
  <2>3. <<Len(arrived) + 1>> \in Seq(Bytes')
    BY <2>1
  <2>4. inbox[l] \o <<Len(arrived) + 1>> \in Seq(Bytes')
    BY <2>2, <2>3, ConcatProperties
  <2> QED BY <2>1, <2>2, <2>4
<1> QED BY <1>1, <1>2, <1>3, StepsThatMoveBytes

(* What becomes of the flags: they stay, but for what the caller told, or  *)
(* a byte is loaded.                                                       *)
LEMMA ReceiveFlags ==
  ASSUME SerialTypes, NEW fds, NEW told \in BOOLEAN, ReceiveChar(fds, told)
  PROVE  /\ ReceiverTypes'
         /\ \/ /\ asked' = (asked \/ told)
               /\ UNCHANGED <<full, forced, seen, loaded>>
            \/ /\ asked' = ("rx" \in io_ctrl) /\ full' = TRUE /\ forced' = FALSE
               /\ seen' = FALSE /\ ~full
<1> USE DEF SerialTypes, ReceiverTypes
<1>1. CASE NothingReceived(told)
  BY <1>1 DEF NothingReceived
<1>2. CASE ~NothingReceived(told)
  <2>1. PICK P, Q \in Seq(Bytes) :
          Took(P, Q) /\ (Discard(buf \o P, told) \/ Load(buf \o P))
    BY <1>2, Receives
  <2>2. ~full /\ switched' \in BOOLEAN
    BY <2>1 DEF Took
  <2>3. CASE Discard(buf \o P, told)
    BY <2>2, <2>3 DEF Discard
  <2>4. CASE Load(buf \o P)
    <3>1. /\ asked' = ("rx" \in io_ctrl) /\ full' = TRUE /\ forced' = FALSE
          /\ seen' = FALSE
      BY <2>4 DEF Load
    <3>2. asked' \in BOOLEAN
      BY <3>1
    <3> QED BY <2>2, <3>1, <3>2
  <2> QED BY <2>1, <2>3, <2>4
<1> QED BY <1>1, <1>2

LEMMA FlagTypesStep ==
  ASSUME SerialTypes, [Next]_vars
  PROVE  ReceiverTypes' /\ ControlTypes'
<1> USE DEF SerialTypes, ReceiverTypes, ControlTypes
<1>1. ASSUME NEW i \in DOMAIN Registers, NEW j \in i .. Len(Registers), Store(i, j)
      PROVE  ReceiverTypes' /\ ControlTypes'
  <2> DEFINE covered == {Registers[k] : k \in i .. j}
  <2>1. touched' = touched \cup (covered \cap {"BAUD", "IOC", "TBR"})
    BY <1>1 DEF Store
  <2>2. io_ctrl' \in SUBSET {"rx", "enable"}
    BY <1>1 DEF Store
  <2>3. full' \in BOOLEAN /\ busy' \in BOOLEAN /\ link' \in Links
    BY <1>1 DEF Store
  <2>4. seen' \in BOOLEAN /\ forced' \in BOOLEAN /\ switched' \in BOOLEAN
    BY <1>1 DEF Store
  <2>5. /\ device_check' = TRUE /\ due' = TRUE /\ loc' = "end"
        /\ UNCHANGED <<open, asked, stopped>>
    BY <1>1 DEF Store
  <2> HIDE DEF covered
  <2> QED BY <2>1, <2>2, <2>3, <2>4, <2>5
<1>2. CASE ReadRbr
  BY <1>2 DEF ReadRbr
<1>3. CASE OtherInstruction \/ ScheduleEvent \/ SkipReceiver \/ NextInstruction
  BY <1>3 DEF OtherInstruction, ScheduleEvent, SkipReceiver, NextInstruction,
     port, work, history
<1>4. CASE BreakpointHit
  BY <1>4 DEF BreakpointHit, port, work
<1>5. CASE CheckDevices
  <2>1. open' \in SUBSET Links /\ busy' \in BOOLEAN
    BY <1>5 DEF CheckDevices, TransmitChar, LinkClosed, Written, WouldBlock, WriteError
  <2>2. TellsOfFull \in BOOLEAN
    BY DEF TellsOfFull
  <2>3. /\ touched' = {} /\ device_check' = FALSE /\ loc' = "poll" /\ stopped' = FALSE
        /\ UNCHANGED <<link, io_ctrl, due>>
    BY <1>5 DEF CheckDevices
  <2>4. ReceiverTypes'
    <3>1. CASE ReceiveChar(open', TellsOfFull)
      BY <2>2, <3>1, ReceiveFlags
    <3>2. CASE NothingReceived(TellsOfFull)
      BY <2>2, <3>2 DEF NothingReceived
    <3> QED BY <1>5, <3>1, <3>2 DEF CheckDevices
  <2> QED BY <2>1, <2>3, <2>4
<1>6. CASE PollReceiver \/ SleepReceive
  <2>1. ReceiverTypes'
    BY <1>6, ReceiveFlags DEF PollReceiver, SleepReceive
  <2> QED BY <1>6, <2>1 DEF PollReceiver, SleepReceive
<1>7. ASSUME NEW l \in Links, Arrive(l)
      PROVE  ReceiverTypes' /\ ControlTypes'
  BY <1>7 DEF Arrive, work
<1>8. CASE UNCHANGED vars
  BY <1>8 DEF vars
<1> QED BY <1>1, <1>2, <1>3, <1>4, <1>5, <1>6, <1>7, <1>8 DEF Next, Instruction, Loop

LEMMA TypesStep == SerialTypes /\ [Next]_vars => SerialTypes'
BY SequenceTypesStep, FlagTypesStep DEF SerialTypes

-----------------------------------------------------------------------------
(* Bytes in order, all of them.                                            *)
LEMMA ArrivalsStep ==
  ASSUME SerialTypes, Arrivals, [Next]_vars
  PROVE  Arrivals'
<1> USE DEF SerialTypes, SequenceTypes, ControlTypes
<1>1. CASE UNCHANGED <<inbox, arrived>>
  BY <1>1 DEF Arrivals
<1>2. ASSUME NEW P \in Seq(Bytes), NEW Q \in Seq(Bytes), Took(P, Q), UNCHANGED arrived
      PROVE  Arrivals'
  <2>1. inbox' = [inbox EXCEPT ![link] = Q]
    BY <1>2 DEF Took
  <2>2. ToSet(Q) \subseteq ToSet(inbox[link])
    BY <1>2, BytesConcat DEF Took
  <2> QED BY <1>2, <2>1, <2>2 DEF Arrivals
<1>3. ASSUME NEW l \in Links, Arrive(l)
      PROVE  Arrivals'
  <2> DEFINE last == Len(arrived) + 1
  <2>1. /\ inbox' = [inbox EXCEPT ![l] = inbox[l] \o <<last>>]
        /\ Bytes' = Bytes \cup {last}
        /\ \A b \in Bytes : arrived'[b] = arrived[b]
        /\ arrived'[last] = l
    BY <1>3, Arrives
  <2>2. inbox[l] \in Seq(Bytes')
    BY <2>1, SeqMonotonic
  <2>4. ToSet(inbox[l] \o <<last>>) = ToSet(inbox[l]) \cup {last}
    <3>1. PICK S : S = Bytes'
      OBVIOUS
    <3>2. inbox[l] \in Seq(S) /\ last \in S
      BY <2>1, <2>2, <3>1
    <3> QED BY <3>2, OneMoreByte
  <2>5. \A k \in Links : ToSet(inbox[k]) \subseteq Bytes
    BY BytesOfSeq
  <2> HIDE DEF last
  <2> QED BY <2>1, <2>4, <2>5 DEF Arrivals
<1> QED
  <2>1. ASSUME NEW fds, NEW told, ReceiveChar(fds, told), UNCHANGED arrived
        PROVE  Arrivals'
    <3>1. CASE NothingReceived(told)
      BY <1>1, <2>1, <3>1 DEF NothingReceived
    <3> QED BY <1>2, <2>1, <3>1, Receives
  <2> QED BY <1>1, <1>3, <2>1, StepsThatMoveBytes

LEMMA OrderStep ==
  ASSUME SerialTypes, Arrivals, InArrivalOrder, [Next]_vars
  PROVE  InArrivalOrder'
<1> USE DEF SerialTypes, SequenceTypes, ControlTypes
<1>1. CASE UNCHANGED <<inbox, buf, loaded, arrived>>
  BY <1>1 DEF InArrivalOrder, Held
<1>2. /\ loaded \in Seq(Bytes) /\ buf \in Seq(Bytes) /\ Held \in Seq(Bytes)
      /\ \A l \in Links : inbox[l] \in Seq(Bytes)
  BY ConcatProperties DEF Held
<1>3. ASSUME NEW P \in Seq(Bytes), NEW Q \in Seq(Bytes), Took(P, Q), UNCHANGED arrived,
             \/ Held' = loaded
             \/ Held' = Held \o P
      PROVE  InArrivalOrder'
  <2>1. /\ inbox[link] = P \o Q /\ inbox' = [inbox EXCEPT ![link] = Q]
        /\ arrived' = arrived
    BY <1>3 DEF Took
  <2>2. /\ Ordered(arrived, P) /\ Ordered(arrived, Q)
        /\ Before(arrived, ToSet(P), ToSet(Q))
    <3>1. Ordered(arrived, P \o Q)
      BY <2>1 DEF InArrivalOrder
    <3> QED BY <3>1, OrderedConcat
  <2>3. /\ ToSet(inbox[link]) = ToSet(P) \cup ToSet(Q)
        /\ ToSet(Held) = ToSet(loaded) \cup ToSet(buf)
        /\ ToSet(Held \o P) = ToSet(Held) \cup ToSet(P)
    <3>1. ToSet(P \o Q) = ToSet(P) \cup ToSet(Q)
      BY BytesConcat
    <3>2. ToSet(loaded \o buf) = ToSet(loaded) \cup ToSet(buf)
      BY <1>2, BytesConcat
    <3>3. ToSet(Held \o P) = ToSet(Held) \cup ToSet(P)
      BY <1>2, BytesConcat
    <3> QED BY <2>1, <3>1, <3>2, <3>3 DEF Held
  <2>4. Before(arrived, ToSet(Held), ToSet(P)) /\ Before(arrived, ToSet(Held), ToSet(Q))
    <3>1. Before(arrived, ToSet(Held), ToSet(inbox[link]))
      BY DEF InArrivalOrder
    <3> QED BY <2>3, <3>1 DEF Before
  <2>5. ASSUME NEW l \in Links, l # link
        PROVE  Before(arrived, ToSet(P), ToSet(inbox[l]))
    BY <2>3, <2>5 DEF Arrivals, Before
  <2>6. Ordered(arrived, loaded) /\ Ordered(arrived, Held \o P)
    <3>1. Ordered(arrived, Held)
      BY DEF InArrivalOrder
    <3>2. Ordered(arrived, loaded)
      BY <1>2, <3>1, OrderedConcat DEF Held
    <3>3. Ordered(arrived, Held \o P)
      BY <1>2, <2>2, <2>4, <3>1, OrderedConcat
    <3> QED BY <3>2, <3>3
  <2>7. ToSet(Held') \subseteq ToSet(Held) \cup ToSet(P)
    BY <1>3, <2>3
  <2>8. ASSUME NEW l \in Links
        PROVE  /\ Ordered(arrived, inbox'[l])
               /\ Before(arrived, ToSet(Held'), ToSet(inbox'[l]))
    <3>1. CASE l = link
      <4>1. inbox'[l] = Q
        BY <2>1, <3>1
      <4> QED BY <2>2, <2>4, <2>7, <4>1 DEF Before
    <3>2. CASE l # link
      <4>1. inbox'[l] = inbox[l]
        BY <2>1, <3>2
      <4>2. Before(arrived, ToSet(Held), ToSet(inbox[l])) /\ Ordered(arrived, inbox[l])
        BY DEF InArrivalOrder
      <4> QED BY <2>5, <2>7, <3>2, <4>1, <4>2 DEF Before
    <3> QED BY <3>1, <3>2
  <2> QED BY <1>3, <2>1, <2>6, <2>8 DEF InArrivalOrder
<1>4. ASSUME NEW fds, NEW told, ReceiveChar(fds, told), UNCHANGED arrived
      PROVE  InArrivalOrder'
  <2>1. CASE NothingReceived(told)
    BY <1>1, <1>4, <2>1 DEF NothingReceived
  <2>2. CASE ~NothingReceived(told)
    <3>1. PICK P, Q \in Seq(Bytes) :
            /\ Took(P, Q) /\ buf \o P # <<>>
            /\ Discard(buf \o P, told) \/ Load(buf \o P)
      BY <1>4, <2>2, Receives
    <3>2. CASE Discard(buf \o P, told)
      <4>1. Held' = loaded \o <<>>
        BY <3>2 DEF Discard, Held
      <4> QED BY <1>2, <1>3, <1>4, <3>1, <4>1, ConcatEmptySeq
    <3>3. CASE Load(buf \o P)
      <4>1. Held' = Held \o P
        BY <3>1, <3>3, Loads DEF Held
      <4> QED BY <1>3, <1>4, <3>1, <4>1
    <3> QED BY <3>1, <3>2, <3>3
  <2> QED BY <2>1, <2>2
<1>5. ASSUME NEW l \in Links, Arrive(l)
      PROVE  InArrivalOrder'
  <2> DEFINE last == Len(arrived) + 1
  <2>1. /\ inbox' = [inbox EXCEPT ![l] = inbox[l] \o <<last>>]
        /\ Bytes' = Bytes \cup {last}
        /\ \A b \in Bytes : arrived'[b] = arrived[b]
        /\ Held' = Held
    BY <1>5, Arrives DEF Held
  <2>2. \A b \in Bytes : b < last
    BY LenProperties DEF Bytes
  <2>3. <<last>> \in Seq(Bytes') /\ ToSet(<<last>>) = {last} /\ Ordered(arrived', <<last>>)
    BY <2>1 DEF ToSet, Ordered
  <2> HIDE DEF last
  <2>4. /\ ToSet(Held) \subseteq Bytes
        /\ \A k \in Links : ToSet(inbox[k]) \subseteq Bytes
    BY <1>2, BytesOfSeq
  <2>5. /\ Ordered(arrived', Held)
        /\ \A k \in Links : Ordered(arrived', inbox[k])
    BY <1>2, <2>1, OrderOfOwnBytes DEF InArrivalOrder
  <2>6. \A k \in Links : Before(arrived', ToSet(Held), ToSet(inbox[k]))
    BY <2>1, <2>4 DEF InArrivalOrder, Before
  <2>7. inbox[l] \in Seq(Bytes')
    BY <1>2, <2>1, SeqMonotonic
  <2>8. ToSet(inbox[l] \o <<last>>) = ToSet(inbox[l]) \cup {last}
    <3>1. PICK S : S = Bytes'
      OBVIOUS
    <3>2. inbox[l] \in Seq(S) /\ last \in S
      BY <2>1, <2>7, <3>1
    <3> QED BY <3>2, OneMoreByte
  <2>9. Before(arrived', ToSet(inbox[l]), {last}) /\ Before(arrived', ToSet(Held), {last})
    BY <2>2, <2>4 DEF Before
  <2>10. Ordered(arrived', inbox[l] \o <<last>>)
    BY <2>3, <2>5, <2>7, <2>9, OrderedConcat
  <2>11. Before(arrived', ToSet(Held), ToSet(inbox[l] \o <<last>>))
    BY <2>6, <2>8, <2>9 DEF Before
  <2>12. \A k \in Links : inbox'[k] = IF k = l THEN inbox[l] \o <<last>> ELSE inbox[k]
    BY <2>1
  <2> QED BY <2>1, <2>5, <2>6, <2>10, <2>11, <2>12 DEF InArrivalOrder
<1> QED BY <1>1, <1>4, <1>5, StepsThatMoveBytes

LEMMA NoneLostStep ==
  ASSUME SerialTypes, NoneLost, [Next]_vars
  PROVE  NoneLost'
<1> USE DEF SerialTypes, SequenceTypes, ControlTypes
<1>0. /\ loaded \in Seq(Bytes) /\ buf \in Seq(Bytes) /\ Held \in Seq(Bytes)
      /\ \A l \in Links : inbox[l] \in Seq(Bytes)
      /\ \A b \in Bytes : arrived[b] \in Links
  BY ConcatProperties, LenProperties DEF Held, Bytes
<1>1. \A b \in Bytes : \/ b \in ToSet(Held) \cup ToSet(inbox[arrived[b]])
                       \/ <<b, FALSE>> \in dropped
  BY <1>0, BytesConcat DEF NoneLost
<1>2. SerialTypes'
  BY TypesStep
<1>3. SUFFICES ASSUME NEW b \in Bytes',
                      b \notin ToSet(Held') \cup ToSet(inbox'[arrived'[b]])
               PROVE  <<b, FALSE>> \in dropped'
  <2>1. PICK S : S = Bytes'
    OBVIOUS
  <2>2. ASSUME NEW b \in S PROVE Held' \in Seq(S) /\ inbox'[arrived'[b]] \in Seq(S)
    <3>1. loaded' \in Seq(S) /\ buf' \in Seq(S) /\ inbox' \in [Links -> Seq(S)]
      BY <1>2, <2>1
    <3>2. b \in 1 .. Len(arrived') /\ arrived' \in Seq(Links)
      BY <1>2, <2>1, <2>2 DEF Bytes
    <3>3. arrived'[b] \in Links
      BY <3>2, ElementOfSeq
    <3> QED BY <3>1, <3>3, ConcatProperties DEF Held
  <2>3. \A b \in S : ToSet(Held' \o inbox'[arrived'[b]])
                       = ToSet(Held') \cup ToSet(inbox'[arrived'[b]])
    BY <2>2, BytesConcat
  <2> QED BY <2>1, <2>3 DEF NoneLost
<1>4. CASE UNCHANGED <<inbox, buf, loaded, dropped, arrived>>
  BY <1>1, <1>3, <1>4 DEF Held, Bytes
<1>5. ASSUME NEW P \in Seq(Bytes), NEW Q \in Seq(Bytes), Took(P, Q), UNCHANGED arrived
      PROVE  b \in ToSet(Held) \cup ToSet(P) \/ <<b, FALSE>> \in dropped
  <2>1. b \in Bytes /\ inbox[link] = P \o Q /\ inbox' = [inbox EXCEPT ![link] = Q]
    BY <1>5 DEF Took, Bytes
  <2>2. ToSet(inbox[link]) = ToSet(P) \cup ToSet(Q)
    BY <2>1, BytesConcat
  <2>3. CASE arrived[b] = link
    BY <1>1, <1>3, <1>5, <2>1, <2>2, <2>3
  <2>4. CASE arrived[b] # link
    <3>1. inbox'[arrived'[b]] = inbox[arrived[b]]
      BY <1>0, <1>5, <2>1, <2>4
    <3> QED BY <1>1, <1>3, <2>1, <3>1
  <2> QED BY <2>3, <2>4
<1>6. ASSUME NEW fds, NEW told, ReceiveChar(fds, told), UNCHANGED arrived
      PROVE  <<b, FALSE>> \in dropped'
  <2>1. CASE NothingReceived(told)
    BY <1>4, <1>6, <2>1 DEF NothingReceived
  <2>2. CASE ~NothingReceived(told)
    <3>1. PICK P, Q \in Seq(Bytes) :
            /\ Took(P, Q) /\ buf \o P # <<>>
            /\ Discard(buf \o P, told) \/ Load(buf \o P)
      BY <1>6, <2>2, Receives
    <3>2. b \in ToSet(Held) \cup ToSet(P) \/ <<b, FALSE>> \in dropped
      BY <1>5, <1>6, <3>1
    <3>3. /\ ToSet(Held) = ToSet(loaded) \cup ToSet(buf)
          /\ ToSet(buf \o P) = ToSet(buf) \cup ToSet(P)
          /\ ToSet(Held \o P) = ToSet(Held) \cup ToSet(P)
      <4>1. ToSet(loaded \o buf) = ToSet(loaded) \cup ToSet(buf)
        BY <1>0, BytesConcat
      <4>2. ToSet(buf \o P) = ToSet(buf) \cup ToSet(P)
        BY <1>0, BytesConcat
      <4>3. ToSet(Held \o P) = ToSet(Held) \cup ToSet(P)
        BY <1>0, BytesConcat
      <4> QED BY <4>1, <4>2, <4>3 DEF Held
    <3>4. CASE Discard(buf \o P, told)
      <4>1. /\ Held' = loaded \o <<>> /\ "enable" \notin io_ctrl
            /\ dropped' = dropped \cup {<<x, "enable" \in io_ctrl>> : x \in ToSet(buf \o P)}
        BY <3>4 DEF Discard, Discards, Held
      <4>2. Held' = loaded
        BY <1>0, <4>1, ConcatEmptySeq
      <4>3. \A x \in ToSet(buf) \cup ToSet(P) : <<x, FALSE>> \in dropped'
        <5>1. ("enable" \in io_ctrl) = FALSE
          BY <4>1
        <5> QED BY <3>3, <4>1, <5>1
      <4>4. b \notin ToSet(loaded)
        BY <1>3, <4>2
      <4>5. dropped \subseteq dropped'
        BY <4>1
      <4> QED BY <3>2, <3>3, <4>3, <4>4, <4>5
    <3>5. CASE Load(buf \o P)
      <4>1. Held' = Held \o P /\ dropped' = dropped
        BY <3>1, <3>5, Loads DEF Held
      <4> QED BY <1>3, <3>2, <3>3, <4>1
    <3> QED BY <3>1, <3>4, <3>5
  <2> QED BY <2>1, <2>2
<1>7. ASSUME NEW l \in Links, Arrive(l)
      PROVE  <<b, FALSE>> \in dropped'
  <2> DEFINE last == Len(arrived) + 1
  <2>1. /\ inbox' = [inbox EXCEPT ![l] = inbox[l] \o <<last>>]
        /\ Bytes' = Bytes \cup {last}
        /\ \A c \in Bytes : arrived'[c] = arrived[c]
        /\ arrived'[last] = l
        /\ Held' = Held /\ dropped' = dropped
    BY <1>7, Arrives DEF Held
  <2> HIDE DEF last
  <2>2. ToSet(inbox[l] \o <<last>>) = ToSet(inbox[l]) \cup {last}
    <3>1. PICK S : S = Bytes'
      OBVIOUS
    <3>2. inbox[l] \in Seq(S) /\ last \in S
      BY <1>0, <2>1, <3>1, SeqMonotonic
    <3> QED BY <3>2, OneMoreByte
  <2>3. CASE b = last
    BY <1>3, <2>1, <2>2, <2>3
  <2>4. CASE b \in Bytes
    <3>1. ToSet(inbox[arrived[b]]) \subseteq ToSet(inbox'[arrived'[b]])
      BY <1>0, <2>1, <2>2, <2>4
    <3> QED BY <1>1, <1>3, <2>1, <2>4, <3>1
  <2> QED BY <2>1, <2>3, <2>4
<1> QED BY <1>4, <1>6, <1>7, StepsThatMoveBytes

-----------------------------------------------------------------------------
(* What one call of receive_char does to the byte in rbr and to the buffer.*)
LEMMA ReceivedByte ==
  ASSUME SerialTypes, Arrivals, BufferFromLink, EmptiedIsSeen, NEW fds, NEW told,
         ReceiveChar(fds, told), UNCHANGED <<link, arrived>>
  PROVE  /\ BufferFromLink' /\ EmptiedIsSeen'
         /\ loaded' # loaded => seen /\ (switched \/ arrived[rbr'] = link)
<1> USE DEF SerialTypes, SequenceTypes, ControlTypes
<1>1. CASE NothingReceived(told)
  BY <1>1 DEF NothingReceived, BufferFromLink, EmptiedIsSeen
<1>2. CASE ~NothingReceived(told)
  <2>1. PICK P, Q \in Seq(Bytes) :
          /\ Took(P, Q) /\ buf \o P # <<>>
          /\ Discard(buf \o P, told) \/ Load(buf \o P)
    BY <1>2, Receives
  <2>2. seen
    BY <2>1 DEF Took, EmptiedIsSeen
  <2>3. \A b \in ToSet(P) : arrived[b] = link
    <3>1. ToSet(inbox[link]) = ToSet(P) \cup ToSet(Q)
      BY <2>1, BytesConcat DEF Took
    <3> QED BY <3>1 DEF Arrivals
  <2>4. switched \/ \A b \in ToSet(buf) \cup ToSet(P) : arrived[b] = link
    BY <2>3 DEF BufferFromLink
  <2>5. ~switched' => ~switched \/ ToSet(buf) = {}
    <3>1. ToSet(<<>>) = {}
      BY DEF ToSet
    <3>2. switched' = (switched /\ buf # <<>>)
      BY <2>1 DEF Took
    <3> QED BY <3>1, <3>2
  <2>6. CASE Discard(buf \o P, told)
    <3>1. buf' = <<>> /\ ToSet(buf') = {} /\ UNCHANGED <<full, seen, loaded>>
      BY <2>6 DEF Discard, ToSet
    <3> QED BY <2>2, <3>1 DEF BufferFromLink, EmptiedIsSeen
  <2>7. CASE Load(buf \o P)
    <3>1. /\ rbr' \in ToSet(buf) \cup ToSet(P)
          /\ ToSet(buf') \subseteq ToSet(buf) \cup ToSet(P)
      BY <2>1, <2>7, Loads
    <3>2. full' = TRUE
      BY <2>7 DEF Load
    <3>3. BufferFromLink'
      BY <2>3, <2>4, <2>5, <3>1 DEF BufferFromLink
    <3>4. EmptiedIsSeen'
      BY <3>2 DEF EmptiedIsSeen
    <3> QED BY <2>2, <2>4, <3>1, <3>3, <3>4
  <2> QED BY <2>1, <2>6, <2>7
<1> QED BY <1>1, <1>2

LEMMA ReceivedStep ==
  ASSUME SerialTypes, Arrivals, BufferFromLink, EmptiedIsSeen, [Next]_vars
  PROVE  /\ BufferFromLink' /\ EmptiedIsSeen'
         /\ loaded' # loaded => seen /\ (switched \/ arrived[rbr'] = link)
<1>1. ASSUME NEW i \in DOMAIN Registers, NEW j \in i .. Len(Registers), Store(i, j)
      PROVE  BufferFromLink' /\ EmptiedIsSeen' /\ loaded' = loaded
  <2> DEFINE covered == {Registers[k] : k \in i .. j}
  <2>1. /\ full' \in (IF "RCS" \in covered THEN BOOLEAN ELSE {full})
        /\ seen' = (seen \/ ("RCS" \in covered /\ ~full'))
        /\ switched' = (switched \/ (link' # link /\ buf # <<>>))
        /\ UNCHANGED <<buf, arrived, loaded>>
    BY <1>1 DEF Store
  <2> HIDE DEF covered
  <2>2. EmptiedIsSeen'
    BY <2>1 DEF EmptiedIsSeen
  <2>3. ToSet(<<>>) = {}
    BY DEF ToSet
  <2>4. BufferFromLink'
    BY <2>1, <2>3 DEF BufferFromLink
  <2> QED BY <2>1, <2>2, <2>4
<1>2. CASE ReadRbr
  BY <1>2 DEF ReadRbr, BufferFromLink, EmptiedIsSeen
<1>3. CASE \/ OtherInstruction \/ ScheduleEvent \/ SkipReceiver \/ NextInstruction
           \/ BreakpointHit \/ UNCHANGED vars
  BY <1>3 DEF OtherInstruction, ScheduleEvent, SkipReceiver, NextInstruction,
     BreakpointHit, port, history, vars, BufferFromLink, EmptiedIsSeen
<1>4. CASE CheckDevices
  <2>1. CASE ReceiveChar(open', TellsOfFull)
    BY <1>4, <2>1, ReceivedByte DEF CheckDevices
  <2>2. CASE NothingReceived(TellsOfFull)
    BY <1>4, <2>2 DEF CheckDevices, NothingReceived, BufferFromLink, EmptiedIsSeen
  <2> QED BY <1>4, <2>1, <2>2 DEF CheckDevices
<1>5. CASE PollReceiver \/ SleepReceive
  BY <1>5, ReceivedByte DEF PollReceiver, SleepReceive
<1>6. ASSUME NEW l \in Links, Arrive(l)
      PROVE  BufferFromLink' /\ EmptiedIsSeen' /\ loaded' = loaded
  <2>1. /\ UNCHANGED <<link, full, buf, loaded, seen, switched>>
        /\ \A b \in Bytes : arrived'[b] = arrived[b]
    <3>1. \A b \in Bytes : arrived'[b] = arrived[b]
      BY <1>6, Arrives DEF SerialTypes, SequenceTypes, ControlTypes
    <3> QED BY <1>6, <3>1 DEF Arrive
  <2>2. ToSet(buf) \subseteq Bytes
    BY BytesOfSeq DEF SerialTypes, SequenceTypes
  <2> QED BY <2>1, <2>2 DEF BufferFromLink, EmptiedIsSeen
<1> QED BY <1>1, <1>2, <1>3, <1>4, <1>5, <1>6 DEF Next, Instruction, Loop

-----------------------------------------------------------------------------
(* The announcement of the byte in rbr.                                    *)
LEMMA AnnouncedStep ==
  ASSUME SerialTypes, SilentOnlyTouched, TouchedIsChecked, [Next]_vars
  PROVE  SilentOnlyTouched' /\ TouchedIsChecked'
<1> USE DEF SilentOnlyTouched, TouchedIsChecked
<1>1. ASSUME NEW i \in DOMAIN Registers, NEW j \in i .. Len(Registers), Store(i, j)
      PROVE  SilentOnlyTouched' /\ TouchedIsChecked'
  <2> DEFINE covered == {Registers[k] : k \in i .. j}
  <2>1. /\ io_ctrl' \in (IF "IOC" \in covered THEN SUBSET {"rx", "enable"} ELSE {io_ctrl})
        /\ full' \in (IF "RCS" \in covered THEN BOOLEAN ELSE {full})
        /\ touched' = touched \cup (covered \cap {"BAUD", "IOC", "TBR"})
        /\ forced' = (forced \/ "RCS" \in covered)
        /\ device_check' = TRUE /\ due' = TRUE /\ loc' = "end" /\ asked' = asked
    BY <1>1 DEF Store
  <2> HIDE DEF covered
  <2>2. "RCS" \notin covered => full' = full
    BY <2>1
  <2>3. "IOC" \notin covered => io_ctrl' = io_ctrl
    BY <2>1
  <2>4. SilentOnlyTouched'
    BY <2>1, <2>2, <2>3
  <2> QED BY <2>1, <2>4
<1>2. CASE ReadRbr
  BY <1>2 DEF ReadRbr
<1>3. CASE OtherInstruction \/ ScheduleEvent \/ NextInstruction
  BY <1>3 DEF OtherInstruction, ScheduleEvent, NextInstruction, port, work, history
<1>4. CASE BreakpointHit
  BY <1>4 DEF BreakpointHit, port, work
<1>5. CASE SkipReceiver
  BY <1>5 DEF SkipReceiver, port, history
<1>6. CASE CheckDevices
  <2>1. touched' = {} /\ io_ctrl' = io_ctrl
    BY <1>6 DEF CheckDevices
  <2>2. TellsOfFull \in BOOLEAN
    BY DEF TellsOfFull
  <2>3. \/ /\ asked' = (asked \/ TellsOfFull)
           /\ UNCHANGED <<full, forced>>
        \/ asked' = ("rx" \in io_ctrl)
    BY <1>6, <2>2, ReceiveFlags DEF CheckDevices, NothingReceived
  <2>4. full /\ ~forced /\ "rx" \in io_ctrl => asked \/ TellsOfFull
    BY DEF TellsOfFull
  <2>5. full' /\ ~forced' /\ "rx" \in io_ctrl' => asked'
    <3>1. CASE asked' = ("rx" \in io_ctrl)
      BY <2>1, <3>1
    <3>2. CASE asked' = (asked \/ TellsOfFull) /\ UNCHANGED <<full, forced>>
      BY <2>1, <2>4, <3>2
    <3> QED BY <2>3, <3>1, <3>2
  <2> QED BY <2>1, <2>5
<1>7. CASE PollReceiver \/ SleepReceive
  <2>1. /\ touched' = touched /\ io_ctrl' = io_ctrl /\ stopped' = stopped
        /\ loc # "end"
    BY <1>7 DEF PollReceiver, SleepReceive
  <2>2. \/ asked' = asked /\ UNCHANGED <<full, forced>>
        \/ asked' = ("rx" \in io_ctrl)
    <3>1. PICK fds : ReceiveChar(fds, FALSE)
      BY <1>7 DEF PollReceiver, SleepReceive
    <3>2. \/ asked' = (asked \/ FALSE) /\ UNCHANGED <<full, forced>>
          \/ asked' = ("rx" \in io_ctrl)
      BY <3>1, ReceiveFlags
    <3> QED BY <3>2 DEF SerialTypes, ReceiverTypes
  <2>3. SilentOnlyTouched'
    <3>1. CASE asked' = ("rx" \in io_ctrl)
      BY <2>1, <3>1
    <3>2. CASE asked' = asked /\ UNCHANGED <<full, forced>>
      BY <2>1, <3>2
    <3> QED BY <2>2, <3>1, <3>2
  <2> QED BY <2>1, <2>3
<1>8. ASSUME NEW l \in Links, Arrive(l)
      PROVE  SilentOnlyTouched' /\ TouchedIsChecked'
  BY <1>8 DEF Arrive, work
<1>9. CASE UNCHANGED vars
  BY <1>9 DEF vars
<1> QED BY <1>1, <1>2, <1>3, <1>4, <1>5, <1>6, <1>7, <1>8, <1>9
        DEF Next, Instruction, Loop

-----------------------------------------------------------------------------
SerialInv ==
  /\ SerialTypes
  /\ Arrivals /\ InArrivalOrder /\ NoneLost
  /\ BufferFromLink /\ EmptiedIsSeen
  /\ SilentOnlyTouched /\ TouchedIsChecked

LEMMA SerialInit == Init => SerialInv
<1> SUFFICES ASSUME Init PROVE SerialInv
  OBVIOUS
<1>1. SerialTypes
  BY TypesInit
<1>2. /\ loaded = <<>> /\ buf = <<>> /\ arrived = <<>>
      /\ \A l \in Links : inbox[l] = <<>>
  BY DEF Init
<1>3. Held = <<>>
  BY <1>2, ConcatEmptySeq, EmptySeq DEF Held
<1>4. ToSet(<<>>) = {} /\ Ordered(arrived, <<>>) /\ Bytes = {}
  BY <1>2 DEF ToSet, Ordered, Bytes
<1>5. Arrivals /\ InArrivalOrder /\ NoneLost
  BY <1>2, <1>3, <1>4 DEF Arrivals, InArrivalOrder, NoneLost, Before
<1>6. BufferFromLink /\ EmptiedIsSeen
  BY <1>2, <1>4 DEF Init, BufferFromLink, EmptiedIsSeen
<1>7. SilentOnlyTouched /\ TouchedIsChecked
  BY DEF Init, SilentOnlyTouched, TouchedIsChecked
<1> QED BY <1>1, <1>5, <1>6, <1>7 DEF SerialInv

LEMMA SerialStep == SerialInv /\ [Next]_vars => SerialInv'
<1> SUFFICES ASSUME SerialInv, [Next]_vars PROVE SerialInv'
  OBVIOUS
<1>1. SerialTypes' /\ Arrivals' /\ InArrivalOrder' /\ NoneLost'
  BY TypesStep, ArrivalsStep, OrderStep, NoneLostStep DEF SerialInv
<1>2. BufferFromLink' /\ EmptiedIsSeen' /\ SilentOnlyTouched' /\ TouchedIsChecked'
  BY ReceivedStep, AnnouncedStep DEF SerialInv
<1> QED BY <1>1, <1>2 DEF SerialInv

LEMMA SerialInvariant == Spec => []SerialInv
BY SerialInit, SerialStep, PTL DEF Spec

(* No byte is lost, doubled or received out of the order of its link,      *)
(* whatever receive_char finds in its buffer, on however many links and    *)
(* for every program that switches, disables and polls them.               *)
THEOREM BytesComeInOrder == Spec => []ReceivedInOrder
<1>1. SerialInv => ReceivedInOrder
  <2> SUFFICES ASSUME SerialInv PROVE ReceivedInOrder
    OBVIOUS
  <2>1. /\ Held \in Seq(Bytes) /\ \A l \in Links : inbox[l] \in Seq(Bytes)
    BY ConcatProperties DEF SerialInv, SerialTypes, SequenceTypes, Held
  <2>2. ASSUME NEW l \in Links PROVE InOrder(Held \o inbox[l])
    <3>1. Ordered(arrived, Held \o inbox[l])
      BY <2>1, OrderedConcat DEF SerialInv, InArrivalOrder
    <3>2. DOMAIN (Held \o inbox[l]) = 1 .. Len(Held \o inbox[l])
      BY <2>1, ConcatProperties, LenProperties
    <3> QED BY <3>1, <3>2 DEF InOrder, Ordered
  <2> QED BY <2>2 DEF SerialInv, NoneLost, ReceivedInOrder, Held
<1> QED BY <1>1, SerialInvariant, PTL

(* receive_char never puts a byte over one the program has not read.       *)
THEOREM UnreadIsKept == Spec => UnreadNotOverwritten
<1>1. SerialInv /\ [Next]_vars => [loaded' # loaded => seen]_vars
  BY ReceivedStep DEF SerialInv
<1> QED BY <1>1, SerialInvariant, PTL DEF Spec, UnreadNotOverwritten

(* A byte comes from the link selected unless the links were switched over *)
(* a buffer that still held bytes.                                         *)
THEOREM BytesAreOfTheLink == Spec => LoadedFromSelectedLink
<1>1. SerialInv /\ [Next]_vars
        => [loaded' # loaded => switched \/ arrived[rbr'] = link]_vars
  BY ReceivedStep DEF SerialInv
<1> QED BY <1>1, SerialInvariant, PTL DEF Spec, LoadedFromSelectedLink

(* No byte waits in rbr in silence with its interrupt enabled: the store   *)
(* that enables it is looked at before the next instruction.               *)
THEOREM ByteIsAnnounced == Spec => []FullIsAnnounced
<1>1. SerialInv => FullIsAnnounced
  BY DEF SerialInv, SilentOnlyTouched, TouchedIsChecked, FullIsAnnounced
<1> QED BY <1>1, SerialInvariant, PTL

=============================================================================
