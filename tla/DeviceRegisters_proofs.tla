----------------------- MODULE DeviceRegisters_proofs -----------------------
(***************************************************************************)
(* Proofs about module DeviceRegisters, for every program: whatever it     *)
(* stores, nibble by nibble and in any order, the display is the one its   *)
(* registers say, and the CRC is that of the nibbles it loads.             *)
(***************************************************************************)
EXTENDS DeviceRegisters, TLAPS

(* What is on the screen when the registers are regs, a line has npl       *)
(* nibbles and the display ends at end; and the end that is right.         *)
Screen(regs, npl, end) ==
  [on |-> regs[\h100] \div 8, offset |-> regs[\h100] % 8, lines |-> Lines(LineCount(regs)),
   nibs_per_line |-> npl, disp_start |-> 2 * (DispAddr(regs) \div 2), disp_end |-> end,
   menu_start |-> MenuAddr(regs), menu_end |-> MenuAddr(regs) + \h110,
   contrast |-> regs[\h101] + 16 * (regs[\h102] % 2),
   annunc |-> AnnuncBits(regs)]

EndOf(regs, npl) == 2 * (DispAddr(regs) \div 2) + npl * (Lines(LineCount(regs)) + 1)

Shown(regs, npl) == Screen(regs, npl, EndOf(regs, npl))

LineLengthOf(regs) == NibsPerLine(regs[\h100] % 8, LineOffset(regs))

RegisterTypes ==
  /\ io \in [Address -> 0 .. 15]
  /\ old_line_offset \in Int
  /\ reloaded \in BOOLEAN

(* A LINE_OFFSET that has not been taken over is the first there was.      *)
DisplayIsRight ==
  /\ display = Shown(io, display.nibs_per_line)
  /\ ~reloaded => /\ display.nibs_per_line = LineLengthOf(io)
                  /\ old_line_offset \in {-1, LineOffset(io)}

ChecksumIsRight == crc = sum /\ crc \in SUBSET (0 .. 15)

RegisterInv == RegisterTypes /\ DisplayIsRight /\ ChecksumIsRight

-----------------------------------------------------------------------------
(* Bits of numbers.                                                        *)
LEMMA DownBits ==
  ASSUME NEW s \in SUBSET (0 .. 15), NEW by \in 0 .. 15
  PROVE  \A i : i \in Down(s, by) <=> i \in 0 .. 15 /\ i + by \in s
<1>1. ASSUME NEW i, i \in Down(s, by)
      PROVE  i \in 0 .. 15 /\ i + by \in s
  <2>1. PICK j \in s \cap by .. 15 : i = j - by
    BY <1>1 DEF Down
  <2>2. j - by \in 0 .. 15 /\ (j - by) + by = j
    BY <2>1
  <2> QED BY <2>1, <2>2
<1>2. ASSUME NEW i \in 0 .. 15, i + by \in s
      PROVE  i \in Down(s, by)
  <2>1. i + by \in s \cap by .. 15 /\ (i + by) - by = i
    BY <1>2
  <2> QED BY <2>1 DEF Down
<1> QED BY <1>1, <1>2

LEMMA UpBits ==
  ASSUME NEW s \in SUBSET Int, NEW by \in Int
  PROVE  \A i \in Int : i \in Up(s, by) <=> i - by \in s
<1>1. ASSUME NEW i \in Int, i \in Up(s, by)
      PROVE  i - by \in s
  <2>1. PICK j \in s : i = j + by
    BY <1>1 DEF Up
  <2>2. i - by = j
    BY <2>1
  <2> QED BY <2>2
<1>2. ASSUME NEW i \in Int, i - by \in s
      PROVE  i \in Up(s, by)
  <2>1. (i - by) + by = i
    OBVIOUS
  <2> QED BY <1>2, <2>1 DEF Up
<1> QED BY <1>1, <1>2

(* The CRC after one more bit.                                             *)
LEMMA BitBits ==
  ASSUME NEW c \in SUBSET (0 .. 15), NEW nib, NEW b
  PROVE  /\ Bit(c, nib, b) \in SUBSET (0 .. 15)
         /\ \A i \in 0 .. 15 :
              i \in Bit(c, nib, b) <=>
                ~(i + 1 \in c <=> (i \in {3, 10, 15} /\ ~(0 \in c <=> b \in nib)))
<1>1. \A i : i \in Down(c, 1) <=> i \in 0 .. 15 /\ i + 1 \in c
  BY DownBits
<1>2. Bit(c, nib, b) = Xor(Down(c, 1), IF (0 \in c) = (b \in nib) THEN {} ELSE {3, 10, 15})
  BY DEF Bit
<1> QED BY <1>1, <1>2 DEF Xor

LEMMA FourBits ==
  ASSUME NEW c \in SUBSET (0 .. 15), NEW nib \in SUBSET (0 .. 3)
  PROVE  /\ Bitwise(c, nib) = calc_crc(c, nib)
         /\ calc_crc(c, nib) \in SUBSET (0 .. 15)
<1> DEFINE c1 == Bit(c, nib, 0)
           c2 == Bit(c1, nib, 1)
           c3 == Bit(c2, nib, 2)
           c4 == Bit(c3, nib, 3)
<1>1. /\ c1 \in SUBSET (0 .. 15)
      /\ \A i \in 0 .. 15 :
           i \in c1 <=> ~(i + 1 \in c <=> (i \in {3, 10, 15} /\ ~(0 \in c <=> 0 \in nib)))
  BY BitBits
<1>2. /\ c2 \in SUBSET (0 .. 15)
      /\ \A i \in 0 .. 15 :
           i \in c2 <=> ~(i + 1 \in c1 <=> (i \in {3, 10, 15} /\ ~(0 \in c1 <=> 1 \in nib)))
  <2> HIDE DEF c1
  <2> QED BY <1>1, BitBits
<1>3. /\ c3 \in SUBSET (0 .. 15)
      /\ \A i \in 0 .. 15 :
           i \in c3 <=> ~(i + 1 \in c2 <=> (i \in {3, 10, 15} /\ ~(0 \in c2 <=> 2 \in nib)))
  <2> HIDE DEF c2
  <2> QED BY <1>2, BitBits
<1>4. /\ c4 \in SUBSET (0 .. 15)
      /\ \A i \in 0 .. 15 :
           i \in c4 <=> ~(i + 1 \in c3 <=> (i \in {3, 10, 15} /\ ~(0 \in c3 <=> 3 \in nib)))
  <2> HIDE DEF c3
  <2> QED BY <1>3, BitBits
<1>5. Bitwise(c, nib) = c4
  BY DEF Bitwise
<1> DEFINE low == Xor(c, nib) \cap 0 .. 3
<1>6. low \in SUBSET Int /\ low \in SUBSET (0 .. 3)
      /\ \A i \in 0 .. 3 : i \in low <=> ~(i \in c <=> i \in nib)
  BY DEF Xor
<1>7. calc_crc(c, nib) = Xor(Down(c, 4), (low \cup Up(low, 7)) \cup Up(low, 12))
  BY DEF calc_crc
<1> HIDE DEF low, c1, c2, c3, c4
<1>8. /\ \A i : i \in Down(c, 4) <=> i \in 0 .. 15 /\ i + 4 \in c
      /\ \A i \in Int : i \in Up(low, 7) <=> i - 7 \in low
      /\ \A i \in Int : i \in Up(low, 12) <=> i - 12 \in low
  BY <1>6, DownBits, UpBits
<1>9. Up(low, 7) \in SUBSET (0 .. 15) /\ Up(low, 12) \in SUBSET (0 .. 15)
  BY <1>6 DEF Up
<1>10. calc_crc(c, nib) \in SUBSET (0 .. 15)
  <2>1. Down(c, 4) \in SUBSET (0 .. 15) /\ low \in SUBSET (0 .. 15)
    BY <1>6, <1>8
  <2> QED BY <1>7, <1>9, <2>1 DEF Xor
<1>11. \A i \in 0 .. 15 :
         i \in calc_crc(c, nib) <=>
           ~(i + 4 \in c <=> (i \in low \/ i - 7 \in low \/ i - 12 \in low))
  BY <1>7, <1>8 DEF Xor
<1>12. /\ 0 \in c1 <=> 1 \in c
       /\ 0 \in c2 <=> 2 \in c
       /\ 0 \in c3 <=> 3 \in c
  BY <1>1, <1>2, <1>3
<1>13. ASSUME NEW i \in 0 .. 15
       PROVE  i \in c4 <=> i \in calc_crc(c, nib)
  BY <1>1, <1>2, <1>3, <1>4, <1>6, <1>11, <1>12
<1> QED BY <1>4, <1>5, <1>10, <1>13

-----------------------------------------------------------------------------
(* The registers of several nibbles.                                       *)
LEMMA Addresses ==
  /\ \A a \in Address : a \in Nat
  /\ {\h100, \h101, \h102, \h10b, \h10b + 1} \subseteq Address
  /\ {\h120, \h120 + 1, \h120 + 2, (\h120 + 2) + 1, ((\h120 + 2) + 1) + 1} \subseteq Address
  /\ {\h125, \h125 + 1, (\h125 + 1) + 1} \subseteq Address
  /\ {\h128, \h128 + 1} \subseteq Address
  /\ {\h130, \h130 + 1, \h130 + 2, (\h130 + 2) + 1, ((\h130 + 2) + 1) + 1} \subseteq Address
BY SMT DEF Address, Plain

(* Ended sets the end of the display right, and nothing else.              *)
LEMMA EndedShown ==
  ASSUME NEW regs, NEW npl, NEW end
  PROVE  Ended(Screen(regs, npl, end)) = Shown(regs, npl)
<1>1. PICK d : d = Screen(regs, npl, end)
  OBVIOUS
<1>2. EndOf(regs, npl) = d.disp_start + d.nibs_per_line * (d.lines + 1)
  BY SMT, <1>1 DEF EndOf, Screen
<1>3. Ended(d) = [d EXCEPT !.disp_end = EndOf(regs, npl)]
  BY <1>2 DEF Ended
<1>4. [Screen(regs, npl, end) EXCEPT !.disp_end = EndOf(regs, npl)] = Shown(regs, npl)
  BY SMT DEF Screen, Shown
<1> QED BY <1>1, <1>3, <1>4

LEMMA InitDisplayShows ==
  ASSUME NEW regs, NEW npl
  PROVE  /\ Ended([InitDisplay(regs) EXCEPT !.nibs_per_line = npl]) = Shown(regs, npl)
         /\ InitDisplay(regs) = Shown(regs, LineLengthOf(regs))
<1>1. InitDisplay(regs) = Ended(Screen(regs, LineLengthOf(regs), 0))
  BY SMT DEF InitDisplay, Screen, LineLengthOf
<1>2. InitDisplay(regs) = Shown(regs, LineLengthOf(regs))
  BY <1>1, EndedShown
<1>3. PICK m, end : m = LineLengthOf(regs) /\ end = EndOf(regs, m)
  OBVIOUS
<1>4. [Screen(regs, m, end) EXCEPT !.nibs_per_line = npl] = Screen(regs, npl, end)
  BY SMT DEF Screen
<1>5. InitDisplay(regs) = Screen(regs, m, end)
  BY <1>2, <1>3 DEF Shown
<1>6. Ended([InitDisplay(regs) EXCEPT !.nibs_per_line = npl]) = Ended(Screen(regs, npl, end))
  BY <1>4, <1>5
<1> QED BY <1>2, <1>6, EndedShown

LEMMA NumbersAreNat ==
  ASSUME NEW regs \in [Address -> 0 .. 15]
  PROVE  /\ LineOffset(regs) \in Nat /\ LineCount(regs) \in Nat
         /\ DispAddr(regs) \in Nat /\ MenuAddr(regs) \in Nat
<1>1. \A a \in Address : regs[a] \in Nat
  BY SMT
<1>2. LineOffset(regs) \in Nat
  BY SMT, <1>1, Addresses DEF LineOffset, Pair, Triple
<1>3. LineCount(regs) \in Nat
  BY SMT, <1>1, Addresses DEF LineCount, Pair
<1>4. DispAddr(regs) \in Nat
  BY SMT, <1>1, Addresses DEF DispAddr, Pair, Triple, Quintuple
<1>5. MenuAddr(regs) \in Nat
  BY SMT, <1>1, Addresses DEF MenuAddr, Pair, Triple, Quintuple
<1> QED BY SMT, <1>2, <1>3, <1>4, <1>5

(* A store changes the number that its nibble is in, and no other.         *)
IsStored(stored, regs, a, n) ==
  /\ stored \in [Address -> 0 .. 15] /\ stored[a] = n
  /\ a # \h100 => stored[\h100] = regs[\h100]
  /\ a # \h101 => stored[\h101] = regs[\h101]
  /\ a # \h102 => stored[\h102] = regs[\h102]
  /\ a \notin \h10b .. \h10c => AnnuncBits(stored) = AnnuncBits(regs)
  /\ a \notin \h120 .. \h124 => DispAddr(stored) = DispAddr(regs)
  /\ a \notin \h125 .. \h127 => LineOffset(stored) = LineOffset(regs)
  /\ a \notin \h128 .. \h129 => LineCount(stored) = LineCount(regs)
  /\ a \notin \h130 .. \h134 => MenuAddr(stored) = MenuAddr(regs)

LEMMA StoredIn ==
  ASSUME NEW regs \in [Address -> 0 .. 15], NEW a \in Address, NEW n \in 0 .. 15,
         NEW stored, stored = [regs EXCEPT ![a] = n]
  PROVE  IsStored(stored, regs, a, n)
<1>1. /\ stored \in [Address -> 0 .. 15] /\ stored[a] = n
      /\ \A b \in Address : b # a => stored[b] = regs[b]
  BY SMT
<1>2. a \in Nat
  BY SMT, Addresses
<1>3. /\ a # \h100 => stored[\h100] = regs[\h100]
      /\ a # \h101 => stored[\h101] = regs[\h101]
      /\ a # \h102 => stored[\h102] = regs[\h102]
  BY SMT, <1>1, Addresses
<1>4. a \notin \h10b .. \h10c => AnnuncBits(stored) = AnnuncBits(regs)
  BY SMT, <1>1, <1>2, Addresses DEF AnnuncBits, Pair
<1>5. a \notin \h120 .. \h124 => DispAddr(stored) = DispAddr(regs)
  BY SMT, <1>1, <1>2, Addresses DEF DispAddr, Pair, Triple, Quintuple
<1>6. a \notin \h125 .. \h127 => LineOffset(stored) = LineOffset(regs)
  BY SMT, <1>1, <1>2, Addresses DEF LineOffset, Pair, Triple
<1>7. a \notin \h128 .. \h129 => LineCount(stored) = LineCount(regs)
  BY SMT, <1>1, <1>2, Addresses DEF LineCount, Pair
<1>8. a \notin \h130 .. \h134 => MenuAddr(stored) = MenuAddr(regs)
  BY SMT, <1>1, <1>2, Addresses DEF MenuAddr, Pair, Triple, Quintuple
<1> QED BY SMT, <1>1, <1>3, <1>4, <1>5, <1>6, <1>7, <1>8 DEF IsStored

-----------------------------------------------------------------------------
(* Which line length a store takes over.                                   *)
Taken(a, regs) == a \in \h125 .. \h127 /\ LineOffset(regs) # old_line_offset

LineAfter(a, n, regs) ==
  IF (a = \h100 /\ n # io[\h100]) \/ Taken(a, regs) THEN LineLengthOf(regs)
  ELSE display.nibs_per_line

(* The display after a store is again the one the registers say, but for   *)
(* the length of its lines.                                                *)
LEMMA UpdatedShows ==
  ASSUME io \in [Address -> 0 .. 15], display = Shown(io, display.nibs_per_line),
         NEW a \in Address, NEW n \in 0 .. 15, NEW regs, regs = [io EXCEPT ![a] = n]
  PROVE  Updated(a, n, regs) = Shown(regs, LineAfter(a, n, regs))
<1>1. PICK npl, end : npl = display.nibs_per_line /\ end = EndOf(io, npl)
  OBVIOUS
<1>2. display = Screen(io, npl, end)
  BY <1>1 DEF Shown
<1>3. /\ regs \in [Address -> 0 .. 15] /\ regs[a] = n
      /\ a # \h100 => regs[\h100] = io[\h100]
      /\ a # \h101 => regs[\h101] = io[\h101]
      /\ a # \h102 => regs[\h102] = io[\h102]
      /\ a \notin \h10b .. \h10c => AnnuncBits(regs) = AnnuncBits(io)
      /\ a \notin \h120 .. \h124 => DispAddr(regs) = DispAddr(io)
      /\ a \notin \h125 .. \h127 => LineOffset(regs) = LineOffset(io)
      /\ a \notin \h128 .. \h129 => LineCount(regs) = LineCount(io)
      /\ a \notin \h130 .. \h134 => MenuAddr(regs) = MenuAddr(io)
  <2>1. IsStored(regs, io, a, n)
    BY StoredIn
  <2> QED BY <2>1 DEF IsStored
<1>4. /\ io[\h100] \in 0 .. 15 /\ io[\h101] \in 0 .. 15 /\ io[\h102] \in 0 .. 15
      /\ LineCount(io) \in Nat /\ LineCount(regs) \in Nat
  <2>1. \A b \in Address : io[b] \in 0 .. 15
    BY SMT
  <2>2. LineCount(io) \in Nat
    BY NumbersAreNat
  <2>3. LineCount(regs) \in Nat
    BY <1>3, NumbersAreNat
  <2> QED BY SMT, <2>1, <2>2, <2>3, Addresses
<1>5. CASE a = \h100
  <2>1. Updated(a, n, regs) = DispIo(n)
    BY SMT, <1>5 DEF Updated, Plain
  <2>2. ~Taken(a, regs)
    BY SMT, <1>5 DEF Taken
  <2>3. CASE n = io[\h100]
    <3>1. regs = io /\ LineAfter(a, n, regs) = npl
      BY SMT, <1>1, <1>5, <2>2, <2>3 DEF LineAfter
    <3> QED BY SMT, <1>1, <1>2, <2>1, <2>3, <3>1 DEF DispIo, Shown
  <2>4. CASE n # io[\h100]
    <3>1. LineAfter(a, n, regs) = NibsPerLine(n % 8, LineOffset(io))
      BY SMT, <1>3, <1>5, <2>4 DEF LineAfter, LineLengthOf
    <3>2. PICK m : m = NibsPerLine(n % 8, LineOffset(io))
      OBVIOUS
    <3>3. DispIo(n) = Ended([display EXCEPT !.on = n \div 8, !.offset = n % 8,
                                            !.nibs_per_line = m])
      BY SMT, <2>4, <3>2 DEF DispIo
    <3>4. [display EXCEPT !.on = n \div 8, !.offset = n % 8, !.nibs_per_line = m]
            = Screen(regs, m, end)
      <4>1. PICK on, offset : on = n \div 8 /\ offset = n % 8
        OBVIOUS
      <4>2. regs[\h100] \div 8 = on /\ regs[\h100] % 8 = offset
        BY SMT, <1>3, <1>5, <4>1
      <4>3. [Screen(io, npl, end) EXCEPT !.on = on, !.offset = offset, !.nibs_per_line = m]
              = Screen(regs, m, end)
        <5>1. PICK d, e :
                /\ d = [on |-> on, offset |-> io[\h100] % 8, lines |-> Lines(LineCount(io)),
                        nibs_per_line |-> npl, disp_start |-> 2 * (DispAddr(io) \div 2),
                        disp_end |-> end, menu_start |-> MenuAddr(io),
                        menu_end |-> MenuAddr(io) + \h110,
                        contrast |-> io[\h101] + 16 * (io[\h102] % 2),
                        annunc |-> AnnuncBits(io)]
                /\ e = [on |-> on, offset |-> offset, lines |-> Lines(LineCount(io)),
                        nibs_per_line |-> npl, disp_start |-> 2 * (DispAddr(io) \div 2),
                        disp_end |-> end, menu_start |-> MenuAddr(io),
                        menu_end |-> MenuAddr(io) + \h110,
                        contrast |-> io[\h101] + 16 * (io[\h102] % 2),
                        annunc |-> AnnuncBits(io)]
          OBVIOUS
        <5>2. d = [Screen(io, npl, end) EXCEPT !.on = on]
          BY SMT, <5>1 DEF Screen
        <5>3. e = [d EXCEPT !.offset = offset]
          BY SMT, <5>1
        <5>4. [e EXCEPT !.nibs_per_line = m] = Screen(regs, m, end)
          BY SMT, <1>3, <1>5, <4>2, <5>1 DEF Screen
        <5> QED BY <5>2, <5>3, <5>4
      <4> QED BY <1>2, <4>1, <4>3
    <3>5. DispIo(n) = Shown(regs, m)
      BY <3>3, <3>4, EndedShown
    <3> QED BY SMT, <2>1, <3>1, <3>2, <3>5
  <2> QED BY SMT, <2>3, <2>4
<1>6. ASSUME a # \h100, ~Taken(a, regs)
      PROVE  LineAfter(a, n, regs) = npl
  BY SMT, <1>1, <1>6 DEF LineAfter
<1>7. ASSUME DispAddr(regs) = DispAddr(io), Lines(LineCount(regs)) = Lines(LineCount(io))
       PROVE  Shown(regs, npl) = Screen(regs, npl, end)
  BY SMT, <1>1, <1>7 DEF Shown, EndOf
<1>8. CASE a \in \h101 .. \h103
  <2>1. Updated(a, n, regs) = Contrast(a, n) /\ ~Taken(a, regs)
    BY SMT, <1>8 DEF Updated, Taken, Plain
  <2>0. Shown(regs, npl) = Screen(regs, npl, end)
    BY SMT, <1>3, <1>7, <1>8
  <2>2. CASE a = \h101
    <3>1. display.contrast = io[\h101] + 16 * (io[\h102] % 2)
      BY SMT, <1>2 DEF Screen
    <3>2. 16 * (display.contrast \div 16) = 16 * (io[\h102] % 2)
      BY SMT, <1>4, <3>1
    <3>3. Contrast(a, n) = [display EXCEPT !.contrast = 16 * (io[\h102] % 2) + n]
      BY SMT, <2>2, <3>2 DEF Contrast
    <3>4. 16 * (io[\h102] % 2) + n = regs[\h101] + 16 * (regs[\h102] % 2)
      BY SMT, <1>3, <1>4, <2>2
    <3>5. Contrast(a, n) = Screen(regs, npl, end)
      BY SMT, <1>2, <1>3, <2>2, <3>3, <3>4 DEF Screen
    <3> QED BY SMT, <1>6, <1>8, <2>0, <2>1, <3>5
  <2>3. CASE a = \h102
    <3>1. display.contrast = io[\h101] + 16 * (io[\h102] % 2)
      BY SMT, <1>2 DEF Screen
    <3>2. display.contrast % 16 = io[\h101]
      BY SMT, <1>4, <3>1
    <3>3. Contrast(a, n) = [display EXCEPT !.contrast = io[\h101] + 16 * (n % 2)]
      BY SMT, <2>3, <3>2 DEF Contrast
    <3>5. Contrast(a, n) = Screen(regs, npl, end)
      BY SMT, <1>2, <1>3, <2>3, <3>3 DEF Screen
    <3> QED BY SMT, <1>6, <1>8, <2>0, <2>1, <3>5
  <2>4. CASE a = \h103
    <3>1. Contrast(a, n) = display
      BY SMT, <2>4 DEF Contrast
    <3>2. Screen(regs, npl, end) = display
      BY SMT, <1>2, <1>3, <2>4 DEF Screen
    <3> QED BY SMT, <1>6, <2>1, <2>0, <2>4, <3>1, <3>2
  <2> QED BY SMT, <1>8, <2>2, <2>3, <2>4
<1>9. CASE a \in \h10b .. \h10c
  <2>1. Updated(a, n, regs) = Annunc(regs) /\ ~Taken(a, regs) /\ a # \h100
    BY SMT, <1>9 DEF Updated, Taken, Plain
  <2>2. Annunc(regs) = Screen(regs, npl, end)
    BY SMT, <1>2, <1>3, <1>9 DEF Annunc, Screen
  <2>3. Shown(regs, npl) = Screen(regs, npl, end)
    BY SMT, <1>3, <1>7, <1>9
  <2> QED BY SMT, <1>6, <2>1, <2>2, <2>3
<1>10. CASE a \in \h120 .. \h124
  <2>1. Updated(a, n, regs) = DispStart(regs) /\ ~Taken(a, regs) /\ a # \h100
    BY SMT, <1>10 DEF Updated, Taken, Plain
  <2>2. PICK start : start = 2 * (DispAddr(regs) \div 2)
    OBVIOUS
  <2>3. CASE display.disp_start = start
    <3>1. Screen(regs, npl, end) = display
      BY SMT, <1>2, <1>3, <1>10, <2>2, <2>3 DEF Screen
    <3>2. DispStart(regs) = display
      BY SMT, <2>2, <2>3 DEF DispStart
    <3>3. EndOf(regs, npl) = end
      BY SMT, <1>1, <1>2, <1>3, <1>10, <2>2, <2>3 DEF EndOf, Screen
    <3> QED BY SMT, <1>6, <2>1, <3>1, <3>2, <3>3 DEF Shown
  <2>4. CASE display.disp_start # start
    <3>1. DispStart(regs) = Ended([display EXCEPT !.disp_start = start])
      BY SMT, <2>2, <2>4 DEF DispStart
    <3>2. [display EXCEPT !.disp_start = start]
            = Screen(regs, npl, end)
      BY SMT, <1>2, <1>3, <1>10, <2>2 DEF Screen
    <3>3. DispStart(regs) = Shown(regs, npl)
      BY <3>1, <3>2, EndedShown
    <3> QED BY SMT, <1>6, <2>1, <3>3
  <2> QED BY SMT, <2>3, <2>4
<1>11. CASE a \in \h125 .. \h127
  <2>1. Updated(a, n, regs) = LineLength(regs) /\ a # \h100
    BY SMT, <1>11 DEF Updated, Plain
  <2>2. CASE Taken(a, regs)
    <3>1. LineAfter(a, n, regs) = LineLengthOf(regs)
      BY SMT, <2>2 DEF LineAfter
    <3>2. PICK m : m = LineLengthOf(regs)
      OBVIOUS
    <3>3. LineLength(regs) = Ended([display EXCEPT !.nibs_per_line = m])
      BY SMT, <1>2, <1>3, <2>1, <2>2, <3>2 DEF LineLength, Taken, LineLengthOf, Screen
    <3>4. [display EXCEPT !.nibs_per_line = m]
            = Screen(regs, m, end)
      BY SMT, <1>2, <1>3, <1>11 DEF Screen
    <3>5. LineLength(regs) = Shown(regs, m)
      BY <3>3, <3>4, EndedShown
    <3> QED BY SMT, <2>1, <3>1, <3>2, <3>5
  <2>3. CASE ~Taken(a, regs)
    <3>1. LineLength(regs) = display
      BY SMT, <1>11, <2>3 DEF LineLength, Taken
    <3>2. Screen(regs, npl, end) = display
      BY SMT, <1>2, <1>3, <1>11 DEF Screen
    <3>3. Shown(regs, npl) = Screen(regs, npl, end)
      BY SMT, <1>3, <1>7, <1>11
    <3> QED BY SMT, <1>6, <2>1, <2>3, <3>1, <3>2, <3>3
  <2> QED BY SMT, <2>2, <2>3
<1>12. CASE a \in \h128 .. \h129
  <2>1. Updated(a, n, regs) = LineNumber(regs) /\ ~Taken(a, regs) /\ a # \h100
    BY SMT, <1>12 DEF Updated, Taken, Plain
  <2>2. CASE display.lines = LineCount(regs) % 64
    <3>1. display.lines # 0
      BY SMT, <1>2, <1>4 DEF Screen, Lines
    <3>2. Lines(LineCount(regs)) = display.lines
      BY SMT, <2>2, <3>1 DEF Lines
    <3>3. Screen(regs, npl, end) = display
      BY SMT, <1>2, <1>3, <1>12, <3>2 DEF Screen
    <3>4. LineNumber(regs) = display
      BY SMT, <2>2 DEF LineNumber
    <3>5. Lines(LineCount(regs)) = Lines(LineCount(io))
      BY SMT, <1>2, <3>2 DEF Screen
    <3>6. Shown(regs, npl) = Screen(regs, npl, end)
      BY SMT, <1>3, <1>7, <1>12, <3>5
    <3> QED BY SMT, <1>6, <2>1, <3>3, <3>4, <3>6
  <2>3. CASE display.lines # LineCount(regs) % 64
    <3>1. PICK lines : lines = Lines(LineCount(regs))
      OBVIOUS
    <3>2. LineNumber(regs) = Ended([display EXCEPT !.lines = lines])
      BY SMT, <2>3, <3>1 DEF LineNumber
    <3>3. [display EXCEPT !.lines = lines]
            = Screen(regs, npl, end)
      BY SMT, <1>2, <1>3, <1>12, <3>1 DEF Screen
    <3>4. LineNumber(regs) = Shown(regs, npl)
      BY <3>2, <3>3, EndedShown
    <3> QED BY SMT, <1>6, <2>1, <3>4
  <2> QED BY SMT, <2>2, <2>3
<1>13. CASE a \in \h130 .. \h134
  <2>1. Updated(a, n, regs) = Menu(regs) /\ ~Taken(a, regs) /\ a # \h100
    BY SMT, <1>13 DEF Updated, Taken, Plain
  <2>2. Menu(regs) = [display EXCEPT !.menu_start = MenuAddr(regs),
                                     !.menu_end = MenuAddr(regs) + \h110]
    BY SMT DEF Menu
  <2>3. Menu(regs) = Screen(regs, npl, end)
    <3>1. PICK first, last : first = MenuAddr(regs) /\ last = MenuAddr(regs) + \h110
      OBVIOUS
    <3>2. [Screen(io, npl, end) EXCEPT !.menu_start = first, !.menu_end = last]
            = Screen(regs, npl, end)
      <4>1. /\ regs[\h100] = io[\h100] /\ regs[\h101] = io[\h101]
            /\ regs[\h102] = io[\h102] /\ AnnuncBits(regs) = AnnuncBits(io)
            /\ DispAddr(regs) = DispAddr(io) /\ LineCount(regs) = LineCount(io)
        BY SMT, <1>3, <1>13
      <4>2. PICK d :
              d = [on |-> io[\h100] \div 8, offset |-> io[\h100] % 8,
                   lines |-> Lines(LineCount(io)), nibs_per_line |-> npl,
                   disp_start |-> 2 * (DispAddr(io) \div 2), disp_end |-> end,
                   menu_start |-> first, menu_end |-> MenuAddr(io) + \h110,
                   contrast |-> io[\h101] + 16 * (io[\h102] % 2),
                   annunc |-> AnnuncBits(io)]
        OBVIOUS
      <4>3. d = [Screen(io, npl, end) EXCEPT !.menu_start = first]
        BY SMT, <4>2 DEF Screen
      <4>4. Screen(regs, npl, end) =
              [on |-> io[\h100] \div 8, offset |-> io[\h100] % 8,
               lines |-> Lines(LineCount(io)), nibs_per_line |-> npl,
               disp_start |-> 2 * (DispAddr(io) \div 2), disp_end |-> end,
               menu_start |-> first, menu_end |-> last,
               contrast |-> io[\h101] + 16 * (io[\h102] % 2),
               annunc |-> AnnuncBits(io)]
        BY <3>1, <4>1 DEF Screen
      <4>5. [d EXCEPT !.menu_end = last] = Screen(regs, npl, end)
        BY SMT, <4>2, <4>4
      <4> QED BY <4>3, <4>5
    <3> QED BY <1>2, <2>2, <3>1, <3>2
  <2>4. Shown(regs, npl) = Screen(regs, npl, end)
    BY SMT, <1>3, <1>7, <1>13
  <2> QED BY SMT, <1>6, <2>1, <2>3, <2>4
<1>14. CASE a \in Plain
  <2>1. /\ Updated(a, n, regs) = display /\ ~Taken(a, regs) /\ a \notin \h100 .. \h103
        /\ a \notin \h10b .. \h10c /\ a \notin \h120 .. \h129 /\ a \notin \h130 .. \h134
    BY SMT, <1>14 DEF Updated, Taken, Plain
  <2>2. Screen(regs, npl, end) = display
    BY SMT, <1>2, <1>3, <2>1 DEF Screen
  <2>3. Shown(regs, npl) = Screen(regs, npl, end)
    BY SMT, <1>3, <1>7, <2>1
  <2> QED BY SMT, <1>6, <2>1, <2>2, <2>3
<1> QED BY SMT, <1>5, <1>8, <1>9, <1>10, <1>11, <1>12, <1>13, <1>14 DEF Address

-----------------------------------------------------------------------------
LEMMA RegisterInit == Init => RegisterInv
<1> SUFFICES ASSUME Init PROVE RegisterInv
  OBVIOUS
<1>1. io \in [Address -> 0 .. 15] /\ old_line_offset = -1 /\ reloaded = FALSE
  BY SMT DEF Init
<1>2. display = Shown(io, LineLengthOf(io))
  BY InitDisplayShows DEF Init
<1>3. display.nibs_per_line = LineLengthOf(io)
  BY SMT, <1>2 DEF Shown, Screen
<1>4. crc = sum /\ crc \in SUBSET (0 .. 15)
  BY DEF Init
<1>5. RegisterTypes
  <2>1. old_line_offset \in Int
    BY SMT, <1>1
  <2> QED BY <1>1, <2>1 DEF RegisterTypes
<1>6. DisplayIsRight
  BY <1>1, <1>2, <1>3 DEF DisplayIsRight
<1> QED BY <1>4, <1>5, <1>6 DEF RegisterInv, ChecksumIsRight

LEMMA StoreKeeps ==
  ASSUME RegisterInv, RegisterAssumption, NEW s \in Stores, Store(s[1], s[2])
  PROVE  RegisterInv'
<1>1. s[1] \in Address /\ s[2] \in 0 .. 15
  BY DEF RegisterAssumption
<1>2. PICK a \in Address, n \in 0 .. 15 : a = s[1] /\ n = s[2]
  BY <1>1
<1>3. PICK regs : regs = [io EXCEPT ![a] = n]
  OBVIOUS
<1>4. /\ io' = regs /\ display' = Updated(a, n, regs) /\ crc' = crc /\ sum' = sum
      /\ old_line_offset' = IF Taken(a, regs) THEN LineOffset(regs) ELSE old_line_offset
      /\ reloaded' = (reloaded /\ ~Taken(a, regs))
  BY SMT, <1>2, <1>3 DEF Store, Taken, checksum
<1>5. /\ io \in [Address -> 0 .. 15] /\ old_line_offset \in Int /\ reloaded \in BOOLEAN
      /\ display = Shown(io, display.nibs_per_line)
  BY DEF RegisterInv, RegisterTypes, DisplayIsRight
<1>6. regs \in [Address -> 0 .. 15] /\ LineOffset(regs) \in Nat
      /\ regs[a] = n /\ (a # \h100 => regs[\h100] = io[\h100])
      /\ (a \notin \h125 .. \h127 => LineOffset(regs) = LineOffset(io))
  <2>1. IsStored(regs, io, a, n)
    BY <1>3, <1>5, StoredIn
  <2>2. /\ regs \in [Address -> 0 .. 15] /\ regs[a] = n
        /\ a # \h100 => regs[\h100] = io[\h100]
        /\ a \notin \h125 .. \h127 => LineOffset(regs) = LineOffset(io)
    BY SMT, <2>1 DEF IsStored
  <2>3. LineOffset(regs) \in Nat
    BY <2>2, NumbersAreNat
  <2> QED BY <2>2, <2>3
<1>7. display' = Shown(regs, LineAfter(a, n, regs))
  BY <1>3, <1>4, <1>5, UpdatedShows
<1>8. display'.nibs_per_line = LineAfter(a, n, regs)
  BY SMT, <1>7 DEF Shown, Screen
<1>9. display' = Shown(io', display'.nibs_per_line)
  BY <1>4, <1>7, <1>8
<1>10. RegisterTypes'
  <2>1. old_line_offset' \in Int
    BY SMT, <1>4, <1>5, <1>6
  <2>2. reloaded' \in BOOLEAN
    BY <1>4, <1>5
  <2> QED BY <1>4, <1>6, <2>1, <2>2 DEF RegisterTypes
<1>11. ASSUME ~reloaded'
       PROVE  /\ display'.nibs_per_line = LineLengthOf(regs)
              /\ old_line_offset' \in {-1, LineOffset(regs)}
  <2>1. CASE Taken(a, regs)
    BY SMT, <1>4, <1>8, <2>1 DEF LineAfter
  <2>2. CASE ~Taken(a, regs)
    <3>1. ~reloaded
      BY <1>4, <1>11, <2>2
    <3>2. /\ display.nibs_per_line = LineLengthOf(io)
          /\ old_line_offset \in {-1, LineOffset(io)}
      BY <3>1 DEF RegisterInv, DisplayIsRight
    <3>3. LineOffset(regs) = LineOffset(io)
      <4>1. CASE a \in \h125 .. \h127
        BY SMT, <1>6, <2>2, <3>2, <4>1 DEF Taken
      <4> QED BY <1>6, <4>1
    <3>4. old_line_offset' = old_line_offset
      BY SMT, <1>4, <2>2
    <3>5. CASE a = \h100 /\ n # io[\h100]
      BY SMT, <1>8, <3>2, <3>3, <3>4, <3>5 DEF LineAfter
    <3>6. CASE ~(a = \h100 /\ n # io[\h100])
      <4>1. regs[\h100] = io[\h100]
        BY SMT, <1>6, <3>6
      <4>2. LineLengthOf(regs) = LineLengthOf(io)
        BY SMT, <3>3, <4>1 DEF LineLengthOf
      <4> QED BY SMT, <1>8, <2>2, <3>2, <3>3, <3>4, <3>6, <4>2 DEF LineAfter
    <3> QED BY <3>5, <3>6
  <2> QED BY <2>1, <2>2
<1>12. DisplayIsRight'
  BY <1>4, <1>9, <1>11 DEF DisplayIsRight
<1>13. ChecksumIsRight'
  BY <1>4 DEF RegisterInv, ChecksumIsRight
<1> QED BY <1>10, <1>12, <1>13 DEF RegisterInv

-----------------------------------------------------------------------------
LEMMA ScreenStays ==
  ASSUME RegisterTypes, DisplayIsRight, UNCHANGED screen
  PROVE  RegisterTypes' /\ DisplayIsRight'
BY DEF RegisterTypes, DisplayIsRight, screen

LEMMA ChecksumStays ==
  ASSUME ChecksumIsRight, UNCHANGED checksum
  PROVE  ChecksumIsRight'
BY DEF ChecksumIsRight, checksum

LEMMA LoadNibbleKeeps ==
  ASSUME RegisterInv, RegisterAssumption, NEW nib \in Nibbles, LoadNibble(nib)
  PROVE  RegisterInv'
<1>1. nib \in SUBSET (0 .. 3) /\ crc \in SUBSET (0 .. 15) /\ sum = crc
  BY DEF RegisterInv, ChecksumIsRight, RegisterAssumption
<1>2. PICK c : c = crc
  OBVIOUS
<1>3. Bitwise(c, nib) = calc_crc(c, nib) /\ calc_crc(c, nib) \in SUBSET (0 .. 15)
  BY <1>1, <1>2, FourBits
<1>4. crc' = calc_crc(c, nib) /\ sum' = Bitwise(c, nib) /\ UNCHANGED screen
  BY <1>1, <1>2 DEF LoadNibble
<1>5. ChecksumIsRight'
  BY <1>3, <1>4 DEF ChecksumIsRight
<1> QED BY <1>4, <1>5, ScreenStays DEF RegisterInv

LEMMA StoreCrcKeeps ==
  ASSUME RegisterInv, RegisterAssumption,
         NEW i \in 0 .. 3, NEW nib \in Nibbles, StoreCrc(i, nib)
  PROVE  RegisterInv'
<1>1. nib \in SUBSET (0 .. 3) /\ crc \in SUBSET (0 .. 15)
  BY DEF RegisterInv, ChecksumIsRight, RegisterAssumption
<1>2. Up(nib, 4 * i) \in SUBSET (0 .. 15)
  <2>1. ASSUME NEW b \in nib
        PROVE  b + 4 * i \in 0 .. 15
    BY SMT, <1>1
  <2> QED BY <2>1 DEF Up
<1>3. crc' = (crc \ (4 * i .. 4 * i + 3)) \cup Up(nib, 4 * i) /\ sum' = crc'
  BY DEF StoreCrc
<1>4. crc' \in SUBSET (0 .. 15)
  BY <1>1, <1>2, <1>3
<1>5. UNCHANGED screen
  BY DEF StoreCrc
<1> QED BY <1>3, <1>4, <1>5, ScreenStays DEF RegisterInv, ChecksumIsRight

LEMMA LoadKeeps ==
  ASSUME RegisterInv, Load
  PROVE  RegisterInv'
<1>1. PICK regs : regs = [a \in Address |-> 0]
  OBVIOUS
<1>2. /\ io' = regs /\ display' = InitDisplay(regs) /\ crc' = {} /\ sum' = {}
      /\ reloaded' = TRUE /\ old_line_offset' = old_line_offset
  BY <1>1 DEF Load
<1>3. display' = Shown(regs, LineLengthOf(regs))
  BY <1>2, InitDisplayShows
<1>4. display'.nibs_per_line = LineLengthOf(regs)
  BY SMT, <1>3 DEF Shown, Screen
<1>5. DisplayIsRight'
  BY <1>2, <1>3, <1>4 DEF DisplayIsRight
<1>6. RegisterTypes'
  <2>1. regs \in [Address -> 0 .. 15]
    BY SMT, <1>1
  <2> QED BY <1>2, <2>1 DEF RegisterInv, RegisterTypes
<1>7. ChecksumIsRight'
  BY <1>2 DEF ChecksumIsRight
<1> QED BY <1>5, <1>6, <1>7 DEF RegisterInv

(* Every reachable state has the display and the CRC right.                *)
THEOREM RegisterInvariant == Spec => []RegisterInv
<1>1. ASSUME RegisterInv, [Next]_vars
      PROVE  RegisterInv'
  <2>1. ASSUME UNCHANGED screen, UNCHANGED checksum
        PROVE  RegisterInv'
    BY <1>1, <2>1, ScreenStays, ChecksumStays DEF RegisterInv
  <2>2. ASSUME NEW s \in Stores, Store(s[1], s[2])
        PROVE  RegisterInv'
    BY <1>1, <2>2, RegisterAssumption, StoreKeeps
  <2>3. CASE LoadLineNibble
    BY <2>1, <2>3 DEF LoadLineNibble
  <2>4. CASE Poll
    BY <2>1, <2>4 DEF Poll
  <2>5. ASSUME NEW l \in Wanted, WaitForLine(l)
        PROVE  RegisterInv'
    BY <2>1, <2>5 DEF WaitForLine
  <2>6. ASSUME NEW nib \in Nibbles, LoadNibble(nib)
        PROVE  RegisterInv'
    BY <1>1, <2>6, RegisterAssumption, LoadNibbleKeeps
  <2>7. ASSUME NEW nib \in Nibbles, NEW i \in 0 .. 3, StoreCrc(i, nib)
        PROVE  RegisterInv'
    BY <1>1, <2>7, RegisterAssumption, StoreCrcKeeps
  <2>8. CASE Load
    BY <1>1, <2>8, LoadKeeps
  <2>9. CASE UNCHANGED vars
    BY <2>1, <2>9 DEF vars
  <2> QED BY <1>1, <2>2, <2>3, <2>4, <2>5, <2>6, <2>7, <2>8, <2>9 DEF Next
<1> QED BY <1>1, RegisterInit, PTL DEF Spec

(* However the program stores the nibbles of the registers, write_dev_mem  *)
(* keeps the display the one init_display would make of them, but for the  *)
(* line length after a load.                                               *)
THEOREM DisplayIsOfTheRegisters == Spec => []DisplayFollowsRegisters
<1>1. ASSUME RegisterInv
      PROVE  DisplayFollowsRegisters
  <2>1. PICK npl : npl = display.nibs_per_line
    OBVIOUS
  <2>2. display = Shown(io, npl)
    BY <1>1, <2>1 DEF RegisterInv, DisplayIsRight
  <2>3. /\ Ended([InitDisplay(io) EXCEPT !.nibs_per_line = npl]) = Shown(io, npl)
        /\ InitDisplay(io) = Shown(io, LineLengthOf(io))
    BY InitDisplayShows
  <2>4. ~reloaded => display = InitDisplay(io)
    BY <1>1, <2>1, <2>2, <2>3 DEF RegisterInv, DisplayIsRight
  <2> QED BY <2>1, <2>2, <2>3, <2>4 DEF DisplayFollowsRegisters
<1> QED BY <1>1, RegisterInvariant, PTL

(* For every nibble and every CRC the multiplication of calc_crc is four   *)
(* steps of the CRC of CCITT, so the CRC is that of the nibbles loaded.    *)
THEOREM CrcIsOfCcitt == Spec => []CrcIsOfWhatIsLoaded
<1>1. RegisterInv => CrcIsOfWhatIsLoaded
  BY DEF RegisterInv, ChecksumIsRight, CrcIsOfWhatIsLoaded
<1> QED BY <1>1, RegisterInvariant, PTL
=============================================================================
