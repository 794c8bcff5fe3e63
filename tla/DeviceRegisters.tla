-------------------------- MODULE DeviceRegisters --------------------------
(***************************************************************************)
(* The device registers that hold more than a number (memory.c): those of  *)
(* the display, from which the emulator keeps a display_t up to date store *)
(* by store; LINE_COUNT, which counts the looks at it; and the CRC of what *)
(* the program loads.                                                      *)
(*                                                                         *)
(* A register of several nibbles is stored nibble by nibble, with a call   *)
(* of write_dev_mem each.  The serial registers are in module Serial, card *)
(* control in Interrupts, the timers in Clock, and what any store asks of  *)
(* schedule in Scheduler; the others hold what is stored in them.          *)
(***************************************************************************)
EXTENDS Integers

CONSTANTS
  Stores,   \* pairs of an address and a nibble the program stores there
  Nibbles,  \* nibbles the program loads
  Wanted    \* lines the program waits for

(* Power, mode, infrared control, LEDs, scratch pad, base nibble, unknown.  *)
Plain == \h108 .. \h10a \cup \h11a .. \h11f \cup \h12a .. \h12d \cup \h135 .. \h136

Address == \h100 .. \h103 \cup \h10b .. \h10c \cup \h120 .. \h129 \cup \h130 .. \h134
           \cup Plain
NoLine == -1

ASSUME RegisterAssumption ==
  /\ Stores \subseteq Address \X (0 .. 15)
  /\ Nibbles \subseteq SUBSET (0 .. 3)
  /\ Wanted \subseteq 0 .. 63

VARIABLES
  io,               \* the nibble stored at each address
  display,          \* display_t, kept up to date by the stores
  old_line_offset,  \* the LINE_OFFSET last taken over; -1 at the start
  line_counter,     \* -1 .. 63
  crc,              \* saturn.crc, as the set of its bits that are 1
  wanted,           \* the line the program waits for, or NoLine
  program,          \* bound: what the program is about
  sum,              \* history: the CRC bit by bit
  reloaded          \* history: `load` has come since LINE_OFFSET was taken over

screen == <<io, display, old_line_offset, reloaded>>
line == <<line_counter, wanted>>
checksum == <<crc, sum>>
vars == <<screen, line, checksum, program>>

(* The number in the two, three or five nibbles from a on.                 *)
Pair(regs, a) == regs[a] + 16 * regs[a + 1]
Triple(regs, a) == regs[a] + 16 * Pair(regs, a + 1)
Quintuple(regs, a) == Pair(regs, a) + 256 * Triple(regs, a + 2)

DispAddr(regs) == Quintuple(regs, \h120)
LineOffset(regs) == Triple(regs, \h125)
LineCount(regs) == Pair(regs, \h128)
MenuAddr(regs) == Quintuple(regs, \h130)
AnnuncBits(regs) == Pair(regs, \h10b)

NibsPerLine(offset, lineOffset) ==
  (34 + lineOffset + IF offset > 3 THEN 2 ELSE 0) % \h1000

Lines(count) == IF count % 64 = 0 THEN 63 ELSE count % 64

Ended(d) == [d EXCEPT !.disp_end = d.disp_start + d.nibs_per_line * (d.lines + 1)]

(* init_display.                                                           *)
InitDisplay(regs) ==
  LET offset == regs[\h100] % 8 IN
  Ended([on |-> regs[\h100] \div 8, offset |-> offset,
         lines |-> Lines(LineCount(regs)),
         nibs_per_line |-> NibsPerLine(offset, LineOffset(regs)),
         disp_start |-> 2 * (DispAddr(regs) \div 2), disp_end |-> 0,
         menu_start |-> MenuAddr(regs), menu_end |-> MenuAddr(regs) + \h110,
         contrast |-> regs[\h101] + 16 * (regs[\h102] % 2),
         annunc |-> AnnuncBits(regs)])

(* Whatever the start, the registers are 0, and main calls init_display.   *)
Init ==
  /\ io = [a \in Address |-> 0]
  /\ display = InitDisplay(io)
  /\ old_line_offset = -1 /\ line_counter = -1
  /\ crc = {} /\ sum = {}
  /\ wanted = NoLine
  /\ program \in {"draws", "waits", "checks"}
  /\ reloaded = FALSE

-----------------------------------------------------------------------------
(* write_dev_mem: the display after nibble n is stored at an address, with *)
(* regs the registers after it.                                            *)
(* Mutant: the line keeps its length when the offset changes.              *)
DispIoKeepsLength(n) ==
  IF n = io[\h100] THEN display
  ELSE [display EXCEPT !.on = n \div 8, !.offset = n % 8]

DispIo(n) ==
  IF n = io[\h100] THEN display
  ELSE Ended([display EXCEPT !.on = n \div 8, !.offset = n % 8,
                !.nibs_per_line = NibsPerLine(n % 8, LineOffset(io))])

Contrast(a, n) ==
  CASE a = \h101 -> [display EXCEPT !.contrast = 16 * (@ \div 16) + n]
    [] a = \h102 -> [display EXCEPT !.contrast = (@ % 16) + 16 * (n % 2)]
    [] a = \h103 -> display

Annunc(regs) == [display EXCEPT !.annunc = AnnuncBits(regs)]

DispStart(regs) ==
  LET start == 2 * (DispAddr(regs) \div 2) IN
  IF display.disp_start = start THEN display
  ELSE Ended([display EXCEPT !.disp_start = start])

LineLength(regs) ==
  IF LineOffset(regs) = old_line_offset THEN display
  ELSE Ended([display EXCEPT
                !.nibs_per_line = NibsPerLine(display.offset, LineOffset(regs))])

LineNumber(regs) ==
  IF display.lines = LineCount(regs) % 64 THEN display
  ELSE Ended([display EXCEPT !.lines = Lines(LineCount(regs))])

Menu(regs) ==
  [display EXCEPT !.menu_start = MenuAddr(regs), !.menu_end = MenuAddr(regs) + \h110]

Updated(a, n, regs) ==
  CASE a = \h100 -> DispIo(n)
    [] a \in \h101 .. \h103 -> Contrast(a, n)
    [] a \in \h10b .. \h10c -> Annunc(regs)
    [] a \in \h120 .. \h124 -> DispStart(regs)
    [] a \in \h125 .. \h127 -> LineLength(regs)
    [] a \in \h128 .. \h129 -> LineNumber(regs)
    [] a \in \h130 .. \h134 -> Menu(regs)
    [] a \in Plain -> display

Store(a, n) ==
  /\ wanted = NoLine
  /\ program = "draws" \/ (program = "waits" /\ a \in \h128 .. \h129)
  /\ io' = [io EXCEPT ![a] = n]
  /\ display' = Updated(a, n, io')
  /\ LET taken == a \in \h125 .. \h127 /\ LineOffset(io') # old_line_offset IN
     /\ old_line_offset' = IF taken THEN LineOffset(io') ELSE old_line_offset
     /\ reloaded' = (reloaded /\ ~taken)
  /\ line_counter' = IF a \in \h128 .. \h129 THEN -1 ELSE line_counter
  /\ UNCHANGED <<wanted, checksum, program>>

-----------------------------------------------------------------------------
(* A look at a nibble of LINE_COUNT.                                       *)
(* Mutant: the counter goes round after 63 looks.                          *)
NextLineOfEven(c) == IF c + 1 >= 63 THEN -1 ELSE c + 1

NextLine(c) == IF c + 1 > 63 THEN -1 ELSE c + 1

(* An instruction that loads one nibble of it.                             *)
LoadLineNibble ==
  /\ program = "waits" /\ wanted = NoLine
  /\ line_counter' = NextLine(line_counter)
  /\ UNCHANGED <<screen, wanted, checksum, program>>

WaitForLine(l) ==
  /\ program = "waits" /\ wanted = NoLine
  /\ wanted' = l
  /\ UNCHANGED <<screen, line_counter, checksum, program>>

(* An instruction that loads both: the counter goes on between them.       *)
Poll ==
  LET low == NextLine(line_counter)
      high == NextLine(low)
      seen == (low % 16) + 16 * ((high % 64) \div 16)
  IN
  /\ wanted # NoLine
  /\ line_counter' = high
  /\ wanted' = IF seen = wanted THEN NoLine ELSE wanted
  /\ UNCHANGED <<screen, checksum, program>>

-----------------------------------------------------------------------------
(* Sets of bits.                                                           *)
Xor(s, t) == (s \ t) \cup (t \ s)
Up(s, by) == {i + by : i \in s}
Down(s, by) == {i - by : i \in s \cap by .. 15}

(* Mutant: the factor is 0x1080.                                           *)
calc_crc_1080(c, nib) ==
  LET low == Xor(c, nib) \cap 0 .. 3
  IN Xor(Down(c, 4), Up(low, 7) \cup Up(low, 12))

(* A nibble times 0x1081.                                                  *)
calc_crc(c, nib) ==
  LET low == Xor(c, nib) \cap 0 .. 3
  IN Xor(Down(c, 4), low \cup Up(low, 7) \cup Up(low, 12))

(* The CRC of CCITT, x^16 + x^12 + x^5 + 1, lowest bit first: for bit i of *)
(* a nibble, and for all four.                                             *)
Bit(c, nib, i) ==
  Xor(Down(c, 1), IF (0 \in c) = (i \in nib) THEN {} ELSE {15, 10, 3})

Bitwise(c, nib) == Bit(Bit(Bit(Bit(c, nib, 0), nib, 1), nib, 2), nib, 3)

(* A nibble loaded from memory: not fetched, not from a device register or *)
(* the bank switch.                                                        *)
LoadNibble(nib) ==
  /\ program = "checks"
  /\ crc' = calc_crc(crc, nib)
  /\ sum' = Bitwise(sum, nib)
  /\ UNCHANGED <<screen, line, program>>

StoreCrc(i, nib) ==
  /\ program = "checks"
  /\ crc' = (crc \ (4 * i .. 4 * i + 3)) \cup Up(nib, 4 * i)
  /\ sum' = crc'
  /\ UNCHANGED <<screen, line, program>>

-----------------------------------------------------------------------------
(* `load` in the debugger, when it succeeds: read_files leaves the whole   *)
(* state 0, but knows nothing of old_line_offset and line_counter.         *)
Load ==
  /\ io' = [a \in Address |-> 0]
  /\ display' = InitDisplay(io')
  /\ crc' = {} /\ sum' = {}
  /\ wanted' = NoLine
  /\ reloaded' = TRUE
  /\ UNCHANGED <<old_line_offset, line_counter, program>>

Next ==
  \/ \E s \in Stores : Store(s[1], s[2])
  \/ LoadLineNibble \/ Poll \/ \E l \in Wanted : WaitForLine(l)
  \/ \E nib \in Nibbles : LoadNibble(nib) \/ \E i \in 0 .. 3 : StoreCrc(i, nib)
  \/ Load

Spec == Init /\ [][Next]_vars /\ WF_vars(Poll)

-----------------------------------------------------------------------------
(* However the program stores the nibbles, the display is the one          *)
(* init_display would make of the registers, but for its line length after *)
(* a load: LINE_OFFSET stored again as it was before is not taken over,    *)
(* for old_line_offset is not told of the load.                            *)
DisplayFollowsRegisters ==
  LET right == InitDisplay(io) IN
  /\ display = Ended([right EXCEPT !.nibs_per_line = display.nibs_per_line])
  /\ ~reloaded => display = right

(* A program that waits for a line sees it, although every look moves the  *)
(* counter and its two nibbles come from two looks: the counter goes round *)
(* in 65 looks, an odd number, so every line comes up.                     *)
EveryLineIsSeen == wanted # NoLine ~> wanted = NoLine

(* The CRC is the one of the nibbles loaded since the program has set it.  *)
CrcIsOfWhatIsLoaded == crc = sum
=============================================================================
