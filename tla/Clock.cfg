\* Weight[Nibbles] = 8 numbers; half a minute is 2 ticks of at most 7.
SPECIFICATION Spec
CONSTANTS
  Radix = 2
  Nibbles = 3
  Weight <- BitWeight
  HalfMinute = 2
  Stored = {5, 2}
  Settings <- SomeSettings
  Controls <- SomeControls
  Elapsed = {1, 4}
PROPERTIES
  TimeIsTheUsers
  Timer2OnlyGoesDown
  Timer2IsAnnounced
  SleepEnds

\* The emulator aborts on an assertion.
CHECK_DEADLOCK FALSE
