SPECIFICATION Spec
CONSTANTS
  Code <- MCCode
  ISR = 15
  MAX_BREAKPOINTS = 2
  MinCount <- MCMinCount
  MaxSteps = 2
INVARIANTS
  CountIsRight
PROPERTIES
  StopsAtBreakpoints
  IllegalIsNotRunAgain
  SigIntEntersDebugger
