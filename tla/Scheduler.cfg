CONSTANTS
  Period <- MCPeriod
  Ticks = {0, 2}
  DISP_INSTR_OFF = 3
  SCHED_NEVER = 4
  MaxDrift = 2
SPECIFICATION Spec
INVARIANTS
  JobsOnTime
PROPERTIES
  ForgottenOnlyWhenDueAtOnce
