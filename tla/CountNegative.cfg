CONSTANTS
  Period <- MCPeriod
  Ticks = {2}
  DISP_INSTR_OFF = 3
  SCHED_NEVER = 5
  MaxDrift = 3
SPECIFICATION Spec
INVARIANT CountNotNegative
