SPECIFICATION Spec
CONSTANTS
  Confs <- BothConfs
  Addrs <- Corners
INVARIANTS
  TypeOK
  ServesAsGiven
  ReadBackWhatIsWritten
  WithinRam
PROPERTIES
  SizeMovesNothing
CHECK_DEADLOCK FALSE
