CONSTANTS
  NR_RSTK = 2
  ISR = 15
  Code <- MCCode
  Keyboard = TRUE
  MaxCalls = 3
SPECIFICATION Spec
INVARIANTS
  TypeOK
  PendingOnlyWhileMasked
  StackHoldsNewestCalls
  MaskedExactlyInService
PROPERTIES
  ServiceReturnsToInterrupted
  PendingKeyIsServed
  ImplementsCallService
