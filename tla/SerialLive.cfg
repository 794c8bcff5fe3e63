CONSTANTS
  wire = wire
  ir = ir
  Links = {wire}
  Breakpoints = FALSE
  MaxArrivals = 2
SPECIFICATION Spec
PROPERTIES
  BusyEnds
  ReceiverDrains
