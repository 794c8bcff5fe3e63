CONSTANTS
  wire = wire
  ir = ir
  Links <- BothLinks
  Breakpoints = TRUE
  MaxArrivals = 2
SPECIFICATION Spec
SYMMETRY LinkSymmetry
INVARIANTS
  ReceivedInOrder
  FullIsAnnounced
PROPERTIES
  UnreadNotOverwritten
  LoadedFromSelectedLink
