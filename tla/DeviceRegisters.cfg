SPECIFICATION Spec
CONSTANTS
  Stores <- SomeStores
  Nibbles <- SomeNibbles
  Wanted <- AllLines
INVARIANTS
  DisplayFollowsRegisters
  CrcIsOfWhatIsLoaded
PROPERTIES
  EveryLineIsSeen
