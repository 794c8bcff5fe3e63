SPECIFICATION DecodeSpec
CONSTANTS
  PCs <- MCPCs
  DataDigits <- MCDigits
INVARIANT ShowsWhatIsExecuted
INVARIANT SameLength
INVARIANT SameTarget
