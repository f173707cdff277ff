SPECIFICATION MCSpec
CONSTANTS
  Operations = {a, b, c}
  Contents <- MCContents
  NoContents <- MCNoContents
  MaxRevision = 4
  MaxTokens = 5
CHECK_DEADLOCK FALSE
INVARIANTS
  EmittedIsDurable
  HistoriesAgree
  AcknowledgedStepsAreAdopted
PROPERTIES
  ImplementsDurableState
  SavedPhaseIsKept
  JoinEnds
  
