CONSTANTS
  a = a
  r = r
  h = h
  Author <- a
  Readers <- MCReaders
  Cases <- MCCases
  Epochs = {1, 2}
  Weights <- MCWeights
  MaxSequence = 4
  MAX_TOPICS = 2
  MAX_PACKETS_PER_TOPIC = 2
  MAX_RETAINED_BYTES = 4
  MAX_RECOVERY_PACKETS = 2
  MAX_REPLY_BYTES = 2
  MAX_RECOVERY_SELECTIONS = 1
  MAX_RETAINED_RANGES = 1
  MAX_RECEIVE_RECORDS = 2
  WINDOW = 2
  MAX_STREAMS = 2
  MAX_PENDING = 2
SPECIFICATION MCSpec
INVARIANTS
  CoveredIsAccepted
  CutsAreComplete
PROPERTIES
  ReadersCatchUp
  ViewsCatchUp
CHECK_DEADLOCK FALSE
