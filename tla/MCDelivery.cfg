SPECIFICATION MCSpec
CONSTANTS
  Topics = {1, 2}
  Ids = {1, 2, 3}
  Weight <- MCWeight
  MaxSequence = 3
  MAX_TOPICS = 2
  MAX_PACKETS_PER_TOPIC = 2
  MAX_RETAINED_BYTES = 3
  MAX_RECOVERY_PACKETS = 2
  WINDOW = 2
  MAX_STREAMS = 1
  MAX_PENDING = 2
  Objects <- MCObjects
  MaxQueue = 1
  MaxCrashes = 1
CHECK_DEADLOCK FALSE
INVARIANTS
  SequenceNamesOnePublication
  OfferIsComplete
  
  OvertakenWasGivenUp
  AcceptedStaysPending
  ResolvedStaysResolved
