SPECIFICATION MCSpec
CONSTANTS
  a1 = a1
  a2 = a2
  a3 = a3
  Attempts <- MCAttempts
  NeedsApproval <- MCApproval
  Batch = 2
  QueueLimit = 2
  WaiterLimit = 1
  Cases <- MCCases
  Members = {1, 2, 3}
  Scenes <- MCScenes
INVARIANT ResultsAreDurable
INVARIANT MissingHistoryIsCounted
PROPERTY AskersAreAnswered
PROPERTY NamesReachMembers
CHECK_DEADLOCK FALSE
