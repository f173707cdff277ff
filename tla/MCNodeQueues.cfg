SPECIFICATION MCSpec
CONSTANTS
  Key <- MCKey
  CriticalQueue = 3
  CurrentQueue = 1
  BulkQueue = 1
  CriticalRun = 1
  Cases <- MCCases
CHECK_DEADLOCK FALSE
INVARIANT DeliveryKeepsOrder
INVARIANT OrdinaryRequestsKeepTheirOrder
INVARIANT SlotsAreConserved
PROPERTY ClosedReceiverEnds
PROPERTY RequestsAreTaken
