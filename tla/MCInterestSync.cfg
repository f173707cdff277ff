SPECIFICATION FairSpec
CONSTANTS
  Peers = {n1, n2}
  Topics = {1, 2}
  MaxTopicsPerPeer = 2
  MaxRevision = 2
  Subscribers = {n1}
  Senders = {n2}
  MaxInterests = 2
  Cases <- MCCases
CHECK_DEADLOCK FALSE
INVARIANT DeliveriesFollowPolicy
INVARIANT LatestChoiceWins
PROPERTY InterestsConverge
