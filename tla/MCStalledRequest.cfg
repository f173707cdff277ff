SPECIFICATION MCSpec
CONSTANTS
  Peers = {p1}
  Requests = {r1, r2}
  Cases <- MCCases
  Streams = {1, 2}
  Tasks = {1, 2, 3}
  Size = 2
  MAX_JOBS = 2
  MAX_GRANTS = 1
  MAX_SERVING = 1
CHECK_DEADLOCK FALSE
PROPERTY StalledConnectionIsDiscarded
