CONSTANTS
  Workers <- MCWorkers
  DefaultWorker = "default"
  Calls = {c1, c2}
  Received = {"schema", "navigate"}
  VisualCapture = TRUE
  MaxSessions = 2
  MaxArrivals = 2
  MaxResets = 1
  MaxOutages = 1
SPECIFICATION FairSpec
INVARIANTS
  NoSessionLeaks
  WorkersAreIsolated
  FailedSessionsAreNotReused
  OneOpenerPerWorker
  DropsStayWithTheWorker
  FollowUpsStayHome
PROPERTIES
  PoolRefinement
  EveryCallEnds
CHECK_DEADLOCK FALSE
