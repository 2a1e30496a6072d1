CONSTANTS
  WideReaders = {e1}
  NarrowReaders = {e1, e2}
  Driver = driver
  Others = {request}
  MaxAttempts = 2
  MaxCalls = 2
  MaxRuns = 2
  MaxIncidents = 1
  StallRounds = 1
  WideCapacity = 5
  WideEvents = 4
  WideDrops = 2
  NarrowCapacity = 2
  NarrowEvents = 3
  NarrowDrops = 0
SPECIFICATION FairSpec
INVARIANTS QueuesStayBounded RequestIsSound HistoryIsFaithful
PROPERTIES FeedSpec EveryEventArrives AbortEnds
CHECK_DEADLOCK FALSE
