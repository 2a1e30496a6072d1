CONSTANTS
  WideReaders = {e1}
  NarrowReaders = {e1}
  Driver = driver
  Others = {request}
  MaxAttempts = 2
  MaxCalls = 2
  MaxRuns = 2
  MaxIncidents = 1
  StallRounds = 1
  WideCapacity = 5
  WideEvents = 4
  WideDrops = 2
  NarrowCapacity = 2
  NarrowEvents = 5
  NarrowDrops = 1
SPECIFICATION NarrowSpec
PROPERTY NothingSkipped
CHECK_DEADLOCK FALSE
