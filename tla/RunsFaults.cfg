CONSTANTS
  s1 = s1
  s2 = s2
  r1 = r1
  r2 = r2
  r3 = r3
  Sessions = {s1, s2}
  Runs = {r1, r2, r3}
  Owner <- TwoSessions
  Clients = {c1, c2}
  Requests = {"start", "ask", "answer", "abort", "force", "orphan", "fault"}
  MaxCrashes = 1
  None = None
  x1 = x1
  x2 = x2
  l1 = l1
  l2 = l2
  ShellIds = {x1, x2}
  MaxChunks = 2
  Callers = {x1, x2}
  Helpers = {x2}
  MaxIssued = 3
  Agent = x1
  Subagent = x2
  ItemNames = {l1, l2}
  Questions = {r1, r2}
  MaxUpdates = 3
  NoQuestion = NoQuestion
SPECIFICATION CallsSpec
INVARIANTS TypeOK OneDriver DriversAreRegistered CallsAreSound
PROPERTIES SessionRunsSpec
CONSTRAINT NotRaced
CHECK_DEADLOCK FALSE
