CONSTANTS
  s1 = s1
  s2 = s2
  r1 = r1
  r2 = r2
  r3 = r3
  Sessions = {s1}
  Runs = {r1, r2}
  Owner <- OneSession
  Clients = {c1, c2}
  Requests = {"start", "ask", "answer"}
  MaxCrashes = 0
  None = None
SPECIFICATION Spec
INVARIANT WaitingIsAnswerable
CHECK_DEADLOCK FALSE
