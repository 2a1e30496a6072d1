CONSTANTS
  p1 = p1
  p2 = p2
  s1 = s1
  f1 = f1
  f2 = f2
  w1 = w1
  w2 = w2
  Pids = {p1, p2}
  Scripts = {"a", "b"}
  Work = {"x", "y"}
  ScriptOps = {"start", "stop", "restart", "force"}
  Nobody = Nobody
  Subs = {s1}
  Kids = {1, 2}
  Parents = {1, 2}
  Endings <- MCEndings
  Absent = Absent
  Rules <- MCRules
  Clocks = {"steady", "back", "forward"}
  MinutesPerHour = 2
  HoursPerDay = 4
  DaysPerMonth = 5
  MonthsPerYear = 2
  ChangeAt = 44
  SearchMinutes = 560
  Calendar = 160
  Never = Never
  Triggers = {f1, f2}
  Crew = {w1, w2}
  Unassigned = Unassigned
SPECIFICATION FairSpec
INVARIANTS TypesOK DrainedIsIdle RowFollowsRun SchedulesAreExact
PROPERTIES NothingAfterDestroy ResultsArrive ChildrenStop
CHECK_DEADLOCK FALSE
