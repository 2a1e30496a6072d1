----------------------------- MODULE MCScheduling -----------------------------
(* Instances of Scheduling for TLC. *)
EXTENDS SchedulingProps

\* a schedule of period p: on a grid (daily, weekly, cron, anchored interval), or
\* relative to the instant it is computed at (interval without an anchor)
Grid(p) == [grid |-> TRUE, every |-> p]
Relative(p) == [grid |-> FALSE, every |-> p]
MCSchedules == {Grid(1), Grid(2), Relative(2)}
MCNextOcc(s, x) == IF s.grid THEN (x \div s.every + 1) * s.every ELSE x + s.every

Config(s, b, e, m, p) == [sched |-> s, starts |-> b, ends |-> e, maxRuns |-> m, policy |-> p]
Endless == Config(Grid(1), 0, None, None, "skip")
Twice == Config(Grid(1), 0, None, 2, "catch_up")
Ending == Config(Grid(1), 1, 2, None, "catch_up")
Loose == Config(Relative(2), 0, 4, 1, "run_once")
EveryConfig == {Endless, Twice, Ending, Loose}
TwoConfigs == {Twice, Endless}
OneConfig == {Endless}
RunOnce == {Config(Grid(1), 0, None, 1, "run_once")}
TwoSizes == RunOnce \cup {Config(Grid(1), 0, None, 2, "run_once")}
CatchUpConfigs == {Twice, Ending}
=============================================================================
