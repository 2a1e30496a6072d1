---------------------------- MODULE SchedulingProps ---------------------------
(* Correctness properties of Scheduling. *)
EXTENDS Scheduling

Queued == {k \in RunKeys : run[k].status = "queued"}
Running == {k \in RunKeys : run[k].status = "running"}
Settling == {k \in RunKeys : run[k].status \in Terminal}

\* run_count of a task is the number of occurrences the dispatcher has
\* materialized for it: manual runs, rolled back ticks, stale requests and
\* restarts never make the two drift apart (store.py, materialize_due_schedule_tasks).
RunCountCountsOccurrences ==
  \A t \in Tasks : task[t].runCount = Cardinality(AutoKeys(t) \cap Materialized)

\* A task nobody approved never has a run, through archive, restore and any
\* race of approve, reject and archive (service.py, restore: it must be confirmed again).
UnapprovedNeverRuns ==
  \A k \in Materialized : task[k.task].approved

\* The run a worker executes is running, carries a lease, and no other worker
\* executes it, so that the result of an execution is never dropped.
WorkerOwnsItsRun ==
  \A w \in Workers : worker[w] # None =>
    /\ up /\ run[worker[w]].status = "running" /\ run[worker[w]].lease # None
    /\ \A v \in Workers \ {w} : worker[v] # worker[w]

\* The instant an active task waits for was never materialized: otherwise its
\* INSERT would fail and roll back the tick of every task.
NextRunIsFresh ==
  \A t \in Tasks : task[t].status = "active" /\ task[t].nextRun \in Time =>
    AutoKey(t, task[t].nextRun) \notin Materialized

\* Consecutive failures are all backed by failed or timed out runs: a skipped
\* or cancelled run, or a second lease of one restart, never pauses a task.
FailuresAreBacked ==
  \A t \in Tasks :
    task[t].failures <=
      Cardinality({k \in RunKeys : k.task = t /\ run[k].status \in {"failed", "timed_out"}})

\* Each occurrence is triggered, taken and settled at most once, in that order.
Ledger == INSTANCE Occurrences WITH Keys <- RunKeys, pending <- Queued,
                                    executing <- Running, settled <- Settling
OccurrenceSpec == Ledger!Spec

\* A tick never takes run_count past max_runs, whatever a request changed meanwhile.
MaxRunsRespected ==
  [][\A t \in Tasks :
       task'[t].runCount > task[t].runCount /\ task[t].cfg.maxRuns # None
         => task'[t].runCount <= task[t].cfg.maxRuns]_vars

\* An occurrence is materialized only for a task that is active, at or after
\* its instant, and not after ends_at.
OnlyDueOccurrences ==
  [][\A k \in RunKeys :
       k.kind = "auto" /\ run[k].status = "none" /\ run'[k].status # "none"
         => /\ task[k.task].status = "active" /\ k.at <= now
            /\ ~Reached(task[k.task].cfg, k.at)]_vars

\* A task that ended comes back to life only by a restore that leaves it runs to
\* make: the revision the restore read stops it when the row changed meanwhile.
RestoredTasksCanRun ==
  [][\A t \in Tasks :
       task[t].status \in {"completed", "expired", "archived"} /\ task'[t].status = "active"
         => task'[t].approved /\ ~Exhausted(task'[t])]_vars

\* A queued run is taken in the end, unless its task is archived (claims skip it).
\* Workers are taken to survive what they execute (services/scheduling/scheduler.py:183).
QueuedIsTaken ==
  \A k \in RunKeys :
    run[k].status = "queued" ~> run[k].status # "queued" \/ task[k.task].status = "archived"

\* An instant that is due is materialized in the end, or the task no longer waits for it.
DueIsMaterialized ==
  \A t \in Tasks : \A x \in Time :
    (task[t].status = "active" /\ task[t].nextRun = x /\ x <= now)
      ~> (AutoKey(t, x) \in Materialized \/ task[t].status # "active" \/ task[t].nextRun # x)

=============================================================================
