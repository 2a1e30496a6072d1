------------------------------ MODULE Scheduling ------------------------------
(***************************************************************************)
(* The durable task scheduler of the backend: the rows of scheduled_tasks  *)
(* and scheduled_task_runs, the dispatcher and the workers of              *)
(* ScheduleScheduler, and the requests of ScheduleService that race with   *)
(* them.                                                                   *)
(*                                                                         *)
(* Every method of store_service runs under the connection lock, so one    *)
(* store call is one atomic step.  A request of ScheduleService is a plain *)
(* `def` served by a thread pool: it reads a row, computes, and writes in  *)
(* a later store call, and the dispatcher (on the event loop) runs in      *)
(* between.  A request is therefore two steps here, or three where         *)
(* set_schedule_task_status reads the row a second time.                   *)
(*                                                                         *)
(* Time is a bounded clock.  A run is identified by its task, the instant  *)
(* it is scheduled for and whether the dispatcher or a manual request made *)
(* it (a manual instant has microseconds, an occurrence has not), which is *)
(* the key of uq_scheduled_task_runs_occurrence.                           *)
(***************************************************************************)
EXTENDS Integers, FiniteSets

CONSTANTS
  Tasks,            \* the identifiers create_schedule_task hands out
  Clients,          \* threads that serve API requests
  Workers,          \* settings.scheduler_workers coroutines
  Schedules,        \* the schedules a request may carry
  Configs,          \* what a create or update request may carry
  Requests,         \* what users and operators ask for: API requests, drain, stop
  LegacyTasks,      \* tasks an earlier release left in pending_approval
  NextOcc(_, _),    \* next_occurrence(schedule, after)
  Horizon,          \* bound: the last instant of the clock
  Lease,            \* settings.scheduler_lease_seconds
  FailureLimit,     \* consecutive failures that pause a task
  Quota,            \* settings.schedule_max_per_owner
  Batch,            \* the LIMIT of one tick
  MaxRev,           \* bound: revisions of a task
  MaxCrashes,       \* bound: process crashes
  None

VARIABLES
  now,              \* the wall clock
  up,               \* the scheduler process is between start() and stop()
  draining,         \* lifecycle_service.draining
  task,             \* rows of scheduled_tasks
  run,              \* rows of scheduled_task_runs
  worker,           \* the run a worker executes
  op,               \* the request a client thread is serving
  crashes

vars == <<now, up, draining, task, run, worker, op, crashes>>

Time == 0..Horizon

TaskStatuses == {"absent", "pending_approval", "active", "paused",
                 "completed", "expired", "archived"}
Outcomes == {"succeeded", "failed", "timed_out", "skipped"}
Terminal == Outcomes \cup {"cancelled"}
RunStatuses == {"none", "queued", "running"} \cup Terminal

\* (task_id, scheduled_for), with the origin that tells the instants apart
RunKeys == [task : Tasks, at : Time, kind : {"auto", "manual"}]
AutoKey(t, x) == [task |-> t, at |-> x, kind |-> "auto"]
AutoKeys(t) == {k \in RunKeys : k.task = t /\ k.kind = "auto"}
Materialized == {k \in RunKeys : run[k].status # "none"}

ConfigType == [sched : Schedules, starts : Time, ends : Nat \cup {None},
               maxRuns : Nat \cup {None},
               policy : {"skip", "run_once", "catch_up"}]

ASSUME ConfigAssumption == Configs \subseteq ConfigType /\ Configs # {}
ASSUME BoundAssumption ==
  /\ Horizon \in Nat /\ Lease \in Nat /\ FailureLimit \in Nat \ {0}
  /\ Quota \in Nat /\ Batch \in Nat \ {0} /\ MaxRev \in Nat /\ MaxCrashes \in Nat
\* next_occurrence promises an instant strictly later than `after`
ASSUME NextOccAssumption ==
  \A s \in Schedules : \A x \in Time : NextOcc(s, x) \in Nat /\ NextOcc(s, x) > x
ASSUME TaskAssumption ==
  /\ IsFiniteSet(Tasks) /\ LegacyTasks \subseteq Tasks
  /\ None \notin Int /\ None \notin RunKeys

TaskRow == [status : TaskStatuses, cfg : Configs, nextRun : Nat \cup {None},
            runCount : Nat, failures : Nat, rev : Nat, approved : BOOLEAN]
RunRow == [status : RunStatuses, lease : Nat \cup {None}, attempt : Nat]

NoRun == [status |-> "none", lease |-> None, attempt |-> 0]
QueuedRun == [status |-> "queued", lease |-> None, attempt |-> 0]

Kinds == {"create", "update", "execution", "pause", "resume", "approve",
          "reject", "archive", "restore", "manual"}
\* what a request thread has in hand between its store calls
OpType == [kind : Kinds, phase : {"reread", "write"}, task : Tasks, rev : Nat,
           status : TaskStatuses, nextRun : Nat, expired : BOOLEAN, cfg : Configs]

TypeOK ==
  /\ now \in Time
  /\ up \in BOOLEAN /\ draining \in BOOLEAN
  /\ task \in [Tasks -> TaskRow]
  /\ run \in [RunKeys -> RunRow]
  /\ worker \in [Workers -> RunKeys \cup {None}]
  /\ op \in [Clients -> OpType \cup {None}]
  /\ crashes \in Nat

MaxOf(a, b) == IF a >= b THEN a ELSE b
Reached(c, x) == c.ends # None /\ x > c.ends     \* an instant after ends_at

\* a row of an earlier release waits for approval; the others do not exist yet
Init ==
  /\ now = 0 /\ up = FALSE /\ draining = FALSE /\ crashes = 0
  /\ \E c \in Configs :
       task = [t \in Tasks |->
                 [status |-> IF t \in LegacyTasks THEN "pending_approval" ELSE "absent",
                  cfg |-> c, nextRun |-> NextOcc(c.sched, c.starts),
                  runCount |-> 0, failures |-> 0, rev |-> 1, approved |-> FALSE]]
  /\ run = [k \in RunKeys |-> NoRun]
  /\ worker = [w \in Workers |-> None]
  /\ op = [c \in Clients |-> None]

-----------------------------------------------------------------------------
(* The plan of a due task: ScheduleScheduler._build_plan                     *)

Remaining(row) == row.cfg.maxRuns - row.runCount

\* the instants up to n that the recurrence steps through from the due one on
Missed(row, n) ==
  {x \in row.nextRun..n :
     \A S \in SUBSET (row.nextRun..n) :
       /\ row.nextRun \in S
       /\ \A y \in S : NextOcc(row.cfg.sched, y) <= n => NextOcc(row.cfg.sched, y) \in S
       => x \in S}

\* mutant: the catch_up loop forgets max_runs
Candidates_Unlimited(row, n) ==
  IF row.cfg.policy = "catch_up" THEN Missed(row, n) ELSE {row.nextRun}

\* catch_up takes the first Remaining of them; skip and run_once take the due one
Candidates(row, n) ==
  IF row.cfg.policy = "catch_up"
  THEN {x \in Missed(row, n) :
          row.cfg.maxRuns # None =>
            Cardinality({y \in Missed(row, n) : y < x}) < Remaining(row)}
  ELSE {row.nextRun}

LastOf(S) == CHOOSE x \in S : \A y \in S : y <= x

\* mutant: the cursor stays on the last occurrence that was taken
Cursor_LastTaken(row, n) ==
  IF row.cfg.policy = "catch_up" THEN LastOf(Candidates(row, n))
  ELSE NextOcc(row.cfg.sched, n)

\* where the plan leaves off
Cursor(row, n) ==
  IF row.cfg.policy = "catch_up" THEN NextOcc(row.cfg.sched, LastOf(Candidates(row, n)))
  ELSE NextOcc(row.cfg.sched, n)

Exhausted(row) == row.cfg.maxRuns # None /\ Remaining(row) <= 0

Occurrences(row, n) ==
  IF Exhausted(row) THEN {}
  ELSE {x \in Candidates(row, n) : ~Reached(row.cfg, x)}

LastRun(row, n) ==
  row.cfg.maxRuns # None
    /\ row.runCount + Cardinality(Occurrences(row, n)) >= row.cfg.maxRuns

\* mutants: every tick of a task counts as one run; next_run_at is not advanced
Planned_CountsTicks(row, n) ==
  LET occ == Occurrences(row, n)
  IN  [row EXCEPT !.runCount = @ + 1,
                  !.status = IF Exhausted(row) \/ LastRun(row, n) THEN "completed" ELSE @,
                  !.nextRun = Cursor(row, n)]
Planned_NotAdvanced(row, n) ==
  [row EXCEPT !.runCount = @ + Cardinality(Occurrences(row, n))]

\* the row after the plan is applied; a plan without next_run_at keeps the old one
Planned(row, n) ==
  LET occ == Occurrences(row, n)
      status == IF Exhausted(row) THEN "completed"
                ELSE IF occ = {} THEN "expired"
                ELSE IF LastRun(row, n) THEN "completed"
                ELSE IF Reached(row.cfg, Cursor(row, n)) THEN "expired"
                ELSE row.status
  IN  [row EXCEPT !.runCount = @ + Cardinality(occ),
                  !.status = status,
                  !.nextRun = IF status = row.status THEN Cursor(row, n) ELSE @]

-----------------------------------------------------------------------------
(* The dispatcher: tick_once and materialize_due_schedule_tasks              *)

Due == {t \in Tasks : task[t].status = "active" /\ task[t].nextRun # None
                        /\ task[t].nextRun <= now}

\* ORDER BY next_run_at LIMIT Batch
Batches == {b \in SUBSET Due :
              /\ Cardinality(b) = (IF Cardinality(Due) <= Batch THEN Cardinality(Due) ELSE Batch)
              /\ \A t \in b, u \in Due \ b : task[t].nextRun <= task[u].nextRun}

NewKeys(b) == {k \in RunKeys : /\ k.kind = "auto" /\ k.task \in b
                               /\ k.at \in Occurrences(task[k.task], now)}

\* one INSERT that meets an existing occurrence rolls the whole tick back
Conflict(b) == NewKeys(b) \cap Materialized # {}

Tick ==
  /\ up /\ ~draining
  /\ \E b \in Batches :
       /\ b # {} /\ ~Conflict(b)
       /\ task' = [t \in Tasks |-> IF t \in b THEN Planned(task[t], now) ELSE task[t]]
       /\ run' = [k \in RunKeys |-> IF k \in NewKeys(b) THEN QueuedRun ELSE run[k]]
  /\ UNCHANGED <<now, up, draining, worker, op, crashes>>

-----------------------------------------------------------------------------
(* The workers: claim_next_schedule_run, execute, finish_schedule_run        *)

\* mutants: a claim does not look at the status of the run; or wants an active task
Claimable_Running ==
  {k \in RunKeys : run[k].status \in {"queued", "running"} /\ task[k.task].status # "archived"}
Claimable_ActiveTask ==
  {k \in RunKeys : run[k].status = "queued" /\ task[k.task].status = "active"}

Claimable == {k \in RunKeys : run[k].status = "queued" /\ task[k.task].status # "archived"}

Claim(w) ==
  /\ up /\ ~draining /\ worker[w] = None
  /\ \E k \in Claimable :
       /\ \A j \in Claimable : k.at <= j.at
       /\ run' = [run EXCEPT ![k] = [status |-> "running", lease |-> now + Lease,
                                     attempt |-> @.attempt + 1]]
       /\ worker' = [worker EXCEPT ![w] = k]
  /\ UNCHANGED <<now, up, draining, task, op, crashes>>

\* a failure counts, and the FailureLimit-th in a row pauses an active task
Failed(row) ==
  [row EXCEPT !.failures = @ + 1,
              !.status = IF row.failures + 1 >= FailureLimit /\ @ = "active"
                         THEN "paused" ELSE @]

\* mutants: a skipped run counts as a failure; a success takes one failure back
Settled_SkipFails(row, outcome) ==
  IF outcome = "succeeded" THEN [row EXCEPT !.failures = 0] ELSE Failed(row)
Settled_Decrement(row, outcome) ==
  IF outcome = "succeeded" THEN [row EXCEPT !.failures = @ - 1] ELSE Failed(row)

Settled(row, outcome) ==
  CASE outcome = "succeeded" -> [row EXCEPT !.failures = 0]
    [] outcome \in {"failed", "timed_out"} -> Failed(row)
    [] OTHER -> row

FinishedRun(row, outcome) ==
  IF row.status = "running" THEN [row EXCEPT !.status = outcome, !.lease = None] ELSE row

\* a late result of a run that is no longer running is dropped
FinishScheduleRun(k, outcome) ==
  /\ run' = [run EXCEPT ![k] = FinishedRun(@, outcome)]
  /\ task' = IF run[k].status = "running"
             THEN [task EXCEPT ![k.task] = Settled(@, outcome)] ELSE task

Finish(w) ==
  /\ up /\ worker[w] # None
  /\ \E outcome \in Outcomes : FinishScheduleRun(worker[w], outcome)
  /\ worker' = [worker EXCEPT ![w] = None]
  /\ UNCHANGED <<now, up, draining, op, crashes>>

-----------------------------------------------------------------------------
(* The process: start, stop, crash, drain                                    *)

ExpiredLeases == {k \in RunKeys : run[k].status = "running" /\ run[k].lease # None
                                    /\ run[k].lease < now}

\* mutant: an expired lease puts the run back into the queue
Start_Requeues ==
  /\ ~up
  /\ up' = TRUE
  /\ run' = [k \in RunKeys |-> IF k \in ExpiredLeases THEN QueuedRun ELSE run[k]]
  /\ UNCHANGED <<now, draining, task, worker, op, crashes>>

\* start(): recover_expired_schedule_run_leases; one failure per task, not per run
Start ==
  /\ ~up
  /\ up' = TRUE
  /\ run' = [k \in RunKeys |-> IF k \in ExpiredLeases THEN FinishedRun(run[k], "failed")
                               ELSE run[k]]
  /\ task' = [t \in Tasks |-> IF \E k \in ExpiredLeases : k.task = t
                              THEN Failed(task[t]) ELSE task[t]]
  /\ UNCHANGED <<now, draining, worker, op, crashes>>

\* stop(): requests have been served; every worker's executor is cancelled
Stop ==
  /\ up /\ "stop" \in Requests /\ \A c \in Clients : op[c] = None
  /\ up' = FALSE
  /\ run' = [k \in RunKeys |-> IF \E w \in Workers : worker[w] = k
                               THEN FinishedRun(run[k], "cancelled") ELSE run[k]]
  /\ worker' = [w \in Workers |-> None]
  /\ draining' = FALSE
  /\ UNCHANGED <<now, task, op, crashes>>

Crash ==
  /\ up /\ crashes < MaxCrashes
  /\ crashes' = crashes + 1
  /\ up' = FALSE
  /\ worker' = [w \in Workers |-> None]
  /\ op' = [c \in Clients |-> None]
  /\ draining' = FALSE
  /\ UNCHANGED <<now, task, run>>

Drain ==
  /\ up /\ "drain" \in Requests /\ ~draining /\ draining' = TRUE
  /\ UNCHANGED <<now, up, task, run, worker, op, crashes>>

\* released, or the drain lease ran out
Release ==
  /\ draining /\ draining' = FALSE
  /\ UNCHANGED <<now, up, task, run, worker, op, crashes>>

Advance ==
  /\ now < Horizon /\ now' = now + 1
  /\ UNCHANGED <<up, draining, task, run, worker, op, crashes>>

-----------------------------------------------------------------------------
(* The requests: the first step reads and checks, the last one writes.  A    *)
(* drain does not stop them: the tools of a run admitted earlier still call. *)

FirstOcc(cfg) == NextOcc(cfg.sched, MaxOf(now, cfg.starts))
Future(cfg) == cfg.ends # None => cfg.ends > MaxOf(now, cfg.starts)
Startable(cfg) == Future(cfg) /\ ~Reached(cfg, FirstOcc(cfg))

\* client c read the row of t and will write later
Request(c, t, kind, phase, status, next, expired, cfg) ==
  /\ op' = [op EXCEPT ![c] = [kind |-> kind, phase |-> phase, task |-> t,
                              rev |-> task[t].rev, status |-> status, nextRun |-> next,
                              expired |-> expired, cfg |-> cfg]]
  /\ UNCHANGED <<now, up, draining, task, run, worker, crashes>>

\* every request but create finds its row (_authorized_row); MaxRev bounds writes
Reads(c, t, kind) ==
  /\ up /\ op[c] = None /\ kind \in Requests
  /\ task[t].status # "absent" /\ task[t].rev < MaxRev

ActiveCount == Cardinality({t \in Tasks : task[t].status \in {"active", "pending_approval"}})

\* the count is read before the insert; the task id is fresh
BeginCreate(c, t) ==
  /\ up /\ op[c] = None /\ "create" \in Requests
  /\ task[t].status = "absent" /\ \A d \in Clients : op[d] # None => op[d].task # t
  /\ ActiveCount < Quota
  /\ \E cfg \in Configs :
       /\ Startable(cfg)
       /\ Request(c, t, "create", "write", "active", FirstOcc(cfg), FALSE, cfg)

\* a request that touches schedule, timezone, starts_at or ends_at moves next_run_at
BeginUpdate(c, t) ==
  /\ Reads(c, t, "update")
  /\ \E cfg \in Configs :
       /\ Startable(cfg)
       /\ Request(c, t, "update", "write", task[t].status, FirstOcc(cfg), FALSE, cfg)

\* a request that touches only the execution policy keeps next_run_at
BeginExecution(c, t) ==
  /\ Reads(c, t, "execution")
  /\ Future(task[t].cfg)
  /\ \E cfg \in Configs :
       /\ <<cfg.sched, cfg.starts, cfg.ends>>
            = <<task[t].cfg.sched, task[t].cfg.starts, task[t].cfg.ends>>
       /\ Request(c, t, "execution", "write", task[t].status, 0, FALSE, cfg)

BeginPause(c, t) ==
  /\ Reads(c, t, "pause") /\ task[t].status = "active"
  /\ Request(c, t, "pause", "reread", "paused", 0, FALSE, task[t].cfg)

BeginResume(c, t) ==
  /\ Reads(c, t, "resume") /\ task[t].status = "paused"
  /\ LET cfg == task[t].cfg
         over == Reached(cfg, FirstOcc(cfg))
     IN  Request(c, t, "resume", "write", IF over THEN "expired" ELSE "active",
                 FirstOcc(cfg), over, cfg)

BeginApprove(c, t) ==
  /\ Reads(c, t, "approve") /\ task[t].status = "pending_approval"
  /\ ~Reached(task[t].cfg, FirstOcc(task[t].cfg))
  /\ Request(c, t, "approve", "write", "active", FirstOcc(task[t].cfg), FALSE, task[t].cfg)

BeginReject(c, t) ==
  /\ Reads(c, t, "reject") /\ task[t].status = "pending_approval"
  /\ Request(c, t, "reject", "reread", "archived", 0, FALSE, task[t].cfg)

BeginArchive(c, t) ==
  /\ Reads(c, t, "archive")
  /\ Request(c, t, "archive", "reread", "archived", 0, FALSE, task[t].cfg)

\* mutant: a restored task is active at once
BeginRestore_Activates(c, t) ==
  /\ Reads(c, t, "restore") /\ task[t].status \in {"archived", "completed", "expired"}
  /\ ~Exhausted(task[t]) /\ Startable(task[t].cfg)
  /\ Request(c, t, "restore", "write", "active", FirstOcc(task[t].cfg), FALSE, task[t].cfg)

\* a task nobody approved comes back to wait for approval
BeginRestore(c, t) ==
  /\ Reads(c, t, "restore") /\ task[t].status \in {"archived", "completed", "expired"}
  /\ ~Exhausted(task[t])
  /\ LET cfg == task[t].cfg
     IN  /\ cfg.ends # None => cfg.ends > now
         /\ ~Reached(cfg, FirstOcc(cfg))
         /\ Request(c, t, "restore", "write",
                    IF task[t].approved THEN "active" ELSE "pending_approval",
                    FirstOcc(cfg), FALSE, cfg)

BeginManual(c, t) ==
  /\ Reads(c, t, "manual") /\ task[t].status \in {"active", "paused"}
  /\ Request(c, t, "manual", "write", task[t].status, now, FALSE, task[t].cfg)

\* set_schedule_task_status reads the row again, for its revision only
Reread(c) ==
  /\ op[c] # None /\ op[c].phase = "reread"
  /\ op' = [op EXCEPT ![c].phase = "write", ![c].rev = task[op[c].task].rev]
  /\ UNCHANGED <<now, up, draining, task, run, worker, crashes>>

\* the assignments of one request, on the row it finds
Written(row, o) ==
  CASE o.kind = "create" ->
         [row EXCEPT !.status = "active", !.cfg = o.cfg, !.nextRun = o.nextRun,
                     !.approved = TRUE]
    [] o.kind = "update" ->
         [row EXCEPT !.cfg = o.cfg, !.nextRun = o.nextRun, !.rev = @ + 1]
    [] o.kind = "execution" ->
         [row EXCEPT !.cfg = o.cfg, !.rev = @ + 1]
    [] o.kind \in {"pause", "reject", "archive"} ->
         [row EXCEPT !.status = o.status, !.rev = @ + 1]
    [] o.kind = "approve" ->
         [row EXCEPT !.status = "active", !.nextRun = o.nextRun, !.approved = TRUE,
                     !.rev = @ + 1]
    [] OTHER ->
         [row EXCEPT !.status = o.status, !.rev = @ + 1,
                     !.nextRun = IF o.expired THEN None ELSE o.nextRun]

\* mutant: the write does not compare the revision
WriteTask_Blind(c) ==
  /\ op[c] # None /\ op[c].phase = "write" /\ op[c].kind # "manual"
  /\ task' = [task EXCEPT ![op[c].task] = Written(@, op[c])]
  /\ op' = [op EXCEPT ![c] = None]
  /\ UNCHANGED <<now, up, draining, run, worker, crashes>>

\* UPDATE ... WHERE task_id = ? AND revision = ?; the loser changes nothing
WriteTask(c) ==
  /\ op[c] # None /\ op[c].phase = "write" /\ op[c].kind # "manual"
  /\ task' = [task EXCEPT ![op[c].task] =
                IF @.rev = op[c].rev THEN Written(@, op[c]) ELSE @]
  /\ op' = [op EXCEPT ![c] = None]
  /\ UNCHANGED <<now, up, draining, run, worker, crashes>>

\* create_schedule_run; the unique index refuses an instant taken meanwhile
InsertManual(c) ==
  /\ op[c] # None /\ op[c].kind = "manual"
  /\ LET k == [task |-> op[c].task, at |-> op[c].nextRun, kind |-> "manual"]
     IN  run' = [run EXCEPT ![k] = IF @.status = "none" THEN QueuedRun ELSE @]
  /\ op' = [op EXCEPT ![c] = None]
  /\ UNCHANGED <<now, up, draining, task, worker, crashes>>

Begin(c, t) ==
  \/ BeginCreate(c, t) \/ BeginUpdate(c, t) \/ BeginExecution(c, t)
  \/ BeginPause(c, t) \/ BeginResume(c, t) \/ BeginApprove(c, t)
  \/ BeginReject(c, t) \/ BeginArchive(c, t) \/ BeginRestore(c, t)
  \/ BeginManual(c, t)

Commit(c) == Reread(c) \/ WriteTask(c) \/ InsertManual(c)

Next ==
  \/ Tick
  \/ \E w \in Workers : Claim(w) \/ Finish(w)
  \/ Start \/ Stop \/ Crash \/ Drain \/ Release \/ Advance
  \/ \E c \in Clients, t \in Tasks : Begin(c, t)
  \/ \E c \in Clients : Commit(c)

Spec == Init /\ [][Next]_vars

(* The dispatcher ticks for ever, a worker claims and finishes, a drain is   *)
(* released or its lease runs out, a stopped process is started again, and   *)
(* a request thread runs to its end.  Nothing promises a request or a crash. *)
Fairness ==
  /\ WF_vars(Advance) /\ WF_vars(Start) /\ WF_vars(Release) /\ SF_vars(Tick)
  /\ \A w \in Workers : SF_vars(Claim(w)) /\ WF_vars(Finish(w))
  /\ \A c \in Clients : WF_vars(Commit(c))

FairSpec == Spec /\ Fairness

=============================================================================
