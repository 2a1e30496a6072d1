---------------------------- MODULE SchedulingProofs ---------------------------
(* Theorems about Scheduling, for every value of its constants. *)
EXTENDS SchedulingProps, FunctionTheorems, ListsProofs

-----------------------------------------------------------------------------
(* The plan of a due task *)

\* what the dispatcher knows of a row it selects at instant n
DueRow(row, n) == row \in TaskRow /\ n \in Time /\ row.nextRun \in Nat /\ row.nextRun <= n

LEMMA CandidatesType ==
  ASSUME NEW row, NEW n, DueRow(row, n), ~Exhausted(row)
  PROVE  /\ Candidates(row, n) \subseteq 0..n
         /\ row.nextRun \in Candidates(row, n)
<1>0. /\ n \in Nat /\ row.nextRun \in 0..n /\ row.cfg \in ConfigType
      /\ row.runCount \in Nat /\ row.cfg.maxRuns \in Nat \cup {None}
  BY ConfigAssumption, BoundAssumption DEF DueRow, TaskRow, ConfigType, Time
<1>1. row.nextRun..n \subseteq 0..n
  BY <1>0
<1>2. Missed(row, n) \subseteq 0..n /\ row.nextRun \in Missed(row, n)
  BY <1>0, <1>1 DEF Missed
<1>3. {y \in Missed(row, n) : y < row.nextRun} = {}
  BY <1>0 DEF Missed
<1>4. row.cfg.maxRuns # None => 0 < Remaining(row)
  BY <1>0 DEF Exhausted, Remaining
<1>5. Cardinality({y \in Missed(row, n) : y < row.nextRun}) = 0
  BY <1>3, FS_EmptySet
<1> QED BY <1>0, <1>2, <1>4, <1>5 DEF Candidates

LEMMA CursorType ==
  ASSUME NEW row, NEW n, DueRow(row, n), ~Exhausted(row)
  PROVE  Cursor(row, n) \in Nat
<1>0. n \in Nat /\ 0..n \subseteq Time /\ n \in Time /\ row.cfg.sched \in Schedules
  BY ConfigAssumption, BoundAssumption DEF DueRow, TaskRow, ConfigType, Time
<1>1. LastOf(Candidates(row, n)) \in Candidates(row, n)
  <2>1. \E x \in Candidates(row, n) : \A y \in Candidates(row, n) : y <= x
    BY CandidatesType, NatGreatest, <1>0
  <2> QED BY <2>1 DEF LastOf
<1>2. LastOf(Candidates(row, n)) \in Time
  BY <1>0, <1>1, CandidatesType
<1> QED BY <1>0, <1>2, NextOccAssumption DEF Cursor

LEMMA OccurrencesType ==
  ASSUME NEW row, NEW n, DueRow(row, n)
  PROVE  /\ Occurrences(row, n) \subseteq 0..n
         /\ IsFiniteSet(Occurrences(row, n))
         /\ Cardinality(Occurrences(row, n)) \in Nat
<1>0. n \in Nat
  BY BoundAssumption DEF DueRow, Time
<1>1. Occurrences(row, n) \subseteq 0..n
  BY CandidatesType DEF Occurrences
<1>2. IsFiniteSet(Occurrences(row, n))
  <2>1. IsFiniteSet(0..n)
    BY <1>0, FS_Interval
  <2>2. Occurrences(row, n) \in SUBSET (0..n)
    BY <1>1
  <2> QED BY <2>1, <2>2, FS_Subset
<1>3. Cardinality(Occurrences(row, n)) \in Nat
  BY <1>2, FS_CardinalityType
<1> QED BY <1>1, <1>2, <1>3

LEMMA PlannedType ==
  ASSUME NEW row, NEW n, DueRow(row, n), row.status = "active"
  PROVE  Planned(row, n) \in TaskRow
<1> DEFINE count == row.runCount + Cardinality(Occurrences(row, n))
<1>1. row \in TaskRow /\ count \in Nat
  BY OccurrencesType DEF DueRow, TaskRow
<1>2. CASE Exhausted(row)
  <2>1. Occurrences(row, n) = {}
    BY <1>2 DEF Occurrences
  <2>2. Planned(row, n) = [row EXCEPT !.runCount = count, !.status = "completed"]
    BY <1>1, <1>2, <2>1 DEF Planned, TaskRow
  <2> QED BY <1>1, <2>2 DEF TaskRow, TaskStatuses
<1>3. CASE ~Exhausted(row)
  <2>1. Cursor(row, n) \in Nat
    BY <1>3, CursorType
  <2> QED BY <1>1, <1>3, <2>1 DEF Planned, TaskRow, TaskStatuses
<1> QED BY <1>2, <1>3

-----------------------------------------------------------------------------
(* Type correctness *)

LEMMA FailedType ==
  ASSUME NEW row \in TaskRow
  PROVE  Failed(row) \in TaskRow /\ Failed(row).runCount = row.runCount
         /\ Failed(row).approved = row.approved
<1>1. row.failures + 1 \in Nat
  BY DEF TaskRow
<1>2. CASE Failed(row).status = "paused"
  BY <1>1, <1>2 DEF Failed, TaskRow, TaskStatuses
<1>3. CASE Failed(row).status = row.status
  BY <1>1, <1>3 DEF Failed, TaskRow
<1>4. Failed(row).status \in {"paused", row.status}
  BY DEF Failed, TaskRow
<1> QED BY <1>2, <1>3, <1>4

LEMMA SettledType ==
  ASSUME NEW row \in TaskRow, NEW o \in Terminal
  PROVE  Settled(row, o) \in TaskRow /\ Settled(row, o).runCount = row.runCount
         /\ Settled(row, o).approved = row.approved
BY FailedType DEF Settled, TaskRow, Terminal, Outcomes

LEMMA FinishedRunType ==
  ASSUME NEW row \in RunRow, NEW o \in Terminal
  PROVE  FinishedRun(row, o) \in RunRow
BY DEF FinishedRun, RunRow, RunStatuses

\* Lemmas about the initial state and the steps, one per group of actions.
LEMMA TypeInit == Init => TypeOK
<1> SUFFICES ASSUME Init PROVE TypeOK
  OBVIOUS
<1>1. now \in Time
  BY BoundAssumption DEF Init, Time
<1>2. task \in [Tasks -> TaskRow]
  <2>1. PICK c \in Configs :
          task = [t \in Tasks |->
                 [status |-> IF t \in LegacyTasks THEN "pending_approval" ELSE "absent",
                  cfg |-> c, nextRun |-> NextOcc(c.sched, c.starts),
                  runCount |-> 0, failures |-> 0, rev |-> 1, approved |-> FALSE]]
    BY DEF Init
  <2>2. c.sched \in Schedules /\ c.starts \in Time
    BY ConfigAssumption DEF ConfigType
  <2>3. NextOcc(c.sched, c.starts) \in Nat
    BY <2>2, NextOccAssumption
  <2> QED BY <2>1, <2>3 DEF TaskRow, TaskStatuses
<1>3. run \in [RunKeys -> RunRow]
  BY DEF Init, NoRun, RunRow, RunStatuses
<1> QED BY <1>1, <1>2, <1>3 DEF Init, TypeOK

LEMMA TypeTick == TypeOK /\ Tick => TypeOK'
<1> SUFFICES ASSUME TypeOK, Tick PROVE TypeOK'
  OBVIOUS
<1>1. PICK b \in Batches :
        /\ task' = [t \in Tasks |-> IF t \in b THEN Planned(task[t], now) ELSE task[t]]
        /\ run' = [k \in RunKeys |-> IF k \in NewKeys(b) THEN QueuedRun ELSE run[k]]
  BY DEF Tick
<1>2. \A t \in b : DueRow(task[t], now) /\ task[t].status = "active" /\ t \in Tasks
  BY DEF Batches, Due, TypeOK, DueRow, TaskRow
<1>3. task' \in [Tasks -> TaskRow]
  BY <1>1, <1>2, PlannedType DEF TypeOK
<1>4. run' \in [RunKeys -> RunRow]
  BY <1>1 DEF TypeOK, QueuedRun, RunRow, RunStatuses
<1> QED BY <1>3, <1>4 DEF Tick, TypeOK

LEMMA TypeWorker == TypeOK /\ (\E w \in Workers : Claim(w) \/ Finish(w)) => TypeOK'
<1> SUFFICES ASSUME TypeOK, NEW w \in Workers, Claim(w) \/ Finish(w) PROVE TypeOK'
  OBVIOUS
<1>1. CASE Claim(w)
  <2>1. PICK k \in Claimable :
          /\ run' = [run EXCEPT ![k] = [status |-> "running", lease |-> now + Lease,
                                        attempt |-> @.attempt + 1]]
          /\ worker' = [worker EXCEPT ![w] = k]
    BY <1>1 DEF Claim
  <2>2. k \in RunKeys /\ now + Lease \in Nat /\ run[k].attempt + 1 \in Nat
    BY BoundAssumption DEF Claimable, TypeOK, Time, RunRow
  <2>3. run' \in [RunKeys -> RunRow]
    BY <2>1, <2>2 DEF TypeOK, RunRow, RunStatuses
  <2> QED BY <1>1, <2>1, <2>2, <2>3 DEF Claim, TypeOK
<1>2. CASE Finish(w)
  <2>1. PICK o \in Outcomes : FinishScheduleRun(worker[w], o)
    BY <1>2 DEF Finish
  <2>2. worker[w] \in RunKeys /\ worker[w].task \in Tasks /\ o \in Terminal
    BY <1>2 DEF Finish, TypeOK, RunKeys, Terminal
  <2>3. run' \in [RunKeys -> RunRow]
    BY <2>1, <2>2, FinishedRunType DEF FinishScheduleRun, TypeOK
  <2>4. task' \in [Tasks -> TaskRow]
    BY <2>1, <2>2, SettledType DEF FinishScheduleRun, TypeOK
  <2> QED BY <1>2, <2>3, <2>4 DEF Finish, TypeOK
<1> QED BY <1>1, <1>2

LEMMA TypeProcess ==
  TypeOK /\ (Start \/ Stop \/ Crash \/ Drain \/ Release \/ Advance) => TypeOK'
<1> SUFFICES ASSUME TypeOK, Start \/ Stop \/ Crash \/ Drain \/ Release \/ Advance PROVE TypeOK'
  OBVIOUS
<1>1. CASE Start
  <2>1. run' \in [RunKeys -> RunRow]
    BY <1>1, FinishedRunType DEF Start, TypeOK, Terminal, Outcomes
  <2>2. task' \in [Tasks -> TaskRow]
    BY <1>1, FailedType DEF Start, TypeOK
  <2> QED BY <1>1, <2>1, <2>2 DEF Start, TypeOK
<1>2. CASE Stop
  <2>1. run' \in [RunKeys -> RunRow]
    BY <1>2, FinishedRunType DEF Stop, TypeOK, Terminal, Outcomes
  <2> QED BY <1>2, <2>1 DEF Stop, TypeOK
<1>3. CASE Crash
  <2>1. crashes' \in Nat
    BY <1>3 DEF Crash, TypeOK
  <2>2. worker' \in [Workers -> RunKeys \cup {None}] /\ op' \in [Clients -> OpType \cup {None}]
    BY <1>3 DEF Crash
  <2> QED BY <1>3, <2>1, <2>2 DEF Crash, TypeOK
<1>4. CASE Drain \/ Release
  BY <1>4 DEF Drain, Release, TypeOK
<1>5. CASE Advance
  BY <1>5, BoundAssumption DEF Advance, TypeOK, Time
<1> QED BY <1>1, <1>2, <1>3, <1>4, <1>5

LEMMA RequestType ==
  ASSUME TypeOK, NEW c \in Clients, NEW t \in Tasks, NEW kind \in Kinds,
         NEW phase \in {"reread", "write"}, NEW status \in TaskStatuses, NEW nxt \in Nat,
         NEW expired \in BOOLEAN, NEW cfg \in Configs,
         Request(c, t, kind, phase, status, nxt, expired, cfg)
  PROVE  TypeOK'
<1>1. task[t].rev \in Nat
  BY DEF TypeOK, TaskRow
<1>2. op' \in [Clients -> OpType \cup {None}]
  BY <1>1 DEF Request, TypeOK, OpType
<1> QED BY <1>2 DEF Request, TypeOK

LEMMA FirstOccType ==
  ASSUME TypeOK, NEW cfg \in Configs
  PROVE  FirstOcc(cfg) \in Nat
<1>1. cfg.sched \in Schedules /\ cfg.starts \in Time /\ now \in Time
  BY ConfigAssumption DEF ConfigType, TypeOK
<1>2. MaxOf(now, cfg.starts) \in Time
  BY <1>1 DEF MaxOf
<1> QED BY <1>1, <1>2, NextOccAssumption DEF FirstOcc

LEMMA TypeBegin == TypeOK /\ (\E c \in Clients, t \in Tasks : Begin(c, t)) => TypeOK'
<1> SUFFICES ASSUME TypeOK, NEW c \in Clients, NEW t \in Tasks, Begin(c, t) PROVE TypeOK'
  OBVIOUS
<1>1. task[t].cfg \in Configs /\ task[t].status \in TaskStatuses /\ FirstOcc(task[t].cfg) \in Nat
  BY FirstOccType DEF TypeOK, TaskRow
<1>2. now \in Nat /\ 0 \in Nat
  BY BoundAssumption DEF TypeOK, Time
<1>3. CASE BeginCreate(c, t) \/ BeginUpdate(c, t) \/ BeginExecution(c, t)
  <2>1. PICK cfg \in Configs, kind \in {"create", "update", "execution"},
             status \in {"active", task[t].status}, nxt \in {FirstOcc(d) : d \in Configs} \cup {0} :
          Request(c, t, kind, "write", status, nxt, FALSE, cfg)
    BY <1>3 DEF BeginCreate, BeginUpdate, BeginExecution
  <2>2. nxt \in Nat /\ status \in TaskStatuses /\ kind \in Kinds
    BY <1>1, <1>2, FirstOccType DEF TaskStatuses, Kinds
  <2> QED BY <2>1, <2>2, RequestType
<1>4. CASE BeginPause(c, t) \/ BeginReject(c, t) \/ BeginArchive(c, t)
  <2>1. PICK kind \in {"pause", "reject", "archive"}, status \in {"paused", "archived"} :
          Request(c, t, kind, "reread", status, 0, FALSE, task[t].cfg)
    BY <1>4 DEF BeginPause, BeginReject, BeginArchive
  <2>2. status \in TaskStatuses /\ kind \in Kinds
    BY DEF TaskStatuses, Kinds
  <2> QED BY <1>1, <1>2, <2>1, <2>2, RequestType
<1>5. CASE BeginResume(c, t) \/ BeginApprove(c, t) \/ BeginRestore(c, t)
  <2>1. PICK kind \in {"resume", "approve", "restore"}, over \in BOOLEAN,
             status \in {"active", "expired", "pending_approval"} :
          Request(c, t, kind, "write", status, FirstOcc(task[t].cfg), over, task[t].cfg)
    BY <1>5 DEF BeginResume, BeginApprove, BeginRestore, Reached
  <2>2. status \in TaskStatuses /\ kind \in Kinds
    BY DEF TaskStatuses, Kinds
  <2> QED BY <1>1, <2>1, <2>2, RequestType
<1>6. CASE BeginManual(c, t)
  <2>1. "manual" \in Kinds
    BY DEF Kinds
  <2> QED BY <1>1, <1>2, <1>6, <2>1, RequestType DEF BeginManual
<1> QED BY <1>3, <1>4, <1>5, <1>6 DEF Begin

LEMMA WrittenType ==
  ASSUME NEW row \in TaskRow, NEW o \in OpType
  PROVE  Written(row, o) \in TaskRow /\ Written(row, o).runCount = row.runCount
<1>1. row.rev + 1 \in Nat /\ "active" \in TaskStatuses
  BY DEF TaskRow, TaskStatuses
<1>2. CASE o.kind = "create"
  BY <1>1, <1>2 DEF Written, TaskRow, OpType
<1>3. CASE o.kind = "update"
  BY <1>1, <1>3 DEF Written, TaskRow, OpType
<1>4. CASE o.kind = "execution"
  BY <1>1, <1>4 DEF Written, TaskRow, OpType
<1>5. CASE o.kind \in {"pause", "reject", "archive"}
  BY <1>1, <1>5 DEF Written, TaskRow, OpType
<1>6. CASE o.kind = "approve"
  BY <1>1, <1>6 DEF Written, TaskRow, OpType
<1>7. CASE o.kind \in {"resume", "restore", "manual"}
  BY <1>1, <1>7 DEF Written, TaskRow, OpType
<1> QED BY <1>2, <1>3, <1>4, <1>5, <1>6, <1>7 DEF OpType, Kinds

LEMMA TypeCommit == TypeOK /\ (\E c \in Clients : Commit(c)) => TypeOK'
<1> SUFFICES ASSUME TypeOK, NEW c \in Clients, Commit(c) PROVE TypeOK'
  OBVIOUS
<1>0. op[c] # None
  BY DEF Commit, Reread, WriteTask, InsertManual
<1>1. op[c] \in OpType /\ op[c].task \in Tasks /\ op' \in [Clients -> OpType \cup {None}]
  <2>1. op[c] \in OpType /\ op[c].task \in Tasks
    BY <1>0 DEF TypeOK, OpType
  <2>2. task[op[c].task].rev \in Nat
    BY <2>1 DEF TypeOK, TaskRow
  <2>3. CASE Reread(c)
    BY <2>1, <2>2, <2>3 DEF Reread, TypeOK, OpType
  <2>4. CASE WriteTask(c) \/ InsertManual(c)
    <3>1. op' = [op EXCEPT ![c] = None]
      BY <2>4 DEF WriteTask, InsertManual
    <3>2. op \in [Clients -> OpType \cup {None}]
      BY DEF TypeOK
    <3> QED BY <2>1, <3>1, <3>2
  <2>5. Reread(c) \/ WriteTask(c) \/ InsertManual(c)
    BY DEF Commit
  <2> QED BY <2>3, <2>4, <2>5, <2>1
<1>2. CASE Reread(c)
  BY <1>1, <1>2 DEF Reread, TypeOK
<1>3. CASE WriteTask(c)
  <2>1. task' \in [Tasks -> TaskRow]
    BY <1>1, <1>3, WrittenType DEF WriteTask, TypeOK
  <2> QED BY <1>1, <1>3, <2>1 DEF WriteTask, TypeOK
<1>4. CASE InsertManual(c)
  <2>1. run' \in [RunKeys -> RunRow]
    BY <1>4 DEF InsertManual, TypeOK, QueuedRun, RunRow, RunStatuses
  <2> QED BY <1>1, <1>4, <2>1 DEF InsertManual, TypeOK
<1> QED BY <1>2, <1>3, <1>4 DEF Commit

LEMMA TypeNext == TypeOK /\ [Next]_vars => TypeOK'
<1>1. TypeOK /\ UNCHANGED vars => TypeOK'
  BY DEF TypeOK, vars
<1> QED BY <1>1, TypeTick, TypeWorker, TypeProcess, TypeBegin, TypeCommit DEF Next

\* Every reachable state of the scheduler is well typed.
THEOREM TypeCorrect == Spec => []TypeOK
BY TypeInit, TypeNext, PTL DEF Spec

-----------------------------------------------------------------------------
(* Which steps materialize an occurrence, and which change run_count *)

LEMMA FiniteKeys == \A t \in Tasks : IsFiniteSet(AutoKeys(t) \cap Materialized)
<1> SUFFICES ASSUME NEW t \in Tasks PROVE IsFiniteSet(AutoKeys(t) \cap Materialized)
  OBVIOUS
<1>1. IsFiniteSet(Time)
  BY BoundAssumption, FS_Interval DEF Time
<1> DEFINE key == [x \in Time |-> AutoKey(t, x)]
<1>2. key \in Surjection(Time, AutoKeys(t))
  <2>1. key \in [Time -> AutoKeys(t)]
    BY DEF AutoKey, AutoKeys, RunKeys
  <2>2. \A k \in AutoKeys(t) : \E x \in Time : key[x] = k
    BY DEF AutoKey, AutoKeys, RunKeys
  <2> QED BY <2>1, <2>2, Fun_IsSurj
<1>3. IsFiniteSet(AutoKeys(t))
  BY <1>1, <1>2, FS_Surjection
<1> QED BY <1>3, FS_Subset

\* Only a tick and a manual request insert a run; the other steps keep the rows.
LEMMA OtherStepsKeepKeys ==
  ASSUME TypeOK, [Next]_vars, ~Tick, \A c \in Clients : ~InsertManual(c)
  PROVE  Materialized' = Materialized
<1> SUFFICES ASSUME NEW k \in RunKeys PROVE run'[k].status = "none" <=> run[k].status = "none"
  BY DEF Materialized
<1>0. \A o \in Terminal : FinishedRun(run[k], o).status = "none" <=> run[k].status = "none"
  BY DEF FinishedRun, TypeOK, RunRow, Terminal, Outcomes
<1>1. CASE UNCHANGED run
  BY <1>1
<1>2. ASSUME NEW w \in Workers, Claim(w) PROVE run'[k].status = "none" <=> run[k].status = "none"
  BY <1>2 DEF Claim, Claimable, TypeOK
<1>3. ASSUME NEW w \in Workers, Finish(w) PROVE run'[k].status = "none" <=> run[k].status = "none"
  <2>1. PICK o \in Outcomes : FinishScheduleRun(worker[w], o)
    BY <1>3 DEF Finish
  <2> QED BY <1>0, <2>1 DEF FinishScheduleRun, TypeOK, Terminal
<1>4. CASE Start
  BY <1>0, <1>4 DEF Start, TypeOK, Terminal, Outcomes
<1>5. CASE Stop
  BY <1>0, <1>5 DEF Stop, TypeOK, Terminal, Outcomes
<1>6. CASE Crash \/ Drain \/ Release \/ Advance
  BY <1>6 DEF Crash, Drain, Release, Advance
<1>7. ASSUME NEW c \in Clients, NEW t \in Tasks, Begin(c, t) PROVE UNCHANGED run
  BY <1>7 DEF Begin, BeginCreate, BeginUpdate, BeginExecution, BeginPause, BeginResume,
     BeginApprove, BeginReject, BeginArchive, BeginRestore, BeginManual, Request
<1>8. ASSUME NEW c \in Clients, Commit(c) PROVE UNCHANGED run
  BY <1>8 DEF Commit, Reread, WriteTask
<1> QED BY <1>1, <1>2, <1>3, <1>4, <1>5, <1>6, <1>7, <1>8 DEF Next, vars

\* Only a tick changes a run_count.
LEMMA OtherStepsKeepCounts ==
  ASSUME TypeOK, [Next]_vars, ~Tick, NEW t \in Tasks
  PROVE  task'[t].runCount = task[t].runCount
<1>1. CASE UNCHANGED task
  BY <1>1
<1>2. ASSUME NEW w \in Workers, Claim(w) PROVE UNCHANGED task
  BY <1>2 DEF Claim
<1>3. ASSUME NEW w \in Workers, Finish(w) PROVE task'[t].runCount = task[t].runCount
  <2>1. PICK o \in Outcomes : FinishScheduleRun(worker[w], o)
    BY <1>3 DEF Finish
  <2> QED BY <2>1, SettledType DEF FinishScheduleRun, TypeOK, Terminal
<1>4. CASE Start
  BY <1>4, FailedType DEF Start, TypeOK
<1>5. CASE Stop \/ Crash \/ Drain \/ Release \/ Advance
  BY <1>5 DEF Stop, Crash, Drain, Release, Advance
<1>6. ASSUME NEW c \in Clients, NEW u \in Tasks, Begin(c, u) PROVE UNCHANGED task
  BY <1>6 DEF Begin, BeginCreate, BeginUpdate, BeginExecution, BeginPause, BeginResume,
     BeginApprove, BeginReject, BeginArchive, BeginRestore, BeginManual, Request
<1>7. ASSUME NEW c \in Clients, Reread(c) \/ InsertManual(c) PROVE UNCHANGED task
  BY <1>7 DEF Reread, InsertManual
<1>8. ASSUME NEW c \in Clients, WriteTask(c) PROVE task'[t].runCount = task[t].runCount
  <2>1. op[c] \in OpType
    BY <1>8 DEF WriteTask, TypeOK
  <2> QED BY <1>8, <2>1, WrittenType DEF WriteTask, TypeOK
<1> QED BY <1>1, <1>2, <1>3, <1>4, <1>5, <1>6, <1>7, <1>8 DEF Next, Commit, vars

-----------------------------------------------------------------------------
(* run_count *)

\* The keys a tick inserts for a task are as many as the plan's occurrences.
LEMMA NewKeysCount ==
  ASSUME TypeOK, NEW t \in Tasks, DueRow(task[t], now)
  PROVE  LET K == {k \in AutoKeys(t) : k.at \in Occurrences(task[t], now)}
         IN  IsFiniteSet(K) /\ Cardinality(K) = Cardinality(Occurrences(task[t], now))
<1> DEFINE occ == Occurrences(task[t], now)
           K == {k \in AutoKeys(t) : k.at \in occ}
           key == [x \in occ |-> AutoKey(t, x)]
<1>1. IsFiniteSet(occ) /\ occ \subseteq Time
  BY OccurrencesType, BoundAssumption DEF TypeOK, Time
<1>2. key \in Bijection(occ, K)
  <2>1. key \in [occ -> K]
    BY <1>1 DEF AutoKey, AutoKeys, RunKeys
  <2>2. \A x, y \in occ : key[x] = key[y] => x = y
    BY DEF AutoKey
  <2>3. \A k \in K : \E x \in occ : key[x] = k
    BY DEF AutoKey, AutoKeys, RunKeys
  <2> QED BY <2>1, <2>2, <2>3, Fun_IsBij
<1>3. ExistsBijection(occ, K)
  BY <1>2 DEF ExistsBijection
<1> QED BY <1>1, <1>3, FS_Bijection

LEMMA RunCountTick ==
  TypeOK /\ RunCountCountsOccurrences /\ Tick => RunCountCountsOccurrences'
<1> SUFFICES ASSUME TypeOK, RunCountCountsOccurrences, Tick, NEW t \in Tasks
             PROVE  task'[t].runCount = Cardinality(AutoKeys(t) \cap Materialized')
  BY DEF RunCountCountsOccurrences, AutoKeys, RunKeys, Time
<1> DEFINE Old == AutoKeys(t) \cap Materialized
           K == {k \in AutoKeys(t) : k.at \in Occurrences(task[t], now)}
<1>1. PICK b \in Batches :
        /\ ~Conflict(b)
        /\ task' = [u \in Tasks |-> IF u \in b THEN Planned(task[u], now) ELSE task[u]]
        /\ run' = [k \in RunKeys |-> IF k \in NewKeys(b) THEN QueuedRun ELSE run[k]]
  BY DEF Tick
<1>2. Materialized' = Materialized \cup NewKeys(b)
  BY <1>1 DEF Materialized, NewKeys, QueuedRun
<1>3. CASE t \notin b
  <2>1. AutoKeys(t) \cap Materialized' = Old
    BY <1>2, <1>3 DEF AutoKeys, NewKeys
  <2> QED BY <1>1, <1>3, <2>1 DEF RunCountCountsOccurrences
<1>4. CASE t \in b
  <2>1. DueRow(task[t], now)
    BY <1>4 DEF Batches, Due, TypeOK, DueRow, TaskRow
  <2>2. AutoKeys(t) \cap Materialized' = Old \cup K /\ Old \cap K = {}
    BY <1>1, <1>2, <1>4 DEF AutoKeys, NewKeys, Conflict
  <2>3. IsFiniteSet(K) /\ Cardinality(K) = Cardinality(Occurrences(task[t], now))
    BY <2>1, NewKeysCount
  <2>4. IsFiniteSet(Old) /\ Cardinality(Old) = task[t].runCount
    BY FiniteKeys DEF RunCountCountsOccurrences
  <2>5. Cardinality(Old \cup K) = Cardinality(Old) + Cardinality(K) - Cardinality(Old \cap K)
    BY <2>3, <2>4, FS_Union
  <2>6. Cardinality(Old \cap K) = 0
    BY <2>2, FS_EmptySet
  <2>7. task[t].runCount \in Nat /\ Cardinality(K) \in Nat
    BY <2>1, <2>3, OccurrencesType DEF TypeOK, TaskRow
  <2>8. task'[t].runCount = task[t].runCount + Cardinality(K)
    <3>1. task'[t] = Planned(task[t], now)
      BY <1>1, <1>4
    <3>2. task[t] \in TaskRow
      BY DEF TypeOK
    <3> QED BY <3>1, <3>2, <2>3 DEF Planned, TaskRow
  <2>9. Cardinality(AutoKeys(t) \cap Materialized') = Cardinality(Old \cup K)
    BY <2>2
  <2> HIDE DEF Old, K
  <2>10. Cardinality(Old \cup K) = task[t].runCount + Cardinality(K)
    BY <2>4, <2>5, <2>6, <2>7
  <2> QED BY <2>8, <2>9, <2>10
<1> QED BY <1>3, <1>4

LEMMA RunCountNext ==
  TypeOK /\ RunCountCountsOccurrences /\ [Next]_vars => RunCountCountsOccurrences'
<1> SUFFICES ASSUME TypeOK, RunCountCountsOccurrences, [Next]_vars
             PROVE  RunCountCountsOccurrences'
  OBVIOUS
<1>1. CASE Tick
  BY <1>1, RunCountTick
<1>2. CASE ~Tick
  <2>1. \A t \in Tasks : AutoKeys(t) \cap Materialized' = AutoKeys(t) \cap Materialized
    <3>1. CASE \A c \in Clients : ~InsertManual(c)
      BY <1>2, <3>1, OtherStepsKeepKeys
    <3>2. ASSUME NEW c \in Clients, InsertManual(c)
          PROVE  \A t \in Tasks : AutoKeys(t) \cap Materialized' = AutoKeys(t) \cap Materialized
      BY <3>2 DEF InsertManual, AutoKeys, Materialized, TypeOK
    <3> QED BY <3>1, <3>2
  <2>2. \A t \in Tasks : task'[t].runCount = task[t].runCount
    BY <1>2, OtherStepsKeepCounts
  <2> QED BY <2>1, <2>2 DEF RunCountCountsOccurrences, AutoKeys, RunKeys, Time
<1> QED BY <1>1, <1>2

\* run_count is exact in every reachable state, for any tasks, clients and plans.
THEOREM RunCountIsExact == Spec => []RunCountCountsOccurrences
<1>1. Init => RunCountCountsOccurrences
  <2> SUFFICES ASSUME Init, NEW t \in Tasks
               PROVE  task[t].runCount = Cardinality(AutoKeys(t) \cap Materialized)
    BY DEF RunCountCountsOccurrences
  <2>1. Materialized = {}
    BY DEF Init, Materialized, NoRun
  <2>2. task[t].runCount = 0
    BY DEF Init
  <2> QED BY <2>1, <2>2, FS_EmptySet
<1> QED BY <1>1, TypeCorrect, RunCountNext, PTL DEF Spec

-----------------------------------------------------------------------------
(* Ownership of runs *)

LEMMA OwnershipNext == TypeOK /\ WorkerOwnsItsRun /\ [Next]_vars => WorkerOwnsItsRun'
<1> SUFFICES ASSUME TypeOK, WorkerOwnsItsRun, [Next]_vars PROVE WorkerOwnsItsRun'
  OBVIOUS
<1>0. \A w \in Workers : worker[w] # None => worker[w] \in RunKeys
  BY DEF TypeOK
<1>1. ASSUME NEW b \in Batches, ~Conflict(b), UNCHANGED <<up, worker>>,
             run' = [k \in RunKeys |-> IF k \in NewKeys(b) THEN QueuedRun ELSE run[k]]
      PROVE  WorkerOwnsItsRun'
  <2>1. \A w \in Workers : worker[w] # None => worker[w] \notin NewKeys(b)
    BY <1>0, <1>1 DEF WorkerOwnsItsRun, Conflict, Materialized
  <2> QED BY <1>0, <1>1, <2>1 DEF WorkerOwnsItsRun
<1>2. CASE Tick
  BY <1>1, <1>2 DEF Tick
<1>3. ASSUME NEW w \in Workers, Claim(w) PROVE WorkerOwnsItsRun'
  <2>1. PICK k \in Claimable :
          /\ run' = [run EXCEPT ![k] = [status |-> "running", lease |-> now + Lease,
                                        attempt |-> @.attempt + 1]]
          /\ worker' = [worker EXCEPT ![w] = k]
    BY <1>3 DEF Claim
  <2>2. now + Lease # None
    BY BoundAssumption, TaskAssumption DEF TypeOK, Time
  <2>3. \A v \in Workers : worker[v] # k
    BY <2>1, TaskAssumption DEF Claimable, WorkerOwnsItsRun
  <2>4. k \in RunKeys /\ run[k].status = "queued"
    BY DEF Claimable
  <2>5. up' /\ worker \in [Workers -> RunKeys \cup {None}] /\ run \in [RunKeys -> RunRow]
    BY <1>3 DEF Claim, TypeOK
  <2>6. ASSUME NEW v \in Workers, worker'[v] # None
        PROVE  /\ run'[worker'[v]].status = "running" /\ run'[worker'[v]].lease # None
               /\ \A u \in Workers \ {v} : worker'[u] # worker'[v]
    <3>1. CASE v = w
      BY <2>1, <2>2, <2>3, <2>4, <2>5, <3>1
    <3>2. CASE v # w
      BY <2>1, <2>3, <2>4, <2>5, <2>6, <3>2 DEF WorkerOwnsItsRun
    <3> QED BY <3>1, <3>2
  <2> QED BY <2>5, <2>6 DEF WorkerOwnsItsRun
<1>4. ASSUME NEW w \in Workers, Finish(w) PROVE WorkerOwnsItsRun'
  <2>1. PICK o \in Outcomes :
          run' = [run EXCEPT ![worker[w]] = FinishedRun(@, o)]
    BY <1>4 DEF Finish, FinishScheduleRun
  <2>2. worker' = [worker EXCEPT ![w] = None] /\ up' = up
    BY <1>4 DEF Finish
  <2> QED BY <1>0, <1>4, <2>1, <2>2 DEF WorkerOwnsItsRun, TypeOK, Finish
<1>5. CASE Start
  BY <1>5 DEF Start, WorkerOwnsItsRun
<1>6. CASE Stop \/ Crash
  BY <1>6 DEF Stop, Crash, WorkerOwnsItsRun
<1>7. CASE UNCHANGED <<up, run, worker>>
  BY <1>7 DEF WorkerOwnsItsRun
<1>8. CASE Drain \/ Release \/ Advance
  BY <1>7, <1>8 DEF Drain, Release, Advance
<1>9. ASSUME NEW c \in Clients, NEW t \in Tasks, Begin(c, t) PROVE UNCHANGED <<up, run, worker>>
  BY <1>9 DEF Begin, BeginCreate, BeginUpdate, BeginExecution, BeginPause, BeginResume,
     BeginApprove, BeginReject, BeginArchive, BeginRestore, BeginManual, Request
<1>10. ASSUME NEW c \in Clients, Reread(c) \/ WriteTask(c) PROVE UNCHANGED <<up, run, worker>>
  BY <1>10 DEF Reread, WriteTask
<1>11. ASSUME NEW c \in Clients, InsertManual(c) PROVE WorkerOwnsItsRun'
  BY <1>0, <1>11 DEF InsertManual, WorkerOwnsItsRun, TypeOK
<1> QED BY <1>2, <1>3, <1>4, <1>5, <1>6, <1>7, <1>8, <1>9, <1>10, <1>11 DEF Next, Commit, vars

\* No two workers ever execute the same run and no result is dropped.
THEOREM WorkersOwnTheirRuns == Spec => []WorkerOwnsItsRun
<1>1. Init => WorkerOwnsItsRun
  BY DEF Init, WorkerOwnsItsRun
<1> QED BY <1>1, TypeCorrect, OwnershipNext, PTL DEF Spec

-----------------------------------------------------------------------------
(* Approval *)

\* A task past approval is approved, and a request that presumes approval
\* (it read an active or paused task) is about an approved task.
ApprovalInv ==
  /\ UnapprovedNeverRuns
  /\ \A t \in Tasks : task[t].status \in {"active", "paused", "completed", "expired"}
                        => task[t].approved
  /\ \A c \in Clients : op[c] # None =>
       /\ op[c].kind \in {"pause", "resume", "manual"} => task[op[c].task].approved
       /\ op[c].kind = "restore" /\ op[c].status = "active" => task[op[c].task].approved
       /\ op[c].kind = "restore" => op[c].status \in {"active", "pending_approval"}
       /\ op[c].kind \in {"reject", "archive"} => op[c].status = "archived"

\* Approval is never taken back.
LEMMA ApprovedStays ==
  ASSUME TypeOK, [Next]_vars, NEW t \in Tasks, task[t].approved
  PROVE  task'[t].approved
<1>0. task[t] \in TaskRow
  BY DEF TypeOK
<1>1. CASE UNCHANGED task
  BY <1>1
<1>2. CASE Tick
  <2>1. task'[t] = task[t] \/ task'[t] = Planned(task[t], now)
    BY <1>2 DEF Tick
  <2> QED BY <1>0, <2>1 DEF Planned, TaskRow
<1>3. ASSUME NEW w \in Workers, Finish(w) PROVE task'[t].approved
  <2>1. PICK o \in Outcomes : FinishScheduleRun(worker[w], o)
    BY <1>3 DEF Finish
  <2> QED BY <2>1, SettledType DEF FinishScheduleRun, TypeOK, Terminal
<1>4. CASE Start
  BY <1>4, FailedType DEF Start, TypeOK
<1>5. ASSUME NEW c \in Clients, WriteTask(c) PROVE task'[t].approved
  <2>1. task'[t] = task[t] \/ task'[t] = Written(task[t], op[c])
    BY <1>5 DEF WriteTask, TypeOK
  <2> QED BY <1>0, <2>1 DEF Written, TaskRow
<1>6. ASSUME NEW w \in Workers, Claim(w) PROVE UNCHANGED task
  BY <1>6 DEF Claim
<1>7. CASE Stop \/ Crash \/ Drain \/ Release \/ Advance
  BY <1>7 DEF Stop, Crash, Drain, Release, Advance
<1>8. ASSUME NEW c \in Clients, NEW u \in Tasks, Begin(c, u) PROVE UNCHANGED task
  BY <1>8 DEF Begin, BeginCreate, BeginUpdate, BeginExecution, BeginPause, BeginResume,
     BeginApprove, BeginReject, BeginArchive, BeginRestore, BeginManual, Request
<1>9. ASSUME NEW c \in Clients, Reread(c) \/ InsertManual(c) PROVE UNCHANGED task
  BY <1>9 DEF Reread, InsertManual
<1> QED BY <1>1, <1>2, <1>3, <1>4, <1>5, <1>6, <1>7, <1>8, <1>9 DEF Next, Commit, vars

LEMMA ApprovalRuns == TypeOK /\ ApprovalInv /\ [Next]_vars => UnapprovedNeverRuns'
<1> SUFFICES ASSUME TypeOK, ApprovalInv, [Next]_vars, NEW k \in RunKeys, k \in Materialized'
             PROVE  task'[k.task].approved
  BY DEF UnapprovedNeverRuns, Materialized, RunKeys, Time
<1>0. k.task \in Tasks
  BY DEF RunKeys
<1>1. CASE k \in Materialized
  BY <1>0, <1>1, ApprovedStays DEF ApprovalInv, UnapprovedNeverRuns
<1>2. CASE k \notin Materialized /\ Tick
  <2>1. task[k.task].status = "active"
    BY <1>2 DEF Tick, NewKeys, Batches, Due, Materialized
  <2> QED BY <1>0, <2>1, ApprovedStays DEF ApprovalInv
<1>3. ASSUME NEW c \in Clients, InsertManual(c), k \notin Materialized
      PROVE  task'[k.task].approved
  <2>1. k.task = op[c].task /\ op[c].kind = "manual" /\ op[c] # None
    BY <1>3 DEF InsertManual, Materialized, TypeOK
  <2> QED BY <1>0, <2>1, ApprovedStays DEF ApprovalInv
<1> QED BY <1>1, <1>2, <1>3, OtherStepsKeepKeys

LEMMA ApprovalTasks ==
  ASSUME TypeOK, ApprovalInv, [Next]_vars, NEW t \in Tasks,
         task'[t].status \in {"active", "paused", "completed", "expired"}
  PROVE  task'[t].approved
<1>0. task[t] \in TaskRow
  BY DEF TypeOK
<1>1. CASE task[t].status \in {"active", "paused", "completed", "expired"}
  BY <1>1, ApprovedStays DEF ApprovalInv
<1>2. CASE task[t].status \notin {"active", "paused", "completed", "expired"}
  <2>1. ASSUME NEW c \in Clients, WriteTask(c) PROVE task'[t].approved
    <3>1. /\ op[c] # None /\ op[c].kind # "manual"
          /\ task'[t] = task[t] \/ (t = op[c].task /\ task'[t] = Written(task[t], op[c]))
      BY <2>1 DEF WriteTask, TypeOK
    <3>2. CASE task'[t] = task[t]
      BY <1>2, <3>2
    <3>3. CASE t = op[c].task /\ task'[t] = Written(task[t], op[c])
      <4>1. op[c].kind \in Kinds \ {"manual"}
        BY <3>1 DEF TypeOK, OpType
      <4>2. CASE op[c].kind \in {"create", "approve"}
        BY ZenonT(40), <1>0, <3>3, <4>2 DEF Written, TaskRow
      <4>3. CASE op[c].kind \in {"update", "execution"}
        BY <1>0, <1>2, <3>3, <4>3 DEF Written, TaskRow
      <4>4. CASE op[c].kind \in {"reject", "archive"}
        BY <1>0, <3>1, <3>3, <4>4 DEF Written, TaskRow, ApprovalInv
      <4>5. CASE op[c].kind = "restore"
        <5>1. task'[t].status = op[c].status /\ task'[t].approved = task[t].approved
          BY <1>0, <3>3, <4>5 DEF Written, TaskRow
        <5> QED BY <3>1, <3>3, <4>5, <5>1 DEF ApprovalInv
      <4>6. CASE op[c].kind \in {"pause", "resume"}
        <5>1. task'[t].approved = task[t].approved
          BY <1>0, <3>3, <4>6 DEF Written, TaskRow
        <5> QED BY <3>1, <3>3, <4>6, <5>1 DEF ApprovalInv
      <4> QED BY <4>1, <4>2, <4>3, <4>4, <4>5, <4>6 DEF Kinds
    <3> QED BY <3>1, <3>2, <3>3
  <2>2. CASE Tick
    BY <1>2, <2>2 DEF Tick, Batches, Due
  <2>3. \A row \in TaskRow : row.status # "active" => Failed(row).status = row.status
    BY DEF Failed, TaskRow
  <2>4. CASE Start
    BY <1>0, <1>2, <2>3, <2>4 DEF Start
  <2>5. ASSUME NEW w \in Workers, Finish(w) PROVE task'[t].status = task[t].status
    <3>1. PICK o \in Outcomes : task'[t] = task[t] \/ task'[t] = Settled(task[t], o)
      BY <2>5 DEF Finish, FinishScheduleRun, TypeOK
    <3> QED BY <1>0, <1>2, <2>3, <3>1 DEF Settled, TaskRow
  <2>6. CASE UNCHANGED task
    BY <1>2, <2>6
  <2>7. ASSUME NEW w \in Workers, Claim(w) PROVE UNCHANGED task
    BY <2>7 DEF Claim
  <2>8. CASE Stop \/ Crash \/ Drain \/ Release \/ Advance
    BY <2>6, <2>8 DEF Stop, Crash, Drain, Release, Advance
  <2>9. ASSUME NEW c \in Clients, NEW u \in Tasks, Begin(c, u) PROVE UNCHANGED task
    BY <2>9 DEF Begin, BeginCreate, BeginUpdate, BeginExecution, BeginPause, BeginResume,
       BeginApprove, BeginReject, BeginArchive, BeginRestore, BeginManual, Request
  <2>10. ASSUME NEW c \in Clients, Reread(c) \/ InsertManual(c) PROVE UNCHANGED task
    BY <2>10 DEF Reread, InsertManual
  <2> QED BY <1>2, <2>1, <2>2, <2>4, <2>5, <2>6, <2>7, <2>8, <2>9, <2>10 DEF Next, Commit, vars
<1> QED BY <1>1, <1>2

\* what ApprovalInv says of one request
OpApproval(o, approved) ==
  /\ o.kind \in {"pause", "resume", "manual"} => approved
  /\ o.kind = "restore" /\ o.status = "active" => approved
  /\ o.kind = "restore" => o.status \in {"active", "pending_approval"}
  /\ o.kind \in {"reject", "archive"} => o.status = "archived"

LEMMA ApprovalOps ==
  ASSUME TypeOK, ApprovalInv, [Next]_vars, NEW c \in Clients, op'[c] # None
  PROVE  OpApproval(op'[c], task'[op'[c].task].approved)
<1>1. CASE op'[c] = op[c]
  <2>1. op[c].task \in Tasks /\ OpApproval(op[c], task[op[c].task].approved)
    BY <1>1 DEF TypeOK, OpType, ApprovalInv, OpApproval
  <2> QED BY <1>1, <2>1, ApprovedStays DEF OpApproval
<1>2. ASSUME NEW d \in Clients, Reread(d), op'[c] # op[c]
      PROVE  OpApproval(op'[c], task'[op'[c].task].approved)
  <2>1. /\ op[c] # None /\ task' = task /\ op'[c].task = op[c].task
        /\ op'[c].kind = op[c].kind /\ op'[c].status = op[c].status
    BY <1>2 DEF Reread, TypeOK, OpType
  <2> QED BY <2>1 DEF ApprovalInv, OpApproval
<1>3. ASSUME NEW d \in Clients, NEW t \in Tasks, Begin(d, t), op'[c] # op[c]
      PROVE  OpApproval(op'[c], task'[op'[c].task].approved)
  <2>1. op \in [Clients -> OpType \cup {None}] /\ task \in [Tasks -> TaskRow]
    BY DEF TypeOK
  <2>2. task[t].status \in {"active", "paused"} => task[t].approved
    BY DEF ApprovalInv
  <2>3. CASE BeginCreate(d, t) \/ BeginUpdate(d, t) \/ BeginExecution(d, t)
    BY <1>3, <2>1, <2>3 DEF BeginCreate, BeginUpdate, BeginExecution, OpApproval, Request
  <2>4. CASE BeginPause(d, t) \/ BeginResume(d, t) \/ BeginManual(d, t)
    BY <1>3, <2>1, <2>2, <2>4 DEF BeginPause, BeginResume, BeginManual, OpApproval, Request
  <2>5. CASE BeginReject(d, t) \/ BeginArchive(d, t) \/ BeginApprove(d, t)
    BY <1>3, <2>1, <2>5 DEF BeginReject, BeginArchive, BeginApprove, OpApproval, Request
  <2>6. CASE BeginRestore(d, t)
    BY <1>3, <2>1, <2>6 DEF BeginRestore, OpApproval, Request
  <2> QED BY <1>3, <2>3, <2>4, <2>5, <2>6 DEF Begin
<1>4. ASSUME NEW d \in Clients, WriteTask(d) \/ InsertManual(d)
      PROVE  op'[c] = op[c]
  BY <1>4 DEF WriteTask, InsertManual, TypeOK
<1>5. CASE Tick \/ Start \/ Stop \/ Crash \/ Drain \/ Release \/ Advance
  BY <1>1, <1>5 DEF Tick, Start, Stop, Crash, Drain, Release, Advance
<1>6. ASSUME NEW w \in Workers, Claim(w) \/ Finish(w) PROVE UNCHANGED op
  BY <1>6 DEF Claim, Finish
<1> QED BY <1>1, <1>2, <1>3, <1>4, <1>5, <1>6 DEF Next, Commit, vars

LEMMA ApprovalAlways == Spec => []ApprovalInv
<1>1. Init => ApprovalInv
  BY DEF Init, ApprovalInv, UnapprovedNeverRuns, Materialized, NoRun
<1>2. TypeOK /\ ApprovalInv /\ [Next]_vars => ApprovalInv'
  <2> SUFFICES ASSUME TypeOK, ApprovalInv, [Next]_vars PROVE ApprovalInv'
    OBVIOUS
  <2> QED BY ApprovalRuns, ApprovalTasks, ApprovalOps DEF ApprovalInv, OpApproval
<1> QED BY <1>1, <1>2, TypeCorrect, PTL DEF Spec

\* A task nobody approved never runs, whatever requests race.
THEOREM UnapprovedTasksNeverRun == Spec => []UnapprovedNeverRuns
<1>1. ApprovalInv => UnapprovedNeverRuns
  BY DEF ApprovalInv
<1> QED BY <1>1, ApprovalAlways, PTL

-----------------------------------------------------------------------------
(* Limits of a tick *)

\* catch_up takes no more occurrences than max_runs leaves.
LEMMA OccurrencesWithinRemaining ==
  ASSUME NEW row, NEW n, DueRow(row, n), row.cfg.maxRuns # None, ~Exhausted(row)
  PROVE  Cardinality(Occurrences(row, n)) <= Remaining(row)
<1> DEFINE C == Candidates(row, n)
           M == Missed(row, n)
           last == LastOf(C)
           Before == {y \in M : y < last}
<1>0. /\ n \in Nat /\ row.cfg.maxRuns \in Nat /\ row.runCount \in Nat
      /\ Remaining(row) \in Nat /\ Remaining(row) > 0
  BY ConfigAssumption, BoundAssumption DEF DueRow, TaskRow, ConfigType, Time, Remaining, Exhausted
<1>a. C \subseteq 0..n /\ C # {}
  BY CandidatesType
<1>b. IsFiniteSet(0..n)
  BY <1>0, FS_Interval
<1>1. C \subseteq 0..n /\ C # {} /\ IsFiniteSet(0..n)
  BY <1>a, <1>b
<1>2. Occurrences(row, n) \in SUBSET C
  BY DEF Occurrences
<1>3. IsFiniteSet(C) /\ Cardinality(Occurrences(row, n)) <= Cardinality(C)
  <2>1. IsFiniteSet(C)
    BY <1>1, FS_Subset
  <2> QED BY <1>2, <2>1, FS_Subset
<1>4. CASE row.cfg.policy # "catch_up"
  <2>1. C = {row.nextRun}
    BY <1>4 DEF Candidates
  <2>2. Cardinality(C) = 1
    BY <2>1, FS_Singleton
  <2>3. Cardinality(Occurrences(row, n)) \in Nat
    BY OccurrencesType
  <2> QED BY <1>0, <1>3, <2>2, <2>3
<1>5. CASE row.cfg.policy = "catch_up"
  <2>1. last \in C /\ \A y \in C : y <= last
    <3>1. \E x \in C : \A y \in C : y <= x
      BY <1>0, <1>1, NatGreatest
    <3> QED BY <3>1 DEF LastOf
  <2>2. C \subseteq M /\ M \subseteq 0..n
    BY <1>5, <1>0, ConfigAssumption, BoundAssumption
       DEF Candidates, Missed, DueRow, TaskRow, Time
  <2>3. Cardinality(Before) < Remaining(row)
    BY <1>5, <2>1 DEF Candidates
  <2>4. IsFiniteSet(Before)
    <3>1. Before \in SUBSET (0..n)
      BY <2>2
    <3> QED BY <1>1, <3>1, FS_Subset
  <2>5. C \subseteq Before \cup {last}
    <3> SUFFICES ASSUME NEW y \in C, y # last PROVE y \in Before
      OBVIOUS
    <3>1. y <= last /\ y \in Int /\ last \in Int
      BY <1>0, <1>1, <2>1
    <3> QED BY <2>2, <3>1
  <2>6. last \notin Before
    BY <1>0, <1>1, <2>1
  <2> HIDE DEF C, M, last, Before
  <2>7. IsFiniteSet(Before \cup {last}) /\ Cardinality(Before \cup {last}) = Cardinality(Before) + 1
    BY <2>4, <2>6, FS_AddElement
  <2>8. Cardinality(C) <= Cardinality(Before) + 1
    BY <2>5, <2>7, FS_Subset
  <2>9. /\ Cardinality(Before) \in Nat /\ Cardinality(C) \in Nat
        /\ Cardinality(Occurrences(row, n)) \in Nat
    BY <1>3, <2>4, FS_CardinalityType, OccurrencesType
  <2> QED BY <1>0, <1>3, <2>3, <2>8, <2>9
<1> QED BY <1>4, <1>5

LEMMA MaxRunsStep ==
  ASSUME TypeOK, [Next]_vars, NEW t \in Tasks,
         task'[t].runCount > task[t].runCount, task[t].cfg.maxRuns # None
  PROVE  task'[t].runCount <= task[t].cfg.maxRuns
<1>0. task[t] \in TaskRow /\ task[t].runCount \in Nat /\ task[t].cfg.maxRuns \in Nat
  BY ConfigAssumption DEF TypeOK, TaskRow, ConfigType
<1>1. Tick
  <2>1. task'[t].runCount # task[t].runCount
    BY <1>0
  <2> QED BY <2>1, OtherStepsKeepCounts
<1>2. /\ DueRow(task[t], now)
      /\ task'[t] = Planned(task[t], now)
  BY <1>0, <1>1 DEF Tick, Batches, Due, DueRow, TypeOK, TaskRow
<1>3. task'[t].runCount = task[t].runCount + Cardinality(Occurrences(task[t], now))
  BY <1>0, <1>2 DEF Planned, TaskRow
<1>4. ~Exhausted(task[t])
  <2> SUFFICES ASSUME Exhausted(task[t]) PROVE FALSE
    OBVIOUS
  <2>1. Cardinality(Occurrences(task[t], now)) = 0
    BY FS_EmptySet DEF Occurrences
  <2> QED BY <1>0, <1>3, <2>1
<1>5. Cardinality(Occurrences(task[t], now)) <= Remaining(task[t])
  BY <1>2, <1>4, OccurrencesWithinRemaining
<1>6. Cardinality(Occurrences(task[t], now)) \in Nat
  BY <1>2, OccurrencesType
<1> QED BY <1>0, <1>3, <1>5, <1>6 DEF Remaining

\* No tick takes a task past its max_runs.
THEOREM MaxRunsIsRespected == Spec => MaxRunsRespected
<1> DEFINE A == \A t \in Tasks :
                  task'[t].runCount > task[t].runCount /\ task[t].cfg.maxRuns # None
                    => task'[t].runCount <= task[t].cfg.maxRuns
<1>1. TypeOK /\ [Next]_vars => [A]_vars
  BY MaxRunsStep
<1>2. Spec => [][A]_vars
  BY <1>1, TypeCorrect, PTL DEF Spec
<1> QED BY <1>2 DEF MaxRunsRespected

\* A tick materializes only what is due, for active tasks, within ends_at.
THEOREM OccurrencesAreDue == Spec => OnlyDueOccurrences
<1> DEFINE A == \A k \in RunKeys :
                  k.kind = "auto" /\ run[k].status = "none" /\ run'[k].status # "none"
                    => /\ task[k.task].status = "active" /\ k.at <= now
                       /\ ~Reached(task[k.task].cfg, k.at)
<1>1. ASSUME TypeOK, [Next]_vars PROVE A
  <2> SUFFICES ASSUME NEW k \in RunKeys, k.kind = "auto", run[k].status = "none",
                      run'[k].status # "none"
               PROVE  /\ task[k.task].status = "active" /\ k.at <= now
                      /\ ~Reached(task[k.task].cfg, k.at)
    OBVIOUS
  <2>1. \A c \in Clients : ~InsertManual(c)
    <3> SUFFICES ASSUME NEW c \in Clients, InsertManual(c) PROVE FALSE
      OBVIOUS
    <3>1. run'[k] = run[k]
      BY <1>1 DEF InsertManual, TypeOK
    <3> QED BY <3>1
  <2>2. Tick
    <3>1. Materialized' # Materialized
      BY DEF Materialized
    <3> QED BY <1>1, <2>1, <3>1, OtherStepsKeepKeys
  <2>3. PICK b \in Batches : k \in NewKeys(b)
    BY <2>2 DEF Tick
  <2>4. /\ k.task \in Due /\ k.task \in Tasks /\ k.at \in Occurrences(task[k.task], now)
    BY <2>3 DEF Batches, NewKeys, RunKeys
  <2>5. DueRow(task[k.task], now) /\ now \in Nat
    BY <1>1, <2>4, BoundAssumption DEF Due, TypeOK, DueRow, TaskRow, Time
  <2>6. k.at <= now
    BY <2>4, <2>5, OccurrencesType
  <2>7. ~Reached(task[k.task].cfg, k.at)
    BY <2>4 DEF Occurrences
  <2> QED BY <2>4, <2>6, <2>7 DEF Due
<1>2. TypeOK /\ [Next]_vars => [A]_vars
  BY <1>1
<1>3. Spec => [][A]_vars
  BY <1>2, TypeCorrect, PTL DEF Spec
<1> QED BY <1>3 DEF OnlyDueOccurrences
-----------------------------------------------------------------------------
(* The rows of scheduled_task_runs implement Occurrences                     *)

\* a step that moves some running keys to a terminal status settles them
LEMMA SettlesKeys ==
  ASSUME TypeOK, NEW S \in SUBSET Running, NEW outcome \in Terminal,
         run' = [k \in RunKeys |-> IF k \in S THEN FinishedRun(run[k], outcome) ELSE run[k]]
  PROVE  Ledger!Settle
<1> USE DEF Queued, Running, Settling, Terminal, Outcomes
<1>1. \A k \in RunKeys : run'[k].status = IF k \in S THEN outcome ELSE run[k].status
  BY DEF TypeOK, RunRow, FinishedRun
<1>2. Queued' = Queued
  BY <1>1
<1>3. Running' = Running \ S
  BY <1>1
<1>4. Settling' = Settling \cup S
  BY <1>1
<1> QED
  BY <1>2, <1>3, <1>4 DEF Ledger!Settle

\* a step that queues some keys for the first time triggers them
LEMMA TriggersKeys ==
  ASSUME TypeOK, NEW S \in SUBSET RunKeys, S \cap Materialized = {},
         run' = [k \in RunKeys |-> IF k \in S THEN QueuedRun ELSE run[k]]
  PROVE  Ledger!Trigger
<1> USE DEF Queued, Running, Settling, Terminal, Outcomes, QueuedRun, Materialized
<1>1. \A k \in RunKeys : run'[k].status = IF k \in S THEN "queued" ELSE run[k].status
  OBVIOUS
<1>2. \A k \in S : run[k].status = "none"
  OBVIOUS
<1>3. Queued' = Queued \cup S
  BY <1>1
<1>4. Running' = Running /\ Settling' = Settling
  BY <1>1, <1>2
<1>5. Queued' \cap (Running \cup Settling) = {}
  BY <1>2, <1>3
<1> QED
  BY <1>3, <1>4, <1>5 DEF Ledger!Trigger

LEMMA LedgerWorker ==
  TypeOK /\ (\E w \in Workers : Claim(w) \/ Finish(w)) => [Ledger!Next]_(Ledger!ledger)
<1> SUFFICES ASSUME TypeOK, NEW w \in Workers, Claim(w) \/ Finish(w)
             PROVE  [Ledger!Next]_(Ledger!ledger)
  OBVIOUS
<1>1. CASE Claim(w)
  <2>1. PICK k \in Claimable :
          run' = [run EXCEPT ![k] = [status |-> "running", lease |-> now + Lease,
                                     attempt |-> @.attempt + 1]]
    BY <1>1 DEF Claim
  <2>2. k \in RunKeys /\ run[k].status = "queued"
    BY DEF Claimable
  <2>3. \A j \in RunKeys : run'[j].status = IF j = k THEN "running" ELSE run[j].status
    BY <2>1, <2>2 DEF TypeOK
  <2>4. /\ k \in Queued /\ Queued' = Queued \ {k}
        /\ Running' = Running \cup {k} /\ Settling' = Settling
    BY <2>2, <2>3 DEF Queued, Running, Settling, Terminal, Outcomes
  <2> QED
    BY <2>2, <2>4 DEF Ledger!Next, Ledger!Take
<1>2. CASE Finish(w)
  <2>1. PICK outcome \in Outcomes : FinishScheduleRun(worker[w], outcome)
    BY <1>2 DEF Finish
  <2>2. worker[w] \in RunKeys
    BY <1>2 DEF Finish, TypeOK
  <2>3. run' = [run EXCEPT ![worker[w]] = FinishedRun(@, outcome)]
    BY <2>1 DEF FinishScheduleRun
  <2>4. CASE run[worker[w]].status = "running"
    <3>1. run' = [k \in RunKeys |-> IF k \in {worker[w]} THEN FinishedRun(run[k], outcome)
                                    ELSE run[k]]
      BY <2>2, <2>3 DEF TypeOK
    <3>2. {worker[w]} \in SUBSET Running /\ outcome \in Terminal
      BY <2>2, <2>4 DEF Running, Terminal
    <3> QED
      BY <3>1, <3>2, SettlesKeys DEF Ledger!Next
  <2>5. CASE run[worker[w]].status # "running"
    <3>1. run' = run
      BY <2>2, <2>3, <2>5 DEF FinishedRun, TypeOK
    <3> QED
      BY <3>1 DEF Queued, Running, Settling, Ledger!ledger
  <2> QED
    BY <2>4, <2>5
<1> QED
  BY <1>1, <1>2

LEMMA LedgerStep == TypeOK /\ WorkerOwnsItsRun /\ [Next]_vars => [Ledger!Next]_(Ledger!ledger)
<1> SUFFICES ASSUME TypeOK, WorkerOwnsItsRun, [Next]_vars PROVE [Ledger!Next]_(Ledger!ledger)
  OBVIOUS
<1>0. ASSUME UNCHANGED run PROVE UNCHANGED (Ledger!ledger)
  BY <1>0 DEF Queued, Running, Settling, Ledger!ledger
<1>1. CASE Tick
  <2>1. PICK b \in Batches :
          /\ ~Conflict(b)
          /\ run' = [k \in RunKeys |-> IF k \in NewKeys(b) THEN QueuedRun ELSE run[k]]
    BY <1>1 DEF Tick
  <2>2. NewKeys(b) \in SUBSET RunKeys /\ NewKeys(b) \cap Materialized = {}
    BY <2>1 DEF NewKeys, Conflict
  <2> QED
    BY <2>1, <2>2, TriggersKeys DEF Ledger!Next
<1>2. CASE \E w \in Workers : Claim(w) \/ Finish(w)
  BY <1>2, LedgerWorker
<1>3. CASE Start
  <2>1. ExpiredLeases \in SUBSET Running /\ "failed" \in Terminal
    BY DEF ExpiredLeases, Running, Terminal, Outcomes
  <2> QED
    BY <1>3, <2>1, SettlesKeys DEF Start, Ledger!Next
<1>4. CASE Stop
  <2> DEFINE S == {k \in RunKeys : \E w \in Workers : worker[w] = k}
  <2>0. \A k \in S : run[k].status = "running"
    BY TaskAssumption DEF WorkerOwnsItsRun
  <2>1. S \in SUBSET Running /\ "cancelled" \in Terminal
    BY <2>0 DEF Running, Terminal
  <2>2. run' = [k \in RunKeys |-> IF k \in S THEN FinishedRun(run[k], "cancelled") ELSE run[k]]
    BY <1>4 DEF Stop
  <2> QED
    BY <2>1, <2>2, SettlesKeys DEF Ledger!Next
<1>5. CASE Crash \/ Drain \/ Release \/ Advance
  BY <1>0, <1>5 DEF Crash, Drain, Release, Advance
<1>6. CASE \E c \in Clients, t \in Tasks : Begin(c, t)
  BY <1>0, <1>6 DEF Begin, BeginCreate, BeginUpdate, BeginExecution, BeginPause, BeginResume,
     BeginApprove, BeginReject, BeginArchive, BeginRestore, BeginManual, Request
<1>7. CASE \E c \in Clients : Reread(c) \/ WriteTask(c)
  BY <1>0, <1>7 DEF Reread, WriteTask
<1>8. CASE \E c \in Clients : InsertManual(c)
  <2>1. PICK c \in Clients : InsertManual(c)
    BY <1>8
  <2> DEFINE k == [task |-> op[c].task, at |-> op[c].nextRun, kind |-> "manual"]
             S == IF run[k].status = "none" THEN {k} \cap RunKeys ELSE {}
  <2>2. S \in SUBSET RunKeys /\ S \cap Materialized = {}
    BY DEF Materialized
  <2>3. run' = [run EXCEPT ![k] = IF @.status = "none" THEN QueuedRun ELSE @]
    BY <2>1 DEF InsertManual
  <2>4. run' = [j \in RunKeys |-> IF j \in S THEN QueuedRun ELSE run[j]]
    BY <2>3 DEF TypeOK
  <2> HIDE DEF S
  <2> QED
    BY <2>2, <2>4, TriggersKeys DEF Ledger!Next
<1>9. CASE UNCHANGED vars
  BY <1>0, <1>9 DEF vars
<1> QED
  BY <1>1, <1>2, <1>3, <1>4, <1>5, <1>6, <1>7, <1>8, <1>9 DEF Next, Commit

\* The table of runs keeps what Occurrences promises: an occurrence is triggered once,
\* taken once and settled for good, whatever crashes, restarts and requests do
\* (claim_next_schedule_run, finish_schedule_run, recover_expired_schedule_run_leases).
THEOREM OccurrencesImplemented == Spec => OccurrenceSpec
<1>1. Init => Ledger!Init
  BY DEF Init, NoRun, Ledger!Init, Queued, Running, Settling, Terminal, Outcomes
<1> QED
  BY <1>1, LedgerStep, TypeCorrect, WorkersOwnTheirRuns, PTL
     DEF Spec, OccurrenceSpec, Ledger!Spec

-----------------------------------------------------------------------------
(* What a step does to one row, and to one request                           *)

Ended == {"completed", "expired", "archived"}
Starters == {"create", "resume", "approve", "restore"}

\* a failure of a run leaves everything of the row but its failures, and may pause it
Charged(row, new) ==
  /\ new.cfg = row.cfg /\ new.nextRun = row.nextRun /\ new.runCount = row.runCount
  /\ new.rev = row.rev /\ new.approved = row.approved
  /\ new.status = row.status \/ (row.status = "active" /\ new.status = "paused")

\* A row changes by a tick, by the end of a run, or by the request that holds its revision.
LEMMA RowMoves ==
  ASSUME TypeOK, [Next]_vars, NEW t \in Tasks
  PROVE  \/ task'[t] = task[t]
         \/ UNCHANGED op /\ t \in Due /\ task'[t] = Planned(task[t], now)
         \/ UNCHANGED op /\ Charged(task[t], task'[t])
         \/ \E c \in Clients : /\ op[c] # None /\ WriteTask(c) /\ t = op[c].task
                               /\ op[c].rev = task[t].rev /\ op[c].kind # "manual"
                               /\ task'[t] = Written(task[t], op[c])
<1>0. task[t] \in TaskRow
  BY DEF TypeOK
<1>1. CASE UNCHANGED task
  BY <1>1
<1>2. CASE Tick
  BY <1>2 DEF Tick, Batches
<1>a. Charged(task[t], Failed(task[t]))
  BY <1>0 DEF Charged, Failed, TaskRow
<1>3. ASSUME NEW w \in Workers, Finish(w)
      PROVE  UNCHANGED op /\ (task'[t] = task[t] \/ Charged(task[t], task'[t]))
  <2>1. PICK o \in Outcomes : UNCHANGED op /\ (task'[t] = task[t] \/ task'[t] = Settled(task[t], o))
    BY <1>3 DEF Finish, FinishScheduleRun, TypeOK
  <2>2. Settled(task[t], o) = task[t] \/ Charged(task[t], Settled(task[t], o))
    BY <1>0, <1>a DEF Settled, Charged, TaskRow, Outcomes
  <2> QED BY <2>1, <2>2
<1>4. CASE Start
  BY <1>4, <1>a DEF Start
<1>5. ASSUME NEW w \in Workers, Claim(w) PROVE UNCHANGED task
  BY <1>5 DEF Claim
<1>6. CASE Stop \/ Crash \/ Drain \/ Release \/ Advance
  BY <1>1, <1>6 DEF Stop, Crash, Drain, Release, Advance
<1>7. ASSUME NEW c \in Clients, NEW u \in Tasks, Begin(c, u) PROVE UNCHANGED task
  BY <1>7 DEF Begin, BeginCreate, BeginUpdate, BeginExecution, BeginPause, BeginResume,
     BeginApprove, BeginReject, BeginArchive, BeginRestore, BeginManual, Request
<1>8. ASSUME NEW c \in Clients, Reread(c) \/ InsertManual(c) PROVE UNCHANGED task
  BY <1>8 DEF Reread, InsertManual
<1>9. ASSUME NEW c \in Clients, WriteTask(c)
      PROVE  \/ task'[t] = task[t]
             \/ /\ op[c] # None /\ t = op[c].task
                /\ op[c].rev = task[t].rev /\ op[c].kind # "manual"
                /\ task'[t] = Written(task[t], op[c])
  BY <1>9 DEF WriteTask, TypeOK
<1> QED
  BY <1>1, <1>2, <1>3, <1>4, <1>5, <1>6, <1>7, <1>8, <1>9 DEF Next, Commit, vars
-----------------------------------------------------------------------------
(* What a request thread knows of the row it read                            *)

\* As long as the revision a request read is that of the row, the row has the status the
\* request presumes; a task that is being created is nobody else's; the second read is
\* one of requests that take a task out of service.
RequestInv ==
  \A c \in Clients : op[c] # None =>
    LET o == op[c]
        row == task[o.task]
    IN  /\ o.rev <= row.rev
        /\ o.phase = "reread" => o.kind \in {"pause", "reject", "archive"}
        /\ o.kind = "pause" => o.status = "paused"
        /\ o.kind \in {"reject", "archive"} => o.status = "archived"
        /\ o.kind = "create" =>
             /\ row.status = "absent"
             /\ \A d \in Clients \ {c} : op[d] # None => op[d].task # o.task
        /\ o.rev = row.rev =>
             /\ o.kind = "resume" => row.status = "paused"
             /\ o.kind = "approve" => row.status = "pending_approval"
             /\ o.kind = "restore" => row.status \in Ended /\ ~Exhausted(row)

\* Behind the instant an active task waits for, and behind the instant a request is about
\* to write, lie all occurrences of the task; none of them lies in the future.
FreshInv ==
  /\ \A t \in Tasks : \A k \in AutoKeys(t) \cap Materialized :
       /\ k.at <= now
       /\ task[t].status = "active" /\ task[t].nextRun # None => k.at < task[t].nextRun
  /\ \A c \in Clients : op[c] # None =>
       /\ op[c].kind # "update"
       /\ op[c].kind \in Starters /\ op[c].rev = task[op[c].task].rev =>
            \A k \in AutoKeys(op[c].task) \cap Materialized : k.at < op[c].nextRun

\* A request appears with what it read, reads its revision again, or stays as it is.
LEMMA RequestMoves ==
  ASSUME TypeOK, [Next]_vars, NEW c \in Clients, op'[c] # None
  PROVE  \/ op'[c] = op[c]
         \/ Reread(c)
         \/ \E t \in Tasks : Begin(c, t)
<1>1. CASE Tick \/ Start \/ Stop \/ Crash \/ Drain \/ Release \/ Advance
  BY <1>1 DEF Tick, Start, Stop, Crash, Drain, Release, Advance
<1>2. ASSUME NEW w \in Workers, Claim(w) \/ Finish(w) PROVE UNCHANGED op
  BY <1>2 DEF Claim, Finish
<1>3. ASSUME NEW d \in Clients, WriteTask(d) \/ InsertManual(d) PROVE op'[c] = op[c]
  BY <1>3 DEF WriteTask, InsertManual, TypeOK
<1>4. ASSUME NEW d \in Clients, Reread(d), d # c PROVE op'[c] = op[c]
  BY <1>4 DEF Reread, TypeOK
<1>5. ASSUME NEW d \in Clients, NEW t \in Tasks, Begin(d, t), d # c PROVE op'[c] = op[c]
  BY <1>5 DEF Begin, BeginCreate, BeginUpdate, BeginExecution, BeginPause, BeginResume,
     BeginApprove, BeginReject, BeginArchive, BeginRestore, BeginManual, Request, TypeOK
<1>6. CASE UNCHANGED vars
  BY <1>6 DEF vars
<1> QED BY <1>1, <1>2, <1>3, <1>4, <1>5, <1>6 DEF Next, Commit

\* A write moves the revision on, but for a creation, and takes the status of its request.
LEMMA WrittenRow ==
  ASSUME NEW row \in TaskRow, NEW o \in OpType, o.kind # "manual"
  PROVE  /\ o.kind = "create" => Written(row, o).rev = row.rev /\ Written(row, o).status = "active"
         /\ o.kind # "create" => Written(row, o).rev = row.rev + 1
         /\ o.kind \in {"update", "execution"} => Written(row, o).status = row.status
         /\ o.kind \in {"pause", "reject", "archive", "resume", "restore"} =>
              Written(row, o).status = o.status
         /\ o.kind \in {"create", "approve"} => Written(row, o).nextRun = o.nextRun
         /\ o.kind \in {"resume", "restore"} => Written(row, o).nextRun \in {o.nextRun, None}
         /\ o.kind \in {"execution", "pause", "reject", "archive"} => Written(row, o).nextRun = row.nextRun
         /\ o.kind = "restore" => Written(row, o).cfg = row.cfg
         /\ o.kind = "restore" => Written(row, o).approved = row.approved
<1>2. CASE o.kind = "create"
  BY <1>2 DEF Written, TaskRow, OpType
<1>3. CASE o.kind = "update"
  BY <1>3 DEF Written, TaskRow, OpType
<1>4. CASE o.kind = "execution"
  BY <1>4 DEF Written, TaskRow, OpType
<1>5. CASE o.kind \in {"pause", "reject", "archive"}
  BY <1>5 DEF Written, TaskRow, OpType
<1>6. CASE o.kind = "approve"
  BY <1>6 DEF Written, TaskRow, OpType
<1>7. CASE o.kind \in {"resume", "restore"}
  BY <1>7 DEF Written, TaskRow, OpType
<1> QED BY <1>2, <1>3, <1>4, <1>5, <1>6, <1>7 DEF OpType, Kinds

LEMMA PlannedRow ==
  ASSUME NEW row \in TaskRow, NEW n
  PROVE  Planned(row, n).rev = row.rev /\ Planned(row, n).cfg = row.cfg
BY DEF Planned, TaskRow

\* A request that is not the one that moves stays true to the row.
OpKept(o, row) ==
  /\ o.rev <= row.rev
  /\ o.kind = "create" => row.status = "absent"
  /\ o.rev = row.rev =>
       /\ o.kind = "resume" => row.status = "paused"
       /\ o.kind = "approve" => row.status = "pending_approval"
       /\ o.kind = "restore" => row.status \in Ended /\ ~Exhausted(row)

LEMMA RequestStays ==
  ASSUME TypeOK, RequestInv, [Next]_vars, NEW c \in Clients, op[c] # None, op'[c] = op[c]
  PROVE  OpKept(op[c], task'[op[c].task])
<1> DEFINE o == op[c]
           t == op[c].task
<1>0. /\ o \in OpType /\ t \in Tasks /\ task[t] \in TaskRow /\ o.rev \in Nat /\ task[t].rev \in Nat
      /\ OpKept(o, task[t])
  BY DEF TypeOK, OpType, TaskRow, RequestInv, OpKept
<1>1. CASE task'[t] = task[t]
  BY <1>0, <1>1
<1>2. CASE t \in Due /\ task'[t] = Planned(task[t], now)
  <2>1. task[t].status = "active" /\ task'[t].rev = task[t].rev
    BY <1>0, <1>2, PlannedRow DEF Due
  <2> QED BY <1>0, <2>1 DEF OpKept, Ended
<1>3. CASE Charged(task[t], task'[t])
  BY <1>0, <1>3 DEF OpKept, Ended, Charged, Exhausted, Remaining
<1>4. ASSUME NEW d \in Clients, op[d] # None, WriteTask(d), t = op[d].task,
             op[d].rev = task[t].rev, op[d].kind # "manual", task'[t] = Written(task[t], op[d])
      PROVE  OpKept(o, task'[t])
  <2>1. d # c
    BY <1>4 DEF WriteTask, TypeOK
  <2>2. op[d].kind # "create" /\ op[d] \in OpType
    BY <1>4, <2>1 DEF RequestInv, TypeOK
  <2>3. task'[t].rev = task[t].rev + 1
    BY <1>0, <1>4, <2>2, WrittenRow
  <2>4. o.kind # "create"
    BY <1>4, <2>1 DEF RequestInv
  <2> QED BY <1>0, <2>3, <2>4 DEF OpKept
<1> QED BY <1>1, <1>2, <1>3, <1>4, RowMoves, <1>0

LEMMA RequestBegins ==
  ASSUME TypeOK, RequestInv, NEW c \in Clients, NEW t \in Tasks, Begin(c, t)
  PROVE  /\ op' \in [Clients -> OpType \cup {None}] /\ op'[c].task = t
         /\ \A d \in Clients \ {c} : op'[d] = op[d]
         /\ UNCHANGED <<task, run, now>> /\ op'[c].rev = task[t].rev
         /\ op'[c].phase = "reread" => op'[c].kind \in {"pause", "reject", "archive"}
         /\ op'[c].kind = "pause" => op'[c].status = "paused"
         /\ op'[c].kind \in {"reject", "archive"} => op'[c].status = "archived"
         /\ op'[c].kind = "create" => /\ task[t].status = "absent"
                                      /\ \A d \in Clients : op[d] # None => op[d].task # t
         /\ op'[c].kind # "create" => task[t].status # "absent"
         /\ op'[c].kind \in Starters => \E cfg \in Configs : op'[c].nextRun = FirstOcc(cfg)
         /\ op'[c].kind = "resume" => task[t].status = "paused"
         /\ op'[c].kind = "approve" => task[t].status = "pending_approval"
         /\ op'[c].kind = "restore" => task[t].status \in Ended /\ ~Exhausted(task[t])
         /\ op'[c].kind = "update" => "update" \in Requests
<1>0. op' \in [Clients -> OpType \cup {None}] /\ task[t].cfg \in Configs
  BY TypeBegin DEF TypeOK, TaskRow
<1>1. ASSUME NEW kind, NEW phase, NEW status, NEW nxt, NEW over, NEW cfg,
             Request(c, t, kind, phase, status, nxt, over, cfg)
      PROVE  /\ op'[c].kind = kind /\ op'[c].phase = phase /\ op'[c].status = status
             /\ op'[c].nextRun = nxt /\ op'[c].task = t /\ op'[c].rev = task[t].rev
             /\ \A d \in Clients \ {c} : op'[d] = op[d]
             /\ UNCHANGED <<task, run, now>>
  BY <1>1 DEF Request, TypeOK
<1>2. CASE BeginCreate(c, t)
  <2>1. PICK cfg \in Configs : Request(c, t, "create", "write", "active", FirstOcc(cfg), FALSE, cfg)
    BY <1>2 DEF BeginCreate
  <2>2. task[t].status = "absent" /\ (\A d \in Clients : op[d] # None => op[d].task # t)
    BY <1>2 DEF BeginCreate, Reads, Ended
  <2>3. /\ op'[c].kind = "create" /\ op'[c].phase = "write"
        /\ op'[c].task = t /\ op'[c].rev = task[t].rev /\ op'[c].nextRun = FirstOcc(cfg)
        /\ UNCHANGED <<task, run, now>> /\ \A d \in Clients \ {c} : op'[d] = op[d]
    BY <1>1, <2>1
  <2> QED BY <1>0, <2>2, <2>3 DEF Starters, Ended
<1>3. CASE BeginUpdate(c, t)
  <2>1. PICK cfg \in Configs :
          Request(c, t, "update", "write", task[t].status, FirstOcc(cfg), FALSE, cfg)
    BY <1>3 DEF BeginUpdate
  <2>2. task[t].status # "absent" /\ "update" \in Requests
    BY <1>3 DEF BeginUpdate, Reads, Ended
  <2>3. /\ op'[c].kind = "update" /\ op'[c].phase = "write"
        /\ op'[c].task = t /\ op'[c].rev = task[t].rev
        /\ UNCHANGED <<task, run, now>> /\ \A d \in Clients \ {c} : op'[d] = op[d]
    BY <1>1, <2>1
  <2> QED BY <1>0, <2>2, <2>3 DEF Starters, Ended
<1>4. CASE BeginExecution(c, t)
  <2>1. PICK cfg \in Configs : Request(c, t, "execution", "write", task[t].status, 0, FALSE, cfg)
    BY <1>4 DEF BeginExecution
  <2>2. task[t].status # "absent"
    BY <1>4 DEF BeginExecution, Reads, Ended
  <2>3. /\ op'[c].kind = "execution" /\ op'[c].phase = "write"
        /\ op'[c].task = t /\ op'[c].rev = task[t].rev
        /\ UNCHANGED <<task, run, now>> /\ \A d \in Clients \ {c} : op'[d] = op[d]
    BY <1>1, <2>1
  <2> QED BY <1>0, <2>2, <2>3 DEF Starters, Ended
<1>5. CASE BeginPause(c, t)
  <2>1. Request(c, t, "pause", "reread", "paused", 0, FALSE, task[t].cfg)
    BY <1>5 DEF BeginPause
  <2>2. task[t].status # "absent"
    BY <1>5 DEF BeginPause, Reads, Ended
  <2>3. /\ op'[c].kind = "pause" /\ op'[c].phase = "reread" /\ op'[c].status = "paused"
        /\ op'[c].task = t /\ op'[c].rev = task[t].rev
        /\ UNCHANGED <<task, run, now>> /\ \A d \in Clients \ {c} : op'[d] = op[d]
    BY ZenonT(40), <1>1, <2>1
  <2> QED BY <1>0, <2>2, <2>3 DEF Starters, Ended
<1>6. CASE BeginReject(c, t)
  <2>1. Request(c, t, "reject", "reread", "archived", 0, FALSE, task[t].cfg)
    BY <1>6 DEF BeginReject
  <2>2. task[t].status # "absent"
    BY <1>6 DEF BeginReject, Reads, Ended
  <2>3. /\ op'[c].kind = "reject" /\ op'[c].phase = "reread" /\ op'[c].status = "archived"
        /\ op'[c].task = t /\ op'[c].rev = task[t].rev
        /\ UNCHANGED <<task, run, now>> /\ \A d \in Clients \ {c} : op'[d] = op[d]
    BY ZenonT(40), <1>1, <2>1
  <2> QED BY <1>0, <2>2, <2>3 DEF Starters, Ended
<1>7. CASE BeginArchive(c, t)
  <2>1. Request(c, t, "archive", "reread", "archived", 0, FALSE, task[t].cfg)
    BY <1>7 DEF BeginArchive
  <2>2. task[t].status # "absent"
    BY <1>7 DEF BeginArchive, Reads, Ended
  <2>3. /\ op'[c].kind = "archive" /\ op'[c].phase = "reread" /\ op'[c].status = "archived"
        /\ op'[c].task = t /\ op'[c].rev = task[t].rev
        /\ UNCHANGED <<task, run, now>> /\ \A d \in Clients \ {c} : op'[d] = op[d]
    BY ZenonT(40), <1>1, <2>1
  <2> QED BY <1>0, <2>2, <2>3 DEF Starters, Ended
<1>8. CASE BeginResume(c, t)
  <2>1. PICK status \in {"expired", "active"}, over \in BOOLEAN :
          Request(c, t, "resume", "write", status, FirstOcc(task[t].cfg), over, task[t].cfg)
    BY <1>8 DEF BeginResume, Reached
  <2>2. task[t].status = "paused"
    BY <1>8 DEF BeginResume, Reads, Ended
  <2>3. /\ op'[c].kind = "resume" /\ op'[c].phase = "write"
        /\ op'[c].task = t /\ op'[c].rev = task[t].rev /\ op'[c].nextRun = FirstOcc(task[t].cfg)
        /\ UNCHANGED <<task, run, now>> /\ \A d \in Clients \ {c} : op'[d] = op[d]
    BY <1>1, <2>1
  <2> QED BY <1>0, <2>2, <2>3 DEF Starters, Ended
<1>9. CASE BeginApprove(c, t)
  <2>1. Request(c, t, "approve", "write", "active", FirstOcc(task[t].cfg), FALSE, task[t].cfg)
    BY <1>9 DEF BeginApprove
  <2>2. task[t].status = "pending_approval"
    BY <1>9 DEF BeginApprove, Reads, Ended
  <2>3. /\ op'[c].kind = "approve" /\ op'[c].phase = "write"
        /\ op'[c].task = t /\ op'[c].rev = task[t].rev /\ op'[c].nextRun = FirstOcc(task[t].cfg)
        /\ UNCHANGED <<task, run, now>> /\ \A d \in Clients \ {c} : op'[d] = op[d]
    BY ZenonT(40), <1>1, <2>1
  <2> QED BY <1>0, <2>2, <2>3 DEF Starters, Ended
<1>10. CASE BeginRestore(c, t)
  <2>1. PICK status \in {"pending_approval", "active"} :
          Request(c, t, "restore", "write", status, FirstOcc(task[t].cfg), FALSE, task[t].cfg)
    BY <1>10 DEF BeginRestore
  <2>2. task[t].status \in Ended /\ ~Exhausted(task[t])
    BY <1>10 DEF BeginRestore, Reads, Ended
  <2>3. /\ op'[c].kind = "restore" /\ op'[c].phase = "write"
        /\ op'[c].task = t /\ op'[c].rev = task[t].rev /\ op'[c].nextRun = FirstOcc(task[t].cfg)
        /\ UNCHANGED <<task, run, now>> /\ \A d \in Clients \ {c} : op'[d] = op[d]
    BY ZenonT(40), <1>1, <2>1
  <2> QED BY <1>0, <2>2, <2>3 DEF Starters, Ended
<1>11. CASE BeginManual(c, t)
  <2>1. Request(c, t, "manual", "write", task[t].status, now, FALSE, task[t].cfg)
    BY <1>11 DEF BeginManual
  <2>2. task[t].status # "absent"
    BY <1>11 DEF BeginManual, Reads, Ended
  <2>3. /\ op'[c].kind = "manual" /\ op'[c].phase = "write"
        /\ op'[c].task = t /\ op'[c].rev = task[t].rev
        /\ UNCHANGED <<task, run, now>> /\ \A d \in Clients \ {c} : op'[d] = op[d]
    BY <1>1, <2>1
  <2> QED BY <1>0, <2>2, <2>3 DEF Starters, Ended
<1> QED BY <1>2, <1>3, <1>4, <1>5, <1>6, <1>7, <1>8, <1>9, <1>10, <1>11 DEF Begin

LEMMA RequestStep == TypeOK /\ RequestInv /\ [Next]_vars => RequestInv'
<1> SUFFICES ASSUME TypeOK, RequestInv, [Next]_vars, NEW c \in Clients, op'[c] # None
             PROVE  /\ OpKept(op'[c], task'[op'[c].task])
                    /\ op'[c].phase = "reread" => op'[c].kind \in {"pause", "reject", "archive"}
                    /\ op'[c].kind = "pause" => op'[c].status = "paused"
                    /\ op'[c].kind \in {"reject", "archive"} => op'[c].status = "archived"
                    /\ op'[c].kind = "create" =>
                         \A d \in Clients \ {c} : op'[d] # None => op'[d].task # op'[c].task
  BY DEF RequestInv, OpKept
<1>0. op \in [Clients -> OpType \cup {None}] /\ task \in [Tasks -> TaskRow]
  BY DEF TypeOK
<1>1. ASSUME NEW d \in Clients, Reread(d)
      PROVE  /\ op[d] # None /\ op[d].phase = "reread" /\ UNCHANGED task
             /\ op'[d].task = op[d].task /\ op'[d].kind = op[d].kind /\ op'[d].status = op[d].status
             /\ op'[d].phase = "write" /\ op'[d].rev = task[op[d].task].rev
             /\ \A e \in Clients \ {d} : op'[e] = op[e]
  BY <1>0, <1>1 DEF Reread, OpType
<1>2. ASSUME NEW d \in Clients, op'[d] # None
      PROVE  \/ op[d] # None /\ op'[d].task = op[d].task /\ op'[d].kind = op[d].kind
             \/ \E t \in Tasks : Begin(d, t)
  BY <1>1, <1>2, RequestMoves
<1>3. CASE op'[c] = op[c]
  <2>1. ASSUME op[c].kind = "create", NEW d \in Clients \ {c}, op'[d] # None
        PROVE  op'[d].task # op[c].task
    <3>1. CASE op[d] # None /\ op'[d].task = op[d].task /\ op'[d].kind = op[d].kind
      BY <1>3, <2>1, <3>1 DEF RequestInv
    <3>2. ASSUME NEW t \in Tasks, Begin(d, t) PROVE op'[d].task # op[c].task
      <4>1. op'[d].task = t /\ (op'[d].kind = "create" => op[c].task # t)
            /\ (op'[d].kind # "create" => task[t].status # "absent")
        BY <1>3, <3>2, RequestBegins
      <4> QED BY <1>3, <2>1, <4>1 DEF RequestInv
    <3> QED BY <1>2, <2>1, <3>1, <3>2
  <2> QED BY <1>3, <2>1, RequestStays DEF RequestInv
<1>4. CASE Reread(c)
  <2>1. op[c].kind \in {"pause", "reject", "archive"}
    BY <1>1, <1>4 DEF RequestInv
  <2>2. task[op[c].task].rev \in Nat
    BY <1>0, <1>1, <1>4 DEF OpType, TaskRow
  <2> QED BY <1>1, <1>4, <2>1, <2>2 DEF RequestInv, OpKept
<1>5. ASSUME NEW t \in Tasks, Begin(c, t)
      PROVE  /\ OpKept(op'[c], task'[op'[c].task])
             /\ op'[c].phase = "reread" => op'[c].kind \in {"pause", "reject", "archive"}
             /\ op'[c].kind = "pause" => op'[c].status = "paused"
             /\ op'[c].kind \in {"reject", "archive"} => op'[c].status = "archived"
             /\ op'[c].kind = "create" =>
                  \A d \in Clients \ {c} : op'[d] # None => op'[d].task # op'[c].task
  <2>1. task[t].rev \in Nat
    BY <1>0 DEF TaskRow
  <2> QED BY <1>5, <2>1, RequestBegins DEF OpKept
<1> QED BY <1>3, <1>4, <1>5, RequestMoves

LEMMA RequestsKnowTheirRows == Spec => []RequestInv
<1>1. Init => RequestInv
  BY DEF Init, RequestInv
<1> QED BY <1>1, RequestStep, TypeCorrect, PTL DEF Spec

\* A task that had ended becomes active only by the restore that still holds its revision.
LEMMA OnlyRestoreRevives ==
  ASSUME TypeOK, RequestInv, ApprovalInv, [Next]_vars, NEW t \in Tasks,
         task[t].status \in Ended, task'[t].status = "active"
  PROVE  task'[t].approved /\ ~Exhausted(task'[t])
<1>0. task[t] \in TaskRow
  BY DEF TypeOK
<1>1. task[t].status \notin {"active", "paused", "pending_approval", "absent"}
  BY DEF Ended
<1>2. PICK c \in Clients : /\ op[c] # None /\ WriteTask(c) /\ t = op[c].task
                           /\ op[c].rev = task[t].rev /\ op[c].kind # "manual"
                           /\ task'[t] = Written(task[t], op[c])
  BY <1>1, RowMoves DEF Charged, Due
<1>3. op[c] \in OpType
  BY <1>2 DEF TypeOK
<1>4. op[c].kind = "restore"
  <2>1. op[c].kind \notin {"create", "resume", "approve"}
    BY <1>1, <1>2 DEF RequestInv
  <2>2. op[c].kind \notin {"pause", "reject", "archive"}
    BY <1>0, <1>2, <1>3, WrittenRow DEF RequestInv
  <2>3. op[c].kind \notin {"update", "execution"}
    BY <1>0, <1>1, <1>2, <1>3, WrittenRow
  <2> QED BY <1>2, <1>3, <2>1, <2>2, <2>3 DEF OpType, Kinds
<1>5. ~Exhausted(task[t]) /\ task'[t].cfg = task[t].cfg /\ task'[t].runCount = task[t].runCount
  BY <1>0, <1>2, <1>3, <1>4, WrittenRow, WrittenType DEF RequestInv
<1>6. task'[t].approved
  BY <1>0, <1>2, <1>3, <1>4, WrittenRow DEF ApprovalInv
<1> QED BY <1>5, <1>6 DEF Exhausted, Remaining

\* A task that ended becomes active again only through a restore that found runs left to
\* make and an approval: whatever changed the row meanwhile also moved the revision the
\* restore read (restore and update_schedule_task, compare-and-swap of the revision).
THEOREM RestoredTasksAreSound == Spec => RestoredTasksCanRun
<1> DEFINE A == \A t \in Tasks :
                  task[t].status \in {"completed", "expired", "archived"} /\ task'[t].status = "active"
                    => task'[t].approved /\ ~Exhausted(task'[t])
<1>1. TypeOK /\ RequestInv /\ ApprovalInv /\ [Next]_vars => [A]_vars
  BY OnlyRestoreRevives DEF Ended
<1>2. Spec => []ApprovalInv
  BY ApprovalAlways
<1>3. Spec => [][A]_vars
  BY <1>1, <1>2, RequestsKnowTheirRows, TypeCorrect, PTL DEF Spec
<1> QED BY <1>3 DEF RestoredTasksCanRun

-----------------------------------------------------------------------------
(* The instants a task waits for                                             *)

NoUpdates == "update" \notin Requests

\* The plan leaves off behind the due instant and behind everything it takes.
LEMMA CursorAhead ==
  ASSUME NEW row, NEW n, DueRow(row, n), ~Exhausted(row)
  PROVE  /\ Cursor(row, n) \in Nat /\ row.nextRun < Cursor(row, n)
         /\ \A x \in Occurrences(row, n) : x < Cursor(row, n)
<1> DEFINE C == Candidates(row, n)
           last == LastOf(C)
           cursor == Cursor(row, n)
<1>0. /\ n \in Nat /\ n \in Time /\ 0..n \subseteq Time /\ row.cfg.sched \in Schedules
      /\ row.nextRun \in Nat /\ row.nextRun <= n
  BY ConfigAssumption, BoundAssumption DEF DueRow, TaskRow, ConfigType, Time
<1>1. C \subseteq 0..n /\ row.nextRun \in C /\ Occurrences(row, n) \subseteq C
  BY CandidatesType DEF Occurrences
<1>2. last \in C /\ \A y \in C : y <= last
  <2>1. \E x \in C : \A y \in C : y <= x
    BY <1>0, <1>1, NatGreatest
  <2> QED BY <2>1 DEF LastOf
<1>3. cursor \in Nat /\ \A y \in C : y < cursor
  <2>1. CASE row.cfg.policy = "catch_up"
    <3>1. cursor = NextOcc(row.cfg.sched, last)
      BY <2>1 DEF Cursor
    <3>2. last \in Time
      BY <1>0, <1>1, <1>2
    <3>3. cursor \in Nat /\ cursor > last
      BY <1>0, <3>1, <3>2, NextOccAssumption
    <3>4. \A y \in C : y \in Nat
      BY <1>0, <1>1
    <3> HIDE DEF C, last, cursor
    <3> QED BY <1>2, <3>3, <3>4
  <2>2. CASE row.cfg.policy # "catch_up"
    <3>1. cursor = NextOcc(row.cfg.sched, n)
      BY <2>2 DEF Cursor
    <3>2. cursor \in Nat /\ cursor > n
      BY <1>0, <3>1, NextOccAssumption
    <3>3. \A y \in C : y \in 0..n
      BY <1>1
    <3> HIDE DEF C, last, cursor
    <3> QED BY <1>0, <3>2, <3>3
  <2> QED BY <2>1, <2>2
<1> QED BY <1>1, <1>3

\* Occurrences appear only in a tick that takes the task, at instants the plan names.
LEMMA KeysMove ==
  ASSUME TypeOK, [Next]_vars, NEW t \in Tasks, NEW k \in AutoKeys(t) \cap Materialized',
         k \notin Materialized
  PROVE  /\ DueRow(task[t], now) /\ t \in Due /\ now' = now /\ op' = op
         /\ task'[t] = Planned(task[t], now) /\ k.at \in Occurrences(task[t], now)
<1>1. Tick
  <2>1. \A c \in Clients : ~InsertManual(c)
    <3> SUFFICES ASSUME NEW c \in Clients, InsertManual(c) PROVE FALSE
      OBVIOUS
    <3>1. run'[k] = run[k]
      BY DEF InsertManual, TypeOK, AutoKeys
    <3> QED BY <3>1 DEF Materialized
  <2> QED BY <2>1, OtherStepsKeepKeys
<1>2. PICK b \in Batches :
        /\ task' = [u \in Tasks |-> IF u \in b THEN Planned(task[u], now) ELSE task[u]]
        /\ run' = [j \in RunKeys |-> IF j \in NewKeys(b) THEN QueuedRun ELSE run[j]]
  BY <1>1 DEF Tick
<1>3. k \in NewKeys(b) /\ k.task = t
  BY <1>2 DEF Materialized, AutoKeys
<1>4. t \in b /\ t \in Due /\ k.at \in Occurrences(task[t], now)
  BY <1>3 DEF NewKeys, Batches
<1>5. DueRow(task[t], now)
  BY <1>4 DEF Due, TypeOK, DueRow, TaskRow
<1> QED BY <1>1, <1>2, <1>4, <1>5 DEF Tick

LEMMA ClockGoesOn == TypeOK /\ [Next]_vars => now' \in Nat /\ now \in Nat /\ now <= now'
<1> SUFFICES ASSUME TypeOK, [Next]_vars PROVE now' \in Nat /\ now \in Nat /\ now <= now'
  OBVIOUS
<1>0. now \in Nat
  BY BoundAssumption DEF TypeOK, Time
<1>1. ASSUME NEW c \in Clients, NEW t \in Tasks, Begin(c, t) PROVE now' = now
  BY <1>1 DEF Begin, BeginCreate, BeginUpdate, BeginExecution, BeginPause, BeginResume,
     BeginApprove, BeginReject, BeginArchive, BeginRestore, BeginManual, Request
<1>2. ASSUME NEW c \in Clients, Commit(c) PROVE now' = now
  BY <1>2 DEF Commit, Reread, WriteTask, InsertManual
<1>3. ASSUME NEW w \in Workers, Claim(w) \/ Finish(w) PROVE now' = now
  BY <1>3 DEF Claim, Finish
<1>4. CASE Tick \/ Start \/ Stop \/ Crash \/ Drain \/ Release
  BY <1>0, <1>4 DEF Tick, Start, Stop, Crash, Drain, Release
<1>5. CASE Advance
  BY <1>0, <1>5 DEF Advance
<1>6. CASE UNCHANGED vars
  BY <1>0, <1>6 DEF vars
<1> QED BY <1>0, <1>1, <1>2, <1>3, <1>4, <1>5, <1>6 DEF Next

LEMMA FirstOccAhead ==
  ASSUME TypeOK, NEW cfg \in Configs
  PROVE  FirstOcc(cfg) \in Nat /\ now < FirstOcc(cfg)
<1>1. cfg.sched \in Schedules /\ cfg.starts \in Time /\ now \in Time /\ Time \subseteq Nat
  BY ConfigAssumption, BoundAssumption DEF ConfigType, TypeOK, Time
<1>2. MaxOf(now, cfg.starts) \in Time /\ now <= MaxOf(now, cfg.starts)
  <2>1. now \in Nat /\ cfg.starts \in Nat
    BY <1>1
  <2>2. now <= MaxOf(now, cfg.starts)
    BY <2>1 DEF MaxOf
  <2> QED BY <1>1, <2>2 DEF MaxOf
<1>3. FirstOcc(cfg) \in Nat /\ FirstOcc(cfg) > MaxOf(now, cfg.starts)
  BY <1>1, <1>2, NextOccAssumption DEF FirstOcc
<1>4. ASSUME NEW a \in Nat, NEW b \in Nat, NEW d \in Nat, a <= b, d > b PROVE a < d
  BY <1>4
<1> QED BY <1>1, <1>2, <1>3, <1>4

LEMMA RevisionGrows ==
  ASSUME TypeOK, [Next]_vars, NEW t \in Tasks
  PROVE  task[t].rev \in Nat /\ task'[t].rev \in Nat /\ task[t].rev <= task'[t].rev
<1>0. task[t] \in TaskRow /\ task[t].rev \in Nat
  BY DEF TypeOK, TaskRow
<1>1. task'[t].rev = task[t].rev \/ task'[t].rev = task[t].rev + 1
  <2>1. ASSUME NEW c \in Clients, op[c] # None, op[c].kind # "manual", task'[t] = Written(task[t], op[c])
        PROVE  task'[t].rev = task[t].rev \/ task'[t].rev = task[t].rev + 1
    <3>1. op[c] \in OpType
      BY <2>1 DEF TypeOK
    <3> QED BY <1>0, <2>1, <3>1, WrittenRow
  <2> QED BY <1>0, <2>1, RowMoves, PlannedRow DEF Charged
<1> QED BY <1>0, <1>1

LEMMA FreshTasks ==
  ASSUME NoUpdates, TypeOK, RequestInv, FreshInv, [Next]_vars,
         NEW t \in Tasks, NEW k \in AutoKeys(t) \cap Materialized'
  PROVE  /\ k.at <= now'
         /\ task'[t].status = "active" /\ task'[t].nextRun # None => k.at < task'[t].nextRun
<1>0. /\ task[t] \in TaskRow /\ k.at \in Nat /\ now \in Nat /\ now' \in Nat /\ now <= now'
      /\ task'[t] \in TaskRow
  BY ClockGoesOn, TypeNext, BoundAssumption DEF TypeOK, AutoKeys, RunKeys, Time
<1>1. ASSUME task[t].nextRun \in Nat, DueRow(task[t], now), task'[t] = Planned(task[t], now),
             t \in Due, task'[t].status = "active"
      PROVE  /\ task'[t].nextRun = Cursor(task[t], now) /\ ~Exhausted(task[t])
  BY <1>0, <1>1 DEF Planned, TaskRow, Due
<1>2. CASE k \notin Materialized
  <2>1. /\ DueRow(task[t], now) /\ t \in Due /\ now' = now
        /\ task'[t] = Planned(task[t], now) /\ k.at \in Occurrences(task[t], now)
    BY <1>2, KeysMove
  <2>2. k.at <= now
    BY <1>0, <2>1, OccurrencesType
  <2>3. ASSUME task'[t].status = "active" PROVE k.at < task'[t].nextRun
    BY <1>1, <2>1, <2>3, CursorAhead DEF DueRow
  <2> QED BY <2>1, <2>2, <2>3
<1>3. CASE k \in Materialized
  <2>0. /\ k.at <= now
        /\ task[t].status = "active" /\ task[t].nextRun # None => k.at < task[t].nextRun
    BY <1>3 DEF FreshInv
  <2>a. k.at <= now'
    BY <1>0, <2>0
  <2> SUFFICES ASSUME task'[t].status = "active", task'[t].nextRun # None
               PROVE  k.at < task'[t].nextRun
    BY <2>a
  <2>1. CASE task'[t] = task[t]
    BY <2>0, <2>1
  <2>2. CASE t \in Due /\ task'[t] = Planned(task[t], now)
    <3>1. DueRow(task[t], now) /\ task[t].nextRun \in Nat /\ task[t].status = "active"
          /\ task[t].nextRun # None
      BY <1>0, <2>2 DEF Due, DueRow, TypeOK, TaskRow
    <3>2. /\ task'[t].nextRun = Cursor(task[t], now) /\ Cursor(task[t], now) \in Nat
          /\ task[t].nextRun < Cursor(task[t], now)
      BY <1>1, <2>2, <3>1, CursorAhead
    <3>3. k.at < task[t].nextRun
      BY <2>0, <3>1
    <3>4. ASSUME NEW a \in Nat, NEW b \in Nat, NEW d \in Nat, a < b, b < d PROVE a < d
      BY <3>4
    <3> QED BY <1>0, <3>1, <3>2, <3>3, <3>4
  <2>3. CASE Charged(task[t], task'[t])
    BY <2>0, <2>3 DEF Charged
  <2>4. ASSUME NEW c \in Clients, op[c] # None, WriteTask(c), t = op[c].task,
               op[c].rev = task[t].rev, op[c].kind # "manual", task'[t] = Written(task[t], op[c])
        PROVE  k.at < task'[t].nextRun
    <3>0. op[c] \in OpType /\ op[c].kind \in Kinds
      BY <2>4 DEF TypeOK, OpType
    <3>1. op[c].kind # "update"
      BY <2>4 DEF FreshInv
    <3>2. CASE op[c].kind \in {"pause", "reject", "archive"}
      BY <1>0, <2>4, <3>0, <3>2, WrittenRow DEF RequestInv
    <3>3. CASE op[c].kind = "execution"
      BY <1>0, <2>0, <2>4, <3>0, <3>3, WrittenRow
    <3>4. CASE op[c].kind \in Starters
      <4>1. k.at < op[c].nextRun
        BY <1>3, <2>4, <3>4 DEF FreshInv
      <4>2. task'[t].nextRun = op[c].nextRun
        BY <1>0, <2>4, <3>0, <3>4, WrittenRow DEF Starters
      <4> QED BY <4>1, <4>2
    <3> QED BY <2>4, <3>0, <3>1, <3>2, <3>3, <3>4 DEF Kinds, Starters
  <2> QED BY <2>1, <2>2, <2>3, <2>4, RowMoves
<1> QED BY <1>2, <1>3

LEMMA FreshRequests ==
  ASSUME NoUpdates, TypeOK, RequestInv, FreshInv, [Next]_vars, NEW c \in Clients, op'[c] # None
  PROVE  /\ op'[c].kind # "update"
         /\ op'[c].kind \in Starters /\ op'[c].rev = task'[op'[c].task].rev =>
              \A k \in AutoKeys(op'[c].task) \cap Materialized' : k.at < op'[c].nextRun
<1>1. CASE op'[c] = op[c]
  <2> DEFINE t == op[c].task
  <2>1. op[c] # None /\ op[c] \in OpType /\ op[c].kind # "update" /\ t \in Tasks /\ op[c].rev \in Nat
    BY <1>1 DEF TypeOK, OpType, FreshInv
  <2>2. ASSUME op[c].kind \in Starters, op[c].rev = task'[t].rev,
               NEW k \in AutoKeys(t) \cap Materialized'
        PROVE  k.at < op[c].nextRun
    <3>1. op[c].rev = task[t].rev
      <4>1. op[c].rev <= task[t].rev
        BY <2>1 DEF RequestInv
      <4> QED BY <2>1, <2>2, <4>1, RevisionGrows
    <3>2. task[t].status # "active"
      BY <2>1, <2>2, <3>1 DEF RequestInv, Starters, Ended
    <3>3. k \in Materialized
      BY <2>1, <3>2, KeysMove DEF Due
    <3> QED BY <2>1, <2>2, <3>1, <3>3 DEF FreshInv
  <2> QED BY <1>1, <2>1, <2>2
<1>2. CASE Reread(c)
  <2>1. op[c] # None /\ op'[c].kind = op[c].kind /\ op[c].kind \in {"pause", "reject", "archive"}
    BY <1>2 DEF Reread, TypeOK, OpType, RequestInv
  <2> QED BY <2>1 DEF Starters
<1>3. ASSUME NEW t \in Tasks, Begin(c, t)
      PROVE  /\ op'[c].kind # "update"
             /\ op'[c].kind \in Starters =>
                  \A k \in AutoKeys(op'[c].task) \cap Materialized' : k.at < op'[c].nextRun
  <2>1. /\ op'[c].task = t /\ op'[c].kind # "update" /\ UNCHANGED run
        /\ op'[c].kind \in Starters => \E cfg \in Configs : op'[c].nextRun = FirstOcc(cfg)
    BY <1>3, RequestBegins DEF NoUpdates
  <2>2. ASSUME op'[c].kind \in Starters, NEW k \in AutoKeys(t) \cap Materialized
        PROVE  k.at < op'[c].nextRun
    <3>1. PICK cfg \in Configs : op'[c].nextRun = FirstOcc(cfg)
      BY <2>1, <2>2
    <3>2. FirstOcc(cfg) \in Nat /\ now < FirstOcc(cfg) /\ now \in Nat
      BY FirstOccAhead, ClockGoesOn
    <3>3. k.at \in Nat /\ k.at <= now
      BY BoundAssumption DEF FreshInv, AutoKeys, RunKeys, Time
    <3>4. ASSUME NEW a \in Nat, NEW b \in Nat, NEW d \in Nat, a <= b, b < d PROVE a < d
      BY <3>4
    <3> QED BY <3>1, <3>2, <3>3, <3>4
  <2>3. AutoKeys(t) \cap Materialized' = AutoKeys(t) \cap Materialized
    BY <2>1 DEF Materialized
  <2> QED BY <2>1, <2>2, <2>3
<1> QED BY <1>1, <1>2, <1>3, RequestMoves

\* Without updates of the recurrence, the instant an active task waits for is new
\* (materialize_due_schedule_tasks, resume, approve, restore): its INSERT cannot fail.
THEOREM NextRunsAreFresh == NoUpdates /\ Spec => []NextRunIsFresh
<1> SUFFICES ASSUME NoUpdates PROVE Spec => []NextRunIsFresh
  OBVIOUS
<1>1. Init => FreshInv
  BY DEF Init, FreshInv, Materialized, NoRun
<1>2. TypeOK /\ RequestInv /\ FreshInv /\ [Next]_vars => FreshInv'
  <2> SUFFICES ASSUME TypeOK, RequestInv, FreshInv, [Next]_vars PROVE FreshInv'
    OBVIOUS
  <2>1. \A t \in Tasks : \A k \in AutoKeys(t) \cap Materialized' :
          /\ k.at <= now'
          /\ task'[t].status = "active" /\ task'[t].nextRun # None => k.at < task'[t].nextRun
    BY FreshTasks
  <2>2. \A c \in Clients : op'[c] # None =>
          /\ op'[c].kind # "update"
          /\ op'[c].kind \in Starters /\ op'[c].rev = task'[op'[c].task].rev =>
               \A k \in AutoKeys(op'[c].task) \cap Materialized' : k.at < op'[c].nextRun
    BY FreshRequests
  <2> QED BY <2>1, <2>2 DEF FreshInv, AutoKeys, RunKeys, Time
<1>3. TypeOK /\ FreshInv => NextRunIsFresh
  <2> SUFFICES ASSUME TypeOK, FreshInv, NEW t \in Tasks, task[t].status = "active",
                      task[t].nextRun \in Time, AutoKey(t, task[t].nextRun) \in Materialized
               PROVE  FALSE
    BY DEF NextRunIsFresh
  <2>1. AutoKey(t, task[t].nextRun) \in AutoKeys(t) /\ AutoKey(t, task[t].nextRun).at = task[t].nextRun
    BY DEF AutoKey, AutoKeys, RunKeys
  <2>2. task[t].nextRun \in Nat /\ task[t].nextRun # None
    BY BoundAssumption, TaskAssumption DEF Time
  <2> QED BY <2>1, <2>2 DEF FreshInv
<1> QED BY <1>1, <1>2, <1>3, TypeCorrect, RequestsKnowTheirRows, PTL DEF Spec

-----------------------------------------------------------------------------
(* Consecutive failures                                                      *)

Backing(t) == {k \in RunKeys : k.task = t /\ run[k].status \in {"failed", "timed_out"}}

KeysOfTask(t) == {k \in RunKeys : k.task = t}

LEMMA KeysAreFinite == \A t \in Tasks : IsFiniteSet(KeysOfTask(t))
<1> SUFFICES ASSUME NEW t \in Tasks PROVE IsFiniteSet(KeysOfTask(t))
  OBVIOUS
<1> DEFINE KeysOf(kind) == {k \in RunKeys : k.task = t /\ k.kind = kind}
<1>1. ASSUME NEW kind \in {"auto", "manual"} PROVE IsFiniteSet(KeysOf(kind))
  <2> DEFINE key == [x \in Time |-> [task |-> t, at |-> x, kind |-> kind]]
  <2>1. IsFiniteSet(Time)
    BY BoundAssumption, FS_Interval DEF Time
  <2>2. key \in [Time -> KeysOf(kind)] /\ \A k \in KeysOf(kind) : \E x \in Time : key[x] = k
    BY DEF RunKeys
  <2>3. key \in Surjection(Time, KeysOf(kind))
    BY <2>2, Fun_IsSurj
  <2> QED BY <2>1, <2>3, FS_Surjection
<1>2. IsFiniteSet(KeysOf("auto")) /\ IsFiniteSet(KeysOf("manual"))
  BY <1>1
<1>3. IsFiniteSet(KeysOf("auto") \cup KeysOf("manual"))
  BY <1>2, FS_Union
<1>4. KeysOfTask(t) \in SUBSET (KeysOf("auto") \cup KeysOf("manual"))
  BY DEF KeysOfTask, RunKeys
<1> QED BY <1>3, <1>4, FS_Subset

\* A settled run stays as it was settled.
LEMMA SettledStays ==
  ASSUME TypeOK, WorkerOwnsItsRun, [Next]_vars, NEW k \in RunKeys, run[k].status \in Terminal
  PROVE  run'[k].status = run[k].status
<1>0. run[k].status \notin {"none", "queued", "running"}
  BY DEF Terminal, Outcomes
<1>a. \A o \in Terminal : FinishedRun(run[k], o) = run[k]
  BY <1>0 DEF FinishedRun
<1>1. CASE Tick
  BY <1>0, <1>1 DEF Tick, Conflict, Materialized
<1>2. ASSUME NEW w \in Workers, Claim(w) PROVE run'[k] = run[k]
  BY <1>0, <1>2 DEF Claim, Claimable, TypeOK
<1>3. ASSUME NEW w \in Workers, Finish(w) PROVE run'[k] = run[k]
  BY <1>a, <1>3 DEF Finish, FinishScheduleRun, TypeOK, Terminal
<1>4. CASE Start
  BY <1>a, <1>4 DEF Start, Terminal, Outcomes
<1>5. CASE Stop
  BY <1>a, <1>5 DEF Stop, Terminal
<1>6. CASE Crash \/ Drain \/ Release \/ Advance \/ UNCHANGED vars
  BY <1>6 DEF Crash, Drain, Release, Advance, vars
<1>7. ASSUME NEW c \in Clients, NEW t \in Tasks, Begin(c, t) PROVE UNCHANGED run
  BY <1>7 DEF Begin, BeginCreate, BeginUpdate, BeginExecution, BeginPause, BeginResume,
     BeginApprove, BeginReject, BeginArchive, BeginRestore, BeginManual, Request
<1>8. ASSUME NEW c \in Clients, Commit(c) PROVE run'[k] = run[k]
  BY <1>0, <1>8 DEF Commit, Reread, WriteTask, InsertManual, TypeOK
<1> QED BY <1>1, <1>2, <1>3, <1>4, <1>5, <1>6, <1>7, <1>8 DEF Next

\* A failure is counted only in a step in which a run of the task fails.
LEMMA FailuresMove ==
  ASSUME TypeOK, [Next]_vars, NEW t \in Tasks
  PROVE  \/ task'[t].failures \in {0, task[t].failures}
         \/ /\ task'[t].failures = task[t].failures + 1
            /\ \E k \in RunKeys : /\ k.task = t /\ run[k].status = "running"
                                  /\ run'[k].status \in {"failed", "timed_out"}
<1>0. task[t] \in TaskRow
  BY DEF TypeOK
<1>a. Failed(task[t]).failures = task[t].failures + 1
  BY <1>0 DEF Failed, TaskRow
<1>1. CASE Tick
  BY ZenonT(40), <1>0, <1>1 DEF Tick, Planned, TaskRow
<1>2. ASSUME NEW w \in Workers, Finish(w)
      PROVE  \/ task'[t].failures \in {0, task[t].failures}
             \/ /\ task'[t].failures = task[t].failures + 1
                /\ \E k \in RunKeys : /\ k.task = t /\ run[k].status = "running"
                                      /\ run'[k].status \in {"failed", "timed_out"}
  <2>1. PICK o \in Outcomes : FinishScheduleRun(worker[w], o)
    BY <1>2 DEF Finish
  <2>2. worker[w] \in RunKeys
    BY <1>2 DEF Finish, TypeOK
  <2>3. CASE task'[t] = task[t]
    BY <2>3
  <2>4. CASE task'[t] # task[t]
    <3>1. run[worker[w]].status = "running" /\ worker[w].task = t /\ task'[t] = Settled(task[t], o)
      BY <2>1, <2>2, <2>4 DEF FinishScheduleRun, TypeOK
    <3>2. run'[worker[w]].status = o
      BY <2>1, <2>2, <3>1 DEF FinishScheduleRun, FinishedRun, TypeOK, RunRow
    <3>3. CASE o \in {"failed", "timed_out"}
      BY <1>a, <2>2, <3>1, <3>2, <3>3 DEF Settled
    <3>4. CASE o \notin {"failed", "timed_out"}
      BY <1>0, <3>1, <3>4 DEF Settled, TaskRow
    <3> QED BY <3>3, <3>4
  <2> QED BY <2>3, <2>4
<1>3. CASE Start
  <2>1. CASE task'[t] = task[t]
    BY <2>1
  <2>2. CASE task'[t] # task[t]
    <3>1. PICK k \in ExpiredLeases : k.task = t
      BY <1>3, <2>2 DEF Start
    <3>2. task'[t] = Failed(task[t])
      BY <1>3, <2>2 DEF Start
    <3>3. k \in RunKeys /\ run[k].status = "running" /\ run'[k].status = "failed"
      BY <1>3, <3>1 DEF Start, ExpiredLeases, FinishedRun, TypeOK, RunRow
    <3> QED BY <1>a, <3>1, <3>2, <3>3
  <2> QED BY <2>1, <2>2
<1>4. CASE UNCHANGED task
  BY <1>4
<1>5. ASSUME NEW w \in Workers, Claim(w) PROVE UNCHANGED task
  BY <1>5 DEF Claim
<1>6. CASE Stop \/ Crash \/ Drain \/ Release \/ Advance
  BY <1>6 DEF Stop, Crash, Drain, Release, Advance
<1>7. ASSUME NEW c \in Clients, NEW u \in Tasks, Begin(c, u) PROVE UNCHANGED task
  BY <1>7 DEF Begin, BeginCreate, BeginUpdate, BeginExecution, BeginPause, BeginResume,
     BeginApprove, BeginReject, BeginArchive, BeginRestore, BeginManual, Request
<1>8. ASSUME NEW c \in Clients, Reread(c) \/ InsertManual(c) PROVE UNCHANGED task
  BY <1>8 DEF Reread, InsertManual
<1>9. ASSUME NEW c \in Clients, WriteTask(c) PROVE task'[t].failures = task[t].failures
  <2>1. task'[t] = task[t] \/ task'[t] = Written(task[t], op[c])
    BY <1>9 DEF WriteTask, TypeOK
  <2> QED BY <1>0, <2>1 DEF Written, TaskRow
<1> QED BY <1>1, <1>2, <1>3, <1>4, <1>5, <1>6, <1>7, <1>8, <1>9 DEF Next, Commit, vars

LEMMA FailuresStep ==
  TypeOK /\ WorkerOwnsItsRun /\ FailuresAreBacked /\ [Next]_vars => FailuresAreBacked'
<1> SUFFICES ASSUME TypeOK, WorkerOwnsItsRun, FailuresAreBacked, [Next]_vars, NEW t \in Tasks
             PROVE  task'[t].failures <= Cardinality(Backing(t)')
  BY DEF FailuresAreBacked, Backing
<1> DEFINE B == Backing(t)
           N == Backing(t)'
<1>1. task[t].failures \in Nat /\ task[t].failures <= Cardinality(B)
  BY DEF FailuresAreBacked, Backing, TypeOK, TaskRow
<1>2. B \subseteq N
  BY SettledStays DEF Backing, Terminal, Outcomes
<1>3. IsFiniteSet(B)
  <2>1. B \in SUBSET KeysOfTask(t)
    BY DEF Backing, KeysOfTask
  <2> QED BY <2>1, KeysAreFinite, FS_Subset
<1>4. IsFiniteSet(N)
  <2>1. N \in SUBSET KeysOfTask(t)
    BY DEF Backing, KeysOfTask, RunKeys, Time
  <2> QED BY <2>1, KeysAreFinite, FS_Subset
<1>5. Cardinality(B) \in Nat /\ Cardinality(N) \in Nat
  BY <1>3, <1>4, FS_CardinalityType
<1>6. ASSUME task'[t].failures \in {0, task[t].failures}
      PROVE  task'[t].failures <= Cardinality(N)
  <2>1. Cardinality(B) <= Cardinality(N)
    BY <1>2, <1>4, FS_Subset
  <2> HIDE DEF B, N
  <2>2. ASSUME NEW a \in Nat, NEW b \in Nat, NEW d \in Nat, a <= b, b <= d PROVE 0 <= d /\ a <= d
    BY <2>2
  <2>3. 0 <= Cardinality(N) /\ task[t].failures <= Cardinality(N)
    BY <1>1, <1>5, <2>1, <2>2
  <2> QED BY <1>6, <2>3
<1>7. ASSUME task'[t].failures = task[t].failures + 1,
             NEW k \in RunKeys, k.task = t, run[k].status = "running",
             run'[k].status \in {"failed", "timed_out"}
      PROVE  task'[t].failures <= Cardinality(N)
  <2>1. k \notin B /\ B \cup {k} \subseteq N
    BY <1>2, <1>7 DEF Backing
  <2> HIDE DEF B, N
  <2>2. Cardinality(B \cup {k}) = Cardinality(B) + 1
    BY <1>3, <2>1, FS_AddElement
  <2>3. Cardinality(B \cup {k}) <= Cardinality(N)
    BY <1>4, <2>1, FS_Subset
  <2> QED BY <1>1, <1>5, <1>7, <2>2, <2>3
<1> QED BY <1>6, <1>7, FailuresMove

\* Consecutive failures are backed by runs that failed (finish_schedule_run,
\* recover_expired_schedule_run_leases): no skip, no cancellation, no second lease of one
\* restart pauses a task.
THEOREM FailuresStayBacked == Spec => []FailuresAreBacked
<1>1. Init => FailuresAreBacked
  <2> SUFFICES ASSUME Init, NEW t \in Tasks PROVE task[t].failures <= Cardinality(Backing(t))
    BY DEF FailuresAreBacked, Backing
  <2>1. task[t].failures = 0 /\ Backing(t) = {}
    BY DEF Init, Backing, NoRun
  <2> QED BY <2>1, FS_EmptySet
<1> QED BY <1>1, FailuresStep, TypeCorrect, WorkersOwnTheirRuns, PTL DEF Spec
=============================================================================
