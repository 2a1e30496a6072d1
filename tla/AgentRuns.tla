------------------------------- MODULE AgentRuns ------------------------------
(***************************************************************************)
(* AgentRunService: the rows of agent_runs, the driver task of each run,   *)
(* the registry of live runs, and the requests (start, abort, answer, the  *)
(* cancellations of the scheduler and of a parent agent, the sweeper) that *)
(* race with the driver on one event loop.                                 *)
(*                                                                         *)
(* Code between two awaits is atomic, so an action is what happens from    *)
(* one await to the next.  A driver is the phase its coroutine is          *)
(* suspended in; `lock` is AgentRunService._lock, one lock for all         *)
(* sessions, which a start holds while it persists the session.            *)
(***************************************************************************)
EXTENDS Naturals, FiniteSets

CONSTANTS
  Sessions, Runs,
  Owner,          \* the session a run identifier is made for
  Clients,        \* coroutines that serve requests
  Requests,       \* what the environment does; see MCAgentRuns
  MaxCrashes,     \* bound: process crashes
  None

VARIABLES
  row,            \* agent_runs.status
  driver,         \* where _drive_run of a run is suspended
  ending,         \* the terminal status the driver will publish
  live,           \* _session_runs
  question,       \* the run whose blocking question is pending in a session
  lock,           \* the client that holds _lock across an await
  req,            \* the request a client is serving
  aborted,        \* abort_event of the run's context
  cancel,         \* task.cancel() on the driver
  waiter,         \* the executor of a schedule, which waits for the run
  crashes

vars == <<row, driver, ending, live, question, lock, req, aborted, cancel,
          waiter, crashes>>

ASSUME OwnerAssumption == Owner \in [Runs -> Sessions]

RowStatus == {"none", "running", "waiting", "completed", "failed", "cancelled"}
Endings == {"waiting", "completed", "failed", "cancelled"}
Cleanup == {"settle", "persist", "subagents"}
Phases == {"none", "engine", "asked", "aborting", "publish", "close"} \cup Cleanup
Request == [op : {"start", "resume", "cancel"}, run : Runs,
            step : {"persist", "lock", "publish", "launch", "grace", "forced"}]

ASSUME NoneAssumption == None \notin Runs /\ None \notin Clients /\ None \notin Request

TypeOK ==
  /\ row \in [Runs -> RowStatus]
  /\ driver \in [Runs -> Phases]
  /\ ending \in [Runs -> Endings]
  /\ live \in [Sessions -> Runs \cup {None}]
  /\ question \in [Sessions -> Runs \cup {None}]
  /\ lock \in Clients \cup {None}
  /\ req \in [Clients -> Request \cup {None}]
  /\ aborted \in [Runs -> BOOLEAN]
  /\ cancel \in [Runs -> {"no", "requested", "delivered"}]
  /\ waiter \in [Runs -> {"waits", "timeout", "gone"}]
  /\ crashes \in Nat

Init ==
  /\ row = [r \in Runs |-> "none"]
  /\ driver = [r \in Runs |-> "none"]
  /\ ending = [r \in Runs |-> "failed"]
  /\ live = [s \in Sessions |-> None]
  /\ question = [s \in Sessions |-> None]
  /\ lock = None
  /\ req = [c \in Clients |-> None]
  /\ aborted = [r \in Runs |-> FALSE]
  /\ cancel = [r \in Runs |-> "no"]
  /\ waiter = [r \in Runs |-> "waits"]
  /\ crashes = 0

Active(s) == {r \in Runs : Owner[r] = s /\ row[r] \in {"running", "waiting"}}
Faults == "fault" \in Requests     \* a store or a file operation may raise

\* mutant: a status that the table of runs does not know
FailAgentRun_Interrupted(r) ==
  row' = [row EXCEPT ![r] = IF @ \in {"running", "waiting"} THEN "interrupted" ELSE @]

\* fail_agent_run and cancel_orphan_agent_run: only an active row changes
FailAgentRun(r) ==
  row' = [row EXCEPT ![r] = IF @ \in {"running", "waiting"} THEN "failed" ELSE @]
CancelRow(r) ==
  row' = [row EXCEPT ![r] = IF @ \in {"running", "waiting"} THEN "cancelled" ELSE @]

\* create_task(_drive_run), and the registry entry
Launch(r) ==
  /\ driver' = [driver EXCEPT ![r] = "engine"]
  /\ live' = [live EXCEPT ![Owner[r]] = r]
  /\ aborted' = [aborted EXCEPT ![r] = FALSE]
  /\ cancel' = [cancel EXCEPT ![r] = "no"]

Answered(c) == req' = [req EXCEPT ![c] = None]
Serve(c, op, r, step) == req' = [req EXCEPT ![c] = [op |-> op, run |-> r, step |-> step]]
Serving(c, op, step) == req[c] # None /\ req[c].op = op /\ req[c].step = step

-----------------------------------------------------------------------------
(* start_chat_run                                                            *)

\* mutant: only the table is consulted
BeginStart_TableOnly(c, r) ==
  /\ "start" \in Requests /\ req[c] = None /\ lock = None /\ row[r] = "none"
  /\ Active(Owner[r]) = {}
  /\ row' = [row EXCEPT ![r] = "running"]
  /\ lock' = c /\ Serve(c, "start", r, "persist")
  /\ UNCHANGED <<driver, ending, live, question, aborted, cancel, waiter, crashes>>

\* a refused start changes nothing; an admitted one persists under the lock
BeginStart(c, r) ==
  /\ "start" \in Requests /\ req[c] = None /\ lock = None /\ row[r] = "none"
  /\ live[Owner[r]] = None /\ Active(Owner[r]) = {}
  /\ row' = [row EXCEPT ![r] = "running"]
  /\ lock' = c /\ Serve(c, "start", r, "persist")
  /\ UNCHANGED <<driver, ending, live, question, aborted, cancel, waiter, crashes>>

FinishStart(c) ==
  /\ Serving(c, "start", "persist")
  /\ Launch(req[c].run)
  /\ lock' = None /\ Answered(c)
  /\ UNCHANGED <<row, ending, question, waiter, crashes>>

FailStart(c) ==
  /\ Faults /\ Serving(c, "start", "persist")
  /\ FailAgentRun(req[c].run)
  /\ lock' = None /\ Answered(c)
  /\ UNCHANGED <<driver, ending, live, question, aborted, cancel, waiter, crashes>>

-----------------------------------------------------------------------------
(* _drive_run: the engine                                                    *)

\* the generator ends and `finally` runs up to its first await: an aborted run
\* cancels the pending question (settle_stopped_run) before it is persisted
EndWith(r, status) ==
  /\ ending' = [ending EXCEPT ![r] = status]
  /\ driver' = [driver EXCEPT ![r] = IF status = "cancelled" THEN "settle" ELSE "persist"]
  /\ question' = IF status = "cancelled" THEN [question EXCEPT ![Owner[r]] = None]
                 ELSE question

\* request_user_input, blocking: replaces whatever question was pending
Ask(r) ==
  /\ driver[r] = "engine" /\ ~aborted[r] /\ "ask" \in Requests
  /\ question' = [question EXCEPT ![Owner[r]] = r]
  /\ driver' = [driver EXCEPT ![r] = "asked"]
  /\ UNCHANGED <<row, ending, live, lock, req, aborted, cancel, waiter, crashes>>

\* a run that asked may end its turn without looking at the abort event; the
\* clean-up of an aborted tool swallows a CancelledError that comes in it
EngineEnds(r) ==
  /\ \/ /\ cancel[r] # "requested" /\ UNCHANGED cancel
        /\ \/ driver[r] = "engine" /\ \E status \in {"completed", "failed"} : EndWith(r, status)
           \/ driver[r] = "asked" /\ EndWith(r, "waiting")
           \/ driver[r] = "asked" /\ Faults /\ EndWith(r, "failed")
     \/ /\ driver[r] \in {"engine", "asked"} /\ aborted[r] /\ EndWith(r, "cancelled")
        /\ cancel' = [cancel EXCEPT ![r] = IF @ = "requested" THEN "delivered" ELSE @]
  /\ UNCHANGED <<row, live, lock, req, aborted, waiter, crashes>>

\* CancelledError reaches the engine: `aborted` is published first
EngineCancelled(r) ==
  /\ driver[r] \in {"engine", "asked"} /\ cancel[r] = "requested"
  /\ cancel' = [cancel EXCEPT ![r] = "delivered"]
  /\ driver' = [driver EXCEPT ![r] = "aborting"]
  /\ UNCHANGED <<row, ending, live, question, lock, req, aborted, waiter, crashes>>

\* a failure, or one more CancelledError, in this publication ends in `finally`
AbortPublished(r) ==
  /\ driver[r] = "aborting"
  /\ \/ cancel[r] # "requested" /\ EndWith(r, "cancelled")
     \/ (Faults \/ cancel[r] = "requested") /\ EndWith(r, "failed")
  /\ cancel' = [cancel EXCEPT ![r] = "delivered"]
  /\ UNCHANGED <<row, live, lock, req, aborted, waiter, crashes>>

-----------------------------------------------------------------------------
(* _drive_run: finally                                                       *)

Advance(r, from, to) == driver[r] = from /\ driver' = [driver EXCEPT ![r] = to]

\* a pending CancelledError is raised where the coroutine goes on
Undisturbed(r) == cancel[r] # "requested"

\* settle_stopped_run and its two events; a failure turns the ending into failed
Settle(r) ==
  /\ Undisturbed(r) /\ Advance(r, "settle", "persist")
  /\ ending' = ending \/ (Faults /\ ending' = [ending EXCEPT ![r] = "failed"])
  /\ UNCHANGED <<row, live, question, lock, req, aborted, cancel, waiter, crashes>>

\* persist_async of the session; the subagents of a run that did not complete
Persist(r) ==
  /\ Undisturbed(r)
  /\ \E e \in {ending[r]} \cup (IF Faults THEN {"failed"} ELSE {}) :
       /\ ending' = [ending EXCEPT ![r] = e]
       /\ Advance(r, "persist", IF e \in {"failed", "cancelled"} THEN "subagents" ELSE "publish")
  /\ UNCHANGED <<row, live, question, lock, req, aborted, cancel, waiter, crashes>>

CancelSubagents(r) ==
  /\ Undisturbed(r) /\ Advance(r, "subagents", "publish")
  /\ UNCHANGED <<row, ending, live, question, lock, req, aborted, cancel, waiter, crashes>>

\* append_agent_run_event writes the status whatever the row holds, and is
\* finished even when the driver is cancelled meanwhile; fail_agent_run is the
\* fallback (a second failure in a row is left out)
Publish(r) ==
  /\ Advance(r, "publish", "close")
  /\ row' = [row EXCEPT ![r] = ending[r]] \/ (Faults /\ FailAgentRun(r))
  /\ cancel' = [cancel EXCEPT ![r] = IF @ = "requested" THEN "delivered" ELSE @]
  /\ UNCHANGED <<ending, live, question, lock, req, aborted, waiter, crashes>>

\* CancelledError in the clean-up passes `except Exception`: nothing is published
CleanupCancelled(r) ==
  /\ driver[r] \in Cleanup /\ cancel[r] = "requested"
  /\ cancel' = [cancel EXCEPT ![r] = "delivered"]
  /\ driver' = [driver EXCEPT ![r] = "close"]
  /\ UNCHANGED <<row, ending, live, question, lock, req, aborted, waiter, crashes>>

\* the driver is done: whoever waits for its task goes on
Wake(r) ==
  /\ req' = [c \in Clients |-> IF req[c] # None /\ req[c].op = "cancel" /\ req[c].run = r
                              THEN None ELSE req[c]]
  /\ waiter' = [waiter EXCEPT ![r] = IF @ = "waits" THEN "gone" ELSE @]

\* mutant: the registry entry survives the driver
Close_KeepsEntry(r) ==
  /\ lock = None /\ Advance(r, "close", "none")
  /\ Wake(r)
  /\ UNCHANGED <<row, ending, live, question, lock, aborted, cancel, crashes>>

\* _close_run
Close(r) ==
  /\ lock = None /\ Advance(r, "close", "none")
  /\ live' = [live EXCEPT ![Owner[r]] = IF @ = r THEN None ELSE @]
  /\ Wake(r)
  /\ UNCHANGED <<row, ending, question, lock, aborted, cancel, crashes>>

\* CancelledError while _close_run waits for the lock leaves the entry behind
CloseCancelled(r) ==
  /\ lock # None /\ cancel[r] = "requested" /\ Advance(r, "close", "none")
  /\ cancel' = [cancel EXCEPT ![r] = "delivered"]
  /\ Wake(r)
  /\ UNCHANGED <<row, ending, live, question, lock, aborted, crashes>>

-----------------------------------------------------------------------------
(* abort_session, cancel_run, and the executor's timeout                     *)

\* cancel_run on a live driver: the abort event, then a grace period
BeginCancel(c, r) ==
  /\ "abort" \in Requests /\ req[c] = None
  /\ driver[r] # "none" /\ row[r] \in {"running", "waiting"}
  /\ aborted' = [aborted EXCEPT ![r] = @ \/ driver[r] \in {"engine", "asked"}]
  /\ Serve(c, "cancel", r, "grace")
  /\ UNCHANGED <<row, driver, ending, live, question, lock, cancel, waiter, crashes>>

\* the grace period ends first: task.cancel(), unless it was called before
ForceCancel(c) ==
  /\ "force" \in Requests /\ Serving(c, "cancel", "grace")
  /\ cancel' = [cancel EXCEPT ![req[c].run] = IF @ = "no" THEN "requested" ELSE @]
  /\ Serve(c, "cancel", req[c].run, "forced")
  /\ UNCHANGED <<row, driver, ending, live, question, lock, aborted, waiter, crashes>>

\* and the caller waits one more second at most
CancelReturns(c) ==
  /\ Serving(c, "cancel", "forced") /\ Answered(c)
  /\ UNCHANGED <<row, driver, ending, live, question, lock, aborted, cancel, waiter, crashes>>

\* abort_session without a live run; a running row of nobody here is refused
AbortIdle(s) ==
  /\ "abort" \in Requests /\ live[s] = None
  /\ \A r \in Active(s) : row[r] = "waiting"
  /\ question' = [question EXCEPT ![s] = None]
  /\ row' = [r \in Runs |-> IF r \in Active(s) THEN "cancelled" ELSE row[r]]
  /\ UNCHANGED <<driver, ending, live, lock, req, aborted, cancel, waiter, crashes>>

\* a parent agent cancels its subagent's run (cancel_run) when no driver is known;
\* the identifier of a run is known to others when its start has returned
CancelOrphan(r) ==
  /\ "orphan" \in Requests /\ driver[r] = "none" /\ row[r] \in {"running", "waiting"}
  /\ ~ \E c \in Clients : Serving(c, "start", "persist") /\ req[c].run = r
  /\ CancelRow(r)
  /\ UNCHANGED <<driver, ending, live, question, lock, req, aborted, cancel, waiter, crashes>>

\* wait_for(wait_for_run): the timeout cancels the driver's task itself
Overrun(r) ==
  /\ "timeout" \in Requests /\ driver[r] # "none" /\ waiter[r] = "waits"
  /\ cancel' = [cancel EXCEPT ![r] = "requested"]
  /\ waiter' = [waiter EXCEPT ![r] = "timeout"]
  /\ UNCHANGED <<row, driver, ending, live, question, lock, req, aborted, crashes>>

\* mutant: the executor does not cancel the run it gave up
GiveUp_Leaves(r) ==
  /\ waiter[r] = "timeout" /\ driver[r] = "none"
  /\ waiter' = [waiter EXCEPT ![r] = "gone"]
  /\ UNCHANGED <<row, driver, ending, live, question, lock, req, aborted, cancel, crashes>>

\* then cancel_run settles the row a driver cancelled in its clean-up left active
GiveUp(r) ==
  /\ waiter[r] = "timeout" /\ driver[r] = "none"
  /\ waiter' = [waiter EXCEPT ![r] = "gone"]
  /\ CancelRow(r)
  /\ UNCHANGED <<driver, ending, live, question, lock, req, aborted, cancel, crashes>>

-----------------------------------------------------------------------------
(* The answer to a question: respond_to_elicitation, resume_elicitation_run  *)

\* the question is resolved first; without a waiting run the answer is an
\* ordinary start, which BeginStart admits or refuses
Answer(c, s) ==
  /\ "answer" \in Requests /\ req[c] = None /\ question[s] # None
  /\ question' = [question EXCEPT ![s] = None]
  /\ IF \E r \in Active(s) : row[r] = "waiting"
     THEN \E r \in Active(s) : Serve(c, "resume", r, "lock")
     ELSE UNCHANGED req
  /\ UNCHANGED <<row, driver, ending, live, lock, aborted, cancel, waiter, crashes>>

\* mutant: the row is set to running without looking at its status
ResumeRow_Blind(c) ==
  /\ Serving(c, "resume", "lock") /\ lock = None
  /\ live[Owner[req[c].run]] = None
  /\ row' = [row EXCEPT ![req[c].run] = "running"]
  /\ lock' = c /\ Serve(c, "resume", req[c].run, "persist")
  /\ UNCHANGED <<driver, ending, live, question, aborted, cancel, waiter, crashes>>

\* resume_waiting_agent_run: compare and set, so that one answer or the sweeper wins
ResumeRow(c) ==
  /\ Serving(c, "resume", "lock") /\ lock = None
  /\ live[Owner[req[c].run]] = None /\ row[req[c].run] = "waiting"
  /\ row' = [row EXCEPT ![req[c].run] = "running"]
  /\ lock' = c /\ Serve(c, "resume", req[c].run, "persist")
  /\ UNCHANGED <<driver, ending, live, question, aborted, cancel, waiter, crashes>>

\* ElicitationResumeConflict: the driver has not closed yet, or the run is over
ResumeConflict(c) ==
  /\ Serving(c, "resume", "lock") /\ lock = None
  /\ live[Owner[req[c].run]] # None \/ row[req[c].run] # "waiting"
  /\ Answered(c)
  /\ UNCHANGED <<row, driver, ending, live, question, lock, aborted, cancel, waiter, crashes>>

\* the session is persisted under the lock, the event published without it
ResumeStep(c) ==
  /\ \/ Serving(c, "resume", "persist") /\ lock' = None /\ Serve(c, "resume", req[c].run, "publish")
     \/ Serving(c, "resume", "publish") /\ UNCHANGED lock /\ Serve(c, "resume", req[c].run, "launch")
  /\ UNCHANGED <<row, driver, ending, live, question, aborted, cancel, waiter, crashes>>

FailResume(c) ==
  /\ Faults
  /\ \/ Serving(c, "resume", "persist") /\ lock' = None
     \/ Serving(c, "resume", "publish") /\ UNCHANGED lock
  /\ FailAgentRun(req[c].run) /\ Answered(c)
  /\ UNCHANGED <<driver, ending, live, question, aborted, cancel, waiter, crashes>>

\* the registry is looked at again: the lock was released in between
LaunchResumed(c) ==
  /\ Serving(c, "resume", "launch") /\ lock = None
  /\ IF live[Owner[req[c].run]] = None
     THEN Launch(req[c].run) /\ UNCHANGED row
     ELSE FailAgentRun(req[c].run) /\ UNCHANGED <<driver, live, aborted, cancel>>
  /\ Answered(c)
  /\ UNCHANGED <<ending, question, lock, waiter, crashes>>

-----------------------------------------------------------------------------
(* The sweeper, and a crash followed by a restart                            *)

\* mutant: the sweeper starts from the pending questions
Sweep_OnlyAsked(r) ==
  /\ row[r] = "waiting" /\ driver[r] = "none" /\ question[Owner[r]] = r
  /\ CancelRow(r) /\ question' = [question EXCEPT ![Owner[r]] = None]
  /\ UNCHANGED <<driver, ending, live, lock, req, aborted, cancel, waiter, crashes>>

\* expire_waiting_inputs_once: the wait is far longer than a driver takes to close
Sweep(r) ==
  /\ row[r] = "waiting" /\ driver[r] = "none"
  /\ CancelRow(r) /\ question' = [question EXCEPT ![Owner[r]] = None]
  /\ UNCHANGED <<driver, ending, live, lock, req, aborted, cancel, waiter, crashes>>

\* recover_interrupted_agent_runs: waiting runs and questions survive
Crash ==
  /\ crashes < MaxCrashes /\ crashes' = crashes + 1
  /\ row' = [r \in Runs |-> IF row[r] = "running" THEN "failed" ELSE row[r]]
  /\ driver' = [r \in Runs |-> "none"]
  /\ live' = [s \in Sessions |-> None]
  /\ lock' = None /\ req' = [c \in Clients |-> None]
  /\ aborted' = [r \in Runs |-> FALSE] /\ cancel' = [r \in Runs |-> "no"]
  /\ waiter' = [r \in Runs |-> IF row[r] = "none" THEN "waits" ELSE "gone"]
  /\ UNCHANGED <<ending, question>>

Drive(r) ==
  \/ EngineEnds(r) \/ EngineCancelled(r) \/ AbortPublished(r)
  \/ Settle(r) \/ Persist(r) \/ CancelSubagents(r) \/ Publish(r)
  \/ CleanupCancelled(r) \/ Close(r) \/ CloseCancelled(r)

Continue(c) ==
  \/ FinishStart(c) \/ FailStart(c) \/ ForceCancel(c) \/ CancelReturns(c)
  \/ ResumeRow(c) \/ ResumeConflict(c) \/ ResumeStep(c) \/ FailResume(c) \/ LaunchResumed(c)

\* all but a cancellation that goes by the row alone
SessionNext ==
  \/ \E r \in Runs : Drive(r) \/ Ask(r) \/ Overrun(r) \/ GiveUp(r) \/ Sweep(r)
  \/ \E c \in Clients : Continue(c)
  \/ \E c \in Clients, r \in Runs : BeginStart(c, r) \/ BeginCancel(c, r)
  \/ \E c \in Clients, s \in Sessions : Answer(c, s)
  \/ \E s \in Sessions : AbortIdle(s)
  \/ Crash

Next == SessionNext \/ \E r \in Runs : CancelOrphan(r)

Spec == Init /\ [][Next]_vars

(* The event loop runs every ready coroutine: a driver goes on (strongly fair *)
(* where it waits for the lock), a request goes on once it was admitted, the  *)
(* sweeper comes round, the executor gives up.  Requests are not promised.    *)
Fairness ==
  /\ \A r \in Runs : SF_vars(Drive(r)) /\ WF_vars(Sweep(r)) /\ WF_vars(GiveUp(r))
  /\ \A c \in Clients : SF_vars(Continue(c))

FairSpec == Spec /\ Fairness
=============================================================================
