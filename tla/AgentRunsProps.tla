---------------------------- MODULE AgentRunsProps ----------------------------
(* Correctness properties of AgentRuns. *)
EXTENDS AgentRuns

\* The table of runs does what SessionRuns says: one active run per session,
\* legal moves of a status only, and a terminal status is never left
\* (docs/host-agent-orchestration.md, "Run state machine").
Table == INSTANCE SessionRuns
SessionRunsSpec == Table!Spec

\* Two drivers never work on one session: they would share its messages and
\* its run context without any lock.
OneDriver ==
  \A r, q \in Runs : r # q /\ Owner[r] = Owner[q] => "none" \in {driver[r], driver[q]}

\* A run that is driven is running in the table until its driver publishes, so
\* that the table refuses other starts and recovery finds it after a crash.
DrivenRunIsRunning ==
  \A r \in Runs : driver[r] \notin {"none", "close"} => row[r] = "running"

\* A run with a driver is the one its session is registered with, whatever is
\* cancelled by force: an abort always finds the driver it has to stop.
DriversAreRegistered ==
  \A r \in Runs : driver[r] # "none" => live[Owner[r]] = r

\* The registry names exactly the runs that have a driver: an abort finds the
\* driver of its session, and a session without a driver accepts a start.
RegistryIsExact ==
  \A s \in Sessions, r \in Runs : live[s] = r <=> driver[r] # "none" /\ Owner[r] = s

\* A run that executes comes to an end or to a question, whatever fails on the way, and
\* one that waits for an answer is resumed, cancelled or swept in the end.
RunsSettle ==
  /\ \A r \in Runs : row[r] = "running" ~> row[r] # "running"
  /\ \A r \in Runs : row[r] = "waiting" ~> row[r] # "waiting"

-----------------------------------------------------------------------------
(* What documents and comments of the program say, and the code does not do. *)

\* store.py, recover_interrupted_agent_runs: a run that waits "has persisted its
\* question and can still be answered": the question is pending, or an answer is
\* on its way to the run.
WaitingIsAnswerable ==
  \A r \in Runs : row[r] = "waiting" =>
    \/ question[Owner[r]] = r
    \/ \E c \in Clients : req[c] # None /\ req[c].op = "resume" /\ req[c].run = r

=============================================================================
