------------------------------- MODULE RunsProofs -------------------------------
(* Proofs about runs and what they call: the runs themselves (AgentRuns), for     *)
(* every set of sessions, runs and clients, every choice of requests and any      *)
(* number of crashes; the tools of a host (HostCalls), the shell commands          *)
(* (ShellCalls) and the work board and questions (RuntimeState), for every         *)
(* number of sessions, tokens, calls, items and questions.                         *)
EXTENDS MCRuns, ListsProofs

-----------------------------------------------------------------------------
(* AgentRuns *)


\* DriversAreRegistered is behind OneDriver; it is kept because a client that starts
\* a run holds the lock over a session without an entry until it creates the driver.
PersistHoldsLock == \A c \in Clients : req[c] # None /\ req[c].step = "persist" => lock = c
StartingIsFree ==
  \A c \in Clients : Serving(c, "start", "persist") => live[Owner[req[c].run]] = None

IInv == TypeOK /\ DriversAreRegistered /\ PersistHoldsLock /\ StartingIsFree

USE OwnerAssumption, NoneAssumption

-----------------------------------------------------------------------------
(* Type correctness                                                          *)

LEMMA TypeInit == Init => TypeOK
BY DEF Init, TypeOK, RowStatus, Endings, Phases, Request

\* a driver at work, up to the publication of its end
LEMMA TypeDriver == TypeOK /\ (\E r \in Runs : Drive(r) \/ Ask(r)) => TypeOK'
<1> SUFFICES ASSUME TypeOK, NEW r \in Runs, Drive(r) \/ Ask(r) PROVE TypeOK'
  OBVIOUS
<1> USE DEF TypeOK, RowStatus, Endings, Phases, Cleanup
<1>1. CASE Ask(r)
  BY <1>1 DEF Ask
<1>2. CASE EngineEnds(r)
  BY <1>2 DEF EngineEnds, EndWith
<1>3. CASE EngineCancelled(r)
  BY <1>3 DEF EngineCancelled
<1>4. CASE AbortPublished(r)
  BY <1>4 DEF AbortPublished, EndWith
<1>5. CASE Settle(r)
  BY <1>5 DEF Settle, Advance
<1>6. CASE Persist(r)
  BY <1>6 DEF Persist, Advance
<1>7. CASE CancelSubagents(r)
  BY <1>7 DEF CancelSubagents, Advance
<1>8. CASE Publish(r)
  BY <1>8 DEF Publish, Advance, FailAgentRun
<1>9. CASE CleanupCancelled(r)
  BY <1>9 DEF CleanupCancelled
<1>10. CASE Close(r)
  BY <1>10 DEF Close, Advance, Wake, Request
<1>11. CASE CloseCancelled(r)
  BY <1>11 DEF CloseCancelled, Advance, Wake, Request
<1> QED
  BY <1>1, <1>2, <1>3, <1>4, <1>5, <1>6, <1>7, <1>8, <1>9, <1>10, <1>11 DEF Drive

LEMMA TypeRequest == TypeOK /\ (\E c \in Clients : Continue(c)) => TypeOK'
<1> SUFFICES ASSUME TypeOK, NEW c \in Clients, Continue(c) PROVE TypeOK'
  OBVIOUS
<1>0. ASSUME req[c] # None PROVE req[c] \in Request
  BY <1>0 DEF TypeOK
<1> USE DEF TypeOK, RowStatus, Phases, Request, Serving, Serve, Answered
<1>1. CASE FinishStart(c)
  BY <1>0, <1>1 DEF FinishStart, Launch
<1>2. CASE FailStart(c)
  BY <1>0, <1>2 DEF FailStart, FailAgentRun
<1>3. CASE ForceCancel(c)
  BY <1>0, <1>3 DEF ForceCancel
<1>4. CASE CancelReturns(c)
  BY <1>0, <1>4 DEF CancelReturns
<1>5. CASE ResumeRow(c)
  BY <1>0, <1>5 DEF ResumeRow
<1>6. CASE ResumeConflict(c)
  BY <1>0, <1>6 DEF ResumeConflict
<1>7. CASE ResumeStep(c)
  BY <1>0, <1>7 DEF ResumeStep
<1>8. CASE FailResume(c)
  BY <1>0, <1>8 DEF FailResume, FailAgentRun
<1>9. CASE LaunchResumed(c)
  <2>1. req[c].run \in Runs /\ req' \in [Clients -> Request \cup {None}]
    BY <1>0, <1>9 DEF LaunchResumed
  <2>2. CASE live[Owner[req[c].run]] = None
    BY ZenonT(40), <1>9, <2>1, <2>2 DEF LaunchResumed, Launch
  <2>3. CASE live[Owner[req[c].run]] # None
    BY <1>9, <2>1, <2>3 DEF LaunchResumed, FailAgentRun
  <2> QED
    BY <2>2, <2>3
<1> QED
  BY <1>1, <1>2, <1>3, <1>4, <1>5, <1>6, <1>7, <1>8, <1>9 DEF Continue

\* what the environment, the executor and the sweeper do to one run
LEMMA TypeRun == TypeOK /\ (\E r \in Runs : CancelOrphan(r) \/ Overrun(r) \/ GiveUp(r) \/ Sweep(r)) => TypeOK'
<1> SUFFICES ASSUME TypeOK, NEW r \in Runs, CancelOrphan(r) \/ Overrun(r) \/ GiveUp(r) \/ Sweep(r)
             PROVE TypeOK'
  OBVIOUS
<1> QED
  BY DEF TypeOK, RowStatus, CancelOrphan, CancelRow, Overrun, GiveUp, Sweep

LEMMA TypeOther ==
  TypeOK /\ (\/ \E c \in Clients, r \in Runs : BeginStart(c, r) \/ BeginCancel(c, r)
             \/ \E c \in Clients, s \in Sessions : Answer(c, s)
             \/ \E s \in Sessions : AbortIdle(s)
             \/ Crash) => TypeOK'
<1> SUFFICES ASSUME TypeOK,
                    \/ \E c \in Clients, r \in Runs : BeginStart(c, r) \/ BeginCancel(c, r)
                    \/ \E c \in Clients, s \in Sessions : Answer(c, s)
                    \/ \E s \in Sessions : AbortIdle(s)
                    \/ Crash
             PROVE TypeOK'
  OBVIOUS
<1> USE DEF TypeOK, RowStatus, Phases, Request, Serve
<1>1. CASE \E c \in Clients, r \in Runs : BeginStart(c, r)
  BY <1>1 DEF BeginStart
<1>2. CASE \E c \in Clients, r \in Runs : BeginCancel(c, r)
  BY <1>2 DEF BeginCancel
<1>3. CASE \E c \in Clients, s \in Sessions : Answer(c, s)
  BY <1>3 DEF Answer, Active
<1>4. CASE \E s \in Sessions : AbortIdle(s)
  BY <1>4 DEF AbortIdle
<1>5. CASE Crash
  BY <1>5 DEF Crash
<1> QED
  BY <1>1, <1>2, <1>3, <1>4, <1>5

LEMMA TypeNext == TypeOK /\ [Next]_vars => TypeOK'
<1>1. ASSUME TypeOK, UNCHANGED vars PROVE TypeOK'
  BY <1>1 DEF TypeOK, vars
<1> QED
  BY <1>1, TypeDriver, TypeRequest, TypeRun, TypeOther DEF Next, SessionNext

\* Every variable keeps its type: AgentRunService and the table of runs never
\* hold a status, a phase or a registry entry that the code does not know.
THEOREM TypeCorrect == Spec => []TypeOK
BY TypeInit, TypeNext, PTL DEF Spec

-----------------------------------------------------------------------------
(* One driver per session                                                    *)

Lock == PersistHoldsLock /\ StartingIsFree

LEMMA LockInit == Init => DriversAreRegistered /\ Lock
BY DEF Init, DriversAreRegistered, Lock, PersistHoldsLock, StartingIsFree, Serving

\* a driver at work changes its own phase; Close takes its own entry away
LEMMA LockDriver == IInv /\ (\E r \in Runs : Drive(r) \/ Ask(r)) => (DriversAreRegistered /\ Lock)'
<1> SUFFICES ASSUME IInv, NEW r \in Runs, Drive(r) \/ Ask(r) PROVE (DriversAreRegistered /\ Lock)'
  OBVIOUS
<1> USE DEF IInv, DriversAreRegistered, Lock, PersistHoldsLock, StartingIsFree, Serving
<1>0. driver \in [Runs -> Phases] /\ live \in [Sessions -> Runs \cup {None}]
      /\ req \in [Clients -> Request \cup {None}]
  BY DEF TypeOK
<1>1. CASE Close(r)
  BY <1>0, <1>1 DEF Close, Advance, Wake
<1>2. CASE CloseCancelled(r)
  BY <1>0, <1>2 DEF CloseCancelled, Advance, Wake
<1>3. ASSUME driver[r] # "none", UNCHANGED <<live, req, lock>>,
             NEW phase, driver' = [driver EXCEPT ![r] = phase]
      PROVE (DriversAreRegistered /\ Lock)'
  BY <1>0, <1>3
<1>4. CASE ~Close(r) /\ ~CloseCancelled(r)
  BY <1>3, <1>4 DEF Drive, Ask, EngineEnds, EngineCancelled, AbortPublished, EndWith, Settle,
     Persist, CancelSubagents, Publish, CleanupCancelled, Cleanup, Advance
<1> QED
  BY <1>1, <1>2, <1>4

LEMMA LockRequest == IInv /\ (\E c \in Clients : Continue(c)) => (DriversAreRegistered /\ Lock)'
<1> SUFFICES ASSUME IInv, NEW c \in Clients, Continue(c) PROVE (DriversAreRegistered /\ Lock)'
  OBVIOUS
<1> USE DEF IInv, DriversAreRegistered, Lock, PersistHoldsLock, StartingIsFree, Serving
<1>0. /\ driver \in [Runs -> Phases] /\ live \in [Sessions -> Runs \cup {None}]
      /\ req \in [Clients -> Request \cup {None}]
      /\ \A d \in Clients : req[d] # None => req[d] \in Request /\ req[d].run \in Runs
  BY DEF TypeOK, Request
<1>1. ASSUME req[c] # None, live[Owner[req[c].run]] = None, Launch(req[c].run)
      PROVE DriversAreRegistered'
  BY <1>0, <1>1 DEF Launch
<1>2. CASE FinishStart(c)
  BY <1>0, <1>1, <1>2 DEF FinishStart, Launch, Answered
<1>3. CASE FailStart(c)
  BY <1>0, <1>3 DEF FailStart, Answered
<1>4. CASE ForceCancel(c)
  BY <1>0, <1>4 DEF ForceCancel, Serve
<1>5. CASE CancelReturns(c)
  BY <1>0, <1>5 DEF CancelReturns, Answered
<1>6. CASE ResumeRow(c)
  BY <1>0, <1>6 DEF ResumeRow, Serve
<1>7. CASE ResumeConflict(c)
  BY <1>0, <1>7 DEF ResumeConflict, Answered
<1>8. CASE ResumeStep(c)
  BY <1>0, <1>8 DEF ResumeStep, Serve
<1>9. CASE FailResume(c)
  BY <1>0, <1>9 DEF FailResume, Answered
<1>10. CASE LaunchResumed(c)
  BY <1>0, <1>1, <1>10 DEF LaunchResumed, Launch, Answered
<1> QED
  BY <1>2, <1>3, <1>4, <1>5, <1>6, <1>7, <1>8, <1>9, <1>10 DEF Continue

\* nothing else writes the registry or the phase of a driver, but a crash
LEMMA LockOther ==
  IInv /\ (\/ \E r \in Runs : CancelOrphan(r) \/ Overrun(r) \/ GiveUp(r) \/ Sweep(r)
           \/ \E c \in Clients, r \in Runs : BeginStart(c, r) \/ BeginCancel(c, r)
           \/ \E c \in Clients, s \in Sessions : Answer(c, s)
           \/ \E s \in Sessions : AbortIdle(s)
           \/ Crash) => (DriversAreRegistered /\ Lock)'
<1> SUFFICES ASSUME IInv,
                    \/ \E r \in Runs : CancelOrphan(r) \/ Overrun(r) \/ GiveUp(r) \/ Sweep(r)
                    \/ \E c \in Clients, r \in Runs : BeginStart(c, r) \/ BeginCancel(c, r)
                    \/ \E c \in Clients, s \in Sessions : Answer(c, s)
                    \/ \E s \in Sessions : AbortIdle(s)
                    \/ Crash
             PROVE (DriversAreRegistered /\ Lock)'
  OBVIOUS
<1> USE DEF IInv, DriversAreRegistered, Lock, PersistHoldsLock, StartingIsFree, Serving
<1>0. req \in [Clients -> Request \cup {None}]
  BY DEF TypeOK
<1>1. CASE \E r \in Runs : CancelOrphan(r) \/ Overrun(r) \/ GiveUp(r) \/ Sweep(r)
  BY <1>1 DEF CancelOrphan, Overrun, GiveUp, Sweep
<1>2. CASE \E c \in Clients, r \in Runs : BeginStart(c, r)
  BY <1>0, <1>2 DEF BeginStart, Serve
<1>3. CASE \E c \in Clients, r \in Runs : BeginCancel(c, r)
  BY <1>0, <1>3 DEF BeginCancel, Serve
<1>4. CASE \E c \in Clients, s \in Sessions : Answer(c, s)
  BY <1>0, <1>4 DEF Answer, Serve
<1>5. CASE \E s \in Sessions : AbortIdle(s)
  BY <1>5 DEF AbortIdle
<1>6. CASE Crash
  BY <1>6 DEF Crash
<1> QED
  BY <1>1, <1>2, <1>3, <1>4, <1>5, <1>6

LEMMA Inductive == IInv /\ [Next]_vars => IInv'
<1> SUFFICES ASSUME IInv, [Next]_vars PROVE IInv'
  OBVIOUS
<1>1. TypeOK'
  BY TypeNext DEF IInv
<1>2. (DriversAreRegistered /\ Lock)'
  <2>1. CASE UNCHANGED vars
    BY <2>1 DEF vars, IInv, DriversAreRegistered, Lock, PersistHoldsLock, StartingIsFree, Serving
  <2> QED
    BY <2>1, LockDriver, LockRequest, LockOther DEF Next, SessionNext
<1> QED
  BY <1>1, <1>2 DEF IInv, Lock

LEMMA RegisteredIsOne == IInv => OneDriver
BY DEF IInv, TypeOK, DriversAreRegistered, OneDriver

\* Two drivers never work on one session, whichever starts, answers, aborts,
\* failures, timeouts and crashes meet (start_chat_run, resume_elicitation_run).
THEOREM OneDriverHolds == Spec => []OneDriver
<1>1. Init => IInv
  BY TypeInit, LockInit DEF IInv, Lock
<1> QED
  BY <1>1, Inductive, RegisteredIsOne, PTL DEF Spec

\* An abort finds every driver, after forced cancellations too (_close_run, cancel_run).
THEOREM DriversStayRegistered == Spec => []DriversAreRegistered
<1>1. Init => IInv
  BY TypeInit, LockInit DEF IInv, Lock
<1>2. IInv => DriversAreRegistered
  BY DEF IInv
<1> QED
  BY <1>1, <1>2, Inductive, PTL DEF Spec

-----------------------------------------------------------------------------
(* A driven run is running                                                   *)

\* A client between the row it set to running and the driver it creates: no other
\* client is there for the same run, and that run has no driver.
Engaged(c) ==
  \/ Serving(c, "start", "persist")
  \/ req[c] # None /\ req[c].op = "resume" /\ req[c].step \in {"persist", "publish", "launch"}
EngagedRun ==
  \A c \in Clients : Engaged(c) => row[req[c].run] = "running" /\ driver[req[c].run] = "none"
EngagedOnce ==
  \A c, d \in Clients : c # d /\ Engaged(c) /\ Engaged(d) => req[c].run # req[d].run
NoTimeout == \A r \in Runs : waiter[r] # "timeout"

\* nobody cancels the row of a run whose driver this process does not know
KeptRows == Requests \cap {"orphan", "timeout"} = {}
Rows == DrivenRunIsRunning /\ EngagedRun /\ EngagedOnce /\ NoTimeout

LEMMA RowsInit == Init => Rows
BY DEF Init, Rows, DrivenRunIsRunning, EngagedRun, EngagedOnce, NoTimeout, Engaged, Serving

LEMMA RowsDriver == KeptRows /\ IInv /\ Rows /\ (\E r \in Runs : Drive(r) \/ Ask(r)) => Rows'
<1> SUFFICES ASSUME KeptRows, IInv, Rows, NEW r \in Runs, Drive(r) \/ Ask(r) PROVE Rows'
  OBVIOUS
<1> USE DEF Rows, DrivenRunIsRunning, EngagedRun, EngagedOnce, NoTimeout, Engaged, Serving
<1>0. /\ driver \in [Runs -> Phases] /\ row \in [Runs -> RowStatus]
      /\ waiter \in [Runs -> {"waits", "timeout", "gone"}]
      /\ req \in [Clients -> Request \cup {None}]
      /\ \A c \in Clients : req[c] # None => req[c].run \in Runs
  BY DEF IInv, TypeOK, Request
<1>1. CASE Close(r)
  BY <1>0, <1>1 DEF Close, Advance, Wake
<1>2. CASE CloseCancelled(r)
  BY <1>0, <1>2 DEF CloseCancelled, Advance, Wake
<1>3. CASE Publish(r)
  BY <1>0, <1>3 DEF Publish, Advance, FailAgentRun
<1>4. ASSUME driver[r] \notin {"none", "close"}, UNCHANGED <<row, req, waiter>>,
             NEW phase, driver' = [driver EXCEPT ![r] = phase]
      PROVE Rows'
  BY <1>0, <1>4
<1>5. CASE ~Close(r) /\ ~CloseCancelled(r) /\ ~Publish(r)
  BY <1>4, <1>5 DEF Drive, Ask, EngineEnds, EngineCancelled, AbortPublished, EndWith, Settle,
     Persist, CancelSubagents, CleanupCancelled, Cleanup, Advance
<1> QED
  BY <1>1, <1>2, <1>3, <1>5

LEMMA RowsRequest == KeptRows /\ IInv /\ Rows /\ (\E c \in Clients : Continue(c)) => Rows'
<1> SUFFICES ASSUME KeptRows, IInv, Rows, NEW c \in Clients, Continue(c) PROVE Rows'
  OBVIOUS
<1> USE DEF Rows, DrivenRunIsRunning, EngagedRun, EngagedOnce, NoTimeout, Engaged, Serving
<1>0. /\ driver \in [Runs -> Phases] /\ row \in [Runs -> RowStatus]
      /\ req \in [Clients -> Request \cup {None}]
      /\ \A d \in Clients : req[d] # None => req[d] \in Request /\ req[d].run \in Runs
      /\ \A r \in Runs : driver[r] # "none" => live[Owner[r]] = r
  BY DEF IInv, TypeOK, Request, DriversAreRegistered
<1>1. CASE FinishStart(c)
  BY <1>0, <1>1 DEF FinishStart, Launch, Answered
<1>2. CASE FailStart(c)
  BY <1>0, <1>2 DEF FailStart, FailAgentRun, Answered
<1>3. CASE ForceCancel(c)
  BY <1>0, <1>3 DEF ForceCancel, Serve
<1>4. CASE CancelReturns(c)
  BY <1>0, <1>4 DEF CancelReturns, Answered
<1>5. CASE ResumeRow(c)
  BY <1>0, <1>5 DEF ResumeRow, Serve
<1>6. CASE ResumeConflict(c)
  BY <1>0, <1>6 DEF ResumeConflict, Answered
<1>7. CASE ResumeStep(c)
  BY <1>0, <1>7 DEF ResumeStep, Serve
<1>8. CASE FailResume(c)
  BY <1>0, <1>8 DEF FailResume, FailAgentRun, Answered
<1>9. CASE LaunchResumed(c)
  BY <1>0, <1>9 DEF LaunchResumed, Launch, FailAgentRun, Answered
<1> QED
  BY <1>1, <1>2, <1>3, <1>4, <1>5, <1>6, <1>7, <1>8, <1>9 DEF Continue

LEMMA RowsOther ==
  KeptRows /\ IInv /\ Rows
  /\ (\/ \E r \in Runs : CancelOrphan(r) \/ Overrun(r) \/ GiveUp(r) \/ Sweep(r)
      \/ \E c \in Clients, r \in Runs : BeginStart(c, r) \/ BeginCancel(c, r)
      \/ \E c \in Clients, s \in Sessions : Answer(c, s)
      \/ \E s \in Sessions : AbortIdle(s)
      \/ Crash) => Rows'
<1> SUFFICES ASSUME KeptRows, IInv, Rows,
                    \/ \E r \in Runs : CancelOrphan(r) \/ Overrun(r) \/ GiveUp(r) \/ Sweep(r)
                    \/ \E c \in Clients, r \in Runs : BeginStart(c, r) \/ BeginCancel(c, r)
                    \/ \E c \in Clients, s \in Sessions : Answer(c, s)
                    \/ \E s \in Sessions : AbortIdle(s)
                    \/ Crash
             PROVE Rows'
  OBVIOUS
<1> USE DEF Rows, DrivenRunIsRunning, EngagedRun, EngagedOnce, NoTimeout, Engaged, Serving
<1>0. /\ driver \in [Runs -> Phases] /\ row \in [Runs -> RowStatus]
      /\ req \in [Clients -> Request \cup {None}]
      /\ \A d \in Clients : req[d] # None => req[d] \in Request /\ req[d].run \in Runs
      /\ \A r \in Runs : driver[r] # "none" => live[Owner[r]] = r
  BY DEF IInv, TypeOK, Request, DriversAreRegistered
<1>1. CASE \E r \in Runs : CancelOrphan(r) \/ Overrun(r) \/ GiveUp(r) \/ Sweep(r)
  BY <1>0, <1>1 DEF KeptRows, CancelOrphan, Overrun, GiveUp, Sweep, CancelRow
<1>2. CASE \E c \in Clients, r \in Runs : BeginStart(c, r)
  BY <1>0, <1>2 DEF BeginStart, Serve
<1>3. CASE \E c \in Clients, r \in Runs : BeginCancel(c, r)
  BY <1>0, <1>3 DEF BeginCancel, Serve
<1>4. CASE \E c \in Clients, s \in Sessions : Answer(c, s)
  BY <1>0, <1>4 DEF Answer, Serve
<1>5. CASE \E s \in Sessions : AbortIdle(s)
  BY <1>0, <1>5 DEF AbortIdle, Active
<1>6. CASE Crash
  BY <1>0, <1>6 DEF Crash
<1> QED
  BY <1>1, <1>2, <1>3, <1>4, <1>5, <1>6

LEMMA RowsInductive == KeptRows /\ IInv /\ Rows /\ [Next]_vars => Rows'
<1> SUFFICES ASSUME KeptRows, IInv, Rows, [Next]_vars PROVE Rows'
  OBVIOUS
<1>1. CASE UNCHANGED vars
  BY <1>1 DEF vars, Rows, DrivenRunIsRunning, EngagedRun, EngagedOnce, NoTimeout, Engaged, Serving
<1> QED
  BY <1>1, RowsDriver, RowsRequest, RowsOther DEF Next, SessionNext

\* As long as nobody cancels a row from outside, a run with a driver is running
\* in the table: recovery finds it, and the table refuses other starts.
THEOREM DrivenRunsAreRunning == KeptRows /\ Spec => []DrivenRunIsRunning
<1>1. Init => IInv
  BY TypeInit, LockInit DEF IInv, Lock
<1>2. KeptRows /\ Spec => [](IInv /\ Rows)
  <2>1. SUFFICES ASSUME KeptRows PROVE Spec => [](IInv /\ Rows)
    OBVIOUS
  <2>2. IInv /\ Rows /\ [Next]_vars => (IInv /\ Rows)'
    BY <2>1, Inductive, RowsInductive
  <2> QED
    BY <1>1, <2>2, RowsInit, PTL DEF Spec
<1>3. Rows => DrivenRunIsRunning
  BY DEF Rows
<1> QED
  BY <1>2, <1>3, PTL

-----------------------------------------------------------------------------
(* The table of runs implements SessionRuns                                  *)

OneActive ==
  \A r, q \in Runs : Owner[r] = Owner[q] /\ row[r] \in Table!Active /\ row[q] \in Table!Active
                     => r = q

\* SessionRuns itself keeps one active run per session
LEMMA TableKeepsOne == TypeOK /\ OneActive /\ [Table!Next]_row => OneActive'
<1> SUFFICES ASSUME TypeOK, OneActive, [Table!Next]_row PROVE OneActive'
  OBVIOUS
<1> USE DEF OneActive, Table!Active, TypeOK
<1>1. CASE Table!Restart
  BY <1>1 DEF Table!Restart
<1>2. CASE \E r \in Runs : Table!Start(r)
  BY <1>2 DEF Table!Start
<1>3. CASE \E r \in Runs : Table!Wait(r) \/ Table!Resume(r)
  BY <1>3 DEF Table!Wait, Table!Resume
<1>4. CASE \E r \in Runs, f \in Table!Final : Table!Finish(r, f)
  BY <1>4 DEF Table!Finish, Table!Final
<1>5. CASE row' = row
  BY <1>5
<1> QED
  BY <1>1, <1>2, <1>3, <1>4, <1>5 DEF Table!Next

\* the two ways to end an active run, as steps of the table
LEMMA FailIsFinish ==
  ASSUME TypeOK, NEW r \in Runs, FailAgentRun(r), row[r] # "waiting" PROVE [Table!Next]_row
<1>1. CASE row[r] = "running"
  BY <1>1 DEF FailAgentRun, TypeOK, Table!Next, Table!Finish, Table!Active, Table!Final
<1>2. CASE row[r] # "running"
  BY <1>2 DEF FailAgentRun, TypeOK
<1> QED
  BY <1>1, <1>2

LEMMA CancelIsFinish == ASSUME TypeOK, NEW r \in Runs, CancelRow(r) PROVE [Table!Next]_row
<1>1. CASE row[r] \in {"running", "waiting"}
  BY <1>1 DEF CancelRow, TypeOK, Table!Next, Table!Finish, Table!Active, Table!Final
<1>2. CASE row[r] \notin {"running", "waiting"}
  BY <1>2 DEF CancelRow, TypeOK
<1> QED
  BY <1>1, <1>2

LEMMA TableDriver ==
  KeptRows /\ IInv /\ Rows /\ (\E r \in Runs : Drive(r) \/ Ask(r)) => [Table!Next]_row
<1> SUFFICES ASSUME KeptRows, IInv, Rows, NEW r \in Runs, Drive(r) \/ Ask(r)
             PROVE [Table!Next]_row
  OBVIOUS
<1>0. TypeOK
  BY DEF IInv
<1>1. CASE Publish(r)
  <2>1. row[r] = "running"
    BY <1>1 DEF Publish, Advance, Rows, DrivenRunIsRunning
  <2>2. CASE FailAgentRun(r)
    BY <1>0, <2>1, <2>2, FailIsFinish
  <2>3. CASE row' = [row EXCEPT ![r] = ending[r]]
    <3>1. CASE ending[r] = "waiting"
      BY <2>1, <2>3, <3>1 DEF Table!Next, Table!Wait
    <3>2. CASE ending[r] \in Table!Final
      BY <2>1, <2>3, <3>2 DEF Table!Next, Table!Finish, Table!Active
    <3> QED
      BY <1>0, <3>1, <3>2 DEF TypeOK, Endings, Table!Final
  <2> QED
    BY <1>1, <2>2, <2>3 DEF Publish
<1>2. CASE ~Publish(r)
  BY <1>2 DEF Drive, Ask, EngineEnds, EngineCancelled, AbortPublished, Settle, Persist,
     CancelSubagents, CleanupCancelled, Close, CloseCancelled
<1> QED
  BY <1>1, <1>2

LEMMA TableRequest ==
  KeptRows /\ IInv /\ Rows /\ (\E c \in Clients : Continue(c)) => [Table!Next]_row
<1> SUFFICES ASSUME KeptRows, IInv, Rows, NEW c \in Clients, Continue(c) PROVE [Table!Next]_row
  OBVIOUS
<1>0. TypeOK /\ (req[c] # None => req[c].run \in Runs)
  BY DEF IInv, TypeOK, Request
<1>1. ASSUME Engaged(c), FailAgentRun(req[c].run) PROVE [Table!Next]_row
  BY <1>0, <1>1, FailIsFinish DEF Rows, EngagedRun, Engaged, Serving
<1>2. CASE FailStart(c)
  BY <1>1, <1>2 DEF FailStart, Engaged
<1>3. CASE FailResume(c)
  BY <1>1, <1>3 DEF FailResume, Engaged, Serving
<1>4. CASE LaunchResumed(c)
  BY <1>1, <1>4 DEF LaunchResumed, Engaged, Serving
<1>5. CASE ResumeRow(c)
  BY <1>0, <1>5 DEF ResumeRow, Serving, Table!Next, Table!Resume
<1>6. CASE FinishStart(c) \/ ForceCancel(c) \/ CancelReturns(c) \/ ResumeConflict(c) \/ ResumeStep(c)
  BY <1>6 DEF FinishStart, ForceCancel, CancelReturns, ResumeConflict, ResumeStep
<1> QED
  BY <1>2, <1>3, <1>4, <1>5, <1>6 DEF Continue

LEMMA TableOther ==
  IInv /\ OneActive
  /\ (\/ \E r \in Runs : CancelOrphan(r) \/ Overrun(r) \/ GiveUp(r) \/ Sweep(r)
      \/ \E c \in Clients, r \in Runs : BeginStart(c, r) \/ BeginCancel(c, r)
      \/ \E c \in Clients, s \in Sessions : Answer(c, s)
      \/ \E s \in Sessions : AbortIdle(s)
      \/ Crash) => [Table!Next]_row
<1> SUFFICES ASSUME IInv, OneActive,
                    \/ \E r \in Runs : CancelOrphan(r) \/ Overrun(r) \/ GiveUp(r) \/ Sweep(r)
                    \/ \E c \in Clients, r \in Runs : BeginStart(c, r) \/ BeginCancel(c, r)
                    \/ \E c \in Clients, s \in Sessions : Answer(c, s)
                    \/ \E s \in Sessions : AbortIdle(s)
                    \/ Crash
             PROVE [Table!Next]_row
  OBVIOUS
<1>0. TypeOK
  BY DEF IInv
<1>1. CASE \E r \in Runs : CancelOrphan(r) \/ Overrun(r) \/ GiveUp(r) \/ Sweep(r)
  BY <1>0, <1>1, CancelIsFinish DEF CancelOrphan, Overrun, GiveUp, Sweep
<1>2. CASE \E c \in Clients, r \in Runs : BeginStart(c, r)
  BY <1>0, <1>2 DEF BeginStart, Active, Table!Next, Table!Start, Table!Active
<1>3. CASE \E c \in Clients, r \in Runs : BeginCancel(c, r)
  BY <1>3 DEF BeginCancel
<1>4. CASE \E c \in Clients, s \in Sessions : Answer(c, s)
  BY <1>4 DEF Answer
<1>5. CASE \E s \in Sessions : AbortIdle(s)
  <2>1. PICK s \in Sessions : AbortIdle(s)
    BY <1>5
  <2>2. CASE Active(s) = {}
    BY <1>0, <2>1, <2>2 DEF AbortIdle, TypeOK
  <2>3. CASE Active(s) # {}
    <3>1. PICK r \in Active(s) : TRUE
      BY <2>3
    <3>2. r \in Runs /\ Active(s) = {r} /\ row[r] = "waiting"
      BY <2>1, <3>1 DEF AbortIdle, Active, OneActive, Table!Active
    <3>3. row' = [row EXCEPT ![r] = "cancelled"]
      BY <1>0, <2>1, <3>2 DEF AbortIdle, TypeOK
    <3> QED
      BY <3>2, <3>3 DEF Table!Next, Table!Finish, Table!Active, Table!Final
  <2> QED
    BY <2>2, <2>3
<1>6. CASE Crash
  BY <1>6 DEF Crash, Table!Next, Table!Restart
<1> QED
  BY <1>1, <1>2, <1>3, <1>4, <1>5, <1>6

\* As long as nobody cancels a row from outside, agent_runs implements SessionRuns:
\* one active run per session, and a terminal status is never left.
THEOREM TableImplements == KeptRows /\ Spec => SessionRunsSpec
<1>1. Init => Table!Init /\ OneActive /\ IInv /\ Rows
  BY TypeInit, LockInit, RowsInit DEF Init, Table!Init, OneActive, Table!Active, IInv, Lock
<1>2. KeptRows /\ IInv /\ Rows /\ OneActive /\ [Next]_vars => [Table!Next]_row
  <2> SUFFICES ASSUME KeptRows, IInv, Rows, OneActive, [Next]_vars PROVE [Table!Next]_row
    OBVIOUS
  <2>1. CASE UNCHANGED vars
    BY <2>1 DEF vars
  <2> QED
    BY <2>1, TableDriver, TableRequest, TableOther DEF Next, SessionNext
<1>3. KeptRows /\ IInv /\ Rows /\ OneActive /\ [Next]_vars => (IInv /\ Rows /\ OneActive)'
  BY <1>2, TableKeepsOne, Inductive, RowsInductive DEF IInv
<1> SUFFICES ASSUME KeptRows PROVE Spec => SessionRunsSpec
  OBVIOUS
<1>4. IInv /\ Rows /\ OneActive /\ [Next]_vars => [Table!Next]_row /\ (IInv /\ Rows /\ OneActive)'
  BY <1>2, <1>3
<1> QED
  BY <1>1, <1>4, PTL DEF Spec, SessionRunsSpec, Table!Spec

-----------------------------------------------------------------------------
(* The registry is exact                                                     *)

\* Two reasons why no entry outlives its driver: nobody cancels a driver's task by
\* force, or there is one session, whose lock no client holds while it has a driver.
Unforced == Requests \cap {"force", "timeout"} = {}
Alone == \A s, t \in Sessions : s = t

EntriesAreDriven ==
  \A s \in Sessions : live[s] # None => driver[live[s]] # "none" /\ Owner[live[s]] = s
LockedIsFree ==
  lock # None => /\ req[lock] # None /\ req[lock].step = "persist"
                 /\ req[lock].op \in {"start", "resume"}
                 /\ live[Owner[req[lock].run]] = None
NothingCancelled == Unforced => \A r \in Runs : cancel[r] # "requested"
Registry == EntriesAreDriven /\ LockedIsFree /\ NothingCancelled

LEMMA RegistryInit == Init => Registry
BY DEF Init, Registry, EntriesAreDriven, LockedIsFree, NothingCancelled

LEMMA RegistryTypes ==
  ASSUME TypeOK
  PROVE  /\ driver \in [Runs -> Phases] /\ live \in [Sessions -> Runs \cup {None}]
         /\ req \in [Clients -> Request \cup {None}] /\ lock \in Clients \cup {None}
         /\ cancel \in [Runs -> {"no", "requested", "delivered"}]
         /\ \A c \in Clients : req[c] # None => req[c] \in Request /\ req[c].run \in Runs
BY DEF TypeOK, Request

\* with one session, a client that holds the lock shows that nobody drives a run
LEMMA AloneIsFree ==
  ASSUME Alone, IInv, Registry, lock # None, NEW r \in Runs PROVE driver[r] = "none"
<1>1. Owner[req[lock].run] \in Sessions /\ Owner[r] \in Sessions
  BY RegistryTypes DEF IInv, Registry, LockedIsFree
<1>2. live[Owner[r]] = None
  BY <1>1 DEF Alone, Registry, LockedIsFree
<1> QED
  BY <1>2 DEF IInv, DriversAreRegistered

LEMMA RegistryDriver ==
  (Unforced \/ Alone) /\ IInv /\ Registry /\ (\E r \in Runs : Drive(r) \/ Ask(r)) => Registry'
<1> SUFFICES ASSUME Unforced \/ Alone, IInv, Registry, NEW r \in Runs, Drive(r) \/ Ask(r)
             PROVE Registry'
  OBVIOUS
<1> USE DEF Registry, EntriesAreDriven, LockedIsFree, NothingCancelled
<1>0. /\ driver \in [Runs -> Phases] /\ live \in [Sessions -> Runs \cup {None}]
      /\ req \in [Clients -> Request \cup {None}] /\ lock \in Clients \cup {None}
      /\ cancel \in [Runs -> {"no", "requested", "delivered"}]
      /\ \A c \in Clients : req[c] # None => req[c] \in Request /\ req[c].run \in Runs
      /\ \A q \in Runs : driver[q] # "none" => live[Owner[q]] = q
  BY RegistryTypes DEF IInv, DriversAreRegistered
<1>1. CASE Close(r)
  <2>1. lock' = None /\ UNCHANGED cancel
    BY <1>1 DEF Close
  <2>2. EntriesAreDriven'
    BY <1>0, <1>1 DEF Close, Advance
  <2> QED
    BY <2>1, <2>2
<1>2. CASE CloseCancelled(r)
  <2>1. lock # None /\ cancel[r] = "requested" /\ driver[r] = "close"
    BY <1>2 DEF CloseCancelled, Advance
  <2> QED
    BY <2>1, AloneIsFree
<1>3. ASSUME driver[r] # "none", UNCHANGED <<live, req, lock>>,
             NEW p \in Phases \ {"none"}, driver' = [driver EXCEPT ![r] = p],
             NEW x \in {cancel[r], "delivered"}, cancel' = [cancel EXCEPT ![r] = x]
      PROVE Registry'
  BY <1>0, <1>3
<1>4. cancel = [cancel EXCEPT ![r] = cancel[r]]
  BY <1>0
<1>5. ASSUME ~Close(r), ~CloseCancelled(r)
      PROVE  /\ driver[r] # "none" /\ UNCHANGED <<live, req, lock>>
             /\ \E p \in Phases \ {"none"} : driver' = [driver EXCEPT ![r] = p]
             /\ \E x \in {cancel[r], "delivered"} : cancel' = [cancel EXCEPT ![r] = x]
  <2> USE DEF Advance, EndWith, Phases, Cleanup
  <2>1. CASE Ask(r)
    BY <1>4, <2>1 DEF Ask
  <2>2. CASE EngineEnds(r)
    BY <1>4, <2>2 DEF EngineEnds
  <2>3. CASE EngineCancelled(r) \/ AbortPublished(r)
    BY <1>4, <2>3 DEF EngineCancelled, AbortPublished
  <2>4. CASE Settle(r) \/ Persist(r) \/ CancelSubagents(r)
    BY <1>4, <2>4 DEF Settle, Persist, CancelSubagents
  <2>5. CASE Publish(r) \/ CleanupCancelled(r)
    BY <1>4, <2>5 DEF Publish, CleanupCancelled
  <2> QED
    BY <1>5, <2>1, <2>2, <2>3, <2>4, <2>5 DEF Drive
<1> QED
  BY <1>1, <1>2, <1>3, <1>5

LEMMA RegistryRequest ==
  IInv /\ Registry /\ (\E c \in Clients : Continue(c)) => Registry'
<1> SUFFICES ASSUME IInv, Registry, NEW c \in Clients, Continue(c) PROVE Registry'
  OBVIOUS
<1> USE DEF Registry, EntriesAreDriven, LockedIsFree, NothingCancelled, Serving
<1>0. /\ driver \in [Runs -> Phases] /\ live \in [Sessions -> Runs \cup {None}]
      /\ req \in [Clients -> Request \cup {None}] /\ lock \in Clients \cup {None}
      /\ cancel \in [Runs -> {"no", "requested", "delivered"}]
      /\ \A d \in Clients : req[d] # None => req[d] \in Request /\ req[d].run \in Runs
      /\ \A d \in Clients : req[d] # None /\ req[d].step = "persist" => lock = d
      /\ Serving(c, "start", "persist") => live[Owner[req[c].run]] = None
  BY RegistryTypes DEF IInv, PersistHoldsLock, StartingIsFree
<1>1. ASSUME NEW r \in Runs, Launch(r), live[Owner[r]] = None, lock' = None PROVE Registry'
  BY <1>0, <1>1 DEF Launch
<1>2. CASE FinishStart(c)
  BY <1>0, <1>1, <1>2 DEF FinishStart
<1>3. CASE FailStart(c)
  BY <1>0, <1>3 DEF FailStart
<1>4. CASE ForceCancel(c)
  <2>1. ~Unforced
    BY <1>4 DEF ForceCancel, Unforced
  <2> QED
    BY <1>0, <1>4, <2>1 DEF ForceCancel, Serve
<1>5. CASE CancelReturns(c)
  BY <1>0, <1>5 DEF CancelReturns, Answered
<1>6. CASE ResumeRow(c)
  <2>1. req'[c] = [op |-> "resume", run |-> req[c].run, step |-> "persist"]
    BY <1>0, <1>6 DEF ResumeRow, Serve
  <2>2. lock' = c /\ live[Owner[req[c].run]] = None /\ UNCHANGED <<live, driver, cancel>>
    BY <1>6 DEF ResumeRow
  <2>3. LockedIsFree'
    BY <1>0, <1>6, <2>1, <2>2 DEF Request, ResumeRow
  <2> QED
    BY <2>2, <2>3
<1>7. CASE ResumeConflict(c)
  BY <1>0, <1>7 DEF ResumeConflict, Answered
<1>8. CASE ResumeStep(c)
  BY <1>0, <1>8 DEF ResumeStep, Serve
<1>9. CASE FailResume(c)
  BY <1>0, <1>9 DEF FailResume, Answered
<1>10. CASE LaunchResumed(c)
  BY <1>0, <1>1, <1>10 DEF LaunchResumed
<1> QED
  BY <1>2, <1>3, <1>4, <1>5, <1>6, <1>7, <1>8, <1>9, <1>10 DEF Continue

LEMMA RegistryOther ==
  IInv /\ Registry
  /\ (\/ \E r \in Runs : CancelOrphan(r) \/ Overrun(r) \/ GiveUp(r) \/ Sweep(r)
      \/ \E c \in Clients, r \in Runs : BeginStart(c, r) \/ BeginCancel(c, r)
      \/ \E c \in Clients, s \in Sessions : Answer(c, s)
      \/ \E s \in Sessions : AbortIdle(s)
      \/ Crash) => Registry'
<1> SUFFICES ASSUME IInv, Registry,
                    \/ \E r \in Runs : CancelOrphan(r) \/ Overrun(r) \/ GiveUp(r) \/ Sweep(r)
                    \/ \E c \in Clients, r \in Runs : BeginStart(c, r) \/ BeginCancel(c, r)
                    \/ \E c \in Clients, s \in Sessions : Answer(c, s)
                    \/ \E s \in Sessions : AbortIdle(s)
                    \/ Crash
             PROVE Registry'
  OBVIOUS
<1> USE DEF Registry, EntriesAreDriven, LockedIsFree, NothingCancelled, Serving
<1>0. /\ driver \in [Runs -> Phases] /\ live \in [Sessions -> Runs \cup {None}]
      /\ req \in [Clients -> Request \cup {None}] /\ lock \in Clients \cup {None}
      /\ cancel \in [Runs -> {"no", "requested", "delivered"}]
  BY RegistryTypes DEF IInv
<1>1. CASE \E r \in Runs : CancelOrphan(r) \/ Overrun(r) \/ GiveUp(r) \/ Sweep(r)
  BY <1>0, <1>1 DEF CancelOrphan, Overrun, GiveUp, Sweep, Unforced
<1>2. CASE \E c \in Clients, r \in Runs : BeginStart(c, r)
  <2>1. PICK c \in Clients, r \in Runs : BeginStart(c, r)
    BY <1>2
  <2>2. req'[c] = [op |-> "start", run |-> r, step |-> "persist"]
    BY <1>0, <2>1 DEF BeginStart, Serve
  <2>3. lock' = c /\ live[Owner[r]] = None /\ UNCHANGED <<live, driver, cancel>>
    BY <2>1 DEF BeginStart
  <2>4. req'[lock'] = [op |-> "start", run |-> r, step |-> "persist"] /\ live'[Owner[r]] = None
    BY <2>2, <2>3
  <2>5. LockedIsFree'
    BY <2>4 DEF Request
  <2> QED
    BY <2>3, <2>5
<1>3. CASE \E c \in Clients, r \in Runs : BeginCancel(c, r)
  BY <1>0, <1>3 DEF BeginCancel, Serve
<1>4. CASE \E c \in Clients, s \in Sessions : Answer(c, s)
  BY <1>0, <1>4 DEF Answer, Serve
<1>5. CASE \E s \in Sessions : AbortIdle(s)
  BY <1>5 DEF AbortIdle
<1>6. CASE Crash
  BY <1>0, <1>6 DEF Crash
<1> QED
  BY <1>1, <1>2, <1>3, <1>4, <1>5, <1>6

\* The registry names exactly the runs that have a driver (_session_runs, _close_run), as
\* long as nobody cancels a driver's task by force, or there is one session only: a driver
\* cancelled while it waits for the lock of another session leaves its entry behind.
THEOREM RegistryStaysExact == (Unforced \/ Alone) /\ Spec => []RegistryIsExact
<1> SUFFICES ASSUME Unforced \/ Alone PROVE Spec => []RegistryIsExact
  OBVIOUS
<1>1. Init => IInv /\ Registry
  BY TypeInit, LockInit, RegistryInit DEF IInv, Lock
<1>2. IInv /\ Registry /\ [Next]_vars => (IInv /\ Registry)'
  <2> SUFFICES ASSUME IInv, Registry, [Next]_vars PROVE (IInv /\ Registry)'
    OBVIOUS
  <2>1. IInv'
    BY Inductive
  <2>2. CASE UNCHANGED vars
    BY <2>1, <2>2 DEF vars, Registry, EntriesAreDriven, LockedIsFree, NothingCancelled
  <2>3. CASE Next
    BY <2>1, <2>3, RegistryDriver, RegistryRequest, RegistryOther DEF Next, SessionNext
  <2> QED
    BY <2>2, <2>3
<1>3. IInv /\ Registry => RegistryIsExact
  BY RegistryTypes DEF IInv, Registry, EntriesAreDriven, DriversAreRegistered, RegistryIsExact
<1> QED
  BY <1>1, <1>2, <1>3, PTL DEF Spec


HIDE NoneAssumption
HIDE OwnerAssumption

-----------------------------------------------------------------------------
(* HostCalls *)

Auths == [token : 0..issued, refresh : 0..issued]
HostCallRecords ==
  [at : {"idle", "sent", "performed", "refused", "refreshing", "granted", "done"},
   carried : -1..issued, grant : Auths, tries : 0..2, effects : 0..2,
   result : {"none", "success", "failed", "refused", "unknown", "forbidden"}]
HostTypes ==
  /\ held \in [Callers -> Auths] /\ call \in [Callers -> HostCallRecords]
  /\ accepted \subseteq 1..issued /\ renews \subseteq 1..issued
  /\ issued \in 0..MaxIssued /\ spoiled \subseteq Callers

\* What a call has done at the host, by where it is.
EffectsByStage ==
  \A s \in Callers :
    /\ call[s].at \in {"idle", "sent", "refused", "refreshing", "granted"} =>
         call[s].effects = 0 /\ call[s].result = "none"
    /\ call[s].at = "performed" => call[s].effects = 1 /\ call[s].result = "none"

\* The refresh tokens a session holds, has sent to the host or has got from it.
Reach(s) ==
  {held[s].refresh} \cup (IF call[s].at = "refreshing" THEN {call[s].carried} ELSE {})
                    \cup (IF call[s].at = "granted" THEN {call[s].grant.refresh} ELSE {})

\* No other session reaches what a session that is not spoiled holds, nor what the host
\* has just given to one; and the host renews them.
HeldIsOwn ==
  \A s \in Callers \ spoiled : held[s] # NoAuth =>
    /\ held[s].refresh \in renews \/ (call[s].at = "granted" /\ call[s].grant.refresh # 0)
    /\ \A t \in Callers \ {s} : held[s].refresh \notin Reach(t)
GrantIsOwn ==
  \A s \in Callers : call[s].at = "granted" /\ call[s].grant.refresh # 0 =>
    /\ call[s].grant.refresh \in renews /\ call[s].grant.refresh # held[s].refresh
    /\ \A t \in Callers \ {s} : call[s].grant.refresh \notin Reach(t)
HeldIsWhole == \A s \in Callers : held[s] # NoAuth => held[s].refresh # 0

HostInv == HostTypes /\ EffectsByStage /\ EffectsOnce /\ HeldIsWhole /\ HeldIsOwn /\ GrantIsOwn

\* What the provers need to know of the values of a call.
LEMMA HostCallFields ==
  ASSUME NEW at, NEW carried, NEW grant, NEW tries, NEW effects, NEW result
  PROVE  LET h == HostCall(at, carried, grant, tries, effects, result)
         IN /\ h.at = at /\ h.carried = carried /\ h.grant = grant /\ h.tries = tries
            /\ h.effects = effects /\ h.result = result
BY DEF HostCall

LEMMA HostInitHolds == HostInit => HostInv
BY HelpersAssumption
   DEF HostInit, HostInv, HostTypes, EffectsByStage, EffectsOnce, HeldIsWhole, HeldIsOwn, GrantIsOwn, Reach,
       HostCallRecords, Auths, NoHostCall, NoAuth, HostCall

\* A step that moves one call leaves the others alone.
LEMMA OneCallMoves ==
  ASSUME HostTypes, NEW s \in Callers, NEW at, NEW carried, NEW grant, NEW tries, NEW effects,
         To(s, at, carried, grant, tries, effects)
  PROVE  /\ call'[s] = HostCall(at, carried, grant, tries, effects, "none")
         /\ call'[s].at = at /\ call'[s].carried = carried /\ call'[s].grant = grant
         /\ call'[s].tries = tries /\ call'[s].effects = effects /\ call'[s].result = "none"
         /\ \A t \in Callers \ {s} : call'[t] = call[t]
         /\ DOMAIN call' = Callers /\ call' = [t \in Callers |-> call'[t]]
<1>1. call'[s] = HostCall(at, carried, grant, tries, effects, "none")
  BY DEF HostTypes, To
<1>2. \A t \in Callers \ {s} : call'[t] = call[t]
  BY DEF HostTypes, To
<1>3. DOMAIN call' = Callers /\ call' = [t \in Callers |-> call'[t]]
  BY DEF HostTypes, To
<1>. QED BY <1>1, <1>2, <1>3, HostCallFields

\* The same of a step that ends one.
LEMMA OneCallEnds ==
  ASSUME HostTypes, NEW s \in Callers, NEW result, NEW effects, Ended(s, result, effects)
  PROVE  /\ call'[s] = HostCall("done", 0, NoAuth, 0, effects, result)
         /\ call'[s].at = "done" /\ call'[s].effects = effects /\ call'[s].result = result
         /\ \A t \in Callers \ {s} : call'[t] = call[t]
         /\ DOMAIN call' = Callers /\ call' = [t \in Callers |-> call'[t]]
<1>1. call'[s] = HostCall("done", 0, NoAuth, 0, effects, result)
  BY DEF HostTypes, Ended
<1>2. \A t \in Callers \ {s} : call'[t] = call[t]
  BY DEF HostTypes, Ended
<1>3. DOMAIN call' = Callers /\ call' = [t \in Callers |-> call'[t]]
  BY DEF HostTypes, Ended
<1>. QED BY <1>1, <1>2, <1>3, HostCallFields

\* A call that ends, in whatever way, leaves everything else in order, if what it loses of
\* the host's answer is noted.
LEMMA CallEnds ==
  ASSUME HostInv, NEW s \in Callers, NEW effects \in 0..1,
         NEW result \in {"success", "failed", "refused", "unknown", "forbidden"}, Ended(s, result, effects),
         result = "success" => effects = 1, result \in {"refused", "forbidden"} => effects = 0,
         call[s].at = "granted" => held[s] = NoAuth \/ s \in spoiled',
         UNCHANGED <<held, accepted, renews, issued>>, spoiled' \in {spoiled, spoiled \cup {s}}
  PROVE  HostInv'
<1>1. /\ call' \in [Callers -> HostCallRecords] /\ NoAuth \in Auths
      /\ call'[s].at = "done" /\ call'[s].effects = effects /\ call'[s].result = result
      /\ \A t \in Callers \ {s} : call'[t] = call[t]
  <2>1. 0 \in -1..issued /\ 0 \in 0..issued /\ NoAuth \in Auths
    BY DEF HostInv, HostTypes, NoAuth, Auths
  <2>2. HostTypes
    BY DEF HostInv
  <2>3. /\ call'[s] = HostCall("done", 0, NoAuth, 0, effects, result)
        /\ call'[s].at = "done" /\ call'[s].effects = effects /\ call'[s].result = result
        /\ \A t \in Callers \ {s} : call'[t] = call[t]
        /\ DOMAIN call' = Callers /\ call' = [t \in Callers |-> call'[t]]
    BY <2>2, OneCallEnds
  <2>4. call' \in [Callers -> HostCallRecords]
    BY <2>1, <2>2, <2>3 DEF HostTypes, HostCall, HostCallRecords
  <2>. QED BY <2>1, <2>3, <2>4
<1>2. HostTypes'
  BY <1>1 DEF HostInv, HostTypes, HostCallRecords, Auths
<1>3. EffectsByStage' /\ EffectsOnce'
  BY <1>1 DEF HostInv, EffectsByStage, EffectsOnce
<1>4. HeldIsWhole'
  BY DEF HostInv, HeldIsWhole, NoAuth
<1>5. HeldIsOwn' /\ GrantIsOwn'
  BY <1>1 DEF HostInv, HeldIsOwn, GrantIsOwn, Reach, NoAuth
<1>. QED BY <1>2, <1>3, <1>4, <1>5 DEF HostInv

\* The records of the calls, with one more token of the host.
LEMMA MoreTokens ==
  ASSUME HostTypes, issued' = issued + 1
  PROVE  /\ issued \in Nat /\ 0..issued \subseteq 0..issued' /\ issued' \in 1..issued'
         /\ Auths \subseteq Auths' /\ HostCallRecords \subseteq HostCallRecords'
<1>1. issued \in Nat /\ 0..issued \subseteq 0..issued' /\ -1..issued \subseteq -1..issued' /\ issued' \in 1..issued'
  BY HelpersAssumption DEF HostTypes
<1>2. Auths \subseteq Auths'
  BY <1>1 DEF Auths
<1>. QED BY <1>1, <1>2 DEF HostCallRecords

\* The page, its subagents and the clock.
LEMMA BindingKeepsInv ==
  ASSUME HostInv, NEW s \in Callers, BindAuth(s) \/ BindNothing(s)
  PROVE  HostInv'
<1>1. CASE BindAuth(s)
  <2>1. /\ issued' = issued + 1 /\ issued' \in 1..issued' /\ issued' \notin 0..issued
        /\ Auths \subseteq Auths' /\ HostCallRecords \subseteq HostCallRecords'
        /\ issued' \in 0..MaxIssued /\ issued' # 0 /\ issued \in Nat
    BY <1>1, MoreTokens, HelpersAssumption DEF HostInv, HostTypes, BindAuth
  <2>2. /\ held'[s].token = issued' /\ held'[s].refresh = issued' /\ held' \in [Callers -> Auths']
        /\ \A t \in Callers \ {s} : held'[t] = held[t]
    BY <1>1, <2>1 DEF HostInv, HostTypes, BindAuth, Auths
  <2>3. call' = call /\ renews' = renews \cup {issued'} /\ accepted' = accepted \cup {issued'} /\ spoiled' = spoiled \ {s}
    BY <1>1 DEF BindAuth
  <2>4. HostTypes'
    BY <2>1, <2>2, <2>3 DEF HostInv, HostTypes
  <2>5. EffectsByStage' /\ EffectsOnce'
    BY <2>3 DEF HostInv, EffectsByStage, EffectsOnce
  <2>6. HeldIsWhole'
    BY <2>1, <2>2 DEF HostInv, HeldIsWhole, NoAuth
  <2>7. \A t \in Callers \ {s} : issued' \notin Reach(t)'
    BY <2>1, <2>2, <2>3 DEF HostInv, HostTypes, Reach, Auths, HostCallRecords
  <2>8. HeldIsOwn'
    <3>1. /\ held'[s].refresh \in renews'
          /\ \A t \in Callers \ {s} : held'[s].refresh \notin Reach(t)'
      BY <2>2, <2>3, <2>7
    <3>2. ASSUME NEW t \in (Callers \ spoiled) \ {s}, held[t] # NoAuth, NEW u \in Callers \ {t}
          PROVE  held[t].refresh \notin Reach(u)'
      <4>1. held[t].refresh \notin Reach(u) /\ held[t].refresh # issued'
        BY <2>1, <3>2 DEF HostInv, HeldIsOwn, HostTypes, Auths
      <4>. QED BY <4>1, <2>2, <2>3 DEF Reach
    <3>. QED BY <3>1, <3>2, <2>2, <2>3 DEF HostInv, HeldIsOwn
  <2>9. GrantIsOwn'
    BY <2>1, <2>2, <2>3, <2>7 DEF HostInv, GrantIsOwn, Reach, HostTypes, Auths, HostCallRecords
  <2>. QED BY <2>4, <2>5, <2>6, <2>8, <2>9 DEF HostInv
<1>2. CASE BindNothing(s)
  <2>1. /\ held'[s] = NoAuth /\ NoAuth \in Auths /\ held' \in [Callers -> Auths]
        /\ \A t \in Callers \ {s} : held'[t] = held[t]
    BY <1>2, HelpersAssumption DEF HostInv, HostTypes, BindNothing, Auths, NoAuth
  <2>2. UNCHANGED <<call, renews, accepted, issued>> /\ spoiled' = spoiled \ {s}
    BY <1>2 DEF BindNothing
  <2>3. HostTypes'
    BY <2>1, <2>2 DEF HostInv, HostTypes, Auths, HostCallRecords
  <2>4. EffectsByStage' /\ EffectsOnce' /\ HeldIsWhole'
    BY <2>1, <2>2 DEF HostInv, EffectsByStage, EffectsOnce, HeldIsWhole
  <2>5. HeldIsOwn'
    BY <2>1, <2>2 DEF HostInv, HeldIsOwn, HeldIsWhole, Reach, NoAuth
  <2>6. GrantIsOwn'
    BY <2>1, <2>2 DEF HostInv, GrantIsOwn, Reach, NoAuth
  <2>. QED BY <2>3, <2>4, <2>5, <2>6 DEF HostInv
<1>. QED BY <1>1, <1>2

LEMMA CopyingKeepsInv ==
  ASSUME HostInv, NEW s \in Callers, NEW c \in Callers, CopyAuth(s, c)
  PROVE  HostInv'
<1>1. /\ held'[c] = held[s] /\ held[s] # NoAuth /\ held' \in [Callers -> Auths] /\ c # s
      /\ \A t \in Callers \ {c} : held'[t] = held[t]
  BY HelpersAssumption DEF HostInv, HostTypes, CopyAuth, Auths
<1>2. UNCHANGED <<call, renews, accepted, issued>> /\ spoiled' = spoiled \cup {s, c} /\ call[c].at = "idle"
  BY HostCallFields DEF CopyAuth, NoHostCall
<1>3. HostTypes'
  BY <1>1, <1>2 DEF HostInv, HostTypes, Auths, HostCallRecords
<1>4. EffectsByStage' /\ EffectsOnce' /\ HeldIsWhole'
  BY <1>1, <1>2 DEF HostInv, EffectsByStage, EffectsOnce, HeldIsWhole
<1>5. HeldIsOwn'
  BY <1>1, <1>2 DEF HostInv, HeldIsOwn, Reach, NoAuth
<1>6. GrantIsOwn'
  BY <1>1, <1>2 DEF HostInv, GrantIsOwn, Reach, NoAuth
<1>. QED BY <1>3, <1>4, <1>5, <1>6 DEF HostInv

LEMMA ExpiryKeepsInv ==
  ASSUME HostInv, NEW n, Expire(n)
  PROVE  HostInv'
BY DEF Expire, HostInv, HostTypes, EffectsByStage, EffectsOnce, HeldIsWhole, HeldIsOwn, GrantIsOwn, Reach, Auths, HostCallRecords

\* A call that goes on, without a token of the host's that anybody else could have.
LEMMA CallGoesOn ==
  ASSUME HostInv, NEW s \in Callers, NEW at \in {"sent", "performed", "refused", "refreshing"},
         NEW carried \in -1..issued, NEW grant \in Auths, NEW tries \in 0..2, NEW effects \in 0..1,
         To(s, at, carried, grant, tries, effects), effects = IF at = "performed" THEN 1 ELSE 0,
         call[s].at # "granted", at = "refreshing" => carried = held[s].refresh,
         UNCHANGED <<held, accepted, renews, issued, spoiled>>
  PROVE  HostInv'
<1>1. HostTypes
  BY DEF HostInv
<1>2. /\ call'[s] = HostCall(at, carried, grant, tries, effects, "none")
      /\ call'[s].at = at /\ call'[s].carried = carried /\ call'[s].effects = effects /\ call'[s].result = "none"
      /\ \A t \in Callers \ {s} : call'[t] = call[t]
      /\ DOMAIN call' = Callers /\ call' = [t \in Callers |-> call'[t]]
  BY <1>1, OneCallMoves
<1>3. call' \in [Callers -> HostCallRecords]
  BY <1>1, <1>2 DEF HostTypes, HostCall, HostCallRecords
<1>4. HostTypes'
  BY <1>1, <1>3 DEF HostTypes, HostCallRecords, Auths
<1>5. EffectsByStage' /\ EffectsOnce'
  BY <1>2 DEF HostInv, EffectsByStage, EffectsOnce
<1>6. HeldIsWhole'
  BY DEF HostInv, HeldIsWhole, NoAuth
<1>7. Reach(s)' = {held[s].refresh} /\ \A t \in Callers \ {s} : Reach(t)' = Reach(t)
  BY <1>2 DEF Reach
<1>8. \A t \in Callers : held[t].refresh \in Reach(t) /\ Reach(t)' \subseteq Reach(t)
  BY <1>7 DEF Reach
<1>9. HeldIsOwn'
  BY <1>2, <1>8 DEF HostInv, HeldIsOwn
<1>10. GrantIsOwn'
  BY <1>2, <1>8 DEF HostInv, GrantIsOwn
<1>. QED BY <1>4, <1>5, <1>6, <1>9, <1>10 DEF HostInv

\* What a session holds, and what its call is.
LEMMA HostFacts ==
  ASSUME HostInv, NEW s \in Callers
  PROVE  /\ held[s] \in Auths /\ held[s].token \in 0..issued /\ held[s].refresh \in 0..issued
         /\ call[s].grant \in Auths /\ call[s].tries \in 0..2 /\ call[s].effects \in 0..1
         /\ call[s].carried \in -1..issued /\ NoAuth \in Auths /\ 0 \in -1..issued /\ -1 \in -1..issued
         /\ call[s].at \in {"idle", "sent", "refused", "refreshing", "granted"} => call[s].effects = 0
         /\ call[s].at = "performed" => call[s].effects = 1
<1>1. held[s] \in Auths /\ call[s] \in HostCallRecords /\ issued \in Nat
  BY HelpersAssumption DEF HostInv, HostTypes
<1>2. call[s].effects <= 1
  BY DEF HostInv, EffectsOnce
<1>. QED BY <1>1, <1>2 DEF HostInv, EffectsByStage, HostCallRecords, Auths, NoAuth

LEMMA CallsKeepInv ==
  ASSUME HostInv, NEW s \in Callers,
         \/ \E b \in BOOLEAN : CallHost(s, b)
         \/ HostPerforms(s) \/ HostAnswers(s) \/ HostFails(s) \/ HostRefuses(s) \/ AskRefresh(s)
         \/ HostDenies(s) \/ RefreshLost(s) \/ GiveUpCall(s)
  PROVE  HostInv'
<1>1. ASSUME NEW b \in BOOLEAN, CallHost(s, b) PROVE HostInv'
  <2>1. CASE Ended(s, "forbidden", 0)
    BY <1>1, <2>1, CallEnds DEF CallHost
  <2>2. CASE To(s, "sent", IF b THEN held[s].token ELSE -1, NoAuth, 1, 0)
    <3>1. (IF b THEN held[s].token ELSE -1) \in -1..issued
      BY HostFacts DEF HostInv
    <3>. QED BY <1>1, <2>2, <3>1, HostFacts, CallGoesOn DEF CallHost
  <2>. QED BY <1>1, <2>1, <2>2 DEF CallHost
<1>2. CASE HostPerforms(s)
  <2>1. call[s].effects + 1 = 1
    BY <1>2, HostFacts DEF HostPerforms
  <2>. QED BY <1>2, <2>1, HostFacts, CallGoesOn DEF HostPerforms
<1>3. CASE HostAnswers(s)
  BY <1>3, HostFacts, CallEnds DEF HostAnswers, Done
<1>4. CASE HostFails(s)
  BY <1>4, HostFacts, CallEnds DEF HostFails, Done, IsRefused
<1>5. CASE HostRefuses(s)
  <2>1. CASE Done(s, "refused")
    BY <1>5, <2>1, HostFacts, CallEnds DEF HostRefuses, Done
  <2>2. CASE To(s, "refused", 0, call[s].grant, call[s].tries, call[s].effects)
    BY <1>5, <2>2, HostFacts, CallGoesOn DEF HostRefuses
  <2>. QED BY <1>5, <2>1, <2>2 DEF HostRefuses
<1>6. CASE AskRefresh(s)
  <2>1. CASE Done(s, "refused")
    BY <1>6, <2>1, HostFacts, CallEnds DEF AskRefresh, Done
  <2>2. CASE To(s, "refreshing", held[s].refresh, call[s].grant, call[s].tries, call[s].effects)
    <3>1. held[s].refresh \in -1..issued
      BY HostFacts
    <3>. QED BY <1>6, <2>2, <3>1, HostFacts, CallGoesOn DEF AskRefresh
  <2>. QED BY <1>6, <2>1, <2>2 DEF AskRefresh
<1>7. CASE HostDenies(s)
  BY <1>7, HostFacts, CallEnds DEF HostDenies, Done
<1>8. CASE RefreshLost(s)
  BY <1>8, HostFacts, CallEnds DEF RefreshLost, Done
<1>9. CASE GiveUpCall(s)
  <2>1. PICK late \in {0, IF call[s].at = "sent" /\ call[s].carried \in accepted \cup {-1} THEN 1 ELSE 0} :
          Ended(s, "unknown", call[s].effects + late)
    BY <1>9 DEF GiveUpCall
  <2>2. call[s].effects + late \in 0..1
    BY <2>1, HostFacts
  <2>. QED BY <1>9, <2>1, <2>2, CallEnds DEF GiveUpCall
<1>. QED BY <1>1, <1>2, <1>3, <1>4, <1>5, <1>6, <1>7, <1>8, <1>9

\* A new token, and with rotation a new refresh token in place of the one that was sent:
\* no other session could have used that one.
LEMMA GrantKeepsInv ==
  ASSUME HostInv, NEW s \in Callers, NEW rotates \in BOOLEAN, HostGrants(s, rotates)
  PROVE  HostInv'
<1> DEFINE fresh == IF rotates THEN issued' ELSE 0
           grant == [token |-> issued', refresh |-> fresh]
<1>1. /\ HostTypes /\ To(s, "granted", call[s].carried, grant, call[s].tries, call[s].effects)
      /\ issued' = issued + 1 /\ UNCHANGED <<held, spoiled>> /\ accepted' = accepted \cup {issued'}
      /\ call[s].at = "refreshing" /\ issued < MaxIssued
      /\ rotates => issued' \in renews'
      /\ ~rotates => renews' = renews
      /\ renews' \subseteq renews \cup {issued'} /\ renews \ {call[s].carried} \subseteq renews'
  BY DEF HostGrants, HostInv
<1>2. /\ issued \in Nat /\ 0..issued \subseteq 0..issued' /\ issued' \in 1..issued'
      /\ Auths \subseteq Auths' /\ HostCallRecords \subseteq HostCallRecords' /\ issued' \in 0..MaxIssued
      /\ issued' \notin 0..issued /\ issued' # 0
  BY <1>1, MoreTokens, HelpersAssumption DEF HostTypes
<1>3. /\ call'[s] = HostCall("granted", call[s].carried, grant, call[s].tries, call[s].effects, "none")
      /\ call'[s].at = "granted" /\ call'[s].grant = grant /\ call'[s].grant.refresh = fresh
      /\ call'[s].effects = call[s].effects /\ call'[s].result = "none"
      /\ \A t \in Callers \ {s} : call'[t] = call[t]
      /\ DOMAIN call' = Callers /\ call' = [t \in Callers |-> call'[t]]
  <2>. HIDE DEF fresh, grant
  <2>1. grant.refresh = fresh
    BY DEF grant
  <2>. QED BY <1>1, <2>1, OneCallMoves
<1>4. call' \in [Callers -> HostCallRecords']
  <2>1. grant \in Auths'
    BY <1>2 DEF Auths
  <2>2. call[s] \in HostCallRecords'
    BY <1>1, <1>2 DEF HostTypes
  <2>3. call'[s] \in HostCallRecords'
    <3>. HIDE DEF grant
    <3>. QED BY <1>3, <2>1, <2>2 DEF HostCallRecords, HostCall
  <2>4. \A t \in Callers : call'[t] \in HostCallRecords'
    BY <1>1, <1>2, <1>3, <2>3 DEF HostTypes
  <2>. QED BY <1>3, <2>4
<1>5. HostTypes'
  <2>1. 1..issued \subseteq 1..issued' /\ renews \subseteq 1..issued /\ accepted \subseteq 1..issued
    BY <1>1, <1>2 DEF HostTypes
  <2>2. renews' \subseteq 1..issued' /\ accepted' \subseteq 1..issued'
    BY <1>1, <1>2, <2>1
  <2>. QED BY <1>1, <1>2, <1>4, <2>2 DEF HostTypes
<1>6. EffectsByStage' /\ EffectsOnce'
  BY <1>1, <1>3, HostFacts DEF HostInv, EffectsByStage, EffectsOnce
<1>7. HeldIsWhole'
  BY <1>1 DEF HostInv, HeldIsWhole, NoAuth
<1>8. /\ Reach(s)' = {held[s].refresh, fresh} /\ Reach(s) = {held[s].refresh, call[s].carried}
      /\ \A t \in Callers \ {s} : Reach(t)' = Reach(t)
  BY <1>1, <1>3 DEF Reach
<1>9. /\ \A t \in Callers : Reach(t) \subseteq -1..issued /\ held[t].refresh \in 0..issued
      /\ issued' \notin -1..issued
  BY <1>1, <1>2 DEF HostTypes, Auths, HostCallRecords, Reach
<1>10. HeldIsOwn'
  <2> SUFFICES ASSUME NEW t \in Callers \ spoiled, held[t] # NoAuth
               PROVE  /\ held[t].refresh \in renews' \/ (call'[t].at = "granted" /\ call'[t].grant.refresh # 0)
                      /\ \A u \in Callers \ {t} : held[t].refresh \notin Reach(u)'
    BY <1>1 DEF HeldIsOwn
  <2>1. /\ held[t].refresh \in renews \/ (call[t].at = "granted" /\ call[t].grant.refresh # 0)
        /\ \A u \in Callers \ {t} : held[t].refresh \notin Reach(u)
        /\ held[t].refresh # 0
    BY DEF HostInv, HeldIsOwn, HeldIsWhole
  <2>2. \A u \in Callers \ {t} : held[t].refresh \notin Reach(u)'
    BY <2>1, <1>8, <1>9
  <2>3. CASE t = s
    <3>1. call[t].at # "granted" /\ held[t].refresh \in renews
      BY <2>1, <2>3, <1>1
    <3>2. CASE rotates
      BY <3>2, <2>2, <2>3, <1>2, <1>3
    <3>3. CASE ~rotates
      BY <3>3, <2>2, <3>1, <1>1
    <3>. QED BY <3>2, <3>3
  <2>4. CASE t # s
    <3>1. s \in Callers \ {t} /\ call[s].carried \in Reach(s) /\ call'[t] = call[t]
      BY <2>4, <1>3, <1>8
    <3>2. held[t].refresh # call[s].carried
      BY <2>1, <3>1
    <3>3. held[t].refresh \in renews => held[t].refresh \in renews'
      BY <3>2, <1>1
    <3>. QED BY <2>1, <2>2, <3>1, <3>3
  <2>. QED BY <2>2, <2>3, <2>4
<1>11. GrantIsOwn'
  <2> SUFFICES ASSUME NEW t \in Callers, call'[t].at = "granted", call'[t].grant.refresh # 0
               PROVE  /\ call'[t].grant.refresh \in renews' /\ call'[t].grant.refresh # held[t].refresh
                      /\ \A u \in Callers \ {t} : call'[t].grant.refresh \notin Reach(u)'
    BY <1>1 DEF GrantIsOwn
  <2>1. CASE t = s
    BY SMTT(60), <2>1, <1>2, <1>3, <1>8, <1>9 DEF HostGrants
  <2>2. CASE t # s
    <3>1. /\ call[t].grant.refresh \in renews /\ call[t].grant.refresh # held[t].refresh
          /\ \A u \in Callers \ {t} : call[t].grant.refresh \notin Reach(u)
          /\ call'[t] = call[t] /\ call[t].grant.refresh \in 0..issued
      BY <2>2, <1>1, <1>3 DEF HostInv, GrantIsOwn, HostTypes, HostCallRecords, Auths
    <3>. QED BY <2>2, <3>1, <1>2, <1>8 DEF HostGrants
  <2>. QED BY <2>1, <2>2
<1>. QED BY <1>5, <1>6, <1>7, <1>10, <1>11 DEF HostInv

\* The answer of the host goes to the session that asked, which from then on holds what
\* the host gave it.
LEMMA RepeatKeepsInv ==
  ASSUME HostInv, NEW s \in Callers, RepeatCall(s)
  PROVE  HostInv'
<1>1. CASE held[s] = NoAuth
  BY <1>1, HostFacts, CallEnds DEF RepeatCall, Done
<1>2. CASE held[s] # NoAuth
  <2> DEFINE new == Granted(held[s], call[s].grant)
             old == call[s].grant
  <2>1. /\ HostTypes /\ UNCHANGED <<accepted, renews, issued>> /\ call[s].at = "granted"
        /\ held' = [held EXCEPT ![s] = new] /\ To(s, "sent", new.token, old, 2, call[s].effects)
        /\ spoiled' = IF old.refresh = 0 THEN spoiled ELSE spoiled \ {s}
    BY <1>2 DEF RepeatCall, HostInv
  <2>2. /\ new \in Auths /\ old \in Auths /\ new.token \in 0..issued
        /\ new.refresh = IF old.refresh = 0 THEN held[s].refresh ELSE old.refresh
    BY HostFacts DEF Auths, Granted
  <2>. HIDE DEF new, old
  <2>3. /\ call'[s] = HostCall("sent", new.token, old, 2, call[s].effects, "none")
        /\ call'[s].at = "sent" /\ call'[s].effects = call[s].effects /\ call'[s].result = "none"
        /\ \A t \in Callers \ {s} : call'[t] = call[t]
        /\ DOMAIN call' = Callers /\ call' = [t \in Callers |-> call'[t]]
    BY <2>1, OneCallMoves
  <2>4. call' \in [Callers -> HostCallRecords]
    <3>1. 0..issued \subseteq -1..issued
      BY HelpersAssumption DEF HostInv, HostTypes
    <3>2. new.token \in -1..issued /\ call[s].effects \in 0..2
      BY <2>2, <3>1, HostFacts
    <3>3. HostCall("sent", new.token, old, 2, call[s].effects, "none") \in HostCallRecords
      BY <2>2, <3>2 DEF HostCall, HostCallRecords
    <3>4. \A t \in Callers : call'[t] \in HostCallRecords
      BY <2>1, <2>3, <3>3 DEF HostTypes
    <3>. QED BY <2>3, <3>4
  <2>5. /\ held'[s] = new /\ held' \in [Callers -> Auths]
        /\ \A t \in Callers \ {s} : held'[t] = held[t]
    BY <2>1, <2>2 DEF HostTypes
  <2>6. HostTypes'
    BY <2>1, <2>4, <2>5 DEF HostTypes, HostCallRecords, Auths
  <2>7. EffectsByStage' /\ EffectsOnce'
    BY <2>1, <2>3, HostFacts DEF HostInv, EffectsByStage, EffectsOnce
  <2>8. HeldIsWhole'
    BY <1>2, <2>2, <2>5 DEF HostInv, HeldIsWhole, NoAuth
  <2>9. /\ Reach(s)' = {new.refresh} /\ Reach(s) = {held[s].refresh, old.refresh}
        /\ \A t \in Callers \ {s} : Reach(t)' = Reach(t)
    BY <2>1, <2>3, <2>5 DEF Reach, old
  <2>10. \A t \in Callers : Reach(t)' \subseteq Reach(t)
    BY <2>2, <2>9
  <2>11. HeldIsOwn'
    <3> SUFFICES ASSUME NEW t \in Callers \ spoiled', held'[t] # NoAuth
                 PROVE  /\ held'[t].refresh \in renews \/ (call'[t].at = "granted" /\ call'[t].grant.refresh # 0)
                        /\ \A u \in Callers \ {t} : held'[t].refresh \notin Reach(u)'
      BY <2>1 DEF HeldIsOwn
    <3>1. CASE t # s
      BY <3>1, <2>1, <2>3, <2>5, <2>10 DEF HostInv, HeldIsOwn
    <3>2. CASE t = s /\ old.refresh = 0
      BY <3>2, <1>2, <2>1, <2>2, <2>5, <2>10 DEF HostInv, HeldIsOwn, old
    <3>3. CASE t = s /\ old.refresh # 0
      BY <3>3, <2>1, <2>2, <2>5, <2>10 DEF HostInv, GrantIsOwn, old
    <3>. QED BY <3>1, <3>2, <3>3
  <2>12. GrantIsOwn'
    BY <2>1, <2>3, <2>5, <2>10 DEF HostInv, GrantIsOwn
  <2>. QED BY <2>6, <2>7, <2>8, <2>11, <2>12 DEF HostInv
<1>. QED BY <1>1, <1>2

LEMMA HostStepHolds == HostInv /\ [HostNext]_hostVars => HostInv'
<1> SUFFICES ASSUME HostInv, [HostNext]_hostVars PROVE HostInv'
  OBVIOUS
<1>1. ASSUME NEW s \in Callers, NEW b \in BOOLEAN, HostGrants(s, b) PROVE HostInv'
  BY <1>1, GrantKeepsInv
<1>2. CASE UNCHANGED hostVars
  BY <1>2 DEF hostVars, HostInv, HostTypes, EffectsByStage, EffectsOnce, HeldIsWhole, HeldIsOwn, GrantIsOwn, Reach,
              Auths, HostCallRecords
<1>. QED BY <1>1, <1>2, BindingKeepsInv, CopyingKeepsInv, ExpiryKeepsInv, CallsKeepInv, RepeatKeepsInv DEF HostNext

LEMMA HostInvIsEnough == HostInv => HostTypeOK /\ HostCallsAreSound
<1> SUFFICES ASSUME HostInv PROVE HostTypeOK /\ HostCallsAreSound
  OBVIOUS
<1>1. HostTypeOK
  BY DEF HostInv, HostTypes, HostTypeOK, HostCallRecords, Auths
<1>2. StillRefreshable
  BY DEF HostInv, HeldIsOwn, StillRefreshable
<1>. QED BY <1>1, <1>2 DEF HostInv, HostCallsAreSound

-----------------------------------------------------------------------------
(* ShellCalls *)

Pairs == ShellIds \X Streams
ShellRecords == [status : {"none", "running"}, preview : Seq(Streams)]
Deltas == [stream : Streams, seq : Nat]
ShellTypes ==
  /\ shell \in [ShellIds -> {"new", "running", "aborted", "failed", "done", "broken", "lost"}]
  /\ records \in [ShellIds -> ShellRecords] /\ saved \in [ShellIds -> ShellRecords]
  /\ past \in [ShellIds -> Seq([status : {"completed", "failed", "aborted"}, preview : Seq(Streams)])]
  /\ logs \in [ShellIds -> Seq(Streams)]
  /\ reader \in [Pairs -> [at : {"read", "wait", "write", "wrote", "done"}, copy : ShellRecords]]
  /\ chunks \in [ShellIds -> 0..MaxChunks] /\ numbers \in [ShellIds -> Nat]
  /\ deltas \in [ShellIds -> Seq(Deltas)]

\* The lock of append_output: one reader at a time, of all the calls, and what it copied
\* is what the record still is.
OneAppends == \A r, q \in Pairs : r \in Appending /\ q \in Appending => r = q
CopyIsFresh == \A r \in Pairs : reader[r].at \in {"write", "wrote"} => reader[r].copy = records[r[1]]

\* Only a call that runs or that broke has readers that go on.
ReadersFollow ==
  \A r \in Pairs :
    /\ shell[r[1]] \in {"new", "done", "lost"} => reader[r].at = "done"
    /\ shell[r[1]] \in {"aborted", "failed"} => reader[r].at \in {"write", "done"}

RecordFollows ==
  \A c \in ShellIds : shell[c] \in {"running", "aborted", "failed", "broken"} =>
    records[c].preview = StreamsOf(deltas[c]) /\ numbers[c] = Len(deltas[c])

\* The log is what was handed on, and at most one chunk more.
LogFollows ==
  \A c \in ShellIds :
    /\ shell[c] = "new" => deltas[c] = << >>
    /\ shell[c] \in {"running", "broken"} /\ (\A s \in Streams : reader[<<c, s>>].at # "wrote") =>
         logs[c] = StreamsOf(deltas[c])
    /\ \A s \in Streams :
         /\ reader[<<c, s>>].at = "write" => logs[c] = StreamsOf(deltas[c])
         /\ reader[<<c, s>>].at = "wrote" => logs[c] = Append(StreamsOf(deltas[c]), s)
    /\ logs[c] = StreamsOf(deltas[c]) \/ \E s \in Streams : logs[c] = Append(StreamsOf(deltas[c]), s)
DeltasAreNumbered == \A c \in ShellIds : \A i \in DOMAIN deltas[c] : deltas[c][i].seq = i

PastFollows ==
  \A c \in ShellIds :
    /\ shell[c] # "done" => past[c] = << >>
    /\ shell[c] = "done" => /\ records[c] = NoRecord /\ saved[c] = NoRecord
                            /\ Len(past[c]) = 1 /\ past[c][1].preview = StreamsOf(deltas[c])

ShellInv ==
  /\ ShellTypes /\ OneAppends /\ CopyIsFresh /\ ReadersFollow
  /\ RecordFollows /\ LogFollows /\ DeltasAreNumbered /\ PastFollows

LEMMA StreamsOfSequences ==
  ASSUME NEW ds \in Seq(Deltas)
  PROVE  /\ StreamsOf(ds) \in Seq(Streams) /\ Len(StreamsOf(ds)) = Len(ds)
         /\ \A i \in 1..Len(ds) : StreamsOf(ds)[i] = ds[i].stream
<1>1. StreamsOf(ds) = [i \in 1..Len(ds) |-> ds[i].stream]
  BY DEF StreamsOf
<1>2. \A i \in 1..Len(ds) : ds[i].stream \in Streams
  <2>1. \A i \in 1..Len(ds) : ds[i] \in Deltas
    OBVIOUS
  <2>. QED BY <2>1 DEF Deltas
<1>. QED BY <1>1, <1>2

LEMMA StreamsOfMore ==
  ASSUME NEW ds \in Seq(Deltas), NEW s \in Streams, NEW n \in Nat
  PROVE  StreamsOf(Append(ds, [stream |-> s, seq |-> n])) = Append(StreamsOf(ds), s)
<1> DEFINE d == [stream |-> s, seq |-> n]
<1>1. d \in Deltas /\ d.stream = s
  BY DEF Deltas
<1>. HIDE DEF d
<1>2. Append(ds, d) \in Seq(Deltas) /\ Len(Append(ds, d)) = Len(ds) + 1
  BY <1>1
<1>3. /\ StreamsOf(Append(ds, d)) \in Seq(Streams) /\ Len(StreamsOf(Append(ds, d))) = Len(ds) + 1
      /\ StreamsOf(ds) \in Seq(Streams) /\ Len(StreamsOf(ds)) = Len(ds)
  BY <1>2, StreamsOfSequences
<1>4. Append(StreamsOf(ds), s) \in Seq(Streams) /\ Len(Append(StreamsOf(ds), s)) = Len(ds) + 1
  BY <1>3
<1>5. ASSUME NEW i \in 1..(Len(ds) + 1)
      PROVE  StreamsOf(Append(ds, d))[i] = Append(StreamsOf(ds), s)[i]
  <2>1. StreamsOf(Append(ds, d))[i] = Append(ds, d)[i].stream
    BY <1>2, StreamsOfSequences
  <2>2. CASE i = Len(ds) + 1
    BY <2>1, <2>2, <1>1, <1>3
  <2>3. CASE i \in 1..Len(ds)
    BY <2>1, <2>3, <1>1, <1>3, StreamsOfSequences
  <2>4. Len(ds) \in Nat
    OBVIOUS
  <2>5. i = Len(ds) + 1 \/ i \in 1..Len(ds)
    BY <2>4
  <2>. QED BY <2>2, <2>3, <2>5
<1>6. StreamsOf(Append(ds, d)) = Append(StreamsOf(ds), s)
  BY <1>3, <1>4, <1>5
<1>. QED BY <1>6 DEF d

LEMMA ShellInitHolds == ShellInit => ShellInv
<1> SUFFICES ASSUME ShellInit PROVE ShellInv
  OBVIOUS
<1>1. NoRecord \in ShellRecords /\ StreamsOf(<< >>) = << >> /\ AtRest.at = "done" /\ AtRest.copy = NoRecord
  BY DEF ShellRecords, NoRecord, Record, StreamsOf, AtRest, Reader
<1>2. ShellTypes
  BY <1>1, ChunksAssumption DEF ShellInit, ShellTypes, Pairs, Deltas, AtRest, Reader
<1>3. OneAppends /\ CopyIsFresh /\ ReadersFollow
  BY <1>1 DEF ShellInit, OneAppends, CopyIsFresh, ReadersFollow, Appending, Pairs
<1>4. RecordFollows /\ LogFollows /\ DeltasAreNumbered /\ PastFollows
  BY <1>1 DEF ShellInit, RecordFollows, LogFollows, DeltasAreNumbered, PastFollows, Streams
<1>. QED BY <1>2, <1>3, <1>4 DEF ShellInv

\* A reader that goes on leaves the others alone.
LEMMA OneReaderGoes ==
  ASSUME ShellTypes, NEW c \in ShellIds, NEW s \in Streams, NEW at \in {"read", "wait", "write", "wrote", "done"},
         Goes(c, s, at)
  PROVE  /\ reader'[<<c, s>>].at = at /\ reader'[<<c, s>>].copy = reader[<<c, s>>].copy
         /\ \A r \in Pairs \ {<<c, s>>} : reader'[r] = reader[r]
         /\ reader' \in [Pairs -> [at : {"read", "wait", "write", "wrote", "done"}, copy : ShellRecords]]
         /\ <<c, s>> \in Pairs
<1>1. <<c, s>> \in Pairs /\ reader[<<c, s>>].copy \in ShellRecords
  BY DEF ShellTypes, Pairs
<1>2. Reader(at, reader[<<c, s>>].copy) \in [at : {"read", "wait", "write", "wrote", "done"}, copy : ShellRecords]
  BY <1>1 DEF Reader
<1>3. reader'[<<c, s>>] = Reader(at, reader[<<c, s>>].copy) /\ \A r \in Pairs \ {<<c, s>>} : reader'[r] = reader[r]
  BY <1>1 DEF Goes, ShellTypes
<1>4. reader' \in [Pairs -> [at : {"read", "wait", "write", "wrote", "done"}, copy : ShellRecords]]
  BY <1>1, <1>2 DEF Goes, ShellTypes
<1>. QED BY <1>1, <1>3, <1>4 DEF Reader

LEMMA PairsAre == \A r \in Pairs : r[1] \in ShellIds /\ r[2] \in Streams /\ r = <<r[1], r[2]>>
BY DEF Pairs

\* The readers: from a chunk to the event, under the lock of append_output.
LEMMA ReadingKeepsInv ==
  ASSUME ShellInv, NEW c \in ShellIds, NEW s \in Streams, ReadChunk(c, s) \/ ReadEnd(c, s)
  PROVE  ShellInv'
<1> DEFINE r0 == <<c, s>>
<1>1. /\ ShellTypes /\ UNCHANGED <<shell, records, past, saved, logs, numbers, deltas>>
      /\ shell[c] \in {"running", "broken"} /\ reader[r0].at = "read"
      /\ r0 \in Pairs /\ r0[1] = c /\ r0[2] = s
  BY DEF ShellInv, ReadChunk, ReadEnd, Pairs
<1>2. /\ reader'[r0].at \in {"wait", "done"} /\ \A r \in Pairs \ {r0} : reader'[r] = reader[r]
      /\ reader' \in [Pairs -> [at : {"read", "wait", "write", "wrote", "done"}, copy : ShellRecords]]
  BY <1>1, OneReaderGoes DEF ReadChunk, ReadEnd
<1>3. ShellTypes'
  <2>1. chunks' \in [ShellIds -> 0..MaxChunks]
    <3>1. CASE ReadChunk(c, s)
      <4>1. chunks[c] + 1 \in 0..MaxChunks
        BY <1>1, <3>1, ChunksAssumption DEF ShellTypes, ReadChunk
      <4>. QED BY <1>1, <3>1, <4>1 DEF ShellTypes, ReadChunk
    <3>2. CASE ReadEnd(c, s)
      BY <1>1, <3>2 DEF ShellTypes, ReadEnd
    <3>. QED BY <3>1, <3>2
  <2>. QED BY <1>1, <1>2, <2>1 DEF ShellTypes
<1>4. OneAppends' /\ CopyIsFresh'
  BY <1>1, <1>2 DEF ShellInv, OneAppends, CopyIsFresh, Appending, Pairs
<1>5. ReadersFollow'
  BY <1>1, <1>2 DEF ShellInv, ReadersFollow
<1>6. \A d \in ShellIds, t \in Streams : reader[<<d, t>>].at \in {"write", "wrote"} <=> reader'[<<d, t>>].at \in {"write", "wrote"}
  BY <1>1, <1>2 DEF Pairs
<1>7. \A d \in ShellIds, t \in Streams : reader[<<d, t>>].at \in {"write", "wrote"} => reader'[<<d, t>>].at = reader[<<d, t>>].at
  BY <1>1, <1>2 DEF Pairs
<1>8. RecordFollows' /\ DeltasAreNumbered' /\ PastFollows'
  BY <1>1 DEF ShellInv, RecordFollows, DeltasAreNumbered, PastFollows
<1>9. LogFollows'
  BY <1>1, <1>6, <1>7 DEF ShellInv, LogFollows
<1>. QED BY <1>3, <1>4, <1>5, <1>8, <1>9 DEF ShellInv

LEMMA EnteringKeepsInv ==
  ASSUME ShellInv, NEW c \in ShellIds, NEW s \in Streams, EnterAppend(c, s)
  PROVE  ShellInv'
<1> DEFINE r0 == <<c, s>>
<1>1. /\ ShellTypes /\ UNCHANGED <<shell, records, past, saved, logs, chunks, numbers, deltas>>
      /\ shell[c] \in {"running", "broken"} /\ reader[r0].at = "wait" /\ Appending = {}
      /\ r0 \in Pairs /\ r0[1] = c /\ r0[2] = s
  BY DEF ShellInv, EnterAppend, MayAppend, Pairs
<1>2. /\ reader'[r0] = Reader("write", records[c]) /\ \A r \in Pairs \ {r0} : reader'[r] = reader[r]
      /\ reader'[r0].at = "write" /\ reader'[r0].copy = records[c]
      /\ reader' \in [Pairs -> [at : {"read", "wait", "write", "wrote", "done"}, copy : ShellRecords]]
  BY <1>1 DEF EnterAppend, ShellTypes, Reader
<1>3. ShellTypes'
  BY <1>1, <1>2 DEF ShellTypes
<1>4. \A r \in Pairs : reader[r].at \notin {"write", "wrote"}
  BY <1>1 DEF Appending, Pairs
<1>5. OneAppends' /\ CopyIsFresh'
  BY <1>1, <1>2, <1>4 DEF OneAppends, CopyIsFresh, Appending, Pairs
<1>6. ReadersFollow'
  BY <1>1, <1>2 DEF ShellInv, ReadersFollow
<1>7. RecordFollows' /\ DeltasAreNumbered' /\ PastFollows'
  BY <1>1 DEF ShellInv, RecordFollows, DeltasAreNumbered, PastFollows
<1>8. \A d \in ShellIds, t \in Streams :
        /\ reader[<<d, t>>].at # "wrote" /\ reader'[<<d, t>>].at # "wrote"
        /\ reader'[<<d, t>>].at = "write" => d = c
  <2> TAKE d \in ShellIds, t \in Streams
  <2>1. <<d, t>> \in Pairs /\ (<<d, t>> = r0 => d = c)
    BY DEF Pairs
  <2>2. reader[<<d, t>>].at \notin {"write", "wrote"}
    BY <1>4, <2>1
  <2>3. CASE <<d, t>> = r0
    BY <1>2, <2>1, <2>2, <2>3
  <2>4. CASE <<d, t>> # r0
    <3>1. reader'[<<d, t>>] = reader[<<d, t>>]
      BY <1>2, <2>1, <2>4
    <3> QED BY <2>2, <3>1
  <2> QED BY <2>3, <2>4
<1>9. logs[c] = StreamsOf(deltas[c])
  BY <1>1, <1>8 DEF ShellInv, LogFollows
<1>10. LogFollows'
  BY <1>1, <1>8, <1>9 DEF ShellInv, LogFollows
<1>. QED BY <1>3, <1>5, <1>6, <1>7, <1>10 DEF ShellInv

LEMMA WritingKeepsInv ==
  ASSUME ShellInv, NEW c \in ShellIds, NEW s \in Streams, WriteOutput(c, s)
  PROVE  ShellInv'
<1> DEFINE r0 == <<c, s>>
<1>1. /\ ShellTypes /\ UNCHANGED <<shell, records, past, saved, chunks, numbers, deltas>>
      /\ reader[r0].at = "write" /\ logs' = [logs EXCEPT ![c] = Append(@, s)]
      /\ Goes(c, s, IF shell[c] \in {"aborted", "failed"} THEN "done" ELSE "wrote")
      /\ r0 \in Pairs /\ r0[1] = c /\ r0[2] = s
  BY DEF ShellInv, WriteOutput, Pairs
<1>2. /\ reader'[r0].at = IF shell[c] \in {"aborted", "failed"} THEN "done" ELSE "wrote"
      /\ reader'[r0].copy = reader[r0].copy
      /\ \A r \in Pairs \ {r0} : reader'[r] = reader[r]
      /\ reader' \in [Pairs -> [at : {"read", "wait", "write", "wrote", "done"}, copy : ShellRecords]]
  <2>1. (IF shell[c] \in {"aborted", "failed"} THEN "done" ELSE "wrote") \in {"read", "wait", "write", "wrote", "done"}
    OBVIOUS
  <2>. QED BY <1>1, <2>1, OneReaderGoes
<1>3. /\ logs[c] = StreamsOf(deltas[c]) /\ logs'[c] = Append(logs[c], s) /\ logs' \in [ShellIds -> Seq(Streams)]
      /\ \A d \in ShellIds \ {c} : logs'[d] = logs[d]
      /\ shell[c] \in {"running", "broken", "aborted", "failed"}
  <2>1. logs[c] = StreamsOf(deltas[c])
    BY <1>1 DEF ShellInv, LogFollows
  <2>2. shell[c] \in {"running", "broken", "aborted", "failed"}
    BY <1>1 DEF ShellInv, ReadersFollow, ShellTypes
  <2>3. logs[c] \in Seq(Streams) /\ Append(logs[c], s) \in Seq(Streams)
    BY <1>1 DEF ShellTypes
  <2>. QED BY <1>1, <2>1, <2>2, <2>3 DEF ShellTypes
<1>4. ShellTypes'
  BY <1>1, <1>2, <1>3 DEF ShellTypes
<1>5. OneAppends' /\ CopyIsFresh'
  <2>1. \A r \in Pairs : reader'[r].at \in {"write", "wrote"} =>
          reader[r].at \in {"write", "wrote"} /\ reader'[r].copy = reader[r].copy
    BY <1>1, <1>2
  <2>2. Appending' \subseteq Appending
    BY <2>1 DEF Appending, Pairs
  <2>. QED BY <1>1, <2>1, <2>2 DEF ShellInv, OneAppends, CopyIsFresh
<1>6. ReadersFollow'
  BY <1>1, <1>2, <1>3 DEF ShellInv, ReadersFollow
<1>7. RecordFollows' /\ DeltasAreNumbered' /\ PastFollows'
  BY <1>1 DEF ShellInv, RecordFollows, DeltasAreNumbered, PastFollows
<1>8. \A t \in Streams \ {s} : reader[<<c, t>>].at \notin {"write", "wrote"}
  BY <1>1 DEF ShellInv, OneAppends, Appending, Pairs
<1>9. /\ \A d \in ShellIds \ {c}, t \in Streams : reader'[<<d, t>>].at = reader[<<d, t>>].at
      /\ \A t \in Streams \ {s} : reader'[<<c, t>>].at = reader[<<c, t>>].at
  BY <1>1, <1>2 DEF Pairs
<1>10. ASSUME NEW d \in ShellIds
       PROVE  /\ shell[d] = "new" => deltas[d] = << >>
              /\ shell[d] \in {"running", "broken"} /\ (\A t \in Streams : reader'[<<d, t>>].at # "wrote") =>
                   logs'[d] = StreamsOf(deltas[d])
              /\ \A t \in Streams :
                   /\ reader'[<<d, t>>].at = "write" => logs'[d] = StreamsOf(deltas[d])
                   /\ reader'[<<d, t>>].at = "wrote" => logs'[d] = Append(StreamsOf(deltas[d]), t)
              /\ logs'[d] = StreamsOf(deltas[d]) \/ \E t \in Streams : logs'[d] = Append(StreamsOf(deltas[d]), t)
  <2>1. CASE d # c
    BY ZenonT(40), <2>1, <1>3, <1>9 DEF ShellInv, LogFollows
  <2>2. CASE d = c
    <3>1. reader'[<<c, s>>].at = IF shell[c] \in {"aborted", "failed"} THEN "done" ELSE "wrote"
      BY <1>2
    <3>2. logs'[c] = Append(StreamsOf(deltas[c]), s)
      BY <1>3
    <3>3. \A t \in Streams : t # s => reader'[<<c, t>>].at \notin {"write", "wrote"}
      BY <1>8, <1>9
    <3>. QED BY <2>2, <3>1, <3>2, <3>3, <1>3
  <2>. QED BY <2>1, <2>2
<1>11. LogFollows'
  BY <1>1, <1>10 DEF LogFollows
<1>. QED BY <1>4, <1>5, <1>6, <1>7, <1>11 DEF ShellInv

LEMMA AppendingKeepsInv ==
  ASSUME ShellInv, NEW c \in ShellIds, NEW s \in Streams, EndAppend(c, s)
  PROVE  ShellInv'
<1> DEFINE r0 == <<c, s>>
           new == Record(records[c].status, Append(records[c].preview, s))
           d0 == [stream |-> s, seq |-> numbers[c] + 1]
<1>1. /\ ShellTypes /\ UNCHANGED <<shell, past, saved, logs, chunks>>
      /\ reader[r0].at = "wrote" /\ shell[c] \in {"running", "broken"} /\ Goes(c, s, "read")
      /\ numbers' = [numbers EXCEPT ![c] = @ + 1] /\ deltas' = [deltas EXCEPT ![c] = Append(@, d0)]
      /\ r0 \in Pairs /\ r0[1] = c /\ r0[2] = s
  BY DEF ShellInv, EndAppend, Pairs
<1>2. /\ reader'[r0].at = "read"
      /\ \A r \in Pairs \ {r0} : reader'[r] = reader[r]
      /\ reader' \in [Pairs -> [at : {"read", "wait", "write", "wrote", "done"}, copy : ShellRecords]]
  BY <1>1, OneReaderGoes
<1>3. reader[r0].copy = records[c] /\ records[c] \in ShellRecords /\ records' = [records EXCEPT ![c] = new]
  BY <1>1 DEF ShellInv, CopyIsFresh, EndAppend, ShellTypes
<1>4. /\ new \in ShellRecords /\ new.preview = Append(records[c].preview, s)
      /\ records'[c] = new /\ \A d \in ShellIds \ {c} : records'[d] = records[d]
      /\ records' \in [ShellIds -> ShellRecords]
  <2>1. new \in ShellRecords /\ new.preview = Append(records[c].preview, s)
    BY <1>3 DEF ShellRecords, Record
  <2>. HIDE DEF new
  <2>. QED BY <1>1, <1>3, <2>1 DEF ShellTypes
<1>5. /\ d0 \in Deltas /\ d0.seq = numbers[c] + 1 /\ numbers[c] \in Nat /\ deltas[c] \in Seq(Deltas)
      /\ numbers[c] = Len(deltas[c]) /\ records[c].preview = StreamsOf(deltas[c])
      /\ logs[c] = Append(StreamsOf(deltas[c]), s)
  <2>1. numbers[c] \in Nat /\ deltas[c] \in Seq(Deltas)
    BY <1>1 DEF ShellTypes
  <2>2. numbers[c] = Len(deltas[c]) /\ records[c].preview = StreamsOf(deltas[c])
    BY <1>1 DEF ShellInv, RecordFollows
  <2>3. logs[c] = Append(StreamsOf(deltas[c]), s)
    BY <1>1 DEF ShellInv, LogFollows
  <2>4. d0 \in Deltas /\ d0.seq = numbers[c] + 1
    BY <2>1 DEF Deltas
  <2>. QED BY <2>1, <2>2, <2>3, <2>4
<1>6. StreamsOf(Append(deltas[c], d0)) = Append(StreamsOf(deltas[c]), s)
  BY <1>5, StreamsOfMore
<1>. HIDE DEF new, d0
<1>7. /\ deltas'[c] = Append(deltas[c], d0) /\ \A d \in ShellIds \ {c} : deltas'[d] = deltas[d]
      /\ deltas' \in [ShellIds -> Seq(Deltas)]
      /\ numbers'[c] = Len(deltas[c]) + 1 /\ \A d \in ShellIds \ {c} : numbers'[d] = numbers[d]
      /\ numbers' \in [ShellIds -> Nat]
  BY <1>1, <1>5 DEF ShellTypes
<1>8. ShellTypes'
  BY <1>1, <1>2, <1>4, <1>7 DEF ShellTypes
<1>19. /\ Len(deltas'[c]) = Len(deltas[c]) + 1 /\ StreamsOf(deltas'[c]) = Append(StreamsOf(deltas[c]), s)
       /\ records'[c].preview = StreamsOf(deltas'[c]) /\ numbers'[c] = Len(deltas'[c])
  <2>1. Len(deltas'[c]) = Len(deltas[c]) + 1
    BY <1>5, <1>7
  <2>2. StreamsOf(deltas'[c]) = Append(StreamsOf(deltas[c]), s)
    BY <1>6, <1>7
  <2>3. records'[c].preview = Append(StreamsOf(deltas[c]), s)
    BY <1>4, <1>5
  <2>. QED BY <1>7, <2>1, <2>2, <2>3
<1>9. \A r \in Pairs : reader'[r].at \notin {"write", "wrote"}
  <2>1. \A r \in Pairs \ {r0} : reader[r].at \notin {"write", "wrote"}
    BY <1>1 DEF ShellInv, OneAppends, Appending, Pairs
  <2>. QED BY <1>2, <2>1
<1>10. OneAppends' /\ CopyIsFresh'
  <2>1. Appending' = {}
    BY <1>9 DEF Appending, Pairs
  <2>. QED BY <1>9, <2>1 DEF OneAppends, CopyIsFresh
<1>11. ReadersFollow'
  BY <1>1, <1>2 DEF ShellInv, ReadersFollow
<1>12. RecordFollows'
  <2>1. \A d \in ShellIds : d # c => records'[d] = records[d] /\ deltas'[d] = deltas[d] /\ numbers'[d] = numbers[d]
    BY <1>4, <1>7
  <2>. QED BY <1>1, <1>19, <2>1 DEF ShellInv, RecordFollows
<1>13. \A d \in ShellIds, t \in Streams : reader'[<<d, t>>].at \notin {"write", "wrote"}
  BY <1>9 DEF Pairs
<1>14. \A t \in Streams : t # s => reader[<<c, t>>].at # "wrote"
  BY <1>1 DEF ShellInv, OneAppends, Appending, Pairs
<1>15. \A d \in ShellIds \ {c}, t \in Streams : reader'[<<d, t>>] = reader[<<d, t>>]
  BY <1>1, <1>2 DEF Pairs
<1>16. LogFollows'
  <2>1. \A d \in ShellIds : d # c => deltas'[d] = deltas[d]
    BY <1>7
  <2>2. logs[c] = StreamsOf(deltas'[c])
    BY <1>5, <1>19
  <2>. QED BY SMTT(20), <1>1, <1>13, <1>15, <2>1, <2>2 DEF ShellInv, LogFollows
<1>17. DeltasAreNumbered'
  <2> SUFFICES ASSUME NEW d \in ShellIds, NEW i \in DOMAIN deltas'[d] PROVE deltas'[d][i].seq = i
    BY DEF DeltasAreNumbered
  <2>1. CASE d # c
    BY <2>1, <1>7 DEF ShellInv, DeltasAreNumbered
  <2>2. CASE d = c
    <3>1. i \in 1..(Len(deltas[c]) + 1) /\ Len(deltas[c]) \in Nat
      BY <2>2, <1>5, <1>7
    <3>2. CASE i = Len(deltas[c]) + 1
      BY <2>2, <3>2, <1>5, <1>7
    <3>3. CASE i \in 1..Len(deltas[c])
      BY <2>2, <3>3, <1>5, <1>7 DEF ShellInv, DeltasAreNumbered
    <3>. QED BY <3>1, <3>2, <3>3
  <2>. QED BY <2>1, <2>2
<1>18. PastFollows'
  BY <1>1, <1>4, <1>7 DEF ShellInv, PastFollows
<1>. QED BY <1>8, <1>10, <1>11, <1>12, <1>16, <1>17, <1>18 DEF ShellInv

\* A write that fails gives the lock back, and nothing is written.
LEMMA FailingKeepsInv ==
  ASSUME ShellInv, NEW c \in ShellIds, NEW s \in Streams, WriteFails(c, s)
  PROVE  ShellInv'
<1> DEFINE r0 == <<c, s>>
<1>1. /\ ShellTypes /\ UNCHANGED <<records, past, saved, logs, chunks, numbers, deltas>>
      /\ reader[r0].at = "write" /\ Goes(c, s, "done")
      /\ shell' = shell \/ (shell[c] = "running" /\ shell' = [shell EXCEPT ![c] = "broken"])
      /\ r0 \in Pairs /\ r0[1] = c /\ r0[2] = s
  BY DEF ShellInv, WriteFails, Pairs
<1>2. /\ reader'[r0].at = "done" /\ reader'[r0].copy = reader[r0].copy
      /\ \A r \in Pairs \ {r0} : reader'[r] = reader[r]
      /\ reader' \in [Pairs -> [at : {"read", "wait", "write", "wrote", "done"}, copy : ShellRecords]]
  BY <1>1, OneReaderGoes
<1>3. /\ shell' \in [ShellIds -> {"new", "running", "aborted", "failed", "done", "broken", "lost"}]
      /\ \A d \in ShellIds \ {c} : shell'[d] = shell[d]
      /\ shell'[c] = shell[c] \/ (shell[c] = "running" /\ shell'[c] = "broken")
  BY <1>1 DEF ShellTypes
<1>4. ShellTypes'
  BY <1>1, <1>2, <1>3 DEF ShellTypes
<1>5. \A r \in Pairs : reader'[r].at \notin {"write", "wrote"}
  <2>1. \A r \in Pairs \ {r0} : reader[r].at \notin {"write", "wrote"}
    BY <1>1 DEF ShellInv, OneAppends, Appending, Pairs
  <2>. QED BY <1>2, <2>1
<1>6. OneAppends' /\ CopyIsFresh'
  <2>1. Appending' = {}
    BY <1>5 DEF Appending, Pairs
  <2>. QED BY <1>5, <2>1 DEF OneAppends, CopyIsFresh
<1>7. ReadersFollow'
  BY <1>1, <1>2, <1>3, PairsAre DEF ShellInv, ReadersFollow
<1>8. RecordFollows' /\ DeltasAreNumbered' /\ PastFollows'
  BY <1>1, <1>3 DEF ShellInv, RecordFollows, DeltasAreNumbered, PastFollows
<1>9. \A d \in ShellIds, t \in Streams : reader'[<<d, t>>].at \notin {"write", "wrote"}
  BY <1>5 DEF Pairs
<1>10. \A d \in ShellIds \ {c}, t \in Streams : reader'[<<d, t>>] = reader[<<d, t>>]
  BY <1>1, <1>2 DEF Pairs
<1>11. logs[c] = StreamsOf(deltas[c])
  BY <1>1 DEF ShellInv, LogFollows
<1>12. LogFollows'
  BY <1>1, <1>3, <1>9, <1>10, <1>11 DEF ShellInv, LogFollows
<1>. QED BY <1>4, <1>6, <1>7, <1>8, <1>12 DEF ShellInv

\* A call that stops takes its readers with it, but for one that is writing.
LEMMA StoppingKeepsInv ==
  ASSUME ShellInv, NEW c \in ShellIds, NEW why \in {"aborted", "failed"}, StopShell(c, why)
  PROVE  ShellInv'
<1>1. /\ ShellTypes /\ UNCHANGED <<records, past, saved, logs, chunks, numbers, deltas>>
      /\ shell[c] = "running" /\ shell' = [shell EXCEPT ![c] = why]
      /\ AtRest \in [at : {"read", "wait", "write", "wrote", "done"}, copy : ShellRecords] /\ AtRest.at = "done"
  BY DEF ShellInv, StopShell, AtRest, Reader, ShellRecords, NoRecord, Record
<1>2. /\ reader' \in [Pairs -> [at : {"read", "wait", "write", "wrote", "done"}, copy : ShellRecords]]
      /\ \A r \in Pairs : reader'[r] = IF r[1] = c /\ reader[r].at # "write" THEN AtRest ELSE reader[r]
  BY <1>1 DEF StopShell, Pairs, ShellTypes
<1>3. /\ shell' \in [ShellIds -> {"new", "running", "aborted", "failed", "done", "broken", "lost"}]
      /\ \A d \in ShellIds \ {c} : shell'[d] = shell[d]
      /\ shell'[c] = why
  BY <1>1 DEF ShellTypes
<1>4. ShellTypes'
  BY <1>1, <1>2, <1>3 DEF ShellTypes
<1>5. \A r \in Pairs : reader'[r].at \in {"write", "wrote"} => reader'[r] = reader[r]
  BY <1>1, <1>2
<1>6. OneAppends' /\ CopyIsFresh'
  <2>1. Appending' \subseteq Appending
    BY <1>5 DEF Appending, Pairs
  <2>. QED BY <1>1, <1>5, <2>1 DEF ShellInv, OneAppends, CopyIsFresh
<1>7. ReadersFollow'
  BY <1>1, <1>2, <1>3, PairsAre DEF ShellInv, ReadersFollow
<1>8. RecordFollows' /\ DeltasAreNumbered' /\ PastFollows'
  BY <1>1, <1>3 DEF ShellInv, RecordFollows, DeltasAreNumbered, PastFollows
<1>9. /\ \A d \in ShellIds \ {c}, t \in Streams : reader'[<<d, t>>] = reader[<<d, t>>]
      /\ \A t \in Streams : reader'[<<c, t>>].at # "wrote"
      /\ \A t \in Streams : reader'[<<c, t>>].at = "write" => reader[<<c, t>>].at = "write"
  BY <1>1, <1>2 DEF Pairs
<1>10. LogFollows'
  BY <1>1, <1>3, <1>9 DEF ShellInv, LogFollows
<1>. QED BY <1>4, <1>6, <1>7, <1>8, <1>10 DEF ShellInv

LEMMA BeginningKeepsInv ==
  ASSUME ShellInv, NEW c \in ShellIds, BeginShell(c)
  PROVE  ShellInv'
<1> DEFINE new == Record("running", << >>)
<1>1. /\ ShellTypes /\ UNCHANGED <<past, chunks, deltas>> /\ saved' = records'
      /\ shell[c] = "new" /\ shell' = [shell EXCEPT ![c] = "running"]
      /\ logs' = [logs EXCEPT ![c] = << >>] /\ numbers' = [numbers EXCEPT ![c] = 0]
      /\ records' = [records EXCEPT ![c] = new] /\ Running = {}
      /\ reader' = [r \in Pairs |-> IF r[1] = c THEN Reader("read", NoRecord) ELSE reader[r]]
  BY DEF ShellInv, BeginShell, Pairs
<1>2. /\ new \in ShellRecords /\ new.preview = << >> /\ StreamsOf(<< >>) = << >>
      /\ Reader("read", NoRecord) \in [at : {"read", "wait", "write", "wrote", "done"}, copy : ShellRecords]
      /\ Reader("read", NoRecord).at = "read"
  BY DEF Record, ShellRecords, StreamsOf, Reader, NoRecord
<1>. HIDE DEF new
<1>3. /\ reader' \in [Pairs -> [at : {"read", "wait", "write", "wrote", "done"}, copy : ShellRecords]]
      /\ \A r \in Pairs : r[1] = c => reader'[r].at = "read"
      /\ \A r \in Pairs : r[1] # c => reader'[r] = reader[r]
  BY <1>1, <1>2 DEF ShellTypes
<1>4. /\ shell' \in [ShellIds -> {"new", "running", "aborted", "failed", "done", "broken", "lost"}]
      /\ records' \in [ShellIds -> ShellRecords] /\ logs' \in [ShellIds -> Seq(Streams)] /\ numbers' \in [ShellIds -> Nat]
      /\ shell'[c] = "running" /\ records'[c] = new /\ logs'[c] = << >> /\ numbers'[c] = 0
      /\ \A d \in ShellIds : d # c => /\ shell'[d] = shell[d] /\ records'[d] = records[d]
                                      /\ logs'[d] = logs[d] /\ numbers'[d] = numbers[d]
  BY <1>1, <1>2 DEF ShellTypes
<1>5. ShellTypes'
  BY <1>1, <1>3, <1>4 DEF ShellTypes
<1>6. \A r \in Pairs : reader'[r].at \in {"write", "wrote"} => reader'[r] = reader[r] /\ r[1] # c
  BY <1>3
<1>7. OneAppends' /\ CopyIsFresh'
  <2>1. Appending' \subseteq Appending
    BY <1>6 DEF Appending, Pairs
  <2>2. ASSUME NEW r \in Pairs, reader'[r].at \in {"write", "wrote"}
        PROVE  reader'[r].copy = records'[r[1]]
    <3>1. reader'[r] = reader[r] /\ r[1] # c /\ r[1] \in ShellIds
      BY <1>6, <2>2, PairsAre
    <3>2. records'[r[1]] = records[r[1]]
      BY <1>4, <3>1
    <3>. QED BY <2>2, <3>1, <3>2 DEF ShellInv, CopyIsFresh
  <2>. QED BY <2>1, <2>2 DEF ShellInv, OneAppends, CopyIsFresh
<1>8. ReadersFollow'
  <2> SUFFICES ASSUME NEW r \in Pairs
               PROVE  /\ shell'[r[1]] \in {"new", "done", "lost"} => reader'[r].at = "done"
                      /\ shell'[r[1]] \in {"aborted", "failed"} => reader'[r].at \in {"write", "done"}
    BY DEF ReadersFollow
  <2>1. CASE r[1] = c
    BY <2>1, <1>4
  <2>2. CASE r[1] # c
    <3>1. reader'[r] = reader[r] /\ shell'[r[1]] = shell[r[1]]
      BY <2>2, <1>3, <1>4, PairsAre
    <3>. QED BY <3>1 DEF ShellInv, ReadersFollow
  <2>. QED BY <2>1, <2>2
<1>9. deltas[c] = << >> /\ past[c] = << >>
  BY <1>1 DEF ShellInv, LogFollows, PastFollows
<1>10. RecordFollows' /\ DeltasAreNumbered'
  BY <1>1, <1>2, <1>4, <1>9 DEF ShellInv, RecordFollows, DeltasAreNumbered
<1>11. PastFollows'
  BY <1>1, <1>4, <1>9 DEF ShellInv, PastFollows
<1>12. /\ \A t \in Streams : reader'[<<c, t>>].at = "read"
       /\ \A d \in ShellIds, t \in Streams : d # c => reader'[<<d, t>>] = reader[<<d, t>>]
  BY <1>3 DEF Pairs
<1>13. LogFollows'
  <2> SUFFICES ASSUME NEW d \in ShellIds
               PROVE  /\ shell'[d] = "new" => deltas[d] = << >>
                      /\ shell'[d] \in {"running", "broken"} /\ (\A t \in Streams : reader'[<<d, t>>].at # "wrote") =>
                           logs'[d] = StreamsOf(deltas[d])
                      /\ \A t \in Streams :
                           /\ reader'[<<d, t>>].at = "write" => logs'[d] = StreamsOf(deltas[d])
                           /\ reader'[<<d, t>>].at = "wrote" => logs'[d] = Append(StreamsOf(deltas[d]), t)
                      /\ logs'[d] = StreamsOf(deltas[d]) \/ \E t \in Streams : logs'[d] = Append(StreamsOf(deltas[d]), t)
    BY <1>1 DEF LogFollows
  <2>1. CASE d = c
    BY <2>1, <1>2, <1>4, <1>9, <1>12
  <2>2. CASE d # c
    <3>1. shell'[d] = shell[d] /\ logs'[d] = logs[d] /\ \A t \in Streams : reader'[<<d, t>>] = reader[<<d, t>>]
      BY <2>2, <1>4, <1>12
    <3>. QED BY <3>1 DEF ShellInv, LogFollows
  <2>. QED BY <2>1, <2>2
<1>. QED BY <1>5, <1>7, <1>8, <1>10, <1>11, <1>13 DEF ShellInv

\* The entry of a call is written once, when its readers are gone.
LEMMA ClosingKeepsInv ==
  ASSUME ShellInv, NEW c \in ShellIds, NEW status \in {"completed", "failed", "aborted"},
         shell[c] \in {"running", "aborted", "failed"}, ReadersAre(c, "done"), CloseRecord(c, status),
         UNCHANGED <<logs, reader, chunks, deltas>>
  PROVE  ShellInv'
<1> DEFINE entry == Record(status, records[c].preview)
<1>1. /\ ShellTypes /\ past' = [past EXCEPT ![c] = Append(@, entry)]
      /\ records' = [records EXCEPT ![c] = NoRecord] /\ numbers' = [numbers EXCEPT ![c] = 0]
      /\ saved' = records' /\ shell' = [shell EXCEPT ![c] = "done"]
      /\ past[c] = << >> /\ NoRecord \in ShellRecords
  BY DEF ShellInv, CloseRecord, PastFollows, ShellRecords, NoRecord, Record
<1>2. /\ entry \in [status : {"completed", "failed", "aborted"}, preview : Seq(Streams)]
      /\ entry.preview = StreamsOf(deltas[c])
  BY <1>1 DEF ShellInv, ShellTypes, RecordFollows, ShellRecords, Record
<1>. HIDE DEF entry
<1>3. /\ shell' \in [ShellIds -> {"new", "running", "aborted", "failed", "done", "broken", "lost"}]
      /\ records' \in [ShellIds -> ShellRecords] /\ numbers' \in [ShellIds -> Nat]
      /\ shell'[c] = "done" /\ records'[c] = NoRecord
      /\ \A d \in ShellIds : d # c => /\ shell'[d] = shell[d] /\ records'[d] = records[d]
                                      /\ numbers'[d] = numbers[d]
  BY <1>1 DEF ShellTypes
<1>4. /\ past' \in [ShellIds -> Seq([status : {"completed", "failed", "aborted"}, preview : Seq(Streams)])]
      /\ past'[c] = <<entry>> /\ \A d \in ShellIds : d # c => past'[d] = past[d]
  <2>1. Append(past[c], entry) = <<entry>>
    BY <1>1
  <2>2. <<entry>> \in Seq([status : {"completed", "failed", "aborted"}, preview : Seq(Streams)])
    BY <1>2
  <2>3. past' = [past EXCEPT ![c] = <<entry>>]
    BY <1>1, <2>1
  <2>. QED BY <1>1, <2>2, <2>3 DEF ShellTypes
<1>5. ShellTypes'
  BY <1>1, <1>3, <1>4 DEF ShellTypes
<1>6. \A r \in Pairs : r[1] = c => reader[r].at = "done"
  BY PairsAre DEF ReadersAre
<1>7. OneAppends' /\ CopyIsFresh'
  <2>1. Appending' = Appending
    BY DEF Appending
  <2>2. OneAppends'
    BY <2>1 DEF ShellInv, OneAppends
  <2>. QED BY <1>3, <1>6, <2>2, PairsAre DEF ShellInv, CopyIsFresh
<1>8. ReadersFollow'
  BY <1>3, <1>6, PairsAre DEF ShellInv, ReadersFollow
<1>9. RecordFollows' /\ DeltasAreNumbered' /\ LogFollows'
  BY <1>3 DEF ShellInv, RecordFollows, DeltasAreNumbered, LogFollows
<1>10. PastFollows'
  BY <1>1, <1>2, <1>3, <1>4 DEF ShellInv, PastFollows
<1>. QED BY <1>5, <1>7, <1>8, <1>9, <1>10 DEF ShellInv

LEMMA BreakingKeepsInv ==
  ASSUME ShellInv, NEW c \in ShellIds, BreakShell(c)
  PROVE  ShellInv'
<1>1. /\ ShellTypes /\ UNCHANGED <<records, past, saved, logs, reader, chunks, numbers, deltas>>
      /\ shell[c] = "running" /\ shell' = [shell EXCEPT ![c] = "broken"]
  BY DEF ShellInv, BreakShell
<1>2. /\ shell' \in [ShellIds -> {"new", "running", "aborted", "failed", "done", "broken", "lost"}]
      /\ shell'[c] = "broken" /\ \A d \in ShellIds : d # c => shell'[d] = shell[d]
  BY <1>1 DEF ShellTypes
<1>3. ShellTypes' /\ OneAppends' /\ CopyIsFresh'
  BY <1>1, <1>2 DEF ShellInv, ShellTypes, OneAppends, CopyIsFresh, Appending
<1>4. ReadersFollow' /\ RecordFollows'
  BY <1>1, <1>2, PairsAre DEF ShellInv, ReadersFollow, RecordFollows
<1>5. LogFollows' /\ DeltasAreNumbered' /\ PastFollows'
  BY <1>1, <1>2 DEF ShellInv, LogFollows, DeltasAreNumbered, PastFollows
<1>. QED BY <1>3, <1>4, <1>5 DEF ShellInv

\* After a restart no reader is left, and what is on record is what was saved.
LEMMA LosingKeepsInv ==
  ASSUME ShellInv, LoseShell
  PROVE  ShellInv'
<1>1. /\ ShellTypes /\ UNCHANGED <<past, saved, logs, chunks, deltas>> /\ records' = saved
      /\ AtRest \in [at : {"read", "wait", "write", "wrote", "done"}, copy : ShellRecords] /\ AtRest.at = "done"
  BY DEF ShellInv, LoseShell, AtRest, Reader, ShellRecords, NoRecord, Record
<1>2. /\ shell' \in [ShellIds -> {"new", "running", "aborted", "failed", "done", "broken", "lost"}]
      /\ \A c \in ShellIds : shell'[c] \in {"new", "done", "lost"} /\ (shell'[c] = "done" <=> shell[c] = "done")
      /\ \A c \in ShellIds : shell'[c] = "new" <=> shell[c] = "new"
      /\ numbers' \in [ShellIds -> Nat]
  BY DEF LoseShell
<1>3. /\ reader' \in [Pairs -> [at : {"read", "wait", "write", "wrote", "done"}, copy : ShellRecords]]
      /\ \A r \in Pairs : reader'[r].at = "done"
  BY <1>1 DEF LoseShell, Pairs
<1>4. ShellTypes'
  BY <1>1, <1>2, <1>3 DEF ShellTypes
<1>5. OneAppends' /\ CopyIsFresh' /\ ReadersFollow'
  BY <1>2, <1>3, PairsAre DEF OneAppends, CopyIsFresh, ReadersFollow, Appending, Pairs
<1>6. \A d \in ShellIds, t \in Streams : reader'[<<d, t>>].at = "done"
  BY <1>3 DEF Pairs
<1>7. RecordFollows' /\ DeltasAreNumbered'
  BY <1>1, <1>2 DEF ShellInv, RecordFollows, DeltasAreNumbered
<1>8. LogFollows'
  BY <1>1, <1>2, <1>6 DEF ShellInv, LogFollows
<1>9. PastFollows'
  BY <1>1, <1>2 DEF ShellInv, PastFollows
<1>. QED BY <1>4, <1>5, <1>7, <1>8, <1>9 DEF ShellInv

LEMMA ShellStepHolds == ShellInv /\ [ShellNext]_shellVars => ShellInv'
<1> SUFFICES ASSUME ShellInv, [ShellNext]_shellVars PROVE ShellInv'
  OBVIOUS
<1>1. CASE UNCHANGED shellVars
  BY ZenonT(40), <1>1 DEF shellVars, ShellInv, ShellTypes, OneAppends, CopyIsFresh, ReadersFollow, RecordFollows, LogFollows,
              DeltasAreNumbered, PastFollows, Appending
<1>2. ASSUME NEW c \in ShellIds, EndShell(c) PROVE ShellInv'
  BY <1>2, ClosingKeepsInv DEF EndShell
<1>3. ASSUME NEW c \in ShellIds, StoppedShell(c) PROVE ShellInv'
  BY <1>3, ClosingKeepsInv DEF StoppedShell
<1>. QED BY <1>1, <1>2, <1>3, BeginningKeepsInv, BreakingKeepsInv, StoppingKeepsInv, ReadingKeepsInv, EnteringKeepsInv,
            WritingKeepsInv, AppendingKeepsInv, FailingKeepsInv, LosingKeepsInv DEF ShellNext

LEMMA ShellInvIsEnough == ShellInv => ShellTypeOK /\ ShellOutputIsExact
<1> SUFFICES ASSUME ShellInv PROVE ShellTypeOK /\ ShellOutputIsExact
  OBVIOUS
<1>1. ShellTypes
  BY DEF ShellInv
<1>2. ShellTypeOK
  <2>1. shell \in [ShellIds -> {"new", "running", "aborted", "failed", "done", "broken", "lost"}]
    BY <1>1 DEF ShellTypes
  <2>2. ASSUME NEW c \in ShellIds
        PROVE  records[c] \in ShellRecords /\ logs[c] \in Seq(Streams) /\ numbers[c] \in Nat /\ chunks[c] \in 0..MaxChunks
    BY <1>1 DEF ShellTypes
  <2>. QED BY <2>1, <2>2 DEF ShellTypeOK, ShellRecords
<1>3. ASSUME NEW c \in ShellIds
      PROVE  /\ \A i \in DOMAIN deltas[c] : deltas[c][i].seq = i
             /\ IsPrefix(StreamsOf(deltas[c]), logs[c])
             /\ Len(logs[c]) <= Len(deltas[c]) + 1
  <2> DEFINE told == StreamsOf(deltas[c])
  <2>1. told \in Seq(Streams) /\ Len(told) = Len(deltas[c]) /\ Len(told) \in Nat
    <3>1. deltas[c] \in Seq(Deltas)
      BY <1>1 DEF ShellTypes
    <3>. QED BY <3>1, StreamsOfSequences
  <2>2. logs[c] = told \/ \E s \in Streams : logs[c] = Append(told, s)
    BY DEF ShellInv, LogFollows
  <2>. HIDE DEF told
  <2>3. IsPrefix(told, logs[c]) /\ Len(logs[c]) <= Len(told) + 1
    <3>1. CASE logs[c] = told
      BY <2>1, <3>1 DEF IsPrefix
    <3>2. ASSUME NEW s \in Streams, logs[c] = Append(told, s)
          PROVE  IsPrefix(told, logs[c]) /\ Len(logs[c]) <= Len(told) + 1
      <4>1. Append(told, s) \in Seq(Streams) /\ Len(Append(told, s)) = Len(told) + 1
        BY <2>1
      <4>2. \A i \in 1..Len(told) : Append(told, s)[i] = told[i]
        BY <2>1
      <4>3. SubSeq(Append(told, s), 1, Len(told)) = SubSeq(told, 1, Len(told))
        BY <2>1, <4>1, <4>2
      <4>. QED BY <2>1, <3>2, <4>1, <4>3 DEF IsPrefix
    <3>. QED BY <2>2, <3>1, <3>2
  <2>. QED BY <2>1, <2>3 DEF ShellInv, DeltasAreNumbered, told
<1>4. DeltasMatchLog
  BY <1>3 DEF DeltasMatchLog
<1>5. RecordsAreComplete
  BY DEF ShellInv, RecordFollows, PastFollows, RecordsAreComplete
<1>. QED BY <1>2, <1>4, <1>5 DEF ShellOutputIsExact

-----------------------------------------------------------------------------
(* RuntimeState: the questions *)

QuestionTypes ==
  /\ pending \in Questions \cup {NoQuestion}
  /\ closed \in [Questions -> {"unasked", "open", "resolved", "cancelled", "replaced"}]
  /\ asker \in [Questions -> Both \cup {NoQuestion}]

\* The open question is the one that waits, and nothing is said of it.
OpenIsPending == \A q \in Questions : closed[q] = "open" <=> pending = q
Told(q) == {t \in spoken : t[2] = q}
UnansweredIsUntold == \A q \in Questions : closed[q] \in {"unasked", "open", "replaced"} => Told(q) = {}

QuestionInv == QuestionTypes /\ OpenIsPending /\ UnansweredIsUntold /\ QuestionsAreTold

LEMMA QuestionInitHolds == StateInit => QuestionInv
BY QuestionAssumption
   DEF StateInit, QuestionInv, QuestionTypes, OpenIsPending, UnansweredIsUntold, Told, QuestionsAreTold

\* What is said of a question is said once, by the step that closes it.
LEMMA QuestionStepHolds == QuestionInv /\ [StateNext]_stateVars => QuestionInv'
<1> SUFFICES ASSUME QuestionInv, [StateNext]_stateVars PROVE QuestionInv'
  OBVIOUS
<1>1. CASE UNCHANGED <<pending, closed, asker, spoken, crossed>>
  BY <1>1 DEF QuestionInv, QuestionTypes, OpenIsPending, UnansweredIsUntold, Told, QuestionsAreTold
<1>2. ASSUME NEW s \in Both, NEW q \in Questions, PutQuestion(s, q) PROVE QuestionInv'
  <2>1. /\ closed[q] = "unasked" /\ pending' = q /\ UNCHANGED spoken
        /\ closed' = [p \in Questions |-> IF p = q THEN "open" ELSE IF p = pending THEN "replaced" ELSE closed[p]]
        /\ asker' = [asker EXCEPT ![q] = s] /\ crossed \subseteq crossed'
    BY <1>2 DEF PutQuestion
  <2>2. QuestionTypes' /\ OpenIsPending' /\ pending # q
    BY <2>1 DEF QuestionInv, QuestionTypes, OpenIsPending
  <2>3. UnansweredIsUntold'
    BY <2>1, <2>2 DEF QuestionInv, QuestionTypes, OpenIsPending, UnansweredIsUntold, Told
  <2>4. \A p \in Questions : p # q => asker'[p] = asker[p]
    BY <2>1 DEF QuestionInv, QuestionTypes
  <2>5. QuestionsAreTold'
    BY <2>1, <2>2, <2>3, <2>4 DEF QuestionInv, QuestionsAreTold, UnansweredIsUntold, Told, QuestionTypes
  <2>. QED BY <2>2, <2>3, <2>5 DEF QuestionInv
<1>3. ASSUME NEW q \in Questions, AnswerQuestion(q) PROVE QuestionInv'
  <2>1. /\ pending = q /\ pending' = NoQuestion /\ UNCHANGED asker
        /\ closed' = [closed EXCEPT ![q] = "resolved"] /\ spoken' = spoken \cup {<<Agent, q, "answer">>}
        /\ crossed' = IF asker[q] = Agent THEN crossed ELSE crossed \cup {q}
    BY <1>3 DEF AnswerQuestion
  <2>2. /\ QuestionTypes' /\ OpenIsPending' /\ closed[q] = "open" /\ Told(q) = {}
        /\ closed'[q] = "resolved" /\ \A p \in Questions : p # q => closed'[p] = closed[p]
    BY <2>1, QuestionAssumption DEF QuestionInv, QuestionTypes, OpenIsPending, UnansweredIsUntold
  <2>3. Told(q)' = {<<Agent, q, "answer">>} /\ \A p \in Questions : p # q => Told(p)' = Told(p)
    BY <2>1, <2>2 DEF Told
  <2>4. UnansweredIsUntold'
    BY <2>2, <2>3 DEF QuestionInv, UnansweredIsUntold
  <2>5. \A p \in Questions : p # q /\ p \notin crossed' => p \notin crossed
    BY <2>1
  <2>6. QuestionsAreTold'
    BY <2>1, <2>2, <2>3, <2>5 DEF QuestionInv, QuestionsAreTold, Told
  <2>. QED BY <2>2, <2>4, <2>6 DEF QuestionInv
<1>4. CASE EndStop
  <2>1. /\ pending' = NoQuestion /\ UNCHANGED asker
        /\ closed' = [q \in Questions |-> IF q = pending THEN "cancelled" ELSE closed[q]]
        /\ spoken' = spoken \cup (IF pending = NoQuestion THEN {} ELSE {<<stop.by, pending, "stopped">>})
        /\ crossed' = IF pending # NoQuestion /\ asker[pending] # stop.by THEN crossed \cup {pending} ELSE crossed
    BY <1>4 DEF EndStop, Noted
  <2>2. /\ QuestionTypes' /\ OpenIsPending'
        /\ \A p \in Questions : p # pending => closed'[p] = closed[p]
        /\ pending \in Questions => closed'[pending] = "cancelled" /\ Told(pending) = {}
    BY <2>1, QuestionAssumption DEF QuestionInv, QuestionTypes, OpenIsPending, UnansweredIsUntold
  <2>3. /\ \A p \in Questions : p # pending => Told(p)' = Told(p)
        /\ \A p \in Questions : p = pending => Told(p)' = {<<stop.by, p, "stopped">>}
    <3>1. CASE pending = NoQuestion
      BY <2>1, <3>1, QuestionAssumption DEF Told
    <3>2. CASE pending # NoQuestion
      <4>1. spoken' = spoken \cup {<<stop.by, pending, "stopped">>}
        BY <2>1, <3>2
      <4>2. \A p : p # pending => Told(p)' = Told(p)
        BY <4>1 DEF Told
      <4>3. \A p : p = pending => Told(p)' = Told(p) \cup {<<stop.by, p, "stopped">>}
        BY <4>1 DEF Told
      <4>. QED BY <2>2, <3>2, <4>2, <4>3
    <3>. QED BY <3>1, <3>2
  <2>4. UnansweredIsUntold'
    BY <2>2, <2>3 DEF QuestionInv, UnansweredIsUntold
  <2>5. QuestionsAreTold'
    BY <2>1, <2>2, <2>3, QuestionAssumption DEF QuestionInv, QuestionsAreTold, Told, QuestionTypes
  <2>. QED BY <2>2, <2>4, <2>5 DEF QuestionInv
<1>5. CASE UNCHANGED stateVars
  BY <1>1, <1>5 DEF stateVars
<1>. QED BY <1>1, <1>2, <1>3, <1>4, <1>5
     DEF StateNext, UpdateBoard, BeginPatch, EndPatch, BeginRead, EndRead, BeginStop

-----------------------------------------------------------------------------
(* RuntimeState: the work board *)

BoardIds == Seq(ItemNames \cup Nat)
Items == [id : BoardIds, status : States]
Boards == Seq(Items)
Unique(items) == \A i, j \in DOMAIN items : items[i].id = items[j].id => i = j

LEMMA EntriesAreFinite ==
  ASSUME NEW items \in Boards
  PROVE  IsFiniteSet(EntryIds(items))
<1>1. Len(items) \in Nat /\ DOMAIN items = 1..Len(items)
  OBVIOUS
<1> DEFINE ids == [i \in 1..Len(items) |-> items[i].id]
<1>2. ids \in Surjection(1..Len(items), EntryIds(items))
  BY <1>1 DEF Surjection, EntryIds
<1> HIDE DEF ids
<1>3. IsFiniteSet(1..Len(items))
  BY <1>1, FS_Interval
<1> QED BY <1>2, <1>3, FS_Surjection

\* The suffix that the search for a free id ends with exists: among one more suffixes than
\* there are ids, one is free.
LEMMA FreeIdIsFree ==
  ASSUME NEW id \in BoardIds, NEW used, IsFiniteSet(used)
  PROVE  /\ FreeId(id, used) \in BoardIds /\ FreeId(id, used) \notin used
         /\ id \notin used => FreeId(id, used) = id
<1> DEFINE c == Cardinality(used)
           suffixes == 2..(c + 2)
           free == {n \in suffixes : Append(id, n) \notin used}
           f == [n \in suffixes |-> Append(id, n)]
<1>1. c \in Nat
  BY FS_CardinalityType
<1>2. \A n \in Nat : Append(id, n) \in BoardIds /\ Append(id, n)[Len(id) + 1] = n
  BY DEF BoardIds
<1>3. suffixes \subseteq Nat /\ IsFiniteSet(suffixes) /\ Cardinality(suffixes) = c + 1
  <2> HIDE DEF c
  <2>1. suffixes \subseteq Nat
    BY <1>1
  <2>2. 2 \in Int /\ c + 2 \in Int /\ ~(2 > c + 2) /\ (c + 2) - 2 + 1 = c + 1
    BY <1>1
  <2>3. IsFiniteSet(suffixes) /\ Cardinality(suffixes) = (c + 2) - 2 + 1
    BY <2>2, FS_Interval
  <2> QED BY <2>1, <2>2, <2>3
<1>4. free # {}
  <2> SUFFICES ASSUME free = {} PROVE FALSE
    OBVIOUS
  <2>1. \A n \in suffixes : f[n] = Append(id, n) /\ f[n] \in used
    OBVIOUS
  <2>2. \A n, m \in suffixes : f[n] = f[m] => n = m
    BY <1>2, <1>3, <2>1
  <2>3. f \in [suffixes -> used]
    BY <2>1
  <2> HIDE DEF f, suffixes, free
  <2>4. f \in Injection(suffixes, used)
    BY <2>2, <2>3 DEF Injection, IsInjective
  <2>5. Cardinality(suffixes) <= Cardinality(used)
    BY <2>4, FS_Injection
  <2> HIDE DEF c
  <2>6. c + 1 <= c
    BY <1>3, <2>5 DEF c
  <2> QED BY <1>1, <2>6
<1>5. PICK n \in free : \A m \in free : n <= m
  <2> HIDE DEF suffixes
  <2>1. free \in SUBSET Nat
    BY <1>3
  <2> HIDE DEF free
  <2> QED BY <1>4, <2>1, NatLeast
<1>6. n \in 2..(c + 2) /\ Append(id, n) \notin used /\ \A m \in 2..(n - 1) : Append(id, m) \in used
  <2> HIDE DEF c
  <2>1. n \in 2..(c + 2) /\ Append(id, n) \notin used
    OBVIOUS
  <2>2. ASSUME NEW m \in 2..(n - 1), Append(id, m) \notin used PROVE FALSE
    <3>1. m \in 2..(c + 2) /\ ~(n <= m)
      BY <1>1, <2>1
    <3> QED BY <1>5, <2>2, <3>1
  <2> QED BY <2>1, <2>2
<1> DEFINE least == CHOOSE k \in 2..(c + 2) : Append(id, k) \notin used /\ \A m \in 2..(k - 1) : Append(id, m) \in used
<1>7. least \in 2..(c + 2) /\ Append(id, least) \notin used
  BY <1>6
<1>8. FreeId(id, used) = IF id \notin used THEN id ELSE Append(id, least)
  BY DEF FreeId
<1> HIDE DEF least
<1>9. least \in Nat
  BY <1>1, <1>7
<1> QED BY <1>2, <1>7, <1>8, <1>9

\* What _normalize_workboard_items leaves has every id once, and it leaves such a board alone.
NormalStep(items, u) ==
  u = [i \in 0..Len(items) |->
         IF i = 0 THEN << >>
         ELSE Append(u[i - 1], [items[i] EXCEPT !.id = FreeId(@, EntryIds(u[i - 1]))])]

LEMMA NormalFollows ==
  ASSUME NEW items \in Boards
  PROVE  \E u \in [0..Len(items) -> Boards] :
           /\ u[0] = << >> /\ Normal(items) = u[Len(items)]
           /\ \A i \in 1..Len(items) :
                u[i] = Append(u[i - 1], [items[i] EXCEPT !.id = FreeId(@, EntryIds(u[i - 1]))])
<1> DEFINE N == Len(items)
           next(done, i) == Append(done, [items[i] EXCEPT !.id = FreeId(@, EntryIds(done))])
           F == [x \in Boards \X (1..N) |-> next(x[1], x[2])]
           done == CHOOSE u : NormalStep(items, u)
<1>1. N \in Nat /\ << >> \in Boards /\ \A i \in 1..N : items[i] \in Items
  BY DEF Boards
<1>2. Normal(items) = done[N]
  BY DEF Normal, NormalStep
<1>3. ASSUME NEW b \in Boards, NEW i \in 1..N PROVE next(b, i) \in Boards
  <2>1. items[i] \in Items /\ items[i].id \in BoardIds
    BY <1>1 DEF Items
  <2>2. FreeId(items[i].id, EntryIds(b)) \in BoardIds
    BY <2>1, EntriesAreFinite, FreeIdIsFree
  <2>3. [items[i] EXCEPT !.id = FreeId(@, EntryIds(b))] \in Items
    BY <2>1, <2>2 DEF Items
  <2> QED BY <2>3 DEF Boards
<1>4. F \in [Boards \X (1..N) -> Boards] /\ \A b \in Boards, i \in 1..N : F[<<b, i>>] = next(b, i)
  <2> HIDE DEF next
  <2> QED BY <1>3
<1> HIDE DEF F
<1>5. \E u : Computes(Boards, << >>, N, F, u)
  <2> HIDE DEF N, done
  <2> QED BY <1>1, <1>4, Recursion, Zenon
<1>6. PICK u \in [0..N -> Boards] : u[0] = << >> /\ \A i \in 1..N : u[i] = F[<<u[i - 1], i>>]
  BY <1>5 DEF Computes
<1>7. ASSUME NEW i \in 1..N PROVE i - 1 \in 0..N /\ u[i - 1] \in Boards /\ u[i] = next(u[i - 1], i)
  <2> HIDE DEF next, N, done
  <2>1. i - 1 \in 0..N
    BY <1>1
  <2>2. u[i - 1] \in Boards
    BY <1>6, <2>1
  <2>3. F[<<u[i - 1], i>>] = next(u[i - 1], i)
    BY <1>4, <2>2
  <2>4. u[i] = F[<<u[i - 1], i>>]
    BY <1>6
  <2> QED BY <2>1, <2>2, <2>3, <2>4
<1>8. NormalStep(items, u)
  <2>1. \A i \in 0..N : i = 0 \/ i \in 1..N
    BY <1>1
  <2>2. u = [i \in 0..N |-> u[i]]
    OBVIOUS
  <2>3. \A i \in 0..N : u[i] = IF i = 0 THEN << >> ELSE next(u[i - 1], i)
    <3> HIDE DEF next
    <3> QED BY <1>1, <1>6, <1>7, <2>1
  <2>4. u = [i \in 0..N |-> IF i = 0 THEN << >> ELSE next(u[i - 1], i)]
    <3> HIDE DEF next
    <3> QED BY <2>2, <2>3
  <2> QED BY <2>4 DEF NormalStep
<1>9. NormalStep(items, done)
  BY <1>8
<1> HIDE DEF done
<1>10. done = [i \in 0..N |-> IF i = 0 THEN << >> ELSE next(done[i - 1], i)]
  BY <1>9 DEF NormalStep
<1>11. done[0] = << >> /\ \A i \in 1..N : i - 1 \in 0..N /\ done[i] = next(done[i - 1], i)
  <2> HIDE DEF next
  <2> QED BY <1>1, <1>10, SMTT(30)
<1>12. \A i \in 0..N : done[i] \in Boards
  <2> DEFINE T == {i \in 0..N : done[i] \in Boards}
  <2>1. 0 \in T
    <3> HIDE DEF next
    <3>1. 0 \in 0..N /\ done[0] \in Boards
      BY <1>1, <1>11
    <3> QED BY <3>1
  <2>2. ASSUME NEW i \in 1..N, i - 1 \in T PROVE i \in T
    <3> HIDE DEF next
    <3>1. done[i] \in Boards /\ i \in 0..N
      BY <1>1, <1>3, <1>11, <2>2
    <3> QED BY <3>1
  <2> HIDE DEF T, N, next
  <2>3. \A i \in 0..N : i \in T
    BY <1>1, <2>1, <2>2, Induction
  <2> QED BY <2>3 DEF T
<1>13. done \in [0..N -> Boards]
  <2> HIDE DEF next
  <2>1. done = [i \in 0..N |-> done[i]]
    BY <1>10
  <2> QED BY <1>12, <2>1
<1> QED BY <1>2, <1>11, <1>13

LEMMA NormalIs ==
  ASSUME NEW items \in Boards
  PROVE  /\ Normal(items) \in Boards /\ Unique(Normal(items))
         /\ Unique(items) => Normal(items) = items
<1> DEFINE N == Len(items)
<1>1. PICK u \in [0..N -> Boards] :
        /\ u[0] = << >> /\ Normal(items) = u[N]
        /\ \A i \in 1..N :
             u[i] = Append(u[i - 1], [items[i] EXCEPT !.id = FreeId(@, EntryIds(u[i - 1]))])
  BY NormalFollows
<1> DEFINE new(i) == [items[i] EXCEPT !.id = FreeId(@, EntryIds(u[i - 1]))]
<1>2. N \in Nat /\ N \in 0..N /\ DOMAIN items = 1..N /\ \A i \in 1..N : items[i] \in Items
  BY DEF Boards
<1>3. ASSUME NEW i \in 1..N
      PROVE  /\ i - 1 \in 0..N /\ u[i - 1] \in Boards /\ new(i) \in Items /\ u[i] = Append(u[i - 1], new(i))
             /\ new(i).id \notin EntryIds(u[i - 1])
             /\ items[i].id \notin EntryIds(u[i - 1]) => new(i) = items[i]
  <2>1. i - 1 \in 0..N /\ u[i - 1] \in Boards
    BY <1>2
  <2>2. items[i] \in Items /\ items[i].id \in BoardIds
    BY <1>2 DEF Items
  <2> DEFINE id == FreeId(items[i].id, EntryIds(u[i - 1]))
  <2>3. /\ id \in BoardIds /\ id \notin EntryIds(u[i - 1])
        /\ items[i].id \notin EntryIds(u[i - 1]) => id = items[i].id
    BY <2>1, <2>2, EntriesAreFinite, FreeIdIsFree
  <2>4. new(i) = [items[i] EXCEPT !.id = id]
    OBVIOUS
  <2> HIDE DEF id, new
  <2>5. new(i) \in Items /\ new(i).id = id /\ (id = items[i].id => new(i) = items[i])
    BY <2>2, <2>3, <2>4 DEF Items
  <2>6. u[i] = Append(u[i - 1], new(i))
    BY <1>1 DEF new
  <2> QED BY <2>1, <2>3, <2>5, <2>6
<1> HIDE DEF new
<1> DEFINE Good(i) == /\ Len(u[i]) = i /\ Unique(u[i])
                      /\ Unique(items) => \A k \in 1..i : u[i][k] = items[k]
           T == {i \in 0..N : Good(i)}
<1>4. 0 \in T
  BY <1>1, <1>2 DEF Unique
<1>5. ASSUME NEW i \in 1..N, i - 1 \in T PROVE i \in T
  <2> DEFINE b == u[i - 1]
             m == new(i)
  <2>1. /\ b \in Boards /\ Len(b) = i - 1 /\ Unique(b) /\ m \in Items /\ u[i] = Append(b, m)
        /\ m.id \notin EntryIds(b) /\ (items[i].id \notin EntryIds(b) => m = items[i])
        /\ (Unique(items) => \A k \in 1..(i - 1) : b[k] = items[k])
    BY <1>3, <1>5
  <2> HIDE DEF b, m
  <2>2. /\ Len(u[i]) = i /\ DOMAIN b = 1..(i - 1) /\ DOMAIN u[i] = 1..i
        /\ u[i][i] = m /\ \A k \in 1..(i - 1) : u[i][k] = b[k]
    BY <2>1 DEF Boards
  <2>3. \A k \in 1..(i - 1) : b[k].id \in EntryIds(b)
    BY <2>2 DEF EntryIds
  <2>4. \A k \in 1..i : k = i \/ k \in 1..(i - 1)
    OBVIOUS
  <2>5. Unique(u[i])
    BY <2>1, <2>2, <2>3, <2>4 DEF Unique
  <2>6. ASSUME Unique(items), NEW k \in 1..i PROVE u[i][k] = items[k]
    <3>1. items[i].id \notin EntryIds(b)
      <4> SUFFICES ASSUME items[i].id \in EntryIds(b) PROVE FALSE
        OBVIOUS
      <4>1. PICK n \in 1..(i - 1) : b[n].id = items[i].id
        BY <2>2 DEF EntryIds
      <4>2. n \in 1..N /\ n # i /\ items[n].id = items[i].id
        BY <1>2, <2>1, <2>6, <4>1
      <4> QED BY <1>2, <2>6, <4>2 DEF Unique
    <3> QED BY <2>1, <2>2, <2>4, <2>6, <3>1
  <2>7. i \in 0..N
    BY <1>2
  <2> QED BY <2>2, <2>5, <2>6, <2>7
<1>6. Good(N)
  <2> HIDE DEF T
  <2>1. \A i \in 0..N : i \in T
    <3> HIDE DEF N
    <3> QED BY <1>2, <1>4, <1>5, Induction
  <2>2. N \in T
    BY <1>2, <2>1
  <2> QED BY <2>2 DEF T
<1>7. Normal(items) \in Boards /\ Unique(Normal(items)) /\ Len(Normal(items)) = N
  BY <1>1, <1>2, <1>6
<1>8. ASSUME Unique(items) PROVE Normal(items) = items
  <2>1. \A k \in 1..N : Normal(items)[k] = items[k]
    BY <1>1, <1>6, <1>8
  <2> QED BY <1>2, <1>7, <2>1 DEF Boards
<1> QED BY <1>7, <1>8

LEMMA ApplyIs ==
  ASSUME NEW items \in Boards, NEW op \in Operations, NEW id \in Names
  PROVE  Apply(items, op, id) \in Boards
<1> DEFINE named == {i \in DOMAIN items : items[i].id = id}
           others == DOMAIN items \ named
           rest == {i \in DOMAIN items : items[i].status # "completed"}
<1>1. id \in BoardIds /\ named \in SUBSET (DOMAIN items) /\ others \in SUBSET (DOMAIN items) /\ rest \in SUBSET (DOMAIN items)
  <2>1. PICK n \in ItemNames : id = <<n>>
    BY DEF Names
  <2>2. id \in BoardIds
    BY <2>1 DEF BoardIds
  <2> QED BY <2>2
<1>2. Picked(items, named) \in Boards /\ Picked(items, others) \in Boards /\ Picked(items, rest) \in Boards
  <2> HIDE DEF named, others, rest
  <2> QED BY <1>1, PickedIs DEF Boards
<1>3. Picked(items, named) \o Picked(items, others) \in Boards
  <2> HIDE DEF named, others, rest
  <2> QED BY <1>2 DEF Boards
<1>4. ASSUME NEW status \in States PROVE SetStatus(items, id, status) \in Boards
  <2>1. Len(items) \in Nat /\ DOMAIN items = 1..Len(items) /\ \A i \in DOMAIN items : items[i] \in Items
    BY DEF Boards
  <2>2. \A i \in DOMAIN items : [items[i] EXCEPT !.status = status] \in Items
    BY <2>1 DEF Items
  <2>3. SetStatus(items, id, status) \in [1..Len(items) -> Items]
    BY <2>1, <2>2 DEF SetStatus
  <2> QED BY <2>1, <2>3 DEF Boards
<1>5. \A n \in BoardIds : [id |-> n, status |-> "pending"] \in Items
  BY DEF Items, States
<1>6. Append(items, [id |-> FreeId(id, EntryIds(items)), status |-> "pending"]) \in Boards
  <2>1. FreeId(id, EntryIds(items)) \in BoardIds
    BY <1>1, EntriesAreFinite, FreeIdIsFree
  <2> QED BY <1>5, <2>1 DEF Boards
<1>7. <<[id |-> id, status |-> "pending"]>> \in Boards
  BY <1>1, <1>5 DEF Boards
<1>8. {"in_progress", "completed"} \subseteq States
  BY DEF States
<1>9. /\ op = "add" => Apply(items, op, id) = Append(items, [id |-> FreeId(id, EntryIds(items)), status |-> "pending"])
      /\ op = "start" => Apply(items, op, id) = SetStatus(items, id, "in_progress")
      /\ op = "complete" => Apply(items, op, id) = SetStatus(items, id, "completed")
      /\ op = "remove" => Apply(items, op, id) = Picked(items, others)
      /\ op = "front" => Apply(items, op, id) = Picked(items, named) \o Picked(items, others)
      /\ op = "replace" => Apply(items, op, id) \in {Picked(items, named), <<[id |-> id, status |-> "pending"]>>}
      /\ op = "archive" => Apply(items, op, id) = Picked(items, rest)
  BY DEF Apply
<1> HIDE DEF named, others, rest
<1> QED BY <1>2, <1>3, <1>4, <1>6, <1>7, <1>8, <1>9 DEF Operations

LEMMA UpdateIs ==
  ASSUME NEW items \in Boards, NEW op \in Operations, NEW id \in Names
  PROVE  Update(items, op, id) \in Boards /\ Unique(Update(items, op, id))
BY NormalIs, ApplyIs DEF Update

LEMMA CancelledIs ==
  ASSUME NEW items \in Boards, NEW ids
  PROVE  /\ Cancelled(items, ids) \in Boards
         /\ Unique(items) => Unique(Cancelled(items, ids))
         /\ ids = {} => Cancelled(items, ids) = items
<1>1. Len(items) \in Nat /\ DOMAIN items = 1..Len(items) /\ \A i \in DOMAIN items : items[i] \in Items
  BY DEF Boards
<1>2. \A i \in DOMAIN items : [items[i] EXCEPT !.status = "cancelled"] \in Items
                              /\ [items[i] EXCEPT !.status = "cancelled"].id = items[i].id
  BY <1>1 DEF Items, States
<1> DEFINE c == Cancelled(items, ids)
<1>3. /\ DOMAIN c = 1..Len(items) /\ \A i \in 1..Len(items) : c[i] \in Items /\ c[i].id = items[i].id
      /\ c = [i \in 1..Len(items) |-> c[i]]
      /\ ids = {} => \A i \in 1..Len(items) : c[i] = items[i]
  BY <1>1, <1>2 DEF Cancelled
<1> HIDE DEF c
<1>4. c \in [1..Len(items) -> Items]
  BY <1>3
<1>5. c \in Boards /\ Len(c) = Len(items)
  BY <1>1, <1>4 DEF Boards
<1>6. Unique(items) => Unique(c)
  BY <1>1, <1>3 DEF Unique
<1>7. ids = {} => c = items
  BY <1>1, <1>3, <1>5 DEF Boards
<1> QED BY <1>5, <1>6, <1>7 DEF c

\* A board is what acknowledged updates have made of it as long as nobody overlapped: what is
\* in its file is what the operations expect, a request of the page holds what is in the
\* file, a stop holds what is in progress; and once anything is in progress on a board,
\* every id is on it once.
BoardTypes ==
  /\ board \in Boards /\ expected \in Boards
  /\ patch \in [op : Operations \cup {"none", "read"}, id : Names \cup {<< >>}, items : Boards]
  /\ patch.op \in Operations => patch.id \in Names
  /\ stop = NoStop \/ stop.by \in Both
  /\ spoken \subseteq Both \X Questions \X {"answer", "stopped"}
BoardAgrees ==
  /\ board = expected /\ (Unique(board) \/ InProgress(board) = {})
  /\ patch # Quiet => patch.items = board
  /\ stop # NoStop => stop.ids = InProgress(board)
BoardInv == BoardTypes /\ (overlap \/ BoardAgrees)

LEMMA BoardInitHolds == StateInit => BoardInv
<1> SUFFICES ASSUME StateInit PROVE BoardInv
  OBVIOUS
<1>1. PICK n \in ItemNames : board \in {<< >>, <<[id |-> <<n>>, status |-> "pending"], [id |-> <<n>>, status |-> "pending"]>>}
  BY DEF StateInit
<1>2. [id |-> <<n>>, status |-> "pending"] \in Items
  BY DEF Items, BoardIds, States
<1> DEFINE item == [id |-> <<n>>, status |-> "pending"]
<1>3. board \in Boards /\ \A i \in DOMAIN board : board[i].status = "pending"
  <2>1. item \in Items /\ item.status = "pending" /\ board \in {<< >>, <<item, item>>}
    BY <1>1, <1>2
  <2> HIDE DEF item
  <2>2. << >> \in Seq(Items) /\ <<item, item>> \in Seq(Items)
    BY <2>1
  <2>3. \A i \in DOMAIN <<item, item>> : <<item, item>>[i] = item
    OBVIOUS
  <2>4. CASE board = << >>
    BY <2>2, <2>4 DEF Boards
  <2>5. CASE board = <<item, item>>
    BY <2>1, <2>2, <2>3, <2>5 DEF Boards
  <2> QED BY <2>1, <2>4, <2>5
<1>4. InProgress(board) = {}
  BY <1>3 DEF InProgress
<1>5. /\ expected = board /\ patch = Quiet /\ stop = NoStop /\ spoken = {} /\ overlap = FALSE
      /\ << >> \in Boards /\ Quiet.op = "none"
  BY DEF StateInit, Boards, Quiet
<1>6. patch \in [op : Operations \cup {"none", "read"}, id : Names \cup {<< >>}, items : Boards]
  BY <1>5 DEF Quiet
<1> QED BY <1>3, <1>4, <1>5, <1>6 DEF BoardInv, BoardTypes, BoardAgrees, Operations

LEMMA BoardStepHolds == BoardInv /\ QuestionInv /\ [StateNext]_stateVars => BoardInv'
<1> SUFFICES ASSUME BoardInv, QuestionInv, [StateNext]_stateVars PROVE BoardInv'
  OBVIOUS
<1>0. /\ board \in Boards /\ expected \in Boards /\ patch.items \in Boards /\ patch.op \in Operations \cup {"none", "read"}
      /\ Agent \in Both /\ Subagent \in Both
  BY DEF BoardInv, BoardTypes, Both
<1>q. Quiet \in [op : Operations \cup {"none", "read"}, id : Names \cup {<< >>}, items : Boards] /\ Quiet.op \notin Operations
  BY DEF Quiet, Boards, Operations
<1>1. CASE UNCHANGED <<board, patch, stop, spoken, expected, overlap>>
  BY <1>1 DEF BoardInv, BoardTypes, BoardAgrees
<1>2. ASSUME NEW s \in Both, NEW op \in Operations, NEW id \in Names, UpdateBoard(s, op, id) PROVE BoardInv'
  <2>1. /\ board' = Update(board, op, id) /\ expected' = Update(expected, op, id) /\ stop = NoStop
        /\ UNCHANGED <<patch, stop, spoken>> /\ (~overlap' => ~overlap /\ patch = Quiet)
    BY <1>2 DEF UpdateBoard, Waits, Both
  <2>2. board' \in Boards /\ Unique(board') /\ expected' \in Boards
    BY <1>0, <2>1, UpdateIs
  <2>3. BoardTypes'
    BY <2>1, <2>2 DEF BoardInv, BoardTypes
  <2>4. ~overlap' => BoardAgrees'
    BY <2>1, <2>2 DEF BoardInv, BoardAgrees
  <2> QED BY <2>3, <2>4 DEF BoardInv
<1>3. ASSUME NEW op \in Operations, NEW id \in Names, BeginPatch(op, id) PROVE BoardInv'
  <2>1. patch' = [op |-> op, id |-> id, items |-> board] /\ UNCHANGED <<board, stop, spoken, expected, overlap>>
    BY <1>3 DEF BeginPatch
  <2>2. patch' \in [op : Operations \cup {"none", "read"}, id : Names \cup {<< >>}, items : Boards] /\ patch'.id \in Names
        /\ patch'.items = board
    BY <1>0, <2>1
  <2>3. BoardTypes'
    BY <2>1, <2>2 DEF BoardInv, BoardTypes
  <2> QED BY <2>1, <2>2, <2>3 DEF BoardInv, BoardAgrees
<1>4. CASE EndPatch
  <2>1. /\ patch.op \in Operations /\ patch.id \in Names
        /\ board' = Update(patch.items, patch.op, patch.id) /\ expected' = Update(expected, patch.op, patch.id)
        /\ patch' = Quiet /\ UNCHANGED <<stop, spoken>> /\ (~overlap' => ~overlap /\ stop = NoStop) /\ patch # Quiet
    BY <1>4, <1>q DEF EndPatch, BoardInv, BoardTypes
  <2>2. board' \in Boards /\ Unique(board') /\ expected' \in Boards
    BY <1>0, <2>1, UpdateIs
  <2>3. BoardTypes'
    BY <1>q, <2>1, <2>2 DEF BoardInv, BoardTypes
  <2>4. ~overlap' => BoardAgrees'
    BY <2>1, <2>2 DEF BoardInv, BoardAgrees
  <2> QED BY <2>3, <2>4 DEF BoardInv
<1>5. CASE BeginRead
  <2>1. patch' = [op |-> "read", id |-> << >>, items |-> board] /\ UNCHANGED <<board, stop, spoken, expected, overlap>>
    BY <1>5 DEF BeginRead
  <2>2. patch' \in [op : Operations \cup {"none", "read"}, id : Names \cup {<< >>}, items : Boards] /\ patch'.op \notin Operations
        /\ patch'.items = board
    BY <1>0, <2>1 DEF Operations
  <2>3. BoardTypes'
    BY <2>1, <2>2 DEF BoardInv, BoardTypes
  <2> QED BY <2>1, <2>2, <2>3 DEF BoardInv, BoardAgrees
<1>6. CASE EndRead
  <2>1. /\ board' = Normal(patch.items) /\ expected' = Normal(expected) /\ patch' = Quiet /\ UNCHANGED <<stop, spoken>>
        /\ (~overlap' => ~overlap /\ stop = NoStop /\ board = patch.items)
    BY <1>6 DEF EndRead
  <2>2. board' \in Boards /\ Unique(board') /\ expected' \in Boards
    BY <1>0, <2>1, NormalIs
  <2>3. BoardTypes'
    BY <1>q, <2>1, <2>2 DEF BoardInv, BoardTypes
  <2>4. ~overlap' => BoardAgrees'
    BY <2>1, <2>2 DEF BoardInv, BoardAgrees
  <2> QED BY <2>3, <2>4 DEF BoardInv
<1>7. ASSUME NEW s \in Both, BeginStop(s) PROVE BoardInv'
  <2>1. /\ stop' = [by |-> s, ids |-> InProgress(board)] /\ UNCHANGED <<board, patch, spoken, expected>>
        /\ (~overlap' => ~overlap)
    BY <1>7 DEF BeginStop, InProgress
  <2>2. stop'.by = s /\ stop'.ids = InProgress(board)
    BY <2>1
  <2>3. BoardTypes'
    BY <2>1, <2>2 DEF BoardInv, BoardTypes
  <2>4. InProgress(board)' = InProgress(board)
    BY <2>1 DEF InProgress
  <2> QED BY <2>1, <2>2, <2>3, <2>4 DEF BoardInv, BoardAgrees
<1>8. CASE EndStop
  <2>1. /\ stop # NoStop /\ stop' = NoStop /\ UNCHANGED patch
        /\ board' = IF stop.ids = {} THEN board ELSE Normal(Cancelled(Normal(board), stop.ids))
        /\ expected' = Cancelled(expected, InProgress(expected))
        /\ spoken' = spoken \cup Noted(stop.by, pending)
        /\ (~overlap' => ~overlap /\ patch = Quiet)
    BY <1>8 DEF EndStop
  <2>2. board' \in Boards /\ expected' \in Boards
    BY <1>0, <2>1, NormalIs, CancelledIs
  <2>3. Noted(stop.by, pending) \subseteq Both \X Questions \X {"answer", "stopped"}
    BY <2>1 DEF Noted, BoardInv, BoardTypes, QuestionInv, QuestionTypes
  <2>4. BoardTypes'
    BY <2>1, <2>2, <2>3 DEF BoardInv, BoardTypes
  <2>5. ASSUME ~overlap' PROVE board' = expected' /\ (Unique(board') \/ InProgress(board)' = {})
    <3>1. /\ board = expected /\ (Unique(board) \/ InProgress(board) = {}) /\ stop.ids = InProgress(board)
      BY <2>1, <2>5 DEF BoardInv, BoardAgrees
    <3>2. CASE InProgress(board) = {}
      <4>1. board' = board /\ expected' = expected
        BY <1>0, <2>1, <3>1, <3>2, CancelledIs
      <4>2. InProgress(board)' = InProgress(board)
        BY <4>1 DEF InProgress
      <4> QED BY <3>1, <3>2, <4>1, <4>2
    <3>3. CASE InProgress(board) # {}
      <4>1. Unique(board) /\ Normal(board) = board
        BY <1>0, <3>1, <3>3, NormalIs
      <4>2. Cancelled(board, stop.ids) \in Boards /\ Unique(Cancelled(board, stop.ids))
        BY <1>0, <4>1, CancelledIs
      <4>3. board' = Cancelled(board, stop.ids)
        BY <2>1, <3>1, <3>3, <4>1, <4>2, NormalIs
      <4> QED BY <2>1, <3>1, <4>2, <4>3
    <3> QED BY <3>2, <3>3
  <2>6. ~overlap' => BoardAgrees'
    BY <2>1, <2>5 DEF BoardAgrees
  <2> QED BY <2>4, <2>6 DEF BoardInv
<1>9. ASSUME NEW q \in Questions, AnswerQuestion(q) PROVE BoardInv'
  <2>1. UNCHANGED <<board, patch, stop, expected, overlap>> /\ spoken' = spoken \cup {<<Agent, q, "answer">>}
    BY <1>9 DEF AnswerQuestion
  <2> QED BY <1>0, <2>1 DEF BoardInv, BoardTypes, BoardAgrees
<1>10. ASSUME NEW s \in Both, NEW q \in Questions, PutQuestion(s, q) PROVE BoardInv'
  BY <1>1, <1>10 DEF PutQuestion
<1>11. CASE UNCHANGED stateVars
  BY <1>1, <1>11 DEF stateVars
<1> QED BY <1>2, <1>3, <1>4, <1>5, <1>6, <1>7, <1>8, <1>9, <1>10, <1>11 DEF StateNext

LEMMA BoardInvIsEnough == BoardInv /\ QuestionInv => StateTypeOK /\ StateIsKept
<1> SUFFICES ASSUME BoardInv, QuestionInv PROVE StateTypeOK /\ StateIsKept
  OBVIOUS
<1>1. \A b \in {board, expected} : \A i \in DOMAIN b : b[i].status \in States
  <2>1. ASSUME NEW b \in Boards, NEW i \in DOMAIN b PROVE b[i].status \in States
    <3>1. b[i] \in Items
      BY DEF Boards
    <3> QED BY <3>1 DEF Items
  <2> QED BY <2>1 DEF BoardInv, BoardTypes
<1>2. StateTypeOK
  BY <1>1 DEF StateTypeOK, BoardInv, BoardTypes, QuestionInv, QuestionTypes, Operations, NoStop
<1>3. BoardLosesNothing
  BY DEF BoardInv, BoardAgrees, BoardLosesNothing
<1> QED BY <1>2, <1>3 DEF StateIsKept, QuestionInv

-----------------------------------------------------------------------------
(* The composition *)

\* Calls of host tools, for any number of sessions, subagents and tokens: a call has at
\* most one effect and what is reported of it is so; and a session that shares its
\* credentials with nobody can always refresh them (tool_service.py).
THEOREM CredentialsAreKept == HostSpec => []HostCallsAreSound
<1>. QED BY HostInitHolds, HostStepHolds, HostInvIsEnough, PTL DEF HostSpec

\* Shell calls, for any number of calls and chunks: what the page was shown is what the log
\* says, chunk by chunk, and the entry of a call that ended shows all of it
\* (tool_execution_service.py).
THEOREM OutputsAreExact == ShellSpec => []ShellOutputIsExact
<1>. QED BY ShellInitHolds, ShellStepHolds, ShellInvIsEnough, PTL DEF ShellSpec

LEMMA CallsInvHolds == CallsSpec => [](HostInv /\ ShellInv /\ QuestionInv /\ BoardInv)
<1>1. CallsInit => HostInv /\ ShellInv /\ QuestionInv /\ BoardInv
  BY HostInitHolds, ShellInitHolds, QuestionInitHolds, BoardInitHolds DEF CallsInit
<1>2. ASSUME HostInv, ShellInv, QuestionInv, BoardInv,
             [CallsNext /\ UNCHANGED focus]_<<focus, vars, shellVars, hostVars, stateVars>>
      PROVE  HostInv' /\ ShellInv' /\ QuestionInv' /\ BoardInv'
  <2>1. [HostNext]_hostVars /\ [ShellNext]_shellVars /\ [StateNext]_stateVars
    BY <1>2 DEF CallsNext
  <2>. QED BY <1>2, <2>1, HostStepHolds, ShellStepHolds, QuestionStepHolds, BoardStepHolds
<1>. QED BY <1>1, <1>2, PTL DEF CallsSpec

LEMMA RunsAlone == CallsSpec \/ ProgressSpec => Spec
<1>1. CallsInit => Init
  BY DEF CallsInit
<1>2. [CallsNext /\ UNCHANGED focus]_<<focus, vars, shellVars, hostVars, stateVars>> => [Next]_vars
  BY DEF CallsNext, OneSessionNext, TwoSessionsNext, Next, vars
<1>3. [Next /\ UNCHANGED <<focus, shellVars, hostVars, stateVars>>]_<<focus, vars, shellVars, hostVars, stateVars>>
        => [Next]_vars
  OBVIOUS
<1>. QED BY <1>1, <1>2, <1>3, PTL DEF CallsSpec, ProgressSpec, Spec

\* The same in the specification the run checks, whatever requests are made and whatever
\* fails: a session has one driver, and it is the one it is registered with
\* (agent_run_service.py, start_chat_run and _close_run).
THEOREM SessionsHaveOneDriver == CallsSpec => []TypeOK /\ []OneDriver /\ []DriversAreRegistered
BY RunsAlone, TypeCorrect, OneDriverHolds, DriversStayRegistered

\* What tools, the host and the user tell a run reaches it whole, in the specification the
\* runs check, whatever the constants.
THEOREM CallsReachRuns == CallsSpec => []CallsAreSound
<1>1. HostInv /\ ShellInv /\ QuestionInv /\ BoardInv => CallsAreSound
  BY HostInvIsEnough, ShellInvIsEnough, BoardInvIsEnough DEF CallsAreSound
<1>. QED BY <1>1, CallsInvHolds, PTL

\* Every update of a work board that was acknowledged is in it, for any number of items and of
\* updates by tools, by the page and by stops, unless two were at it at once; a board that has
\* an id twice is put in order on the way (runtime_state/service.py).
THEOREM BoardsLoseNothing == StateSpec => []StateIsKept
<1>1. BoardInv /\ QuestionInv /\ [StateNext]_stateVars => BoardInv' /\ QuestionInv'
  BY BoardStepHolds, QuestionStepHolds
<1>. QED BY <1>1, BoardInitHolds, QuestionInitHolds, BoardInvIsEnough, PTL DEF StateSpec

\* The model is told how its question ended, once and as it did: by the answer or that it
\* was stopped, and nothing of one that is open or was replaced (runtime_state/service.py).
THEOREM QuestionsAreAnswered == CallsSpec => []QuestionsAreTold
<1>1. QuestionInv => QuestionsAreTold
  BY DEF QuestionInv
<1>. QED BY <1>1, CallsInvHolds, PTL
=============================================================================
