-------------------------------- MODULE Execution ------------------------------
(***************************************************************************)
(* ScheduleExecutor.execute: a worker turns a trigger of a task into an    *)
(* agent run and records how it ended.  Scheduling.tla takes the outcome   *)
(* as given; here it comes from the session, the policy of the task, a     *)
(* driver that may swallow a cancellation or die of it, and the stop of    *)
(* the scheduler.                                                          *)
(*                                                                         *)
(* asyncio.wait_for awaits the driver's task itself: a timeout and a stop  *)
(* cancel the driver, and the worker goes on when that task is done.       *)
(***************************************************************************)
EXTENDS Naturals

CONSTANTS
  Triggers,        \* rows of scheduled_task_runs of one task, all queued
  Crew,            \* the workers
  Unassigned

ASSUME ExecutionAssumption == Unassigned \notin Triggers

VARIABLES
  plan,            \* target_mode and concurrency_policy of the task
  outcome,         \* status of the row of a trigger
  hand,            \* what a worker does for which trigger
  agent,           \* status of the agent run of a trigger
  task,            \* its driver: in the turn, in the clean-up, done, or done by CancelledError
  verdict,         \* the status the clean-up will publish
  struck,          \* a cancellation of the driver's task is pending
  resumed,         \* an answer made the run go on after it had waited
  guest,           \* a user's run in the session existing_session names
  halted           \* the scheduler was stopped
executionVars == <<plan, outcome, hand, agent, task, verdict, struck, resumed, guest, halted>>

Settled == {"succeeded", "failed", "skipped", "timed_out", "cancelled"}
Hand(f, step) == [trigger |-> f, step |-> step, expired |-> FALSE]
NoHand == Hand(Unassigned, "idle")

ExecutionTypeOK ==
  /\ plan \in {"skip", "queue", "fresh"}
  /\ outcome \in [Triggers -> {"queued", "running"} \cup Settled]
  /\ hand \in [Crew -> [trigger : Triggers \cup {Unassigned}, expired : BOOLEAN,
                        step : {"idle", "start", "sleep", "wait", "timeout", "cancelled", "gone"}]]
  /\ agent \in [Triggers -> {"none", "running", "waiting_input", "completed", "failed", "cancelled"}]
  /\ task \in [Triggers -> {"none", "turn", "cleanup", "done", "dead"}]
  /\ verdict \in [Triggers -> {"none", "waiting_input", "completed", "failed", "cancelled"}]
  /\ struck \in [Triggers -> BOOLEAN] /\ resumed \in [Triggers -> BOOLEAN]
  /\ guest \in BOOLEAN /\ halted \in BOOLEAN

ExecutionInit ==
  /\ plan \in {"skip", "queue", "fresh"}
  /\ outcome = [f \in Triggers |-> "queued"]
  /\ hand = [w \in Crew |-> NoHand]
  /\ agent = [f \in Triggers |-> "none"]
  /\ task = [f \in Triggers |-> "none"]
  /\ verdict = [f \in Triggers |-> "none"]
  /\ struck = [f \in Triggers |-> FALSE]
  /\ resumed = [f \in Triggers |-> FALSE]
  /\ guest = FALSE /\ halted = FALSE

runVars == <<agent, task, verdict, struck, resumed>>

\* a fresh session is free; the other one may hold one run
Shared == plan # "fresh"
Busy(f) == agent[f] \in {"running", "waiting_input"} \/ task[f] \in {"turn", "cleanup"}
Occupied == Shared /\ (guest \/ \E f \in Triggers : Busy(f))

\* finish_schedule_run, and the worker takes the next one
Record(w, status) ==
  /\ outcome' = [outcome EXCEPT ![hand[w].trigger] = IF @ = "running" THEN status ELSE @]
  /\ hand' = [hand EXCEPT ![w] = NoHand]

At(w, step) == hand[w].step = step
Proceed(w, step) == hand' = [hand EXCEPT ![w].step = step]

\* claim_next_schedule_run and _prepare_session; an error there is recorded
Take(w, f) ==
  /\ ~halted /\ At(w, "idle") /\ outcome[f] = "queued"
  /\ \/ /\ plan = "skip" /\ Occupied
        /\ outcome' = [outcome EXCEPT ![f] = "skipped"] /\ UNCHANGED hand
     \/ /\ outcome' = [outcome EXCEPT ![f] = "failed"] /\ UNCHANGED hand
     \/ /\ ~(plan = "skip" /\ Occupied)
        /\ outcome' = [outcome EXCEPT ![f] = "running"]
        /\ hand' = [hand EXCEPT ![w] = Hand(f, "start")]
  /\ UNCHANGED <<plan, runVars, guest, halted>>

\* start_chat_run: the driver begins, or the session cannot be saved
BeginRun(w) ==
  LET f == hand[w].trigger IN
  /\ At(w, "start") /\ ~Occupied
  /\ \/ /\ agent' = [agent EXCEPT ![f] = "running"]
        /\ task' = [task EXCEPT ![f] = "turn"]
        /\ Proceed(w, "wait") /\ UNCHANGED outcome
     \/ /\ agent' = [agent EXCEPT ![f] = "failed"]
        /\ Record(w, "failed") /\ UNCHANGED task
  /\ UNCHANGED <<plan, verdict, struck, resumed, guest, halted>>

\* _start_with_policy: the session is taken; without "queue" the trigger fails, and with it
\* the worker asks again until the time of the task is over
Refused(w) ==
  LET f == hand[w].trigger IN
  /\ At(w, "start") /\ Occupied
  /\ \/ plan = "queue" /\ Proceed(w, "sleep") /\ UNCHANGED outcome
     \/ Record(w, "failed")
  /\ UNCHANGED <<plan, runVars, guest, halted>>

Awake(w) ==
  /\ At(w, "sleep") /\ Proceed(w, "start")
  /\ UNCHANGED <<plan, outcome, runVars, guest, halted>>

\* the turn ends by itself, or as an abort when the driver is cancelled in it
EndTurn(f) ==
  /\ task[f] = "turn"
  /\ task' = [task EXCEPT ![f] = "cleanup"]
  /\ struck' = [struck EXCEPT ![f] = FALSE]
  /\ \E v \in {"waiting_input", "completed", "failed", "cancelled"} :
       /\ struck[f] => v = "cancelled"
       /\ verdict' = [verdict EXCEPT ![f] = v]
  /\ UNCHANGED <<plan, outcome, hand, agent, resumed, guest, halted>>

CleanUp(f) ==
  /\ task[f] = "cleanup" /\ ~struck[f]
  /\ task' = [task EXCEPT ![f] = "done"]
  /\ agent' = [agent EXCEPT ![f] = verdict[f]]
  /\ verdict' = [verdict EXCEPT ![f] = "none"]
  /\ UNCHANGED <<plan, outcome, hand, struck, resumed, guest, halted>>

\* CancelledError passes the clean-up, before or after the publication of the end
Die(f) ==
  /\ task[f] = "cleanup" /\ struck[f]
  /\ task' = [task EXCEPT ![f] = "dead"]
  /\ struck' = [struck EXCEPT ![f] = FALSE]
  /\ \E status \in {agent[f], verdict[f]} : agent' = [agent EXCEPT ![f] = status]
  /\ verdict' = [verdict EXCEPT ![f] = "none"]
  /\ UNCHANGED <<plan, outcome, hand, resumed, guest, halted>>

\* cancel_run of a user whose grace period ended
Strike(f) ==
  /\ task[f] \in {"turn", "cleanup"} /\ ~struck[f]
  /\ struck' = [struck EXCEPT ![f] = TRUE]
  /\ UNCHANGED <<plan, outcome, hand, agent, task, verdict, resumed, guest, halted>>

\* resume_elicitation_run: the run of a trigger that may be settled goes on by the answer of a
\* user; the driver of that part is not the one the worker awaits
Resume(f) ==
  /\ agent[f] = "waiting_input" /\ (task[f] = "done" \/ outcome[f] \in Settled) /\ ~resumed[f]
  /\ agent' = [agent EXCEPT ![f] = "running"]
  /\ resumed' = [resumed EXCEPT ![f] = TRUE]
  /\ UNCHANGED <<plan, outcome, hand, task, verdict, struck, guest, halted>>

EndResumed(f) ==
  /\ agent[f] = "running" /\ resumed[f]
  /\ \E status \in {"waiting_input", "completed", "failed", "cancelled"} : agent' = [agent EXCEPT ![f] = status]
  /\ UNCHANGED <<plan, outcome, hand, task, verdict, struck, resumed, guest, halted>>

\* a user cancels a run that waits, or its time ends (cancel_orphan_agent_run)
Withdraw(f) ==
  /\ agent[f] = "waiting_input" /\ task[f] \in {"done", "dead"}
  /\ agent' = [agent EXCEPT ![f] = "cancelled"]
  /\ UNCHANGED <<plan, outcome, hand, task, verdict, struck, resumed, guest, halted>>

TimeOut(w) ==
  LET f == hand[w].trigger IN
  /\ At(w, "wait") /\ ~hand[w].expired /\ task[f] \in {"turn", "cleanup"}
  /\ hand' = [hand EXCEPT ![w] = [trigger |-> f, step |-> "wait", expired |-> TRUE]]
  /\ struck' = [struck EXCEPT ![f] = TRUE]
  /\ UNCHANGED <<plan, outcome, agent, task, verdict, resumed, guest, halted>>

\* mutant: only a failure is recorded as one
Answered_Hopes(w) ==
  LET f == hand[w].trigger IN
  /\ At(w, "wait") /\ task[f] = "done"
  /\ Record(w, IF agent[f] \in {"failed", "cancelled"} THEN "failed" ELSE "succeeded")
  /\ UNCHANGED <<plan, runVars, guest, halted>>

\* wait_for_run returns: by the status of the row, also when the driver swallowed the
\* cancellation of a timeout
Answered(w) ==
  LET f == hand[w].trigger IN
  /\ At(w, "wait") /\ task[f] = "done"
  /\ Record(w, IF agent[f] = "completed" THEN "succeeded" ELSE "failed")
  /\ UNCHANGED <<plan, runVars, guest, halted>>

\* the task was cancelled: a TimeoutError after the timeout, and without one a
\* CancelledError, as if the scheduler were being stopped
Interrupted(w) ==
  /\ At(w, "wait") /\ task[hand[w].trigger] = "dead"
  /\ Proceed(w, IF hand[w].expired THEN "timeout" ELSE "cancelled")
  /\ UNCHANGED <<plan, outcome, runVars, guest, halted>>

\* cancel_run on a run without a driver
CancelledRow(f) == IF agent[f] \in {"running", "waiting_input"} THEN "cancelled" ELSE agent[f]

\* mutant: the row of the run is left to somebody else
AfterTimeout_Leaves(w) ==
  /\ At(w, "timeout")
  /\ Record(w, "timed_out")
  /\ UNCHANGED <<plan, runVars, guest, halted>>

AfterTimeout(w) ==
  LET f == hand[w].trigger IN
  /\ At(w, "timeout")
  /\ agent' = [agent EXCEPT ![f] = CancelledRow(f)]
  /\ Record(w, IF CancelledRow(f) \in {"failed", "cancelled"} THEN "timed_out" ELSE "failed")
  /\ UNCHANGED <<plan, task, verdict, struck, resumed, guest, halted>>

\* `except asyncio.CancelledError`: the worker records it, raises, and returns for good
AfterCancel(w) ==
  LET f == hand[w].trigger IN
  /\ At(w, "cancelled")
  /\ agent' = [agent EXCEPT ![f] = CancelledRow(f)]
  /\ outcome' = [outcome EXCEPT ![f] = "cancelled"]
  /\ hand' = [hand EXCEPT ![w] = Hand(Unassigned, "gone")]
  /\ UNCHANGED <<plan, task, verdict, struck, resumed, guest, halted>>

\* stop(): every worker is cancelled in its await; that of wait_for is the driver
Halt ==
  /\ ~halted /\ \A w \in Crew : hand[w].step \notin {"timeout", "cancelled"}
  /\ halted' = TRUE
  /\ struck' = [f \in Triggers |-> struck[f] \/ (task[f] \in {"turn", "cleanup"}
                                                 /\ \E w \in Crew : At(w, "wait") /\ hand[w].trigger = f)]
  /\ outcome' = [f \in Triggers |-> IF \E w \in Crew : hand[w].trigger = f /\ hand[w].step \in {"start", "sleep"}
                                    THEN "cancelled" ELSE outcome[f]]
  /\ hand' = [w \in Crew |-> IF hand[w].step \in {"idle", "start", "sleep"}
                             THEN Hand(Unassigned, "gone") ELSE hand[w]]
  /\ UNCHANGED <<plan, agent, task, verdict, resumed, guest>>

Visit ==
  /\ Shared /\ (guest \/ ~Occupied)
  /\ guest' = ~guest
  /\ UNCHANGED <<plan, outcome, hand, runVars, halted>>

ExecutionNext ==
  \/ \E w \in Crew, f \in Triggers : Take(w, f)
  \/ \E w \in Crew : BeginRun(w) \/ Refused(w) \/ Awake(w) \/ TimeOut(w) \/ Answered(w)
                     \/ Interrupted(w) \/ AfterTimeout(w) \/ AfterCancel(w)
  \/ \E f \in Triggers : EndTurn(f) \/ CleanUp(f) \/ Die(f) \/ Strike(f)
                         \/ Resume(f) \/ EndResumed(f) \/ Withdraw(f)
  \/ Halt \/ Visit

ExecutionSpec == ExecutionInit /\ [][ExecutionNext]_executionVars

Running(f) == agent[f] = "running" \/ task[f] \in {"turn", "cleanup"}

\* What the history of a task says is what happened (finish_schedule_run in execute): a success
\* has a completed run, a trigger that was skipped has none, a timeout a run that did not
\* complete, and no trigger is settled while its run goes on, unless a user answered a
\* question of it.  A session has one run at a time, whoever began it, and a trigger is in one
\* hand.  A worker is only lost to a stop or to a
\* driver that died of a cancellation.
ExecutionIsRecorded ==
  /\ \A f \in Triggers :
       /\ outcome[f] = "succeeded" => agent[f] = "completed"
       /\ outcome[f] = "skipped" => agent[f] = "none"
       /\ outcome[f] = "timed_out" => agent[f] \in {"failed", "cancelled"}
       /\ outcome[f] \in Settled => ~Running(f) \/ resumed[f]
       /\ outcome[f] = "running" => \E w \in Crew : hand[w].trigger = f
       /\ Shared /\ Running(f) => ~guest /\ \A g \in Triggers \ {f} : ~Running(g)
  /\ \A w \in Crew : At(w, "gone") => halted \/ \E f \in Triggers : task[f] = "dead" /\ outcome[f] = "cancelled"
=============================================================================
