--------------------------------- MODULE Turns ---------------------------------
(***************************************************************************)
(* AgentEngine: the rounds of a run, and the history the model is shown.   *)
(* Every round asks the model once.  Its attempt is a row of the durable   *)
(* ledger (context_attempts) before the stream begins and after it ends;   *)
(* the calls it proposes are claimed in context_tool_executions before     *)
(* they run and get a receipt after; the round and the results enter       *)
(* session.messages only then.  A run can be cut off between any two of    *)
(* these steps; recover_attempts and the repair at the next start bring    *)
(* the history back to something a model accepts.                          *)
(*                                                                         *)
(* A step that changes the messages also saves them: a crash before the    *)
(* save is a crash before the step.  Projections (renderings of a round    *)
(* that is already there) and notices are left out, the model adapter      *)
(* drops the first and no property tells the second.                       *)
(***************************************************************************)
EXTENDS Naturals, FiniteSets, SequencesExt, Lists

CONSTANTS
  MaxAttempts,    \* rounds in all
  MaxCalls,       \* calls that the answers propose in all
  MaxRuns,        \* runs of the session
  MaxIncidents,   \* results of subagents and process crashes
  StallRounds     \* settings.agent_max_stall_rounds

\* with no stall rounds the engine does not look for a stall, which is not modelled
ASSUME TurnsAssumption ==
  {MaxAttempts, MaxCalls, MaxRuns, MaxIncidents} \subseteq Nat /\ StallRounds \in Nat \ {0}

VARIABLES
  history,        \* session.messages, in memory and in the ledger
  attempt,        \* the rows of context_attempts
  committed,      \* attempts whose round a snapshot has had (context_attempts.committed)
  dropped,        \* attempts of branches that a rerun has cut away
  receipt,        \* the rows of context_tool_executions
  turn,           \* the local state of stream_chat
  used            \* runs and incidents so far

turnsVars == <<history, attempt, committed, dropped, receipt, turn, used>>

Attempts == 1..MaxAttempts
Calls == Attempts \X (1..MaxCalls)

Ask == [kind |-> "user"]
Child == [kind |-> "child"]
Round(a, n) == [kind |-> "round", attempt |-> a, calls |-> n]
Result(c, says) == [kind |-> "result", call |-> c, says |-> says]
Messages == {Ask, Child} \cup {Round(a, n) : a \in Attempts, n \in 0..MaxCalls}
              \cup {Result(c, says) : c \in Calls, says \in {"outcome", "unknown"}}

NobodyActs == [at |-> "idle", attempt |-> 0, todo |-> 0, repeats |-> 0, shown |-> FALSE,
         aborting |-> FALSE]
Places == {"idle", "ready", "waiting", "paused", "model", "answered", "refused", "tools",
           "executing", "returned", "ended"}

TurnsTypeOK ==
  /\ history \in Seq(Messages)
  /\ attempt \in [Attempts -> [status : {"none", "streaming", "failed", "incomplete",
                                         "completed", "invalid"},
                               text : BOOLEAN, calls : 0..MaxCalls]]
  /\ committed \subseteq Attempts /\ dropped \subseteq Attempts
  /\ receipt \in [Calls -> {"none", "executing", "completed"}]
  /\ turn \in [at : Places, attempt : {0} \cup Attempts, todo : 0..MaxCalls,
               repeats : 0..StallRounds, shown : BOOLEAN, aborting : BOOLEAN]
  /\ used \in [runs : 0..MaxRuns, incidents : 0..MaxIncidents]

TurnsInit ==
  /\ history = <<>>
  /\ attempt = [a \in Attempts |-> [status |-> "none", text |-> FALSE, calls |-> 0]]
  /\ committed = {} /\ dropped = {}
  /\ receipt = [c \in Calls |-> "none"]
  /\ turn = NobodyActs
  /\ used = [runs |-> 0, incidents |-> 0]

RoundsOf(h) == {h[i].attempt : i \in {j \in DOMAIN h : h[j].kind = "round"}}
ResultsOf(h) == {h[i].call : i \in {j \in DOMAIN h : h[j].kind = "result"}}

-----------------------------------------------------------------------------
(* What is brought back                                                      *)

\* mutant: only complete answers are worth recovering
Recoverable_Completed(a) ==
  /\ attempt[a].status = "completed" /\ a \notin committed
  /\ attempt[a].text \/ attempt[a].calls > 0

\* recover_attempts: published fragments and complete calls; calls that were refused
\* and attempts that said nothing stay in the archive
Recoverable(a) ==
  /\ attempt[a].status \notin {"none", "invalid"} /\ a \notin committed
  /\ attempt[a].text \/ (attempt[a].status = "completed" /\ attempt[a].calls > 0)

Recovered(h) ==
  LET found == InOrder({a \in Attempts : Recoverable(a)}) IN
  h \o [i \in DOMAIN found |->
          Round(found[i], IF attempt[found[i]].status = "completed" THEN attempt[found[i]].calls ELSE 0)]

\* mutant: the repair does not look for the receipt
Report_Unknown(c) == Result(c, "unknown")

\* tool_receipt: what the ledger knows of a call that has no result
Report(c) == Result(c, IF receipt[c] = "completed" THEN "outcome" ELSE "unknown")

\* what is said of the calls of a round that have no result
Reports(h, m) ==
  LET open == IF m.kind = "round"
              THEN InOrder({k \in 1..m.calls : <<m.attempt, k>> \notin ResultsOf(h)}) ELSE <<>>
  IN [k \in DOMAIN open |-> Report(<<m.attempt, open[k]>>)]

\* _recover_interrupted_tool_calls: right after the round that proposed them
Repaired(h) ==
  LET upTo[i \in 0..Len(h)] ==
        IF i = 0 THEN <<>> ELSE Append(upTo[i - 1], h[i]) \o Reports(h, h[i])
  IN upTo[Len(h)]

\* mutant: what arrives between the results of one round stays there
ApiMessages_InPlace(h) == h

\* one message of to_api_messages
Sent(s, m) ==
  LET pending == CASE m.kind = "round" -> s.pending \cup {<<m.attempt, k>> : k \in 1..m.calls}
                   [] m.kind = "result" -> s.pending \ {m.call}
                   [] OTHER -> s.pending
  IN IF m.kind = "child" /\ s.pending # {} THEN [s EXCEPT !.deferred = Append(@, m)]
     ELSE [out |-> Append(s.out, m) \o (IF pending = {} THEN s.deferred ELSE <<>>),
           pending |-> pending,
           deferred |-> IF pending = {} THEN <<>> ELSE s.deferred]

\* to_api_messages: the results of subagents wait until the round is closed
ApiMessages(h) ==
  LET sent[i \in 0..Len(h)] ==
        IF i = 0 THEN [out |-> <<>>, pending |-> {}, deferred |-> <<>>] ELSE Sent(sent[i - 1], h[i])
  IN sent[Len(h)].out \o sent[Len(h)].deferred

\* ContextIntegrityValidator: a round appears once, and its results are all there,
\* once, before anything else
Accepted(m) ==
  /\ \A i, j \in DOMAIN m : m[i].kind = "round" /\ m[j].kind = "round" /\ i # j
                              => m[i].attempt # m[j].attempt
  /\ \A i \in DOMAIN m : m[i].kind = "round" =>
       /\ i + m[i].calls <= Len(m)
       /\ {m[i + k] : k \in 1..m[i].calls}
            \subseteq [kind : {"result"}, call : {m[i].attempt} \X (1..m[i].calls), says : {"outcome", "unknown"}]
       /\ \A k \in 1..m[i].calls : \E j \in 1..m[i].calls : m[i + j].call = <<m[i].attempt, k>>
  /\ \A i \in DOMAIN m : m[i].kind = "result" =>
       \E j \in 1..(i - 1) : m[j].kind = "round" /\ m[j].attempt = m[i].call[1] /\ i <= j + m[j].calls

-----------------------------------------------------------------------------
(* One run                                                                   *)

At(place) == turn.at = place
Running == turn.at \notin {"idle", "ended"}
Current == attempt[turn.attempt]

\* persist: the ledger marks the attempts it now has
Save(h) == history' = h /\ committed' = committed \cup RoundsOf(h)

\* mutant: also when no attempt was begun
Partial_Zero(h) == IF turn.attempt \notin RoundsOf(h) THEN Append(h, Round(turn.attempt, 0)) ELSE h

\* _persist_assistant_round of what was on the way: a projection when it is there
Partial(h) ==
  IF turn.shown /\ turn.attempt \notin RoundsOf(h) THEN Append(h, Round(turn.attempt, 0)) ELSE h

\* the message of a chat or a resumed question; a rerun replaces the one that is there
StartRun(replace) ==
  /\ At("idle") /\ used.runs < MaxRuns
  /\ replace => \E i \in DOMAIN history : history[i] = Ask
  /\ Save(LET h == Repaired(Recovered(history)) IN IF replace THEN h ELSE Append(h, Ask))
  /\ turn' = [NobodyActs EXCEPT !.at = "ready"]
  /\ used' = [used EXCEPT !.runs = @ + 1]
  /\ UNCHANGED <<attempt, dropped, receipt>>

\* the /compact command repairs and asks no model (Compaction models what it does)
CompactCommand ==
  /\ At("idle") /\ used.runs < MaxRuns
  /\ Save(Repaired(Recovered(history)))
  /\ turn' = [NobodyActs EXCEPT !.at = "ended"]
  /\ used' = [used EXCEPT !.runs = @ + 1]
  /\ UNCHANGED <<attempt, dropped, receipt>>

Abort ==
  /\ Running /\ ~turn.aborting
  /\ turn' = [turn EXCEPT !.aborting = TRUE]
  /\ UNCHANGED <<history, attempt, committed, dropped, receipt, used>>

\* the checks at the head of a round
NextRound ==
  /\ \/ At("ready") /\ ~turn.aborting /\ turn' = [turn EXCEPT !.at = "waiting"]
     \/ At("paused") /\ ~turn.aborting /\ turn' = [turn EXCEPT !.at = "ready"]
  /\ UNCHANGED <<history, attempt, committed, dropped, receipt, used>>

\* start_attempt, durable before the request is sent
AskModel ==
  /\ At("waiting") /\ ~turn.aborting
  /\ \E a \in Attempts :
       /\ attempt[a].status = "none" /\ \A b \in 1..(a - 1) : attempt[b].status # "none"
       /\ attempt' = [attempt EXCEPT ![a].status = "streaming"]
       /\ turn' = [turn EXCEPT !.at = "model", !.attempt = a]
  /\ UNCHANGED <<history, committed, dropped, receipt, used>>

\* a fragment is published, and with it journalled (run_events)
Publish ==
  /\ At("model") /\ ~turn.aborting /\ ~Current.text
  /\ attempt' = [attempt EXCEPT ![turn.attempt].text = TRUE]
  /\ turn' = [turn EXCEPT !.shown = TRUE]
  /\ UNCHANGED <<history, committed, dropped, receipt, used>>

\* the stream ends, whole or cut short, or fails; save_attempt.  The fragments of calls
\* of a stream that failed are never calls
Respond(status, n) ==
  /\ At("model") /\ ~turn.aborting
  /\ n + MapThenSumSet(LAMBDA a : attempt[a].calls, Attempts) <= MaxCalls
  /\ attempt' = [attempt EXCEPT ![turn.attempt].status = status, ![turn.attempt].calls = n]
  /\ turn' = [turn EXCEPT !.at = "answered"]
  /\ UNCHANGED <<history, committed, dropped, receipt, used>>

\* a request that failed, or an answer that says nothing or breaks off, is retried:
\* what it has published stays.  A refused request is not retried once it has
Retry ==
  /\ At("answered") /\ Current.calls = 0
  /\ Current.text => Current.status = "incomplete"
  /\ Save(IF Current.text THEN Partial(history) ELSE history)
  /\ \E next \in {"paused", "ready"} : turn' = [turn EXCEPT !.at = next]
  /\ UNCHANGED <<attempt, dropped, receipt, used>>

\* the answer is kept: the run goes on where it breaks off, or ends
Conclude(next) ==
  LET keep == Current.text /\ Current.status # "failed" IN
  /\ At("answered") /\ Current.calls = 0
  /\ next = "ready" => keep
  /\ Save(IF keep THEN Partial(history) ELSE history)
  /\ turn' = [turn EXCEPT !.at = next, !.repeats = 0]
  /\ UNCHANGED <<attempt, dropped, receipt, used>>

\* reasoning without an answer, and no continuation left: error_empty_response
EndEmpty ==
  /\ At("answered") /\ Current.calls = 0 /\ Current.text
  /\ turn' = [turn EXCEPT !.at = "ended"]
  /\ UNCHANGED <<history, attempt, committed, dropped, receipt, used>>

\* calls of a cut answer, or of a request without tools, are refused
Refuse ==
  /\ At("answered") /\ Current.calls > 0
  /\ attempt' = [attempt EXCEPT ![turn.attempt].status = "invalid"]
  /\ turn' = [turn EXCEPT !.at = "refused"]
  /\ UNCHANGED <<history, committed, dropped, receipt, used>>

AfterRefusal(next) ==
  /\ At("refused")
  /\ Save(IF Current.text THEN Partial(history) ELSE history)
  /\ turn' = [turn EXCEPT !.at = next]
  /\ UNCHANGED <<attempt, dropped, receipt, used>>

\* the same calls once more, StallRounds times in a row: a notice instead of the round.
\* repeats counts the earlier rounds that proposed them
Stall ==
  /\ At("answered") /\ Current.calls > 0 /\ Current.status = "completed"
  /\ turn.repeats = StallRounds
  /\ turn' = [turn EXCEPT !.at = "ready", !.repeats = 0]
  /\ UNCHANGED <<history, attempt, committed, dropped, receipt, used>>

BeginTools(same) ==
  /\ At("answered") /\ Current.calls > 0 /\ Current.status = "completed"
  /\ same => turn.repeats \in 1..(StallRounds - 1)
  /\ Save(Append(history, Round(turn.attempt, Current.calls)))
  /\ turn' = [turn EXCEPT !.at = "tools", !.todo = 1, !.repeats = IF same THEN @ + 1 ELSE 1]
  /\ UNCHANGED <<attempt, dropped, receipt, used>>

Call == <<turn.attempt, turn.todo>>

\* tool_service.execute: claim_tool before anything happens
Claim ==
  /\ At("tools") /\ ~turn.aborting
  /\ receipt' = [receipt EXCEPT ![Call] = "executing"]
  /\ turn' = [turn EXCEPT !.at = "executing", !.shown = TRUE]
  /\ UNCHANGED <<history, attempt, committed, dropped, used>>

\* not allowed, not in the catalog, or arguments that do not match: nothing is claimed
RefuseCall ==
  /\ At("tools") /\ ~turn.aborting
  /\ turn' = [turn EXCEPT !.at = "returned", !.shown = TRUE]
  /\ UNCHANGED <<history, attempt, committed, dropped, receipt, used>>

\* finish_tool, or an exception, which leaves the claim open
FinishTool(completed) ==
  /\ At("executing")
  /\ receipt' = IF completed THEN [receipt EXCEPT ![Call] = "completed"] ELSE receipt
  /\ turn' = [turn EXCEPT !.at = "returned"]
  /\ UNCHANGED <<history, attempt, committed, dropped, used>>

\* the next call, the next round, or the end: a question to the user, an abort
Return ==
  /\ At("returned")
  /\ Save(Append(history, Result(Call, "outcome")))
  /\ \E ask \in BOOLEAN :
       turn' = IF ask \/ turn.aborting THEN [turn EXCEPT !.at = "ended"]
               ELSE IF turn.todo < Current.calls THEN [turn EXCEPT !.at = "tools", !.todo = @ + 1]
               ELSE [turn EXCEPT !.at = "ready"]
  /\ UNCHANGED <<attempt, dropped, receipt, used>>

\* mutant: a stream that says nothing is waited for
AbortedAt_NotModel == {"ready", "waiting", "paused", "tools", "executing"}

\* where a request to stop is noticed
AbortedAt == {"ready", "waiting", "paused", "model", "tools", "executing"}

\* what was on the way is kept, except during an awaited operation
EndAborted ==
  /\ turn.aborting /\ turn.at \in AbortedAt
  /\ Save(IF turn.at \in {"waiting", "paused"} THEN history ELSE Partial(history))
  /\ \E finished \in BOOLEAN :   \* durable_io completes a receipt that is being written
       receipt' = IF At("executing") /\ finished THEN [receipt EXCEPT ![Call] = "completed"]
                  ELSE receipt
  /\ turn' = [turn EXCEPT !.at = "ended"]
  /\ UNCHANGED <<attempt, dropped, used>>

\* a limit, an error or the cancellation of the driver leaves the engine as it is
CutOff ==
  /\ Running
  /\ turn' = [turn EXCEPT !.at = "ended"]
  /\ UNCHANGED <<history, attempt, committed, dropped, receipt, used>>

\* mutant: the driver leaves the recovery to the next run
CloseRun_Later ==
  /\ At("ended")
  /\ turn' = NobodyActs
  /\ UNCHANGED <<history, attempt, committed, dropped, receipt, used>>

\* the driver recovers what its run has published
CloseRun ==
  /\ At("ended")
  /\ Save(Recovered(history))
  /\ turn' = NobodyActs
  /\ UNCHANGED <<attempt, dropped, receipt, used>>

\* the watcher of a subagent appends a result, in the middle of a round too
InjectChild ==
  /\ used.incidents < MaxIncidents
  /\ Save(Append(history, Child))
  /\ used' = [used EXCEPT !.incidents = @ + 1]
  /\ UNCHANGED <<attempt, dropped, receipt, turn>>

\* a restart, and the session is loaded from the ledger
Crash ==
  /\ ~At("idle") /\ used.incidents < MaxIncidents
  /\ Save(Recovered(history))
  /\ turn' = NobodyActs
  /\ used' = [used EXCEPT !.incidents = @ + 1]
  /\ UNCHANGED <<attempt, dropped, receipt>>

\* rerun_from_message: everything after the message of the user goes
Rerun(k) ==
  LET kept == SubSeq(history, 1, k) IN
  /\ At("idle") /\ history[k].kind \in {"user", "child"} /\ k < Len(history)
  /\ Save(kept)
  /\ dropped' = dropped \cup {a \in Attempts : attempt[a].status # "none" /\ a \notin RoundsOf(kept)}
  /\ UNCHANGED <<attempt, receipt, turn, used>>

TurnsNext ==
  \/ \E replace \in BOOLEAN : StartRun(replace)
  \/ CompactCommand \/ Abort \/ NextRound \/ AskModel \/ Publish
  \/ Respond("failed", 0)
  \/ \E status \in {"incomplete", "completed"}, n \in 0..MaxCalls : Respond(status, n)
  \/ Retry \/ (\E next \in {"ready", "ended"} : Conclude(next))
  \/ EndEmpty \/ Refuse
  \/ \E next \in {"paused", "ended"} : AfterRefusal(next)
  \/ Stall \/ (\E same \in BOOLEAN : BeginTools(same)) \/ Claim \/ RefuseCall
  \/ \E completed \in BOOLEAN : FinishTool(completed)
  \/ Return \/ EndAborted \/ CutOff \/ CloseRun \/ InjectChild \/ Crash
  \/ \E k \in DOMAIN history : Rerun(k)

\* the engine takes its own steps; nothing is assumed of the model, of a tool or of
\* the user, and the driver closes the run
EngineStep ==
  \/ NextRound \/ Retry \/ EndEmpty \/ Refuse \/ Stall \/ Return
  \/ \E next \in {"ready", "ended"} : Conclude(next)
  \/ \E next \in {"paused", "ended"} : AfterRefusal(next)
  \/ \E same \in BOOLEAN : BeginTools(same)

TurnsFairness == WF_turnsVars(EngineStep) /\ WF_turnsVars(EndAborted) /\ WF_turnsVars(CloseRun)

-----------------------------------------------------------------------------
(* Properties                                                                *)

\* Whatever cut the earlier runs off, and whatever arrived between the calls, the
\* messages of a request are ones that a model accepts: no round twice, and every call
\* answered once, in place (ContextIntegrityValidator checks it and fails the run).  A
\* call that took effect, and of which the ledger has the receipt, is never reported as
\* unknown: the model would be told to check what is known, or to do it again.
RequestIsSound ==
  At("model") =>
    /\ Accepted(ApiMessages(history))
    /\ \A c \in Calls : receipt[c] = "completed" /\ c[1] \notin dropped =>
         Result(c, "outcome") \in Range(history)

\* Between runs the history has every attempt that published something, also when the
\* run failed, was cut off or crashed: the user has seen it, the model must know it
\* (recover_attempts; refused calls excepted).  And a branch that a rerun or an edit has
\* cut away never comes back to the model.
HistoryIsFaithful ==
  /\ At("idle") => \A a \in Attempts :
       attempt[a].text /\ attempt[a].status # "invalid" /\ a \notin dropped => a \in RoundsOf(history)
  /\ dropped \cap RoundsOf(history) = {}

\* A request to stop ends the run, however long the model and the tools stay silent.
AbortEnds == turn.aborting ~> At("idle")

=============================================================================
