------------------------------- MODULE Subagents -------------------------------
(***************************************************************************)
(* SubagentService: the child agents of one conversation.  A row of the    *)
(* table `subagents` follows the latest run of its child; a watcher per    *)
(* child run brings the result back into the context of the parent; tools  *)
(* of the parent run and requests of the user create, continue, await,     *)
(* cancel and destroy children.                                            *)
(*                                                                         *)
(* AgentRuns says how a run ends.  Here a run ends in two steps: its row   *)
(* is written, then its driver returns and whoever waits goes on; or its   *)
(* driver is cut off by force, and whoever waits for it is cut off too.  A *)
(* run that asks the user something ends like this with waiting_input; an  *)
(* answer, a later stop and the expiry reach it past the service here.     *)
(***************************************************************************)
EXTENDS Naturals, FiniteSets

CONSTANTS
  Subs,           \* children that may be created
  Kids,           \* runs of the children, numbered as they start
  Parents,        \* runs of the parent conversation, numbered as they start
  Endings,        \* how each run may end on its own, in an instance
  Absent          \* no child, no run, no parent that asks

VARIABLES
  parent,         \* the runs of the parent
  kid,            \* agent_runs.status of the child runs
  driven,         \* child runs whose driver has not returned
  aborting,       \* child runs that were asked to stop
  sub,            \* the rows of `subagents`
  watch,          \* the watcher of each child run
  loose,          \* latest runs of children that went on or ended past their watcher
  future,         \* SubagentService._futures: the child run a wait can rely on
  context,        \* how often the result of a child run was added to the parent
  tool,           \* the call that the parent run executes
  cancels,        \* the calls of _cancel_row that wait for a run
  spoilt,         \* children whose row a watcher that failed has written last
  restarted

subagentsVars == <<parent, kid, driven, aborting, sub, watch, loose, future, context,
                   tool, cancels, spoilt, restarted>>

Over == {"completed", "failed", "cancelled"}
Unfinished == {"running", "waiting_input"}
Row == [parent : Parents, latest : Kids, status : Unfinished \cup Over, destroyed : BOOLEAN]
Watcher == [sub : Subs, step : {"waiting", "woken", "publishing", "done", "failed", "lost"}]
ASSUME SubagentsAssumption == Kids \subseteq Nat /\ Parents \subseteq Nat
                               /\ Endings \in [Kids -> SUBSET (Over \cup {"waiting_input"})]
ASSUME AbsentAssumption == Absent \notin Row \cup Watcher \cup Kids \cup Parents
NoTool == [op |-> "none", sub |-> Absent, run |-> Absent]
Tools == [op : {"none", "create", "send", "await", "poll"}, sub : Subs \cup {Absent},
          run : Kids \cup {Absent}]
Cancels == [sub : Subs, run : Kids, by : Parents \cup {Absent}]

SubagentsTypeOK ==
  /\ parent \in [Parents -> {"none", "running", "stopping", "over"}]
  /\ kid \in [Kids -> {"none"} \cup Unfinished \cup Over]
  /\ driven \subseteq Kids /\ aborting \subseteq Kids
  /\ sub \in [Subs -> Row \cup {Absent}]
  /\ watch \in [Kids -> Watcher \cup {Absent}]
  /\ loose \subseteq Kids
  /\ future \in [Subs -> Kids \cup {Absent}]
  /\ context \in [Kids -> 0..2]
  /\ tool \in Tools
  /\ cancels \subseteq Cancels
  /\ spoilt \subseteq Subs /\ restarted \in BOOLEAN

SubagentsInit ==
  /\ parent = [p \in Parents |-> "none"]
  /\ kid = [r \in Kids |-> "none"]
  /\ driven = {} /\ aborting = {}
  /\ sub = [s \in Subs |-> Absent]
  /\ watch = [r \in Kids |-> Absent]
  /\ loose = {}
  /\ future = [s \in Subs |-> Absent]
  /\ context = [r \in Kids |-> 0]
  /\ tool = NoTool
  /\ cancels = {}
  /\ spoilt = {} /\ restarted = FALSE

Exists(s) == sub[s] # Absent
Destroyed(s) == Exists(s) /\ sub[s].destroyed
Active(r) == kid[r] = "running"
Watches(r, step) == watch[r] # Absent /\ watch[r].step = step
Calling(p) == parent[p] = "running" /\ tool = NoTool

-----------------------------------------------------------------------------
(* A child run                                                               *)

\* the engine ends, and the last event is written: an engine that was asked to stop may
\* have ended its turn already, or have asked the user something
EndKid(r) ==
  /\ Active(r) /\ r \in driven
  /\ \E status \in Endings[r] \cup {"cancelled"} : kid' = [kid EXCEPT ![r] = status]
  /\ UNCHANGED <<parent, driven, aborting, sub, watch, loose, future, context, tool, cancels, spoilt, restarted>>

\* the watcher of a run, if it still waits for the driver
WatcherGoes(r, step) ==
  watch' = IF Watches(r, "waiting") THEN [watch EXCEPT ![r].step = step] ELSE watch

\* its driver closes the run and returns: wait_for_run goes on
CloseKid(r) ==
  /\ r \in driven /\ ~Active(r)
  /\ driven' = driven \ {r} /\ aborting' = aborting \ {r}
  /\ WatcherGoes(r, "woken")
  /\ UNCHANGED <<parent, kid, sub, loose, future, context, tool, cancels, spoilt, restarted>>

\* The grace of cancel_run is over, for _cancel_row or for a user who stops the session of
\* the child, and CancelledError meets the driver in its clean-up, before the last event
\* is written or after: the watcher awaits the task of the driver
\* and dies with it (its `except Exception` does not see CancelledError), and nothing
\* resolves the future it forgets.
CutKid(r) ==
  /\ r \in driven
  /\ driven' = driven \ {r} /\ aborting' = aborting \ {r} /\ loose' = loose \cup {r}
  /\ WatcherGoes(r, "lost")
  /\ future' = IF Watches(r, "waiting") THEN [future EXCEPT ![watch[r].sub] = Absent] ELSE future
  /\ UNCHANGED <<parent, kid, sub, context, tool, cancels, spoilt, restarted>>

\* resume_elicitation_run: the same run goes on, and nobody watches it (the steps of an
\* answer are those of AgentRuns)
AnswerKid(r) ==
  /\ kid[r] = "waiting_input" /\ r \notin driven
  /\ kid' = [kid EXCEPT ![r] = "running"]
  /\ driven' = driven \cup {r} /\ loose' = loose \cup {r}
  /\ UNCHANGED <<parent, aborting, sub, watch, future, context, tool, cancels, spoilt, restarted>>

\* an answer that fails, abort_session of a session that waits, the sweep of expired
\* waits: the row of the run ends, the row of the child is not told
SettleKid(r) ==
  /\ kid[r] = "waiting_input" /\ r \notin driven
  /\ \E status \in {"cancelled", "failed"} : kid' = [kid EXCEPT ![r] = status]
  /\ loose' = loose \cup {r}
  /\ UNCHANGED <<parent, driven, aborting, sub, watch, future, context, tool, cancels, spoilt, restarted>>

-----------------------------------------------------------------------------
(* create_subagent and send_message                                          *)

Fresh(r) == kid[r] = "none" /\ \A q \in Kids : q < r => kid[q] # "none"

BeginCreate(p, s, r) ==
  /\ Calling(p) /\ ~Exists(s) /\ Fresh(r)
  /\ kid' = [kid EXCEPT ![r] = "running"]
  /\ tool' = [op |-> "create", sub |-> s, run |-> r]
  /\ UNCHANGED <<parent, driven, aborting, sub, watch, loose, future, context, cancels, spoilt, restarted>>

\* refused while the latest run is not over or its driver has not returned
BeginSend(p, s, r) ==
  /\ Calling(p) /\ Fresh(r)
  /\ Exists(s) /\ ~sub[s].destroyed
  /\ kid[sub[s].latest] \in Over /\ sub[s].latest \notin driven
  /\ kid' = [kid EXCEPT ![r] = "running"]
  /\ tool' = [op |-> "send", sub |-> s, run |-> r]
  /\ UNCHANGED <<parent, driven, aborting, sub, watch, loose, future, context, cancels, spoilt, restarted>>

\* mutant: the row starts with a status that only runs have
LaunchedRow_Queued(p) ==
  [parent |-> p, latest |-> tool.run, status |-> "queued", destroyed |-> FALSE]

\* create_subagent (store), set_subagent_latest_run: a later run leaves the row with
\* the parent run that created the child
LaunchedRow(p) ==
  IF tool.op = "create"
  THEN [parent |-> p, latest |-> tool.run, status |-> "running", destroyed |-> FALSE]
  ELSE [sub[tool.sub] EXCEPT !.latest = tool.run, !.status = "running"]

\* Whoever waited for the previous run is woken within three rounds of the event
\* loop; the start of a run writes the session in a thread before it goes on.
Woken(s) ==
  /\ \A q \in Kids : ~(Watches(q, "woken") /\ watch[q].sub = s)
  /\ \A c \in cancels : c.sub = s => c.run \in driven

\* mutant: a later run goes without a watcher
StartWatcher_Once ==
  IF tool.op = "create"
  THEN /\ watch' = [watch EXCEPT ![tool.run] = [sub |-> tool.sub, step |-> "waiting"]]
       /\ future' = [future EXCEPT ![tool.sub] = tool.run]
  ELSE UNCHANGED <<watch, future>>

StartWatcher ==
  /\ watch' = [watch EXCEPT ![tool.run] = [sub |-> tool.sub, step |-> "waiting"]]
  /\ future' = [future EXCEPT ![tool.sub] = tool.run]

\* start_chat_run returns; the rest happens without a suspension, up to the events
LaunchRun(p) ==
  /\ parent[p] = "running" /\ tool.op \in {"create", "send"} /\ Woken(tool.sub)
  /\ driven' = driven \cup {tool.run}
  /\ sub' = [sub EXCEPT ![tool.sub] = LaunchedRow(p)]
  /\ StartWatcher
  /\ tool' = NoTool
  /\ loose' = IF Exists(tool.sub) THEN loose \ {sub[tool.sub].latest} ELSE loose
  /\ spoilt' = spoilt \ {tool.sub}
  /\ UNCHANGED <<parent, kid, aborting, context, cancels, restarted>>

\* the session cannot be written, or the parent is stopped meanwhile: fail_agent_run
AbandonStart ==
  /\ tool.op \in {"create", "send"}
  /\ kid' = [kid EXCEPT ![tool.run] = "failed"]
  /\ tool' = NoTool
  /\ UNCHANGED <<parent, driven, aborting, sub, watch, loose, future, context, cancels, spoilt, restarted>>

-----------------------------------------------------------------------------
(* The watcher of a child run                                                *)

\* mutant: a destroyed child still answers
Delivered_Always(r) ==
  /\ context' = [context EXCEPT ![r] = @ + 1]
  /\ watch' = [watch EXCEPT ![r].step = "publishing"]
  /\ UNCHANGED future

\* finally: the future of the child is forgotten, whichever run it stands for
Finished(r, step) ==
  /\ watch' = [watch EXCEPT ![r].step = step]
  /\ future' = [future EXCEPT ![watch[r].sub] = Absent]

\* _inject_result: one message, unless the child was destroyed meanwhile
Delivered(r) ==
  IF sub[watch[r].sub].destroyed
  THEN Finished(r, "done") /\ UNCHANGED context
  ELSE /\ context' = [context EXCEPT ![r] = @ + 1]
       /\ watch' = [watch EXCEPT ![r].step = "publishing"]
       /\ UNCHANGED future

\* what the table says now, also when the driver ended with a question
WatchResult(r) ==
  /\ Watches(r, "woken")
  /\ sub' = [sub EXCEPT ![watch[r].sub].status = kid[r]]
  /\ Delivered(r)
  /\ UNCHANGED <<parent, kid, driven, aborting, loose, tool, cancels, spoilt, restarted>>

\* the session and the events are written; those who wait for the future go on
FinishWatch(r) ==
  /\ Watches(r, "publishing")
  /\ Finished(r, "done")
  /\ UNCHANGED <<parent, kid, driven, aborting, sub, loose, context, tool, cancels, spoilt, restarted>>

\* the driver ended with an exception, or one of the writes fails: the row shows a
\* failure, whatever its run is doing
FailWatch(r) ==
  /\ Watches(r, "woken") \/ Watches(r, "publishing")
  /\ Finished(r, "failed") /\ spoilt' = spoilt \cup {watch[r].sub}
  /\ sub' = [sub EXCEPT ![watch[r].sub].status = "failed"]
  /\ UNCHANGED <<parent, kid, driven, aborting, loose, context, tool, cancels, restarted>>

-----------------------------------------------------------------------------
(* wait                                                                      *)

\* a live watcher's future is awaited, otherwise the row of the run is polled
BeginWait(p, s) ==
  /\ Calling(p) /\ Exists(s) /\ ~sub[s].destroyed /\ kid[sub[s].latest] \in Unfinished
  /\ tool' = [op |-> IF future[s] = Absent THEN "poll" ELSE "await", sub |-> s,
              run |-> IF future[s] = Absent THEN sub[s].latest ELSE future[s]]
  /\ UNCHANGED <<parent, kid, driven, aborting, sub, watch, loose, future, context, cancels, spoilt, restarted>>

EndWait ==
  /\ \/ tool.op = "await" /\ (Watches(tool.run, "done") \/ Watches(tool.run, "failed"))
     \/ tool.op = "poll" /\ kid[tool.run] \in Over
  /\ tool' = NoTool
  /\ UNCHANGED <<parent, kid, driven, aborting, sub, watch, loose, future, context, cancels, spoilt, restarted>>

\* the time is over, or the parent is stopped: the awaited future is cancelled with
\* the wait, so that later waits poll
BreakWait ==
  /\ tool.op \in {"await", "poll"}
  /\ tool' = NoTool
  /\ future' = IF tool.op = "await" /\ future[tool.sub] = tool.run
               THEN [future EXCEPT ![tool.sub] = Absent] ELSE future
  /\ UNCHANGED <<parent, kid, driven, aborting, sub, watch, loose, context, cancels, spoilt, restarted>>

-----------------------------------------------------------------------------
(* _cancel_row: by the user, by a tool, or for a parent run that ends        *)

Live(s) == kid[sub[s].latest] \in Unfinished /\ sub[s].latest \in driven
Stray(s) == kid[sub[s].latest] \in Unfinished /\ sub[s].latest \notin driven

\* cancel_run: what has a driver is asked to stop; what has none and is not over, because
\* it waits for the user or was cut off, is cancelled in the table at once
CancelRows(S, by) ==
  LET live == {s \in S : Live(s)} IN
  /\ aborting' = aborting \cup {sub[s].latest : s \in live}
  /\ cancels' = cancels \cup {[sub |-> s, run |-> sub[s].latest, by |-> by] : s \in live}
  /\ kid' = [r \in Kids |-> IF \E s \in S : Stray(s) /\ sub[s].latest = r THEN "cancelled" ELSE kid[r]]

\* what is over by then is copied without a wait
Copied(S, row) ==
  [s \in Subs |-> IF s \in S /\ ~Live(s)
                  THEN [row[s] EXCEPT !.status = kid'[sub[s].latest]] ELSE row[s]]

CancelChild(s) ==
  /\ Exists(s) /\ ~sub[s].destroyed /\ sub[s].status \notin Over
  /\ CancelRows({s}, Absent) /\ sub' = Copied({s}, sub)
  /\ UNCHANGED <<parent, driven, watch, loose, future, context, tool, spoilt, restarted>>

Destroy(s) ==
  /\ Exists(s) /\ ~sub[s].destroyed
  /\ CancelRows({s}, Absent)
  /\ sub' = Copied({s}, [sub EXCEPT ![s].destroyed = TRUE])
  /\ UNCHANGED <<parent, driven, watch, loose, future, context, tool, spoilt, restarted>>

\* mutant: the row says what was asked for
CancelEnds_Asked(c) ==
  /\ c \in cancels
  /\ sub' = [sub EXCEPT ![c.sub].status = "cancelled"]
  /\ cancels' = cancels \ {c}
  /\ UNCHANGED <<parent, kid, driven, aborting, watch, loose, future, context, tool, spoilt, restarted>>

\* the driver has returned or the grace is over: the row shows what the run is now
CancelEnds(c) ==
  /\ c \in cancels
  /\ sub' = [sub EXCEPT ![c.sub].status = kid[c.run]]
  /\ cancels' = cancels \ {c}
  /\ UNCHANGED <<parent, kid, driven, aborting, watch, loose, future, context, tool, spoilt, restarted>>

-----------------------------------------------------------------------------
(* The parent run                                                            *)

BeginParent(p) ==
  /\ parent[p] = "none" /\ \A q \in Parents : parent[q] = IF q < p THEN "over" ELSE "none"
  /\ parent' = [parent EXCEPT ![p] = "running"]
  /\ UNCHANGED <<kid, driven, aborting, sub, watch, loose, future, context, tool, cancels, spoilt, restarted>>

CompleteParent(p) ==
  /\ Calling(p)
  /\ parent' = [parent EXCEPT ![p] = "over"]
  /\ UNCHANGED <<kid, driven, aborting, sub, watch, loose, future, context, tool, cancels, spoilt, restarted>>

\* mutant: the children that are over are looked for
Children_Inverted(p) ==
  {s \in Subs : Exists(s) /\ ~sub[s].destroyed /\ sub[s].parent = p /\ sub[s].status \in Over}

\* cancel_for_parent_run: the children that this run has created and that go on
Children(p) ==
  {s \in Subs : Exists(s) /\ ~sub[s].destroyed /\ sub[s].parent = p /\ sub[s].status \notin Over}

\* cancelled, failed or timed out, with no call under way any more
StopParent(p) ==
  /\ Calling(p)
  /\ parent' = [parent EXCEPT ![p] = "stopping"]
  /\ CancelRows(Children(p), p) /\ sub' = Copied(Children(p), sub)
  /\ UNCHANGED <<driven, watch, loose, future, context, tool, spoilt, restarted>>

EndParent(p) ==
  /\ parent[p] = "stopping" /\ \A c \in cancels : c.by # p
  /\ parent' = [parent EXCEPT ![p] = "over"]
  /\ UNCHANGED <<kid, driven, aborting, sub, watch, loose, future, context, tool, cancels, spoilt, restarted>>

\* a crash, a restart and recover_interrupted_agent_runs: runs under way have failed,
\* and so have the rows that follow one of them; what waits for the user still does
Restart ==
  /\ ~restarted /\ restarted' = TRUE
  /\ kid' = [r \in Kids |-> IF Active(r) THEN "failed" ELSE kid[r]]
  /\ sub' = [s \in Subs |-> IF Exists(s) /\ sub[s].status \in Unfinished /\ Active(sub[s].latest)
                            THEN [sub[s] EXCEPT !.status = "failed"] ELSE sub[s]]
  /\ parent' = [p \in Parents |-> IF parent[p] = "none" THEN "none" ELSE "over"]
  /\ driven' = {} /\ aborting' = {} /\ cancels' = {} /\ tool' = NoTool
  /\ watch' = [r \in Kids |-> Absent]
  /\ future' = [s \in Subs |-> Absent]
  /\ UNCHANGED <<loose, context, spoilt>>

SubagentsNext ==
  \/ \E r \in Kids : EndKid(r) \/ CloseKid(r) \/ CutKid(r) \/ AnswerKid(r)
                   \/ SettleKid(r) \/ WatchResult(r) \/ FinishWatch(r) \/ FailWatch(r)
  \/ \E p \in Parents : BeginParent(p) \/ CompleteParent(p) \/ StopParent(p) \/ EndParent(p) \/ LaunchRun(p)
  \/ \E p \in Parents, s \in Subs, r \in Kids : BeginCreate(p, s, r) \/ BeginSend(p, s, r)
  \/ \E p \in Parents, s \in Subs : BeginWait(p, s)
  \/ AbandonStart \/ EndWait \/ BreakWait
  \/ \E s \in Subs : CancelChild(s) \/ Destroy(s)
  \/ \E c \in cancels : CancelEnds(c)
  \/ Restart

SubagentsSpec == SubagentsInit /\ [][SubagentsNext]_subagentsVars

\* A run that was asked to stop does (its tools are cancelled, later its driver is), a
\* driver returns, a watcher that was woken goes on, and so does a wait.  Nothing else is promised: a
\* child may run for ever.
SubagentsFairness ==
  /\ \A r \in Kids : /\ WF_subagentsVars(r \in aborting /\ (EndKid(r) \/ CutKid(r)))
                     /\ WF_subagentsVars(CloseKid(r))
                     /\ WF_subagentsVars(WatchResult(r))
                     /\ WF_subagentsVars(FinishWatch(r) \/ FailWatch(r))
  /\ WF_subagentsVars(EndWait)

-----------------------------------------------------------------------------
(* Properties                                                                *)

\* Whatever order a child's end, its question, its cancellations, its destruction and its
\* next run come in: once its watchers and cancellations are through, the row shows the
\* status of its latest run (watch, _cancel_row, set_subagent_latest_run).  A run that
\* was answered, stopped or given up after it had asked the user, or whose driver was cut
\* off by force, has no watcher any more: of those the row is not promised to know.
RowFollowsRun ==
  \A s \in Subs :
    /\ Exists(s) /\ ~restarted /\ s \notin spoilt /\ sub[s].latest \notin loose
    /\ \A c \in cancels : c.sub # s
    /\ \A r \in Kids : watch[r] # Absent /\ watch[r].sub = s =>
         ~Watches(r, "woken") /\ (Watches(r, "waiting") => Active(r))
    => sub[s].status = kid[sub[s].latest]

\* Nothing of a child reaches the parent's context after it was destroyed, and its
\* result reaches it once (_inject_result).
NothingAfterDestroy ==
  [][\A r \in Kids : context'[r] # context[r] =>
       context[r] = 0 /\ watch[r] # Absent /\ ~sub[watch[r].sub].destroyed]_subagentsVars

\* What came of a child, its result, its failure or that it asks the user, is brought to
\* the parent, whatever the parent does meanwhile, unless the child is destroyed, the
\* service restarts, or the watcher fails or is cut off with the driver.  A parent that
\* waits by the future of a watcher goes on unless the watcher is cut off (then only its
\* timeout ends the wait); one that polls goes on when the run is over, which a run that
\* waits for the user is not (host-agent-orchestration.md 8.7; wait).
ResultsArrive ==
  /\ \A s \in Subs, r \in Kids :
       Exists(s) /\ sub[s].latest = r /\ ~Active(r) ~>
         context[r] > 0 \/ restarted \/ Destroyed(s) \/ Watches(r, "failed") \/ Watches(r, "lost")
  /\ \A r \in Kids : tool.op = "await" /\ tool.run = r /\ ~Active(r)
                       ~> ~(tool.op = "await" /\ tool.run = r) \/ Watches(r, "lost")
  /\ \A r \in Kids : tool.op = "poll" /\ tool.run = r /\ kid[r] \in Over
                       ~> ~(tool.op = "poll" /\ tool.run = r)

\* When a parent run is cancelled, what the children it has created are running comes to
\* an end: no driver of theirs is left, also when it was slow and had to be cut off
\* (cancel_for_parent_run; host-agent-orchestration.md 8.6).  A run that the user answers
\* after it was asked to stop goes on: an answer starts without the old request.
ChildrenStop ==
  \A p \in Parents, s \in Subs, r \in Kids :
    /\ parent[p] = "stopping" /\ s \notin spoilt
    /\ Exists(s) /\ sub[s].parent = p /\ sub[s].latest = r /\ ~sub[s].destroyed
    /\ r \notin loose \/ r \in aborting
    ~> r \notin driven \/ s \in spoilt
=============================================================================
