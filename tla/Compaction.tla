------------------------------ MODULE Compaction ------------------------------
(* The model window of one session and what shortens it                       *)
(* (services/context/context_pipeline.py, message_groups.py): the run that    *)
(* grows the window, the checkpoint that a summary task replaces old groups   *)
(* by, the native checkpoint of a model service, the archive cut that needs   *)
(* no model, and the results of subagents that land in the window meanwhile.  *)
(* Token counts are calibrated estimates: whether a request or a candidate    *)
(* fits is a free choice of every step that asks.                             *)
EXTENDS Integers, Lists
CONSTANTS Modes,        \* "client", "foreign" (rewritten as one handoff), "native" (the same, and asked itself)
          MaxMessages,  \* messages ever appended
          MaxInjected,  \* results of subagents
          MaxCuts       \* compactions committed
VARIABLES mode,
          window,       \* session.messages
          filed,        \* the messages whose original is in context_records
          stage,        \* "idle", "prepare", "model", "tools" or "summary"
          asked,        \* the ids the request in hand was built from
          job,          \* the compaction that awaits a model: its cause and the window it started from
          tries,        \* reactive_retry_count
          round,        \* request_turn_index of the run
          born, arrivals, cuts,
          said,         \* ghost: the ids that are conversation, not a checkpoint or a marker
          astray        \* ghost: those the gaps named below have let go of
compactionVars == <<mode, window, filed, stage, asked, job, tries, round, born, arrivals, cuts, said, astray>>

NoCall == <<0, 0>>
Plain(id, kind, turn) ==
  [id |-> id, kind |-> kind, turn |-> turn, calls |-> {}, call |-> NoCall, covers |-> {id}, short |-> FALSE]
\* a message that stands for others: compression_meta.source_message_ids, followed to the end
Checkpoint(id, kind, turn, covers) == [Plain(id, kind, turn) EXCEPT !.covers = covers]

Ids(messages) == {messages[i].id : i \in DOMAIN messages}
Covers(messages) == UNION {messages[i].covers : i \in DOMAIN messages}
TurnsIn(messages) == {messages[i].turn : i \in DOMAIN messages}
Newest(set) == IF set = {} THEN 0 ELSE CHOOSE n \in set : \A m \in set : m <= n
Oldest(set) == CHOOSE n \in set : \A m \in set : n <= m
NoJob == [cause |-> "none", base |-> <<>>, seen |-> {}, way |-> "none"]
\* the kinds whose role is "user"
AsUser == {"user", "subagent", "notice", "summary", "handoff"}

\* latest_user_message
Goals(messages) == {i \in DOMAIN messages : messages[i].kind = "user"}
Goal(messages) == IF Goals(messages) = {} THEN 0 ELSE messages[Newest(Goals(messages))].id

Answered(open, m) == (open \cup m.calls) \ {m.call}
IsAnswer(m) == m.kind \in {"assistant", "native"}

\* to_api_messages and what ContextIntegrityValidator.validate says of it, message by message:
\* markers stay behind; the result of a subagent waits for the end of a tool group; nobody
\* else but results comes before that end, and a result follows its call.
ScanStart == [ok |-> TRUE, open |-> {}, waits |-> FALSE]
ScanNext(before, m) ==
  LET open == Answered(before.open, m)
  IN IF m.kind = "marker" THEN before
     ELSE IF m.kind = "subagent" /\ before.open # {} THEN [before EXCEPT !.waits = TRUE]
     ELSE [ok |-> /\ before.ok
                  /\ IsAnswer(m) \/ m.kind \in AsUser => before.open = {}
                  /\ m.call # NoCall => m.call \in before.open,
           open |-> open, waits |-> before.waits /\ open # {}]
Scan(messages) ==
  LET upTo[i \in 0 .. Len(messages)] == IF i = 0 THEN ScanStart ELSE ScanNext(upTo[i - 1], messages[i])
  IN upTo
Sound(messages, pendingAllowed) ==
  LET end == Scan(messages)[Len(messages)]
  IN end.ok /\ ~end.waits /\ (pendingAllowed \/ end.open = {})

\* api_groups, by the positions at which they begin: a tool call and its results stay together
GroupStarts(messages) ==
  LET begins(m, spoke, open) == open = {} /\ (m.kind \in AsUser \/ (IsAnswer(m) /\ spoke))
      scan == Scan(messages)
      spoke[i \in 0 .. Len(messages)] ==
        /\ i # 0
        /\ \/ IsAnswer(messages[i])
           \/ spoke[i - 1] /\ ~begins(messages[i], spoke[i - 1], scan[i - 1].open)
  IN {i \in DOMAIN messages : i = 1 \/ begins(messages[i], spoke[i - 1], scan[i - 1].open)}
\* where the group of a position begins
GroupOf(messages, i) == Newest({s \in GroupStarts(messages) : s <= i})

Without(messages, ids) == Picked(messages, {i \in DOMAIN messages : messages[i].id \notin ids})
Only(messages, ids) == Picked(messages, {i \in DOMAIN messages : messages[i].id \in ids})
Unmarked(messages) == Picked(messages, {i \in DOMAIN messages : messages[i].kind # "marker"})
Until(messages, cut) == SubSeq(messages, 1, cut)
Beyond(messages, cut) == SubSeq(messages, cut + 1, Len(messages))
\* _truncate_tool_results: the long results of the turns before the last `keep` ones
Short(m, turn) == IF m.kind = "result" /\ m.turn <= turn THEN [m EXCEPT !.short = TRUE] ELSE m
Shorten(messages, keep) ==
  [i \in DOMAIN messages |-> Short(messages[i], Newest(TurnsIn(messages)) - keep)]

\* split_checkpoint: for a budget that keeps two groups or more, or the second of two when
\* the first is a checkpoint
Cuts(messages) ==
  LET starts == GroupStarts(messages)
      later(cut) == Cardinality({s \in starts : s > cut})
  IN {cut \in DOMAIN messages :
        /\ cut + 1 \in starts
        /\ \/ later(cut) >= 2
           \/ later(cut) = Cardinality(starts) - 1 /\ \A i \in 1 .. cut : messages[i].kind \in {"summary", "handoff"}}
Older(messages, cut) == Without(Until(Unmarked(messages), cut), {Goal(messages)})
\* mutant: the user's message is summarised with its group
Recent_AsIs(messages, cut) == Beyond(Unmarked(messages), cut)
Recent(messages, cut) ==
  LET tail == Beyond(Unmarked(messages), cut)
  IN IF Goal(messages) \in Ids(Until(Unmarked(messages), cut)) THEN Only(messages, {Goal(messages)}) \o tail ELSE tail

MessageKinds == AsUser \cup {"assistant", "native", "result", "marker"}
Messages ==
  [id : Nat, kind : MessageKinds, turn : Int, calls : SUBSET (Nat \X Nat), call : Nat \X Nat, covers : SUBSET Nat,
   short : BOOLEAN]
CompactionTypeOK ==
  /\ mode \in Modes /\ stage \in {"idle", "prepare", "model", "tools", "summary"}
  /\ window \in Seq(Messages) /\ \A i, j \in DOMAIN window : window[i].id = window[j].id => i = j
  /\ Ids(window) \cup filed \subseteq 1 .. born
  /\ tries \in 0 .. 2 /\ asked \subseteq 1 .. born /\ astray \subseteq said /\ said \subseteq 1 .. born

CompactionInit ==
  /\ mode \in Modes /\ window = <<>> /\ filed = {} /\ stage = "idle" /\ asked = {} /\ job = NoJob
  /\ tries = 0 /\ round = 0 /\ born = 0 /\ arrivals = 0 /\ cuts = 0 /\ said = {} /\ astray = {}

-------------------------------------------------------------------------------
\* The run that grows the window (engine.py)
Room == born < MaxMessages
\* a message of the conversation joins the window
Joins(message) ==
  /\ Room /\ window' = Append(window, message) /\ born' = born + 1 /\ said' = said \cup {born + 1}
NextTurn == Newest(TurnsIn(window)) + 1

NewQuestion ==
  /\ stage = "idle" /\ Joins(Plain(born + 1, "user", NextTurn))
  /\ round' = NextTurn /\ stage' = "prepare"
  /\ UNCHANGED <<mode, filed, asked, job, tries, arrivals, cuts, astray>>

\* prepare_for_llm: the request is valid and fits
Fits ==
  /\ stage = "prepare" /\ Sound(window, FALSE)
  /\ asked' = Ids(window) /\ stage' = "model"
  /\ UNCHANGED <<mode, window, filed, job, tries, round, born, arrivals, cuts, said, astray>>

\* the model answers, with tools to run or without
ModelSays(n) ==
  /\ stage = "model"
  /\ Joins([Plain(born + 1, "assistant", round) EXCEPT !.calls = {<<born + 1, k>> : k \in 1 .. n}])
  /\ IF n = 0 THEN stage' = "idle" /\ tries' = 0 ELSE stage' = "tools" /\ UNCHANGED tries
  /\ UNCHANGED <<mode, filed, asked, job, round, arrivals, cuts, astray>>

Waiting == Scan(window)[Len(window)].open
Finish(call) ==
  /\ stage = "tools" /\ call \in Waiting
  /\ Joins([Plain(born + 1, "result", round) EXCEPT !.call = call])
  /\ UNCHANGED <<mode, filed, stage, asked, job, tries, round, arrivals, cuts, astray>>
NextStep ==
  /\ stage = "tools" /\ Waiting = {}
  /\ stage' = "prepare" /\ tries' = 0
  /\ UNCHANGED <<mode, window, filed, asked, job, round, born, arrivals, cuts, said, astray>>

\* subagent_service._inject_result: whenever a subagent ends, whatever the parent is doing
Arrives ==
  /\ arrivals < MaxInjected /\ window # <<>> /\ Joins(Plain(born + 1, "subagent", NextTurn))
  /\ arrivals' = arrivals + 1
  /\ UNCHANGED <<mode, filed, stage, asked, job, tries, round, cuts, astray>>

-------------------------------------------------------------------------------
\* compact_session_async.  Where the run goes on after a compaction, and after one that failed
Onward(cause) == IF cause = "user" THEN "idle" ELSE IF cause \in {"soft", "hard"} THEN "model" ELSE "prepare"

\* the messages of the window the caller's request knew
Working(seen) == Only(window, seen)
File == filed' = filed \cup Ids(window)
\* Gap 1: what joined the window after the request was built - a result that arrived, or
\* the checkpoint of a first compaction the service still found too long - is not in
\* `seen`, and a committed candidate leaves it out.
\* Gap 2: split_checkpoint takes no marker along: what was cut to one is in no source.
Unseen(base, seen) == Covers(Without(base, seen))
MarkedCovers(messages) == UNION {messages[i].covers : i \in {j \in DOMAIN messages : messages[j].kind = "marker"}}

\* the handoff for an API whose signed history cannot be cut: one message, and the user's own
Rewritten(working, candidate, id) ==
  IF mode = "client" THEN candidate
  ELSE <<Checkpoint(id, "handoff", round, Covers(working))>> \o Only(working, {Goal(working)})

\* nothing joined the window while the model was asked
\* mutant: the window may have changed
Fresh_Unchecked == TRUE
Fresh == window = job.base

Causes ==
  CASE stage = "prepare" -> {"soft", "hard"}
    [] stage = "model" -> {"provider"}
    [] stage = "tools" /\ Waiting = {} -> {"agent"}
    [] stage = "idle" /\ window # <<>> -> {"user"}
    [] OTHER -> {}
\* visible_ids: the model service refuses the request that was built before it was called
Seen(cause) == IF cause = "provider" THEN asked ELSE Ids(window)
Allowed(cause) == cuts < MaxCuts /\ born + 3 <= MaxMessages /\ (cause = "provider" => tries < 2)
Counted(cause) == tries' = IF cause = "provider" THEN tries + 1 ELSE tries

\* _build_prepared_context: what was committed may still not fit, and is then cut further
Commits(cause, seen) ==
  \/ stage' = Onward(cause) /\ job' = NoJob
  \/ /\ cause \in {"soft", "hard", "provider"} /\ stage' = "summary"
     /\ job' = [cause |-> cause, base |-> <<>>, seen |-> seen, way |-> "archive"]

Install(candidate, used, cause, seen) ==
  /\ window' = candidate /\ File
  /\ born' = born + used /\ cuts' = cuts + 1
  /\ asked' = seen /\ Commits(cause, seen)

\* shortening old tool results is enough
Trim(cause) ==
  LET working == Working(Seen(cause))
      trimmed == Shorten(working, 1)
  IN /\ cause \in Causes /\ Allowed(cause) /\ trimmed # working
     /\ Sound(working, FALSE)
     /\ Install(Rewritten(working, trimmed, born + 1), 1, cause, Seen(cause))
     /\ astray' = astray \cup Unseen(window, Seen(cause)) /\ Counted(cause)
     /\ UNCHANGED <<mode, round, arrivals, said>>

\* the archive comes first; then the model is asked, for a summary or for its own checkpoint
BeginCompaction(cause, way) ==
  LET working == Working(Seen(cause))
  IN /\ cause \in Causes /\ Allowed(cause) /\ Sound(working, FALSE)
     /\ way = "native" => mode = "native"
     /\ File /\ job' = [cause |-> cause, base |-> window, seen |-> Seen(cause), way |-> way]
     /\ stage' = "summary" /\ Counted(cause)
     /\ UNCHANGED <<mode, window, asked, round, born, arrivals, cuts, said, astray>>

\* the summary is there, the candidate fits, and nothing arrived meanwhile
Summarized(cut) ==
  LET working == Shorten(Only(job.base, job.seen), 1)
      older == Older(working, cut)
      recent == Recent(working, cut)
      turn == IF recent = <<>> THEN round ELSE Oldest(TurnsIn(recent)) - 1
      candidate == <<Checkpoint(born + 1, "summary", turn, Covers(older))>> \o recent
      next == Rewritten(working, candidate, born + 2)
  IN /\ stage = "summary" /\ job.way = "summary" /\ Fresh
     /\ cut \in Cuts(Unmarked(working)) /\ older # <<>> /\ Sound(older, FALSE)
     /\ Sound(next, TRUE)
     /\ Install(next, 2, job.cause, job.seen)
     /\ astray' = astray \cup Unseen(job.base, job.seen) \cup (IF mode = "client" THEN MarkedCovers(working) ELSE {})
     /\ UNCHANGED <<mode, tries, round, arrivals, said>>

\* the service's own checkpoint of all that comes before the group of the user's last message
NativeDone ==
  LET working == Only(job.base, job.seen)
      cut == IF Goals(working) = {} THEN Len(working) ELSE GroupOf(working, Newest(Goals(working))) - 1
      source == Until(working, cut)
      recent == Beyond(working, cut)
      candidate == <<Checkpoint(born + 1, "native", round, Covers(source))>> \o recent
  IN /\ stage = "summary" /\ job.way = "native" /\ Fresh /\ source # <<>>
     /\ Sound(candidate, TRUE)
     /\ Install(candidate, 1, job.cause, job.seen)
     /\ astray' = astray \cup Unseen(job.base, job.seen)
     /\ UNCHANGED <<mode, tries, round, arrivals, said>>
\* there is none: the same again with a summary
NativeRefused ==
  /\ stage = "summary" /\ job.way = "native"
  /\ job' = [job EXCEPT !.way = "summary", !.base = window] /\ File
  /\ UNCHANGED <<mode, window, stage, asked, tries, round, born, arrivals, cuts, said, astray>>

\* _compact_to_fit: keep the groups of the last turns and the user's message; the rest goes to markers
Retained(working, keep) ==
  LET turns == TurnsIn(Unmarked(working))
      near(turn) == (\E t \in turns : t <= turn) /\ Cardinality({t \in turns : t > turn}) < keep
  IN {Goal(working)} \cup
     {working[i].id : i \in {j \in DOMAIN working : \E k \in DOMAIN working :
                               GroupOf(working, k) = GroupOf(working, j) /\ near(working[k].turn)}}
\* the positions that go, and those of them at which a marker takes the place of a run
CutOut(working, retained) == {i \in DOMAIN window : window[i].id \in Ids(working) \ retained}
RunStarts(gone) == {i \in gone : i - 1 \notin gone}
CutToMarkers(working, gone) ==
  LET order == InOrder((DOMAIN window \ gone) \cup RunStarts(gone))
      rank(i) == Cardinality({j \in RunStarts(gone) : j <= i})
      run(i) == {j \in gone : j >= i /\ i .. j \subseteq gone}
      kept(m) == IF mode = "client" /\ m.id \in Ids(working) THEN Short(m, m.turn) ELSE m
  IN [k \in DOMAIN order |->
        LET i == order[k]
        IN IF i \in gone THEN Checkpoint(born + rank(i), "marker", round, UNION {window[j].covers : j \in run(i)})
           ELSE kept(window[i])]

Archive(keep) ==
  LET working == Working(job.seen)
      retained == Retained(working, keep)
      gone == CutOut(working, retained)
      used == Cardinality(RunStarts(gone))
  IN /\ stage = "summary" /\ job.cause \in {"soft", "hard", "provider"}
     /\ mode # "client" => keep = 0
     /\ gone # {} /\ born + used <= MaxMessages
     /\ Sound(Only(working, retained), FALSE)
     /\ Install(CutToMarkers(working, gone), used, job.cause, job.seen)
     /\ UNCHANGED <<mode, tries, round, arrivals, said, astray>>

\* rebase_context: another model, or its parameters, cannot go on with the signed history;
\* everything but the user's own message goes into one handoff
Rebase ==
  LET goal == Only(window, {Goal(window)})
      others == Without(window, {Goal(window)})
  IN /\ stage \in {"prepare", "model"} /\ cuts < MaxCuts /\ Room /\ others # <<>>
     /\ window' = <<Checkpoint(born + 1, "handoff", 0, Covers(others))>> \o goal /\ File
     /\ born' = born + 1 /\ cuts' = cuts + 1 /\ stage' = "prepare"
     /\ UNCHANGED <<mode, asked, job, tries, round, arrivals, said, astray>>

\* No candidate at all.  A soft limit goes on as it is, an agent reads a notice, and
\* the run of a hard limit ends; a window that changed meanwhile ends the run as well.
GiveUp ==
  /\ stage = "summary" /\ job' = NoJob
  /\ IF job.cause = "agent" /\ Room
     THEN Joins(Plain(born + 1, "notice", round)) /\ stage' = "prepare"
     ELSE /\ UNCHANGED <<window, born, said>>
          /\ stage' = IF job.cause = "soft" /\ Sound(window, FALSE) THEN "model" ELSE "idle"
  /\ asked' = IF stage' = "model" THEN Ids(window) ELSE asked
  /\ UNCHANGED <<mode, filed, tries, round, arrivals, cuts, astray>>
\* reactive_max_retries
Blocked ==
  /\ stage = "model" /\ tries = 2 /\ stage' = "idle" /\ tries' = 0
  /\ UNCHANGED <<mode, window, filed, asked, job, round, born, arrivals, cuts, said, astray>>

CompactionNext ==
  \/ NewQuestion \/ Fits \/ NextStep \/ Arrives
  \/ \E n \in 0 .. 2 : ModelSays(n)
  \/ \E call \in Waiting : Finish(call)
  \/ \E cause \in Causes : Trim(cause) \/ (\E way \in {"summary", "native"} : BeginCompaction(cause, way))
  \/ \E cut \in 1 .. MaxMessages : Summarized(cut)
  \/ NativeDone \/ NativeRefused \/ Rebase \/ GiveUp \/ Blocked
  \/ \E keep \in 0 .. 2 : Archive(keep)

-------------------------------------------------------------------------------
\* What the model is shown always obeys the rules of the interface: every tool result
\* follows its call, and nothing but results comes between.
WindowIsSound == stage # "tools" => Sound(window, FALSE)
\* The user's latest message is never summarised away.
GoalStays == round > 0 => \E i \in Goals(window) : window[i].turn = round
\* Nothing is forgotten: what is not in the window can be read from the archive by
\* following the sources of the checkpoints that are.
SourcesRemain ==
  /\ said \subseteq Covers(window) \cup astray
  /\ \A i \in DOMAIN window : window[i].covers \subseteq filed \cup Ids(window)
  /\ \A i \in DOMAIN window : window[i].short => window[i].id \in filed

WindowIsFaithful == WindowIsSound /\ GoalStays /\ SourcesRemain
=============================================================================
