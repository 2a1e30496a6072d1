------------------------------- MODULE RunEvents ------------------------------
(***************************************************************************)
(* The events of one run: the rows of run_events, the queues of the        *)
(* subscribers of a live run, and a client that reads the event stream of  *)
(* the host interface and reconnects from the largest number it received.  *)
(* An event is its number; a queue holds numbers, and 0 for the None that  *)
(* ends a stream.                                                          *)
(***************************************************************************)
EXTENDS Naturals, Sequences, FiniteSets

CONSTANTS
  Readers,
  Driver, Others,  \* who publishes: the driver, and requests and subagents
  Capacity,        \* HOST_EVENT_QUEUE_LIMIT, positive
  MaxEvents,       \* bound: events of the run
  MaxDrops,        \* bound: connections that break
  Faults           \* whether the publication of a terminal event may fail

VARIABLES
  log,             \* run_events: delta or completed
  life,            \* _runs: idle (no entry), running, closing
  subs,            \* LiveRunState.subscribers
  pending,         \* the event a publisher has committed and not delivered yet
  walk,            \* a delivery that waits for _lock at a full queue: its publisher and
                   \* event, the full subscriber, and the ones it has not come to
  queue,
  reader,          \* what the stream of a reader does
  entered,         \* whether the run was live when the reader subscribed
  backlog,         \* what a reader has read from the log
  cursor,          \* last_seq of the stream, and of the client after it
  drops

vars == <<log, life, subs, pending, walk, queue, reader, entered, backlog, cursor, drops>>

\* A queue has a place, and the bounds are numbers.
Bounded == Capacity \in Nat \ {0} /\ MaxEvents \in Nat /\ MaxDrops \in Nat /\ Faults \in BOOLEAN

Publishers == {Driver} \cup Others
Kinds == {"delta", "completed"}
Phases == {"off", "subscribed", "read", "backlog", "live"}

Walks == [by : SUBSET Publishers, event : Nat, full : SUBSET Readers, rest : SUBSET Readers]
\* no delivery waits
Home == [by |-> {}, event |-> 0, full |-> {}, rest |-> {}]

TypeOK ==
  /\ log \in Seq(Kinds)
  /\ life \in {"idle", "running", "closing"}
  /\ subs \subseteq Readers /\ walk \in Walks
  /\ pending \in [Publishers -> Nat]
  /\ \A r \in Readers : /\ queue[r] \in Seq(Nat) /\ Len(queue[r]) <= Capacity
                        /\ backlog[r] \in Seq(Nat)
  /\ reader \in [Readers -> Phases]
  /\ entered \in [Readers -> BOOLEAN]
  /\ cursor \in [Readers -> Nat]
  /\ drops \in Nat

Init ==
  /\ log = <<>> /\ life = "idle" /\ subs = {} /\ walk = Home
  /\ pending = [p \in Publishers |-> 0]
  /\ queue = [r \in Readers |-> <<>>]
  /\ reader = [r \in Readers |-> "off"]
  /\ entered = [r \in Readers |-> FALSE]
  /\ backlog = [r \in Readers |-> <<>>]
  /\ cursor = [r \in Readers |-> 0]
  /\ drops = 0

readers == <<reader, entered, backlog, cursor, drops>>

-----------------------------------------------------------------------------
(* _commit_and_publish                                                       *)

\* the publish lock of the run is held until an event has been delivered
Publishing == walk # Home \/ \E p \in Publishers : pending[p] # 0

\* only the driver publishes `completed`, and nothing after it
MayPublish(p, kind) ==
  /\ Len(log) < MaxEvents
  /\ p = Driver => life = "running"
  /\ kind = "completed" => p = Driver

Append1(p, kind) ==
  /\ log' = Append(log, kind)
  /\ pending' = [pending EXCEPT ![p] = Len(log) + 1]
  /\ UNCHANGED <<life, subs, walk, queue, readers>>

\* mutant: events are published without the lock
Commit_Unlocked(p, kind) == pending[p] = 0 /\ MayPublish(p, kind) /\ Append1(p, kind)

Commit(p, kind) == ~Publishing /\ MayPublish(p, kind) /\ Append1(p, kind)

\* The subscribers S are visited one by one.  The ones with room get the event; at the
\* first full one the publisher waits for _lock, with others still to visit.
Visit(by, n, S, q) ==
  LET room == {r \in S : Len(q[r]) < Capacity}
  IN \E fed \in SUBSET room :
       /\ queue' = [r \in Readers |-> IF r \in fed THEN Append(q[r], n) ELSE q[r]]
       /\ \/ fed = S /\ walk' = Home
          \/ \E r \in S \ room :
               walk' = [by |-> by, event |-> n, full |-> {r}, rest |-> S \ (fed \cup {r})]

\* the subscribers are taken under _lock, then visited
Deliver(p) ==
  /\ pending[p] # 0 /\ walk = Home
  /\ Visit({p}, pending[p], subs, queue)
  /\ life' = IF log[pending[p]] = "completed" THEN "closing" ELSE life
  /\ pending' = [pending EXCEPT ![p] = 0]
  /\ UNCHANGED <<log, subs, readers>>

\* _close_queue_after_overflow drops the oldest event to make room for the None;
\* a queue that was drained meanwhile stays as it is
CloseFull(q) == IF q = <<>> THEN q ELSE Append(Tail(q), 0)
CloseSlow == [r \in Readers |-> IF r \in walk.full THEN CloseFull(queue[r]) ELSE queue[r]]

\* mutant: the closed subscriber stays subscribed
GoOn_Keeps ==
  /\ walk # Home
  /\ Visit(walk.by, walk.event, walk.rest, CloseSlow)
  /\ UNCHANGED <<log, life, subs, pending, readers>>

\* _lock is free: the full subscriber is dropped and closed, and the visit goes on
GoOn ==
  /\ walk # Home
  /\ subs' = subs \ walk.full
  /\ Visit(walk.by, walk.event, walk.rest, CloseSlow)
  /\ UNCHANGED <<log, life, pending, readers>>

-----------------------------------------------------------------------------
(* The life of the run                                                       *)

\* start_chat_run, and resume_elicitation_run after a completed turn
GoLive ==
  /\ life = "idle" /\ Len(log) < MaxEvents
  /\ life' = "running"
  /\ UNCHANGED <<log, subs, pending, walk, queue, readers>>

\* rows written by the store alone: a run without a driver that is cancelled,
\* expired or recovered, and the fallback of a driver that failed to publish
StoreAppend ==
  /\ Len(log) < MaxEvents
  /\ life = "idle" \/ (Faults /\ life = "running" /\ pending[Driver] = 0 /\ Driver \notin walk.by)
  /\ log' = Append(log, "completed")
  /\ life' = IF life = "running" THEN "closing" ELSE life
  /\ UNCHANGED <<subs, pending, walk, queue, readers>>

\* mutant: the None is put past the capacity
PutClose_Unbounded(q) == Append(q, 0)

PutClose(q) == IF Len(q) < Capacity THEN Append(q, 0) ELSE CloseFull(q)

\* mutant: the subscribers are not told
CloseRun_Silent ==
  /\ life = "closing" /\ Driver \notin walk.by
  /\ life' = "idle" /\ subs' = {}
  /\ UNCHANGED <<log, pending, walk, queue, readers>>

\* _close_run, when the delivery of the driver is over, but maybe in the middle of
\* that of another publisher
CloseRun ==
  /\ life = "closing" /\ Driver \notin walk.by
  /\ life' = "idle" /\ subs' = {}
  /\ queue' = [r \in Readers |-> IF r \in subs THEN PutClose(queue[r]) ELSE queue[r]]
  /\ UNCHANGED <<log, pending, walk, readers>>

-----------------------------------------------------------------------------
(* stream_host_run_events, and stream_run_events of the page: subscribe,      *)
(* replay the log, then follow the queue                                     *)

runVars == <<log, life, pending>>

\* the stream ends, and its queue with it
Leave(r) ==
  /\ reader' = [reader EXCEPT ![r] = "off"]
  /\ subs' = subs \ {r}
  /\ walk' = [walk EXCEPT !.full = @ \ {r}, !.rest = @ \ {r}]
  /\ queue' = [queue EXCEPT ![r] = <<>>] /\ backlog' = [backlog EXCEPT ![r] = <<>>]

\* subscribe_from, from the largest number the client has received
Connect(r) ==
  /\ reader[r] = "off"
  /\ reader' = [reader EXCEPT ![r] = "subscribed"]
  /\ entered' = [entered EXCEPT ![r] = life # "idle"]
  /\ subs' = IF life # "idle" THEN subs \cup {r} ELSE subs
  /\ UNCHANGED <<runVars, walk, queue, backlog, cursor, drops>>

\* list_events_after, in a thread
ReadLog(r) ==
  /\ reader[r] = "subscribed"
  /\ reader' = [reader EXCEPT ![r] = "read"]
  /\ backlog' = [backlog EXCEPT ![r] = [i \in 1..(Len(log) - cursor[r]) |-> cursor[r] + i]]
  /\ UNCHANGED <<runVars, subs, walk, queue, entered, cursor, drops>>

\* mutant: what was queued during the replay is dropped
Drain_Discards(r) ==
  /\ reader[r] = "read"
  /\ reader' = [reader EXCEPT ![r] = "backlog"]
  /\ queue' = [queue EXCEPT ![r] = <<>>]
  /\ UNCHANGED <<runVars, subs, walk, backlog, entered, cursor, drops>>

Entries(q) == {q[i] : i \in DOMAIN q}
Sorted(S) == [i \in 1..Cardinality(S) |-> CHOOSE n \in S : Cardinality({m \in S : m <= n}) = i]
\* the queued events are merged with the backlog by number; a None comes last
Merged(r) ==
  LET events == Sorted({n \in Entries(backlog[r]) \cup Entries(queue[r]) : n > cursor[r]})
  IN IF 0 \in Entries(queue[r]) THEN Append(events, 0) ELSE events
Drain(r) ==
  /\ reader[r] = "read"
  /\ reader' = [reader EXCEPT ![r] = "backlog"]
  /\ backlog' = [backlog EXCEPT ![r] = Merged(r)]
  /\ queue' = [queue EXCEPT ![r] = <<>>]
  /\ UNCHANGED <<runVars, subs, walk, entered, cursor, drops>>

\* the stream of the page sends the log and leaves the queue as it is
Replay(r) ==
  /\ reader[r] = "read"
  /\ reader' = [reader EXCEPT ![r] = "backlog"]
  /\ UNCHANGED <<runVars, subs, walk, queue, backlog, entered, cursor, drops>>

\* an event is sent; the stream ends with a None or the first `completed`
Send(r, n) ==
  /\ cursor' = [cursor EXCEPT ![r] = IF n > @ THEN n ELSE @]
  /\ UNCHANGED <<runVars, entered, drops>>
Ends(r, n) == n = 0 \/ (n > cursor[r] /\ log[n] = "completed")

Yield(r) ==
  /\ reader[r] = "backlog" /\ backlog[r] # <<>>
  /\ Send(r, Head(backlog[r]))
  /\ IF Ends(r, Head(backlog[r])) THEN Leave(r)
     ELSE backlog' = [backlog EXCEPT ![r] = Tail(@)] /\ UNCHANGED <<reader, subs, walk, queue>>

\* the replay is over: a run that was not live has no queue to follow
Follow(r) ==
  /\ reader[r] = "backlog" /\ backlog[r] = <<>>
  /\ \/ /\ entered[r] /\ reader' = [reader EXCEPT ![r] = "live"]
        /\ UNCHANGED <<subs, walk, queue, backlog>>
     \/ ~entered[r] /\ Leave(r)
  /\ UNCHANGED <<runVars, entered, cursor, drops>>

Take(r) ==
  /\ reader[r] = "live" /\ queue[r] # <<>>
  /\ Send(r, Head(queue[r]))
  /\ IF Ends(r, Head(queue[r])) THEN Leave(r)
     ELSE queue' = [queue EXCEPT ![r] = Tail(@)] /\ UNCHANGED <<reader, subs, walk, backlog>>

\* the connection breaks; what was sent has arrived
Drop(r) ==
  /\ reader[r] # "off" /\ drops < MaxDrops
  /\ drops' = drops + 1 /\ Leave(r)
  /\ UNCHANGED <<runVars, entered, cursor>>

Read(r) == Connect(r) \/ ReadLog(r) \/ Drain(r) \/ Replay(r) \/ Yield(r) \/ Follow(r) \/ Take(r)

Next ==
  \/ \E p \in Publishers, kind \in Kinds : Commit(p, kind)
  \/ \E p \in Publishers : Deliver(p)
  \/ \E r \in Readers : Read(r) \/ Drop(r)
  \/ GoOn \/ GoLive \/ StoreAppend \/ CloseRun

Spec == Init /\ [][Next]_vars
=============================================================================
