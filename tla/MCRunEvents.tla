------------------------------ MODULE MCRunEvents ------------------------------
(* What a run does and what it tells: Turns, and RunEvents with queues that   *)
(* cannot overflow within the events of a run and its None (Wide), and with   *)
(* queues that can (Narrow), where a publisher may wait at the full queue of  *)
(* one reader with others still to feed.  They share no state here: the       *)
(* initial state chooses the one a behaviour is about, and the others rest.   *)
EXTENDS Turns
CONSTANTS WideReaders, NarrowReaders, Driver, Others,
          WideCapacity, WideEvents, WideDrops, NarrowCapacity, NarrowEvents, NarrowDrops
VARIABLES focus, log, life, subs, pending, walk, queue, reader, entered, backlog, cursor, drops

eventsVars == <<log, life, subs, pending, walk, queue, reader, entered, backlog, cursor, drops>>
vars == <<focus, eventsVars, turnsVars>>

Wide == INSTANCE RunEvents WITH
          Readers <- WideReaders, Capacity <- WideCapacity, MaxEvents <- WideEvents, MaxDrops <- WideDrops, Faults <- FALSE
Narrow == INSTANCE RunEvents WITH
          Readers <- NarrowReaders, Capacity <- NarrowCapacity, MaxEvents <- NarrowEvents, MaxDrops <- NarrowDrops, Faults <- TRUE

\* A wide queue has room for the events of a run and for the None that ends it.
ASSUME BoundsAssumption == Wide!Bounded /\ Narrow!Bounded /\ WideCapacity > WideEvents

Init ==
  /\ \/ focus \in {"wide", "turns"} /\ Wide!Init
     \/ focus = "narrow" /\ Narrow!Init
  /\ TurnsInit

Next ==
  /\ UNCHANGED focus
  /\ \/ focus = "wide" /\ Wide!Next /\ UNCHANGED turnsVars
     \/ focus = "narrow" /\ Narrow!Next /\ UNCHANGED turnsVars
     \/ focus = "turns" /\ TurnsNext /\ UNCHANGED eventsVars

\* A publisher delivers what it committed, a driver that ended closes its run, and a client
\* goes on reading and connects again when its stream ended, in the behaviours that are
\* about events: a reader that rests is not one that is kept waiting.
WideFairness ==
  /\ \A p \in Wide!Publishers : WF_eventsVars(focus = "wide" /\ Wide!Deliver(p))
  /\ \A r \in WideReaders : WF_eventsVars(focus = "wide" /\ Wide!Read(r))
  /\ WF_eventsVars(focus = "wide" /\ Wide!CloseRun)

FairSpec == Init /\ [][Next]_vars /\ WideFairness /\ TurnsFairness
NarrowSpec == Init /\ focus = "narrow" /\ [][Next]_vars

-----------------------------------------------------------------------------
TypesOK ==
  CASE focus = "wide" -> Wide!TypeOK
    [] focus = "narrow" -> Narrow!TypeOK
    [] focus = "turns" -> TurnsTypeOK

\* Clients receive the events of a run as EventFeed promises, over all the streams they
\* open, as long as no queue overflows: the replay and the queue leave no gap between them.
Feed == INSTANCE EventFeed WITH
          Readers <- WideReaders, Kinds <- Wide!Kinds,
          log <- IF focus = "wide" THEN log ELSE <<>>,
          cursor <- IF focus = "wide" THEN cursor ELSE [r \in WideReaders |-> 0]
FeedSpec == Feed!Spec

\* ... and a client that reconnects catches up, again and again: every committed event
\* reaches it.
EveryEventArrives ==
  \A r \in WideReaders : []<>(focus # "wide" \/ cursor[r] = Len(log))

\* Everything has its type, and queues keep their bound, also those that overflow while
\* the run closes in the middle of a delivery.  A subscriber that is still fed has not been
\* told that its stream ends: what it is given would be lost without its client being told.
\* And behind a None there is at most one entry: the event whose delivery was under way,
\* which the log has for the client that comes again, or a second None.
QueuesStayBounded ==
  /\ TypesOK
  /\ \A r \in DOMAIN queue : \A i \in DOMAIN queue[r] :
       /\ queue[r][i] \in 0..Len(log)
       /\ queue[r][i] = 0 => r \notin subs /\ Len(queue[r]) <= i + 1

\* docs/host-agent-orchestration.md: the client of a stream that overflowed "reconnects
\* from the largest seq it received": nothing below it was lost.
NothingSkipped == [][\A r \in DOMAIN cursor : cursor'[r] <= cursor[r] + 1]_vars
=============================================================================
