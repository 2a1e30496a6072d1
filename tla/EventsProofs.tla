------------------------------ MODULE EventsProofs ------------------------------
(* What MCRunEvents promises.  Of the events of a run, from the facts of           *)
(* RunEventsProofs; of its rounds, from the invariant TurnsInv below, which needs  *)
(* what the repair of a history and the messages of a request compute for every    *)
(* history: both take the messages one after the other, and the lemmas on them say *)
(* what holds after each.                                                          *)
EXTENDS MCRunEvents, ListsProofs

WideP == INSTANCE RunEventsProofs WITH
           Readers <- WideReaders, Capacity <- WideCapacity, MaxEvents <- WideEvents, MaxDrops <- WideDrops, Faults <- FALSE
NarrowP == INSTANCE RunEventsProofs WITH
             Readers <- NarrowReaders, Capacity <- NarrowCapacity, MaxEvents <- NarrowEvents, MaxDrops <- NarrowDrops, Faults <- TRUE

\* The steps of Wide are those that WideP speaks of.
LEMMA WideSteps == (Wide!Next <=> WideP!Next) /\ (UNCHANGED Wide!vars => UNCHANGED WideP!vars)
<1>1. ASSUME NEW r PROVE Wide!Merged(r) = WideP!Merged(r)
  <2>1. ASSUME NEW S PROVE Wide!Sorted(S) = WideP!Sorted(S)
    BY DEF Wide!Sorted, WideP!Sorted, Wide!Cardinality, WideP!Cardinality
  <2>2. ASSUME NEW q PROVE Wide!Entries(q) = WideP!Entries(q)
    BY DEF Wide!Entries, WideP!Entries
  <2>. QED BY <2>1, <2>2 DEF Wide!Merged, WideP!Merged
<1>. USE DEF Wide!vars, WideP!vars, Wide!readers, WideP!readers, Wide!Publishers, WideP!Publishers,
            Wide!runVars, WideP!runVars, Wide!Kinds, WideP!Kinds, Wide!Leave, WideP!Leave,
            Wide!Send, WideP!Send, Wide!Ends, WideP!Ends
<1>2. ASSUME NEW r PROVE Wide!Read(r) <=> WideP!Read(r)
  BY <1>1 DEF Wide!Read, WideP!Read, Wide!Connect, WideP!Connect, Wide!ReadLog, WideP!ReadLog,
             Wide!Drain, WideP!Drain, Wide!Replay, WideP!Replay, Wide!Yield, WideP!Yield,
             Wide!Follow, WideP!Follow, Wide!Take, WideP!Take
<1>. QED BY <1>2 DEF Wide!Next, WideP!Next, Wide!Commit, WideP!Commit, Wide!MayPublish,
                   WideP!MayPublish, Wide!Publishing, WideP!Publishing, Wide!Append1, WideP!Append1,
                   Wide!Deliver, WideP!Deliver, Wide!Visit, WideP!Visit, Wide!Home, WideP!Home,
                   Wide!GoOn, WideP!GoOn, Wide!CloseSlow, WideP!CloseSlow,
                   Wide!CloseFull, WideP!CloseFull, Wide!GoLive, WideP!GoLive, Wide!StoreAppend,
                   WideP!StoreAppend, Wide!CloseRun, WideP!CloseRun, Wide!PutClose, WideP!PutClose,
                   Wide!Drop, WideP!Drop

\* The steps of Narrow are those that NarrowP speaks of.
LEMMA NarrowSteps == (Narrow!Next <=> NarrowP!Next) /\ (UNCHANGED Narrow!vars => UNCHANGED NarrowP!vars)
<1>1. ASSUME NEW r PROVE Narrow!Merged(r) = NarrowP!Merged(r)
  <2>1. ASSUME NEW S PROVE Narrow!Sorted(S) = NarrowP!Sorted(S)
    BY DEF Narrow!Sorted, NarrowP!Sorted, Narrow!Cardinality, NarrowP!Cardinality
  <2>2. ASSUME NEW q PROVE Narrow!Entries(q) = NarrowP!Entries(q)
    BY DEF Narrow!Entries, NarrowP!Entries
  <2>. QED BY <2>1, <2>2 DEF Narrow!Merged, NarrowP!Merged
<1>. USE DEF Narrow!vars, NarrowP!vars, Narrow!readers, NarrowP!readers, Narrow!Publishers,
            NarrowP!Publishers, Narrow!runVars, NarrowP!runVars, Narrow!Kinds, NarrowP!Kinds,
            Narrow!Leave, NarrowP!Leave, Narrow!Send, NarrowP!Send, Narrow!Ends, NarrowP!Ends
<1>2. ASSUME NEW r PROVE Narrow!Read(r) <=> NarrowP!Read(r)
  BY <1>1 DEF Narrow!Read, NarrowP!Read, Narrow!Connect, NarrowP!Connect, Narrow!ReadLog,
             NarrowP!ReadLog, Narrow!Drain, NarrowP!Drain, Narrow!Replay, NarrowP!Replay,
             Narrow!Yield, NarrowP!Yield, Narrow!Follow, NarrowP!Follow, Narrow!Take, NarrowP!Take
<1>. QED BY <1>2 DEF Narrow!Next, NarrowP!Next, Narrow!Commit, NarrowP!Commit, Narrow!MayPublish,
                   NarrowP!MayPublish, Narrow!Publishing, NarrowP!Publishing, Narrow!Append1,
                   NarrowP!Append1, Narrow!Deliver, NarrowP!Deliver, Narrow!Visit,
                   NarrowP!Visit, Narrow!Home, NarrowP!Home, Narrow!GoOn,
                   NarrowP!GoOn, Narrow!CloseSlow, NarrowP!CloseSlow, Narrow!CloseFull, NarrowP!CloseFull, Narrow!GoLive,
                   NarrowP!GoLive, Narrow!StoreAppend, NarrowP!StoreAppend, Narrow!CloseRun,
                   NarrowP!CloseRun, Narrow!PutClose, NarrowP!PutClose, Narrow!Drop, NarrowP!Drop

\* ... and so are their initial states, their types and their bounds.
LEMMA SameStates ==
  /\ (Wide!Init => WideP!Init) /\ (Narrow!Init => NarrowP!Init)
  /\ WideP!TypeOK => Wide!TypeOK
  /\ NarrowP!TypeOK => Narrow!TypeOK
  /\ WideP!Bounded /\ WideP!Roomy /\ NarrowP!Bounded
<1>1. (Wide!Init => WideP!Init) /\ (Narrow!Init => NarrowP!Init)
  BY DEF Wide!Init, WideP!Init, Narrow!Init, NarrowP!Init, Wide!Home, WideP!Home, Narrow!Home,
         NarrowP!Home, Wide!Publishers, WideP!Publishers, Narrow!Publishers, NarrowP!Publishers
<1>2. WideP!TypeOK => Wide!TypeOK
  BY DEF Wide!TypeOK, WideP!TypeOK, Wide!Kinds, WideP!Kinds, Wide!Publishers, WideP!Publishers,
         Wide!Phases, WideP!Phases, Wide!Walks, WideP!Walks
<1>3. NarrowP!TypeOK => Narrow!TypeOK
  BY DEF Narrow!TypeOK, NarrowP!TypeOK, Narrow!Kinds, NarrowP!Kinds, Narrow!Publishers,
         NarrowP!Publishers, Narrow!Phases, NarrowP!Phases, Narrow!Walks, NarrowP!Walks
<1>4. WideP!Bounded /\ WideP!Roomy /\ NarrowP!Bounded
  BY BoundsAssumption DEF Wide!Bounded, WideP!Bounded, WideP!Roomy, Narrow!Bounded, NarrowP!Bounded
<1>. QED BY <1>1, <1>2, <1>3, <1>4

-----------------------------------------------------------------------------
\* What holds of the events of a run, in the behaviours that are about them; in the others
\* nothing is queued.
EventsInv ==
  /\ focus \in {"wide", "narrow", "turns"}
  /\ focus = "wide" => WideP!QueueInv /\ WideP!StreamInv
  /\ focus = "narrow" => NarrowP!QueueInv
  /\ focus = "turns" => queue = [r \in WideReaders |-> <<>>]

LEMMA EventsInvHolds == FairSpec => []EventsInv
<1>1. Init => EventsInv
  BY SameStates, WideP!QueueInitHolds, WideP!StreamInitHolds, NarrowP!QueueInitHolds DEF Init, EventsInv, Wide!Init
<1>2. EventsInv /\ [Next]_vars => EventsInv'
  <2> SUFFICES ASSUME EventsInv, [Next]_vars PROVE EventsInv'
    OBVIOUS
  <2>1. focus' = focus /\ (focus = "wide" => [Wide!Next]_(Wide!vars)) /\ (focus = "narrow" => [Narrow!Next]_(Narrow!vars))
    BY DEF Next, vars, eventsVars, Wide!vars, Narrow!vars
  <2>2. focus = "wide" => WideP!QueueInv' /\ WideP!StreamInv'
    <3> SUFFICES ASSUME focus = "wide" PROVE WideP!QueueInv' /\ WideP!StreamInv'
      OBVIOUS
    <3>1. WideP!QueueInv /\ WideP!StreamInv /\ [WideP!Next]_(WideP!vars)
      BY <2>1, WideSteps DEF EventsInv
    <3>. QED BY <3>1, SameStates, WideP!QueueStepHolds, WideP!StreamStepHolds
  <2>3. focus = "narrow" => NarrowP!QueueInv'
    <3> SUFFICES ASSUME focus = "narrow" PROVE NarrowP!QueueInv'
      OBVIOUS
    <3>1. NarrowP!QueueInv /\ [NarrowP!Next]_(NarrowP!vars)
      BY <2>1, NarrowSteps DEF EventsInv
    <3>. QED BY <3>1, SameStates, NarrowP!QueueStepHolds
  <2>4. focus = "turns" => queue' = queue
    BY DEF Next, vars, eventsVars
  <2>. QED BY <2>1, <2>2, <2>3, <2>4 DEF EventsInv
<1>. QED BY <1>1, <1>2, PTL DEF FairSpec

\* The streams of a run implement EventFeed when no queue can overflow: over all the streams
\* a client opens, with any number of connections that break, it receives every committed
\* event in the order of the log, once, and the first it has not received before any later
\* one, whether the replay, the queue or both brought it.
THEOREM StreamsImplementFeed == FairSpec => FeedSpec
<1>1. Init => Feed!Init
  BY DEF Init, Wide!Init, Feed!Init
<1>2. EventsInv /\ [Next]_vars =>
        [Feed!Next]_<<IF focus = "wide" THEN log ELSE <<>>,
                      IF focus = "wide" THEN cursor ELSE [r \in WideReaders |-> 0]>>
  <2> SUFFICES ASSUME EventsInv, [Next]_vars
               PROVE  [Feed!Next]_<<IF focus = "wide" THEN log ELSE <<>>,
                                    IF focus = "wide" THEN cursor ELSE [r \in WideReaders |-> 0]>>
    OBVIOUS
  <2>1. focus' = focus /\ (focus = "wide" => [Wide!Next]_(Wide!vars))
    BY DEF Next, vars, eventsVars, Wide!vars
  <2>2. CASE focus # "wide"
    BY <2>1, <2>2
  <2>3. CASE focus = "wide"
    <3>1. WideP!QueueInv /\ WideP!StreamInv /\ [WideP!Next]_(WideP!vars)
      BY <2>1, <2>3, WideSteps DEF EventsInv
    <3>2. WideP!FeedStep
      BY <3>1, WideP!EventsAreFed
    <3>. QED BY <2>1, <2>3, <3>2
             DEF WideP!FeedStep, WideP!Kinds, Wide!Kinds, Feed!Next, Feed!Publish, Feed!Receive
  <2>. QED BY <2>2, <2>3
<1>. QED BY <1>1, <1>2, EventsInvHolds, PTL DEF FairSpec, FeedSpec, Feed!Spec

-----------------------------------------------------------------------------
(* The rounds of a run *)

LEMMA MessageFields ==
  ASSUME NEW m \in Messages
  PROVE  /\ m.kind \in {"user", "child", "round", "result"}
         /\ m.kind = "child" => m = Child
         /\ m.kind = "round" => m.attempt \in Attempts /\ m.calls \in 0..MaxCalls /\ m = Round(m.attempt, m.calls)
         /\ m.kind = "result" => m.call \in Calls /\ m.says \in {"outcome", "unknown"} /\ m = Result(m.call, m.says)
BY DEF Messages, Ask, Child, Round, Result

LEMMA MessageTypes ==
  /\ Ask \in Messages /\ Ask.kind = "user" /\ Child \in Messages /\ Child.kind = "child"
  /\ \A a \in Attempts, n \in 0..MaxCalls : Round(a, n) \in Messages
  /\ \A a, n : Round(a, n).kind = "round" /\ Round(a, n).attempt = a /\ Round(a, n).calls = n
  /\ \A c \in Calls, says \in {"outcome", "unknown"} : Result(c, says) \in Messages
  /\ \A c, says : Result(c, says).kind = "result" /\ Result(c, says).call = c /\ Result(c, says).says = says
<1>1. Ask \in Messages /\ Ask.kind = "user" /\ Child \in Messages /\ Child.kind = "child"
  BY DEF Messages, Ask, Child
<1>2. \A a \in Attempts, n \in 0..MaxCalls : Round(a, n) \in Messages
  BY DEF Messages
<1>3. \A a, n : Round(a, n).kind = "round" /\ Round(a, n).attempt = a /\ Round(a, n).calls = n
  BY DEF Round
<1>4. \A c \in Calls, says \in {"outcome", "unknown"} : Result(c, says) \in Messages
  BY DEF Messages
<1>5. \A c, says : Result(c, says).kind = "result" /\ Result(c, says).call = c /\ Result(c, says).says = says
  BY DEF Result
<1> QED BY <1>1, <1>2, <1>3, <1>4, <1>5

\* What is in a history, whatever its order.
LEMMA Contents ==
  ASSUME NEW h \in Seq(Messages)
  PROVE  /\ Len(h) \in Nat /\ DOMAIN h = 1..Len(h) /\ \A i \in DOMAIN h : h[i] \in Messages
         /\ \A m \in Range(h) : m \in Messages /\ \E i \in DOMAIN h : m = h[i]
         /\ \A a : a \in RoundsOf(h) <=> \E m \in Range(h) : m.kind = "round" /\ m.attempt = a
         /\ \A c : c \in ResultsOf(h) <=> \E m \in Range(h) : m.kind = "result" /\ m.call = c
<1>1. Len(h) \in Nat /\ DOMAIN h = 1..Len(h) /\ \A i \in DOMAIN h : h[i] \in Messages
  OBVIOUS
<1> QED BY <1>1 DEF RoundsOf, ResultsOf, Range

LEMMA ContentsGrow ==
  ASSUME NEW h \in Seq(Messages), NEW t \in Seq(Messages)
  PROVE  RoundsOf(h \o t) = RoundsOf(h) \cup RoundsOf(t) /\ ResultsOf(h \o t) = ResultsOf(h) \cup ResultsOf(t)
<1>1. h \o t \in Seq(Messages) /\ Range(h \o t) = Range(h) \cup Range(t)
  BY Joined
<1> DEFINE g == h \o t
<1>2. g \in Seq(Messages) /\ Range(g) = Range(h) \cup Range(t)
  BY <1>1
<1> HIDE DEF g
<1>3. RoundsOf(g) = RoundsOf(h) \cup RoundsOf(t)
  BY <1>2, Contents
<1>4. ResultsOf(g) = ResultsOf(h) \cup ResultsOf(t)
  BY <1>2, Contents
<1> QED BY <1>3, <1>4 DEF g

LEMMA ContentsAppended ==
  ASSUME NEW h \in Seq(Messages), NEW m \in Messages
  PROVE  /\ RoundsOf(Append(h, m)) = RoundsOf(h) \cup (IF m.kind = "round" THEN {m.attempt} ELSE {})
         /\ ResultsOf(Append(h, m)) = ResultsOf(h) \cup (IF m.kind = "result" THEN {m.call} ELSE {})
<1> DEFINE g == Append(h, m)
<1>2. g \in Seq(Messages) /\ Range(g) = Range(h) \cup {m}
  BY Appended
<1> HIDE DEF g
<1>3. RoundsOf(g) = RoundsOf(h) \cup (IF m.kind = "round" THEN {m.attempt} ELSE {})
  BY <1>2, Contents
<1>4. ResultsOf(g) = ResultsOf(h) \cup (IF m.kind = "result" THEN {m.call} ELSE {})
  BY <1>2, Contents
<1> QED BY <1>3, <1>4 DEF g

-----------------------------------------------------------------------------
\* The order of a history: a round is there once, a result is there once, and it follows
\* the round that proposed the call, with only results and children between.
Follows(h, i) == \A m \in i + 1 .. Len(h) : h[m].kind \in {"result", "child"}

Orderly(h) ==
  /\ \A i, j \in DOMAIN h : h[i].kind = "round" /\ h[j].kind = "round" /\ h[i].attempt = h[j].attempt => i = j
  /\ \A i, j \in DOMAIN h : h[i].kind = "result" /\ h[j].kind = "result" /\ h[i].call = h[j].call => i = j
  /\ \A j \in DOMAIN h : h[j].kind = "result" =>
       \E i \in 1..(j - 1) : /\ h[i].kind = "round" /\ h[i].attempt = h[j].call[1] /\ h[j].call[2] \in 1..h[i].calls
                             /\ \A m \in i + 1 .. j : h[m].kind \in {"result", "child"}

\* Every call of a history has its result.
Closed(h) ==
  \A i \in DOMAIN h : h[i].kind = "round" => \A k \in 1..h[i].calls : <<h[i].attempt, k>> \in ResultsOf(h)

LEMMA OrderlyAppended ==
  ASSUME NEW h \in Seq(Messages), Orderly(h), NEW m \in Messages,
         m.kind = "round" => m.attempt \notin RoundsOf(h),
         m.kind = "result" =>
           /\ m.call \notin ResultsOf(h)
           /\ \E i \in DOMAIN h : /\ h[i].kind = "round" /\ h[i].attempt = m.call[1]
                                 /\ m.call[2] \in 1..h[i].calls /\ Follows(h, i)
  PROVE  Orderly(Append(h, m))
<1> DEFINE g == Append(h, m)
           N == Len(h) + 1
<1>1. /\ Len(h) \in Nat /\ N \in Nat /\ Len(g) = N /\ DOMAIN h = 1..Len(h) /\ DOMAIN g = 1..N
      /\ g[N] = m /\ \A i \in 1..Len(h) : g[i] = h[i]
  BY Appended
<1> HIDE DEF g
<1>2. \A i \in DOMAIN g : i = N \/ (i \in DOMAIN h /\ g[i] = h[i])
  BY <1>1
<1>3. ASSUME NEW i \in DOMAIN g, NEW j \in DOMAIN g, g[i].kind = "round", g[j].kind = "round", g[i].attempt = g[j].attempt
      PROVE  i = j
  BY <1>1, <1>2, <1>3 DEF Orderly, RoundsOf
<1>4. ASSUME NEW i \in DOMAIN g, NEW j \in DOMAIN g, g[i].kind = "result", g[j].kind = "result", g[i].call = g[j].call
      PROVE  i = j
  BY <1>1, <1>2, <1>4 DEF Orderly, ResultsOf
<1>5. ASSUME NEW j \in DOMAIN g, g[j].kind = "result"
      PROVE  \E i \in 1..(j - 1) : /\ g[i].kind = "round" /\ g[i].attempt = g[j].call[1] /\ g[j].call[2] \in 1..g[i].calls
                                   /\ \A x \in i + 1 .. j : g[x].kind \in {"result", "child"}
  <2>1. CASE j \in DOMAIN h
    <3>1. PICK i \in 1..(j - 1) : /\ h[i].kind = "round" /\ h[i].attempt = h[j].call[1] /\ h[j].call[2] \in 1..h[i].calls
                                   /\ \A x \in i + 1 .. j : h[x].kind \in {"result", "child"}
      BY <1>1, <1>5, <2>1 DEF Orderly
    <3>2. i \in 1..Len(h) /\ g[i] = h[i] /\ g[j] = h[j]
      BY <1>1, <2>1
    <3>3. \A x \in i + 1 .. j : x \in 1..Len(h) /\ g[x] = h[x]
      BY <1>1, <2>1, <3>2
    <3> QED BY <3>1, <3>2, <3>3
  <2>2. CASE j = N
    <3>1. PICK i \in DOMAIN h : /\ h[i].kind = "round" /\ h[i].attempt = m.call[1]
                                /\ m.call[2] \in 1..h[i].calls /\ Follows(h, i)
      BY <1>1, <1>5, <2>2
    <3>2. i \in 1..(j - 1) /\ g[i] = h[i] /\ g[j] = m
      BY <1>1, <2>2
    <3>3. ASSUME NEW x \in i + 1 .. j PROVE g[x].kind \in {"result", "child"}
      <4>1. x = N \/ (x \in i + 1 .. Len(h) /\ g[x] = h[x])
        BY <1>1, <2>2, <3>2
      <4> QED BY <4>1, <3>1, <1>5, <2>2 DEF Follows
    <3> QED BY <3>1, <3>2, <3>3
  <2> QED BY <1>2, <2>1, <2>2
<1>6. Orderly(g)
  BY <1>3, <1>4, <1>5 DEF Orderly
<1> QED BY <1>6 DEF g

\* What is cut off from an orderly history leaves an orderly one.
LEMMA OrderlyPrefix ==
  ASSUME NEW h \in Seq(Messages), Orderly(h), NEW k \in 0..Len(h)
  PROVE  /\ SubSeq(h, 1, k) \in Seq(Messages) /\ Orderly(SubSeq(h, 1, k))
         /\ Len(SubSeq(h, 1, k)) = k /\ \A i \in 1..k : SubSeq(h, 1, k)[i] = h[i]
<1> DEFINE g == SubSeq(h, 1, k)
<1>1. /\ g \in Seq(Messages) /\ Len(g) = k /\ DOMAIN g = 1..k /\ DOMAIN h = 1..Len(h) /\ Len(h) \in Nat
      /\ \A i \in 1..k : g[i] = h[i] /\ i \in DOMAIN h
  OBVIOUS
<1> HIDE DEF g
<1>2. ASSUME NEW j \in DOMAIN g, g[j].kind = "result"
      PROVE  \E i \in 1..(j - 1) : /\ g[i].kind = "round" /\ g[i].attempt = g[j].call[1] /\ g[j].call[2] \in 1..g[i].calls
                                   /\ \A x \in i + 1 .. j : g[x].kind \in {"result", "child"}
  <2>1. PICK i \in 1..(j - 1) : /\ h[i].kind = "round" /\ h[i].attempt = h[j].call[1] /\ h[j].call[2] \in 1..h[i].calls
                                 /\ \A x \in i + 1 .. j : h[x].kind \in {"result", "child"}
    BY <1>1, <1>2 DEF Orderly
  <2>2. g[i] = h[i] /\ g[j] = h[j] /\ \A x \in i + 1 .. j : g[x] = h[x]
    BY <1>1
  <2> QED BY <2>1, <2>2
<1>3. Orderly(g)
  BY <1>1, <1>2 DEF Orderly
<1> QED BY <1>1, <1>3 DEF g

-----------------------------------------------------------------------------
(* Recovered *)
AttemptsTyped ==
  attempt \in [Attempts -> [status : {"none", "streaming", "failed", "incomplete", "completed", "invalid"},
                            text : BOOLEAN, calls : 0..MaxCalls]]

Found == {a \in Attempts : Recoverable(a)}

LEMMA RecoveredLists ==
  ASSUME AttemptsTyped, NEW h \in Seq(Messages)
  PROVE  \E t \in Seq(Messages) :
           /\ Recovered(h) = h \o t
           /\ \A i \in DOMAIN t : t[i].kind = "round" /\ t[i].attempt \in Found
                                 /\ (t[i].calls = 0 \/ t[i].calls = attempt[t[i].attempt].calls)
           /\ \A i, j \in DOMAIN t : t[i].attempt = t[j].attempt => i = j
           /\ \A a \in Found : \E i \in DOMAIN t : t[i].attempt = a
<1> DEFINE found == InOrder(Found)
           calls(a) == IF attempt[a].status = "completed" THEN attempt[a].calls ELSE 0
           t == [i \in DOMAIN found |-> Round(found[i], calls(found[i]))]
<1>1. Found \subseteq Nat /\ IsFiniteSet(Found) /\ Found \subseteq Attempts
  <2>1. Attempts \subseteq Nat /\ IsFiniteSet(Attempts)
    <3>1. 1 \in Int /\ MaxAttempts \in Int
      BY TurnsAssumption
    <3>2. IsFiniteSet(1..MaxAttempts)
      BY <3>1, FS_Interval, Zenon
    <3> QED BY <3>1, <3>2 DEF Attempts
  <2>2. Found \in SUBSET Attempts
    BY DEF Found
  <2> QED BY <2>1, <2>2, FS_Subset
<1>2. /\ Cardinality(Found) \in Nat /\ DOMAIN found = 1..Cardinality(Found)
      /\ \A i \in DOMAIN found : found[i] \in Found
      /\ \A i, j \in DOMAIN found : found[i] = found[j] => i = j
      /\ \A n \in Found : \E i \in DOMAIN found : found[i] = n
  <2>1. /\ Cardinality(Found) \in Nat /\ found \in [1..Cardinality(Found) -> Found]
        /\ DOMAIN found = 1..Cardinality(Found)
        /\ \A i, j \in 1..Cardinality(Found) : found[i] = found[j] => i = j
        /\ \A n \in Found : \E i \in 1..Cardinality(Found) : found[i] = n
    BY <1>1, InOrderLists, Zenon
  <2> HIDE DEF found
  <2> QED BY <2>1
<1> HIDE DEF found
<1>3. \A a \in Found : calls(a) \in 0..MaxCalls /\ (calls(a) = 0 \/ calls(a) = attempt[a].calls)
  BY <1>1, TurnsAssumption DEF AttemptsTyped
<1>4. Recovered(h) = h \o t
  BY DEF Recovered, found, Found
<1> HIDE DEF calls
<1>5. \A i \in DOMAIN t : t[i] = Round(found[i], calls(found[i])) /\ i \in DOMAIN found
  OBVIOUS
<1>6. t \in Seq(Messages)
  <2>1. DOMAIN t = 1..Cardinality(Found)
    BY <1>2
  <2>2. \A i \in DOMAIN t : t[i] \in Messages
    BY <1>1, <1>2, <1>3, <1>5, MessageTypes
  <2>3. t \in [1..Cardinality(Found) -> Messages]
    BY <2>1, <2>2
  <2> HIDE DEF t
  <2> QED BY <1>2, <2>3
<1>7. \A i \in DOMAIN t : t[i].kind = "round" /\ t[i].attempt = found[i] /\ t[i].calls = calls(found[i]) /\ i \in DOMAIN found
  BY <1>5, MessageTypes
<1>8. DOMAIN t = DOMAIN found
  OBVIOUS
<1> HIDE DEF t
<1>9. \A i \in DOMAIN t : t[i].kind = "round" /\ t[i].attempt \in Found
                      /\ (t[i].calls = 0 \/ t[i].calls = attempt[t[i].attempt].calls)
  BY <1>2, <1>3, <1>7
<1>10. \A i, j \in DOMAIN t : t[i].attempt = t[j].attempt => i = j
  BY <1>2, <1>7
<1>11. \A a \in Found : \E i \in DOMAIN t : t[i].attempt = a
  BY <1>2, <1>7, <1>8
<1> QED BY <1>4, <1>6, <1>9, <1>10, <1>11

LEMMA RecoveredContents ==
  ASSUME AttemptsTyped, NEW h \in Seq(Messages)
  PROVE  /\ Recovered(h) \in Seq(Messages)
         /\ RoundsOf(Recovered(h)) = RoundsOf(h) \cup Found /\ ResultsOf(Recovered(h)) = ResultsOf(h)
         /\ Range(h) \subseteq Range(Recovered(h))
         /\ \A m \in Range(Recovered(h)) :
               \/ m \in Range(h)
               \/ m.kind = "round" /\ m.attempt \in Found /\ m.calls \in {0, attempt[m.attempt].calls}
<1>1. PICK t \in Seq(Messages) :
           /\ Recovered(h) = h \o t
           /\ \A i \in DOMAIN t : t[i].kind = "round" /\ t[i].attempt \in Found
                                 /\ (t[i].calls = 0 \/ t[i].calls = attempt[t[i].attempt].calls)
           /\ \A i, j \in DOMAIN t : t[i].attempt = t[j].attempt => i = j
           /\ \A a \in Found : \E i \in DOMAIN t : t[i].attempt = a
  BY RecoveredLists
<1>2. Recovered(h) \in Seq(Messages) /\ Range(Recovered(h)) = Range(h) \cup Range(t)
  BY <1>1, Joined
<1>3. RoundsOf(Recovered(h)) = RoundsOf(h) \cup RoundsOf(t) /\ ResultsOf(Recovered(h)) = ResultsOf(h) \cup ResultsOf(t)
  BY <1>1, ContentsGrow
<1>4. RoundsOf(t) = Found /\ ResultsOf(t) = {}
  BY <1>1 DEF RoundsOf, ResultsOf
<1>5. \A m \in Range(t) : m.kind = "round" /\ m.attempt \in Found /\ m.calls \in {0, attempt[m.attempt].calls}
  BY <1>1 DEF Range
<1> QED BY <1>2, <1>3, <1>4, <1>5

\* What is recovered is new to the history.
LEMMA RecoveredIsOrderly ==
  ASSUME AttemptsTyped, NEW h \in Seq(Messages), Orderly(h), RoundsOf(h) \cap Found = {}
  PROVE  Orderly(Recovered(h))
<1>1. PICK t \in Seq(Messages) :
           /\ Recovered(h) = h \o t
           /\ \A i \in DOMAIN t : t[i].kind = "round" /\ t[i].attempt \in Found
                                 /\ (t[i].calls = 0 \/ t[i].calls = attempt[t[i].attempt].calls)
           /\ \A i, j \in DOMAIN t : t[i].attempt = t[j].attempt => i = j
           /\ \A a \in Found : \E i \in DOMAIN t : t[i].attempt = a
  BY RecoveredLists
<1> DEFINE g == h \o t
           N == Len(h)
           M == Len(t)
<1>2. /\ N \in Nat /\ M \in Nat /\ DOMAIN h = 1..N /\ DOMAIN t = 1..M /\ DOMAIN g = 1..(N + M)
      /\ \A i \in 1..N : g[i] = h[i]
      /\ \A i \in N + 1 .. N + M : g[i] = t[i - N] /\ i - N \in 1..M
  BY Joined
<1> HIDE DEF g, N, M
<1>3. \A i \in DOMAIN g :
        \/ i \in 1..N /\ g[i] = h[i]
        \/ i \in N + 1 .. N + M /\ g[i] = t[i - N] /\ i - N \in DOMAIN t
  <2> TAKE i \in DOMAIN g
  <2>1. i \in 1..N \/ i \in N + 1 .. N + M
    BY <1>2
  <2>2. CASE i \in 1..N
    <3>1. g[i] = h[i]
      BY <1>2, <2>2
    <3> QED BY <2>2, <3>1
  <2>3. CASE i \in N + 1 .. N + M
    <3>1. g[i] = t[i - N] /\ i - N \in 1..M
      BY <1>2, <2>3
    <3> QED BY <1>2, <2>3, <3>1
  <2> QED BY <2>1, <2>2, <2>3
<1>4. ASSUME NEW i \in DOMAIN g, NEW j \in DOMAIN g, g[i].kind = "round", g[j].kind = "round", g[i].attempt = g[j].attempt
      PROVE  i = j
  <2>1. \A x \in 1..N : h[x].kind = "round" => h[x].attempt \notin Found
    BY <1>2 DEF RoundsOf
  <2>2. CASE i \in 1..N /\ j \in 1..N
    BY <1>2, <1>4, <2>2 DEF Orderly
  <2>3. CASE i \in N + 1 .. N + M /\ j \in N + 1 .. N + M
    <3> DEFINE x == i - N
               y == j - N
    <3>1. x \in DOMAIN t /\ y \in DOMAIN t /\ g[i] = t[x] /\ g[j] = t[y]
      BY <1>2, <2>3
    <3>2. x = y => i = j
      BY <1>2
    <3> HIDE DEF x, y
    <3>3. x = y
      BY <1>1, <1>4, <3>1
    <3> QED BY <3>2, <3>3
  <2>4. CASE i \in 1..N /\ j \in N + 1 .. N + M
    <3>1. g[i] = h[i] /\ g[j] = t[j - N] /\ j - N \in DOMAIN t
      BY <1>2, <2>4
    <3> QED BY <1>1, <1>4, <2>1, <2>4, <3>1
  <2>5. CASE j \in 1..N /\ i \in N + 1 .. N + M
    <3>1. g[j] = h[j] /\ g[i] = t[i - N] /\ i - N \in DOMAIN t
      BY <1>2, <2>5
    <3> QED BY <1>1, <1>4, <2>1, <2>5, <3>1
  <2> QED BY <1>3, <2>2, <2>3, <2>4, <2>5
<1>5. \A i \in DOMAIN g : g[i].kind = "result" => i \in 1..N /\ g[i] = h[i]
  BY <1>1, <1>3
<1>6. ASSUME NEW i \in DOMAIN g, NEW j \in DOMAIN g, g[i].kind = "result", g[j].kind = "result", g[i].call = g[j].call
      PROVE  i = j
  BY <1>2, <1>5, <1>6 DEF Orderly
<1>7. ASSUME NEW j \in DOMAIN g, g[j].kind = "result"
      PROVE  \E i \in 1..(j - 1) : /\ g[i].kind = "round" /\ g[i].attempt = g[j].call[1] /\ g[j].call[2] \in 1..g[i].calls
                                   /\ \A x \in i + 1 .. j : g[x].kind \in {"result", "child"}
  <2>1. j \in 1..N /\ g[j] = h[j]
    BY <1>5, <1>7
  <2>2. PICK i \in 1..(j - 1) : /\ h[i].kind = "round" /\ h[i].attempt = h[j].call[1] /\ h[j].call[2] \in 1..h[i].calls
                                 /\ \A x \in i + 1 .. j : h[x].kind \in {"result", "child"}
    BY <1>2, <1>7, <2>1 DEF Orderly
  <2>3. g[i] = h[i] /\ \A x \in i + 1 .. j : g[x] = h[x]
    BY <1>2, <2>1
  <2> QED BY <2>1, <2>2, <2>3
<1>8. Orderly(g)
  BY <1>4, <1>6, <1>7 DEF Orderly
<1> QED BY <1>1, <1>8 DEF g

-----------------------------------------------------------------------------
(* Repaired *)
Missing(h, m) == {k \in 1..m.calls : <<m.attempt, k>> \notin ResultsOf(h)}

LEMMA ReportsList ==
  ASSUME NEW h \in Seq(Messages), NEW m \in Messages
  PROVE  /\ Reports(h, m) \in Seq(Messages)
         /\ m.kind # "round" => Reports(h, m) = <<>>
         /\ m.kind = "round" =>
              /\ \A i \in DOMAIN Reports(h, m) : \E k \in Missing(h, m) :
                    Reports(h, m)[i] = Report(<<m.attempt, k>>)
              /\ \A i, j \in DOMAIN Reports(h, m) : Reports(h, m)[i].call = Reports(h, m)[j].call => i = j
              /\ \A k \in Missing(h, m) : \E i \in DOMAIN Reports(h, m) : Reports(h, m)[i] = Report(<<m.attempt, k>>)
<1>1. CASE m.kind # "round"
  <2>1. Reports(h, m) = <<>>
    <3>1. Reports(h, m) = [k \in DOMAIN <<>> |-> Report(<<m.attempt, <<>>[k]>>)]
      BY <1>1, Zenon DEF Reports
    <3> QED BY <3>1
  <2> QED BY <1>1, <2>1
<1>2. CASE m.kind = "round"
  <2> DEFINE S == Missing(h, m)
             open == InOrder(S)
             t == [k \in DOMAIN open |-> Report(<<m.attempt, open[k]>>)]
  <2>1. m.attempt \in Attempts /\ m.calls \in 0..MaxCalls /\ MaxCalls \in Nat
    BY <1>2, MessageFields, TurnsAssumption
  <2>2. S \subseteq Nat /\ IsFiniteSet(S) /\ S \subseteq 1..MaxCalls
    <3>0. 1 \in Int /\ m.calls \in Int
      BY <2>1
    <3>1. IsFiniteSet(1..m.calls) /\ S \in SUBSET (1..m.calls)
      BY <3>0, FS_Interval, Zenon DEF Missing
    <3>2. 1..m.calls \subseteq Nat /\ 1..m.calls \subseteq 1..MaxCalls
      BY <2>1
    <3> QED BY <3>1, <3>2, FS_Subset
  <2> HIDE DEF S
  <2>3. /\ Cardinality(S) \in Nat /\ DOMAIN open = 1..Cardinality(S)
        /\ \A i \in DOMAIN open : open[i] \in S
        /\ \A i, j \in DOMAIN open : open[i] = open[j] => i = j
        /\ \A n \in S : \E i \in DOMAIN open : open[i] = n
    <3>1. /\ Cardinality(S) \in Nat /\ open \in [1..Cardinality(S) -> S]
          /\ DOMAIN open = 1..Cardinality(S)
          /\ \A i, j \in 1..Cardinality(S) : open[i] = open[j] => i = j
          /\ \A n \in S : \E i \in 1..Cardinality(S) : open[i] = n
      BY <2>2, InOrderLists, Zenon
    <3> HIDE DEF open
    <3> QED BY <3>1
  <2>4. Reports(h, m) = t
    BY <1>2 DEF Reports, S, Missing
  <2> HIDE DEF open
  <2>5. DOMAIN t = DOMAIN open /\ \A i \in DOMAIN t : t[i] = Report(<<m.attempt, open[i]>>)
    OBVIOUS
  <2> HIDE DEF t
  <2>6. \A k \in S : /\ <<m.attempt, k>> \in Calls /\ Report(<<m.attempt, k>>) \in Messages
                     /\ Report(<<m.attempt, k>>).call = <<m.attempt, k>>
    BY <2>1, <2>2, MessageTypes DEF Calls, Report
  <2>7. t \in Seq(Messages)
    <3>1. t \in [1..Cardinality(S) -> Messages]
      <4>1. \A i \in DOMAIN t : t[i] \in Messages
        <5> TAKE i \in DOMAIN t
        <5>1. open[i] \in S /\ t[i] = Report(<<m.attempt, open[i]>>)
          BY <2>3, <2>5
        <5> QED BY <5>1, <2>6
      <4>2. t = [i \in DOMAIN t |-> t[i]]
        BY DEF t
      <4> QED BY <2>3, <2>5, <4>1, <4>2
    <3> QED BY <2>3, <3>1
  <2>8. \A i \in DOMAIN t : t[i].call = <<m.attempt, open[i]>>
    BY <2>3, <2>5, <2>6
  <2>9. \A i, j \in DOMAIN t : t[i].call = t[j].call => i = j
    BY <2>3, <2>5, <2>8
  <2> QED BY <1>2, <2>3, <2>4, <2>5, <2>7, <2>9 DEF S
<1> QED BY <1>1, <1>2

\* Repaired takes the messages one after the other.
RepairStep(h, u) ==
  u = [i \in 0..Len(h) |-> IF i = 0 THEN <<>> ELSE Append(u[i - 1], h[i]) \o Reports(h, h[i])]

LEMMA RepairedFollows ==
  ASSUME NEW h \in Seq(Messages)
  PROVE  \E u : /\ u[0] = <<>> /\ Repaired(h) = u[Len(h)]
                /\ \A i \in 1..Len(h) : u[i] = Append(u[i - 1], h[i]) \o Reports(h, h[i])
<1> DEFINE N == Len(h)
           Base == <<>>
           All == Seq(Messages)
           F == [x \in All \X (1..N) |-> Append(x[1], h[x[2]]) \o Reports(h, h[x[2]])]
           upTo == CHOOSE u : RepairStep(h, u)
<1>1. N \in Nat /\ Base \in All /\ \A i \in 1..N : h[i] \in Messages
  OBVIOUS
<1>2. Repaired(h) = upTo[N]
  BY DEF Repaired, RepairStep
<1>3. F \in [All \X (1..N) -> All]
  <2>1. ASSUME NEW g \in Seq(Messages), NEW i \in 1..N
        PROVE  Append(g, h[i]) \o Reports(h, h[i]) \in Seq(Messages)
    <3>0. h[i] \in Messages
      BY <1>1
    <3>1. Append(g, h[i]) \in Seq(Messages)
      BY <3>0
    <3>2. Reports(h, h[i]) \in Seq(Messages)
      BY <3>0, ReportsList, Zenon
    <3> QED BY <3>1, <3>2
  <2> QED BY <2>1
<1>4. \A g \in All, i \in 1..N : F[<<g, i>>] = Append(g, h[i]) \o Reports(h, h[i])
  OBVIOUS
<1> HIDE DEF F, Base, All
<1>5. \E u : Computes(All, Base, N, F, u)
  <2> HIDE DEF N, upTo
  <2>1. N \in Nat /\ Base \in All
    BY <1>1
  <2> QED BY <2>1, <1>3, Recursion, Zenon
<1>6. PICK u \in [0..N -> All] : u[0] = Base /\ \A i \in 1..N : u[i] = F[<<u[i - 1], i>>]
  BY <1>5 DEF Computes
<1>7. RepairStep(h, u)
  <2>1. ASSUME NEW i \in 0..N PROVE u[i] = IF i = 0 THEN <<>> ELSE Append(u[i - 1], h[i]) \o Reports(h, h[i])
    <3>1. CASE i = 0
      BY <1>6, <3>1 DEF Base
    <3>2. CASE i # 0
      <4>1. i \in 1..N /\ i - 1 \in 0..N
        BY <1>1, <3>2
      <4>2. u[i] = F[<<u[i - 1], i>>] /\ u[i - 1] \in All
        BY <1>6, <4>1
      <4>3. u[i] = Append(u[i - 1], h[i]) \o Reports(h, h[i])
        BY <1>4, <4>1, <4>2
      <4> QED BY <3>2, <4>3
    <3> QED BY <3>1, <3>2
  <2> DEFINE w == [i \in 0..N |-> IF i = 0 THEN <<>> ELSE Append(u[i - 1], h[i]) \o Reports(h, h[i])]
  <2>2. u = [i \in 0..N |-> u[i]]
    OBVIOUS
  <2>3. u = w
    BY <2>1, <2>2
  <2> QED BY <2>3 DEF RepairStep
<1>8. RepairStep(h, upTo)
  BY <1>7
<1> HIDE DEF upTo
<1>9. upTo = [i \in 0..Len(h) |-> IF i = 0 THEN <<>> ELSE Append(upTo[i - 1], h[i]) \o Reports(h, h[i])]
  BY <1>8 DEF RepairStep
<1>10. upTo[0] = <<>>
  BY <1>1, <1>9
<1>11. \A i \in 1..N : upTo[i] = Append(upTo[i - 1], h[i]) \o Reports(h, h[i])
  BY <1>1, <1>9
<1> QED BY <1>2, <1>10, <1>11

\* The results of a round, right after it, leave the history orderly.
LEMMA OrderlyJoined ==
  ASSUME NEW g \in Seq(Messages), Orderly(g), NEW p \in DOMAIN g, g[p].kind = "round", Follows(g, p),
         NEW t \in Seq(Messages),
         \A i \in DOMAIN t : /\ t[i].kind = "result" /\ t[i].call \notin ResultsOf(g)
                             /\ t[i].call[1] = g[p].attempt /\ t[i].call[2] \in 1..g[p].calls,
         \A i, j \in DOMAIN t : t[i].call = t[j].call => i = j
  PROVE  Orderly(g \o t) /\ Follows(g \o t, p)
<1> DEFINE w == g \o t
           N == Len(g)
           M == Len(t)
<1>1. /\ N \in Nat /\ M \in Nat /\ DOMAIN g = 1..N /\ DOMAIN t = 1..M /\ DOMAIN w = 1..(N + M) /\ Len(w) = N + M
      /\ \A i \in 1..N : w[i] = g[i]
      /\ \A i \in N + 1 .. N + M : w[i] = t[i - N] /\ i - N \in 1..M
  BY Joined
<1> HIDE DEF w, N, M
<1>2. \A i \in DOMAIN w :
        \/ i \in 1..N /\ w[i] = g[i] /\ i \in DOMAIN g
        \/ i \in N + 1 .. N + M /\ w[i] = t[i - N] /\ i - N \in DOMAIN t /\ w[i].kind = "result"
  <2> TAKE i \in DOMAIN w
  <2>1. i \in 1..N \/ i \in N + 1 .. N + M
    BY <1>1
  <2>2. CASE i \in 1..N
    <3>1. w[i] = g[i]
      BY <1>1, <2>2
    <3> QED BY <1>1, <2>2, <3>1
  <2>3. CASE i \in N + 1 .. N + M
    <3>1. w[i] = t[i - N] /\ i - N \in DOMAIN t
      BY <1>1, <2>3
    <3> QED BY <2>3, <3>1
  <2> QED BY <2>1, <2>2, <2>3
<1>3. ASSUME NEW i \in DOMAIN w, NEW j \in DOMAIN w, w[i].kind = "round", w[j].kind = "round", w[i].attempt = w[j].attempt
      PROVE  i = j
  <2>1. i \in DOMAIN g /\ w[i] = g[i] /\ j \in DOMAIN g /\ w[j] = g[j]
    BY <1>2, <1>3
  <2> QED BY <1>3, <2>1 DEF Orderly
<1>4. ASSUME NEW i \in DOMAIN w, NEW j \in DOMAIN w, w[i].kind = "result", w[j].kind = "result", w[i].call = w[j].call
      PROVE  i = j
  <2>1. \A x \in DOMAIN g : g[x].kind = "result" => g[x].call \in ResultsOf(g)
    BY DEF ResultsOf
  <2>2. CASE i \in DOMAIN g /\ w[i] = g[i]
    <3>1. j \in DOMAIN g /\ w[j] = g[j]
      BY <1>2, <1>4, <2>1, <2>2
    <3> QED BY <1>4, <2>2, <3>1 DEF Orderly
  <2>3. CASE i \in N + 1 .. N + M /\ w[i] = t[i - N] /\ i - N \in DOMAIN t
    <3>1. j \in N + 1 .. N + M /\ w[j] = t[j - N] /\ j - N \in DOMAIN t
      BY <1>2, <1>4, <2>1, <2>3
    <3>2. i - N = j - N
      BY <1>4, <2>3, <3>1
    <3> QED BY <1>1, <2>3, <3>1, <3>2
  <2> QED BY <1>2, <2>2, <2>3
<1>5. p \in 1..N /\ w[p] = g[p]
  BY <1>1
<1>6. \A x \in p + 1 .. N + M : x \in DOMAIN w /\ w[x].kind \in {"result", "child"}
  <2> TAKE x \in p + 1 .. N + M
  <2>1. x \in DOMAIN w
    BY <1>1, <1>5
  <2>2. CASE x \in 1..N /\ w[x] = g[x]
    <3>1. x \in p + 1 .. N
      BY <1>1, <1>5, <2>2
    <3> QED BY <2>1, <2>2, <3>1 DEF Follows, N
  <2> QED BY <1>2, <2>1, <2>2
<1>7. ASSUME NEW j \in DOMAIN w, w[j].kind = "result"
      PROVE  \E i \in 1..(j - 1) : /\ w[i].kind = "round" /\ w[i].attempt = w[j].call[1] /\ w[j].call[2] \in 1..w[i].calls
                                   /\ \A x \in i + 1 .. j : w[x].kind \in {"result", "child"}
  <2>1. CASE j \in 1..N /\ w[j] = g[j] /\ j \in DOMAIN g
    <3>1. PICK i \in 1..(j - 1) : /\ g[i].kind = "round" /\ g[i].attempt = g[j].call[1] /\ g[j].call[2] \in 1..g[i].calls
                                   /\ \A x \in i + 1 .. j : g[x].kind \in {"result", "child"}
      BY <1>7, <2>1 DEF Orderly
    <3>2. w[i] = g[i] /\ \A x \in i + 1 .. j : w[x] = g[x]
      BY <1>1, <2>1
    <3> QED BY <2>1, <3>1, <3>2
  <2>2. CASE j \in N + 1 .. N + M /\ w[j] = t[j - N] /\ j - N \in DOMAIN t
    <3>1. p \in 1..(j - 1) /\ \A x \in p + 1 .. j : x \in p + 1 .. N + M
      BY <1>1, <1>5, <2>2
    <3> QED BY <1>5, <1>6, <2>2, <3>1
  <2> QED BY <1>2, <2>1, <2>2
<1>8. Orderly(w)
  BY <1>3, <1>4, <1>7 DEF Orderly
<1>9. Follows(w, p)
  BY <1>1, <1>6 DEF Follows
<1> QED BY <1>8, <1>9 DEF w

\* The message that is repaired next is in place: what it needs before it is there.
Reported(h, j, m) == h[j].kind = "round" /\ \E k \in Missing(h, h[j]) : m = Report(<<h[j].attempt, k>>)

RepairedUpTo(h, i, g) ==
  /\ g \in Seq(Messages) /\ Orderly(g)
  /\ \A m \in Range(g) : \E j \in 1..i : m = h[j] \/ Reported(h, j, m)
  /\ \A j \in 1..i : h[j] \in Range(g) /\ \A m : Reported(h, j, m) => m \in Range(g)
  /\ \A p \in 1..i : h[p].kind = "round" /\ (\A x \in p + 1 .. i : h[x].kind \in {"result", "child"}) =>
       \E q \in DOMAIN g : g[q] = h[p] /\ Follows(g, q)

LEMMA FollowsAppended ==
  ASSUME NEW g \in Seq(Messages), NEW m \in Messages
  PROVE  /\ Follows(Append(g, m), Len(g) + 1)
         /\ m.kind \in {"result", "child"} => \A p \in DOMAIN g : Follows(g, p) => Follows(Append(g, m), p)
<1> DEFINE w == Append(g, m)
           N == Len(g)
<1>1. /\ N \in Nat /\ Len(w) = N + 1 /\ DOMAIN g = 1..N /\ w[N + 1] = m /\ \A i \in 1..N : w[i] = g[i]
  BY Appended
<1> HIDE DEF w, N
<1>2. Follows(w, N + 1)
  BY <1>1 DEF Follows
<1>3. ASSUME m.kind \in {"result", "child"}, NEW p \in DOMAIN g, Follows(g, p) PROVE Follows(w, p)
  <2>1. ASSUME NEW x \in p + 1 .. N + 1 PROVE w[x].kind \in {"result", "child"}
    <3>1. CASE x = N + 1
      BY <1>1, <1>3, <3>1
    <3>2. CASE x # N + 1
      <4>1. x \in p + 1 .. N /\ x \in 1..N
        BY <1>1, <3>2
      <4> QED BY <1>1, <1>3, <4>1 DEF Follows, N
    <3> QED BY <3>1, <3>2
  <2> QED BY <1>1, <2>1 DEF Follows
<1> QED BY <1>2, <1>3 DEF w, N

LEMMA ReportFields ==
  ASSUME NEW m \in Messages, m.kind = "round", NEW k \in 1..m.calls
  PROVE  LET r == Report(<<m.attempt, k>>) IN
           r \in Messages /\ r.kind = "result" /\ r.call = <<m.attempt, k>> /\ r.call[1] = m.attempt /\ r.call[2] = k
<1>1. m.attempt \in Attempts /\ m.calls \in 0..MaxCalls /\ MaxCalls \in Nat
  BY MessageFields, TurnsAssumption
<1>2. <<m.attempt, k>> \in Calls
  BY <1>1 DEF Calls
<1> DEFINE says == IF receipt[<<m.attempt, k>>] = "completed" THEN "outcome" ELSE "unknown"
<1>3. says \in {"outcome", "unknown"} /\ Report(<<m.attempt, k>>) = Result(<<m.attempt, k>>, says)
  BY DEF Report
<1> HIDE DEF says
<1> QED BY <1>2, <1>3, MessageTypes

LEMMA RepairedOne ==
  ASSUME NEW h \in Seq(Messages), Orderly(h), NEW i \in 1..Len(h), NEW g, RepairedUpTo(h, i - 1, g)
  PROVE  RepairedUpTo(h, i, Append(g, h[i]) \o Reports(h, h[i]))
<1> DEFINE m == h[i]
           t == Reports(h, m)
           g1 == Append(g, m)
           w == g1 \o t
<1>1. /\ i \in Nat /\ i - 1 \in Nat /\ i \in DOMAIN h /\ m \in Messages /\ 1..(i - 1) \subseteq 1..i
      /\ \A j \in 1..i : j \in DOMAIN h /\ h[j] \in Messages /\ (j = i \/ j \in 1..(i - 1))
  OBVIOUS
<1>2. g \in Seq(Messages) /\ Orderly(g)
  BY DEF RepairedUpTo
<1>3. \A j \in 1..i : \A x : Reported(h, j, x) =>
        /\ x \in Messages /\ x.kind = "result" /\ x.call[1] = h[j].attempt /\ x.call \notin ResultsOf(h)
        /\ x.call[2] \in 1..h[j].calls
  <2> SUFFICES ASSUME NEW j \in 1..i, NEW x, Reported(h, j, x)
               PROVE  /\ x \in Messages /\ x.kind = "result" /\ x.call[1] = h[j].attempt /\ x.call \notin ResultsOf(h)
                      /\ x.call[2] \in 1..h[j].calls
    OBVIOUS
  <2>1. h[j] \in Messages /\ h[j].kind = "round"
    BY <1>1 DEF Reported
  <2>2. PICK k \in 1..h[j].calls : <<h[j].attempt, k>> \notin ResultsOf(h) /\ x = Report(<<h[j].attempt, k>>)
    BY DEF Reported, Missing
  <2> QED BY <2>1, <2>2, ReportFields
<1>4. /\ g1 \in Seq(Messages) /\ Range(g1) = Range(g) \cup {m} /\ Len(g) \in Nat
      /\ DOMAIN g1 = 1..(Len(g) + 1) /\ g1[Len(g) + 1] = m /\ DOMAIN g = 1..Len(g)
      /\ \A x \in 1..Len(g) : g1[x] = g[x]
  BY <1>1, <1>2, Appended
<1>5. t \in Seq(Messages) /\ (m.kind # "round" => t = <<>>)
  BY <1>1, ReportsList
<1>6. m.kind = "round" =>
        /\ \A x \in DOMAIN t : Reported(h, i, t[x])
        /\ \A x, y \in DOMAIN t : t[x].call = t[y].call => x = y
        /\ \A x : Reported(h, i, x) => \E y \in DOMAIN t : t[y] = x
  <2> HIDE DEF m
  <2>1. m.kind = "round" =>
              /\ \A x \in DOMAIN t : \E k \in Missing(h, m) : t[x] = Report(<<m.attempt, k>>)
              /\ \A x, y \in DOMAIN t : t[x].call = t[y].call => x = y
              /\ \A k \in Missing(h, m) : \E x \in DOMAIN t : t[x] = Report(<<m.attempt, k>>)
    BY <1>1, ReportsList
  <2> HIDE DEF t
  <2> QED BY <2>1 DEF Reported, m
<1>7. m.kind # "round" => \A x : ~Reported(h, i, x)
  BY DEF Reported
<1>8. w \in Seq(Messages) /\ Range(w) = Range(g1) \cup Range(t)
  <2> HIDE DEF g1, t
  <2> QED BY <1>4, <1>5, Joined
<1>9. \A x : x \in Range(t) <=> Reported(h, i, x)
  <2>1. CASE m.kind = "round"
    BY <1>6, <2>1 DEF Range
  <2>2. CASE m.kind # "round"
    <3>1. Range(t) = {}
      BY <1>5, <2>2 DEF Range
    <3> QED BY <1>7, <2>2, <3>1
  <2> QED BY <2>1, <2>2
<1>10. m.kind # "round" => w = g1
  BY <1>4, <1>5
<1> HIDE DEF w, g1, t, m
<1>11. \A x \in Range(w) : \E j \in 1..i : x = h[j] \/ Reported(h, j, x)
  <2>1. \A x \in Range(g) : \E j \in 1..(i - 1) : x = h[j] \/ Reported(h, j, x)
    BY DEF RepairedUpTo
  <2> QED BY <1>1, <1>4, <1>8, <1>9, <2>1, SMTT(30) DEF m
<1>12. \A j \in 1..i : h[j] \in Range(w) /\ \A x : Reported(h, j, x) => x \in Range(w)
  <2>1. \A j \in 1..(i - 1) : h[j] \in Range(g) /\ \A x : Reported(h, j, x) => x \in Range(g)
    BY DEF RepairedUpTo
  <2> QED BY <1>1, <1>4, <1>8, <1>9, <2>1, SMTT(30) DEF m
<1>13. \A x \in Range(g) : \E j \in 1..(i - 1) : x = h[j] \/ Reported(h, j, x)
  BY DEF RepairedUpTo
<1>14. m.kind = "round" => m.attempt \notin RoundsOf(g)
  <2>1. ASSUME m.kind = "round", m.attempt \in RoundsOf(g) PROVE FALSE
    <3>1. PICK x \in Range(g) : x.kind = "round" /\ x.attempt = m.attempt
      BY <1>2, <2>1, Contents
    <3>2. PICK j \in 1..(i - 1) : x = h[j]
      BY <1>1, <1>3, <1>13, <3>1
    <3>3. j \in DOMAIN h /\ i \in DOMAIN h /\ j # i
      BY <1>1
    <3> QED BY <2>1, <3>1, <3>2, <3>3 DEF Orderly, m
  <2> QED BY <2>1
<1>15. m.kind = "result" => m.call \notin ResultsOf(g)
  <2>1. ASSUME m.kind = "result", m.call \in ResultsOf(g) PROVE FALSE
    <3>1. PICK x \in Range(g) : x.kind = "result" /\ x.call = m.call
      BY <1>2, <2>1, Contents
    <3>2. m.call \in ResultsOf(h)
      BY <1>1, <2>1 DEF ResultsOf, m
    <3>3. PICK j \in 1..(i - 1) : x = h[j]
      BY <1>1, <1>3, <1>13, <3>1, <3>2
    <3>4. j \in DOMAIN h /\ i \in DOMAIN h /\ j # i
      BY <1>1
    <3> QED BY <2>1, <3>1, <3>3, <3>4 DEF Orderly, m
  <2> QED BY <2>1
<1>16. m.kind = "result" => \E q \in DOMAIN g : /\ g[q].kind = "round" /\ g[q].attempt = m.call[1]
                                                /\ m.call[2] \in 1..g[q].calls /\ Follows(g, q)
  <2> SUFFICES ASSUME m.kind = "result"
               PROVE  \E q \in DOMAIN g : /\ g[q].kind = "round" /\ g[q].attempt = m.call[1]
                                          /\ m.call[2] \in 1..g[q].calls /\ Follows(g, q)
    OBVIOUS
  <2>1. PICK p \in 1..(i - 1) : /\ h[p].kind = "round" /\ h[p].attempt = m.call[1] /\ m.call[2] \in 1..h[p].calls
                                /\ \A x \in p + 1 .. i : h[x].kind \in {"result", "child"}
    BY <1>1 DEF Orderly, m
  <2>2. \A x \in p + 1 .. i - 1 : h[x].kind \in {"result", "child"}
    BY <1>1, <2>1
  <2>3. \E q \in DOMAIN g : g[q] = h[p] /\ Follows(g, q)
    BY <2>1, <2>2 DEF RepairedUpTo
  <2> QED BY <2>1, <2>3
<1>17. Orderly(g1)
  BY <1>1, <1>2, <1>14, <1>15, <1>16, OrderlyAppended DEF g1
<1>18. Follows(g1, Len(g) + 1) /\ (m.kind \in {"result", "child"} => \A p \in DOMAIN g : Follows(g, p) => Follows(g1, p))
  BY <1>1, <1>2, FollowsAppended DEF g1
<1>19. ASSUME m.kind = "round" PROVE Orderly(w) /\ Follows(w, Len(g) + 1) /\ Len(g) + 1 \in DOMAIN w /\ w[Len(g) + 1] = m
  <2> DEFINE p == Len(g) + 1
  <2>1. p \in DOMAIN g1 /\ g1[p] = m
    BY <1>4
  <2>2. ResultsOf(g1) = ResultsOf(g)
    <3>1. ResultsOf(Append(g, m)) = ResultsOf(g) \cup (IF m.kind = "result" THEN {m.call} ELSE {})
      BY <1>1, <1>2, ContentsAppended
    <3> QED BY <1>19, <3>1 DEF g1
  <2>3. \A x \in DOMAIN t : t[x].call \notin ResultsOf(g)
    <3> SUFFICES ASSUME NEW x \in DOMAIN t, t[x].call \in ResultsOf(g) PROVE FALSE
      OBVIOUS
    <3>1. Reported(h, i, t[x])
      BY <1>6, <1>19
    <3>2. t[x].call[1] = m.attempt /\ t[x].call \notin ResultsOf(h)
      BY <1>1, <1>3, <3>1 DEF m
    <3>3. PICK y \in Range(g) : y.kind = "result" /\ y.call = t[x].call
      BY <1>2, Contents, SMTT(30)
    <3>4. PICK j \in 1..(i - 1) : y = h[j] \/ Reported(h, j, y)
      BY <1>13
    <3>5. j \in DOMAIN h /\ i \in DOMAIN h /\ j # i /\ j \in 1..i
      BY <1>1
    <3>6. y # h[j]
      BY <3>2, <3>3, <3>5 DEF ResultsOf
    <3>7. Reported(h, j, y) /\ y.call[1] = h[j].attempt
      BY <1>3, <3>4, <3>5, <3>6
    <3>8. h[j].kind = "round" /\ h[j].attempt = m.attempt
      BY <3>2, <3>3, <3>7 DEF Reported
    <3> QED BY <1>19, <3>5, <3>8 DEF Orderly, m
  <2>4. \A x \in DOMAIN t : /\ t[x].kind = "result" /\ t[x].call \notin ResultsOf(g1)
                            /\ t[x].call[1] = g1[p].attempt /\ t[x].call[2] \in 1..g1[p].calls
    BY <1>1, <1>3, <1>6, <1>19, <2>1, <2>2, <2>3 DEF m
  <2>5. Orderly(w) /\ Follows(w, p)
    <3> HIDE DEF p
    <3>1. Follows(g1, p) /\ g1[p].kind = "round"
      BY <1>18, <1>19, <2>1 DEF p
    <3> QED BY <1>4, <1>5, <1>6, <1>17, <1>19, <2>1, <2>4, <3>1, OrderlyJoined DEF w
  <2>6. p \in DOMAIN w /\ w[p] = g1[p]
    <3>1. DOMAIN g1 = 1..Len(g1) /\ DOMAIN (g1 \o t) = 1..(Len(g1) + Len(t)) /\ Len(g1) \in Nat /\ Len(t) \in Nat
          /\ \A x \in 1..Len(g1) : (g1 \o t)[x] = g1[x]
      BY <1>4, <1>5, Joined
    <3> HIDE DEF p
    <3> QED BY <2>1, <3>1 DEF w
  <2> QED BY <2>1, <2>5, <2>6
<1>20. Orderly(w)
  BY <1>10, <1>17, <1>19
<1>21. ASSUME NEW p \in 1..i, h[p].kind = "round", \A x \in p + 1 .. i : h[x].kind \in {"result", "child"}
       PROVE  \E q \in DOMAIN w : w[q] = h[p] /\ Follows(w, q)
  <2>1. CASE p = i
    BY <1>19, <1>21, <2>1 DEF m
  <2>2. CASE p # i
    <3>1. p \in 1..(i - 1) /\ i \in p + 1 .. i /\ \A x \in p + 1 .. i - 1 : x \in p + 1 .. i
      BY <1>1, <2>2
    <3>2. m.kind \in {"result", "child"} /\ m.kind # "round"
      BY <1>21, <3>1 DEF m
    <3>3. PICK q \in DOMAIN g : g[q] = h[p] /\ Follows(g, q)
      BY <1>21, <3>1 DEF RepairedUpTo
    <3>4. q \in DOMAIN g1 /\ g1[q] = h[p] /\ Follows(g1, q)
      BY <1>4, <1>18, <3>2, <3>3
    <3> QED BY <1>10, <3>2, <3>4
  <2> QED BY <2>1, <2>2
<1>22. RepairedUpTo(h, i, w)
  BY <1>8, <1>11, <1>12, <1>20, <1>21 DEF RepairedUpTo
<1> QED BY <1>22 DEF w, g1, t, m

LEMMA RepairedAll ==
  ASSUME NEW h \in Seq(Messages), Orderly(h)
  PROVE  RepairedUpTo(h, Len(h), Repaired(h))
<1>1. PICK u : /\ u[0] = <<>> /\ Repaired(h) = u[Len(h)]
               /\ \A i \in 1..Len(h) : u[i] = Append(u[i - 1], h[i]) \o Reports(h, h[i])
  BY RepairedFollows, Zenon
<1> DEFINE T == {i \in 0..Len(h) : RepairedUpTo(h, i, u[i])}
<1>2. Len(h) \in Nat /\ 0 \in 0..Len(h) /\ Len(h) \in 0..Len(h)
  OBVIOUS
<1>3. RepairedUpTo(h, 0, <<>>)
  <2>1. <<>> \in Seq(Messages) /\ DOMAIN <<>> = {} /\ 1..0 = {}
    OBVIOUS
  <2>2. Range(<<>>) = {} /\ Orderly(<<>>)
    BY <2>1 DEF Range, Orderly
  <2> QED BY <2>1, <2>2 DEF RepairedUpTo
<1>4. ASSUME NEW i \in 1..Len(h), i - 1 \in T PROVE i \in T
  <2>1. RepairedUpTo(h, i - 1, u[i - 1])
    BY <1>4
  <2>2. RepairedUpTo(h, i, Append(u[i - 1], h[i]) \o Reports(h, h[i]))
    BY <2>1, RepairedOne
  <2>3. u[i] = Append(u[i - 1], h[i]) \o Reports(h, h[i])
    BY <1>1, Zenon
  <2>4. i \in 0..Len(h)
    BY <1>2
  <2> QED BY <2>2, <2>3, <2>4
<1>5. 0 \in T
  BY <1>1, <1>2, <1>3
<1>6. Len(h) \in T
  <2> HIDE DEF T
  <2> QED BY <1>2, <1>4, <1>5, Induction
<1> QED BY <1>1, <1>6

\* The repair leaves an orderly history in which every call has its result: what it adds
\* are reports of the calls that had none.
LEMMA RepairedIsClosed ==
  ASSUME NEW h \in Seq(Messages), Orderly(h)
  PROVE  /\ Repaired(h) \in Seq(Messages) /\ Orderly(Repaired(h)) /\ Closed(Repaired(h))
         /\ RoundsOf(Repaired(h)) = RoundsOf(h) /\ Range(h) \subseteq Range(Repaired(h))
         /\ \A m \in Range(Repaired(h)) :
              m \in Range(h) \/ (m.kind = "result" /\ m = Report(m.call) /\ m.call \notin ResultsOf(h))
<1> DEFINE g == Repaired(h)
           N == Len(h)
<1>1. RepairedUpTo(h, N, g)
  BY RepairedAll
<1>2. N \in Nat /\ DOMAIN h = 1..N /\ \A j \in 1..N : h[j] \in Messages /\ h[j] \in Range(h)
  BY DEF Range
<1> HIDE DEF g, N
<1>3. /\ g \in Seq(Messages) /\ Orderly(g)
      /\ \A m \in Range(g) : \E j \in 1..N : m = h[j] \/ Reported(h, j, m)
      /\ \A j \in 1..N : h[j] \in Range(g) /\ \A m : Reported(h, j, m) => m \in Range(g)
  BY <1>1 DEF RepairedUpTo
<1>4. \A j \in 1..N : \A x : Reported(h, j, x) =>
        x.kind = "result" /\ x = Report(x.call) /\ x.call \notin ResultsOf(h)
  <2> SUFFICES ASSUME NEW j \in 1..N, NEW x, Reported(h, j, x)
               PROVE  x.kind = "result" /\ x = Report(x.call) /\ x.call \notin ResultsOf(h)
    OBVIOUS
  <2>1. h[j] \in Messages /\ h[j].kind = "round"
    BY <1>2 DEF Reported
  <2>2. PICK k \in 1..h[j].calls : <<h[j].attempt, k>> \notin ResultsOf(h) /\ x = Report(<<h[j].attempt, k>>)
    BY DEF Reported, Missing
  <2> QED BY <2>1, <2>2, ReportFields
<1>5. \A m \in Range(g) : m \in Range(h) \/ (m.kind = "result" /\ m = Report(m.call) /\ m.call \notin ResultsOf(h))
  BY <1>2, <1>3, <1>4
<1>6. Range(h) \subseteq Range(g)
  BY <1>2, <1>3, Contents
<1>7. RoundsOf(g) = RoundsOf(h)
  <2>1. \A m : m \in Range(g) /\ m.kind = "round" <=> m \in Range(h) /\ m.kind = "round"
    BY <1>5, <1>6
  <2>2. \A a : a \in RoundsOf(g) <=> \E m \in Range(g) : m.kind = "round" /\ m.attempt = a
    BY <1>3, Contents
  <2>3. \A a : a \in RoundsOf(h) <=> \E m \in Range(h) : m.kind = "round" /\ m.attempt = a
    BY Contents
  <2> QED BY <2>1, <2>2, <2>3
<1>8. Closed(g)
  <2> SUFFICES ASSUME NEW i \in DOMAIN g, g[i].kind = "round", NEW k \in 1..g[i].calls
               PROVE  <<g[i].attempt, k>> \in ResultsOf(g)
    BY DEF Closed
  <2>1. g[i] \in Range(g)
    BY DEF Range
  <2>2. g[i] \in Range(h)
    BY <1>5, <2>1
  <2>3. PICK j \in 1..N : g[i] = h[j]
    BY <1>2, <2>2, Contents
  <2>4. h[j] \in Messages /\ k \in 1..h[j].calls /\ h[j].kind = "round"
    BY <1>2, <2>3
  <2> DEFINE r == Report(<<h[j].attempt, k>>)
  <2>5. r.kind = "result" /\ r.call = <<h[j].attempt, k>>
    BY <2>4, ReportFields
  <2>6. CASE <<h[j].attempt, k>> \in ResultsOf(h)
    BY <1>3, <1>6, <2>3, <2>6, Contents
  <2>7. CASE <<h[j].attempt, k>> \notin ResultsOf(h)
    <3>1. Reported(h, j, r)
      BY <2>4, <2>7 DEF Reported, Missing
    <3>2. r \in Range(g)
      BY <1>3, <3>1
    <3> HIDE DEF r
    <3>3. r.call \in ResultsOf(g)
      BY <1>3, <2>5, <3>2, Contents
    <3> QED BY <2>3, <2>5, <3>3
  <2> QED BY <2>6, <2>7
<1> QED BY <1>3, <1>5, <1>6, <1>7, <1>8 DEF g

-----------------------------------------------------------------------------
(* ApiMessages *)
SentStates == [out : Seq(Messages), pending : SUBSET Calls, deferred : Seq(Messages)]

Asked(m) == {<<m.attempt, k>> : k \in 1..m.calls}

\* What one message does.
LEMMA SentOne ==
  ASSUME NEW s \in SentStates, NEW m \in Messages
  PROVE  /\ Sent(s, m) \in SentStates
         /\ m.kind = "child" /\ s.pending # {} =>
              /\ Sent(s, m).out = s.out /\ Sent(s, m).pending = s.pending
              /\ Sent(s, m).deferred = Append(s.deferred, m)
         /\ m.kind # "child" \/ s.pending = {} =>
              /\ Sent(s, m).pending = CASE m.kind = "round" -> s.pending \cup Asked(m)
                                        [] m.kind = "result" -> s.pending \ {m.call}
                                        [] OTHER -> s.pending
              /\ Sent(s, m).pending # {} => /\ Sent(s, m).out = Append(s.out, m)
                                            /\ Sent(s, m).deferred = s.deferred
              /\ Sent(s, m).pending = {} => /\ Sent(s, m).out = Append(s.out, m) \o s.deferred
                                            /\ Sent(s, m).deferred = <<>>
<1> DEFINE waits == CASE m.kind = "round" -> s.pending \cup Asked(m)
                        [] m.kind = "result" -> s.pending \ {m.call}
                        [] OTHER -> s.pending
           Base == <<>>
<1>1. s.out \in Seq(Messages) /\ s.deferred \in Seq(Messages) /\ s.pending \subseteq Calls /\ Base \in Seq(Messages)
      /\ s = [out |-> s.out, pending |-> s.pending, deferred |-> s.deferred]
  BY DEF SentStates
<1>2. waits \subseteq Calls
  <2>1. m.kind = "round" => Asked(m) \subseteq Calls
    <3>1. m.kind = "round" => m.attempt \in Attempts /\ m.calls \in 0..MaxCalls /\ MaxCalls \in Nat
      BY MessageFields, TurnsAssumption
    <3> QED BY <3>1 DEF Asked, Calls
  <2> QED BY <1>1, <2>1
<1>3. Append(s.out, m) \in Seq(Messages) /\ Append(s.deferred, m) \in Seq(Messages)
      /\ Append(s.out, m) \o s.deferred \in Seq(Messages) /\ Append(s.out, m) \o Base = Append(s.out, m)
  BY <1>1
<1>4. Sent(s, m) = IF m.kind = "child" /\ s.pending # {} THEN [s EXCEPT !.deferred = Append(@, m)]
                   ELSE [out |-> Append(s.out, m) \o (IF waits = {} THEN s.deferred ELSE Base),
                         pending |-> waits, deferred |-> IF waits = {} THEN Base ELSE s.deferred]
  BY DEF Sent, Asked
<1> HIDE DEF waits, Base
<1>5. CASE m.kind = "child" /\ s.pending # {}
  <2>1. Sent(s, m) = [out |-> s.out, pending |-> s.pending, deferred |-> Append(s.deferred, m)]
    BY <1>1, <1>4, <1>5
  <2> QED BY <1>1, <1>3, <1>5, <2>1 DEF SentStates
<1>6. CASE ~(m.kind = "child" /\ s.pending # {})
  <2>1. CASE waits = {}
    <3> DEFINE all == Append(s.out, m) \o s.deferred
    <3>1. Sent(s, m) = [out |-> all, pending |-> waits, deferred |-> Base] /\ all \in Seq(Messages)
      BY <1>3, <1>4, <1>6, <2>1
    <3> HIDE DEF all
    <3>2. Sent(s, m) \in SentStates
      BY <1>1, <1>2, <3>1 DEF SentStates
    <3>3. Sent(s, m).out = all /\ Sent(s, m).pending = waits /\ Sent(s, m).deferred = Base
      BY <3>1
    <3> QED BY <1>6, <2>1, <3>2, <3>3 DEF waits, Base, all
  <2>2. CASE waits # {}
    <3>1. Sent(s, m) = [out |-> Append(s.out, m), pending |-> waits, deferred |-> s.deferred]
      BY <1>3, <1>4, <1>6, <2>2
    <3>2. Sent(s, m) \in SentStates
      BY <1>1, <1>2, <1>3, <3>1 DEF SentStates
    <3>3. /\ Sent(s, m).out = Append(s.out, m)
          /\ Sent(s, m).pending = waits /\ Sent(s, m).deferred = s.deferred
      BY <3>1
    <3> QED BY <1>6, <2>2, <3>2, <3>3 DEF waits
  <2> QED BY <2>1, <2>2
<1> QED BY <1>5, <1>6

\* ApiMessages takes the messages one after the other.
SendStep(h, u) ==
  u = [i \in 0..Len(h) |-> IF i = 0 THEN [out |-> <<>>, pending |-> {}, deferred |-> <<>>] ELSE Sent(u[i - 1], h[i])]

LEMMA SentFollows ==
  ASSUME NEW h \in Seq(Messages)
  PROVE  \E u : /\ u[0] = [out |-> <<>>, pending |-> {}, deferred |-> <<>>]
                /\ ApiMessages(h) = u[Len(h)].out \o u[Len(h)].deferred
                /\ \A i \in 1..Len(h) : u[i] = Sent(u[i - 1], h[i])
<1> DEFINE N == Len(h)
           Base == [out |-> <<>>, pending |-> {}, deferred |-> <<>>]
           F == [x \in SentStates \X (1..N) |-> Sent(x[1], h[x[2]])]
           sent == CHOOSE u : SendStep(h, u)
<1>1. N \in Nat /\ Base \in SentStates /\ \A i \in 1..N : h[i] \in Messages
  BY DEF SentStates
<1>2. ApiMessages(h) = sent[N].out \o sent[N].deferred
  BY DEF ApiMessages, SendStep
<1>3. F \in [SentStates \X (1..N) -> SentStates]
  <2>1. ASSUME NEW g \in SentStates, NEW i \in 1..N PROVE Sent(g, h[i]) \in SentStates
    <3>0. h[i] \in Messages
      BY <1>1
    <3> QED BY <3>0, SentOne, Zenon
  <2> QED BY <2>1
<1>4. \A g \in SentStates, i \in 1..N : F[<<g, i>>] = Sent(g, h[i])
  OBVIOUS
<1> HIDE DEF F, Base
<1>5. \E u : Computes(SentStates, Base, N, F, u)
  <2> HIDE DEF N, sent
  <2>1. N \in Nat /\ Base \in SentStates
    BY <1>1
  <2> QED BY <2>1, <1>3, Recursion, Zenon
<1>6. PICK u \in [0..N -> SentStates] : u[0] = Base /\ \A i \in 1..N : u[i] = F[<<u[i - 1], i>>]
  BY <1>5 DEF Computes
<1>7. SendStep(h, u)
  <2>1. ASSUME NEW i \in 0..N PROVE u[i] = IF i = 0 THEN Base ELSE Sent(u[i - 1], h[i])
    <3>1. CASE i = 0
      BY <1>6, <3>1
    <3>2. CASE i # 0
      <4>1. i \in 1..N /\ i - 1 \in 0..N
        BY <1>1, <3>2
      <4>2. u[i] = F[<<u[i - 1], i>>] /\ u[i - 1] \in SentStates
        BY <1>6, <4>1
      <4>3. u[i] = Sent(u[i - 1], h[i])
        BY <1>4, <4>1, <4>2
      <4> QED BY <3>2, <4>3
    <3> QED BY <3>1, <3>2
  <2> DEFINE w == [i \in 0..N |-> IF i = 0 THEN Base ELSE Sent(u[i - 1], h[i])]
  <2>2. u = [i \in 0..N |-> u[i]]
    OBVIOUS
  <2>3. u = w
    BY <2>1, <2>2
  <2> QED BY <2>3 DEF SendStep, Base
<1>8. SendStep(h, sent)
  BY <1>7
<1> HIDE DEF sent
<1>9. sent = [i \in 0..Len(h) |-> IF i = 0 THEN Base ELSE Sent(sent[i - 1], h[i])]
  BY <1>8 DEF SendStep, Base
<1>10. sent[0] = Base
  BY <1>1, <1>9
<1>11. \A i \in 1..N : sent[i] = Sent(sent[i - 1], h[i])
  BY <1>1, <1>9
<1> QED BY <1>2, <1>10, <1>11 DEF Base

\* A round that has been sent: its results are right after it, all of them or those so far.
Block(w, p, last) ==
  \A x \in p + 1 .. last : w[x].kind = "result" /\ w[x].call[1] = w[p].attempt /\ w[x].call[2] \in 1..w[p].calls

Complete(w, p) ==
  /\ p + w[p].calls <= Len(w) /\ Block(w, p, p + w[p].calls)
  /\ \A k \in 1..w[p].calls : \E x \in p + 1 .. p + w[p].calls : w[x].call = <<w[p].attempt, k>>

AnsweredOf(w, p, waits) == {k \in 1..w[p].calls : <<w[p].attempt, k>> \notin waits}

Open(w, p, waits) ==
  /\ waits \subseteq Asked(w[p]) /\ Block(w, p, Len(w))
  /\ Cardinality(AnsweredOf(w, p, waits)) = Len(w) - p
  /\ \A k \in AnsweredOf(w, p, waits) : \E x \in p + 1 .. Len(w) : w[x].call = <<w[p].attempt, k>>

\* The calls that wait for a result, in the history itself.
Waiting(h, i, r) ==
  {c \in Asked(h[r]) : \A x \in r + 1 .. i : h[x].kind = "result" => h[x].call # c}

LastRound(h, i, r) == h[r].kind = "round" /\ \A x \in r + 1 .. i : h[x].kind \in {"result", "child"}

SentInPlace(w, waits) ==
  /\ \A x, y \in DOMAIN w : w[x].kind = "round" /\ w[y].kind = "round" /\ w[x].attempt = w[y].attempt => x = y
  /\ \A x \in DOMAIN w : w[x].kind = "result" =>
       \E p \in 1..(x - 1) : w[p].kind = "round" /\ w[p].attempt = w[x].call[1] /\ x <= p + w[p].calls
  /\ \A p \in DOMAIN w : w[p].kind = "round" => Complete(w, p) \/ (waits # {} /\ Open(w, p, waits))
  /\ waits # {} => \E p \in DOMAIN w : w[p].kind = "round" /\ Open(w, p, waits)

SentUpTo(h, i, s) ==
  /\ s \in SentStates /\ SentInPlace(s.out, s.pending)
  /\ \A x \in DOMAIN s.deferred : s.deferred[x] = Child
  /\ s.pending = {} => s.deferred = <<>>
  /\ \A x \in DOMAIN s.out : s.out[x].kind = "round" => \E j \in 1..i : s.out[x] = h[j]
  /\ \A r \in 1..i : LastRound(h, i, r) => s.pending = Waiting(h, i, r)
  /\ s.pending # {} => \E r \in 1..i : LastRound(h, i, r)

\* What is sent stays in place when more follows.
LEMMA CompleteStays ==
  ASSUME NEW w \in Seq(Messages), NEW v \in Seq(Messages), Len(w) <= Len(v), \A x \in 1..Len(w) : v[x] = w[x],
         NEW p \in DOMAIN w, w[p].kind = "round", Complete(w, p)
  PROVE  Complete(v, p)
<1>1. Len(w) \in Nat /\ Len(v) \in Nat /\ p \in 1..Len(w) /\ w[p] \in Messages
  OBVIOUS
<1>2. w[p].calls \in Nat /\ v[p] = w[p]
  BY <1>1, MessageFields, TurnsAssumption
<1>3. \A x \in p + 1 .. p + w[p].calls : x \in 1..Len(w) /\ v[x] = w[x]
  BY <1>1, <1>2 DEF Complete
<1>4. v[p].calls = w[p].calls /\ v[p].attempt = w[p].attempt
  BY <1>2
<1> DEFINE n == w[p].calls
<1>5. n \in Nat /\ v[p].calls = n /\ p + n <= Len(w) /\ \A x \in p + 1 .. p + n : v[x] = w[x]
  BY <1>2, <1>3 DEF Complete
<1> HIDE DEF n
<1>6. Block(w, p, p + n) /\ \A k \in 1..n : \E x \in p + 1 .. p + n : w[x].call = <<w[p].attempt, k>>
  BY DEF Complete, n
<1>7. Block(v, p, p + n)
  <2>1. w[p].calls = n
    BY DEF n
  <2> QED BY <1>4, <1>5, <1>6, <2>1 DEF Block
<1>8. ASSUME NEW k \in 1..n PROVE \E x \in p + 1 .. p + n : v[x].call = <<v[p].attempt, k>>
  BY <1>4, <1>5, <1>6
<1>9. p + n <= Len(v)
  BY <1>1, <1>5
<1> QED BY <1>5, <1>7, <1>8, <1>9 DEF Complete

\* Once nothing is pending, the open round is complete.
LEMMA OpenEnds ==
  ASSUME NEW w \in Seq(Messages), NEW p \in DOMAIN w, w[p].kind = "round", Open(w, p, {})
  PROVE  Complete(w, p) /\ Len(w) = p + w[p].calls
<1>1. Len(w) \in Nat /\ p \in 1..Len(w) /\ w[p] \in Messages
  OBVIOUS
<1>2. w[p].calls \in Nat
  BY <1>1, MessageFields, TurnsAssumption
<1>3. AnsweredOf(w, p, {}) = 1..w[p].calls
  BY DEF AnsweredOf
<1>4. Cardinality(1..w[p].calls) = w[p].calls
  BY <1>2, FS_Interval
<1>5. Len(w) = p + w[p].calls
  BY <1>1, <1>2, <1>3, <1>4 DEF Open
<1>6. Block(w, p, p + w[p].calls)
  BY <1>5 DEF Open
<1>7. \A k \in 1..w[p].calls : \E x \in p + 1 .. p + w[p].calls : w[x].call = <<w[p].attempt, k>>
  BY <1>3, <1>5 DEF Open
<1>8. p + w[p].calls <= Len(w)
  BY <1>1, <1>2, <1>5
<1> QED BY <1>5, <1>6, <1>7, <1>8 DEF Complete

LEMMA Extended ==
  ASSUME NEW w \in Seq(Messages), NEW m \in Messages,
         NEW d \in Seq(Messages), \A x \in DOMAIN d : d[x] = Child
  PROVE  LET v == Append(w, m) \o d IN
           /\ v \in Seq(Messages) /\ Len(w) \in Nat /\ Len(d) \in Nat /\ Len(v) = Len(w) + 1 + Len(d)
           /\ DOMAIN v = 1..Len(v) /\ DOMAIN w = 1..Len(w) /\ Len(w) + 1 \in DOMAIN v
           /\ \A x \in 1..Len(w) : v[x] = w[x] /\ x \in DOMAIN v
           /\ v[Len(w) + 1] = m
           /\ \A x \in DOMAIN v : x \in 1..Len(w) \/ x = Len(w) + 1 \/ v[x] = Child
<1> DEFINE w1 == Append(w, m)
           v == w1 \o d
<1>1. /\ w1 \in Seq(Messages) /\ Len(w) \in Nat /\ Len(w1) = Len(w) + 1 /\ DOMAIN w = 1..Len(w)
      /\ w1[Len(w) + 1] = m /\ \A x \in 1..Len(w) : w1[x] = w[x]
  BY Appended
<1> HIDE DEF w1
<1>2. /\ v \in Seq(Messages) /\ Len(d) \in Nat /\ Len(v) = Len(w1) + Len(d) /\ DOMAIN v = 1..(Len(w1) + Len(d))
      /\ DOMAIN d = 1..Len(d)
      /\ \A x \in 1..Len(w1) : v[x] = w1[x]
      /\ \A x \in Len(w1) + 1 .. Len(w1) + Len(d) : v[x] = d[x - Len(w1)] /\ x - Len(w1) \in 1..Len(d)
  <2>1. w1 \in Seq(Messages)
    BY <1>1
  <2>2. /\ w1 \o d \in Seq(Messages) /\ Len(w1) \in Nat /\ Len(d) \in Nat /\ Len(w1 \o d) = Len(w1) + Len(d)
        /\ DOMAIN w1 = 1..Len(w1) /\ DOMAIN d = 1..Len(d) /\ DOMAIN (w1 \o d) = 1..(Len(w1) + Len(d))
        /\ \A i \in 1..Len(w1) : (w1 \o d)[i] = w1[i]
        /\ \A i \in 1..Len(d) : (w1 \o d)[Len(w1) + i] = d[i]
        /\ \A i \in Len(w1) + 1 .. Len(w1) + Len(d) : (w1 \o d)[i] = d[i - Len(w1)] /\ i - Len(w1) \in 1..Len(d)
    <3> HIDE DEF v
    <3> QED BY <2>1, Joined
  <2> QED BY <2>2, Zenon
<1> HIDE DEF v
<1>3. \A x \in 1..Len(w) : v[x] = w[x] /\ x \in DOMAIN v
  BY <1>1, <1>2
<1>4. v[Len(w) + 1] = m /\ Len(w) + 1 \in DOMAIN v
  BY <1>1, <1>2
<1>5. ASSUME NEW x \in DOMAIN v, ~(x \in 1..Len(w) \/ x = Len(w) + 1) PROVE v[x] = Child
  <2>1. x \in Len(w1) + 1 .. Len(w1) + Len(d)
    BY <1>1, <1>2, <1>5
  <2>2. v[x] = d[x - Len(w1)] /\ x - Len(w1) \in DOMAIN d
    BY <1>2, <2>1
  <2> QED BY <2>2
<1>6. Len(v) = Len(w) + 1 + Len(d) /\ DOMAIN v = 1..Len(v)
  BY <1>1, <1>2
<1> QED BY <1>1, <1>2, <1>3, <1>4, <1>5, <1>6 DEF v, w1

LEMMA InPlaceStep ==
  ASSUME NEW w \in Seq(Messages), NEW waits, SentInPlace(w, waits), NEW m \in Messages,
         NEW d \in Seq(Messages), \A x \in DOMAIN d : d[x] = Child,
         m.kind = "round" => \A x \in DOMAIN w : w[x].kind = "round" => w[x].attempt # m.attempt,
         m.kind = "result" => \E p \in DOMAIN w : /\ w[p].kind = "round" /\ w[p].attempt = m.call[1]
                                                 /\ Len(w) + 1 <= p + w[p].calls
  PROVE  LET v == Append(w, m) \o d IN
           /\ \A x, y \in DOMAIN v : v[x].kind = "round" /\ v[y].kind = "round" /\ v[x].attempt = v[y].attempt => x = y
           /\ \A x \in DOMAIN v : v[x].kind = "result" =>
                \E p \in 1..(x - 1) : v[p].kind = "round" /\ v[p].attempt = v[x].call[1] /\ x <= p + v[p].calls
           /\ \A p \in DOMAIN v : v[p].kind = "round" =>
                \/ p \in DOMAIN w /\ v[p] = w[p] /\ w[p].kind = "round"
                \/ p = Len(w) + 1 /\ m.kind = "round"
           /\ \A p \in DOMAIN w : w[p].kind = "round" /\ Complete(w, p) => Complete(v, p)
<1> DEFINE v == Append(w, m) \o d
           L == Len(w)
<1>1. /\ v \in Seq(Messages) /\ L \in Nat /\ Len(d) \in Nat /\ Len(v) = L + 1 + Len(d)
      /\ DOMAIN v = 1..Len(v) /\ DOMAIN w = 1..L /\ L + 1 \in DOMAIN v
      /\ \A x \in 1..L : v[x] = w[x] /\ x \in DOMAIN v
      /\ v[L + 1] = m
      /\ \A x \in DOMAIN v : x \in 1..L \/ x = L + 1 \/ v[x] = Child
  BY Extended
<1> HIDE DEF v
<1>2. \A x \in DOMAIN v : v[x].kind \in {"round", "result"} => x \in DOMAIN w \/ x = L + 1
  BY <1>1, MessageTypes
<1>3. ASSUME NEW x \in DOMAIN v, NEW y \in DOMAIN v, v[x].kind = "round", v[y].kind = "round", v[x].attempt = v[y].attempt
      PROVE  x = y
  <2>1. CASE x \in DOMAIN w /\ y \in DOMAIN w
    BY <1>1, <1>3, <2>1 DEF SentInPlace
  <2>2. CASE x = L + 1 /\ y \in DOMAIN w
    BY <1>1, <1>3, <2>2
  <2>3. CASE y = L + 1 /\ x \in DOMAIN w
    BY <1>1, <1>3, <2>3
  <2> QED BY <1>2, <1>3, <2>1, <2>2, <2>3
<1>4. ASSUME NEW x \in DOMAIN v, v[x].kind = "result"
      PROVE  \E p \in 1..(x - 1) : v[p].kind = "round" /\ v[p].attempt = v[x].call[1] /\ x <= p + v[p].calls
  <2>1. CASE x \in DOMAIN w
    <3>1. PICK p \in 1..(x - 1) : w[p].kind = "round" /\ w[p].attempt = w[x].call[1] /\ x <= p + w[p].calls
      BY <1>1, <1>4, <2>1 DEF SentInPlace
    <3>2. p \in 1..L /\ v[p] = w[p] /\ v[x] = w[x]
      BY <1>1, <2>1
    <3> QED BY <3>1, <3>2
  <2>2. CASE x = L + 1
    <3>1. PICK p \in DOMAIN w : w[p].kind = "round" /\ w[p].attempt = m.call[1] /\ L + 1 <= p + w[p].calls
      BY <1>1, <1>4, <2>2
    <3>2. p \in 1..(x - 1) /\ v[p] = w[p] /\ v[x] = m
      BY <1>1, <2>2
    <3> QED BY <2>2, <3>1, <3>2
  <2> QED BY <1>2, <1>4, <2>1, <2>2
<1>5. ASSUME NEW p \in DOMAIN w, w[p].kind = "round", Complete(w, p) PROVE Complete(v, p)
  <2>1. Len(w) <= Len(v) /\ \A x \in 1..Len(w) : v[x] = w[x]
    BY <1>1
  <2> QED BY <1>1, <1>5, <2>1, CompleteStays
<1>6. ASSUME NEW p \in DOMAIN v, v[p].kind = "round"
      PROVE  \/ p \in DOMAIN w /\ v[p] = w[p] /\ w[p].kind = "round"
             \/ p = L + 1 /\ m.kind = "round"
  BY <1>1, <1>2, <1>6
<1> QED BY <1>3, <1>4, <1>5, <1>6 DEF v

\* A message of the user or of a subagent, when nothing is pending.
LEMMA InPlacePlain ==
  ASSUME NEW w \in Seq(Messages), SentInPlace(w, {}), NEW m \in Messages, m.kind \notin {"round", "result"},
         NEW d \in Seq(Messages), \A x \in DOMAIN d : d[x] = Child
  PROVE  SentInPlace(Append(w, m) \o d, {})
<1> DEFINE v == Append(w, m) \o d
<1>1. /\ \A x, y \in DOMAIN v : v[x].kind = "round" /\ v[y].kind = "round" /\ v[x].attempt = v[y].attempt => x = y
      /\ \A x \in DOMAIN v : v[x].kind = "result" =>
           \E p \in 1..(x - 1) : v[p].kind = "round" /\ v[p].attempt = v[x].call[1] /\ x <= p + v[p].calls
      /\ \A p \in DOMAIN v : v[p].kind = "round" =>
           \/ p \in DOMAIN w /\ v[p] = w[p] /\ w[p].kind = "round"
           \/ p = Len(w) + 1 /\ m.kind = "round"
      /\ \A p \in DOMAIN w : w[p].kind = "round" /\ Complete(w, p) => Complete(v, p)
  <2>1. m.kind # "round" /\ m.kind # "result"
    OBVIOUS
  <2> QED BY <2>1, InPlaceStep
<1> HIDE DEF v
<1>2. \A p \in DOMAIN v : v[p].kind = "round" => Complete(v, p)
  BY <1>1 DEF SentInPlace
<1>3. SentInPlace(v, {})
  BY <1>1, <1>2 DEF SentInPlace
<1> QED BY <1>3 DEF v

\* A round, when nothing is pending.
LEMMA InPlaceRound ==
  ASSUME NEW w \in Seq(Messages), SentInPlace(w, {}), NEW m \in Messages, m.kind = "round",
         \A x \in DOMAIN w : w[x].kind = "round" => w[x].attempt # m.attempt
  PROVE  SentInPlace(Append(w, m), Asked(m))
<1> DEFINE d == <<>>
           v == Append(w, m) \o d
           L == Len(w)
<1>0. d \in Seq(Messages) /\ (\A x \in DOMAIN d : d[x] = Child) /\ v = Append(w, m) /\ Len(d) = 0
  OBVIOUS
<1> HIDE DEF d
<1>1. /\ \A x, y \in DOMAIN v : v[x].kind = "round" /\ v[y].kind = "round" /\ v[x].attempt = v[y].attempt => x = y
      /\ \A x \in DOMAIN v : v[x].kind = "result" =>
           \E p \in 1..(x - 1) : v[p].kind = "round" /\ v[p].attempt = v[x].call[1] /\ x <= p + v[p].calls
      /\ \A p \in DOMAIN v : v[p].kind = "round" =>
           \/ p \in DOMAIN w /\ v[p] = w[p] /\ w[p].kind = "round"
           \/ p = Len(w) + 1 /\ m.kind = "round"
      /\ \A p \in DOMAIN w : w[p].kind = "round" /\ Complete(w, p) => Complete(v, p)
  <2>1. m.kind # "result"
    OBVIOUS
  <2> QED BY <1>0, <2>1, InPlaceStep
<1>2. /\ v \in Seq(Messages) /\ L \in Nat /\ Len(d) \in Nat /\ Len(v) = L + 1 + Len(d)
      /\ L + 1 \in DOMAIN v /\ v[L + 1] = m
  BY <1>0, Extended
<1>3. m.attempt \in Attempts /\ m.calls \in 0..MaxCalls /\ m.calls \in Nat
  BY MessageFields, TurnsAssumption
<1> HIDE DEF v
<1>4. Complete(v, L + 1) \/ (Asked(m) # {} /\ Open(v, L + 1, Asked(m)))
  <2>1. CASE m.calls = 0
    <3>1. 1..v[L + 1].calls = {} /\ L + 1 + v[L + 1].calls <= Len(v) /\ L + 1 + 1 .. L + 1 + v[L + 1].calls = {}
      BY <1>0, <1>2, <1>3, <2>1
    <3> QED BY <3>1 DEF Complete, Block
  <2>2. CASE m.calls # 0
    <3>1. <<m.attempt, 1>> \in Asked(m)
      BY <1>3, <2>2 DEF Asked
    <3>2. AnsweredOf(v, L + 1, Asked(m)) = {}
      BY <1>2 DEF AnsweredOf, Asked
    <3>3. Block(v, L + 1, Len(v)) /\ Len(v) - (L + 1) = 0
      BY <1>0, <1>2 DEF Block
    <3>4. Cardinality(AnsweredOf(v, L + 1, Asked(m))) = 0
      BY <3>2, FS_EmptySet
    <3>5. Open(v, L + 1, Asked(m))
      BY <1>2, <3>2, <3>3, <3>4 DEF Open
    <3> QED BY <3>1, <3>5
  <2> QED BY <2>1, <2>2
<1>5. \A p \in DOMAIN w : w[p].kind = "round" => Complete(w, p)
  BY DEF SentInPlace
<1>6. \A p \in DOMAIN v : v[p].kind = "round" => Complete(v, p) \/ (Asked(m) # {} /\ Open(v, p, Asked(m)))
  BY <1>1, <1>4, <1>5
<1>7. Asked(m) # {} => \E p \in DOMAIN v : v[p].kind = "round" /\ Open(v, p, Asked(m))
  <2>1. ASSUME Asked(m) # {} PROVE ~Complete(v, L + 1)
    <3>1. m.calls # 0
      BY <1>3, <2>1 DEF Asked
    <3> QED BY <1>0, <1>2, <1>3, <3>1 DEF Complete
  <2> QED BY <1>2, <1>4, <2>1
<1>8. SentInPlace(v, Asked(m))
  BY <1>1, <1>6, <1>7 DEF SentInPlace
<1> QED BY <1>0, <1>8

\* A result that is awaited.
LEMMA InPlaceResult ==
  ASSUME NEW w \in Seq(Messages), NEW waits, SentInPlace(w, waits), NEW m \in Messages, m.kind = "result",
         m.call \in waits,
         NEW d \in Seq(Messages), \A x \in DOMAIN d : d[x] = Child, d = <<>> \/ waits \ {m.call} = {}
  PROVE  SentInPlace(Append(w, m) \o d, waits \ {m.call})
<1> DEFINE v == Append(w, m) \o d
           L == Len(w)
           rest == waits \ {m.call}
<1>1. PICK q \in DOMAIN w : w[q].kind = "round" /\ Open(w, q, waits)
  BY DEF SentInPlace
<1>2. /\ L \in Nat /\ DOMAIN w = 1..L /\ q \in 1..L /\ w[q] \in Messages /\ w[q].attempt \in Attempts
      /\ w[q].calls \in Nat
  BY <1>1, MessageFields, TurnsAssumption
<1>3. ASSUME NEW p \in DOMAIN w, w[p].kind = "round", Open(w, p, waits)
      PROVE  \E k \in 1..w[p].calls :
               /\ m.call = <<w[p].attempt, k>>
               /\ AnsweredOf(w, p, rest) = AnsweredOf(w, p, waits) \cup {k}
               /\ Cardinality(AnsweredOf(w, p, rest)) = L + 1 - p
               /\ L + 1 <= p + w[p].calls
  <2>0. /\ p \in 1..L /\ w[p] \in Messages /\ w[p].calls \in Nat
    BY <1>2, <1>3, MessageFields, TurnsAssumption
  <2>1. PICK k \in 1..w[p].calls : m.call = <<w[p].attempt, k>>
    BY <1>3 DEF Open, Asked
  <2> DEFINE A == AnsweredOf(w, p, waits)
             B == AnsweredOf(w, p, rest)
             n == w[p].calls
  <2>2. B = A \cup {k} /\ k \notin A
    BY <2>1 DEF AnsweredOf
  <2>3. IsFiniteSet(1..n) /\ Cardinality(1..n) = n
    <3>1. n \in Nat /\ n \in Int /\ 1 \in Int /\ n - 1 + 1 = n
      BY <2>0
    <3> HIDE DEF n
    <3>2. IsFiniteSet(1..n) /\ Cardinality(1..n) = IF 1 > n THEN 0 ELSE n - 1 + 1
      BY <3>1, FS_Interval, Zenon
    <3> QED BY <3>1, <3>2
  <2>4. A \in SUBSET (1..n) /\ B \in SUBSET (1..n)
    BY DEF AnsweredOf
  <2>5. Cardinality(A) = L - p
    BY <1>3 DEF Open
  <2>6. n \in Nat
    BY <2>0
  <2> HIDE DEF A, B, n
  <2>7. IsFiniteSet(A) /\ Cardinality(B) <= n
    <3>1. IsFiniteSet(A)
      BY <2>3, <2>4, FS_Subset, Zenon
    <3>2. Cardinality(B) <= Cardinality(1..n)
      BY <2>3, <2>4, FS_Subset, Zenon
    <3> QED BY <2>3, <3>1, <3>2
  <2>8. Cardinality(A \cup {k}) = Cardinality(A) + 1
    BY <2>2, <2>7, FS_AddElement
  <2>9. Cardinality(B) = L + 1 - p
    BY <1>2, <2>0, <2>2, <2>5, <2>8
  <2>10. L + 1 <= p + n
    BY <1>2, <2>0, <2>6, <2>7, <2>9
  <2> QED BY <2>1, <2>2, <2>9, <2>10 DEF A, B, n
<1>4. \E p \in DOMAIN w : /\ w[p].kind = "round" /\ w[p].attempt = m.call[1] /\ L + 1 <= p + w[p].calls
  BY <1>1, <1>3
<1>5. /\ \A x, y \in DOMAIN v : v[x].kind = "round" /\ v[y].kind = "round" /\ v[x].attempt = v[y].attempt => x = y
      /\ \A x \in DOMAIN v : v[x].kind = "result" =>
           \E p \in 1..(x - 1) : v[p].kind = "round" /\ v[p].attempt = v[x].call[1] /\ x <= p + v[p].calls
      /\ \A p \in DOMAIN v : v[p].kind = "round" =>
           \/ p \in DOMAIN w /\ v[p] = w[p] /\ w[p].kind = "round"
           \/ p = Len(w) + 1 /\ m.kind = "round"
      /\ \A p \in DOMAIN w : w[p].kind = "round" /\ Complete(w, p) => Complete(v, p)
  <2>1. m.kind # "round"
    OBVIOUS
  <2> QED BY <1>4, <2>1, InPlaceStep
<1>6. /\ v \in Seq(Messages) /\ Len(d) \in Nat /\ Len(v) = L + 1 + Len(d) /\ DOMAIN v = 1..Len(v)
      /\ L + 1 \in DOMAIN v /\ v[L + 1] = m
      /\ \A x \in 1..L : v[x] = w[x] /\ x \in DOMAIN v
  BY Extended
<1> HIDE DEF v
\* the open round, up to the new result
<1> DEFINE v1 == Append(w, m)
<1>7. /\ v1 \in Seq(Messages) /\ Len(v1) = L + 1 /\ DOMAIN v1 = 1..(L + 1)
      /\ v1[L + 1] = m /\ \A x \in 1..L : v1[x] = w[x]
  BY Appended
<1> HIDE DEF v1
<1>8. \A x \in 1..Len(v1) : v[x] = v1[x]
  BY <1>2, <1>6, <1>7
<1>9. ASSUME NEW p \in DOMAIN w, w[p].kind = "round", Open(w, p, waits)
      PROVE  Open(v1, p, rest)
  <2>1. PICK k \in 1..w[p].calls :
               /\ m.call = <<w[p].attempt, k>>
               /\ AnsweredOf(w, p, rest) = AnsweredOf(w, p, waits) \cup {k}
               /\ Cardinality(AnsweredOf(w, p, rest)) = L + 1 - p
    BY <1>3, <1>9
  <2>2. p \in 1..L /\ v1[p] = w[p]
    BY <1>2, <1>7
  <2>3. AnsweredOf(v1, p, rest) = AnsweredOf(w, p, rest)
    BY <2>2 DEF AnsweredOf
  <2>4. rest \subseteq Asked(v1[p])
    BY <1>9, <2>2 DEF Open
  <2>5. Block(v1, p, Len(v1))
    <3> SUFFICES ASSUME NEW x \in p + 1 .. L + 1
                 PROVE  v1[x].kind = "result" /\ v1[x].call[1] = w[p].attempt /\ v1[x].call[2] \in 1..w[p].calls
      BY <1>7, <2>2 DEF Block
    <3>1. CASE x = L + 1
      BY <1>7, <2>1, <3>1, SMTT(30)
    <3>2. CASE x # L + 1
      <4>1. x \in p + 1 .. L /\ v1[x] = w[x]
        BY <1>2, <1>7, <2>2, <3>2
      <4> QED BY <1>9, <4>1 DEF Open, Block
    <3> QED BY <3>1, <3>2
  <2>6. ASSUME NEW j \in AnsweredOf(v1, p, rest) PROVE \E x \in p + 1 .. Len(v1) : v1[x].call = <<v1[p].attempt, j>>
    <3>1. CASE j = k
      <4>1. L + 1 \in p + 1 .. Len(v1)
        BY <1>2, <1>7, <2>2
      <4> QED BY <1>7, <2>1, <2>2, <3>1, <4>1
    <3>2. CASE j \in AnsweredOf(w, p, waits)
      <4>1. PICK x \in p + 1 .. L : w[x].call = <<w[p].attempt, j>>
        BY <1>9, <3>2 DEF Open
      <4>2. x \in p + 1 .. Len(v1) /\ v1[x] = w[x]
        BY <1>2, <1>7, <2>2
      <4> QED BY <2>2, <4>1, <4>2
    <3> QED BY <2>1, <2>3, <2>6, <3>1, <3>2
  <2>7. Cardinality(AnsweredOf(v1, p, rest)) = Len(v1) - p
    <3>1. Cardinality(AnsweredOf(w, p, rest)) = L + 1 - p /\ Len(v1) = L + 1
      BY <1>7, <2>1
    <3>2. Cardinality(AnsweredOf(v1, p, rest)) = Cardinality(AnsweredOf(w, p, rest))
      BY <2>3, Zenon
    <3>3. Len(v1) - p = L + 1 - p
      BY <1>2, <1>7, <2>2
    <3> QED BY <3>1, <3>2, <3>3, Zenon
  <2> QED BY <2>4, <2>5, <2>6, <2>7 DEF Open
<1>10. CASE rest = {}
  <2>1. ASSUME NEW p \in DOMAIN v, v[p].kind = "round" PROVE Complete(v, p)
    <3>1. p \in DOMAIN w /\ v[p] = w[p] /\ w[p].kind = "round"
      BY <1>5, <2>1
    <3>2. CASE Complete(w, p)
      BY <1>5, <3>1, <3>2
    <3>3. CASE Open(w, p, waits)
      <4>0. Open(v1, p, rest)
        BY <1>9, <3>1, <3>3
      <4>1. Open(v1, p, {}) /\ p \in DOMAIN v1 /\ v1[p] = w[p]
        <5>1. Open(v1, p, {})
          BY <1>10, <4>0, Zenon
        <5>2. p \in 1..L
          BY <1>2, <3>1
        <5> QED BY <1>2, <1>7, <5>1, <5>2
      <4>2. Complete(v1, p)
        BY <1>7, <3>1, <4>1, OpenEnds
      <4>3. Len(v1) <= Len(v)
        BY <1>2, <1>6, <1>7
      <4> QED BY <1>6, <1>7, <1>8, <3>1, <4>1, <4>2, <4>3, CompleteStays
    <3> QED BY <3>1, <3>2, <3>3 DEF SentInPlace
  <2>2. SentInPlace(v, rest)
    BY <1>5, <1>10, <2>1 DEF SentInPlace
  <2> QED BY <2>2 DEF v
<1>11. CASE rest # {}
  <2>1. v = v1
    BY <1>7, <1>11 DEF v, v1
  <2>2. ASSUME NEW p \in DOMAIN v, v[p].kind = "round" PROVE Complete(v, p) \/ Open(v, p, rest)
    <3>1. p \in DOMAIN w /\ v[p] = w[p] /\ w[p].kind = "round"
      BY <1>5, <2>2
    <3>2. Complete(w, p) \/ Open(w, p, waits)
      BY <3>1 DEF SentInPlace
    <3> QED BY <1>5, <1>9, <2>1, <3>1, <3>2
  <2>3. q \in DOMAIN v /\ v[q].kind = "round" /\ Open(v, q, rest)
    BY <1>1, <1>2, <1>6, <1>9, <2>1
  <2>4. SentInPlace(v, rest)
    BY <1>5, <1>11, <2>2, <2>3 DEF SentInPlace
  <2> QED BY <2>4 DEF v
<1> QED BY <1>10, <1>11

\* The last round of a closed history, when something else than a result or a child of it
\* is next, or nothing: no call of it waits.
LEMMA NothingWaits ==
  ASSUME NEW h \in Seq(Messages), Orderly(h), Closed(h), NEW i \in 0..Len(h), NEW r \in 1..i, LastRound(h, i, r),
         i < Len(h) => h[i + 1].kind \notin {"result", "child"}
  PROVE  Waiting(h, i, r) = {}
<1>1. Len(h) \in Nat /\ DOMAIN h = 1..Len(h) /\ r \in DOMAIN h /\ h[r].kind = "round" /\ i \in Nat
  BY DEF LastRound
<1> SUFFICES ASSUME NEW c \in Waiting(h, i, r) PROVE FALSE
  OBVIOUS
<1>2. PICK k \in 1..h[r].calls : c = <<h[r].attempt, k>>
  BY DEF Waiting, Asked
<1>3. c \in ResultsOf(h)
  BY <1>1, <1>2 DEF Closed
<1>4. PICK j \in DOMAIN h : h[j].kind = "result" /\ h[j].call = c
  BY <1>3 DEF ResultsOf
<1>5. PICK p \in 1..(j - 1) : /\ h[p].kind = "round" /\ h[p].attempt = c[1]
                              /\ \A x \in p + 1 .. j : h[x].kind \in {"result", "child"}
  BY <1>4 DEF Orderly
<1>6. p \in DOMAIN h /\ c[1] = h[r].attempt
  BY <1>1, <1>2
<1>7. p = r
  BY <1>1, <1>5, <1>6 DEF Orderly
<1>8. j \in r + 1 .. i
  <2>1. ASSUME j > i PROVE FALSE
    <3>1. i + 1 \in p + 1 .. j /\ i < Len(h)
      BY <1>1, <1>7, <2>1
    <3> QED BY <1>5, <3>1
  <2> QED BY <1>1, <1>7, <2>1
<1> QED BY <1>4, <1>8 DEF Waiting

LEMMA SentNext ==
  ASSUME NEW h \in Seq(Messages), Orderly(h), Closed(h), NEW i \in 1..Len(h), NEW s, SentUpTo(h, i - 1, s)
  PROVE  SentUpTo(h, i, Sent(s, h[i]))
<1> DEFINE m == h[i]
           t == Sent(s, m)
           w == s.out
           waits == s.pending
           d == s.deferred
<1>1. /\ i \in Nat /\ i - 1 \in 0..Len(h) /\ (i - 1) + 1 = i /\ i - 1 < Len(h)
      /\ i \in DOMAIN h /\ m \in Messages /\ Len(h) \in Nat /\ DOMAIN h = 1..Len(h)
      /\ \A j \in 1..(i - 1) : j \in 1..i /\ j \in DOMAIN h /\ j # i
  OBVIOUS
<1>2. s \in SentStates /\ w \in Seq(Messages) /\ d \in Seq(Messages) /\ waits \subseteq Calls
  BY DEF SentUpTo, SentStates
<1>3. /\ SentInPlace(w, waits) /\ \A x \in DOMAIN d : d[x] = Child
      /\ waits = {} => d = <<>>
      /\ \A x \in DOMAIN w : w[x].kind = "round" => \E j \in 1..(i - 1) : w[x] = h[j]
      /\ \A r \in 1..(i - 1) : LastRound(h, i - 1, r) => waits = Waiting(h, i - 1, r)
      /\ waits # {} => \E r \in 1..(i - 1) : LastRound(h, i - 1, r)
  BY DEF SentUpTo
<1> HIDE DEF w, waits, d
<1>4. m.kind \in {"user", "child", "round", "result"} /\ (m.kind = "child" => m = Child)
  BY <1>1, MessageFields
\* what else than a result or a child comes when nothing waits
<1>5. m.kind \in {"user", "round"} => waits = {}
  <2>1. ASSUME m.kind \in {"user", "round"}, NEW r \in 1..(i - 1), LastRound(h, i - 1, r) PROVE Waiting(h, i - 1, r) = {}
    <3>1. h[(i - 1) + 1].kind \notin {"result", "child"}
      BY <1>1, <2>1
    <3> QED BY <1>1, <2>1, <3>1, NothingWaits
  <2> QED BY <1>3, <2>1
\* a result is awaited
<1>6. m.kind = "result" => m.call \in waits
  <2> SUFFICES ASSUME m.kind = "result" PROVE m.call \in waits
    OBVIOUS
  <2>1. PICK r \in 1..(i - 1) : /\ h[r].kind = "round" /\ h[r].attempt = m.call[1] /\ m.call[2] \in 1..h[r].calls
                                /\ \A x \in r + 1 .. i : h[x].kind \in {"result", "child"}
    BY <1>1 DEF Orderly
  <2>2. \A x \in r + 1 .. i - 1 : x \in r + 1 .. i /\ x \in DOMAIN h /\ x # i
    BY <1>1
  <2>3. LastRound(h, i - 1, r)
    BY <2>1, <2>2 DEF LastRound
  <2>4. m.call \in Asked(h[r])
    <3>1. m.call \in Calls
      BY <1>1, MessageFields
    <3>2. m.call = <<m.call[1], m.call[2]>>
      BY <3>1 DEF Calls
    <3> QED BY <2>1, <3>2 DEF Asked
  <2>5. \A x \in r + 1 .. i - 1 : h[x].kind = "result" => h[x].call # m.call
    BY <1>1, <2>2 DEF Orderly
  <2>6. m.call \in Waiting(h, i - 1, r)
    BY <2>4, <2>5 DEF Waiting
  <2> QED BY <1>3, <2>3, <2>6
<1> DEFINE kept == m.kind = "child" /\ waits # {}
           left == CASE m.kind = "round" -> waits \cup Asked(m)
                     [] m.kind = "result" -> waits \ {m.call}
                     [] OTHER -> waits
\* the last round of the history is the one that is open
<1>7. /\ \A r \in 1..i : LastRound(h, i, r) => left = Waiting(h, i, r)
      /\ left # {} => \E r \in 1..i : LastRound(h, i, r)
  <2>1. CASE m.kind = "round"
    <3>1. left = Asked(m)
      BY <1>5, <2>1
    <3>2. LastRound(h, i, i)
      BY <1>1, <2>1 DEF LastRound
    <3>3. ASSUME NEW r \in 1..i, LastRound(h, i, r) PROVE r = i
      <4>1. r # i => i \in r + 1 .. i
        BY <1>1
      <4> QED BY <2>1, <3>3, <4>1 DEF LastRound
    <3>4. Waiting(h, i, i) = Asked(m)
      <4>1. i + 1 .. i = {}
        BY <1>1
      <4> QED BY <4>1 DEF Waiting
    <3>5. i \in 1..i
      BY <1>1
    <3> QED BY <3>1, <3>2, <3>3, <3>4, <3>5
  <2>2. CASE m.kind = "user"
    <3>1. left = {}
      BY <1>5, <2>2
    <3>2. ASSUME NEW r \in 1..i, LastRound(h, i, r) PROVE FALSE
      <4>1. r # i
        BY <2>2, <3>2 DEF LastRound
      <4>2. i \in r + 1 .. i
        BY <1>1, <4>1
      <4> QED BY <2>2, <3>2, <4>2 DEF LastRound
    <3> QED BY <3>1, <3>2
  <2>3. CASE m.kind \in {"result", "child"}
    <3>1. ASSUME NEW r \in 1..i, LastRound(h, i, r) PROVE r \in 1..(i - 1) /\ LastRound(h, i - 1, r) /\ left = Waiting(h, i, r)
      <4>1. r # i
        BY <2>3, <3>1 DEF LastRound
      <4>2. r \in 1..(i - 1) /\ \A x \in r + 1 .. i : x = i \/ x \in r + 1 .. i - 1
        BY <1>1, <4>1
      <4>3. \A x \in r + 1 .. i - 1 : x \in r + 1 .. i
        BY <1>1
      <4>4. i \in r + 1 .. i
        BY <1>1, <4>2
      <4>5. LastRound(h, i - 1, r)
        BY <3>1, <4>3 DEF LastRound
      <4>6. waits = Waiting(h, i - 1, r)
        BY <1>3, <4>2, <4>5
      <4>7. Waiting(h, i, r) = IF m.kind = "result" THEN Waiting(h, i - 1, r) \ {m.call} ELSE Waiting(h, i - 1, r)
        BY <4>2, <4>3, <4>4 DEF Waiting
      <4>8. left = IF m.kind = "result" THEN waits \ {m.call} ELSE waits
        BY <2>3
      <4> HIDE DEF left
      <4> QED BY <4>2, <4>5, <4>6, <4>7, <4>8
    <3>2. ASSUME left # {} PROVE \E r \in 1..i : LastRound(h, i, r)
      <4>1. waits # {}
        BY <2>3, <3>2
      <4>2. PICK r \in 1..(i - 1) : LastRound(h, i - 1, r)
        BY <1>3, <4>1
      <4>3. r \in 1..i /\ \A x \in r + 1 .. i : x = i \/ x \in r + 1 .. i - 1
        BY <1>1
      <4>4. LastRound(h, i, r)
        BY <2>3, <4>2, <4>3 DEF LastRound
      <4> QED BY <4>3, <4>4
    <3> QED BY <3>1, <3>2
  <2> QED BY <1>4, <2>1, <2>2, <2>3
<1>8. /\ t \in SentStates
      /\ kept => t.out = w /\ t.pending = waits /\ t.deferred = Append(d, m)
      /\ ~kept => /\ t.pending = left
                  /\ left # {} => t.out = Append(w, m) /\ t.deferred = d
                  /\ left = {} => t.out = Append(w, m) \o d /\ t.deferred = <<>>
  <2>1. /\ Sent(s, m) \in SentStates
        /\ m.kind = "child" /\ s.pending # {} =>
             /\ Sent(s, m).out = s.out /\ Sent(s, m).pending = s.pending
             /\ Sent(s, m).deferred = Append(s.deferred, m)
        /\ m.kind # "child" \/ s.pending = {} =>
             /\ Sent(s, m).pending = CASE m.kind = "round" -> s.pending \cup Asked(m)
                                       [] m.kind = "result" -> s.pending \ {m.call}
                                       [] OTHER -> s.pending
             /\ Sent(s, m).pending # {} => /\ Sent(s, m).out = Append(s.out, m)
                                           /\ Sent(s, m).deferred = s.deferred
             /\ Sent(s, m).pending = {} => /\ Sent(s, m).out = Append(s.out, m) \o s.deferred
                                           /\ Sent(s, m).deferred = <<>>
    <3> HIDE DEF m
    <3> QED BY <1>1, <1>2, SentOne
  <2> HIDE DEF t, m
  <2>2. /\ t \in SentStates
        /\ m.kind = "child" /\ waits # {} =>
             /\ t.out = w /\ t.pending = waits /\ t.deferred = Append(d, m)
        /\ m.kind # "child" \/ waits = {} =>
             /\ t.pending = left
             /\ t.pending # {} => t.out = Append(w, m) /\ t.deferred = d
             /\ t.pending = {} => t.out = Append(w, m) \o d /\ t.deferred = <<>>
    BY <2>1 DEF t, w, waits, d
  <2> HIDE DEF left
  <2> QED BY <2>2
<1>9. kept => left = waits
  BY <1>4
<1>10. \A x \in DOMAIN t.deferred : t.deferred[x] = Child
  <2>1. CASE kept
    <3>1. Append(d, m) \in Seq(Messages) /\ DOMAIN Append(d, m) = 1..(Len(d) + 1) /\ Append(d, m)[Len(d) + 1] = m
          /\ DOMAIN d = 1..Len(d) /\ \A x \in 1..Len(d) : Append(d, m)[x] = d[x]
      BY <1>1, <1>2
    <3>2. m = Child
      BY <1>4, <2>1
    <3> DEFINE e == Append(d, m)
    <3>3. t.deferred = e
      BY <1>8, <2>1
    <3> HIDE DEF e, t, m
    <3>4. \A x \in DOMAIN e : x \in 1..Len(d) \/ x = Len(d) + 1
      BY <3>1, <1>2 DEF e
    <3>5. \A x \in DOMAIN e : e[x] = Child
      BY <1>3, <3>1, <3>2, <3>4 DEF e
    <3> QED BY <3>3, <3>5
  <2>2. CASE ~kept
    <3> HIDE DEF t, kept, left
    <3>1. t.deferred = d \/ t.deferred = <<>>
      BY <1>8, <2>2
    <3>2. \A x \in DOMAIN <<>> : <<>>[x] = Child
      OBVIOUS
    <3> QED BY <1>3, <3>1, <3>2
  <2> QED BY <2>1, <2>2
<1>11. t.pending = left
  BY <1>8, <1>9
<1>12. \A x \in DOMAIN w : w[x].kind = "round" => \E j \in 1..i : w[x] = h[j]
  BY <1>1, <1>3
<1>13. m.kind = "round" => \A x \in DOMAIN w : w[x].kind = "round" => w[x].attempt # m.attempt
  <2> SUFFICES ASSUME m.kind = "round", NEW x \in DOMAIN w, w[x].kind = "round", w[x].attempt = m.attempt PROVE FALSE
    OBVIOUS
  <2>1. PICK j \in 1..(i - 1) : w[x] = h[j]
    BY <1>3
  <2>2. j \in DOMAIN h /\ j # i
    BY <1>1
  <2> QED BY <1>1, <2>1, <2>2 DEF Orderly
<1> HIDE DEF t, m
\* what is sent is in place
<1> DEFINE e == IF left = {} THEN d ELSE <<>>
<1>14. ~kept => t.out = Append(w, m) \o e /\ e \in Seq(Messages) /\ (e = <<>> \/ left = {}) /\ \A x \in DOMAIN e : e[x] = Child
  <2> HIDE DEF left, kept
  <2>1. Append(w, m) \in Seq(Messages)
    BY <1>1, <1>2
  <2>2. Append(w, m) \o <<>> = Append(w, m) /\ <<>> \in Seq(Messages) /\ \A x \in DOMAIN <<>> : <<>>[x] = Child
    BY <2>1
  <2>3. CASE left = {}
    BY <1>2, <1>3, <1>8, <2>3
  <2>4. CASE left # {}
    <3>1. e = <<>>
      BY <2>4
    <3> QED BY <1>8, <2>2, <2>4, <3>1
  <2> QED BY <2>3, <2>4
<1>15. SentInPlace(t.out, left)
  <2>1. CASE kept
    <3>1. t.out = w /\ left = waits
      BY <1>8, <1>9, <2>1
    <3> QED BY <1>3, <3>1
  <2>2. CASE m.kind = "round"
    <3>1. waits = {} /\ left = Asked(m) /\ ~kept
      BY <1>5, <2>2
    <3>2. d = <<>>
      BY <1>3, <3>1
    <3>3. e = <<>>
      BY <3>2
    <3>4. t.out = Append(w, m)
      <4>1. Append(w, m) \in Seq(Messages)
        BY <1>1, <1>2
      <4>2. Append(w, m) \o <<>> = Append(w, m)
        BY <4>1
      <4>3. t.out = Append(w, m) \o e
        BY <1>14, <3>1
      <4> HIDE DEF e
      <4> QED BY <3>3, <4>2, <4>3
    <3>5. SentInPlace(w, {})
      BY <1>3, <3>1
    <3>6. SentInPlace(Append(w, m), Asked(m))
      BY <1>1, <1>2, <1>13, <2>2, <3>5, InPlaceRound
    <3> QED BY <3>1, <3>4, <3>6
  <2>3. CASE m.kind = "result"
    <3>1. left = waits \ {m.call} /\ ~kept
      BY <2>3
    <3> HIDE DEF left, e
    <3>2. SentInPlace(Append(w, m) \o e, waits \ {m.call})
      <4>1. /\ e \in Seq(Messages) /\ \A x \in DOMAIN e : e[x] = Child
            /\ e = <<>> \/ waits \ {m.call} = {}
        BY <1>14, <3>1
      <4> QED BY <1>1, <1>2, <1>3, <1>6, <2>3, <4>1, InPlaceResult
    <3> QED BY <1>14, <3>1, <3>2
  <2>4. CASE ~kept /\ m.kind \in {"user", "child"}
    <3>1. waits = {} /\ left = {} /\ m.kind \notin {"round", "result"}
      BY <1>5, <2>4
    <3> HIDE DEF left, e, kept
    <3>2. SentInPlace(Append(w, m) \o e, {})
      <4>1. SentInPlace(w, {})
        BY <1>3, <3>1
      <4>2. e \in Seq(Messages) /\ \A x \in DOMAIN e : e[x] = Child
        BY <1>14, <2>4
      <4> QED BY <1>1, <1>2, <3>1, <4>1, <4>2, InPlacePlain
    <3> QED BY <1>14, <2>4, <3>1, <3>2
  <2> QED BY <1>4, <2>1, <2>2, <2>3, <2>4
<1>16. left = {} => t.deferred = <<>>
  BY <1>8, <1>9
<1>17. \A x \in DOMAIN t.out : t.out[x].kind = "round" => \E j \in 1..i : t.out[x] = h[j]
  <2>1. CASE kept
    <3>1. t.out = w
      BY <1>8, <2>1
    <3> QED BY <1>12, <3>1
  <2>2. CASE ~kept
    <3> DEFINE v == Append(w, m) \o e
    <3> HIDE DEF e, left, kept
    <3>1. /\ DOMAIN w = 1..Len(w)
          /\ \A x \in 1..Len(w) : v[x] = w[x]
          /\ v[Len(w) + 1] = m
          /\ \A x \in DOMAIN v : x \in 1..Len(w) \/ x = Len(w) + 1 \/ v[x] = Child
      <4>1. e \in Seq(Messages) /\ \A x \in DOMAIN e : e[x] = Child
        BY <1>14, <2>2
      <4>2. /\ v \in Seq(Messages) /\ Len(w) \in Nat /\ Len(e) \in Nat /\ Len(v) = Len(w) + 1 + Len(e)
            /\ DOMAIN v = 1..Len(v) /\ DOMAIN w = 1..Len(w) /\ Len(w) + 1 \in DOMAIN v
            /\ \A x \in 1..Len(w) : v[x] = w[x] /\ x \in DOMAIN v
            /\ v[Len(w) + 1] = m
            /\ \A x \in DOMAIN v : x \in 1..Len(w) \/ x = Len(w) + 1 \/ v[x] = Child
        BY <1>1, <1>2, <4>1, Extended, SMTT(30)
      <4> HIDE DEF v
      <4> QED BY <4>2
    <3>2. t.out = v
      BY <1>14, <2>2
    <3> HIDE DEF v
    <3>3. i \in 1..i /\ m = h[i]
      BY <1>1 DEF m
    <3>4. ASSUME NEW x \in DOMAIN v, v[x].kind = "round" PROVE \E j \in 1..i : v[x] = h[j]
      <4>1. CASE x \in 1..Len(w)
        <5>1. v[x] = w[x] /\ x \in DOMAIN w
          BY <3>1, <4>1
        <5> QED BY <1>12, <3>4, <5>1
      <4>2. CASE x = Len(w) + 1
        <5>1. v[x] = h[i]
          BY <3>1, <3>3, <4>2
        <5> QED BY <3>3, <5>1
      <4>3. CASE v[x] = Child
        BY <3>4, <4>3, MessageTypes
      <4> QED BY <3>1, <4>1, <4>2, <4>3
    <3> QED BY <3>2, <3>4
  <2> QED BY <2>1, <2>2
<1> HIDE DEF left, e, kept
<1>18. SentUpTo(h, i, t)
  BY <1>7, <1>8, <1>10, <1>11, <1>15, <1>16, <1>17 DEF SentUpTo
<1> QED BY <1>18 DEF t, m

\* A message of the model accepts what is in place.
LEMMA ApiIsAccepted ==
  ASSUME NEW h \in Seq(Messages), Orderly(h), Closed(h)
  PROVE  Accepted(ApiMessages(h))
<1> DEFINE Base == [out |-> <<>>, pending |-> {}, deferred |-> <<>>]
           N == Len(h)
<1>1. PICK u : /\ u[0] = Base /\ ApiMessages(h) = u[N].out \o u[N].deferred
               /\ \A i \in 1..N : u[i] = Sent(u[i - 1], h[i])
  BY SentFollows, Zenon
<1> DEFINE T == {i \in 0..N : SentUpTo(h, i, u[i])}
<1>2. N \in Nat /\ 0 \in 0..N /\ N \in 0..N
  OBVIOUS
<1>3. SentUpTo(h, 0, Base)
  <2>1. <<>> \in Seq(Messages) /\ DOMAIN <<>> = {} /\ 1..0 = {}
    OBVIOUS
  <2>2. SentInPlace(<<>>, {})
    BY <2>1 DEF SentInPlace
  <2>3. Base \in SentStates
    BY <2>1 DEF SentStates
  <2>4. Base.out = <<>> /\ Base.pending = {} /\ Base.deferred = <<>>
    OBVIOUS
  <2> HIDE DEF Base
  <2> QED BY <2>1, <2>2, <2>3, <2>4 DEF SentUpTo
<1>4. ASSUME NEW i \in 1..N, i - 1 \in T PROVE i \in T
  <2>1. SentUpTo(h, i - 1, u[i - 1])
    BY <1>4
  <2>2. SentUpTo(h, i, Sent(u[i - 1], h[i]))
    BY <2>1, SentNext
  <2>3. u[i] = Sent(u[i - 1], h[i])
    BY <1>1, Zenon
  <2>4. i \in 0..N
    BY <1>2
  <2> QED BY <2>2, <2>3, <2>4
<1>5. 0 \in T
  BY <1>1, <1>2, <1>3
<1>6. SentUpTo(h, N, u[N])
  <2>1. N \in T
    <3> HIDE DEF T
    <3> QED BY <1>2, <1>4, <1>5, Induction
  <2> QED BY <2>1
<1> DEFINE w == u[N].out
<1>7. u[N].pending = {}
  <2>1. ASSUME NEW r \in 1..N, LastRound(h, N, r) PROVE u[N].pending = {}
    <3>1. Waiting(h, N, r) = {}
      BY <1>2, <2>1, NothingWaits
    <3> QED BY <1>6, <2>1, <3>1 DEF SentUpTo
  <2> QED BY <1>6, <2>1 DEF SentUpTo
<1>8. ApiMessages(h) = w
  <2>1. u[N].deferred = <<>> /\ w \in Seq(Messages)
    BY <1>6, <1>7 DEF SentUpTo, SentStates
  <2> QED BY <1>1, <2>1
<1>9. w \in Seq(Messages) /\ SentInPlace(w, {})
  BY <1>6, <1>7 DEF SentUpTo, SentStates
<1> HIDE DEF w
<1>10. Len(w) \in Nat /\ DOMAIN w = 1..Len(w) /\ \A x \in DOMAIN w : w[x] \in Messages
  BY <1>9
<1>11. ASSUME NEW p \in DOMAIN w, w[p].kind = "round"
       PROVE  /\ p + w[p].calls <= Len(w)
              /\ {w[p + k] : k \in 1..w[p].calls}
                   \subseteq [kind : {"result"}, call : {w[p].attempt} \X (1..w[p].calls), says : {"outcome", "unknown"}]
              /\ \A k \in 1..w[p].calls : \E j \in 1..w[p].calls : w[p + j].call = <<w[p].attempt, k>>
  <2> DEFINE n == w[p].calls
             a == w[p].attempt
  <2>1. Complete(w, p)
    BY <1>9, <1>11 DEF SentInPlace
  <2>2. n \in Nat /\ p \in 1..Len(w)
    BY <1>10, <1>11, MessageFields, TurnsAssumption
  <2>3. /\ p + n <= Len(w)
        /\ \A x \in p + 1 .. p + n : w[x].kind = "result" /\ w[x].call[1] = a /\ w[x].call[2] \in 1..n
        /\ \A k \in 1..n : \E x \in p + 1 .. p + n : w[x].call = <<a, k>>
    BY <2>1 DEF Complete, Block
  <2> HIDE DEF n, a
  <2>4. ASSUME NEW k \in 1..n
        PROVE  w[p + k] \in [kind : {"result"}, call : {a} \X (1..n), says : {"outcome", "unknown"}]
    <3>1. p + k \in p + 1 .. p + n /\ p + k \in DOMAIN w
      BY <1>10, <2>2, <2>3
    <3>2. w[p + k] \in Messages /\ w[p + k].kind = "result" /\ w[p + k].call[1] = a /\ w[p + k].call[2] \in 1..n
      BY <1>10, <2>3, <3>1
    <3> DEFINE x == w[p + k]
    <3>3. x.call \in Calls /\ x.says \in {"outcome", "unknown"} /\ x = Result(x.call, x.says)
      BY <3>2, MessageFields
    <3> HIDE DEF x
    <3>4. x.call = <<x.call[1], x.call[2]>>
      BY <3>3 DEF Calls
    <3>5. x.call \in {a} \X (1..n)
      BY <3>2, <3>4 DEF x
    <3>6. x \in [kind : {"result"}, call : {a} \X (1..n), says : {"outcome", "unknown"}]
      BY <3>3, <3>5 DEF Result
    <3> QED BY <3>6 DEF x
  <2>5. ASSUME NEW k \in 1..n PROVE \E j \in 1..n : w[p + j].call = <<a, k>>
    <3>1. PICK x \in p + 1 .. p + n : w[x].call = <<a, k>>
      BY <2>3
    <3>2. x - p \in 1..n /\ p + (x - p) = x
      BY <2>2
    <3> QED BY <3>1, <3>2
  <2> QED BY <2>3, <2>4, <2>5 DEF n, a
<1>12. ASSUME NEW x \in DOMAIN w, w[x].kind = "result"
       PROVE  \E j \in 1..(x - 1) : w[j].kind = "round" /\ w[j].attempt = w[x].call[1] /\ x <= j + w[j].calls
  BY <1>9, <1>12 DEF SentInPlace
<1>13. \A x, y \in DOMAIN w : w[x].kind = "round" /\ w[y].kind = "round" /\ x # y => w[x].attempt # w[y].attempt
  BY <1>9 DEF SentInPlace
<1>14. Accepted(w)
  <2>1. \A p \in DOMAIN w : w[p].kind = "round" =>
              /\ p + w[p].calls <= Len(w)
              /\ {w[p + k] : k \in 1..w[p].calls}
                   \subseteq [kind : {"result"}, call : {w[p].attempt} \X (1..w[p].calls), says : {"outcome", "unknown"}]
              /\ \A k \in 1..w[p].calls : \E j \in 1..w[p].calls : w[p + j].call = <<w[p].attempt, k>>
    BY <1>11, Zenon
  <2>2. \A x \in DOMAIN w : w[x].kind = "result" =>
          \E j \in 1..(x - 1) : w[j].kind = "round" /\ w[j].attempt = w[x].call[1] /\ x <= j + w[j].calls
    BY <1>12, Zenon
  <2> QED BY <1>13, <2>1, <2>2, Zenon DEF Accepted
<1> QED BY <1>8, <1>14

-----------------------------------------------------------------------------
(* The invariant of the rounds of a run. *)

\* The ledger knows the rounds of the history, and nothing that was dropped comes back.
LedgerInv ==
  /\ RoundsOf(history) \subseteq committed
  /\ committed \subseteq RoundsOf(history) \cup dropped
  /\ dropped \cap RoundsOf(history) = {}
  /\ \A a \in committed \cup dropped : attempt[a].status # "none"
  /\ \A a \in dropped : ~Recoverable(a) /\ a # turn.attempt
  /\ \A a \in Attempts : attempt[a].text => attempt[a].status # "none"

\* What a run acts on.
TurnInv ==
  /\ At("idle") => turn.attempt = 0 /\ \A a \in Attempts : ~Recoverable(a)
  /\ turn.shown \/ turn.at \in {"model", "answered", "refused", "tools", "executing", "returned"} => turn.attempt # 0
  /\ turn.attempt # 0 => Current.status # "none"
  /\ turn.at \in {"model", "answered", "refused"} => turn.attempt \notin committed

\* A round whose calls are executed: those below todo have their results.
Midway(h, a, n, todo) ==
  /\ todo \in 1..n
  /\ \E p \in DOMAIN h : h[p] = Round(a, n) /\ Follows(h, p)
  /\ \A m \in Range(h) : m.kind = "round" /\ m.attempt # a => \A k \in 1..m.calls : <<m.attempt, k>> \in ResultsOf(h)
  /\ \A k \in 1..n : <<a, k>> \in ResultsOf(h) <=> k < todo

HistoryInv ==
  /\ Orderly(history)
  /\ turn.at \in {"ready", "waiting", "paused", "model", "answered", "refused"} => Closed(history)
  /\ turn.at \in {"tools", "executing", "returned"} => Midway(history, turn.attempt, Current.calls, turn.todo)

\* A receipt is one of a call that a round of the history has proposed, and what is known of
\* a call that has completed is never that nothing is.
ReceiptInv ==
  \A c \in Calls : receipt[c] # "none" =>
    /\ c[1] \in committed
    /\ \A m \in Range(history) :
         /\ m.kind = "round" /\ m.attempt = c[1] => c[2] \in 1..m.calls
         /\ receipt[c] = "completed" /\ m.kind = "result" /\ m.call = c => m.says = "outcome"

TurnsInv == TurnsTypeOK /\ LedgerInv /\ TurnInv /\ HistoryInv /\ ReceiptInv

LEMMA ClosedAppended ==
  ASSUME NEW h \in Seq(Messages), Closed(h), NEW m \in Messages, m.kind = "round" => m.calls = 0
  PROVE  Closed(Append(h, m))
<1> DEFINE g == Append(h, m)
<1>1. /\ g \in Seq(Messages) /\ Len(h) \in Nat /\ DOMAIN h = 1..Len(h) /\ DOMAIN g = 1..(Len(h) + 1)
      /\ g[Len(h) + 1] = m /\ \A i \in 1..Len(h) : g[i] = h[i]
  BY Appended
<1>2. ResultsOf(h) \subseteq ResultsOf(g)
  BY ContentsAppended
<1> HIDE DEF g
<1>3. ASSUME NEW i \in DOMAIN g, g[i].kind = "round", NEW k \in 1..g[i].calls PROVE <<g[i].attempt, k>> \in ResultsOf(g)
  <2>1. i = Len(h) + 1 => 1..g[i].calls = {}
    BY <1>1, <1>3
  <2>2. i \in DOMAIN h /\ g[i] = h[i]
    BY <1>1, <1>3, <2>1
  <2> QED BY <1>2, <1>3, <2>2 DEF Closed
<1>4. Closed(g)
  BY <1>3 DEF Closed
<1> QED BY <1>4 DEF g

LEMMA MidwayChild ==
  ASSUME NEW h \in Seq(Messages), NEW a, NEW n, NEW todo, Midway(h, a, n, todo)
  PROVE  Midway(Append(h, Child), a, n, todo)
<1> DEFINE g == Append(h, Child)
<1>1. PICK p \in DOMAIN h : h[p] = Round(a, n) /\ Follows(h, p)
  BY DEF Midway
<1>2. /\ DOMAIN h = 1..Len(h) /\ DOMAIN g = 1..(Len(h) + 1) /\ Len(h) \in Nat /\ \A i \in 1..Len(h) : g[i] = h[i]
      /\ Range(g) = Range(h) \cup {Child}
  BY MessageTypes, Appended
<1>3. Follows(g, p)
  BY <1>1, MessageTypes, FollowsAppended
<1>4. ResultsOf(g) = ResultsOf(h)
  BY MessageTypes, ContentsAppended
<1> HIDE DEF g
<1>5. p \in DOMAIN g /\ g[p] = Round(a, n)
  BY <1>1, <1>2
<1>6. \A m \in Range(g) : m.kind = "round" => m \in Range(h)
  BY <1>2, MessageTypes
<1>7. Midway(g, a, n, todo)
  BY <1>3, <1>4, <1>5, <1>6 DEF Midway
<1> QED BY <1>7 DEF g

LEMMA MidwayBegins ==
  ASSUME NEW h \in Seq(Messages), Orderly(h), Closed(h), NEW a \in Attempts, a \notin RoundsOf(h), NEW n \in 1..MaxCalls
  PROVE  Orderly(Append(h, Round(a, n))) /\ Midway(Append(h, Round(a, n)), a, n, 1)
<1> DEFINE m == Round(a, n)
           g == Append(h, m)
<1>1. m \in Messages /\ m.kind = "round" /\ m.attempt = a /\ m.calls = n
  BY MessageTypes, TurnsAssumption
<1> HIDE DEF m
<1>2. Orderly(g)
  BY <1>1, OrderlyAppended
<1>3. Follows(g, Len(h) + 1) /\ ResultsOf(g) = ResultsOf(h)
  BY <1>1, FollowsAppended, ContentsAppended
<1>4. Len(h) + 1 \in DOMAIN g /\ g[Len(h) + 1] = m /\ Range(g) = Range(h) \cup {m}
  <2>1. /\ Len(h) \in Nat /\ DOMAIN g = 1..(Len(h) + 1) /\ g[Len(h) + 1] = m /\ Range(g) = Range(h) \cup {m}
    BY <1>1, Appended
  <2> HIDE DEF g
  <2> QED BY <2>1
<1> HIDE DEF g
<1>5. \A k : <<a, k>> \notin ResultsOf(h)
  <2> SUFFICES ASSUME NEW k, <<a, k>> \in ResultsOf(h) PROVE FALSE
    OBVIOUS
  <2>1. PICK j \in DOMAIN h : h[j].kind = "result" /\ h[j].call = <<a, k>>
    BY DEF ResultsOf
  <2>2. PICK i \in 1..(j - 1) : h[i].kind = "round" /\ h[i].attempt = h[j].call[1]
    BY <2>1 DEF Orderly
  <2>3. i \in DOMAIN h /\ h[i].attempt = a
    BY <2>1, <2>2
  <2> QED BY <2>2, <2>3 DEF RoundsOf
<1>6. ASSUME NEW x \in Range(g), x.kind = "round", x.attempt # a, NEW k \in 1..x.calls
      PROVE  <<x.attempt, k>> \in ResultsOf(g)
  <2>1. x \in Range(h)
    BY <1>1, <1>4, <1>6
  <2>2. PICK i \in DOMAIN h : x = h[i]
    BY <2>1, Contents
  <2> QED BY <1>3, <1>6, <2>2 DEF Closed
<1>7. 1 \in 1..n /\ \A k \in 1..n : ~(k < 1)
  OBVIOUS
<1>8. Midway(g, a, n, 1)
  BY <1>3, <1>4, <1>5, <1>6, <1>7 DEF Midway, m
<1> QED BY <1>2, <1>8 DEF g, m

LEMMA MidwayReturns ==
  ASSUME NEW h \in Seq(Messages), Orderly(h), NEW a \in Attempts, NEW n \in 0..MaxCalls, NEW todo, Midway(h, a, n, todo)
  PROVE  LET g == Append(h, Result(<<a, todo>>, "outcome")) IN
           /\ Orderly(g)
           /\ todo < n => Midway(g, a, n, todo + 1)
           /\ todo >= n => Closed(g)
<1> DEFINE m == Result(<<a, todo>>, "outcome")
           g == Append(h, m)
<1>1. todo \in 1..n /\ n \in Nat /\ todo \in Nat
  BY TurnsAssumption DEF Midway
<1>2. <<a, todo>> \in Calls
  BY <1>1, TurnsAssumption DEF Calls
<1>3. m \in Messages /\ m.kind = "result" /\ m.call = <<a, todo>>
  BY <1>2, MessageTypes
<1> HIDE DEF m
<1>4. PICK p \in DOMAIN h : h[p] = Round(a, n) /\ Follows(h, p)
  BY DEF Midway
<1>5. h[p].kind = "round" /\ h[p].attempt = a /\ h[p].calls = n
  BY <1>4, MessageTypes
<1>6. m.call \notin ResultsOf(h)
  BY <1>1, <1>3 DEF Midway
<1>7. Orderly(g)
  <2>1. m.call[1] = a /\ m.call[2] = todo
    BY <1>3
  <2> QED BY <1>1, <1>3, <1>4, <1>5, <1>6, <2>1, OrderlyAppended
<1>8. Follows(g, p)
  BY <1>3, <1>4, FollowsAppended
<1>9. ResultsOf(g) = ResultsOf(h) \cup {<<a, todo>>}
  BY <1>3, ContentsAppended
<1>10. /\ g \in Seq(Messages) /\ Len(h) \in Nat /\ DOMAIN h = 1..Len(h) /\ DOMAIN g = 1..(Len(h) + 1)
       /\ \A i \in 1..Len(h) : g[i] = h[i] /\ Range(g) = Range(h) \cup {m}
  BY <1>3, Appended
<1> HIDE DEF g
<1>11. p \in DOMAIN g /\ g[p] = Round(a, n)
  BY <1>4, <1>10
<1>12. \A x \in Range(g) : x.kind = "round" => x \in Range(h)
  BY <1>3, <1>4, <1>10
<1>13. \A x \in Range(g) : x.kind = "round" /\ x.attempt # a => \A k \in 1..x.calls : <<x.attempt, k>> \in ResultsOf(g)
  BY <1>9, <1>12 DEF Midway
<1>14. \A k \in 1..n : <<a, k>> \in ResultsOf(g) <=> k < todo + 1
  <2> TAKE k \in 1..n
  <2>1. <<a, k>> = <<a, todo>> <=> k = todo
    OBVIOUS
  <2>2. <<a, k>> \in ResultsOf(h) <=> k < todo
    BY DEF Midway
  <2> QED BY <1>1, <1>9, <2>1, <2>2
<1>15. todo < n => Midway(g, a, n, todo + 1)
  BY <1>1, <1>8, <1>11, <1>13, <1>14 DEF Midway
<1>16. ASSUME todo >= n PROVE Closed(g)
  <2> SUFFICES ASSUME NEW i \in DOMAIN g, g[i].kind = "round", NEW k \in 1..g[i].calls PROVE <<g[i].attempt, k>> \in ResultsOf(g)
    BY DEF Closed
  <2>1. g[i] \in Range(g)
    BY DEF Range
  <2>2. CASE g[i].attempt # a
    BY <1>13, <2>1, <2>2
  <2>3. CASE g[i].attempt = a
    <3>1. i = p
      BY <1>5, <1>7, <1>11, <2>3, MessageTypes DEF Orderly
    <3>2. k \in 1..n /\ k < todo + 1
      BY <1>1, <1>11, <1>16, <3>1, MessageTypes
    <3> QED BY <1>14, <2>3, <3>2
  <2> QED BY <2>2, <2>3
<1> QED BY <1>7, <1>15, <1>16 DEF g, m

-----------------------------------------------------------------------------
LEMMA TurnsTypes ==
  ASSUME TurnsTypeOK
  PROVE  /\ history \in Seq(Messages) /\ AttemptsTyped /\ committed \subseteq Attempts /\ dropped \subseteq Attempts
         /\ receipt \in [Calls -> {"none", "executing", "completed"}]
         /\ turn.at \in Places /\ turn.attempt \in {0} \cup Attempts /\ turn.todo \in 0..MaxCalls
         /\ turn.repeats \in 0..StallRounds /\ turn.shown \in BOOLEAN /\ turn.aborting \in BOOLEAN
         /\ used \in [runs : 0..MaxRuns, incidents : 0..MaxIncidents]
         /\ MaxAttempts \in Nat /\ MaxCalls \in Nat /\ StallRounds \in Nat \ {0}
         /\ \A a \in Attempts : /\ a # 0 /\ attempt[a].calls \in 0..MaxCalls /\ attempt[a].text \in BOOLEAN
                                /\ attempt[a].status \in {"none", "streaming", "failed", "incomplete", "completed", "invalid"}
<1>1. MaxAttempts \in Nat /\ MaxCalls \in Nat /\ StallRounds \in Nat \ {0}
  BY TurnsAssumption
<1>2. \A a \in Attempts : a # 0
  BY <1>1 DEF Attempts
<1> QED BY <1>1, <1>2 DEF TurnsTypeOK, AttemptsTyped

\* What a step adds to the history is new to it, and says what is known.
Grown(h) ==
  /\ h \in Seq(Messages) /\ Orderly(h) /\ Range(history) \subseteq Range(h)
  /\ \A m \in Range(h) : m \in Range(history) \/
       /\ m.kind = "round" => m.attempt \notin committed /\ m.attempt \notin dropped /\ attempt[m.attempt].status # "none"
       /\ m.kind = "result" /\ receipt[m.call] = "completed" => m.says = "outcome"

LEMMA GrownSaves ==
  ASSUME TurnsInv, NEW h, Grown(h), Save(h), attempt' = attempt, dropped' = dropped, turn'.attempt \in {0, turn.attempt}
  PROVE  LedgerInv' /\ (receipt' = receipt => ReceiptInv') /\ Orderly(history)'
<1>1. /\ history \in Seq(Messages) /\ committed \subseteq Attempts /\ dropped \subseteq Attempts /\ \A a \in Attempts : a # 0
      /\ LedgerInv /\ ReceiptInv
  BY TurnsTypes DEF TurnsInv
<1>2. h \in Seq(Messages) /\ history' = h /\ committed' = committed \cup RoundsOf(h)
  BY DEF Grown, Save
<1>3. \A a : a \in RoundsOf(history) <=> \E m \in Range(history) : m.kind = "round" /\ m.attempt = a
  BY <1>1, Contents
<1>4. \A a : a \in RoundsOf(h) <=> \E m \in Range(h) : m.kind = "round" /\ m.attempt = a
  BY <1>2, Contents
<1>5. RoundsOf(history) \subseteq RoundsOf(h)
  BY <1>3, <1>4 DEF Grown
<1>6. \A a \in RoundsOf(h) : a \in RoundsOf(history) \/ (a \notin dropped /\ attempt[a].status # "none")
  BY <1>3, <1>4 DEF Grown
<1>7. LedgerInv'
  <2>1. RoundsOf(h) \subseteq committed' /\ committed' \subseteq RoundsOf(h) \cup dropped /\ dropped \cap RoundsOf(h) = {}
    BY <1>1, <1>2, <1>5, <1>6 DEF LedgerInv
  <2>2. \A a \in committed' \cup dropped : attempt[a].status # "none"
    BY <1>1, <1>2, <1>5, <1>6 DEF LedgerInv
  <2>3. \A a \in dropped : ~Recoverable(a)'  /\ a # turn'.attempt
    BY <1>1, <1>2 DEF LedgerInv, Recoverable
  <2>4. \A a \in Attempts : attempt[a].text => attempt[a].status # "none"
    BY <1>1 DEF LedgerInv
  <2> QED BY <1>2, <2>1, <2>2, <2>3, <2>4 DEF LedgerInv
<1>8. ASSUME receipt' = receipt PROVE ReceiptInv'
  <2>1. ASSUME NEW c \in Calls, receipt[c] # "none" PROVE c[1] \in committed
    BY <1>1, <2>1 DEF ReceiptInv
  <2>2. ASSUME NEW c \in Calls, receipt[c] # "none", NEW m \in Range(h), m.kind = "round", m.attempt = c[1]
        PROVE  c[2] \in 1..m.calls
    <3>1. m \in Range(history)
      BY <2>1, <2>2 DEF Grown
    <3> QED BY <1>1, <2>2, <3>1 DEF ReceiptInv
  <2>3. ASSUME NEW c \in Calls, receipt[c] = "completed", NEW m \in Range(h), m.kind = "result", m.call = c
        PROVE  m.says = "outcome"
    <3>1. CASE m \in Range(history)
      BY <1>1, <2>3, <3>1 DEF ReceiptInv
    <3> QED BY <2>3, <3>1 DEF Grown
  <2>4. \A c \in Calls : receipt'[c] # "none" =>
          /\ c[1] \in committed'
          /\ \A m \in Range(history') :
               /\ m.kind = "round" /\ m.attempt = c[1] => c[2] \in 1..m.calls
               /\ receipt'[c] = "completed" /\ m.kind = "result" /\ m.call = c => m.says = "outcome"
    BY <1>2, <1>8, <2>1, <2>2, <2>3
  <2> QED BY <2>4 DEF ReceiptInv, Range
<1>9. Orderly(h)
  BY DEF Grown
<1> QED BY <1>2, <1>7, <1>8, <1>9

LEMMA GrownSame == TurnsInv => Grown(history)
BY TurnsTypes DEF TurnsInv, Grown, HistoryInv

LEMMA GrownPlain ==
  ASSUME TurnsInv, NEW h, Grown(h), NEW m \in {Ask, Child}
  PROVE  Grown(Append(h, m))
<1>1. m \in Messages /\ m.kind \notin {"round", "result"}
  BY MessageTypes
<1>2. h \in Seq(Messages) /\ Orderly(h)
  BY DEF Grown
<1>3. Append(h, m) \in Seq(Messages) /\ Range(Append(h, m)) = Range(h) \cup {m}
  BY <1>1, <1>2, Appended
<1>4. Orderly(Append(h, m))
  BY <1>1, <1>2, OrderlyAppended
<1> QED BY <1>1, <1>3, <1>4 DEF Grown

LEMMA GrownRound ==
  ASSUME TurnsInv, turn.attempt # 0, turn.attempt \notin RoundsOf(history), NEW n \in 0..MaxCalls
  PROVE  Grown(Append(history, Round(turn.attempt, n)))
<1> DEFINE m == Round(turn.attempt, n)
<1>1. history \in Seq(Messages) /\ Orderly(history) /\ turn.attempt \in Attempts
  BY TurnsTypes DEF TurnsInv, HistoryInv
<1>2. m \in Messages /\ m.kind = "round" /\ m.attempt = turn.attempt
  BY <1>1, MessageTypes
<1> HIDE DEF m
<1>3. Append(history, m) \in Seq(Messages) /\ Range(Append(history, m)) = Range(history) \cup {m}
  BY <1>1, <1>2, Appended
<1>4. Orderly(Append(history, m))
  BY <1>1, <1>2, OrderlyAppended
<1>5. turn.attempt \notin dropped /\ turn.attempt \notin committed /\ attempt[turn.attempt].status # "none"
  BY DEF TurnsInv, LedgerInv, TurnInv, Current
<1>6. Grown(Append(history, m))
  BY <1>2, <1>3, <1>4, <1>5 DEF Grown
<1> QED BY <1>6 DEF m

LEMMA GrownPartial ==
  ASSUME TurnsInv
  PROVE  Grown(Partial(history)) /\ (Closed(history) => Closed(Partial(history)))
<1>1. CASE turn.shown /\ turn.attempt \notin RoundsOf(history)
  <2>1. turn.attempt # 0
    BY <1>1 DEF TurnsInv, TurnInv
  <2>2. 0 \in 0..MaxCalls /\ turn.attempt \in Attempts /\ history \in Seq(Messages)
    BY <2>1, TurnsTypes DEF TurnsInv
  <2>3. Partial(history) = Append(history, Round(turn.attempt, 0))
    BY <1>1 DEF Partial
  <2>4. Grown(Append(history, Round(turn.attempt, 0)))
    BY <1>1, <2>1, <2>2, GrownRound
  <2>5. Round(turn.attempt, 0) \in Messages /\ Round(turn.attempt, 0).calls = 0
    BY <2>2, MessageTypes
  <2> QED BY <2>2, <2>3, <2>4, <2>5, ClosedAppended
<1>2. CASE ~(turn.shown /\ turn.attempt \notin RoundsOf(history))
  <2>1. Partial(history) = history
    BY <1>2 DEF Partial
  <2> QED BY <2>1, GrownSame
<1> QED BY <1>1, <1>2

LEMMA GrownRecovered ==
  ASSUME TurnsInv
  PROVE  Grown(Recovered(history)) /\ Found \subseteq RoundsOf(Recovered(history))
<1>1. history \in Seq(Messages) /\ Orderly(history) /\ AttemptsTyped /\ LedgerInv
  BY TurnsTypes DEF TurnsInv, HistoryInv
<1>2. \A a \in Found : a \notin committed /\ a \notin dropped /\ attempt[a].status # "none"
  BY <1>1 DEF Found, Recoverable, LedgerInv
<1>3. RoundsOf(history) \cap Found = {}
  BY <1>1, <1>2 DEF LedgerInv
<1>4. Orderly(Recovered(history))
  BY <1>1, <1>3, RecoveredIsOrderly
<1>5. /\ Recovered(history) \in Seq(Messages)
      /\ RoundsOf(Recovered(history)) = RoundsOf(history) \cup Found
      /\ Range(history) \subseteq Range(Recovered(history))
      /\ \A m \in Range(Recovered(history)) :
            \/ m \in Range(history)
            \/ m.kind = "round" /\ m.attempt \in Found /\ m.calls \in {0, attempt[m.attempt].calls}
  BY <1>1, RecoveredContents
<1>6. Grown(Recovered(history))
  BY <1>2, <1>4, <1>5 DEF Grown
<1> QED BY <1>5, <1>6

LEMMA GrownRepaired ==
  ASSUME TurnsInv, NEW h, Grown(h)
  PROVE  Grown(Repaired(h)) /\ Closed(Repaired(h)) /\ RoundsOf(Repaired(h)) = RoundsOf(h)
<1>1. h \in Seq(Messages) /\ Orderly(h)
  BY DEF Grown
<1>2. /\ Repaired(h) \in Seq(Messages) /\ Orderly(Repaired(h)) /\ Closed(Repaired(h))
      /\ RoundsOf(Repaired(h)) = RoundsOf(h) /\ Range(h) \subseteq Range(Repaired(h))
      /\ \A m \in Range(Repaired(h)) :
           m \in Range(h) \/ (m.kind = "result" /\ m = Report(m.call) /\ m.call \notin ResultsOf(h))
  BY <1>1, RepairedIsClosed
<1>3. ASSUME NEW m \in Range(Repaired(h)), m \notin Range(h)
      PROVE  m.kind = "result" /\ (receipt[m.call] = "completed" => m.says = "outcome")
  <2>1. m.kind = "result" /\ m = Report(m.call)
    BY <1>2, <1>3
  <2> DEFINE c == m.call
  <2>2. m = Result(c, IF receipt[c] = "completed" THEN "outcome" ELSE "unknown")
    BY <2>1 DEF Report
  <2>3. m.says = IF receipt[c] = "completed" THEN "outcome" ELSE "unknown"
    <3> HIDE DEF c
    <3> QED BY <2>2 DEF Result
  <2> QED BY <2>1, <2>3
<1>4. Grown(Repaired(h))
  BY <1>2, <1>3 DEF Grown
<1> QED BY <1>2, <1>4

-----------------------------------------------------------------------------
TurnType == [at : Places, attempt : {0} \cup Attempts, todo : 0..MaxCalls, repeats : 0..StallRounds,
             shown : BOOLEAN, aborting : BOOLEAN]
UsedType == [runs : 0..MaxRuns, incidents : 0..MaxIncidents]

\* A step that saves a history, and leaves the attempts and the receipts as they are.
LEMMA SaveStep ==
  ASSUME TurnsInv, NEW h, Grown(h), Save(h), UNCHANGED <<attempt, dropped, receipt>>,
         turn' \in TurnType, used' \in UsedType, turn'.attempt \in {0, turn.attempt},
         turn'.at = "idle" => turn'.attempt = 0 /\ Found \subseteq RoundsOf(h) \cup committed,
         turn'.shown \/ turn'.at \in {"model", "answered", "refused", "tools", "executing", "returned"} => turn'.attempt # 0,
         turn'.at \in {"model", "answered", "refused"} => turn'.attempt \notin committed \cup RoundsOf(h),
         turn'.at \in {"ready", "waiting", "paused", "model", "answered", "refused"} => Closed(h),
         turn'.at \in {"tools", "executing", "returned"} => Midway(h, turn'.attempt, attempt[turn'.attempt].calls, turn'.todo)
  PROVE  TurnsInv'
<1>1. LedgerInv' /\ ReceiptInv' /\ Orderly(history)' /\ history' = h /\ committed' = committed \cup RoundsOf(h)
  BY GrownSaves DEF Save
<1>2. TurnsTypeOK'
  <2>1. h \in Seq(Messages)
    BY DEF Grown
  <2>2. RoundsOf(h) \subseteq Attempts
    BY <2>1, Contents, MessageFields
  <2> QED BY <1>1, <2>1, <2>2 DEF TurnsInv, TurnsTypeOK, TurnType, UsedType
<1>3. TurnInv'
  <2>1. \A a \in Attempts : a \in RoundsOf(h) \cup committed \/ a \notin Found => ~Recoverable(a)'
    BY <1>1 DEF Recoverable, Found
  <2>2. turn'.attempt # 0 => attempt[turn'.attempt].status # "none"
    BY DEF TurnsInv, TurnInv, Current
  <2> QED BY <1>1, <2>1, <2>2 DEF TurnInv, At, Current
<1>4. HistoryInv'
  BY <1>1 DEF HistoryInv, Current
<1> QED BY <1>1, <1>2, <1>3, <1>4 DEF TurnsInv

\* A step that leaves the history as it is.
LEMMA QuietStep ==
  ASSUME TurnsInv, UNCHANGED <<history, committed, dropped, used>>,
         attempt' \in [Attempts -> [status : {"none", "streaming", "failed", "incomplete", "completed", "invalid"},
                                    text : BOOLEAN, calls : 0..MaxCalls]],
         receipt' \in [Calls -> {"none", "executing", "completed"}], ReceiptInv',
         turn' \in TurnType, turn'.at # "idle",
         \A a \in Attempts : attempt'[a] = attempt[a] \/ (a \notin dropped /\ attempt'[a].status # "none"),
         turn'.attempt \notin dropped, turn'.attempt # 0 => attempt'[turn'.attempt].status # "none",
         turn'.shown \/ turn'.at \in {"model", "answered", "refused", "tools", "executing", "returned"} => turn'.attempt # 0,
         turn'.at \in {"model", "answered", "refused"} => turn'.attempt \notin committed,
         turn'.at \in {"ready", "waiting", "paused", "model", "answered", "refused"} => Closed(history),
         turn'.at \in {"tools", "executing", "returned"} =>
           Midway(history, turn'.attempt, attempt'[turn'.attempt].calls, turn'.todo)
  PROVE  TurnsInv'
<1>1. TurnsTypeOK'
  BY DEF TurnsInv, TurnsTypeOK, TurnType
<1>2. LedgerInv'
  <2>1. LedgerInv /\ committed \subseteq Attempts /\ dropped \subseteq Attempts
    BY DEF TurnsInv, TurnsTypeOK
  <2>2. RoundsOf(history)' = RoundsOf(history)
    BY DEF RoundsOf
  <2>3. \A a \in committed \cup dropped : attempt'[a].status # "none"
    BY <2>1 DEF LedgerInv
  <2>4. \A a \in dropped : ~Recoverable(a)'
    BY <2>1 DEF LedgerInv, Recoverable
  <2>5. \A a \in Attempts : attempt'[a].text => attempt'[a].status # "none"
    BY <2>1 DEF LedgerInv
  <2> QED BY <2>1, <2>2, <2>3, <2>4, <2>5 DEF LedgerInv
<1>3. TurnInv'
  BY DEF TurnInv, At, Current
<1>4. HistoryInv'
  BY DEF TurnsInv, HistoryInv, Current
<1> QED BY <1>1, <1>2, <1>3, <1>4 DEF TurnsInv

LEMMA SameReceipts ==
  ASSUME TurnsInv, UNCHANGED <<history, committed, receipt>>
  PROVE  ReceiptInv' /\ receipt' \in [Calls -> {"none", "executing", "completed"}]
BY DEF TurnsInv, TurnsTypeOK, ReceiptInv, Range

\* The receipt of the call that is executed.
LEMMA CallReceipt ==
  ASSUME TurnsInv, turn.at \in {"tools", "executing"}, UNCHANGED <<history, committed>>,
         NEW status \in {"executing", "completed"}, receipt' = [receipt EXCEPT ![Call] = status]
  PROVE  ReceiptInv' /\ receipt' \in [Calls -> {"none", "executing", "completed"}]
<1> DEFINE a == turn.attempt
           n == Current.calls
<1>1. /\ history \in Seq(Messages) /\ Orderly(history) /\ ReceiptInv /\ LedgerInv
      /\ receipt \in [Calls -> {"none", "executing", "completed"}]
      /\ Midway(history, a, n, turn.todo) /\ a \in Attempts /\ n \in 0..MaxCalls /\ MaxCalls \in Nat
  <2>1. turn.attempt # 0 /\ Midway(history, a, n, turn.todo)
    BY DEF TurnsInv, TurnInv, HistoryInv
  <2> QED BY <2>1, TurnsTypes DEF TurnsInv, HistoryInv, Current
<1> HIDE DEF a, n
<1>2. PICK p \in DOMAIN history : history[p] = Round(a, n)
  BY <1>1 DEF Midway
<1>3. turn.todo \in 1..n /\ Call = <<a, turn.todo>> /\ Call \in Calls /\ Call \notin ResultsOf(history)
  BY <1>1 DEF Midway, Call, a, Calls
<1>4. Call[1] \in committed
  <2>1. a \in RoundsOf(history)
    BY <1>2, MessageTypes DEF RoundsOf
  <2> QED BY <1>1, <1>3, <2>1 DEF LedgerInv
<1>5. ASSUME NEW m \in Range(history), m.kind = "round", m.attempt = a PROVE turn.todo \in 1..m.calls
  <2>1. PICK i \in DOMAIN history : m = history[i]
    BY <1>1, Contents
  <2>2. i = p
    BY <1>1, <1>2, <1>5, <2>1, MessageTypes DEF Orderly
  <2> QED BY <1>2, <1>3, <2>1, <2>2, MessageTypes
<1>6. \A m \in Range(history) : m.kind = "result" => m.call # Call
  <2> TAKE m \in Range(history)
  <2>1. m.kind = "result" => m.call \in ResultsOf(history)
    BY <1>1, Contents
  <2> QED BY <1>3, <2>1
<1>7. receipt' \in [Calls -> {"none", "executing", "completed"}]
  BY <1>1
<1>8. \A c \in Calls : c # Call => receipt'[c] = receipt[c]
  BY <1>1
<1>9. Call[1] = a /\ Call[2] = turn.todo
  BY <1>3
<1>10. \A c \in Calls : receipt'[c] # "none" =>
          /\ c[1] \in committed
          /\ \A m \in Range(history) :
               /\ m.kind = "round" /\ m.attempt = c[1] => c[2] \in 1..m.calls
               /\ receipt'[c] = "completed" /\ m.kind = "result" /\ m.call = c => m.says = "outcome"
  <2> SUFFICES ASSUME NEW c \in Calls, receipt'[c] # "none"
               PROVE  /\ c[1] \in committed
                      /\ \A m \in Range(history) :
                           /\ m.kind = "round" /\ m.attempt = c[1] => c[2] \in 1..m.calls
                           /\ receipt'[c] = "completed" /\ m.kind = "result" /\ m.call = c => m.says = "outcome"
    OBVIOUS
  <2>1. CASE c = Call
    BY <1>4, <1>5, <1>6, <1>9, <2>1
  <2>2. CASE c # Call
    BY <1>1, <1>8, <2>2 DEF ReceiptInv
  <2> QED BY <2>1, <2>2
<1>11. ReceiptInv'
  BY <1>10 DEF ReceiptInv, Range
<1> QED BY <1>7, <1>11

LEMMA TurnsInitHolds == TurnsInit => TurnsInv
<1> SUFFICES ASSUME TurnsInit PROVE TurnsInv
  OBVIOUS
<1>1. history = <<>> /\ <<>> \in Seq(Messages) /\ DOMAIN <<>> = {} /\ 0 \in 0..MaxCalls
  BY TurnsAssumption DEF TurnsInit
<1>2. RoundsOf(history) = {} /\ ResultsOf(history) = {} /\ Range(history) = {}
  BY <1>1 DEF RoundsOf, ResultsOf, Range
<1>3. TurnsTypeOK
  BY <1>1, TurnsAssumption DEF TurnsInit, TurnsTypeOK, NobodyActs, Places
<1>4. LedgerInv
  BY <1>2 DEF TurnsInit, LedgerInv
<1>5. TurnInv
  BY DEF TurnsInit, TurnInv, NobodyActs, At, Recoverable
<1>6. HistoryInv
  BY <1>1 DEF TurnsInit, HistoryInv, NobodyActs, Orderly
<1>7. ReceiptInv
  BY DEF TurnsInit, ReceiptInv
<1> QED BY <1>3, <1>4, <1>5, <1>6, <1>7 DEF TurnsInv

LEMMA TurnFields ==
  ASSUME TurnsInv
  PROVE  /\ turn \in TurnType /\ used \in UsedType
         /\ NobodyActs \in TurnType /\ NobodyActs.attempt = 0 /\ NobodyActs.at = "idle" /\ NobodyActs.shown = FALSE
         /\ \A x \in Places : [NobodyActs EXCEPT !.at = x] \in TurnType
<1>1. turn \in TurnType /\ used \in UsedType
  BY DEF TurnsInv, TurnsTypeOK, TurnType, UsedType
<1>2. 0 \in 0..MaxCalls /\ 0 \in 0..StallRounds /\ "idle" \in Places
  BY TurnsAssumption DEF Places
<1>3. NobodyActs \in TurnType
  BY <1>2 DEF TurnType, NobodyActs
<1>4. \A x \in Places : [NobodyActs EXCEPT !.at = x] \in TurnType
  BY <1>3 DEF TurnType
<1> QED BY <1>1, <1>3, <1>4 DEF NobodyActs

\* A run begins, or the command that compacts.
LEMMA BeginHolds ==
  ASSUME TurnsInv, (\E replace \in BOOLEAN : StartRun(replace)) \/ CompactCommand
  PROVE  TurnsInv'
<1>1. turn \in TurnType /\ used \in UsedType
  BY TurnFields
<1> DEFINE h == Repaired(Recovered(history))
<1>2. Grown(h) /\ Closed(h)
  BY GrownRecovered, GrownRepaired
<1> HIDE DEF h
<1>3. Grown(Append(h, Ask)) /\ Closed(Append(h, Ask))
  <2>1. h \in Seq(Messages)
    BY <1>2 DEF Grown
  <2> QED BY <1>2, <2>1, GrownPlain, ClosedAppended, MessageTypes
<1>4. used' \in UsedType /\ turn' \in TurnType /\ turn'.attempt = 0 /\ turn'.at \in {"ready", "ended"} /\ turn'.shown = FALSE
      /\ UNCHANGED <<attempt, dropped, receipt>>
  <2>1. UNCHANGED <<attempt, dropped, receipt>> /\ used.runs < MaxRuns /\ used' = [used EXCEPT !.runs = @ + 1]
        /\ \E x \in {"ready", "ended"} : turn' = [NobodyActs EXCEPT !.at = x]
    BY DEF StartRun, CompactCommand
  <2>2. used' \in UsedType
    <3>1. used.runs \in 0..MaxRuns /\ MaxRuns \in Nat
      BY <1>1, TurnsAssumption DEF UsedType
    <3>2. used.runs + 1 \in 0..MaxRuns
      BY <2>1, <3>1
    <3> QED BY <1>1, <2>1, <3>2 DEF UsedType
  <2>3. \A x \in {"ready", "ended"} : x \in Places
    BY DEF Places
  <2> QED BY <2>1, <2>2, <2>3, TurnFields DEF NobodyActs
<1>5. \E g : Grown(g) /\ Closed(g) /\ Save(g)
  <2>1. CASE CompactCommand
    BY <1>2, <2>1 DEF CompactCommand, h
  <2>2. ASSUME NEW replace \in BOOLEAN, StartRun(replace) PROVE \E g : Grown(g) /\ Closed(g) /\ Save(g)
    <3>1. Save(IF replace THEN h ELSE Append(h, Ask))
      BY <2>2 DEF StartRun, h
    <3> QED BY <1>2, <1>3, <3>1
  <2> QED BY <2>1, <2>2
<1>6. PICK g : Grown(g) /\ Closed(g) /\ Save(g)
  BY <1>5
<1> QED BY <1>4, <1>6, SaveStep

\* The engine asks, and the model answers.
LEMMA AskHolds ==
  ASSUME TurnsInv, Abort \/ NextRound \/ AskModel \/ Publish \/ EndEmpty \/ Refuse \/ Stall \/ CutOff
  PROVE  TurnsInv'
<1>1. /\ turn \in TurnType /\ turn.attempt \notin dropped /\ LedgerInv /\ TurnInv /\ HistoryInv
      /\ AttemptsTyped /\ (turn.attempt # 0 => turn.attempt \in Attempts)
  BY TurnFields, TurnsTypes, MessageTypes DEF TurnsInv, LedgerInv
<1>2. UNCHANGED <<history, committed, dropped, receipt, used>>
  BY DEF Abort, NextRound, AskModel, Publish, EndEmpty, Refuse, Stall, CutOff
<1>3. ReceiptInv' /\ receipt' \in [Calls -> {"none", "executing", "completed"}]
  BY <1>2, SameReceipts
<1>4. CASE Abort \/ NextRound \/ EndEmpty \/ Stall \/ CutOff
  <2>1. attempt' = attempt /\ turn'.attempt = turn.attempt /\ turn'.shown = turn.shown /\ turn'.todo = turn.todo
        /\ turn' \in TurnType /\ turn'.at # "idle"
    <3>0. 0 \in 0..StallRounds
      BY TurnsAssumption
    <3>1. CASE Abort
      BY <1>1, <3>1 DEF Abort, TurnType, Running
    <3>2. CASE NextRound
      BY <1>1, <3>2 DEF NextRound, TurnType, Places
    <3>3. CASE EndEmpty \/ CutOff
      BY <1>1, <3>3 DEF EndEmpty, CutOff, TurnType, Places
    <3>4. CASE Stall
      BY <1>1, <3>0, <3>4 DEF Stall, TurnType, Places
    <3> QED BY <1>4, <3>1, <3>2, <3>3, <3>4
  <2>2. turn'.at = turn.at \/ turn'.at = "ended" \/ (turn'.at \in {"waiting", "ready"} /\ turn.at \in {"ready", "paused", "answered"})
    BY <1>1, <1>4 DEF Abort, NextRound, EndEmpty, Stall, CutOff, TurnType, Places, Running, At
  <2> QED BY <1>1, <1>2, <1>3, <2>1, <2>2, QuietStep DEF TurnInv, HistoryInv, Current, AttemptsTyped
<1>5. CASE AskModel
  <2>1. PICK a \in Attempts : attempt[a].status = "none" /\ attempt' = [attempt EXCEPT ![a].status = "streaming"]
                              /\ turn' = [turn EXCEPT !.at = "model", !.attempt = a] /\ turn.at = "waiting"
    BY <1>5 DEF AskModel, At
  <2>2. a \notin dropped /\ a \notin committed /\ a # 0
    BY <1>1, <2>1, TurnsTypes DEF TurnsInv, LedgerInv
  <2>3. /\ attempt' \in [Attempts -> [status : {"none", "streaming", "failed", "incomplete", "completed", "invalid"},
                                      text : BOOLEAN, calls : 0..MaxCalls]]
        /\ \A b \in Attempts : b # a => attempt'[b] = attempt[b]
        /\ attempt'[a].status = "streaming"
    BY <1>1, <2>1 DEF AttemptsTyped
  <2>4. turn' \in TurnType /\ turn'.attempt = a /\ turn'.at = "model"
    BY <1>1, <2>1 DEF TurnType, Places
  <2>5. Closed(history)
    BY <1>1, <2>1 DEF HistoryInv
  <2> QED BY <1>2, <1>3, <2>2, <2>3, <2>4, <2>5, QuietStep
<1>6. CASE Publish \/ Refuse
  <2>1. turn.at \in {"model", "answered"} /\ turn'.attempt = turn.attempt /\ turn'.at \in {"model", "refused"} /\ turn' \in TurnType
    BY <1>1, <1>6 DEF Publish, Refuse, TurnType, Places, At
  <2>2. turn.attempt \in Attempts /\ turn.attempt \notin committed /\ Closed(history) /\ attempt[turn.attempt].status # "none"
    BY <1>1, <2>1 DEF TurnInv, HistoryInv, Current
  <2>3. /\ attempt' \in [Attempts -> [status : {"none", "streaming", "failed", "incomplete", "completed", "invalid"},
                                      text : BOOLEAN, calls : 0..MaxCalls]]
        /\ \A b \in Attempts : b # turn.attempt => attempt'[b] = attempt[b]
        /\ attempt'[turn.attempt].status # "none"
    <3>1. CASE Publish
      BY <1>1, <2>2, <3>1 DEF AttemptsTyped, Publish
    <3>2. CASE Refuse
      BY <1>1, <2>2, <3>2 DEF AttemptsTyped, Refuse
    <3> QED BY <1>6, <3>1, <3>2
  <2> QED BY <1>1, <1>2, <1>3, <2>1, <2>2, <2>3, TurnsTypes, QuietStep DEF TurnsInv
<1> QED BY <1>4, <1>5, <1>6

LEMMA RespondHolds ==
  ASSUME TurnsInv, NEW status \in {"failed", "incomplete", "completed"}, NEW n \in 0..MaxCalls, Respond(status, n)
  PROVE  TurnsInv'
<1>1. /\ turn \in TurnType /\ turn.attempt \notin dropped /\ TurnInv /\ HistoryInv
      /\ AttemptsTyped /\ (turn.attempt # 0 => turn.attempt \in Attempts)
  BY TurnFields, TurnsTypes DEF TurnsInv, LedgerInv
<1>2. UNCHANGED <<history, committed, dropped, receipt, used>> /\ turn.at = "model"
      /\ attempt' = [attempt EXCEPT ![turn.attempt].status = status, ![turn.attempt].calls = n]
      /\ turn' = [turn EXCEPT !.at = "answered"]
  BY DEF Respond, At
<1>3. ReceiptInv' /\ receipt' \in [Calls -> {"none", "executing", "completed"}]
  BY <1>2, SameReceipts
<1>4. turn.attempt \in Attempts /\ turn.attempt # 0 /\ turn.attempt \notin committed /\ Closed(history)
  BY <1>1, <1>2 DEF TurnInv, HistoryInv
<1>5. /\ attempt' \in [Attempts -> [status : {"none", "streaming", "failed", "incomplete", "completed", "invalid"},
                                    text : BOOLEAN, calls : 0..MaxCalls]]
      /\ \A b \in Attempts : b # turn.attempt => attempt'[b] = attempt[b]
      /\ attempt'[turn.attempt].status # "none"
  BY <1>1, <1>2, <1>4 DEF AttemptsTyped
<1>6. turn' \in TurnType /\ turn'.attempt = turn.attempt /\ turn'.at = "answered"
  BY <1>1, <1>2 DEF TurnType, Places
<1> QED BY <1>1, <1>2, <1>3, <1>4, <1>5, <1>6, QuietStep

\* An answer is kept, or not.
LEMMA KeepHolds ==
  ASSUME TurnsInv, \/ Retry \/ \E next \in {"ready", "ended"} : Conclude(next)
                   \/ \E next \in {"paused", "ended"} : AfterRefusal(next)
  PROVE  TurnsInv'
<1>1. turn \in TurnType /\ used \in UsedType /\ TurnInv /\ HistoryInv /\ 0 \in 0..StallRounds
  BY TurnFields, TurnsAssumption DEF TurnsInv
<1>2. /\ turn.at \in {"answered", "refused"} /\ UNCHANGED <<attempt, dropped, receipt, used>>
      /\ turn'.attempt = turn.attempt /\ turn'.shown = turn.shown /\ turn'.at \in {"ready", "paused", "ended"}
      /\ turn' \in TurnType
  <2>1. CASE Retry
    BY <1>1, <2>1 DEF Retry, At, TurnType, Places
  <2>2. ASSUME NEW next \in {"ready", "ended"}, Conclude(next) PROVE <1>2!:
    BY <1>1, <2>2 DEF Conclude, At, TurnType, Places
  <2>3. ASSUME NEW next \in {"paused", "ended"}, AfterRefusal(next) PROVE <1>2!:
    BY <1>1, <2>3 DEF AfterRefusal, At, TurnType, Places
  <2> QED BY <2>1, <2>2, <2>3
<1>3. Closed(history)
  BY <1>1, <1>2 DEF HistoryInv
<1>4. \E h : Grown(h) /\ Closed(h) /\ Save(h)
  <2>1. Grown(history) /\ Grown(Partial(history)) /\ Closed(Partial(history))
    BY <1>3, GrownSame, GrownPartial
  <2>2. Save(history) \/ Save(Partial(history))
    <3> HIDE DEF Save, Partial
    <3> QED BY DEF Retry, Conclude, AfterRefusal
  <2> QED BY <1>3, <2>1, <2>2
<1>5. PICK h : Grown(h) /\ Closed(h) /\ Save(h)
  BY <1>4
<1> QED BY <1>1, <1>2, <1>5, SaveStep DEF TurnInv

LEMMA BeginToolsHolds ==
  ASSUME TurnsInv, NEW same \in BOOLEAN, BeginTools(same)
  PROVE  TurnsInv'
<1> DEFINE a == turn.attempt
           n == Current.calls
           h == Append(history, Round(a, n))
<1>1. /\ turn \in TurnType /\ used \in UsedType /\ TurnInv /\ HistoryInv /\ LedgerInv /\ turn.at = "answered"
      /\ history \in Seq(Messages) /\ Save(h) /\ UNCHANGED <<attempt, dropped, receipt, used>>
  BY TurnFields, TurnsTypes DEF TurnsInv, BeginTools, At
<1>2. a \in Attempts /\ a # 0 /\ a \notin committed /\ Closed(history) /\ Orderly(history)
  BY <1>1 DEF TurnType, TurnInv, HistoryInv
<1>3. a \notin RoundsOf(history) /\ n \in 1..MaxCalls /\ n \in 0..MaxCalls
  <2>1. a \notin RoundsOf(history)
    BY <1>1, <1>2 DEF LedgerInv
  <2>2. n \in 0..MaxCalls /\ n > 0 /\ MaxCalls \in Nat
    BY <1>2, TurnsTypes DEF TurnsInv, Current, BeginTools
  <2> QED BY <2>1, <2>2
<1>4. Grown(h) /\ Midway(h, a, n, 1)
  BY <1>1, <1>2, <1>3, GrownRound, MidwayBegins
<1>5. turn' = [turn EXCEPT !.at = "tools", !.todo = 1, !.repeats = IF same THEN @ + 1 ELSE 1]
      /\ (same => turn.repeats \in 1..(StallRounds - 1))
  BY DEF BeginTools
<1>6. (IF same THEN turn.repeats + 1 ELSE 1) \in 0..StallRounds /\ 1 \in 0..MaxCalls
  <2>1. StallRounds \in Nat \ {0} /\ MaxCalls \in Nat
    BY TurnsAssumption
  <2> QED BY <1>3, <1>5, <2>1
<1>7. turn' \in TurnType /\ turn'.attempt = a /\ turn'.at = "tools" /\ turn'.todo = 1
  <2> DEFINE r == IF same THEN turn.repeats + 1 ELSE 1
  <2>1. turn' = [turn EXCEPT !.at = "tools", !.todo = 1, !.repeats = r] /\ r \in 0..StallRounds
    BY <1>5, <1>6
  <2> HIDE DEF r
  <2> QED BY <1>1, <1>6, <2>1 DEF TurnType, Places
<1> HIDE DEF h
<1> QED BY <1>1, <1>2, <1>4, <1>7, SaveStep DEF Current

\* A call is executed.
LEMMA CallHolds ==
  ASSUME TurnsInv, Claim \/ RefuseCall \/ \E completed \in BOOLEAN : FinishTool(completed)
  PROVE  TurnsInv'
<1>1. /\ turn \in TurnType /\ turn.attempt \notin dropped /\ TurnInv /\ HistoryInv /\ AttemptsTyped
      /\ (turn.attempt # 0 => turn.attempt \in Attempts)
  BY TurnFields, TurnsTypes DEF TurnsInv, LedgerInv
<1>2. /\ UNCHANGED <<history, committed, dropped, used, attempt>> /\ turn.at \in {"tools", "executing"}
      /\ turn'.attempt = turn.attempt /\ turn'.todo = turn.todo /\ turn'.at \in {"executing", "returned"}
      /\ turn' \in TurnType
  BY <1>1 DEF Claim, RefuseCall, FinishTool, At, TurnType, Places
<1>3. turn.attempt \in Attempts /\ turn.attempt # 0 /\ attempt[turn.attempt].status # "none"
      /\ Midway(history, turn.attempt, attempt[turn.attempt].calls, turn.todo)
  BY <1>1, <1>2 DEF TurnInv, HistoryInv, Current
<1>4. ReceiptInv' /\ receipt' \in [Calls -> {"none", "executing", "completed"}]
  <2>1. CASE receipt' = receipt
    BY <1>2, <2>1, SameReceipts
  <2>2. ASSUME NEW status \in {"executing", "completed"}, receipt' = [receipt EXCEPT ![Call] = status]
        PROVE <1>4!:
    BY <1>2, <2>2, CallReceipt
  <2>3. receipt' = receipt \/ \E status \in {"executing", "completed"} : receipt' = [receipt EXCEPT ![Call] = status]
    <3> HIDE DEF Call
    <3> QED BY DEF Claim, RefuseCall, FinishTool
  <2> QED BY <2>1, <2>2, <2>3
<1> QED BY <1>1, <1>2, <1>3, <1>4, QuietStep DEF AttemptsTyped

LEMMA ReturnHolds ==
  ASSUME TurnsInv, Return
  PROVE  TurnsInv'
<1> DEFINE a == turn.attempt
           n == Current.calls
           m == Result(Call, "outcome")
           h == Append(history, m)
<1>1. /\ turn \in TurnType /\ used \in UsedType /\ TurnInv /\ HistoryInv /\ turn.at = "returned"
      /\ history \in Seq(Messages) /\ Save(h) /\ UNCHANGED <<attempt, dropped, receipt, used>>
  BY TurnFields, TurnsTypes DEF TurnsInv, Return, At
<1>2. a \in Attempts /\ a # 0 /\ Midway(history, a, n, turn.todo) /\ Orderly(history)
  BY <1>1 DEF TurnType, TurnInv, HistoryInv
<1>3. n \in 0..MaxCalls /\ n \in Nat /\ turn.todo \in 1..n /\ MaxCalls \in Nat
  BY <1>2, TurnsTypes DEF TurnsInv, Current, Midway
<1>4. Call = <<a, turn.todo>> /\ Call \in Calls
  BY <1>2, <1>3 DEF Call, Calls
<1>5. Orderly(h) /\ (turn.todo < n => Midway(h, a, n, turn.todo + 1)) /\ (turn.todo >= n => Closed(h))
  <2>1. LET g == Append(history, Result(<<a, turn.todo>>, "outcome")) IN
           /\ Orderly(g)
           /\ turn.todo < n => Midway(g, a, n, turn.todo + 1)
           /\ turn.todo >= n => Closed(g)
    <3> HIDE DEF a, n
    <3> QED BY <1>1, <1>2, <1>3, MidwayReturns
  <2> HIDE DEF a, n
  <2> QED BY <1>4, <2>1
<1>6. m \in Messages /\ m.kind = "result" /\ m.says = "outcome"
  BY <1>4, MessageTypes
<1> HIDE DEF m
<1>7. Grown(h)
  <2>1. h \in Seq(Messages) /\ Range(h) = Range(history) \cup {m}
    BY <1>1, <1>6, Appended
  <2> HIDE DEF h
  <2> QED BY <1>5, <1>6, <2>1 DEF Grown
<1> HIDE DEF h
<1>8. /\ turn' \in TurnType /\ turn'.attempt = a /\ turn'.at \in {"ended", "tools", "ready"}
      /\ turn'.at = "tools" => turn.todo < n /\ turn'.todo = turn.todo + 1
      /\ turn'.at = "ready" => turn.todo >= n
  <2>0. turn.todo < n => turn.todo + 1 \in 0..MaxCalls
    BY <1>3
  <2>1. \/ turn' = [turn EXCEPT !.at = "ended"]
        \/ turn.todo < n /\ turn' = [turn EXCEPT !.at = "tools", !.todo = @ + 1]
        \/ ~(turn.todo < n) /\ turn' = [turn EXCEPT !.at = "ready"]
    BY DEF Return
  <2>2. CASE turn' = [turn EXCEPT !.at = "ended"]
    BY <1>1, <2>2 DEF TurnType, Places
  <2>3. CASE turn.todo < n /\ turn' = [turn EXCEPT !.at = "tools", !.todo = @ + 1]
    <3> HIDE DEF n
    <3> QED BY <1>1, <2>0, <2>3 DEF TurnType, Places
  <2>4. CASE ~(turn.todo < n) /\ turn' = [turn EXCEPT !.at = "ready"]
    <3>1. turn.todo >= n
      BY <1>3, <2>4
    <3> HIDE DEF n
    <3> QED BY <1>1, <2>4, <3>1 DEF TurnType, Places
  <2> QED BY <2>1, <2>2, <2>3, <2>4
<1> QED BY <1>1, <1>2, <1>5, <1>7, <1>8, SaveStep DEF Current

LEMMA EndAbortedHolds ==
  ASSUME TurnsInv, EndAborted
  PROVE  TurnsInv'
<1>1. /\ turn \in TurnType /\ used \in UsedType /\ TurnInv /\ HistoryInv /\ LedgerInv /\ turn.attempt \notin dropped
      /\ history \in Seq(Messages) /\ AttemptsTyped /\ (turn.attempt # 0 => turn.attempt \in Attempts)
  BY TurnFields, TurnsTypes DEF TurnsInv, LedgerInv
<1>2. /\ UNCHANGED <<attempt, dropped, used>> /\ turn' = [turn EXCEPT !.at = "ended"]
      /\ Save(history) \/ Save(Partial(history))
      /\ receipt' = receipt \/ (turn.at = "executing" /\ receipt' = [receipt EXCEPT ![Call] = "completed"])
  <2> HIDE DEF Save, Partial, Call
  <2> QED BY DEF EndAborted, At
<1>3. turn' \in TurnType /\ turn'.at = "ended" /\ turn'.attempt = turn.attempt /\ turn'.shown = turn.shown
  BY <1>1, <1>2 DEF TurnType, Places
<1>4. CASE receipt' = receipt
  <2>1. PICK h : Grown(h) /\ Save(h)
    BY <1>2, GrownSame, GrownPartial
  <2> QED BY <1>1, <1>2, <1>3, <1>4, <2>1, SaveStep DEF TurnInv
<1>5. CASE turn.at = "executing" /\ receipt' = [receipt EXCEPT ![Call] = "completed"]
  <2>1. Midway(history, turn.attempt, Current.calls, turn.todo) /\ turn.attempt # 0
    BY <1>1, <1>5 DEF HistoryInv, TurnInv
  <2>2. turn.attempt \in RoundsOf(history)
    <3>1. PICK p \in DOMAIN history : history[p] = Round(turn.attempt, Current.calls)
      BY <2>1 DEF Midway
    <3>2. history[p].kind = "round" /\ history[p].attempt = turn.attempt
      BY <3>1, MessageTypes
    <3> QED BY <3>2 DEF RoundsOf
  <2>3. Save(history)
    <3>1. Partial(history) = history
      BY <2>2 DEF Partial
    <3> QED BY <1>2, <3>1
  <2>4. history' = history /\ committed' = committed
    BY <1>1, <2>3 DEF Save, LedgerInv
  <2>5. ReceiptInv' /\ receipt' \in [Calls -> {"none", "executing", "completed"}]
    BY <1>5, <2>4, CallReceipt
  <2>6. turn.attempt # 0 => attempt[turn.attempt].status # "none"
    BY <1>1 DEF TurnInv, Current
  <2> QED BY <1>1, <1>2, <1>3, <2>1, <2>4, <2>5, <2>6, QuietStep DEF AttemptsTyped
<1> QED BY <1>2, <1>4, <1>5

\* The driver recovers what its run has published, or the service does after a crash.
LEMMA CloseHolds ==
  ASSUME TurnsInv, CloseRun \/ Crash
  PROVE  TurnsInv'
<1>1. used \in UsedType /\ NobodyActs \in TurnType /\ NobodyActs.attempt = 0 /\ NobodyActs.at = "idle" /\ NobodyActs.shown = FALSE
  BY TurnFields
<1>2. UNCHANGED <<attempt, dropped, receipt>> /\ turn' = NobodyActs /\ Save(Recovered(history))
  BY DEF CloseRun, Crash
<1>3. used' \in UsedType
  <2>1. used.incidents \in 0..MaxIncidents /\ MaxIncidents \in Nat
    BY <1>1, TurnsAssumption DEF UsedType
  <2>2. CASE CloseRun
    BY <1>1, <2>2 DEF CloseRun
  <2>3. CASE Crash
    <3>1. used.incidents + 1 \in 0..MaxIncidents /\ used' = [used EXCEPT !.incidents = @ + 1]
      BY <2>1, <2>3 DEF Crash
    <3> QED BY <1>1, <3>1 DEF UsedType
  <2> QED BY <2>2, <2>3
<1>4. Grown(Recovered(history)) /\ Found \subseteq RoundsOf(Recovered(history))
  BY GrownRecovered
<1> DEFINE h == Recovered(history)
<1> HIDE DEF h
<1>5. Grown(h) /\ Found \subseteq RoundsOf(h) /\ Save(h)
  BY <1>2, <1>4 DEF h
<1> QED BY <1>1, <1>2, <1>3, <1>5, SaveStep

LEMMA InjectHolds ==
  ASSUME TurnsInv, InjectChild
  PROVE  TurnsInv'
<1> DEFINE h == Append(history, Child)
<1>1. /\ turn \in TurnType /\ used \in UsedType /\ TurnInv /\ HistoryInv /\ LedgerInv /\ history \in Seq(Messages)
  BY TurnFields, TurnsTypes DEF TurnsInv
<1>2. Save(h) /\ UNCHANGED <<attempt, dropped, receipt, turn>>
  BY DEF InjectChild
<1>3. used' \in UsedType
  <2>1. used.incidents \in 0..MaxIncidents /\ MaxIncidents \in Nat
    BY <1>1, TurnsAssumption DEF UsedType
  <2>2. used.incidents + 1 \in 0..MaxIncidents /\ used' = [used EXCEPT !.incidents = @ + 1]
    BY <2>1 DEF InjectChild
  <2> QED BY <1>1, <2>2 DEF UsedType
<1>4. Grown(h)
  BY GrownSame, GrownPlain
<1>5. RoundsOf(h) = RoundsOf(history)
  BY <1>1, MessageTypes, ContentsAppended
<1>6. Closed(history) => Closed(h)
  BY <1>1, MessageTypes, ClosedAppended
<1>7. \A a, n, todo : Midway(history, a, n, todo) => Midway(h, a, n, todo)
  BY <1>1, MidwayChild
<1> HIDE DEF h
<1>8. turn.at = "idle" => turn.attempt = 0 /\ Found = {}
  BY <1>1 DEF TurnInv, Found, At
<1>9. turn.at \in {"model", "answered", "refused"} => turn.attempt \notin committed \cup RoundsOf(h)
  BY <1>1, <1>5 DEF TurnInv, LedgerInv
<1>10. turn.at \in {"ready", "waiting", "paused", "model", "answered", "refused"} => Closed(h)
  BY <1>1, <1>6 DEF HistoryInv
<1>11. turn.at \in {"tools", "executing", "returned"} => Midway(h, turn.attempt, attempt[turn.attempt].calls, turn.todo)
  BY <1>1, <1>7 DEF HistoryInv, Current
<1>12. turn.shown \/ turn.at \in {"model", "answered", "refused", "tools", "executing", "returned"} => turn.attempt # 0
  BY <1>1 DEF TurnInv
<1> QED BY <1>1, <1>2, <1>3, <1>4, <1>8, <1>9, <1>10, <1>11, <1>12, SaveStep

\* A branch is cut away.
LEMMA RerunHolds ==
  ASSUME TurnsInv, NEW k \in DOMAIN history, Rerun(k)
  PROVE  TurnsInv'
<1> DEFINE kept == SubSeq(history, 1, k)
           gone == {a \in Attempts : attempt[a].status # "none" /\ a \notin RoundsOf(kept)}
<1>1. /\ turn \in TurnType /\ used \in UsedType /\ TurnInv /\ HistoryInv /\ LedgerInv /\ ReceiptInv
      /\ history \in Seq(Messages) /\ Orderly(history)
      /\ committed \subseteq Attempts /\ dropped \subseteq Attempts /\ \A a \in Attempts : a # 0
  BY TurnFields, TurnsTypes DEF TurnsInv, HistoryInv
<1>2. /\ UNCHANGED <<attempt, receipt, turn, used>> /\ turn.at = "idle" /\ dropped' = dropped \cup gone
      /\ history' = kept /\ committed' = committed \cup RoundsOf(kept)
  BY DEF Rerun, Save, At
<1>3. /\ kept \in Seq(Messages) /\ Orderly(kept) /\ Len(kept) = k /\ \A i \in 1..k : kept[i] = history[i]
  <2>1. k \in 0..Len(history)
    BY <1>1
  <2> QED BY <1>1, <2>1, OrderlyPrefix
<1>4. Range(kept) \subseteq Range(history)
  <2>1. DOMAIN kept = 1..k /\ 1..k \subseteq DOMAIN history
    BY <1>1, <1>3
  <2> HIDE DEF kept
  <2> QED BY <1>3, <2>1 DEF Range
<1> HIDE DEF kept
<1>5. RoundsOf(kept) \subseteq RoundsOf(history)
  <2>1. \A a : a \in RoundsOf(history) <=> \E m \in Range(history) : m.kind = "round" /\ m.attempt = a
    BY <1>1, Contents
  <2>2. \A a : a \in RoundsOf(kept) <=> \E m \in Range(kept) : m.kind = "round" /\ m.attempt = a
    BY <1>3, Contents
  <2> QED BY <1>4, <2>1, <2>2
<1>6. committed' = committed /\ turn.attempt = 0 /\ \A a \in Attempts : ~Recoverable(a)
  BY <1>1, <1>2, <1>5 DEF LedgerInv, TurnInv, At
<1>7. TurnsTypeOK'
  BY <1>1, <1>2, <1>3, <1>6 DEF TurnsInv, TurnsTypeOK
<1>8. LedgerInv'
  <2>1. RoundsOf(kept) \subseteq committed /\ committed \subseteq RoundsOf(kept) \cup dropped'
    BY <1>1, <1>2, <1>5 DEF LedgerInv
  <2>2. dropped' \cap RoundsOf(kept) = {}
    BY <1>1, <1>2, <1>5 DEF LedgerInv
  <2>3. \A a \in committed \cup dropped' : attempt[a].status # "none"
    BY <1>1, <1>2 DEF LedgerInv
  <2>4. \A a \in dropped' : ~Recoverable(a)' /\ a # turn.attempt
    BY <1>1, <1>2, <1>6 DEF Recoverable
  <2>5. \A a \in Attempts : attempt[a].text => attempt[a].status # "none"
    BY <1>1 DEF LedgerInv
  <2> QED BY <1>2, <1>6, <2>1, <2>2, <2>3, <2>4, <2>5 DEF LedgerInv
<1>9. TurnInv'
  BY <1>1, <1>2, <1>6 DEF TurnInv, At, Current, Recoverable
<1>10. HistoryInv'
  BY <1>2, <1>3 DEF HistoryInv
<1>11. ReceiptInv'
  <2>1. \A c \in Calls : receipt[c] # "none" =>
          /\ c[1] \in committed
          /\ \A m \in Range(kept) :
               /\ m.kind = "round" /\ m.attempt = c[1] => c[2] \in 1..m.calls
               /\ receipt[c] = "completed" /\ m.kind = "result" /\ m.call = c => m.says = "outcome"
    BY <1>1, <1>4 DEF ReceiptInv
  <2> QED BY <1>2, <1>6, <2>1 DEF ReceiptInv, Range
<1> QED BY <1>7, <1>8, <1>9, <1>10, <1>11 DEF TurnsInv

LEMMA TurnsStepHolds == TurnsInv /\ [TurnsNext]_turnsVars => TurnsInv'
<1> SUFFICES ASSUME TurnsInv, [TurnsNext]_turnsVars PROVE TurnsInv'
  OBVIOUS
<1>1. CASE UNCHANGED turnsVars
  BY <1>1 DEF turnsVars, TurnsInv, TurnsTypeOK, LedgerInv, TurnInv, HistoryInv, ReceiptInv, At, Current,
              Recoverable, RoundsOf, Range
<1>2. ASSUME NEW status \in {"incomplete", "completed"}, NEW n \in 0..MaxCalls, Respond(status, n) PROVE TurnsInv'
  BY <1>2, RespondHolds
<1>3. CASE Respond("failed", 0)
  <2>1. 0 \in 0..MaxCalls
    BY TurnsAssumption
  <2> QED BY <1>3, <2>1, RespondHolds
<1>4. ASSUME NEW same \in BOOLEAN, BeginTools(same) PROVE TurnsInv'
  BY <1>4, BeginToolsHolds
<1>5. ASSUME NEW k \in DOMAIN history, Rerun(k) PROVE TurnsInv'
  BY <1>5, RerunHolds
<1>6. CASE (\E replace \in BOOLEAN : StartRun(replace)) \/ CompactCommand
  BY <1>6, BeginHolds
<1>7. CASE Abort \/ NextRound \/ AskModel \/ Publish \/ EndEmpty \/ Refuse \/ Stall \/ CutOff
  BY <1>7, AskHolds
<1>8. CASE \/ Retry \/ \E next \in {"ready", "ended"} : Conclude(next)
           \/ \E next \in {"paused", "ended"} : AfterRefusal(next)
  BY <1>8, KeepHolds
<1>9. CASE Claim \/ RefuseCall \/ \E completed \in BOOLEAN : FinishTool(completed)
  BY <1>9, CallHolds
<1>10. CASE Return
  BY <1>10, ReturnHolds
<1>11. CASE EndAborted
  BY <1>11, EndAbortedHolds
<1>12. CASE CloseRun \/ Crash
  BY <1>12, CloseHolds
<1>13. CASE InjectChild
  BY <1>13, InjectHolds
<1> QED BY <1>1, <1>2, <1>3, <1>4, <1>5, <1>6, <1>7, <1>8, <1>9, <1>10, <1>11, <1>12, <1>13 DEF TurnsNext

LEMMA TurnsAreFaithful == TurnsInv => HistoryIsFaithful
<1> SUFFICES ASSUME TurnsInv PROVE HistoryIsFaithful
  OBVIOUS
<1>1. dropped \cap RoundsOf(history) = {} /\ committed \subseteq RoundsOf(history) \cup dropped
  BY DEF TurnsInv, LedgerInv
<1>2. ASSUME At("idle"), NEW a \in Attempts, attempt[a].text, attempt[a].status # "invalid", a \notin dropped
      PROVE  a \in RoundsOf(history)
  <2>1. ~Recoverable(a) /\ attempt[a].status # "none"
    BY <1>2 DEF TurnsInv, TurnInv, LedgerInv
  <2>2. a \in committed
    BY <1>2, <2>1 DEF Recoverable
  <2> QED BY <1>1, <1>2, <2>2
<1> QED BY <1>1, <1>2 DEF HistoryIsFaithful

LEMMA TurnsAreSound == TurnsInv => RequestIsSound
<1> SUFFICES ASSUME TurnsInv, At("model") PROVE RequestIsSound
  BY DEF RequestIsSound
<1>1. history \in Seq(Messages) /\ Orderly(history) /\ Closed(history) /\ LedgerInv /\ ReceiptInv
  BY TurnsTypes DEF TurnsInv, HistoryInv, At
<1>2. Accepted(ApiMessages(history))
  BY <1>1, ApiIsAccepted
<1>3. ASSUME NEW c \in Calls, receipt[c] = "completed", c[1] \notin dropped
      PROVE  Result(c, "outcome") \in Range(history)
  <2>1. c[1] \in RoundsOf(history)
    BY <1>1, <1>3 DEF LedgerInv, ReceiptInv
  <2>2. PICK i \in DOMAIN history : history[i].kind = "round" /\ history[i].attempt = c[1]
    BY <2>1 DEF RoundsOf
  <2>3. history[i] \in Range(history)
    BY DEF Range
  <2>4. c[2] \in 1..history[i].calls
    BY <1>1, <1>3, <2>2, <2>3 DEF ReceiptInv
  <2>5. c = <<c[1], c[2]>>
    BY DEF Calls
  <2>6. c \in ResultsOf(history)
    BY <1>1, <2>2, <2>4, <2>5 DEF Closed
  <2>7. PICK m \in Range(history) : m.kind = "result" /\ m.call = c
    BY <1>1, <2>6, Contents
  <2>8. m \in Messages /\ m.says = "outcome"
    BY <1>1, <1>3, <2>7, Contents DEF ReceiptInv
  <2>9. m = Result(c, "outcome")
    BY <2>7, <2>8, MessageFields
  <2> QED BY <2>7, <2>9
<1> QED BY <1>2, <1>3 DEF RequestIsSound

-----------------------------------------------------------------------------
\* The rounds of a run in the behaviours that are about them; in the others they rest.
LEMMA TurnsHold == FairSpec => []TurnsInv
<1>1. Init => TurnsInv
  BY TurnsInitHolds DEF Init
<1>2. TurnsInv /\ [Next]_vars => TurnsInv'
  <2> SUFFICES ASSUME TurnsInv, [Next]_vars PROVE TurnsInv'
    OBVIOUS
  <2>1. [TurnsNext]_turnsVars
    BY DEF Next, vars
  <2> QED BY <2>1, TurnsStepHolds
<1> QED BY <1>1, <1>2, PTL DEF FairSpec

\* Everything has its type.  For any number of readers, publishers, events and broken
\* connections, and any capacity: a queue keeps HOST_EVENT_QUEUE_LIMIT, also one that is
\* closed because its reader was too slow, while the run ends, or both; a subscriber that
\* is still fed has not been told that its stream ends; and behind a None there is at most
\* one entry, whoever waited for _lock in the middle of a delivery when the run was closed.
THEOREM QueuesAreBounded == FairSpec => []QueuesStayBounded
<1> DEFINE QueueOK ==
      \A r \in DOMAIN queue : \A i \in DOMAIN queue[r] :
        /\ queue[r][i] \in 0..Len(log)
        /\ queue[r][i] = 0 => r \notin subs /\ Len(queue[r]) <= i + 1
<1>1. EventsInv /\ TurnsInv => QueuesStayBounded
  <2> SUFFICES ASSUME EventsInv, TurnsInv PROVE TypesOK /\ QueueOK
    BY Zenon DEF QueuesStayBounded
  <2>1. CASE focus = "wide"
    <3>1. WideP!QueueInv
      BY <2>1 DEF EventsInv
    <3>2. WideP!TypeOK /\ QueueOK
      BY <3>1, WideP!QueuesAreTyped
    <3>. QED BY <2>1, <3>2, SameStates DEF TypesOK
  <2>2. CASE focus = "narrow"
    <3>1. NarrowP!QueueInv
      BY <2>2 DEF EventsInv
    <3>2. NarrowP!TypeOK /\ QueueOK
      BY <3>1, NarrowP!QueuesAreTyped
    <3>. QED BY <2>2, <3>2, SameStates DEF TypesOK
  <2>3. CASE focus = "turns"
    <3>1. TurnsTypeOK
      BY DEF TurnsInv
    <3>2. \A r \in DOMAIN queue : DOMAIN queue[r] = {}
      BY <2>3 DEF EventsInv
    <3>. QED BY <2>3, <3>1, <3>2 DEF TypesOK
  <2>. QED BY <2>1, <2>2, <2>3 DEF EventsInv
<1>. QED BY <1>1, EventsInvHolds, TurnsHold, PTL

\* For any number of rounds, calls, runs and crashes: between runs the history has every
\* attempt that published something, and a branch that was cut away never comes back.
THEOREM HistoriesAreFaithful == FairSpec => []HistoryIsFaithful
BY TurnsHold, TurnsAreFaithful, PTL

\* ... and the messages of every request are ones that ContextIntegrityValidator accepts,
\* whatever was cut off before, wherever a result of a subagent came in between; a call
\* whose receipt is complete is in them with its outcome.
THEOREM RequestsAreSound == FairSpec => []RequestIsSound
BY TurnsHold, TurnsAreSound, PTL
=============================================================================
