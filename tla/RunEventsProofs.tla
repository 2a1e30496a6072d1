---------------------------- MODULE RunEventsProofs ----------------------------
(* Facts about RunEvents for every number of readers, publishers and events and      *)
(* every capacity of the queues: the bound and the end of a queue (QueueInv), and    *)
(* what the stream of a reader is about to send when no queue can overflow           *)
(* (StreamInv).  EventsProofs states the theorems.                                   *)
EXTENDS RunEvents, FiniteSetTheorems, TLAPS

Numbers == 0..Len(log)
EventTypes ==
  /\ log \in Seq(Kinds) /\ life \in {"idle", "running", "closing"}
  /\ subs \subseteq Readers /\ walk \in Walks /\ walk.event \in Numbers
  /\ pending \in [Publishers -> Numbers]
  /\ queue \in [Readers -> Seq(Numbers)] /\ backlog \in [Readers -> Seq(Numbers)]
  /\ reader \in [Readers -> Phases] /\ entered \in [Readers -> BOOLEAN]
  /\ cursor \in [Readers -> Numbers] /\ drops \in Nat

\* A queue without a None, and one with at most k entries behind a None.
Clear(q) == \A i \in DOMAIN q : q[i] # 0
Behind(q, k) == \A i \in DOMAIN q : q[i] = 0 => Len(q) <= i + k

\* No queue is longer than its capacity, and at most one entry is behind a None; none is
\* in a queue that the delivery under way has still to come to, and a queue that is fed
\* has no None.
WithinCapacity == \A r \in Readers : Len(queue[r]) <= Capacity
OneBehind == \A r \in Readers : Behind(queue[r], 1)
ToVisit == \A r \in walk.full \cup walk.rest : Behind(queue[r], 0)
FedIsOpen == \A r \in subs : Clear(queue[r])
OnTheWay == walk.full \cap walk.rest = {} /\ (walk # Home => walk.event # 0)
OffIsEmpty ==
  \A r \in Readers : reader[r] = "off" =>
    r \notin subs /\ r \notin walk.full \cup walk.rest /\ queue[r] = <<>>

QueueInv == /\ EventTypes /\ WithinCapacity /\ OneBehind /\ ToVisit
            /\ FedIsOpen /\ OnTheWay /\ OffIsEmpty

-----------------------------------------------------------------------------
(* The operators on queues                                                   *)

LEMMA ClearIsBehind ==
  ASSUME NEW q, Clear(q) \/ Behind(q, 0), Len(q) \in Nat, DOMAIN q = 1..Len(q)
  PROVE  Behind(q, 0) /\ Behind(q, 1)
BY DEF Clear, Behind

\* An event goes behind what is in a queue.
LEMMA FedQueue ==
  ASSUME NEW q \in Seq(Numbers), Len(q) < Capacity, Bounded, NEW n \in Numbers, n # 0
  PROVE  /\ Append(q, n) \in Seq(Numbers) /\ Len(Append(q, n)) <= Capacity
         /\ Clear(q) => Clear(Append(q, n))
         /\ Behind(q, 0) => Behind(Append(q, n), 1)
<1> DEFINE u == Append(q, n)
<1>1. u \in Seq(Numbers) /\ Len(u) = Len(q) + 1 /\ DOMAIN u = 1..(Len(q) + 1) /\ Len(q) \in Nat /\ DOMAIN q = 1..Len(q)
  OBVIOUS
<1>2. (\A i \in 1..Len(q) : u[i] = q[i]) /\ u[Len(q) + 1] = n
  OBVIOUS
<1>. HIDE DEF u
<1>3. Clear(q) => Clear(u)
  <2> SUFFICES ASSUME Clear(q), NEW i \in 1..(Len(q) + 1) PROVE u[i] # 0
    BY <1>1 DEF Clear
  <2>1. i \in 1..Len(q) \/ i = Len(q) + 1
    BY <1>1
  <2>. QED BY <1>1, <1>2, <2>1 DEF Clear
<1>4. Behind(q, 0) => Behind(u, 1)
  <2> SUFFICES ASSUME Behind(q, 0), NEW i \in 1..(Len(q) + 1), u[i] = 0 PROVE Len(u) <= i + 1
    BY <1>1 DEF Behind
  <2>1. i \in 1..Len(q)
    BY <1>1, <1>2
  <2>2. Len(q) <= i + 0
    BY <1>1, <1>2, <2>1 DEF Behind
  <2>. QED BY <1>1, <2>1, <2>2
<1>5. Len(u) <= Capacity
  BY <1>1 DEF Bounded
<1>. QED BY <1>1, <1>3, <1>4, <1>5 DEF u

\* The None of a run that is closed, or of a reader that was too slow, is the last entry
\* of its queue, which is no longer than before or than it may be; a queue that had a None
\* at its end gets a second one.
LEMMA ClosedQueues ==
  ASSUME NEW q \in Seq(Numbers), Len(q) <= Capacity, Bounded
  PROVE  /\ CloseFull(q) \in Seq(Numbers) /\ Len(CloseFull(q)) <= Capacity
         /\ PutClose(q) \in Seq(Numbers) /\ Len(PutClose(q)) <= Capacity
         /\ Clear(q) => Behind(PutClose(q), 0)
         /\ Behind(q, 0) => Behind(CloseFull(q), 1)
<1>1. 0 \in Numbers
  BY DEF Numbers
<1>2. CASE q = <<>>
  <2>1. CloseFull(q) = <<>> /\ PutClose(q) = <<0>>
    BY <1>2 DEF CloseFull, PutClose, Bounded
  <2>2. <<>> \in Seq(Numbers) /\ <<0>> \in Seq(Numbers) /\ Len(<<>>) = 0 /\ Len(<<0>>) = 1 /\ DOMAIN <<0>> = 1..1
    BY <1>1
  <2>3. Behind(<<>>, 1) /\ Behind(<<0>>, 0)
    BY <2>2 DEF Behind
  <2>. QED BY <2>1, <2>2, <2>3 DEF Bounded
<1>3. CASE q # <<>>
  <2>1. /\ Tail(q) \in Seq(Numbers) /\ Len(Tail(q)) = Len(q) - 1 /\ Len(q) \in Nat \ {0} /\ DOMAIN q = 1..Len(q)
        /\ \A i \in 1..(Len(q) - 1) : Tail(q)[i] = q[i + 1]
    BY <1>3
  <2> DEFINE t == Append(Tail(q), 0)
             u == Append(q, 0)
  <2>2. t \in Seq(Numbers) /\ Len(t) = Len(q) /\ DOMAIN t = 1..Len(q)
    BY <1>1, <2>1
  <2>3. /\ \A i \in 1..(Len(q) - 1) : t[i] = q[i + 1]
        /\ t[Len(q)] = 0
    BY <1>1, <2>1
  <2>4. u \in Seq(Numbers) /\ Len(u) = Len(q) + 1 /\ DOMAIN u = 1..(Len(q) + 1)
    BY <1>1, <2>1
  <2>5. /\ \A i \in 1..Len(q) : u[i] = q[i]
        /\ u[Len(q) + 1] = 0
    BY <1>1, <2>1
  <2>6. CloseFull(q) = t /\ PutClose(q) = IF Len(q) < Capacity THEN u ELSE t
    BY <1>3 DEF CloseFull, PutClose
  <2>. HIDE DEF t, u
  <2>7. ASSUME Clear(q) PROVE Behind(t, 0) /\ Behind(u, 0)
    <3>1. ASSUME NEW i \in 1..Len(q), t[i] = 0 PROVE Len(t) <= i + 0
      <4>1. i \in 1..(Len(q) - 1) => i + 1 \in DOMAIN q /\ t[i] = q[i + 1]
        BY <2>1, <2>3
      <4>2. i \notin 1..(Len(q) - 1)
        BY <2>7, <3>1, <4>1 DEF Clear
      <4>3. i = Len(q)
        <5> DEFINE l == Len(q)
        <5>1. l \in Nat \ {0} /\ i \in 1..l /\ i \notin 1..(l - 1)
          BY <2>1, <3>1, <4>2
        <5>. HIDE DEF l
        <5>2. i = l
          BY <5>1
        <5>. QED BY <5>2 DEF l
      <4>. QED BY <2>1, <2>2, <4>3
    <3>2. ASSUME NEW i \in 1..(Len(q) + 1), u[i] = 0 PROVE Len(u) <= i + 0
      <4>1. i \in 1..Len(q) => i \in DOMAIN q /\ u[i] = q[i]
        BY <2>1, <2>5
      <4>2. i = Len(q) + 1
        BY <2>1, <2>7, <3>2, <4>1 DEF Clear
      <4>. QED BY <2>1, <2>4, <4>2
    <3>. QED BY <2>2, <2>4, <3>1, <3>2 DEF Behind
  <2>8. ASSUME Behind(q, 0) PROVE Behind(t, 1)
    <3> SUFFICES ASSUME NEW i \in 1..Len(q), t[i] = 0 PROVE Len(t) <= i + 1
      BY <2>2 DEF Behind
    <3>1. CASE i = Len(q)
      BY <2>1, <2>2, <3>1
    <3>2. CASE i # Len(q)
      <4>1. i \in 1..(Len(q) - 1) /\ i + 1 \in DOMAIN q
        <5> DEFINE l == Len(q)
        <5>1. l \in Nat \ {0} /\ i \in 1..l /\ i # l /\ DOMAIN q = 1..l
          BY <2>1, <3>2
        <5>. HIDE DEF l
        <5>2. i \in 1..(l - 1) /\ i + 1 \in 1..l
          BY <5>1
        <5>. QED BY <5>1, <5>2 DEF l
      <4>2. Len(q) <= (i + 1) + 0
        BY <2>3, <2>8, <4>1 DEF Behind
      <4>. QED BY <2>1, <2>2, <4>2
    <3>. QED BY <3>1, <3>2
  <2>9. Len(q) < Capacity => Len(q) + 1 <= Capacity
    BY <2>1 DEF Bounded
  <2>. QED BY <2>2, <2>4, <2>6, <2>7, <2>8, <2>9
<1>. QED BY <1>2, <1>3

\* A visit of the subscribers S, in whatever order and as far as it comes: who has no None
\* stays without, whoever is still to be visited has nothing behind it, and nobody more
\* than one entry.
LEMMA VisitKeepsQueues ==
  ASSUME NEW by \in SUBSET Publishers, NEW n \in Numbers, n # 0, NEW S \in SUBSET Readers, Bounded,
         NEW q \in [Readers -> Seq(Numbers)], \A r \in Readers : Len(q[r]) <= Capacity,
         \A r \in Readers : Behind(q[r], 1), \A r \in S : Behind(q[r], 0),
         Visit(by, n, S, q)
  PROVE  /\ queue' \in [Readers -> Seq(Numbers)] /\ \A r \in Readers : Len(queue'[r]) <= Capacity
         /\ \A r \in Readers : Behind(queue'[r], 1) /\ (Clear(q[r]) => Clear(queue'[r]))
         /\ \A r \in Readers \ S : queue'[r] = q[r]
         /\ walk' \in Walks /\ walk'.event \in Numbers /\ (walk' # Home => walk'.event # 0)
         /\ walk'.full \cup walk'.rest \subseteq S /\ walk'.full \cap walk'.rest = {}
         /\ \A r \in walk'.full \cup walk'.rest : Behind(queue'[r], 0)
<1>1. PICK fed \in SUBSET {r \in S : Len(q[r]) < Capacity} :
        /\ queue' = [r \in Readers |-> IF r \in fed THEN Append(q[r], n) ELSE q[r]]
        /\ \/ fed = S /\ walk' = Home
           \/ \E r \in S \ {s \in S : Len(q[s]) < Capacity} :
                walk' = [by |-> by, event |-> n, full |-> {r}, rest |-> S \ (fed \cup {r})]
  BY DEF Visit
<1>2. /\ walk' \in Walks /\ walk'.event \in Numbers /\ (walk' # Home => walk'.event # 0)
      /\ walk'.full \cup walk'.rest \subseteq S \ fed /\ walk'.full \cap walk'.rest = {}
  <2>1. 0 \in Numbers /\ Numbers \subseteq Nat
    BY DEF Numbers
  <2>2. CASE walk' = Home
    BY <2>1, <2>2 DEF Walks, Home
  <2>3. ASSUME NEW r \in S \ {s \in S : Len(q[s]) < Capacity},
               walk' = [by |-> by, event |-> n, full |-> {r}, rest |-> S \ (fed \cup {r})]
        PROVE  /\ walk' \in Walks /\ walk'.event = n
               /\ walk'.full \cup walk'.rest \subseteq S \ fed /\ walk'.full \cap walk'.rest = {}
    BY <1>1, <2>1, <2>3 DEF Walks
  <2>. QED BY <1>1, <2>2, <2>3
<1>3. ASSUME NEW r \in Readers
      PROVE  /\ queue'[r] \in Seq(Numbers) /\ Len(queue'[r]) <= Capacity /\ Behind(queue'[r], 1)
             /\ Clear(q[r]) => Clear(queue'[r])
             /\ r \notin fed => queue'[r] = q[r]
  <2>1. CASE r \in fed
    <3>1. queue'[r] = Append(q[r], n) /\ Len(q[r]) < Capacity /\ r \in S /\ q[r] \in Seq(Numbers) /\ Behind(q[r], 0)
      BY <1>1, <2>1
    <3>. QED BY <2>1, <3>1, FedQueue
  <2>2. CASE r \notin fed
    BY <1>1, <2>2
  <2>. QED BY <2>1, <2>2
<1>4. queue' \in [Readers -> Seq(Numbers)]
  <2>1. queue' = [r \in Readers |-> queue'[r]]
    BY <1>1
  <2>. QED BY <1>3, <2>1
<1>. QED BY <1>1, <1>2, <1>3, <1>4

\* The numbers of a finite set in their order: each of them, and nothing else.
LEMMA SortedNumbers ==
  ASSUME NEW S, S \subseteq Numbers, Len(log) \in Nat
  PROVE  Sorted(S) \in Seq(S) /\ Len(Sorted(S)) = Cardinality(S)
<1> DEFINE upto(n) == {m \in S : m <= n}
           rank == [n \in S |-> Cardinality(upto(n))]
<1>1. S \subseteq Nat /\ IsFiniteSet(S) /\ Cardinality(S) \in Nat
  <2>1. IsFiniteSet(Numbers)
    BY FS_Interval DEF Numbers
  <2>2. IsFiniteSet(S)
    BY <2>1, FS_Subset
  <2>. QED BY <2>2, FS_CardinalityType DEF Numbers
<1>2. \A n \in S : IsFiniteSet(upto(n)) /\ Cardinality(upto(n)) \in 1..Cardinality(S)
  <2> TAKE n \in S
  <2>1. upto(n) \in SUBSET S /\ n \in upto(n)
    BY <1>1
  <2>2. IsFiniteSet(upto(n)) /\ Cardinality(upto(n)) <= Cardinality(S)
    BY <1>1, <2>1, FS_Subset
  <2>3. Cardinality(upto(n)) \in Nat /\ Cardinality(upto(n)) # 0
    BY <2>1, <2>2, FS_CardinalityType, FS_EmptySet
  <2>. QED BY <1>1, <2>2, <2>3
<1>3. \A n, k \in S : n < k => Cardinality(upto(n)) # Cardinality(upto(k))
  <2> TAKE n, k \in S
  <2>1. SUFFICES ASSUME n < k PROVE Cardinality(upto(n)) # Cardinality(upto(k))
    OBVIOUS
  <2>2. upto(n) \in SUBSET upto(k) /\ k \in upto(k) /\ k \notin upto(n)
    <3>1. \A m \in S : m <= n => m <= k
      BY <1>1, <2>1
    <3>2. k <= k /\ ~ (k <= n)
      BY <1>1, <2>1
    <3>. QED BY <3>1, <3>2
  <2>3. IsFiniteSet(upto(n)) /\ IsFiniteSet(upto(k)) /\ upto(n) # upto(k)
    BY <1>2, <2>2
  <2>. HIDE DEF upto
  <2>. QED BY <2>2, <2>3, FS_Subset
<1>4. rank \in Injection(S, 1..Cardinality(S))
  <2>1. rank \in [S -> 1..Cardinality(S)]
    BY <1>2
  <2>2. \A n, k \in S : rank[n] = rank[k] => n = k
    BY <1>1, <1>3
  <2>. QED BY <2>1, <2>2 DEF Injection, IsInjective
<1>5. IsFiniteSet(1..Cardinality(S)) /\ Cardinality(1..Cardinality(S)) = Cardinality(S)
  BY <1>1, FS_Interval
<1>6. rank \in Surjection(S, 1..Cardinality(S))
  BY <1>4, <1>5, FS_Injection
<1>7. \A i \in 1..Cardinality(S) : \E n \in S : Cardinality({m \in S : m <= n}) = i
  BY <1>6 DEF Surjection
<1>8. \A i \in 1..Cardinality(S) : (CHOOSE n \in S : Cardinality({m \in S : m <= n}) = i) \in S
  BY <1>7
<1>9. \A N \in Nat : \A f \in [1..N -> S] : f \in Seq(S) /\ Len(f) = N
  OBVIOUS
<1>10. Sorted(S) \in [1..Cardinality(S) -> S]
  BY <1>8 DEF Sorted
<1>. QED BY <1>1, <1>9, <1>10

\* ... which are the next ones when the set is an interval.
LEMMA SortedInterval ==
  ASSUME NEW a \in Nat, NEW k \in Nat
  PROVE  Sorted((a + 1)..(a + k)) = [i \in 1..k |-> a + i]
<1> DEFINE S == (a + 1)..(a + k)
<1>1. Cardinality(S) = k
  BY FS_Interval
<1>2. \A n \in S : Cardinality({m \in S : m <= n}) = n - a
  <2> TAKE n \in S
  <2>1. {m \in S : m <= n} = (a + 1)..n
    OBVIOUS
  <2>2. Cardinality((a + 1)..n) = n - a
    BY FS_Interval
  <2>. QED BY <2>1, <2>2
<1>3. \A i \in 1..k : (CHOOSE n \in S : Cardinality({m \in S : m <= n}) = i) = a + i
  <2> TAKE i \in 1..k
  <2>1. a + i \in S /\ \A n \in S : Cardinality({m \in S : m <= n}) = i <=> n = a + i
    BY <1>2
  <2>. QED BY <2>1
<1>. QED BY <1>1, <1>3 DEF Sorted

-----------------------------------------------------------------------------
(* QueueInv is an invariant                                                  *)

LEMMA QueueInitHolds == Bounded /\ Init => QueueInv
<1> SUFFICES ASSUME Bounded, Init PROVE QueueInv
  OBVIOUS
<1>1. 0 \in Numbers /\ <<>> \in Seq(Numbers) /\ log \in Seq(Kinds) /\ Len(log) = 0
  BY DEF Init, Numbers
<1>2. EventTypes
  BY <1>1 DEF Init, EventTypes, Phases, Walks, Home
<1>3. OneBehind /\ ToVisit /\ FedIsOpen /\ OnTheWay
  BY DEF Init, OneBehind, ToVisit, FedIsOpen, OnTheWay, Behind, Home
<1>. QED BY <1>2, <1>3 DEF Init, QueueInv, WithinCapacity, OffIsEmpty, Bounded, Home

\* A longer log has the numbers of the shorter one.
LEMMA LongerLog ==
  ASSUME EventTypes, NEW kind \in Kinds, log' = Append(log, kind)
  PROVE  /\ log' \in Seq(Kinds) /\ Len(log') = Len(log) + 1 /\ Len(log) \in Nat
         /\ Numbers \subseteq Numbers' /\ Seq(Numbers) \subseteq Seq(Numbers') /\ Len(log) + 1 \in Numbers'
<1>1. log' \in Seq(Kinds) /\ Len(log') = Len(log) + 1 /\ Len(log) \in Nat
  BY DEF EventTypes
<1>2. Numbers \subseteq Numbers' /\ Len(log) + 1 \in Numbers'
  BY <1>1 DEF Numbers
<1>. QED BY <1>1, <1>2

LEMMA AppendKeepsQueues ==
  ASSUME QueueInv, NEW p \in Publishers, NEW kind \in Kinds, Commit(p, kind) \/ StoreAppend
  PROVE  QueueInv'
<1>1. /\ EventTypes /\ UNCHANGED <<subs, walk, queue, reader, entered, backlog, cursor, drops>>
      /\ \E k \in Kinds : log' = Append(log, k)
      /\ pending' = pending \/ pending' = [pending EXCEPT ![p] = Len(log) + 1]
      /\ life' \in {"idle", "running", "closing"}
  BY DEF QueueInv, EventTypes, Commit, StoreAppend, Append1, readers, Kinds
<1>2. Numbers \subseteq Numbers' /\ Seq(Numbers) \subseteq Seq(Numbers') /\ log' \in Seq(Kinds) /\ Len(log) + 1 \in Numbers'
  BY <1>1, LongerLog
<1>3. EventTypes'
  <2>1. pending' \in [Publishers -> Numbers']
    BY <1>1, <1>2 DEF EventTypes
  <2>2. queue' \in [Readers -> Seq(Numbers')] /\ backlog' \in [Readers -> Seq(Numbers')]
    BY <1>1, <1>2 DEF EventTypes
  <2>3. cursor' \in [Readers -> Numbers'] /\ walk' \in Walks /\ walk'.event \in Numbers'
    BY <1>1, <1>2 DEF EventTypes
  <2>. QED BY <1>1, <1>2, <2>1, <2>2, <2>3 DEF EventTypes
<1>. QED BY <1>1, <1>3 DEF QueueInv, WithinCapacity, OneBehind, ToVisit, FedIsOpen, OnTheWay, OffIsEmpty

LEMMA DeliverKeepsQueues ==
  ASSUME QueueInv, Bounded, NEW p \in Publishers, Deliver(p)
  PROVE  QueueInv'
<1>1. /\ EventTypes /\ UNCHANGED <<log, subs, reader, entered, backlog, cursor, drops>> /\ Numbers' = Numbers
      /\ pending[p] # 0 /\ pending[p] \in Numbers /\ pending' = [pending EXCEPT ![p] = 0] /\ 0 \in Numbers
      /\ Visit({p}, pending[p], subs, queue) /\ life' \in {"idle", "running", "closing"}
  BY DEF QueueInv, EventTypes, Deliver, readers, Numbers
<1> DEFINE n == pending[p]
<1>2. /\ {p} \in SUBSET Publishers /\ n \in Numbers /\ n # 0 /\ subs \in SUBSET Readers
      /\ queue \in [Readers -> Seq(Numbers)] /\ (\A r \in Readers : Len(queue[r]) <= Capacity)
      /\ (\A r \in Readers : Behind(queue[r], 1))
  BY <1>1 DEF QueueInv, EventTypes, WithinCapacity, OneBehind
<1>3. \A r \in subs : Behind(queue[r], 0)
  <2> TAKE r \in subs
  <2>1. Clear(queue[r]) /\ queue[r] \in Seq(Numbers)
    BY <1>2 DEF QueueInv, FedIsOpen
  <2>. QED BY <2>1, ClearIsBehind
<1>4. Visit({p}, n, subs, queue)
  BY <1>1
<1>. HIDE DEF n
<1>5. /\ queue' \in [Readers -> Seq(Numbers)] /\ (\A r \in Readers : Len(queue'[r]) <= Capacity)
      /\ (\A r \in Readers : Behind(queue'[r], 1) /\ (Clear(queue[r]) => Clear(queue'[r])))
      /\ (\A r \in Readers \ subs : queue'[r] = queue[r])
      /\ walk' \in Walks /\ walk'.event \in Numbers /\ (walk' # Home => walk'.event # 0)
      /\ walk'.full \cup walk'.rest \subseteq subs /\ walk'.full \cap walk'.rest = {}
      /\ (\A r \in walk'.full \cup walk'.rest : Behind(queue'[r], 0))
  BY <1>2, <1>3, <1>4, VisitKeepsQueues
<1>6. EventTypes'
  <2>1. pending' \in [Publishers -> Numbers']
    BY <1>1 DEF EventTypes
  <2>. QED BY <1>1, <1>5, <2>1 DEF EventTypes
<1>7. FedIsOpen' /\ OffIsEmpty'
  BY <1>1, <1>2, <1>5 DEF QueueInv, FedIsOpen, OffIsEmpty
<1>. QED BY <1>5, <1>6, <1>7 DEF QueueInv, WithinCapacity, OneBehind, ToVisit, OnTheWay

\* The full subscriber gets its None, maybe behind the one of _close_run, and is fed no
\* longer; the visit goes on.
LEMMA GoOnKeepsQueues ==
  ASSUME QueueInv, Bounded, GoOn
  PROVE  QueueInv'
<1>1. /\ EventTypes /\ UNCHANGED <<log, life, pending, reader, entered, backlog, cursor, drops>> /\ Numbers' = Numbers
      /\ walk # Home /\ walk.event \in Numbers /\ walk.event # 0 /\ subs' = subs \ walk.full
      /\ Visit(walk.by, walk.event, walk.rest, CloseSlow)
      /\ walk.by \in SUBSET Publishers /\ walk.full \in SUBSET Readers /\ walk.rest \in SUBSET Readers
      /\ walk.full \cap walk.rest = {}
  BY DEF QueueInv, EventTypes, GoOn, readers, Numbers, Walks, OnTheWay
<1> DEFINE q == CloseSlow
           S == walk.rest
<1>2. ASSUME NEW r \in Readers
      PROVE  /\ q[r] \in Seq(Numbers) /\ Len(q[r]) <= Capacity /\ Behind(q[r], 1)
             /\ r \notin walk.full => q[r] = queue[r]
  <2>1. queue[r] \in Seq(Numbers) /\ Len(queue[r]) <= Capacity /\ Behind(queue[r], 1)
    BY <1>1 DEF QueueInv, EventTypes, WithinCapacity, OneBehind
  <2>2. CASE r \in walk.full
    <3>1. q[r] = CloseFull(queue[r]) /\ Behind(queue[r], 0)
      BY <2>2 DEF CloseSlow, QueueInv, ToVisit
    <3>. QED BY <2>1, <2>2, <3>1, ClosedQueues
  <2>3. CASE r \notin walk.full
    <3>1. q[r] = queue[r]
      BY <2>3 DEF CloseSlow
    <3>. QED BY <2>1, <3>1
  <2>. QED BY <2>2, <2>3
<1>3. q \in [Readers -> Seq(Numbers)]
  <2>1. q = [r \in Readers |-> q[r]]
    BY DEF CloseSlow
  <2>. QED BY <1>2, <2>1
<1>4. \A r \in S : Behind(q[r], 0)
  BY <1>1, <1>2 DEF QueueInv, ToVisit
<1>5. Visit(walk.by, walk.event, S, q) /\ S \in SUBSET Readers
  BY <1>1
<1>. HIDE DEF q, S
<1>6. /\ queue' \in [Readers -> Seq(Numbers)] /\ (\A r \in Readers : Len(queue'[r]) <= Capacity)
      /\ (\A r \in Readers : Behind(queue'[r], 1) /\ (Clear(q[r]) => Clear(queue'[r])))
      /\ (\A r \in Readers \ S : queue'[r] = q[r])
      /\ walk' \in Walks /\ walk'.event \in Numbers /\ (walk' # Home => walk'.event # 0)
      /\ walk'.full \cup walk'.rest \subseteq S /\ walk'.full \cap walk'.rest = {}
      /\ (\A r \in walk'.full \cup walk'.rest : Behind(queue'[r], 0))
  BY <1>1, <1>2, <1>3, <1>4, <1>5, VisitKeepsQueues
<1>7. EventTypes'
  BY <1>1, <1>6 DEF EventTypes
<1>8. FedIsOpen'
  <2> SUFFICES ASSUME NEW r \in subs' PROVE Clear(queue'[r])
    BY DEF FedIsOpen
  <2>1. r \in subs /\ r \in Readers /\ r \notin walk.full
    BY <1>1 DEF EventTypes
  <2>2. Clear(q[r])
    BY <1>2, <2>1 DEF QueueInv, FedIsOpen
  <2>. QED BY <1>6, <2>1, <2>2
<1>9. OffIsEmpty'
  <2> SUFFICES ASSUME NEW r \in Readers, reader[r] = "off"
               PROVE  r \notin subs' /\ r \notin walk'.full \cup walk'.rest /\ queue'[r] = <<>>
    BY <1>1 DEF OffIsEmpty
  <2>1. r \notin subs /\ r \notin walk.full /\ r \notin walk.rest /\ queue[r] = <<>>
    BY DEF QueueInv, OffIsEmpty
  <2>2. r \notin S /\ q[r] = <<>>
    BY <1>2, <2>1 DEF S
  <2>. QED BY <1>1, <1>6, <2>1, <2>2
<1>. QED BY <1>6, <1>7, <1>8, <1>9 DEF QueueInv, WithinCapacity, OneBehind, ToVisit, OnTheWay

\* _close_run puts a None into every queue that is fed, and feeds none of them any more.
LEMMA CloseRunKeepsQueues ==
  ASSUME QueueInv, Bounded, CloseRun
  PROVE  QueueInv'
<1>1. /\ EventTypes /\ life' = "idle" /\ subs' = {} /\ Numbers' = Numbers
      /\ UNCHANGED <<log, pending, walk, reader, entered, backlog, cursor, drops>>
      /\ queue' = [r \in Readers |-> IF r \in subs THEN PutClose(queue[r]) ELSE queue[r]]
  BY DEF CloseRun, readers, QueueInv, Numbers
<1>2. ASSUME NEW r \in Readers
      PROVE  /\ queue'[r] \in Seq(Numbers) /\ Len(queue'[r]) <= Capacity /\ Behind(queue'[r], 1)
             /\ Behind(queue[r], 0) => Behind(queue'[r], 0)
             /\ r \notin subs => queue'[r] = queue[r]
  <2>1. queue[r] \in Seq(Numbers) /\ Len(queue[r]) <= Capacity /\ Behind(queue[r], 1)
    BY <1>1 DEF QueueInv, EventTypes, WithinCapacity, OneBehind
  <2>2. CASE r \in subs
    <3>1. queue'[r] = PutClose(queue[r]) /\ Clear(queue[r])
      BY <1>1, <2>2 DEF QueueInv, FedIsOpen
    <3>2. PutClose(queue[r]) \in Seq(Numbers) /\ Len(PutClose(queue[r])) <= Capacity /\ Behind(PutClose(queue[r]), 0)
      BY <2>1, <3>1, ClosedQueues
    <3>. QED BY <2>2, <3>1, <3>2, ClearIsBehind
  <2>3. CASE r \notin subs
    BY <1>1, <2>1, <2>3
  <2>. QED BY <2>2, <2>3
<1>3. queue' \in [Readers -> Seq(Numbers)]
  <2>1. queue' = [r \in Readers |-> queue'[r]]
    BY <1>1
  <2>. QED BY <1>2, <2>1
<1>4. EventTypes'
  BY <1>1, <1>3 DEF EventTypes
<1>5. ToVisit'
  <2>1. walk.full \cup walk.rest \subseteq Readers
    BY <1>1 DEF EventTypes, Walks
  <2>. QED BY <1>1, <1>2, <2>1 DEF QueueInv, ToVisit
<1>. QED BY <1>1, <1>2, <1>4, <1>5 DEF QueueInv, WithinCapacity, OneBehind, FedIsOpen, OnTheWay, OffIsEmpty

\* A reader that leaves takes its queue along, or goes on with less of it.
LEMMA ReadingKeepsQueues ==
  ASSUME QueueInv, Bounded, NEW r \in Readers,
         UNCHANGED <<log, life, pending>>, subs' \subseteq subs,
         walk' = walk \/ walk' = [walk EXCEPT !.full = @ \ {r}, !.rest = @ \ {r}],
         reader' \in [Readers -> Phases], \A s \in Readers \ {r} : reader'[s] = reader[s],
         reader'[r] = "off" => r \notin subs' /\ r \notin walk'.full \cup walk'.rest /\ queue'[r] = <<>>,
         entered' \in [Readers -> BOOLEAN], drops' \in Nat,
         cursor' \in [Readers -> Numbers], backlog' \in [Readers -> Seq(Numbers)],
         queue' = queue \/ queue' = [queue EXCEPT ![r] = <<>>]
           \/ (queue[r] # <<>> /\ queue' = [queue EXCEPT ![r] = Tail(@)])
  PROVE  QueueInv'
<1>1. EventTypes /\ Numbers' = Numbers
  BY DEF QueueInv, Numbers
<1>2. queue[r] \in Seq(Numbers) /\ <<>> \in Seq(Numbers)
  BY <1>1 DEF EventTypes
<1>3. /\ queue' \in [Readers -> Seq(Numbers)] /\ \A s \in Readers \ {r} : queue'[s] = queue[s]
      /\ queue'[r] = queue[r] \/ queue'[r] = <<>> \/ (queue[r] # <<>> /\ queue'[r] = Tail(queue[r]))
  <2>1. queue[r] # <<>> => Tail(queue[r]) \in Seq(Numbers)
    BY <1>2
  <2>2. queue \in [Readers -> Seq(Numbers)] /\ r \in Readers
    BY <1>1 DEF EventTypes
  <2>3. CASE queue' = queue
    BY <2>2, <2>3
  <2>4. CASE queue' = [queue EXCEPT ![r] = <<>>]
    BY <1>2, <2>2, <2>4
  <2>5. CASE queue[r] # <<>> /\ queue' = [queue EXCEPT ![r] = Tail(@)]
    <3> DEFINE rest == Tail(queue[r])
    <3>1. rest \in Seq(Numbers) /\ queue' = [queue EXCEPT ![r] = rest]
      BY <2>1, <2>5
    <3>2. queue[r] # <<>> /\ rest = Tail(queue[r])
      BY <2>5
    <3>. HIDE DEF rest
    <3>3. queue' \in [Readers -> Seq(Numbers)] /\ (\A s \in Readers \ {r} : queue'[s] = queue[s]) /\ queue'[r] = rest
      BY <2>2, <3>1
    <3>. QED BY <3>2, <3>3
  <2>. QED BY <2>3, <2>4, <2>5
<1>4. /\ walk' \in Walks /\ walk'.event = walk.event /\ walk'.full \subseteq walk.full /\ walk'.rest \subseteq walk.rest
      /\ walk' # Home => walk # Home
  <2>1. walk \in Walks
    BY <1>1 DEF EventTypes
  <2>2. CASE walk' = walk
    BY <2>1, <2>2
  <2>3. CASE walk' = [walk EXCEPT !.full = @ \ {r}, !.rest = @ \ {r}]
    <3>1. walk' = [by |-> walk.by, event |-> walk.event, full |-> walk.full \ {r}, rest |-> walk.rest \ {r}]
      BY <2>1, <2>3 DEF Walks
    <3>2. walk' \in Walks
      BY <2>1, <3>1 DEF Walks
    <3>3. walk = Home => walk' = Home
      BY <3>1 DEF Home
    <3>. QED BY <3>1, <3>2, <3>3
  <2>. QED BY <2>2, <2>3
<1>5. EventTypes'
  BY <1>1, <1>3, <1>4 DEF EventTypes
<1>6. /\ Len(queue'[r]) <= Len(queue[r]) /\ (Clear(queue[r]) => Clear(queue'[r]))
      /\ \A k \in {0, 1} : Behind(queue[r], k) => Behind(queue'[r], k)
  <2>1. CASE queue'[r] = queue[r]
    BY <1>2, <2>1
  <2>2. CASE queue'[r] = <<>>
    BY <1>2, <2>2 DEF Clear, Behind
  <2>3. CASE queue[r] # <<>> /\ queue'[r] = Tail(queue[r])
    <3> DEFINE q == queue[r]
               t == queue'[r]
    <3>1. /\ Len(t) = Len(q) - 1 /\ Len(q) \in Nat \ {0} /\ DOMAIN t = 1..(Len(q) - 1) /\ DOMAIN q = 1..Len(q)
          /\ \A i \in 1..(Len(q) - 1) : t[i] = q[i + 1]
      BY <1>2, <2>3
    <3>. HIDE DEF q, t
    <3>2. \A i \in DOMAIN t : i \in Nat /\ i + 1 \in DOMAIN q /\ t[i] = q[i + 1]
      BY <3>1
    <3>3. Clear(q) => Clear(t)
      BY <3>2 DEF Clear
    <3>4. ASSUME NEW k \in {0, 1}, Behind(q, k), NEW i \in DOMAIN t, t[i] = 0 PROVE Len(t) <= i + k
      <4>1. i \in Nat /\ Len(q) <= (i + 1) + k
        BY <3>2, <3>4 DEF Behind
      <4>. QED BY <3>1, <3>4, <4>1
    <3>5. \A k \in {0, 1} : Behind(q, k) => Behind(t, k)
      BY <3>4 DEF Behind
    <3>6. Len(t) <= Len(q)
      BY <3>1
    <3>. QED BY <3>3, <3>5, <3>6 DEF q, t
  <2>. QED BY <1>3, <2>1, <2>2, <2>3
<1>7. WithinCapacity'
  <2>1. Len(queue[r]) \in Nat /\ Len(queue'[r]) \in Nat /\ Len(queue[r]) <= Capacity
    BY <1>2, <1>3 DEF QueueInv, WithinCapacity
  <2>2. Len(queue'[r]) <= Capacity
    BY <2>1, <1>6 DEF Bounded
  <2>. QED BY <2>2, <1>3 DEF QueueInv, WithinCapacity
<1>8. OneBehind' /\ ToVisit' /\ FedIsOpen' /\ OnTheWay'
  <2>1. walk.full \cup walk.rest \subseteq Readers /\ subs \subseteq Readers
    BY <1>1 DEF EventTypes, Walks
  <2>2. \A s \in Readers : /\ Clear(queue[s]) => Clear(queue'[s])
                           /\ \A k \in {0, 1} : Behind(queue[s], k) => Behind(queue'[s], k)
    BY <1>3, <1>6
  <2>3. OneBehind' /\ FedIsOpen'
    BY <2>1, <2>2 DEF QueueInv, OneBehind, FedIsOpen
  <2>4. ToVisit'
    BY <1>4, <2>1, <2>2 DEF QueueInv, ToVisit
  <2>. QED BY <1>4, <2>3, <2>4 DEF QueueInv, OnTheWay
<1>9. OffIsEmpty'
  BY <1>3, <1>4 DEF QueueInv, OffIsEmpty
<1>. QED BY <1>5, <1>7, <1>8, <1>9 DEF QueueInv

\* What a reader reads from its queue and from its backlog are numbers of the log, or None.
LEMMA ReaderFacts ==
  ASSUME QueueInv, NEW r \in Readers
  PROVE  /\ EventTypes /\ Numbers' = 0..Len(log') /\ Len(log) \in Nat /\ 0 \in Numbers
         /\ queue[r] \in Seq(Numbers) /\ backlog[r] \in Seq(Numbers) /\ cursor[r] \in Numbers /\ <<>> \in Seq(Numbers)
         /\ queue[r] # <<>> => Head(queue[r]) \in Numbers /\ Tail(queue[r]) \in Seq(Numbers)
         /\ backlog[r] # <<>> => Head(backlog[r]) \in Numbers /\ Tail(backlog[r]) \in Seq(Numbers)
         /\ Numbers \subseteq Nat
BY DEF QueueInv, EventTypes, Numbers

LEMMA MergedNumbers ==
  ASSUME QueueInv, NEW r \in Readers
  PROVE  Merged(r) \in Seq(Numbers)
<1> DEFINE S == {n \in Entries(backlog[r]) \cup Entries(queue[r]) : n > cursor[r]}
<1>1. S \subseteq Numbers /\ Len(log) \in Nat /\ 0 \in Numbers
  BY ReaderFacts DEF Entries
<1>2. Sorted(S) \in Seq(S)
  BY <1>1, SortedNumbers
<1>. HIDE DEF S
<1>3. Sorted(S) \in Seq(Numbers)
  BY <1>1, <1>2
<1>4. Append(Sorted(S), 0) \in Seq(Numbers)
  BY <1>1, <1>3
<1>. QED BY <1>3, <1>4 DEF Merged, S

LEMMA ReadsKeepQueues ==
  ASSUME QueueInv, Bounded, NEW r \in Readers, Read(r) \/ Drop(r)
  PROVE  QueueInv'
<1>1. EventTypes
  BY DEF QueueInv
<1>2. CASE Connect(r)
  <2>1. /\ reader[r] = "off" /\ queue[r] = <<>> /\ r \notin walk.full \cup walk.rest /\ reader' = [reader EXCEPT ![r] = "subscribed"]
        /\ UNCHANGED <<log, life, pending, walk, queue, backlog, cursor, drops>> /\ Numbers' = Numbers
        /\ subs' \subseteq subs \cup {r} /\ entered' \in [Readers -> BOOLEAN]
    BY <1>1, <1>2 DEF Connect, QueueInv, OffIsEmpty, EventTypes, Numbers, runVars
  <2>2. EventTypes'
    BY <1>1, <2>1 DEF EventTypes, Phases
  <2>3. FedIsOpen' /\ OffIsEmpty'
    BY <1>1, <2>1 DEF QueueInv, FedIsOpen, OffIsEmpty, EventTypes, Clear
  <2>. QED BY <2>1, <2>2, <2>3 DEF QueueInv, WithinCapacity, OneBehind, ToVisit, OnTheWay
<1>3. CASE ReadLog(r)
  <2>1. [i \in 1..(Len(log) - cursor[r]) |-> cursor[r] + i] \in Seq(Numbers)
    <3>1. Len(log) \in Nat /\ cursor[r] \in 0..Len(log) /\ Len(log) - cursor[r] \in Nat
      BY ReaderFacts DEF Numbers
    <3>2. \A i \in 1..(Len(log) - cursor[r]) : cursor[r] + i \in 0..Len(log)
      BY <3>1
    <3>. QED BY <3>1, <3>2 DEF Numbers
  <2>2. backlog' \in [Readers -> Seq(Numbers)] /\ reader' = [reader EXCEPT ![r] = "read"]
    BY <1>1, <1>3, <2>1 DEF ReadLog, EventTypes
  <2>. QED BY ZenonT(40), <1>1, <1>3, <2>2, ReadingKeepsQueues DEF ReadLog, EventTypes, Phases, runVars
<1>4. CASE Drain(r)
  <2>1. backlog' \in [Readers -> Seq(Numbers)] /\ reader' = [reader EXCEPT ![r] = "backlog"]
    BY <1>1, <1>4, MergedNumbers DEF Drain, EventTypes
  <2>. QED BY ZenonT(40), <1>1, <1>4, <2>1, ReadingKeepsQueues DEF Drain, EventTypes, Phases, runVars
<1>5. CASE Replay(r)
  BY <1>1, <1>5, ReadingKeepsQueues DEF Replay, EventTypes, Phases, runVars
<1>6. ASSUME Leave(r), UNCHANGED <<log, life, pending, entered>>, drops' \in Nat, cursor' \in [Readers -> Numbers]
      PROVE  QueueInv'
  <2>1. /\ backlog' \in [Readers -> Seq(Numbers)] /\ queue'[r] = <<>>
        /\ r \notin walk'.full \cup walk'.rest
    BY <1>1, <1>6 DEF Leave, EventTypes, Walks
  <2>. QED BY <1>1, <1>6, <2>1, ReadingKeepsQueues DEF Leave, EventTypes, Phases
<1>7. CASE Drop(r)
  BY <1>1, <1>6, <1>7 DEF Drop, EventTypes, runVars
<1>8. ASSUME NEW n \in Numbers, Send(r, n) PROVE cursor' \in [Readers -> Numbers]
  BY <1>1, <1>8 DEF Send, EventTypes
<1>9. CASE Yield(r)
  <2>1. Head(backlog[r]) \in Numbers /\ Tail(backlog[r]) \in Seq(Numbers) /\ Send(r, Head(backlog[r]))
    BY <1>9, ReaderFacts DEF Yield
  <2>2. cursor' \in [Readers -> Numbers] /\ UNCHANGED <<log, life, pending, entered, drops>>
    BY <1>8, <2>1 DEF Send, runVars
  <2>3. CASE Leave(r)
    BY <1>1, <1>6, <2>2, <2>3 DEF EventTypes
  <2>4. CASE backlog' = [backlog EXCEPT ![r] = Tail(@)] /\ UNCHANGED <<reader, subs, walk, queue>>
    <3>1. backlog' \in [Readers -> Seq(Numbers)]
      BY <1>1, <2>1, <2>4 DEF EventTypes
    <3>. QED BY <1>1, <1>9, <2>2, <2>4, <3>1, ReadingKeepsQueues DEF Yield, EventTypes
  <2>. QED BY <1>9, <2>3, <2>4 DEF Yield
<1>10. CASE Take(r)
  <2>1. queue[r] # <<>> /\ Head(queue[r]) \in Numbers /\ Send(r, Head(queue[r])) /\ reader[r] = "live"
    BY <1>10, ReaderFacts DEF Take
  <2>2. cursor' \in [Readers -> Numbers] /\ UNCHANGED <<log, life, pending, entered, drops>>
    BY <1>8, <2>1 DEF Send, runVars
  <2>3. CASE Leave(r)
    BY <1>1, <1>6, <2>2, <2>3 DEF EventTypes
  <2>4. CASE queue' = [queue EXCEPT ![r] = Tail(@)] /\ UNCHANGED <<reader, subs, walk, backlog>>
    BY <1>1, <2>1, <2>2, <2>4, ReadingKeepsQueues DEF EventTypes
  <2>. QED BY <1>10, <2>3, <2>4 DEF Take
<1>11. CASE Follow(r)
  <2>1. CASE reader' = [reader EXCEPT ![r] = "live"] /\ UNCHANGED <<subs, walk, queue, backlog>>
    BY <1>1, <1>11, <2>1, ReadingKeepsQueues DEF Follow, EventTypes, Phases, runVars
  <2>2. CASE Leave(r)
    BY <1>1, <1>6, <1>11, <2>2 DEF Follow, EventTypes, runVars
  <2>. QED BY <1>11, <2>1, <2>2 DEF Follow
<1>. QED BY <1>2, <1>3, <1>4, <1>5, <1>7, <1>9, <1>10, <1>11 DEF Read

LEMMA QueueStepHolds == QueueInv /\ Bounded /\ [Next]_vars => QueueInv'
<1> SUFFICES ASSUME QueueInv, Bounded, [Next]_vars PROVE QueueInv'
  OBVIOUS
<1>1. EventTypes
  BY DEF QueueInv
<1>2. ASSUME NEW p \in Publishers, NEW kind \in Kinds, Commit(p, kind) PROVE QueueInv'
  BY <1>2, AppendKeepsQueues
<1>3. ASSUME NEW p \in Publishers, Deliver(p) PROVE QueueInv'
  BY <1>3, DeliverKeepsQueues
<1>4. CASE GoOn
  BY <1>4, GoOnKeepsQueues
<1>5. ASSUME NEW r \in Readers, Read(r) \/ Drop(r) PROVE QueueInv'
  BY <1>5, ReadsKeepQueues
<1>6. CASE GoLive
  BY <1>1, <1>6 DEF GoLive, readers, QueueInv, EventTypes, WithinCapacity, OneBehind, ToVisit, FedIsOpen, OnTheWay, OffIsEmpty, Numbers
<1>7. CASE StoreAppend
  <2>1. Driver \in Publishers /\ "completed" \in Kinds
    BY DEF Publishers, Kinds
  <2>. QED BY <1>7, <2>1, AppendKeepsQueues
<1>8. CASE CloseRun
  BY <1>8, CloseRunKeepsQueues
<1>9. CASE UNCHANGED vars
  BY <1>1, <1>9 DEF vars, QueueInv, EventTypes, WithinCapacity, OneBehind, ToVisit, FedIsOpen, OnTheWay, OffIsEmpty, Numbers
<1>. QED BY <1>2, <1>3, <1>4, <1>5, <1>6, <1>7, <1>8, <1>9 DEF Next

\* ... and it is what the types of RunEvents and the bound of the queues say.
LEMMA QueuesAreTyped ==
  ASSUME QueueInv
  PROVE  /\ TypeOK
         /\ \A r \in DOMAIN queue : \A i \in DOMAIN queue[r] :
              /\ queue[r][i] \in 0..Len(log)
              /\ queue[r][i] = 0 => r \notin subs /\ Len(queue[r]) <= i + 1
<1>1. Numbers \subseteq Nat /\ Seq(Numbers) \subseteq Seq(Nat)
  <2>1. Numbers \subseteq Nat
    BY DEF Numbers
  <2>2. ASSUME NEW s \in Seq(Numbers) PROVE s \in Seq(Nat)
    <3>1. \A N \in Nat : \A f \in [1..N -> Nat] : f \in Seq(Nat)
      OBVIOUS
    <3>2. Len(s) \in Nat /\ s \in [1..Len(s) -> Numbers]
      OBVIOUS
    <3>3. s \in [1..Len(s) -> Nat]
      BY <2>1, <3>2
    <3>. QED BY <3>1, <3>2, <3>3
  <2>. QED BY <2>1, <2>2
<1>2. pending \in [Publishers -> Nat] /\ cursor \in [Readers -> Nat]
  BY <1>1 DEF QueueInv, EventTypes
<1>3. ASSUME NEW r \in DOMAIN queue, NEW i \in DOMAIN queue[r]
      PROVE  /\ queue[r][i] \in 0..Len(log)
             /\ queue[r][i] = 0 => r \notin subs /\ Len(queue[r]) <= i + 1
  <2>1. r \in Readers /\ queue[r] \in Seq(Numbers)
    BY DEF QueueInv, EventTypes
  <2>2. queue[r][i] \in Numbers
    BY <2>1
  <2>3. queue[r][i] = 0 => r \notin subs /\ Len(queue[r]) <= i + 1
    BY <2>1 DEF QueueInv, FedIsOpen, OneBehind, Clear, Behind
  <2>. QED BY <2>2, <2>3 DEF Numbers
<1>. QED BY <1>1, <1>2, <1>3 DEF QueueInv, EventTypes, WithinCapacity, TypeOK

-----------------------------------------------------------------------------
(* StreamInv: what a reader is about to receive when no queue overflows      *)

\* The driver publishes what ends the run, and a queue has room for all events and a None.
Roomy == Faults = FALSE /\ Capacity > MaxEvents

OneAtATime == \A p, o \in Publishers : pending[p] # 0 /\ pending[o] # 0 => p = o
NobodyIsSlow == walk = Home /\ Len(log) <= MaxEvents /\ (life = "idle" => subs = {})

\* The numbers of a queue grow, each is at least its place, and what will come is above them.
QueueIncreases(r) ==
  /\ \A i \in DOMAIN queue[r] : queue[r][i] # 0 => queue[r][i] >= i
  /\ \A i, j \in DOMAIN queue[r] : i < j /\ queue[r][i] # 0 /\ queue[r][j] # 0 => queue[r][i] < queue[r][j]
  /\ \A p \in Publishers : pending[p] # 0 => \A i \in DOMAIN queue[r] : queue[r][i] < pending[p]

\* How far the log has been read for a reader: before the replay it will be read to its end.
Seen(r) == IF reader[r] \in {"off", "subscribed"} THEN Len(log) ELSE cursor[r] + Len(backlog[r])

\* What a backlog holds follows the cursor, but for the None behind a queue that was closed.
BacklogFollows(r) ==
  /\ reader[r] \in {"off", "subscribed", "live"} => backlog[r] = <<>>
  /\ \A i \in DOMAIN backlog[r] :
       \/ backlog[r][i] = cursor[r] + i
       \/ /\ backlog[r][i] = 0 /\ i = Len(backlog[r]) /\ reader[r] = "backlog"
          /\ queue[r] = <<>> /\ r \notin subs

\* Between what was read and a number of the queue there is no gap, and what a subscriber
\* has not read is in its queue or about to be delivered.
NoGap(r) ==
  /\ \A i \in DOMAIN queue[r] : \A n \in Numbers :
       Seen(r) < n /\ n <= queue[r][i] => n \in Entries(queue[r])
  /\ r \in subs => \A n \in Numbers :
       Seen(r) < n => n \in Entries(queue[r]) \/ \E p \in Publishers : pending[p] = n

ReadsOn(r) == QueueIncreases(r) /\ BacklogFollows(r) /\ NoGap(r)

StreamInv == OneAtATime /\ NobodyIsSlow /\ \A r \in Readers : ReadsOn(r)

-----------------------------------------------------------------------------
(* StreamInv is an invariant                                                 *)

LEMMA StreamInitHolds == Bounded /\ Init => StreamInv
BY DEF Bounded, Init, StreamInv, OneAtATime, NobodyIsSlow, ReadsOn, QueueIncreases, BacklogFollows, NoGap, Home

\* The types of what a reader has, for the steps below.
LEMMA StreamFacts ==
  ASSUME QueueInv, StreamInv, NEW r \in Readers
  PROVE  /\ Len(log) \in Nat /\ Numbers = 0..Len(log) /\ cursor[r] \in Numbers
         /\ queue[r] \in Seq(Numbers) /\ DOMAIN queue[r] = 1..Len(queue[r]) /\ Len(queue[r]) \in Nat
         /\ \A i \in DOMAIN queue[r] : queue[r][i] \in Numbers
         /\ backlog[r] \in Seq(Numbers) /\ DOMAIN backlog[r] = 1..Len(backlog[r]) /\ Len(backlog[r]) \in Nat
         /\ \A i \in DOMAIN backlog[r] : backlog[r][i] \in Numbers
         /\ Seen(r) \in Nat /\ ReadsOn(r)
         /\ pending \in [Publishers -> Numbers]
<1>1. EventTypes /\ Len(log) \in Nat
  BY DEF QueueInv, EventTypes
<1>2. queue[r] \in Seq(Numbers) /\ backlog[r] \in Seq(Numbers) /\ cursor[r] \in Numbers
  BY <1>1 DEF EventTypes
<1>3. Seen(r) \in Nat
  BY <1>1, <1>2 DEF Seen, Numbers
<1>. QED BY <1>1, <1>2, <1>3 DEF StreamInv, Numbers, EventTypes

\* The queue of a subscriber is shorter than the log, and than the event about to come.
LEMMA ShortQueue ==
  ASSUME QueueInv, StreamInv, Bounded, Roomy, NEW r \in subs
  PROVE  /\ Len(queue[r]) < Capacity
         /\ \A p \in Publishers : pending[p] # 0 => Len(queue[r]) < pending[p]
<1>1. r \in Readers
  BY DEF QueueInv, EventTypes
<1>2. \A i \in DOMAIN queue[r] : queue[r][i] # 0 /\ queue[r][i] >= i
  BY <1>1, StreamFacts DEF QueueInv, FedIsOpen, Clear, ReadsOn, QueueIncreases
<1>3. /\ Len(log) \in Nat /\ DOMAIN queue[r] = 1..Len(queue[r]) /\ Len(queue[r]) \in Nat
      /\ \A i \in DOMAIN queue[r] : queue[r][i] \in 0..Len(log)
      /\ \A p \in Publishers : pending[p] \in 0..Len(log)
      /\ \A p \in Publishers : pending[p] # 0 => \A i \in DOMAIN queue[r] : queue[r][i] < pending[p]
  BY <1>1, StreamFacts DEF ReadsOn, QueueIncreases
<1>4. Len(log) <= MaxEvents /\ MaxEvents < Capacity /\ MaxEvents \in Nat /\ Capacity \in Nat \ {0}
  BY DEF StreamInv, NobodyIsSlow, Roomy, Bounded
<1>5. CASE Len(queue[r]) = 0
  BY <1>3, <1>4, <1>5
<1>6. CASE Len(queue[r]) # 0
  <2> DEFINE last == queue[r][Len(queue[r])]
  <2>1. Len(queue[r]) \in DOMAIN queue[r]
    BY <1>3, <1>6
  <2>2. last >= Len(queue[r]) /\ last \in 0..Len(log) /\ \A p \in Publishers : pending[p] # 0 => last < pending[p]
    BY <1>2, <1>3, <2>1
  <2>. HIDE DEF last
  <2>. QED BY <1>3, <1>4, <2>2
<1>. QED BY <1>5, <1>6

LEMMA CommitKeepsStreams ==
  ASSUME QueueInv, StreamInv, NEW p \in Publishers, NEW kind \in Kinds, Bounded, Commit(p, kind)
  PROVE  StreamInv'
<1>1. /\ log' = Append(log, kind) /\ pending' = [pending EXCEPT ![p] = Len(log) + 1]
      /\ \A o \in Publishers : pending[o] = 0
      /\ walk = Home /\ Len(log) < MaxEvents
      /\ UNCHANGED <<life, subs, walk, queue, reader, entered, backlog, cursor>>
  BY DEF Commit, Publishing, MayPublish, Append1, readers
<1>2. Len(log) \in Nat /\ Len(log') = Len(log) + 1 /\ log \in Seq(Kinds) /\ pending \in [Publishers -> Numbers]
  BY <1>1 DEF QueueInv, EventTypes
<1>3. /\ pending'[p] = Len(log) + 1 /\ \A o \in Publishers \ {p} : pending'[o] = 0
  BY <1>1, <1>2
<1>4. OneAtATime' /\ NobodyIsSlow'
  BY <1>1, <1>2, <1>3 DEF StreamInv, OneAtATime, NobodyIsSlow, Bounded
<1>5. ASSUME NEW r \in Readers PROVE ReadsOn(r)'
  <2>1. /\ Numbers = 0..Len(log) /\ ReadsOn(r) /\ Seen(r) \in Nat
        /\ \A i \in DOMAIN queue[r] : queue[r][i] \in Numbers
    BY StreamFacts
  <2>2. Seen(r)' = Seen(r) \/ Seen(r)' = Len(log) + 1
    BY <1>1, <1>2 DEF Seen
  <2>3. Numbers' = 0..(Len(log) + 1)
    BY <1>2 DEF Numbers
  <2>4. QueueIncreases(r)'
    BY <1>1, <1>2, <1>3, <2>1 DEF ReadsOn, QueueIncreases
  <2>5. BacklogFollows(r)'
    BY <1>1, <2>1 DEF ReadsOn, BacklogFollows
  <2>6. ASSUME NEW n \in Numbers', Seen(r)' < n
        PROVE  n = Len(log) + 1 \/ (n \in Numbers /\ Seen(r) < n)
    BY <1>2, <2>1, <2>2, <2>3, <2>6
  <2>7. ASSUME NEW i \in DOMAIN queue[r], NEW n \in Numbers', Seen(r)' < n, n <= queue[r][i] PROVE n \in Entries(queue[r])
    <3>1. n # Len(log) + 1
      BY <1>2, <2>1, <2>7
    <3>. QED BY <2>1, <2>6, <2>7, <3>1 DEF ReadsOn, NoGap
  <2>8. ASSUME r \in subs, NEW n \in Numbers', Seen(r)' < n
        PROVE  n \in Entries(queue[r]) \/ \E o \in Publishers : pending'[o] = n
    <3>1. CASE n = Len(log) + 1
      BY <1>3, <3>1
    <3>2. CASE n \in Numbers /\ Seen(r) < n
      <4>1. n # 0 /\ \A o \in Publishers : pending[o] # n
        BY <1>1, <2>1, <3>2
      <4>. QED BY <2>1, <2>8, <3>2, <4>1 DEF ReadsOn, NoGap
    <3>. QED BY <2>6, <2>8, <3>1, <3>2
  <2>9. NoGap(r)'
    BY <1>1, <2>7, <2>8 DEF NoGap
  <2>. QED BY <2>4, <2>5, <2>9 DEF ReadsOn
<1>. QED BY <1>4, <1>5 DEF StreamInv

\* Rows of the store alone come to a run that is not live, which nobody follows.
LEMMA StoreAppendKeepsStreams ==
  ASSUME QueueInv, StreamInv, Bounded, Roomy, StoreAppend
  PROVE  StreamInv'
<1>1. /\ log' = Append(log, "completed") /\ life = "idle" /\ subs = {} /\ Len(log) < MaxEvents
      /\ UNCHANGED <<life, subs, pending, walk, queue, reader, entered, backlog, cursor>>
  BY DEF StoreAppend, Roomy, StreamInv, NobodyIsSlow, readers
<1>2. Len(log) \in Nat /\ Len(log') = Len(log) + 1
  BY <1>1 DEF QueueInv, EventTypes, Kinds
<1>3. OneAtATime' /\ NobodyIsSlow'
  BY <1>1, <1>2 DEF StreamInv, OneAtATime, NobodyIsSlow, Bounded
<1>4. ASSUME NEW r \in Readers PROVE ReadsOn(r)'
  <2>1. /\ Numbers = 0..Len(log) /\ ReadsOn(r) /\ Seen(r) \in Nat
        /\ \A i \in DOMAIN queue[r] : queue[r][i] \in Numbers
    BY StreamFacts
  <2>2. Seen(r)' = Seen(r) \/ Seen(r)' = Len(log) + 1
    BY <1>1, <1>2 DEF Seen
  <2>3. Numbers' = 0..(Len(log) + 1)
    BY <1>2 DEF Numbers
  <2>4. QueueIncreases(r)' /\ BacklogFollows(r)'
    BY <1>1, <2>1 DEF ReadsOn, QueueIncreases, BacklogFollows
  <2>5. ASSUME NEW i \in DOMAIN queue[r], NEW n \in Numbers', Seen(r)' < n, n <= queue[r][i] PROVE n \in Entries(queue[r])
    <3>1. n \in Numbers /\ Seen(r) < n
      BY <1>2, <2>1, <2>2, <2>3, <2>5
    <3>. QED BY <2>1, <2>5, <3>1 DEF ReadsOn, NoGap
  <2>6. NoGap(r)'
    BY <1>1, <2>5 DEF NoGap
  <2>. QED BY <2>4, <2>6 DEF ReadsOn
<1>. QED BY <1>3, <1>4 DEF StreamInv

LEMMA DeliverKeepsStreams ==
  ASSUME QueueInv, StreamInv, Bounded, Roomy, NEW p \in Publishers, Deliver(p)
  PROVE  StreamInv'
<1>1. {r \in subs : Len(queue[r]) < Capacity} = subs /\ subs \subseteq Readers
  BY ShortQueue DEF QueueInv, EventTypes
<1>2. /\ UNCHANGED <<log, subs, reader, entered, backlog, cursor, drops>> /\ Numbers' = Numbers
      /\ pending[p] # 0 /\ pending' = [pending EXCEPT ![p] = 0]
      /\ queue' = [r \in Readers |-> IF r \in subs THEN Append(queue[r], pending[p]) ELSE queue[r]]
      /\ walk' = Home /\ life' = IF log[pending[p]] = "completed" THEN "closing" ELSE life
  BY <1>1 DEF Deliver, Visit, readers, Numbers
<1>3. pending[p] \in Numbers /\ pending \in [Publishers -> Numbers] /\ 0 \in Numbers /\ Numbers = 0..Len(log) /\ Len(log) \in Nat
  BY DEF QueueInv, EventTypes, Numbers
<1>4. \A o \in Publishers : pending'[o] = 0 /\ (pending[o] # 0 => o = p)
  BY <1>2, <1>3 DEF StreamInv, OneAtATime
<1>5. OneAtATime' /\ NobodyIsSlow'
  BY <1>1, <1>2, <1>4 DEF StreamInv, OneAtATime, NobodyIsSlow
<1>6. ASSUME NEW r \in Readers PROVE ReadsOn(r)'
  <2>1. /\ ReadsOn(r) /\ Seen(r) \in Nat /\ Seen(r)' = Seen(r)
        /\ queue[r] \in Seq(Numbers) /\ DOMAIN queue[r] = 1..Len(queue[r]) /\ Len(queue[r]) \in Nat
        /\ \A i \in DOMAIN queue[r] : queue[r][i] \in Numbers
    BY <1>2, StreamFacts DEF Seen
  <2>2. CASE r \notin subs
    <3>1. queue'[r] = queue[r]
      BY <1>1, <1>2, <2>2
    <3>2. QueueIncreases(r)'
      BY <1>4, <2>1, <3>1 DEF ReadsOn, QueueIncreases
    <3>3. BacklogFollows(r)'
      BY <1>2, <2>1, <3>1 DEF ReadsOn, BacklogFollows
    <3>4. NoGap(r)'
      BY <1>2, <2>1, <2>2, <3>1 DEF ReadsOn, NoGap
    <3>. QED BY <3>2, <3>3, <3>4 DEF ReadsOn
  <2>3. CASE r \in subs
    <3> DEFINE q == queue[r]
               last == Len(queue[r]) + 1
    <3>1. /\ queue'[r] = Append(q, pending[p]) /\ last <= pending[p] /\ last \in Nat
          /\ \A i \in DOMAIN q : q[i] < pending[p]
      <4>1. Len(q) < pending[p]
        BY <1>2, <2>3, ShortQueue
      <4>. QED BY <1>1, <1>2, <1>3, <2>1, <2>3, <4>1 DEF ReadsOn, QueueIncreases
    <3>2. /\ DOMAIN queue'[r] = 1..last /\ queue'[r][last] = pending[p]
          /\ \A i \in 1..Len(q) : queue'[r][i] = q[i]
      BY <1>3, <2>1, <3>1
    <3>3. \A i \in DOMAIN queue'[r] : i = last \/ i \in DOMAIN q
      BY <2>1, <3>2
    <3>. HIDE DEF q, last
    <3>4. QueueIncreases(r)'
      <4>1. ASSUME NEW i \in DOMAIN queue'[r], queue'[r][i] # 0 PROVE queue'[r][i] >= i
        <5>1. CASE i = last
          BY <1>3, <3>1, <3>2, <5>1
        <5>2. CASE i \in DOMAIN q
          BY <2>1, <3>2, <4>1, <5>2 DEF ReadsOn, QueueIncreases, q
        <5>. QED BY <3>3, <5>1, <5>2
      <4>2. ASSUME NEW i \in DOMAIN queue'[r], NEW j \in DOMAIN queue'[r], i < j, queue'[r][i] # 0, queue'[r][j] # 0
            PROVE  queue'[r][i] < queue'[r][j]
        <5>1. i \in DOMAIN q
          BY <2>1, <3>1, <3>2, <4>2 DEF q, last
        <5>2. CASE j = last
          BY <2>1, <3>1, <3>2, <5>1, <5>2 DEF q
        <5>3. CASE j \in DOMAIN q
          BY <2>1, <3>2, <4>2, <5>1, <5>3 DEF ReadsOn, QueueIncreases, q
        <5>. QED BY <3>3, <5>2, <5>3
      <4>. QED BY <1>4, <4>1, <4>2 DEF QueueIncreases
    <3>5. BacklogFollows(r)'
      BY <1>2, <2>1, <2>3 DEF ReadsOn, BacklogFollows
    <3>6. Entries(q) \subseteq Entries(queue'[r]) /\ pending[p] \in Entries(queue'[r])
      BY <2>1, <3>1, <3>2 DEF Entries, q, last
    <3>7. \A n \in Numbers : Seen(r) < n => n \in Entries(queue'[r])
      BY <1>3, <1>4, <2>1, <2>3, <3>6 DEF ReadsOn, NoGap, q
    <3>8. NoGap(r)'
      BY <1>2, <2>1, <3>7 DEF NoGap
    <3>. QED BY <3>4, <3>5, <3>8 DEF ReadsOn
  <2>. QED BY <2>2, <2>3
<1>. QED BY <1>5, <1>6 DEF StreamInv

LEMMA CloseRunKeepsStreams ==
  ASSUME QueueInv, StreamInv, Bounded, Roomy, CloseRun
  PROVE  StreamInv'
<1>1. /\ UNCHANGED <<log, pending, walk, reader, entered, backlog, cursor, drops>> /\ Numbers' = Numbers
      /\ subs' = {} /\ subs \subseteq Readers
      /\ queue' = [r \in Readers |-> IF r \in subs THEN PutClose(queue[r]) ELSE queue[r]]
  BY DEF CloseRun, readers, Numbers, QueueInv, EventTypes
<1>2. OneAtATime' /\ NobodyIsSlow'
  BY <1>1 DEF StreamInv, OneAtATime, NobodyIsSlow
<1>3. ASSUME NEW r \in Readers PROVE ReadsOn(r)'
  <2>1. /\ ReadsOn(r) /\ Seen(r) \in Nat /\ Seen(r)' = Seen(r)
        /\ queue[r] \in Seq(Numbers) /\ DOMAIN queue[r] = 1..Len(queue[r]) /\ Len(queue[r]) \in Nat
        /\ \A i \in DOMAIN queue[r] : queue[r][i] \in Numbers
        /\ Len(log) \in Nat /\ Numbers = 0..Len(log) /\ \A p \in Publishers : pending[p] \in Numbers
    BY <1>1, StreamFacts DEF Seen
  <2>2. CASE r \notin subs
    <3>1. queue'[r] = queue[r]
      BY <1>1, <2>2
    <3>. QED BY <1>1, <2>1, <2>2, <3>1 DEF ReadsOn, QueueIncreases, BacklogFollows, NoGap
  <2>3. CASE r \in subs
    <3> DEFINE q == queue[r]
               last == Len(queue[r]) + 1
    <3>1. queue'[r] = Append(q, 0)
      BY <1>1, <2>3, ShortQueue DEF PutClose
    <3>2. /\ DOMAIN queue'[r] = 1..last /\ queue'[r][last] = 0 /\ \A i \in 1..Len(q) : queue'[r][i] = q[i]
      BY <2>1, <3>1
    <3>3. \A i \in DOMAIN queue'[r] : i = last \/ i \in DOMAIN q
      BY <2>1, <3>2
    <3>4. Entries(q) \subseteq Entries(queue'[r])
      <4>1. \A i \in DOMAIN q : i \in DOMAIN queue'[r] /\ q[i] = queue'[r][i]
        BY <2>1, <3>2
      <4>. HIDE DEF q, last
      <4>. QED BY <4>1 DEF Entries
    <3>. HIDE DEF q, last
    <3>5. QueueIncreases(r)'
      <4>1. \A i \in DOMAIN queue'[r] : queue'[r][i] # 0 => i \in DOMAIN q /\ queue'[r][i] = q[i]
        BY <2>1, <3>2, <3>3 DEF q
      <4>2. ASSUME NEW p \in Publishers, pending[p] # 0, NEW i \in DOMAIN queue'[r] PROVE queue'[r][i] < pending[p]
        <5>1. CASE i = last
          BY <2>1, <3>2, <4>2, <5>1
        <5>2. CASE i \in DOMAIN q
          BY <2>1, <3>2, <4>2, <5>2 DEF ReadsOn, QueueIncreases, q
        <5>. QED BY <3>3, <5>1, <5>2
      <4>. QED BY <1>1, <2>1, <4>1, <4>2 DEF ReadsOn, QueueIncreases, q
    <3>6. BacklogFollows(r)'
      BY <1>1, <2>1, <2>3 DEF ReadsOn, BacklogFollows
    <3>7. ASSUME NEW i \in DOMAIN queue'[r], NEW n \in Numbers, Seen(r) < n, n <= queue'[r][i] PROVE n \in Entries(queue'[r])
      <4>1. i \in DOMAIN q
        BY <2>1, <3>2, <3>3, <3>7
      <4>2. n <= q[i]
        BY <2>1, <3>2, <3>7, <4>1 DEF q
      <4>. QED BY <2>1, <3>4, <3>7, <4>1, <4>2 DEF ReadsOn, NoGap, q
    <3>8. NoGap(r)'
      BY <1>1, <2>1, <3>7 DEF NoGap
    <3>. QED BY <3>5, <3>6, <3>8 DEF ReadsOn
  <2>. QED BY <2>2, <2>3
<1>. QED BY <1>2, <1>3 DEF StreamInv

\* A step of one reader concerns that reader only.
LEMMA OneReaderMoves ==
  ASSUME QueueInv, StreamInv, NEW r \in Readers, UNCHANGED <<log, life, pending>>,
         walk' = walk \/ walk' = [walk EXCEPT !.full = @ \ {r}, !.rest = @ \ {r}], life = "idle" => subs' \subseteq subs,
         \A s \in Readers \ {r} : /\ reader'[s] = reader[s] /\ queue'[s] = queue[s] /\ backlog'[s] = backlog[s]
                                  /\ cursor'[s] = cursor[s] /\ (s \in subs' <=> s \in subs),
         ReadsOn(r)'
  PROVE  StreamInv'
<1>1. OneAtATime' /\ NobodyIsSlow'
  <2>1. walk = Home
    BY DEF StreamInv, NobodyIsSlow
  <2>2. walk' = Home
    BY <2>1 DEF Home
  <2>. QED BY <2>2 DEF StreamInv, OneAtATime, NobodyIsSlow
<1>2. ASSUME NEW s \in Readers \ {r} PROVE ReadsOn(s)'
  <2>1. ReadsOn(s)
    BY DEF StreamInv
  <2>. QED BY <2>1 DEF ReadsOn, QueueIncreases, BacklogFollows, NoGap, Seen, Numbers
<1>. QED BY <1>1, <1>2 DEF StreamInv

\* A finite set of numbers above a that has, with a number, all those between is the interval.
LEMMA DownwardClosed ==
  ASSUME NEW a \in Nat, NEW b \in Nat, NEW S, S \subseteq (a + 1)..b,
         \A n \in S : \A m \in (a + 1)..n : m \in S
  PROVE  Cardinality(S) \in Nat /\ S = (a + 1)..(a + Cardinality(S))
<1> DEFINE k == Cardinality(S)
           T == (a + 1)..(a + k)
<1>1. IsFiniteSet(S) /\ k \in Nat
  <2>1. IsFiniteSet((a + 1)..b)
    BY FS_Interval
  <2>2. IsFiniteSet(S)
    BY <2>1, FS_Subset
  <2>. QED BY <2>2, FS_CardinalityType
<1>2. ASSUME NEW n \in S PROVE n \in T
  <2>1. n \in Nat /\ a + 1 <= n
    OBVIOUS
  <2>2. (a + 1)..n \in SUBSET S
    OBVIOUS
  <2>3. Cardinality((a + 1)..n) = n - a
    BY <2>1, FS_Interval
  <2>4. Cardinality((a + 1)..n) <= k
    BY <1>1, <2>2, FS_Subset
  <2>. HIDE DEF k
  <2>. QED BY <1>1, <2>1, <2>3, <2>4
<1>3. IsFiniteSet(T) /\ Cardinality(T) = k
  BY SMTT(20), <1>1, FS_Interval
<1>4. S \in SUBSET T
  BY <1>2
<1>. HIDE DEF T
<1>5. S = T
  BY <1>3, <1>4, FS_Subset
<1>. QED BY <1>1, <1>5 DEF T

\* What the replay and the queue hold together goes on from the cursor without a gap.
LEMMA MergedGoesOn ==
  ASSUME QueueInv, StreamInv, NEW r \in Readers, reader[r] = "read"
  PROVE  \E k \in Nat :
           /\ cursor[r] + k \in Numbers /\ Seen(r) <= cursor[r] + k
           /\ \A n \in Entries(queue[r]) : n <= cursor[r] + k
           /\ Merged(r) = IF 0 \in Entries(queue[r]) THEN Append([i \in 1..k |-> cursor[r] + i], 0)
                          ELSE [i \in 1..k |-> cursor[r] + i]
<1> DEFINE a == cursor[r]
           b == backlog[r]
           q == queue[r]
           S == {n \in Entries(b) \cup Entries(q) : n > a}
           k == Cardinality(S)
<1>1. /\ Len(log) \in Nat /\ Numbers = 0..Len(log) /\ a \in Numbers /\ ReadsOn(r)
      /\ DOMAIN b = 1..Len(b) /\ Len(b) \in Nat /\ \A i \in DOMAIN b : b[i] = a + i /\ b[i] \in Numbers
      /\ \A i \in DOMAIN q : q[i] \in Numbers
      /\ Seen(r) = a + Len(b)
  BY StreamFacts DEF ReadsOn, BacklogFollows, Seen
<1>2. \A n \in (a + 1)..Seen(r) : n \in Entries(b)
  <2> TAKE n \in (a + 1)..Seen(r)
  <2>1. n - a \in DOMAIN b /\ b[n - a] = n
    BY SMTT(20), <1>1
  <2>. QED BY <2>1 DEF Entries
<1>3. S \subseteq (a + 1)..Len(log)
  BY <1>1 DEF Entries
<1>4. ASSUME NEW n \in S, NEW m \in (a + 1)..n PROVE m \in S
  <2>1. n \in (a + 1)..Len(log) /\ m \in Numbers /\ m > a /\ m <= n
    BY <1>1, <1>3, <1>4
  <2>2. CASE m <= Seen(r)
    BY <1>1, <1>2, <2>1, <2>2
  <2>3. CASE Seen(r) < m
    <3>1. n \notin Entries(b)
      BY <1>1, <2>1, <2>3 DEF Entries
    <3>2. PICK i \in DOMAIN q : q[i] = n
      BY <1>4, <3>1 DEF Entries
    <3>3. m \in Entries(q)
      BY <1>1, <2>1, <2>3, <3>2 DEF ReadsOn, NoGap
    <3>. QED BY <2>1, <3>3
  <2>. QED BY <1>1, <2>1, <2>2, <2>3
<1>. HIDE DEF S
<1>5. k \in Nat /\ S = (a + 1)..(a + k) /\ a \in Nat
  <2>1. a \in Nat
    BY <1>1
  <2>2. \A n \in S : \A m \in (a + 1)..n : m \in S
    BY <1>4
  <2>. HIDE DEF a
  <2>. QED BY <1>1, <1>3, <2>1, <2>2, DownwardClosed
<1>. HIDE DEF k
<1>6. Sorted(S) = [i \in 1..k |-> a + i]
  <2>. HIDE DEF a
  <2>. QED BY <1>5, SortedInterval
<1>7. a + k \in Numbers
  <2>1. CASE k = 0
    BY <1>1, <2>1
  <2>2. CASE k # 0
    <3>1. a + k \in S
      <4>. HIDE DEF a
      <4>. QED BY <1>5, <2>2
    <3>2. a + k \in (a + 1)..Len(log)
      BY <1>3, <3>1
    <3>3. a \in Nat /\ Numbers = 0..Len(log) /\ Len(log) \in Nat
      BY <1>1, <1>5
    <3>. HIDE DEF a
    <3>. QED BY <1>5, <3>2, <3>3
  <2>. QED BY <2>1, <2>2
<1>8. Seen(r) <= a + k
  <2>1. CASE Len(b) = 0
    BY <1>1, <1>5, <2>1
  <2>2. CASE Len(b) # 0
    <3>1. Seen(r) \in (a + 1)..Seen(r) /\ Seen(r) > a
      BY <1>1, <2>2
    <3>2. Seen(r) \in S
      BY <1>2, <3>1 DEF S
    <3>. QED BY <1>1, <1>5, <3>2
  <2>. QED BY <2>1, <2>2
<1>9. \A n \in Entries(q) : n <= a + k
  <2> TAKE n \in Entries(q)
  <2>1. n \in Numbers
    BY <1>1 DEF Entries
  <2>2. CASE n > a
    <3>1. n \in S
      BY <2>2 DEF S
    <3>. QED BY <1>1, <1>5, <3>1
  <2>3. CASE ~ (n > a)
    BY <1>1, <1>5, <2>1, <2>3
  <2>. QED BY <2>2, <2>3
<1>10. Merged(r) = IF 0 \in Entries(q) THEN Append(Sorted(S), 0) ELSE Sorted(S)
  BY DEF Merged, S
<1>. QED BY <1>5, <1>6, <1>7, <1>8, <1>9, <1>10

\* What a queue holds first is the event after the cursor, one that was sent already, or None.
LEMMA HeadIsNext ==
  ASSUME QueueInv, StreamInv, NEW r \in Readers, reader[r] = "live", queue[r] # <<>>
  PROVE  Head(queue[r]) \in Numbers /\ Head(queue[r]) <= cursor[r] + 1
<1> DEFINE q == queue[r]
           a == cursor[r]
<1>1. /\ Len(log) \in Nat /\ Numbers = 0..Len(log) /\ a \in Numbers /\ ReadsOn(r) /\ Seen(r) = a
      /\ DOMAIN q = 1..Len(q) /\ Len(q) \in Nat \ {0} /\ \A i \in DOMAIN q : q[i] \in Numbers
  <2>1. backlog[r] = <<>>
    BY StreamFacts DEF ReadsOn, BacklogFollows
  <2>2. queue[r] \in Seq(Numbers)
    BY StreamFacts
  <2>. QED BY <2>1, <2>2, StreamFacts DEF Seen, Numbers
<1>2. Head(q) = q[1] /\ 1 \in DOMAIN q
  BY <1>1
<1>3. SUFFICES ASSUME q[1] > a + 1 PROVE FALSE
  BY <1>1, <1>2
<1>4. a + 1 \in Numbers /\ Seen(r) < a + 1 /\ a + 1 <= q[1] /\ a + 1 # 0
  BY <1>1, <1>2, <1>3
<1>5. a + 1 \in Entries(q)
  BY <1>1, <1>2, <1>4 DEF ReadsOn, NoGap
<1>6. PICK j \in DOMAIN q : q[j] = a + 1
  BY <1>5 DEF Entries
<1>7. CASE j = 1
  BY <1>1, <1>3, <1>6, <1>7
<1>8. CASE j # 1
  <2>1. 1 < j /\ q[1] # 0 /\ q[j] # 0
    BY <1>1, <1>2, <1>3, <1>4, <1>6, <1>8
  <2>2. q[1] < q[j]
    BY <1>1, <1>2, <2>1 DEF ReadsOn, QueueIncreases
  <2>. QED BY <1>1, <1>2, <1>3, <1>6, <2>2
<1>. QED BY <1>7, <1>8

LEMMA ReadsKeepStreams ==
  ASSUME QueueInv, StreamInv, NEW r \in Readers, Read(r) \/ Drop(r)
  PROVE  StreamInv'
<1> DEFINE b == backlog[r]
           q == queue[r]
           a == cursor[r]
<1>1. /\ EventTypes /\ UNCHANGED <<log, life, pending>> /\ Numbers' = Numbers /\ ReadsOn(r) /\ Seen(r) \in Nat
      /\ Len(log) \in Nat /\ Numbers = 0..Len(log) /\ a \in Numbers
      /\ q \in Seq(Numbers) /\ b \in Seq(Numbers) /\ <<>> \in Seq(Numbers)
      /\ DOMAIN q = 1..Len(q) /\ Len(q) \in Nat /\ DOMAIN b = 1..Len(b) /\ Len(b) \in Nat
      /\ \A i \in DOMAIN q : q[i] \in Numbers
  <2>1. UNCHANGED <<log, life, pending>>
    BY DEF Read, Connect, ReadLog, Drain, Replay, Yield, Follow, Take, Drop, Send, runVars
  <2>2. EventTypes /\ Numbers' = Numbers /\ <<>> \in Seq(Numbers)
    BY <2>1 DEF QueueInv, Numbers
  <2>. QED BY <2>1, <2>2, StreamFacts
<1>2. /\ r \in DOMAIN queue /\ r \in DOMAIN backlog /\ r \in DOMAIN reader /\ r \in DOMAIN cursor
  BY <1>1 DEF EventTypes
<1>3. ASSUME reader'[r] \in {"off", "subscribed"}, queue'[r] = <<>>, backlog'[r] = <<>> PROVE ReadsOn(r)'
  <2>1. Seen(r)' = Len(log)
    BY <1>1, <1>3 DEF Seen
  <2>2. \A n \in Numbers : ~ (Len(log) < n)
    BY <1>1
  <2>. QED BY <1>1, <1>3, <2>1, <2>2 DEF ReadsOn, QueueIncreases, BacklogFollows, NoGap
<1>4. ASSUME Leave(r), \A s \in Readers \ {r} : cursor'[s] = cursor[s] PROVE StreamInv'
  <2>1. /\ reader'[r] = "off" /\ queue'[r] = <<>> /\ backlog'[r] = <<>> /\ subs' = subs \ {r}
        /\ walk' = [walk EXCEPT !.full = @ \ {r}, !.rest = @ \ {r}]
        /\ \A s \in Readers \ {r} : reader'[s] = reader[s] /\ queue'[s] = queue[s] /\ backlog'[s] = backlog[s]
    BY <1>2, <1>4 DEF Leave
  <2>2. ReadsOn(r)'
    BY <1>3, <2>1
  <2>. QED BY <1>1, <1>4, <2>1, <2>2, OneReaderMoves
<1>5. CASE Connect(r)
  <2>1. /\ reader'[r] = "subscribed" /\ queue'[r] = <<>> /\ backlog'[r] = <<>>
        /\ UNCHANGED <<walk, queue, backlog, cursor>> /\ (life = "idle" => subs' \subseteq subs)
        /\ \A s \in Readers \ {r} : reader'[s] = reader[s] /\ (s \in subs' <=> s \in subs)
    BY <1>1, <1>2, <1>5 DEF Connect, QueueInv, OffIsEmpty, ReadsOn, BacklogFollows
  <2>2. ReadsOn(r)'
    BY <1>3, <2>1
  <2>. QED BY <1>1, <2>1, <2>2, OneReaderMoves
<1>6. CASE ReadLog(r)
  <2> DEFINE rows == [i \in 1..(Len(log) - a) |-> a + i]
  <2>1. /\ reader'[r] = "read" /\ backlog'[r] = rows /\ UNCHANGED <<subs, walk, queue, cursor>>
        /\ \A s \in Readers \ {r} : reader'[s] = reader[s] /\ backlog'[s] = backlog[s]
    BY <1>2, <1>6 DEF ReadLog
  <2>2. Len(log) - a \in Nat
    BY <1>1
  <2>3. Len(rows) = Len(log) - a /\ DOMAIN rows = 1..(Len(log) - a) /\ \A i \in DOMAIN rows : rows[i] = a + i
    BY <2>2
  <2>. HIDE DEF rows
  <2>4. Seen(r)' = Len(log)
    BY <1>1, <2>1, <2>3 DEF Seen
  <2>5. \A n \in Numbers : ~ (Len(log) < n)
    BY <1>1
  <2>6. QueueIncreases(r)'
    BY <1>1, <2>1 DEF ReadsOn, QueueIncreases
  <2>7. BacklogFollows(r)'
    BY <2>1, <2>3 DEF BacklogFollows
  <2>8. NoGap(r)'
    BY <1>1, <2>1, <2>4, <2>5 DEF NoGap
  <2>9. ReadsOn(r)'
    BY <2>6, <2>7, <2>8 DEF ReadsOn
  <2>. QED BY <1>1, <2>1, <2>9, OneReaderMoves
<1>7. CASE Drain(r)
  <2>1. /\ reader[r] = "read" /\ reader'[r] = "backlog" /\ backlog'[r] = Merged(r) /\ queue'[r] = <<>>
        /\ UNCHANGED <<subs, walk, cursor>>
        /\ \A s \in Readers \ {r} : reader'[s] = reader[s] /\ backlog'[s] = backlog[s] /\ queue'[s] = queue[s]
    BY <1>2, <1>7 DEF Drain
  <2>2. PICK k \in Nat :
           /\ a + k \in Numbers /\ Seen(r) <= a + k
           /\ \A n \in Entries(q) : n <= a + k
           /\ Merged(r) = IF 0 \in Entries(q) THEN Append([i \in 1..k |-> a + i], 0) ELSE [i \in 1..k |-> a + i]
    BY <2>1, MergedGoesOn
  <2> DEFINE rows == [i \in 1..k |-> a + i]
  <2>3. rows \in Seq(Numbers) /\ Len(rows) = k /\ DOMAIN rows = 1..k /\ \A i \in 1..k : rows[i] = a + i
    <3>1. \A i \in 1..k : a + i \in Numbers
      BY <1>1, <2>2
    <3>2. \A N \in Nat : \A f \in [1..N -> Numbers] : f \in Seq(Numbers) /\ Len(f) = N
      OBVIOUS
    <3>3. rows \in [1..k -> Numbers]
      BY <3>1
    <3>. QED BY <3>2, <3>3
  <2>4. 0 \in Entries(q) => r \notin subs
    BY <1>1 DEF QueueInv, FedIsOpen, Clear, Entries
  <2>. HIDE DEF rows
  <2>5. /\ Len(Merged(r)) >= k /\ Len(Merged(r)) \in Nat
        /\ \A i \in DOMAIN Merged(r) : Merged(r)[i] = a + i \/ (Merged(r)[i] = 0 /\ i = Len(Merged(r)) /\ r \notin subs)
    <3>1. CASE 0 \in Entries(q)
      <4>1. Merged(r) = Append(rows, 0) /\ 0 \in Numbers
        BY <1>1, <2>2, <3>1 DEF rows
      <4>2. Len(Merged(r)) = k + 1 /\ DOMAIN Merged(r) = 1..(k + 1) /\ Merged(r)[k + 1] = 0
            /\ \A i \in 1..k : Merged(r)[i] = rows[i]
        BY <2>3, <4>1
      <4>. QED BY <2>3, <2>4, <3>1, <4>2
    <3>2. CASE 0 \notin Entries(q)
      <4>1. Merged(r) = rows
        BY <2>2, <3>2 DEF rows
      <4>. QED BY <2>3, <4>1
    <3>. QED BY <3>1, <3>2
  <2>6. Seen(r)' = a + Len(Merged(r)) /\ Seen(r)' >= a + k
    BY <1>1, <2>1, <2>5 DEF Seen
  <2>7. QueueIncreases(r)' /\ BacklogFollows(r)'
    BY <1>1, <2>1, <2>5 DEF QueueIncreases, BacklogFollows
  <2>8. ASSUME r \in subs, NEW n \in Numbers, Seen(r)' < n PROVE \E p \in Publishers : pending[p] = n
    <3>1. Seen(r) < n /\ ~ (n <= a + k)
      BY <1>1, <2>2, <2>5, <2>6, <2>8
    <3>2. n \notin Entries(q)
      BY <2>2, <3>1
    <3>. QED BY <1>1, <2>8, <3>1, <3>2 DEF ReadsOn, NoGap
  <2>9. NoGap(r)'
    BY <1>1, <2>1, <2>8 DEF NoGap
  <2>10. ReadsOn(r)'
    BY <2>7, <2>9 DEF ReadsOn
  <2>. QED BY <1>1, <2>1, <2>10, OneReaderMoves
<1>8. CASE Replay(r)
  <2>1. /\ reader[r] = "read" /\ reader'[r] = "backlog" /\ UNCHANGED <<subs, walk, queue, backlog, cursor>>
        /\ \A s \in Readers \ {r} : reader'[s] = reader[s]
    BY <1>2, <1>8 DEF Replay
  <2>2. Seen(r)' = Seen(r)
    BY <2>1 DEF Seen
  <2>3. QueueIncreases(r)' /\ BacklogFollows(r)' /\ NoGap(r)'
    BY <1>1, <2>1, <2>2 DEF ReadsOn, QueueIncreases, BacklogFollows, NoGap
  <2>4. ReadsOn(r)'
    BY <2>3 DEF ReadsOn
  <2>. QED BY <1>1, <2>1, <2>4, OneReaderMoves
<1>9. CASE Follow(r)
  <2>1. CASE reader' = [reader EXCEPT ![r] = "live"] /\ UNCHANGED <<subs, walk, queue, backlog>>
    <3>1. /\ reader[r] = "backlog" /\ b = <<>> /\ reader'[r] = "live" /\ UNCHANGED cursor
          /\ \A s \in Readers \ {r} : reader'[s] = reader[s]
      BY <1>2, <1>9, <2>1 DEF Follow
    <3>2. Seen(r)' = Seen(r)
      BY <2>1, <3>1 DEF Seen
    <3>3. QueueIncreases(r)'
      BY <1>1, <2>1 DEF ReadsOn, QueueIncreases
    <3>4. BacklogFollows(r)'
      BY <1>1, <2>1, <3>1 DEF BacklogFollows
    <3>5. NoGap(r)'
      BY <1>1, <2>1, <3>2 DEF ReadsOn, NoGap
    <3>6. ReadsOn(r)'
      BY <3>3, <3>4, <3>5 DEF ReadsOn
    <3>. QED BY <1>1, <2>1, <3>1, <3>6, OneReaderMoves
  <2>2. CASE Leave(r)
    BY <1>4, <1>9, <2>2 DEF Follow
  <2>. QED BY <1>9, <2>1, <2>2 DEF Follow
<1>10. CASE Drop(r)
  BY <1>4, <1>10 DEF Drop
<1>11. ASSUME NEW n, Send(r, n)
       PROVE  cursor'[r] = (IF n > a THEN n ELSE a) /\ \A s \in Readers \ {r} : cursor'[s] = cursor[s]
  BY <1>2, <1>11 DEF Send
<1>12. CASE Yield(r)
  <2>1. b # <<>> /\ Send(r, Head(b)) /\ reader[r] = "backlog"
    BY <1>12 DEF Yield
  <2>2. CASE Leave(r)
    BY <1>4, <1>11, <2>1, <2>2
  <2>3. CASE /\ Head(b) # 0 /\ backlog' = [backlog EXCEPT ![r] = Tail(@)]
             /\ UNCHANGED <<reader, subs, walk, queue>>
    <3>1. /\ Head(b) = b[1] /\ 1 \in DOMAIN b /\ Len(b) >= 1
          /\ Len(Tail(b)) = Len(b) - 1 /\ DOMAIN Tail(b) = 1..(Len(b) - 1)
          /\ \A i \in 1..(Len(b) - 1) : Tail(b)[i] = b[i + 1]
      BY <1>1, <2>1
    <3> DEFINE t == Tail(b)
    <3>2. backlog'[r] = t /\ \A s \in Readers \ {r} : backlog'[s] = backlog[s]
      BY <1>2, <2>3
    <3>. HIDE DEF t
    <3>3. b[1] = a + 1
      BY <1>1, <2>3, <3>1 DEF ReadsOn, BacklogFollows
    <3>4. cursor'[r] = a + 1 /\ \A s \in Readers \ {r} : cursor'[s] = cursor[s]
      BY <1>1, <1>11, <2>1, <3>1, <3>3
    <3>5. Len(t) = Len(b) - 1 /\ DOMAIN t = 1..(Len(b) - 1) /\ \A i \in 1..(Len(b) - 1) : t[i] = b[i + 1]
      BY <3>1 DEF t
    <3>6. Seen(r)' = Seen(r)
      <4>1. Seen(r) = a + Len(b)
        BY <2>1 DEF Seen
      <4>2. Seen(r)' = a + 1 + Len(t)
        BY <2>1, <2>3, <3>2, <3>4 DEF Seen
      <4>3. a \in Nat /\ Len(b) \in Nat /\ Len(t) = Len(b) - 1
        BY <1>1, <3>5
      <4>. HIDE DEF a, b
      <4>. QED BY <4>1, <4>2, <4>3
    <3>7. BacklogFollows(r)'
      <4>1. ASSUME NEW i \in DOMAIN t
            PROVE  t[i] = a + 1 + i \/ (t[i] = 0 /\ i = Len(t) /\ queue[r] = <<>> /\ r \notin subs)
        <5>1. i + 1 \in DOMAIN b /\ t[i] = b[i + 1] /\ i \in Nat
          BY <1>1, <3>5
        <5>2. b[i + 1] = a + (i + 1) \/ (b[i + 1] = 0 /\ i + 1 = Len(b) /\ queue[r] = <<>> /\ r \notin subs)
          BY <1>1, <5>1 DEF ReadsOn, BacklogFollows
        <5>3. a \in Nat /\ Len(b) \in Nat /\ Len(t) = Len(b) - 1
          BY <1>1, <3>5
        <5>. HIDE DEF a, b
        <5>. QED BY <5>1, <5>2, <5>3
      <4>. QED BY <2>1, <2>3, <3>2, <3>4, <4>1 DEF BacklogFollows
    <3>8. QueueIncreases(r)' /\ NoGap(r)'
      BY <1>1, <2>3, <3>6 DEF ReadsOn, QueueIncreases, NoGap
    <3>9. ReadsOn(r)'
      BY <3>7, <3>8 DEF ReadsOn
    <3>. QED BY <1>1, <2>3, <3>2, <3>4, <3>9, OneReaderMoves
  <2>. QED BY <1>12, <2>2, <2>3 DEF Yield, Ends
<1>13. CASE Take(r)
  <2>1. q # <<>> /\ Send(r, Head(q)) /\ reader[r] = "live"
    BY <1>13 DEF Take
  <2>2. CASE Leave(r)
    BY <1>4, <1>11, <2>1, <2>2
  <2>3. CASE /\ Head(q) # 0 /\ queue' = [queue EXCEPT ![r] = Tail(@)]
             /\ UNCHANGED <<reader, subs, walk, backlog>>
    <3>1. /\ Head(q) = q[1] /\ 1 \in DOMAIN q /\ Len(q) >= 1
          /\ Len(Tail(q)) = Len(q) - 1 /\ DOMAIN Tail(q) = 1..(Len(q) - 1)
          /\ \A i \in 1..(Len(q) - 1) : Tail(q)[i] = q[i + 1]
      BY <1>1, <2>1
    <3> DEFINE t == Tail(q)
               n == q[1]
               c == IF n > a THEN n ELSE a
    <3>2. queue'[r] = t /\ \A s \in Readers \ {r} : queue'[s] = queue[s]
      BY <1>2, <2>3
    <3>3. cursor'[r] = c /\ \A s \in Readers \ {r} : cursor'[s] = cursor[s]
      BY <1>11, <2>1, <3>1
    <3>. HIDE DEF t
    <3>4. n \in Numbers /\ c \in Nat /\ c >= a /\ c >= n
      BY SMTT(20), <1>1, <3>1
    <3>. HIDE DEF c
    <3>5. b = <<>> /\ Seen(r) = a /\ Seen(r)' = c
      <4>1. b = <<>>
        BY <1>1, <2>1 DEF ReadsOn, BacklogFollows
      <4>2. Seen(r) = a + Len(b) /\ Seen(r)' = c + Len(b)
        BY <2>1, <2>3, <3>3 DEF Seen
      <4>3. a \in Nat
        BY <1>1
      <4>. HIDE DEF a, b
      <4>. QED BY <3>4, <4>1, <4>2, <4>3
    <3>6. \A i \in DOMAIN t : i \in Nat /\ i + 1 \in DOMAIN q /\ t[i] = q[i + 1] /\ t[i] \in Numbers
      <4>1. /\ Len(q) \in Nat /\ DOMAIN q = 1..Len(q) /\ DOMAIN t = 1..(Len(q) - 1)
            /\ \A i \in 1..(Len(q) - 1) : t[i] = q[i + 1]
            /\ \A i \in 1..Len(q) : q[i] \in Numbers
        BY <1>1, <3>1 DEF t
      <4>. HIDE DEF q
      <4>. QED BY <4>1
    <3>7. \A m \in Entries(q) : m > c => m \in Entries(t)
      <4> SUFFICES ASSUME NEW i \in DOMAIN q, q[i] > c PROVE q[i] \in Entries(t)
        BY DEF Entries
      <4>1. i # 1
        BY <1>1, <3>4
      <4>2. i - 1 \in DOMAIN t /\ t[i - 1] = q[i]
        <5>1. /\ Len(q) \in Nat /\ DOMAIN q = 1..Len(q) /\ DOMAIN t = 1..(Len(q) - 1)
              /\ \A k \in 1..(Len(q) - 1) : t[k] = q[k + 1]
          BY <1>1, <3>1 DEF t
        <5>. HIDE DEF q
        <5>2. i - 1 \in 1..(Len(q) - 1) /\ (i - 1) + 1 = i
          BY <4>1, <5>1
        <5>. QED BY <5>1, <5>2
      <4>. QED BY <4>2 DEF Entries
    <3>8. QueueIncreases(r)'
      <4>1. ASSUME NEW i \in DOMAIN t, t[i] # 0 PROVE t[i] >= i
        <5>1. q[i + 1] >= i + 1
          BY <1>1, <3>6, <4>1 DEF ReadsOn, QueueIncreases
        <5>. QED BY <1>1, <3>6, <5>1
      <4>2. ASSUME NEW i \in DOMAIN t, NEW j \in DOMAIN t, i < j, t[i] # 0, t[j] # 0 PROVE t[i] < t[j]
        <5>1. i + 1 < j + 1
          BY <3>6, <4>2
        <5>. QED BY <1>1, <3>6, <4>2, <5>1 DEF ReadsOn, QueueIncreases
      <4>3. \A p \in Publishers : pending[p] # 0 => \A i \in DOMAIN t : t[i] < pending[p]
        BY <1>1, <3>6 DEF ReadsOn, QueueIncreases
      <4>. QED BY <1>1, <3>2, <4>1, <4>2, <4>3 DEF QueueIncreases
    <3>9. BacklogFollows(r)'
      BY <2>3, <3>5 DEF BacklogFollows
    <3>10. ASSUME NEW i \in DOMAIN t, NEW m \in Numbers, c < m, m <= t[i] PROVE m \in Entries(t)
      <4>1. a < m /\ m <= q[i + 1] /\ i + 1 \in DOMAIN q
        BY SMTT(20), <1>1, <3>4, <3>6, <3>10
      <4>. QED BY <1>1, <3>4, <3>5, <3>7, <3>10, <4>1 DEF ReadsOn, NoGap
    <3>11. ASSUME r \in subs, NEW m \in Numbers, c < m PROVE m \in Entries(t) \/ \E p \in Publishers : pending[p] = m
      <4>1. a < m /\ m > c
        BY <1>1, <3>4, <3>11
      <4>. QED BY <1>1, <3>5, <3>7, <3>11, <4>1 DEF ReadsOn, NoGap
    <3>12. NoGap(r)'
      BY <1>1, <2>3, <3>2, <3>5, <3>10, <3>11 DEF NoGap
    <3>13. ReadsOn(r)'
      BY <3>8, <3>9, <3>12 DEF ReadsOn
    <3>. QED BY <1>1, <2>3, <3>2, <3>3, <3>13, OneReaderMoves
  <2>. QED BY <1>13, <2>2, <2>3 DEF Take, Ends
<1>. QED BY <1>5, <1>6, <1>7, <1>8, <1>9, <1>10, <1>12, <1>13 DEF Read

LEMMA StreamStepHolds ==
  QueueInv /\ StreamInv /\ Bounded /\ Roomy /\ [Next]_vars => StreamInv'
<1> SUFFICES ASSUME QueueInv, StreamInv, Bounded, Roomy, [Next]_vars PROVE StreamInv'
  OBVIOUS
<1>1. ASSUME NEW p \in Publishers, NEW kind \in Kinds, Commit(p, kind) PROVE StreamInv'
  BY <1>1, CommitKeepsStreams
<1>2. ASSUME NEW p \in Publishers, Deliver(p) PROVE StreamInv'
  BY <1>2, DeliverKeepsStreams
<1>3. CASE GoOn
  BY <1>3 DEF GoOn, StreamInv, NobodyIsSlow
<1>4. ASSUME NEW r \in Readers, Read(r) \/ Drop(r) PROVE StreamInv'
  BY <1>4, ReadsKeepStreams
<1>5. CASE GoLive \/ UNCHANGED vars
  <2>1. /\ UNCHANGED <<log, subs, pending, walk, queue, reader, backlog, cursor>>
        /\ life' = "idle" => life = "idle"
    BY <1>5 DEF GoLive, vars, readers
  <2>. QED BY <2>1 DEF StreamInv, OneAtATime, NobodyIsSlow, ReadsOn, QueueIncreases, BacklogFollows, NoGap,
                       Seen, Numbers
<1>6. CASE StoreAppend
  BY <1>6, StoreAppendKeepsStreams
<1>7. CASE CloseRun
  BY <1>7, CloseRunKeepsStreams
<1>. QED BY <1>1, <1>2, <1>3, <1>4, <1>5, <1>6, <1>7 DEF Next

\* A step publishes one event, or lets one reader receive the next one, or is neither.
FeedStep ==
  \/ UNCHANGED <<log, cursor>>
  \/ \E kind \in Kinds : log' = Append(log, kind) /\ UNCHANGED cursor
  \/ \E r \in Readers : /\ cursor[r] < Len(log) /\ cursor' = [cursor EXCEPT ![r] = @ + 1]
                        /\ UNCHANGED log

LEMMA SendsOneEvent ==
  ASSUME QueueInv, NEW r \in Readers, NEW n \in Numbers, n <= cursor[r] + 1, Send(r, n)
  PROVE  FeedStep
<1>1. /\ Len(log) \in Nat /\ Numbers = 0..Len(log) /\ cursor[r] \in Nat /\ log' = log
      /\ cursor \in [Readers -> Numbers]
      /\ cursor' = [cursor EXCEPT ![r] = IF n > cursor[r] THEN n ELSE cursor[r]]
  BY ReaderFacts DEF Send, runVars, EventTypes, Numbers
<1>2. CASE n > cursor[r]
  <2>1. n = cursor[r] + 1 /\ cursor[r] < Len(log)
    BY <1>1, <1>2
  <2>2. cursor' = [cursor EXCEPT ![r] = @ + 1]
    BY <1>1, <1>2, <2>1
  <2>. QED BY <1>1, <2>1, <2>2 DEF FeedStep
<1>3. CASE ~ (n > cursor[r])
  <2>1. cursor' = cursor
    BY <1>1, <1>3
  <2>. QED BY <1>1, <2>1 DEF FeedStep
<1>. QED BY <1>2, <1>3

LEMMA EventsAreFed ==
  QueueInv /\ StreamInv /\ [Next]_vars => FeedStep
<1> SUFFICES ASSUME QueueInv, StreamInv, [Next]_vars PROVE FeedStep
  OBVIOUS
<1>1. ASSUME NEW p \in Publishers, NEW kind \in Kinds, Commit(p, kind) PROVE FeedStep
  BY <1>1 DEF Commit, Append1, readers, FeedStep
<1>2. ASSUME NEW p \in Publishers, Deliver(p) PROVE FeedStep
  BY <1>2 DEF Deliver, readers, FeedStep
<1>3. ASSUME NEW r \in Readers, Connect(r) \/ ReadLog(r) \/ Drain(r) \/ Replay(r) \/ Follow(r) \/ Drop(r) PROVE FeedStep
  BY <1>3 DEF Connect, ReadLog, Drain, Replay, Follow, Drop, runVars, FeedStep
<1>4. ASSUME NEW r \in Readers, Yield(r) PROVE FeedStep
  <2>1. backlog[r] # <<>> /\ Send(r, Head(backlog[r])) /\ cursor[r] \in Nat /\ backlog[r] \in Seq(Numbers)
    BY <1>4, StreamFacts DEF Yield, Numbers
  <2>2. Head(backlog[r]) = backlog[r][1] /\ 1 \in DOMAIN backlog[r] /\ Head(backlog[r]) \in Numbers
    BY <2>1
  <2>3. Head(backlog[r]) <= cursor[r] + 1
    <3>1. backlog[r][1] = cursor[r] + 1 \/ backlog[r][1] = 0
      BY <2>2, StreamFacts DEF ReadsOn, BacklogFollows
    <3>. QED BY <2>1, <2>2, <3>1
  <2>. QED BY <2>1, <2>2, <2>3, SendsOneEvent
<1>5. ASSUME NEW r \in Readers, Take(r) PROVE FeedStep
  <2>1. reader[r] = "live" /\ queue[r] # <<>> /\ Send(r, Head(queue[r]))
    BY <1>5 DEF Take
  <2>. QED BY <2>1, HeadIsNext, SendsOneEvent
<1>6. CASE GoLive \/ CloseRun \/ GoOn \/ UNCHANGED vars
  BY <1>6 DEF GoLive, CloseRun, GoOn, readers, vars, FeedStep
<1>7. CASE StoreAppend
  BY <1>7 DEF StoreAppend, readers, Kinds, FeedStep
<1>. QED BY <1>1, <1>2, <1>3, <1>4, <1>5, <1>6, <1>7 DEF Next, Read
=============================================================================
