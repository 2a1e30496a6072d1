------------------------------ MODULE ListsProofs -------------------------------
(* Lemmas about numbers, lists and recursion that the proofs of several parts     *)
(* need.  The induction theorems of the library take a predicate as parameter,    *)
(* which the provers cannot instantiate; a least counterexample and a set instead *)
(* of the predicate do the same (NatLeast, Induction, Recursion).                 *)
EXTENDS Lists, SequencesExt, FiniteSetTheorems, WellFoundedInduction, TLAPS

-----------------------------------------------------------------------------
(* Sets of naturals *)

\* A non-empty set of naturals has a least element.
LEMMA NatLeast ==
  ASSUME NEW S \in SUBSET Nat, S # {}
  PROVE  \E x \in S : \A y \in S : x <= y
<1> DEFINE R == OpToRel(<, Nat)
<1>1. IsWellFoundedOn(R, Nat)
  BY NatLessThanWellFounded
<1>2. PICK x \in S : \A y \in S : ~(<<y, x>> \in R)
  BY <1>1, WFMin
<1>3. \A y \in S : ~(y < x)
  BY <1>2 DEF OpToRel
<1> HIDE DEF R
<1>4. x \in Nat /\ \A y \in S : y \in Nat
  OBVIOUS
<1>5. \A y \in S : x <= y
  BY <1>3, <1>4
<1> QED BY <1>5

\* A non-empty set of naturals with an upper bound has a greatest element.
LEMMA NatGreatest ==
  ASSUME NEW n \in Nat, NEW S \in SUBSET (0..n), S # {}
  PROVE  \E x \in S : \A y \in S : y <= x
<1> DEFINE U == {u \in Nat : \A y \in S : y <= u}
<1>1. n \in U
  OBVIOUS
<1>2. PICK m \in U : \A u \in U : m <= u
  BY <1>1, NatLeast
<1>3. m \in S
  <2> SUFFICES ASSUME m \notin S PROVE FALSE
    OBVIOUS
  <2>1. \A y \in S : y <= m - 1 /\ m - 1 \in Nat
    BY <1>2
  <2>2. m - 1 \in U
    BY <2>1
  <2> QED BY <2>2, <1>2
<1> QED BY <1>2, <1>3

\* A set that has 0, and with every number the next one, has them all.
LEMMA Induction ==
  ASSUME NEW n \in Nat, NEW T, 0 \in T, \A i \in 1..n : i - 1 \in T => i \in T
  PROVE  \A i \in 0..n : i \in T
<1> DEFINE Rest == {i \in 0..n : i \notin T}
<1>1. ASSUME NEW m \in Rest, \A k \in Rest : m <= k PROVE FALSE
  <2>1. m \in 1..n /\ m - 1 \in 0..n /\ ~(m <= m - 1) /\ m \notin T
    OBVIOUS
  <2>2. m - 1 \in T
    BY <1>1, <2>1
  <2> QED BY <2>1, <2>2
<1>2. Rest \subseteq Nat
  OBVIOUS
<1> HIDE DEF Rest
<1>3. Rest = {}
  BY <1>1, <1>2, NatLeast
<1> QED BY <1>3 DEF Rest

-----------------------------------------------------------------------------
\* What a recursive function computes, step by step, exists.
Computes(S, base, n, F, u) ==
  u \in [0..n -> S] /\ u[0] = base /\ \A i \in 1..n : u[i] = F[<<u[i - 1], i>>]

LEMMA Recursion ==
  ASSUME NEW S, NEW base \in S, NEW n \in Nat, NEW F, F \in [S \X (1..n) -> S]
  PROVE  \E u : Computes(S, base, n, F, u)
<1> DEFINE Upto(k) == \E u \in [0..k -> S] : u[0] = base /\ \A i \in 1..k : u[i] = F[<<u[i - 1], i>>]
           T == {k \in 0..n : Upto(k)}
<1>1. Upto(0)
  <2> DEFINE u == [i \in 0..0 |-> base]
  <2>1. u \in [0..0 -> S] /\ u[0] = base /\ 1..0 = {}
    OBVIOUS
  <2> HIDE DEF u
  <2> QED BY <2>1
<1>2. ASSUME NEW k \in 1..n, Upto(k - 1) PROVE Upto(k)
  <2>1. PICK v \in [0..(k - 1) -> S] : v[0] = base /\ \A i \in 1..(k - 1) : v[i] = F[<<v[i - 1], i>>]
    BY <1>2
  <2> DEFINE last == F[<<v[k - 1], k>>]
             u == [i \in 0..k |-> IF i = k THEN last ELSE v[i]]
  <2>2. k \in Nat /\ k - 1 \in 0..(k - 1) /\ k # 0 /\ 0 \in 0..k /\ k \in 0..k
    OBVIOUS
  <2>3. last \in S
    BY <2>2
  <2> HIDE DEF last
  <2>4. u \in [0..k -> S]
    <3>1. \A i \in 0..k : i = k \/ i \in 0..(k - 1)
      OBVIOUS
    <3> QED BY <2>3, <3>1
  <2>5. u[0] = base /\ u[k] = last
    BY <2>1, <2>2
  <2>6. \A i \in 0..(k - 1) : u[i] = v[i]
    BY <2>2
  <2>7. ASSUME NEW i \in 1..k PROVE u[i] = F[<<u[i - 1], i>>]
    <3> HIDE DEF u
    <3>1. CASE i = k
      <4>1. u[i - 1] = v[k - 1]
        BY <2>2, <2>6, <3>1
      <4> QED BY <2>5, <3>1, <4>1 DEF last
    <3>2. CASE i # k
      <4>1. i \in 1..(k - 1) /\ i \in 0..(k - 1) /\ i - 1 \in 0..(k - 1)
        BY <3>2
      <4>2. u[i] = v[i] /\ u[i - 1] = v[i - 1]
        BY <2>6, <4>1
      <4> QED BY <2>1, <4>1, <4>2
    <3> QED BY <3>1, <3>2
  <2> HIDE DEF u
  <2> QED BY <2>4, <2>5, <2>7
<1> HIDE DEF Upto
<1>3. 0 \in T /\ \A i \in 1..n : i - 1 \in T => i \in T
  BY <1>1, <1>2
<1>4. Upto(n)
  <2>1. n \in 0..n
    OBVIOUS
  <2>2. n \in T
    <3> HIDE DEF T
    <3> QED BY <1>3, <2>1, Induction
  <2> QED BY <2>2
<1> QED BY <1>4 DEF Upto, Computes

-----------------------------------------------------------------------------
(* Lists *)

\* InOrder has at every place the number that many of the set do not exceed.
LEMMA InOrderRanks ==
  ASSUME NEW S, S \subseteq Nat, IsFiniteSet(S)
  PROVE  /\ Cardinality(S) \in Nat
         /\ InOrder(S) \in [1..Cardinality(S) -> S]
         /\ DOMAIN InOrder(S) = 1..Cardinality(S)
         /\ \A i \in 1..Cardinality(S) : Cardinality({m \in S : m <= InOrder(S)[i]}) = i
         /\ \A n \in S : \E i \in 1..Cardinality(S) : InOrder(S)[i] = n
<1> DEFINE Below(n) == {m \in S : m <= n}
           N == Cardinality(S)
           rank == [n \in S |-> Cardinality(Below(n))]
<1>1. N \in Nat
  BY FS_CardinalityType
<1>2. ASSUME NEW n \in S PROVE IsFiniteSet(Below(n)) /\ rank[n] = Cardinality(Below(n)) /\ rank[n] \in 1..N
  <2>1. Below(n) \in SUBSET S
    OBVIOUS
  <2>2. IsFiniteSet(Below(n)) /\ Cardinality(Below(n)) <= N
    BY <2>1, FS_Subset
  <2>3. n \in Below(n)
    OBVIOUS
  <2> HIDE DEF Below
  <2>4. Cardinality(Below(n)) \in Nat /\ Cardinality(Below(n)) # 0
    BY <2>2, <2>3, FS_CardinalityType, FS_EmptySet
  <2> HIDE DEF N
  <2> QED BY <1>1, <2>2, <2>4
<1>3. ASSUME NEW a \in S, NEW b \in S, rank[a] = rank[b] PROVE a = b
  <2>1. ASSUME NEW x \in S, NEW y \in S, x < y, rank[x] = rank[y] PROVE FALSE
    <3>0. x \in Nat /\ y \in Nat /\ \A m \in S : m \in Nat
      OBVIOUS
    <3>1. Below(x) \in SUBSET Below(y) /\ y \in Below(y) /\ y \notin Below(x)
      <4> HIDE DEF rank
      <4>1. x < y
        BY <2>1
      <4>2. ASSUME NEW m \in Below(x) PROVE m \in Below(y)
        BY <3>0, <4>1
      <4>3. y \in Below(y) /\ y \notin Below(x)
        BY <3>0, <4>1
      <4> QED BY <4>2, <4>3
    <3>2. IsFiniteSet(Below(y)) /\ Cardinality(Below(y)) = Cardinality(Below(x))
      BY <1>2, <2>1
    <3> HIDE DEF Below
    <3> QED BY <3>1, <3>2, FS_Subset
  <2>2. a \in Nat /\ b \in Nat
    OBVIOUS
  <2> QED BY <1>3, <2>1, <2>2
<1>4. rank \in Injection(S, 1..N)
  <2>1. rank \in [S -> 1..N]
    BY <1>2
  <2> HIDE DEF rank
  <2> QED BY <1>3, <2>1 DEF Injection, IsInjective
<1>5. rank \in Surjection(S, 1..N)
  <2>1. IsFiniteSet(1..N) /\ Cardinality(1..N) = N
    BY <1>1, FS_Interval
  <2> HIDE DEF rank
  <2> QED BY <1>4, <2>1, FS_Injection
<1>6. ASSUME NEW i \in 1..N PROVE InOrder(S)[i] \in S /\ rank[InOrder(S)[i]] = i
  <2>1. \E n \in S : rank[n] = i
    <3> HIDE DEF rank
    <3> QED BY <1>5 DEF Surjection
  <2>2. \E n \in S : Cardinality({m \in S : m <= n}) = i
    BY <2>1
  <2>3. InOrder(S)[i] = CHOOSE n \in S : Cardinality({m \in S : m <= n}) = i
    BY DEF InOrder
  <2>4. InOrder(S)[i] \in S /\ Cardinality({m \in S : m <= InOrder(S)[i]}) = i
    BY <2>2, <2>3
  <2> QED BY <2>4
<1>7. DOMAIN InOrder(S) = 1..N /\ InOrder(S) \in [1..N -> S]
  BY <1>6 DEF InOrder
<1>8. ASSUME NEW i \in 1..N PROVE Cardinality({m \in S : m <= InOrder(S)[i]}) = i
  BY <1>6
<1> HIDE DEF rank, Below
<1>9. ASSUME NEW n \in S PROVE \E i \in 1..N : InOrder(S)[i] = n
  BY <1>2, <1>3, <1>6
<1> QED BY <1>1, <1>7, <1>8, <1>9

\* InOrder lists the numbers of a set, each once.
LEMMA InOrderLists ==
  ASSUME NEW S, S \subseteq Nat, IsFiniteSet(S)
  PROVE  /\ Cardinality(S) \in Nat
         /\ InOrder(S) \in [1..Cardinality(S) -> S]
         /\ DOMAIN InOrder(S) = 1..Cardinality(S)
         /\ \A i, j \in 1..Cardinality(S) : InOrder(S)[i] = InOrder(S)[j] => i = j
         /\ \A n \in S : \E i \in 1..Cardinality(S) : InOrder(S)[i] = n
<1> DEFINE below(n) == Cardinality({m \in S : m <= n})
<1>1. \A i \in 1..Cardinality(S) : below(InOrder(S)[i]) = i
  BY InOrderRanks
<1> HIDE DEF below
<1>2. \A i, j \in 1..Cardinality(S) : InOrder(S)[i] = InOrder(S)[j] => i = j
  BY <1>1
<1> QED BY <1>2, InOrderRanks

\* InOrder goes from the smallest to the largest.
LEMMA InOrderGrows ==
  ASSUME NEW S, S \subseteq Nat, IsFiniteSet(S)
  PROVE  \A i, j \in 1..Cardinality(S) : i < j => InOrder(S)[i] < InOrder(S)[j]
<1> SUFFICES ASSUME NEW i \in 1..Cardinality(S), NEW j \in 1..Cardinality(S), i < j,
                    ~(InOrder(S)[i] < InOrder(S)[j])
             PROVE  FALSE
  OBVIOUS
<1> DEFINE below(n) == {m \in S : m <= n}
<1>1. InOrder(S)[i] \in S /\ InOrder(S)[j] \in S /\ Cardinality(S) \in Nat
  BY InOrderRanks
<1>2. Cardinality(below(InOrder(S)[i])) = i /\ Cardinality(below(InOrder(S)[j])) = j
  BY InOrderRanks
<1>3. below(InOrder(S)[j]) \in SUBSET below(InOrder(S)[i])
  <2> DEFINE x == InOrder(S)[i]
             y == InOrder(S)[j]
  <2>1. x \in Nat /\ y \in Nat /\ ~(x < y)
    BY <1>1
  <2> HIDE DEF x, y
  <2>2. y <= x
    BY <2>1
  <2>3. ASSUME NEW m \in S, m <= y PROVE m <= x
    <3>1. m \in Nat
      OBVIOUS
    <3> QED BY <2>1, <2>2, <2>3, <3>1
  <2>4. below(y) \in SUBSET below(x)
    BY <2>3
  <2> QED BY <2>4 DEF x, y
<1>4. IsFiniteSet(below(InOrder(S)[i]))
  <2>1. below(InOrder(S)[i]) \in SUBSET S
    OBVIOUS
  <2> QED BY <2>1, FS_Subset
<1> HIDE DEF below
<1>5. j <= i
  BY <1>2, <1>3, <1>4, FS_Subset
<1> QED BY <1>1, <1>5

LEMMA Appended ==
  ASSUME NEW S, NEW h \in Seq(S), NEW m \in S
  PROVE  /\ Append(h, m) \in Seq(S) /\ Len(h) \in Nat /\ Len(Append(h, m)) = Len(h) + 1
         /\ DOMAIN h = 1..Len(h) /\ DOMAIN Append(h, m) = 1..(Len(h) + 1)
         /\ Append(h, m)[Len(h) + 1] = m /\ \A i \in 1..Len(h) : Append(h, m)[i] = h[i]
         /\ Range(Append(h, m)) = Range(h) \cup {m}
<1>1. /\ Append(h, m) \in Seq(S) /\ Len(h) \in Nat /\ Len(Append(h, m)) = Len(h) + 1
      /\ DOMAIN h = 1..Len(h) /\ DOMAIN Append(h, m) = 1..(Len(h) + 1)
      /\ Append(h, m)[Len(h) + 1] = m /\ \A i \in 1..Len(h) : Append(h, m)[i] = h[i]
  OBVIOUS
<1> DEFINE g == Append(h, m)
<1> HIDE DEF g
<1>2. Range(g) = Range(h) \cup {m}
  BY <1>1 DEF Range, g
<1> QED BY <1>1, <1>2 DEF g

LEMMA Joined ==
  ASSUME NEW S, NEW h \in Seq(S), NEW t \in Seq(S)
  PROVE  /\ h \o t \in Seq(S) /\ Len(h) \in Nat /\ Len(t) \in Nat /\ Len(h \o t) = Len(h) + Len(t)
         /\ DOMAIN h = 1..Len(h) /\ DOMAIN t = 1..Len(t) /\ DOMAIN (h \o t) = 1..(Len(h) + Len(t))
         /\ \A i \in 1..Len(h) : (h \o t)[i] = h[i]
         /\ \A i \in 1..Len(t) : (h \o t)[Len(h) + i] = t[i]
         /\ \A i \in Len(h) + 1 .. Len(h) + Len(t) : (h \o t)[i] = t[i - Len(h)] /\ i - Len(h) \in 1..Len(t)
         /\ Range(h \o t) = Range(h) \cup Range(t)
<1> DEFINE g == h \o t
<1>1. /\ g \in Seq(S) /\ Len(h) \in Nat /\ Len(t) \in Nat /\ Len(g) = Len(h) + Len(t)
      /\ DOMAIN h = 1..Len(h) /\ DOMAIN t = 1..Len(t) /\ DOMAIN g = 1..(Len(h) + Len(t))
      /\ \A i \in 1..Len(h) : g[i] = h[i]
      /\ \A i \in Len(h) + 1 .. Len(h) + Len(t) : g[i] = t[i - Len(h)] /\ i - Len(h) \in 1..Len(t)
  OBVIOUS
<1> HIDE DEF g
<1>2. \A i \in 1..Len(t) : g[Len(h) + i] = t[i]
  <2> TAKE i \in 1..Len(t)
  <2>1. Len(h) + i \in Len(h) + 1 .. Len(h) + Len(t) /\ (Len(h) + i) - Len(h) = i
    BY <1>1
  <2> QED BY <1>1, <2>1
<1>3. Range(g) = Range(h) \cup Range(t)
  <2>1. ASSUME NEW x \in Range(g) PROVE x \in Range(h) \cup Range(t)
    <3>1. PICK i \in DOMAIN g : x = g[i]
      BY DEF Range
    <3>2. i \in 1..Len(h) \/ i \in Len(h) + 1 .. Len(h) + Len(t)
      BY <1>1
    <3> QED BY <1>1, <3>1, <3>2 DEF Range
  <2>2. ASSUME NEW x \in Range(h) PROVE x \in Range(g)
    <3>1. PICK i \in 1..Len(h) : x = h[i]
      BY <1>1 DEF Range
    <3>2. i \in DOMAIN g
      BY <1>1
    <3> QED BY <1>1, <3>1, <3>2 DEF Range
  <2>3. ASSUME NEW x \in Range(t) PROVE x \in Range(g)
    <3>1. PICK i \in 1..Len(t) : x = t[i]
      BY <1>1 DEF Range
    <3>2. Len(h) + i \in DOMAIN g
      BY <1>1
    <3> QED BY <1>2, <3>1, <3>2 DEF Range
  <2> QED BY <2>1, <2>2, <2>3
<1> QED BY <1>1, <1>2, <1>3 DEF g

\* Lists of the same elements are the same.
LEMMA SameList ==
  ASSUME NEW S, NEW s \in Seq(S), NEW t \in Seq(S), Len(s) = Len(t), \A i \in 1..Len(s) : s[i] = t[i]
  PROVE  s = t
OBVIOUS

\* What a list with two elements, or the first of them, adds to another.
LEMMA PairJoined ==
  ASSUME NEW S, NEW s \in Seq(S), NEW u \in Seq(S)
  PROVE  Len(s) = 2 => /\ u \o SubSeq(s, 1, 0) = u
                       /\ u \o SubSeq(s, 1, 1) = Append(u, s[1])
                       /\ u \o s = Append(Append(u, s[1]), s[2]) /\ SubSeq(s, 1, 2) = s
<1>a. SUFFICES ASSUME Len(s) = 2
               PROVE  /\ u \o SubSeq(s, 1, 0) = u
                      /\ u \o SubSeq(s, 1, 1) = Append(u, s[1])
                      /\ u \o s = Append(Append(u, s[1]), s[2]) /\ SubSeq(s, 1, 2) = s
  OBVIOUS
<1>0. s[1] \in S /\ s[2] \in S /\ Len(u) \in Nat
  <2>1. \A i \in 1..Len(s) : s[i] \in S
    OBVIOUS
  <2>2. 1 \in 1..2 /\ 2 \in 1..2 /\ Len(u) \in Nat
    OBVIOUS
  <2> QED BY <1>a, <2>1, <2>2
<1>1. u \o SubSeq(s, 1, 0) = u
  <2>1. SubSeq(s, 1, 0) = <<>>
    OBVIOUS
  <2>2. u \o <<>> = u
    OBVIOUS
  <2> QED BY <2>1, <2>2, Zenon
<1>2. u \o SubSeq(s, 1, 1) = Append(u, s[1])
  <2> DEFINE t == SubSeq(s, 1, 1)
             a == Append(u, s[1])
             b == u \o t
  <2>1. t \in Seq(S) /\ Len(t) = 1 /\ t[1] = s[1]
    BY <1>0, <1>a
  <2>2. a \in Seq(S) /\ Len(a) = Len(u) + 1 /\ a[Len(u) + 1] = s[1] /\ \A i \in 1..Len(u) : a[i] = u[i]
    BY <1>0
  <2> HIDE DEF t
  <2>3. b \in Seq(S) /\ Len(b) = Len(u) + 1 /\ b[Len(u) + 1] = t[1] /\ \A i \in 1..Len(u) : b[i] = u[i]
    <3>t. t \in Seq(S)
      BY <2>1
    <3>1. b \in Seq(S) /\ Len(b) = Len(u) + Len(t) /\ (\A i \in 1..Len(t) : b[Len(u) + i] = t[i])
          /\ \A i \in 1..Len(u) : b[i] = u[i]
      BY <3>t, Joined
    <3>2. 1 \in 1..Len(t)
      BY <2>1
    <3> HIDE DEF b
    <3> QED BY <2>1, <3>1, <3>2
  <2> HIDE DEF a, b
  <2>4. \A i \in 1..Len(a) : a[i] = b[i]
    <3>1. \A i \in 1..Len(a) : i \in 1..Len(u) \/ i = Len(u) + 1
      BY <1>0, <2>2
    <3> QED BY <2>1, <2>2, <2>3, <3>1
  <2>5. a \in Seq(S) /\ b \in Seq(S) /\ Len(a) = Len(b)
    BY <2>2, <2>3
  <2>6. a = b
    BY <2>4, <2>5, SameList
  <2> QED BY <2>6 DEF a, b, t
<1>3. SubSeq(s, 1, 2) = s
  <2>1. SubSeq(s, 1, 2) \in Seq(S) /\ Len(SubSeq(s, 1, 2)) = 2
    <3>1. \A n \in 1..Len(s) : SubSeq(s, 1, n) \in Seq(S) /\ Len(SubSeq(s, 1, n)) = n
      OBVIOUS
    <3>2. 2 \in 1..Len(s)
      BY <1>a
    <3> QED BY <3>1, <3>2
  <2>2. \A i \in 1..2 : SubSeq(s, 1, 2)[i] = s[i]
    BY <1>a
  <2> QED BY <1>a, <2>1, <2>2, SameList
<1>4. u \o s = Append(Append(u, s[1]), s[2])
  <2> DEFINE a == Append(u, s[1])
             b == Append(a, s[2])
             c == u \o s
  <2>1. a \in Seq(S) /\ Len(a) = Len(u) + 1 /\ a[Len(u) + 1] = s[1] /\ \A i \in 1..Len(u) : a[i] = u[i]
    BY <1>0
  <2> HIDE DEF a
  <2>2. b \in Seq(S) /\ Len(b) = Len(u) + 2 /\ b[Len(u) + 2] = s[2] /\ \A i \in 1..Len(u) + 1 : b[i] = a[i]
    BY <1>0, <2>1
  <2> HIDE DEF b
  <2>3. c \in Seq(S) /\ Len(c) = Len(u) + 2 /\ c[Len(u) + 1] = s[1] /\ c[Len(u) + 2] = s[2]
        /\ \A i \in 1..Len(u) : c[i] = u[i]
    <3>1. c \in Seq(S) /\ Len(c) = Len(u) + Len(s) /\ (\A i \in 1..Len(s) : c[Len(u) + i] = s[i])
          /\ \A i \in 1..Len(u) : c[i] = u[i]
      BY Joined
    <3>2. 1 \in 1..Len(s) /\ 2 \in 1..Len(s)
      BY <1>a
    <3> HIDE DEF c
    <3> QED BY <1>a, <3>1, <3>2
  <2> HIDE DEF c
  <2>4. \A i \in 1..Len(b) : b[i] = c[i]
    <3>1. \A i \in 1..Len(b) : i \in 1..Len(u) \/ i = Len(u) + 1 \/ i = Len(u) + 2
      BY <1>0, <2>2
    <3>2. \A i \in 1..Len(u) : i \in 1..Len(u) + 1
      BY <1>0
    <3>3. Len(u) + 1 \in 1..Len(u) + 1
      BY <1>0
    <3> QED BY <2>1, <2>2, <2>3, <3>1, <3>2, <3>3
  <2>5. b \in Seq(S) /\ c \in Seq(S) /\ Len(b) = Len(c)
    BY <2>2, <2>3
  <2>6. b = c
    BY <2>4, <2>5, SameList
  <2> QED BY <2>6 DEF a, b, c
<1> QED BY <1>1, <1>2, <1>3, <1>4

\* What Picked takes from a list is of the list.
LEMMA PickedIs ==
  ASSUME NEW S, NEW s \in Seq(S), NEW at \in SUBSET (DOMAIN s)
  PROVE  /\ Picked(s, at) \in Seq(S) /\ Len(Picked(s, at)) = Cardinality(at)
         /\ \E order \in [1..Cardinality(at) -> at] :
              /\ \A k \in 1..Cardinality(at) : Picked(s, at)[k] = s[order[k]]
              /\ \A k, m \in 1..Cardinality(at) : order[k] = order[m] => k = m
              /\ \A i \in at : \E k \in 1..Cardinality(at) : order[k] = i
<1>1. at \subseteq Nat /\ IsFiniteSet(at) /\ \A i \in at : s[i] \in S
  <2>1. DOMAIN s = 1..Len(s) /\ Len(s) \in Nat
    OBVIOUS
  <2>2. IsFiniteSet(1..Len(s))
    BY <2>1, FS_Interval
  <2> QED BY <2>1, <2>2, FS_Subset
<1> DEFINE order == InOrder(at)
           N == Cardinality(at)
<1>2. /\ N \in Nat /\ order \in [1..N -> at] /\ DOMAIN order = 1..N
      /\ \A i, j \in 1..N : order[i] = order[j] => i = j
      /\ \A n \in at : \E i \in 1..N : order[i] = n
  BY <1>1, InOrderLists, Zenon
<1>3. Picked(s, at) = [k \in DOMAIN order |-> s[order[k]]]
  BY DEF Picked
<1> HIDE DEF order, N
<1>4. Picked(s, at) \in [1..N -> S] /\ \A k \in 1..N : Picked(s, at)[k] = s[order[k]]
  BY <1>1, <1>2, <1>3
<1>5. Picked(s, at) \in Seq(S) /\ Len(Picked(s, at)) = N
  BY <1>2, <1>4
<1> QED BY <1>2, <1>4, <1>5 DEF N

\* Picked keeps the order of the list.
LEMMA PickedInOrder ==
  ASSUME NEW S, NEW s \in Seq(S), NEW at \in SUBSET (DOMAIN s)
  PROVE  /\ Picked(s, at) \in Seq(S) /\ Len(Picked(s, at)) = Cardinality(at) /\ Cardinality(at) \in Nat
         /\ \E order \in [1..Cardinality(at) -> at] :
              /\ \A k \in 1..Cardinality(at) : Picked(s, at)[k] = s[order[k]]
              /\ \A k, m \in 1..Cardinality(at) : k < m => order[k] < order[m]
              /\ \A i \in at : \E k \in 1..Cardinality(at) : order[k] = i
<1>1. at \subseteq Nat /\ IsFiniteSet(at) /\ \A i \in at : s[i] \in S
  <2>1. DOMAIN s = 1..Len(s) /\ Len(s) \in Nat
    OBVIOUS
  <2>2. IsFiniteSet(1..Len(s))
    BY <2>1, FS_Interval
  <2> QED BY <2>1, <2>2, FS_Subset
<1> DEFINE order == InOrder(at)
           N == Cardinality(at)
<1>2. /\ N \in Nat /\ order \in [1..N -> at] /\ DOMAIN order = 1..N
      /\ \A n \in at : \E i \in 1..N : order[i] = n
  BY <1>1, InOrderRanks, Zenon
<1>3. \A i, j \in 1..N : i < j => order[i] < order[j]
  BY <1>1, InOrderGrows, Zenon
<1>4. \A k \in 1..N : Picked(s, at)[k] = s[order[k]]
  <2>1. Picked(s, at) = [k \in DOMAIN order |-> s[order[k]]]
    BY DEF Picked
  <2> HIDE DEF order, N
  <2> QED BY <1>2, <2>1
<1>5. Picked(s, at) \in Seq(S) /\ Len(Picked(s, at)) = N
  BY PickedIs, Zenon
<1> HIDE DEF order, N
<1> QED BY <1>2, <1>3, <1>4, <1>5 DEF N

\* Of two lists whose elements have growing places, the one that has nothing the other
\* has not, and nothing without what comes before it, is where the other starts.
LEMMA InitialPart ==
  ASSUME NEW F, NEW place \in [F -> Int], NEW s \in Seq(F), NEW t \in Seq(F),
         \A i, j \in 1..Len(s) : i < j => place[s[i]] < place[s[j]],
         \A i, j \in 1..Len(t) : i < j => place[t[i]] < place[t[j]],
         \A i \in 1..Len(s) : \E j \in 1..Len(t) : s[i] = t[j],
         \A i \in 1..Len(s), j \in 1..Len(t) :
           place[t[j]] < place[s[i]] => \E k \in 1..Len(s) : s[k] = t[j]
  PROVE  IsPrefix(s, t)
<1> DEFINE Same(k) == k <= Len(t) /\ s[k] = t[k]
           Off == {k \in 1..Len(s) : ~Same(k)}
<1>0. Len(s) \in Nat /\ Len(t) \in Nat /\ Off \in SUBSET Nat
  OBVIOUS
<1>t. \A k \in 1..Len(s) : s[k] \in F /\ place[s[k]] \in Int
  OBVIOUS
<1>u. \A k \in 1..Len(t) : t[k] \in F /\ place[t[k]] \in Int
  OBVIOUS
<1>1. ASSUME NEW k \in Off, \A m \in Off : k <= m PROVE FALSE
  <2>0. k \in 1..Len(s) /\ ~Same(k)
    OBVIOUS
  <2>1. \A j \in 1..(k - 1) : j \in 1..Len(s) /\ j < k /\ j <= Len(t) /\ s[j] = t[j]
    <3> SUFFICES ASSUME NEW j \in 1..(k - 1) PROVE j \in 1..Len(s) /\ j < k /\ Same(j)
      OBVIOUS
    <3>1. j \in 1..Len(s) /\ j < k /\ ~(k <= j)
      BY <1>0, <2>0
    <3>2. j \notin Off
      <4> HIDE DEF Off
      <4> QED BY <1>1, <3>1
    <3> QED BY <3>1, <3>2
  <2>2. PICK m \in 1..Len(t) : s[k] = t[m]
    BY <2>0
  <2> HIDE DEF Off
  <2>3. m > k
    <3>1. CASE m < k
      <4>1. m \in 1..(k - 1)
        BY <1>0, <2>0, <3>1
      <4>2. s[m] = s[k] /\ place[s[m]] < place[s[k]]
        BY <2>0, <2>1, <2>2, <4>1
      <4> QED BY <1>t, <2>0, <4>2
    <3>2. m # k
      BY <2>0, <2>2, <1>0
    <3> QED BY <1>0, <2>0, <3>1, <3>2
  <2>4. k \in 1..Len(t) /\ place[t[k]] < place[t[m]]
    BY <1>0, <2>0, <2>2, <2>3
  <2>5. PICK j \in 1..Len(s) : s[j] = t[k]
    BY <2>0, <2>2, <2>4
  <2>6. place[s[j]] < place[s[k]]
    BY <2>2, <2>4, <2>5
  <2>7. j < k
    <3>1. j # k
      BY <1>t, <2>0, <2>6
    <3>2. ~(k < j)
      <4> SUFFICES ASSUME k < j PROVE FALSE
        OBVIOUS
      <4>1. place[s[k]] < place[s[j]]
        BY <2>0, <2>5
      <4>2. place[s[k]] \in Int /\ place[s[j]] \in Int
        BY <1>t, <2>0, <2>5
      <4> HIDE DEF Same
      <4> QED BY <2>6, <4>1, <4>2
    <3> QED BY <1>0, <2>0, <3>1, <3>2
  <2>8. j \in 1..(k - 1)
    BY <1>0, <2>0, <2>5, <2>7
  <2>9. t[j] = t[k] /\ j \in 1..Len(t) /\ place[t[j]] < place[t[k]]
    BY <1>0, <2>1, <2>4, <2>5, <2>8
  <2> QED BY <1>u, <2>4, <2>9
<1>2. \A k \in 1..Len(s) : Same(k)
  <2>1. Off = {}
    <3> HIDE DEF Off
    <3> QED BY <1>0, <1>1, NatLeast
  <2> QED BY <2>1
<1>3. Len(s) <= Len(t)
  <2>1. CASE Len(s) = 0
    BY <1>0, <2>1
  <2>2. CASE Len(s) # 0
    <3>1. Len(s) \in 1..Len(s)
      BY <1>0, <2>2
    <3> QED BY <1>2, <3>1
  <2> QED BY <2>1, <2>2
<1>4. SubSeq(s, 1, Len(s)) = SubSeq(t, 1, Len(s))
  BY <1>0, <1>2, <1>3
<1> QED BY <1>3, <1>4 DEF IsPrefix
=============================================================================
