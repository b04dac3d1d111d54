---------------------------- MODULE OrderProofs ----------------------------
(***************************************************************************)
(* What sorting by keys gives, for any finite set of members with distinct *)
(* keys: the lemmas that the proofs about Processor rest on.               *)
(***************************************************************************)
EXTENDS Processor, FiniteSetTheorems, FunctionTheorems, SequenceTheorems, TLAPS

Keys == Int \X Int \X Int

\* A finite set has been given distinct keys.
Keyed(key) ==
  /\ IsFiniteSet(DOMAIN key) /\ key \in [DOMAIN key -> Keys]
  /\ \A x, y \in DOMAIN key : key[x] = key[y] => x = y

Below(key, x) == {y \in DOMAIN key : Precedes(key[y], key[x])}

-----------------------------------------------------------------------------
(***************************************************************************)
(* The order of the keys.                                                  *)
(***************************************************************************)
LEMMA KeyParts ==
  ASSUME NEW a \in Keys
  PROVE  a[1] \in Int /\ a[2] \in Int /\ a[3] \in Int /\ a = <<a[1], a[2], a[3]>>
  BY DEF Keys

LEMMA PrecedesIrreflexive == \A a \in Keys : ~Precedes(a, a)
  BY KeyParts DEF Precedes

LEMMA PrecedesTransitive ==
  \A a, b, c \in Keys : Precedes(a, b) /\ Precedes(b, c) => Precedes(a, c)
  BY KeyParts DEF Precedes

LEMMA PrecedesTotal ==
  \A a, b \in Keys : a = b \/ Precedes(a, b) \/ Precedes(b, a)
<1> SUFFICES ASSUME NEW a \in Keys, NEW b \in Keys, ~Precedes(a, b), ~Precedes(b, a)
             PROVE  a = b
  OBVIOUS
<1>1. a[1] = b[1] /\ a[2] = b[2] /\ a[3] = b[3]
  BY KeyParts DEF Precedes
<1>. QED
  BY <1>1, KeyParts

-----------------------------------------------------------------------------
(***************************************************************************)
(* Ranks are the numbers from 0 up, one for each member.                   *)
(***************************************************************************)
LEMMA RankType ==
  ASSUME NEW key, Keyed(key), NEW x \in DOMAIN key
  PROVE  /\ IsFiniteSet(Below(key, x)) /\ Rank(key, x) \in Nat
         /\ Rank(key, x) < Cardinality(DOMAIN key) /\ Cardinality(DOMAIN key) \in Nat
<1>1. IsFiniteSet(DOMAIN key) /\ Cardinality(DOMAIN key) \in Nat
  BY FS_CardinalityType DEF Keyed
<1>2. Below(key, x) \in SUBSET DOMAIN key /\ x \notin Below(key, x)
  BY PrecedesIrreflexive DEF Below, Keyed
<1>3. /\ IsFiniteSet(Below(key, x)) /\ Cardinality(Below(key, x)) =< Cardinality(DOMAIN key)
      /\ Cardinality(DOMAIN key) = Cardinality(Below(key, x)) => DOMAIN key = Below(key, x)
  BY <1>1, <1>2, FS_Subset
<1>. QED
  BY <1>1, <1>2, <1>3, FS_CardinalityType DEF Rank, Below

LEMMA RankGrows ==
  ASSUME NEW key, Keyed(key), NEW x \in DOMAIN key, NEW y \in DOMAIN key
  PROVE  Rank(key, x) < Rank(key, y) <=> Precedes(key[x], key[y])
<1>1. ASSUME NEW u \in DOMAIN key, NEW v \in DOMAIN key, Precedes(key[u], key[v])
      PROVE  Rank(key, u) < Rank(key, v)
  <2>1. Below(key, u) \in SUBSET Below(key, v)
    BY <1>1, PrecedesTransitive DEF Below, Keyed
  <2>2. u \in Below(key, v) /\ u \notin Below(key, u)
    BY <1>1, PrecedesIrreflexive DEF Below, Keyed
  <2>3. IsFiniteSet(Below(key, v)) /\ Rank(key, u) \in Nat /\ Rank(key, v) \in Nat
    BY RankType
  <2>4. Rank(key, u) =< Rank(key, v) /\ Rank(key, u) # Rank(key, v)
    BY <2>1, <2>2, <2>3, FS_Subset DEF Rank, Below
  <2>. QED
    BY <2>3, <2>4
<1>2. Rank(key, x) \in Nat /\ Rank(key, y) \in Nat
  BY RankType
<1>3. key[x] \in Keys /\ key[y] \in Keys /\ (key[x] = key[y] => x = y)
  BY DEF Keyed
<1>. QED
  BY <1>1, <1>2, <1>3, PrecedesTotal

LEMMA RankBijection ==
  ASSUME NEW key, Keyed(key)
  PROVE  \A n \in 0..(Cardinality(DOMAIN key) - 1) : \E x \in DOMAIN key : Rank(key, x) = n
<1> DEFINE D == DOMAIN key
           N == Cardinality(D)
           rank == [x \in D |-> Rank(key, x)]
<1>1. N \in Nat /\ IsFiniteSet(D)
  BY FS_CardinalityType DEF Keyed
<1>2. rank \in [D -> 0..(N - 1)]
  BY RankType, <1>1
<1>3. \A x, y \in D : rank[x] = rank[y] => x = y
  <2> SUFFICES ASSUME NEW x \in D, NEW y \in D, Rank(key, x) = Rank(key, y) PROVE x = y
    OBVIOUS
  <2>1. ~Precedes(key[x], key[y]) /\ ~Precedes(key[y], key[x])
    BY RankGrows, RankType
  <2>2. key[x] = key[y]
    BY <2>1, PrecedesTotal DEF Keyed
  <2>. QED
    BY <2>2 DEF Keyed
<1>4. rank \in Injection(D, 0..(N - 1))
  BY <1>2, <1>3, Fun_IsInj
<1>5. IsFiniteSet(0..(N - 1)) /\ Cardinality(0..(N - 1)) = N
  BY <1>1, FS_Interval
<1>6. rank \in Surjection(D, 0..(N - 1))
  <2> HIDE DEF rank, N
  <2>. QED BY <1>4, <1>5, FS_Injection DEF N
<1>7. \A n \in 0..(N - 1) : \E x \in D : rank[x] = n
  <2> HIDE DEF rank, N, D
  <2>. QED BY <1>6, Fun_SurjectionProperties
<1>. QED
  BY <1>7

-----------------------------------------------------------------------------
(***************************************************************************)
(* InOrder enumerates the members, the n-th having n - 1 before it.        *)
(***************************************************************************)
LEMMA InOrderRanks ==
  ASSUME NEW key, Keyed(key)
  PROVE  /\ Cardinality(DOMAIN key) \in Nat
         /\ InOrder(key) \in [1..Cardinality(DOMAIN key) -> DOMAIN key]
         /\ \A n \in 1..Cardinality(DOMAIN key) : Rank(key, InOrder(key)[n]) = n - 1
         /\ \A x \in DOMAIN key : /\ Rank(key, x) + 1 \in 1..Cardinality(DOMAIN key)
                                  /\ InOrder(key)[Rank(key, x) + 1] = x
<1> DEFINE D == DOMAIN key
           N == Cardinality(D)
           Nth(n) == CHOOSE x \in D : Rank(key, x) = n - 1
<1>1. N \in Nat
  BY FS_CardinalityType DEF Keyed
<1>2. InOrder(key) = [n \in 1..N |-> Nth(n)]
  BY DEF InOrder
<1>3. ASSUME NEW n \in 1..N
      PROVE  Nth(n) \in D /\ Rank(key, Nth(n)) = n - 1
  <2>1. n - 1 \in 0..(N - 1)
    BY <1>1
  <2>2. \E x \in D : Rank(key, x) = n - 1
    BY <2>1, RankBijection
  <2>. QED
    BY <2>2
<1>4. ASSUME NEW x \in D
      PROVE  Rank(key, x) + 1 \in 1..N /\ InOrder(key)[Rank(key, x) + 1] = x
  <2>1. Rank(key, x) \in Nat /\ Rank(key, x) < N
    BY RankType
  <2>2. Rank(key, x) + 1 \in 1..N
    BY <1>1, <2>1
  <2>3. PICK y \in D : y = InOrder(key)[Rank(key, x) + 1] /\ Rank(key, y) = Rank(key, x)
    BY <1>2, <1>3, <2>1, <2>2
  <2>4. ~Precedes(key[x], key[y]) /\ ~Precedes(key[y], key[x])
    BY <2>1, <2>3, RankGrows
  <2>5. key[x] = key[y]
    BY <2>4, PrecedesTotal DEF Keyed
  <2>. QED
    BY <2>2, <2>3, <2>5 DEF Keyed
<1>5. InOrder(key) \in [1..N -> D]
  <2> HIDE DEF Nth
  <2>. QED BY <1>2, <1>3
<1>6. \A n \in 1..N : Rank(key, InOrder(key)[n]) = n - 1
  <2> HIDE DEF Nth
  <2>. QED BY <1>2, <1>3
<1>. QED
  BY <1>1, <1>4, <1>5, <1>6

LEMMA InOrderSorts ==
  ASSUME NEW key, Keyed(key)
  PROVE  /\ \A m, n \in 1..Cardinality(DOMAIN key) :
              m < n <=> Precedes(key[InOrder(key)[m]], key[InOrder(key)[n]])
         /\ \A m, n \in 1..Cardinality(DOMAIN key) :
              InOrder(key)[m] = InOrder(key)[n] => m = n
         /\ \A x \in DOMAIN key : \E n \in 1..Cardinality(DOMAIN key) : InOrder(key)[n] = x
         /\ DOMAIN InOrder(key) = 1..Cardinality(DOMAIN key)
         /\ Len(InOrder(key)) = Cardinality(DOMAIN key)
<1> DEFINE N == Cardinality(DOMAIN key)
<1>1. /\ N \in Nat /\ InOrder(key) \in [1..N -> DOMAIN key]
      /\ \A n \in 1..N : Rank(key, InOrder(key)[n]) = n - 1
      /\ \A x \in DOMAIN key : Rank(key, x) + 1 \in 1..N /\ InOrder(key)[Rank(key, x) + 1] = x
  BY InOrderRanks
<1>2. ASSUME NEW m \in 1..N, NEW n \in 1..N
      PROVE  /\ m < n <=> Precedes(key[InOrder(key)[m]], key[InOrder(key)[n]])
             /\ InOrder(key)[m] = InOrder(key)[n] => m = n
  <2>1. InOrder(key)[m] \in DOMAIN key /\ InOrder(key)[n] \in DOMAIN key
    BY <1>1
  <2>2. Rank(key, InOrder(key)[m]) = m - 1 /\ Rank(key, InOrder(key)[n]) = n - 1
    BY <1>1
  <2>3. m - 1 < n - 1 <=> Precedes(key[InOrder(key)[m]], key[InOrder(key)[n]])
    BY <2>1, <2>2, RankGrows
  <2>. QED
    BY <2>2, <2>3, <1>1
<1>3. Len(InOrder(key)) = N
  BY <1>1
<1>. QED
  BY <1>1, <1>2, <1>3

\* Between two neighbours there is nothing.
LEMMA InOrderNeighbours ==
  ASSUME NEW key, Keyed(key), NEW n \in 1..Cardinality(DOMAIN key), n > 1,
         NEW x \in DOMAIN key
  PROVE  ~ /\ Precedes(key[InOrder(key)[n - 1]], key[x])
           /\ Precedes(key[x], key[InOrder(key)[n]])
<1>1. PICK m \in 1..Cardinality(DOMAIN key) : InOrder(key)[m] = x
  BY InOrderSorts
<1>2. n - 1 \in 1..Cardinality(DOMAIN key) /\ ~(n - 1 < m /\ m < n)
  BY InOrderRanks
<1>. QED
  BY <1>1, <1>2, InOrderSorts

\* There is one way only to enumerate the members in increasing order.
LEMMA InOrderUnique ==
  ASSUME NEW key, Keyed(key), NEW N \in Nat, NEW s \in [1..N -> DOMAIN key],
         \A m, n \in 1..N : m < n => Precedes(key[s[m]], key[s[n]]),
         \A x \in DOMAIN key : \E n \in 1..N : s[n] = x
  PROVE  Cardinality(DOMAIN key) = N /\ InOrder(key) = s
<1> DEFINE D == DOMAIN key
<1>1. \A m, n \in 1..N : s[m] = s[n] => m = n
  <2> SUFFICES ASSUME NEW m \in 1..N, NEW n \in 1..N, s[m] = s[n], m # n PROVE FALSE
    OBVIOUS
  <2>1. Precedes(key[s[m]], key[s[m]])
    BY m < n \/ n < m
  <2>. QED
    BY <2>1, PrecedesIrreflexive DEF Keyed
<1>2. s \in Bijection(1..N, D)
  BY <1>1, Fun_IsBij
<1>3. Cardinality(D) = N
  BY <1>2, FS_CountingElements, Fun_ExistsBij
<1>4. ASSUME NEW n \in 1..N PROVE Rank(key, s[n]) = n - 1
  <2> DEFINE before == [m \in 1..(n - 1) |-> s[m]]
  <2>1. n - 1 \in Nat /\ 1..(n - 1) \subseteq 1..N
    OBVIOUS
  <2>2. ASSUME NEW m \in 1..N PROVE s[m] \in Below(key, s[n]) <=> m < n
    <3>1. m < n => s[m] \in Below(key, s[n])
      BY DEF Below
    <3>2. m = n => s[m] \notin Below(key, s[n])
      BY PrecedesIrreflexive DEF Below, Keyed
    <3>3. n < m => ~Precedes(key[s[m]], key[s[n]])
      <4> SUFFICES ASSUME n < m, Precedes(key[s[m]], key[s[n]]) PROVE FALSE
        OBVIOUS
      <4>1. Precedes(key[s[n]], key[s[m]]) /\ key[s[n]] \in Keys /\ key[s[m]] \in Keys
        BY DEF Keyed
      <4>. QED
        BY <4>1, PrecedesIrreflexive, PrecedesTransitive
    <3>. QED
      BY <3>1, <3>2, <3>3 DEF Below
  <2>3. before \in [1..(n - 1) -> Below(key, s[n])]
    BY <2>1, <2>2
  <2>4. \A a, b \in 1..(n - 1) : before[a] = before[b] => a = b
    BY <1>1, <2>1
  <2>5. \A x \in Below(key, s[n]) : \E m \in 1..(n - 1) : before[m] = x
    <3> TAKE x \in Below(key, s[n])
    <3>1. PICK m \in 1..N : s[m] = x
      BY DEF Below
    <3>2. m < n
      BY <2>2, <3>1
    <3>. QED
      BY <3>1, <3>2
  <2>6. before \in Bijection(1..(n - 1), Below(key, s[n]))
    <3> HIDE DEF before
    <3>. QED BY <2>3, <2>4, <2>5, Fun_IsBij
  <2>7. ExistsBijection(1..(n - 1), Below(key, s[n]))
    BY <2>6, Fun_ExistsBij
  <2>. QED
    BY <2>1, <2>7, FS_CountingElements DEF Rank, Below
<1>5. \A n \in 1..N : InOrder(key)[n] = s[n]
  <2> TAKE n \in 1..N
  <2>1. s[n] \in D /\ InOrder(key)[Rank(key, s[n]) + 1] = s[n]
    BY InOrderRanks
  <2>2. Rank(key, s[n]) + 1 = n
    BY <1>4
  <2>. QED
    BY <2>1, <2>2
<1>6. InOrder(key) \in [1..N -> D]
  BY <1>3, InOrderRanks
<1>. QED
  BY <1>3, <1>5, <1>6

\* Members that fall into two parts, one before the other and each in the order of
\* its own keys, are enumerated part by part.
InTwoParts(key, key1, h1, key2, h2) ==
  /\ Keyed(key) /\ Keyed(key1) /\ Keyed(key2)
  /\ \A x \in DOMAIN key1 : h1[x] \in DOMAIN key
  /\ \A x \in DOMAIN key2 : h2[x] \in DOMAIN key
  /\ \A y \in DOMAIN key : (\E x \in DOMAIN key1 : h1[x] = y) \/ (\E x \in DOMAIN key2 : h2[x] = y)
  /\ \A x, y \in DOMAIN key1 : Precedes(key1[x], key1[y]) => Precedes(key[h1[x]], key[h1[y]])
  /\ \A x, y \in DOMAIN key2 : Precedes(key2[x], key2[y]) => Precedes(key[h2[x]], key[h2[y]])
  /\ \A x \in DOMAIN key1 : \A y \in DOMAIN key2 : Precedes(key[h1[x]], key[h2[y]])

LEMMA InOrderByParts ==
  ASSUME NEW key, NEW key1, NEW h1, NEW key2, NEW h2, InTwoParts(key, key1, h1, key2, h2)
  PROVE  LET N1 == Cardinality(DOMAIN key1)
             N2 == Cardinality(DOMAIN key2)
         IN  /\ N1 \in Nat /\ N2 \in Nat /\ Cardinality(DOMAIN key) = N1 + N2
             /\ InOrder(key) = [n \in 1..(N1 + N2) |->
                                  IF n =< N1 THEN h1[InOrder(key1)[n]] ELSE h2[InOrder(key2)[n - N1]]]
<1> DEFINE N1 == Cardinality(DOMAIN key1)
           N2 == Cardinality(DOMAIN key2)
           s == [n \in 1..(N1 + N2) |->
                   IF n =< N1 THEN h1[InOrder(key1)[n]] ELSE h2[InOrder(key2)[n - N1]]]
<1>1. Keyed(key) /\ Keyed(key1) /\ Keyed(key2)
  BY DEF InTwoParts
<1>2. /\ N1 \in Nat /\ InOrder(key1) \in [1..N1 -> DOMAIN key1]
      /\ \A x \in DOMAIN key1 : \E n \in 1..N1 : InOrder(key1)[n] = x
      /\ \A m, n \in 1..N1 : m < n => Precedes(key1[InOrder(key1)[m]], key1[InOrder(key1)[n]])
  BY <1>1, InOrderRanks, InOrderSorts
<1>3. /\ N2 \in Nat /\ InOrder(key2) \in [1..N2 -> DOMAIN key2]
      /\ \A x \in DOMAIN key2 : \E n \in 1..N2 : InOrder(key2)[n] = x
      /\ \A m, n \in 1..N2 : m < n => Precedes(key2[InOrder(key2)[m]], key2[InOrder(key2)[n]])
  BY <1>1, InOrderRanks, InOrderSorts
<1> HIDE DEF N1, N2
<1>4. ASSUME NEW n \in 1..(N1 + N2), n =< N1
      PROVE  n \in 1..N1 /\ s[n] = h1[InOrder(key1)[n]] /\ InOrder(key1)[n] \in DOMAIN key1
  BY <1>2, <1>4
<1>5. ASSUME NEW n \in 1..(N1 + N2), ~(n =< N1)
      PROVE  /\ n - N1 \in 1..N2 /\ s[n] = h2[InOrder(key2)[n - N1]]
             /\ InOrder(key2)[n - N1] \in DOMAIN key2
  <2>1. n - N1 \in 1..N2
    BY <1>2, <1>3, <1>5
  <2>. QED
    BY <1>3, <1>5, <2>1
<1>6. ASSUME NEW n \in 1..N1
      PROVE  n \in 1..(N1 + N2) /\ s[n] = h1[InOrder(key1)[n]]
  BY <1>2, <1>3
<1>7. ASSUME NEW n \in 1..N2
      PROVE  n + N1 \in 1..(N1 + N2) /\ s[n + N1] = h2[InOrder(key2)[n]]
  <2>1. n + N1 \in 1..(N1 + N2) /\ ~(n + N1 =< N1) /\ (n + N1) - N1 = n
    BY <1>2, <1>3
  <2>. QED
    BY <2>1
<1>8. s \in [1..(N1 + N2) -> DOMAIN key]
  <2>1. \A n \in 1..(N1 + N2) : s[n] \in DOMAIN key
    BY <1>4, <1>5 DEF InTwoParts
  <2>2. s = [n \in 1..(N1 + N2) |-> s[n]]
    OBVIOUS
  <2> HIDE DEF s
  <2>. QED BY <2>1, <2>2
<1>9. ASSUME NEW y \in DOMAIN key PROVE \E n \in 1..(N1 + N2) : s[n] = y
  <2>1. CASE \E x \in DOMAIN key1 : h1[x] = y
    <3>1. PICK n \in 1..N1 : h1[InOrder(key1)[n]] = y
      BY <1>2, <2>1
    <3> HIDE DEF s
    <3>. QED BY <1>6, <3>1
  <2>2. CASE \E x \in DOMAIN key2 : h2[x] = y
    <3>1. PICK n \in 1..N2 : h2[InOrder(key2)[n]] = y
      BY <1>3, <2>2
    <3> HIDE DEF s
    <3>. QED BY <1>7, <3>1
  <2>. QED
    BY <2>1, <2>2 DEF InTwoParts
<1>10. ASSUME NEW m \in 1..(N1 + N2), NEW n \in 1..(N1 + N2), m < n
       PROVE  Precedes(key[s[m]], key[s[n]])
  <2> HIDE DEF s
  <2>1. CASE n =< N1
    <3>1. m =< N1 /\ m \in 1..N1 /\ n \in 1..N1
      BY <1>2, <1>10, <2>1
    <3>2. Precedes(key1[InOrder(key1)[m]], key1[InOrder(key1)[n]])
      BY <1>2, <1>10, <3>1
    <3>3. /\ s[m] = h1[InOrder(key1)[m]] /\ InOrder(key1)[m] \in DOMAIN key1
          /\ s[n] = h1[InOrder(key1)[n]] /\ InOrder(key1)[n] \in DOMAIN key1
      BY <1>4, <2>1, <3>1
    <3>. QED
      BY <3>2, <3>3 DEF InTwoParts
  <2>2. CASE m =< N1 /\ ~(n =< N1)
    <3>1. /\ s[m] = h1[InOrder(key1)[m]] /\ InOrder(key1)[m] \in DOMAIN key1
          /\ s[n] = h2[InOrder(key2)[n - N1]] /\ InOrder(key2)[n - N1] \in DOMAIN key2
      BY <1>4, <1>5, <2>2
    <3>. QED
      BY <3>1 DEF InTwoParts
  <2>3. CASE ~(m =< N1) /\ ~(n =< N1)
    <3>1. m - N1 < n - N1
      BY <1>2, <1>10
    <3>2. /\ s[m] = h2[InOrder(key2)[m - N1]] /\ InOrder(key2)[m - N1] \in DOMAIN key2
          /\ s[n] = h2[InOrder(key2)[n - N1]] /\ InOrder(key2)[n - N1] \in DOMAIN key2
          /\ m - N1 \in 1..N2 /\ n - N1 \in 1..N2
      BY <1>5, <2>3
    <3>3. Precedes(key2[InOrder(key2)[m - N1]], key2[InOrder(key2)[n - N1]])
      BY <1>3, <3>1, <3>2
    <3>. QED
      BY <3>2, <3>3 DEF InTwoParts
  <2>. QED
    BY <1>2, <1>10, <2>1, <2>2, <2>3
<1>11. N1 + N2 \in Nat
  BY <1>2, <1>3
<1>12. Cardinality(DOMAIN key) = N1 + N2 /\ InOrder(key) = s
  <2> HIDE DEF s
  <2>. QED BY <1>1, <1>8, <1>9, <1>10, <1>11, InOrderUnique
<1>. QED
  BY <1>2, <1>3, <1>12 DEF N1, N2

LEMMA GluedParts ==
  ASSUME NEW S, NEW s \in Seq(S), NEW t \in Seq(S)
  PROVE  /\ s \o t \in Seq(S) /\ Len(s \o t) = Len(s) + Len(t)
         /\ Len(s) \in Nat /\ Len(t) \in Nat
         /\ DOMAIN (s \o t) = 1..(Len(s) + Len(t))
         /\ \A i \in 1..Len(s) : (s \o t)[i] = s[i]
         /\ \A i \in 1..Len(t) : (s \o t)[Len(s) + i] = t[i]
  OBVIOUS

LEMMA Glued ==
  ASSUME NEW S, NEW s \in Seq(S), NEW t \in Seq(S), NEW whole,
         whole = [n \in 1..(Len(s) + Len(t)) |-> IF n =< Len(s) THEN s[n] ELSE t[n - Len(s)]]
  PROVE  whole = s \o t
<1>1. /\ Len(s) \in Nat /\ Len(t) \in Nat
      /\ s \o t \in Seq(S) /\ DOMAIN (s \o t) = 1..(Len(s) + Len(t))
      /\ \A n \in 1..Len(s) : (s \o t)[n] = s[n]
      /\ \A n \in 1..Len(t) : (s \o t)[Len(s) + n] = t[n]
  BY GluedParts
<1>2. ASSUME NEW n \in 1..(Len(s) + Len(t)) PROVE (s \o t)[n] = whole[n]
  <2>1. CASE n =< Len(s)
    BY <1>1, <2>1
  <2>2. CASE ~(n =< Len(s))
    <3>1. n - Len(s) \in 1..Len(t) /\ Len(s) + (n - Len(s)) = n
      BY <1>1, <2>2
    <3>2. (s \o t)[Len(s) + (n - Len(s))] = t[n - Len(s)]
      BY <1>1, <3>1
    <3>. QED
      BY <2>2, <3>1, <3>2
  <2>. QED
    BY <2>1, <2>2
<1>3. s \o t = [n \in 1..(Len(s) + Len(t)) |-> (s \o t)[n]]
  <2>1. \A u \in Seq(S) : u = [n \in DOMAIN u |-> u[n]]
    OBVIOUS
  <2>. QED
    BY <1>1, <2>1
<1>4. whole = [n \in 1..(Len(s) + Len(t)) |-> whole[n]]
  OBVIOUS
<1>. QED
  BY <1>2, <1>3, <1>4

-----------------------------------------------------------------------------
(***************************************************************************)
(* Positions in increasing order, and what Pick takes from a sequence.     *)
(***************************************************************************)
Places(at) == InOrder([i \in at |-> <<i, 0, 0>>])

LEMMA PlacesKeyed ==
  ASSUME NEW at \in SUBSET Int, IsFiniteSet(at)
  PROVE  /\ Keyed([i \in at |-> <<i, 0, 0>>])
         /\ \A i, j \in at : Precedes(<<i, 0, 0>>, <<j, 0, 0>>) <=> i < j
<1> DEFINE key == [i \in at |-> <<i, 0, 0>>]
<1>1. key \in [at -> Keys]
  BY DEF Keys
<1>2. \A i, j \in at : key[i] = key[j] => i = j
  OBVIOUS
<1>. QED
  BY <1>1, <1>2 DEF Keyed, Precedes

LEMMA PlacesIncrease ==
  ASSUME NEW at \in SUBSET Int, IsFiniteSet(at)
  PROVE  /\ Cardinality(at) \in Nat /\ Places(at) \in [1..Cardinality(at) -> at]
         /\ Len(Places(at)) = Cardinality(at)
         /\ \A m, n \in 1..Cardinality(at) : m < n <=> Places(at)[m] < Places(at)[n]
         /\ \A m, n \in 1..Cardinality(at) : Places(at)[m] = Places(at)[n] => m = n
         /\ \A i \in at : \E n \in 1..Cardinality(at) : Places(at)[n] = i
<1> DEFINE key == [i \in at |-> <<i, 0, 0>>]
<1>1. Keyed(key) /\ DOMAIN key = at /\ \A i, j \in at : Precedes(key[i], key[j]) <=> i < j
  BY PlacesKeyed
<1>2. Places(at) = InOrder(key)
  BY DEF Places
<1> HIDE DEF key
<1>3. /\ Cardinality(at) \in Nat /\ InOrder(key) \in [1..Cardinality(at) -> at]
  BY <1>1, InOrderRanks
<1>4. /\ \A m, n \in 1..Cardinality(at) :
           m < n <=> Precedes(key[InOrder(key)[m]], key[InOrder(key)[n]])
      /\ \A m, n \in 1..Cardinality(at) : InOrder(key)[m] = InOrder(key)[n] => m = n
      /\ \A i \in at : \E n \in 1..Cardinality(at) : InOrder(key)[n] = i
      /\ Len(InOrder(key)) = Cardinality(at)
  BY <1>1, InOrderSorts
<1>. QED
  BY <1>1, <1>2, <1>3, <1>4

LEMMA PlacesUnique ==
  ASSUME NEW at \in SUBSET Int, IsFiniteSet(at), NEW N \in Nat, NEW s \in [1..N -> at],
         \A m, n \in 1..N : m < n => s[m] < s[n],
         \A i \in at : \E n \in 1..N : s[n] = i
  PROVE  Cardinality(at) = N /\ Places(at) = s
<1> DEFINE key == [i \in at |-> <<i, 0, 0>>]
<1>1. Keyed(key) /\ DOMAIN key = at /\ \A i, j \in at : Precedes(key[i], key[j]) <=> i < j
  BY PlacesKeyed
<1>2. Places(at) = InOrder(key)
  BY DEF Places
<1> HIDE DEF key
<1>3. \A m, n \in 1..N : m < n => Precedes(key[s[m]], key[s[n]])
  BY <1>1
<1>. QED
  BY <1>1, <1>2, <1>3, InOrderUnique

LEMMA PositionsFinite ==
  ASSUME NEW S, NEW s \in Seq(S), NEW at \in SUBSET DOMAIN s
  PROVE  /\ DOMAIN s = 1..Len(s) /\ Len(s) \in Nat /\ IsFiniteSet(DOMAIN s)
         /\ Cardinality(DOMAIN s) = Len(s)
         /\ at \in SUBSET Int /\ IsFiniteSet(at) /\ Cardinality(at) \in Nat
         /\ Cardinality(at) =< Len(s)
<1>1. DOMAIN s = 1..Len(s) /\ Len(s) \in Nat
  OBVIOUS
<1>2. IsFiniteSet(1..Len(s)) /\ Cardinality(1..Len(s)) = Len(s)
  <2>1. 1 \in Int /\ Len(s) \in Int /\ Len(s) >= 0
    BY <1>1
  <2>2. /\ IsFiniteSet(1..Len(s))
        /\ Cardinality(1..Len(s)) = IF 1 > Len(s) THEN 0 ELSE Len(s) - 1 + 1
    BY <2>1, FS_Interval
  <2>. QED
    BY <2>1, <2>2
<1>3. at \in SUBSET (1..Len(s)) /\ at \in SUBSET Int
  BY <1>1
<1>4. IsFiniteSet(at) /\ Cardinality(at) =< Len(s)
  BY <1>2, <1>3, FS_Subset
<1>. QED
  BY <1>1, <1>2, <1>3, <1>4, FS_CardinalityType

LEMMA PickTakes ==
  ASSUME NEW S, NEW s \in Seq(S), NEW at \in SUBSET DOMAIN s
  PROVE  /\ Pick(s, at) \in Seq(S) /\ Len(Pick(s, at)) = Cardinality(at)
         /\ DOMAIN Pick(s, at) = 1..Cardinality(at)
         /\ Pick(s, at) = [n \in 1..Cardinality(at) |-> s[Places(at)[n]]]
<1>1. at \in SUBSET Int /\ IsFiniteSet(at)
  BY PositionsFinite
<1>2. Cardinality(at) \in Nat /\ Places(at) \in [1..Cardinality(at) -> at]
  BY <1>1, PlacesIncrease
<1>3. Pick(s, at) = [n \in 1..Cardinality(at) |-> s[Places(at)[n]]]
  BY <1>2 DEF Pick, Places
<1>4. \A n \in 1..Cardinality(at) : s[Places(at)[n]] \in S
  <2> TAKE n \in 1..Cardinality(at)
  <2>1. Places(at)[n] \in at
    BY <1>2
  <2>. QED
    BY <2>1
<1>5. Pick(s, at) \in Seq(S)
  <2>1. Pick(s, at) \in [1..Cardinality(at) -> S]
    BY <1>3, <1>4
  <2>. QED
    BY <1>2, <2>1
<1>. QED
  BY <1>2, <1>3, <1>5

LEMMA Bounds ==
  ASSUME NEW at \in SUBSET Int, IsFiniteSet(at), at # {}
  PROVE  /\ \E low \in at : \A i \in at : low =< i
         /\ \E high \in at : \A i \in at : i =< high
<1> DEFINE N == Cardinality(at)
<1>1. /\ N \in Nat /\ Places(at) \in [1..N -> at]
      /\ \A m, n \in 1..N : m < n <=> Places(at)[m] < Places(at)[n]
      /\ \A i \in at : \E n \in 1..N : Places(at)[n] = i
  BY PlacesIncrease
<1> HIDE DEF N
<1>2. 1 \in 1..N /\ N \in 1..N
  <2>1. PICK i \in at : TRUE
    OBVIOUS
  <2>2. PICK n \in 1..N : Places(at)[n] = i
    BY <1>1
  <2>. QED
    BY <1>1, <2>2
<1>3. \A i \in at : Places(at)[1] =< i /\ i =< Places(at)[N]
  <2> TAKE i \in at
  <2>1. PICK n \in 1..N : Places(at)[n] = i
    BY <1>1
  <2>2. (1 < n => Places(at)[1] < Places(at)[n]) /\ (n < N => Places(at)[n] < Places(at)[N])
    BY <1>1, <1>2
  <2>3. (n = 1 \/ 1 < n) /\ (n = N \/ n < N)
    BY <1>1
  <2>4. Places(at)[1] \in Int /\ Places(at)[n] \in Int /\ Places(at)[N] \in Int
    BY <1>1, <1>2
  <2>. QED
    BY <2>1, <2>2, <2>3, <2>4
<1>4. Places(at)[1] \in at /\ Places(at)[N] \in at
  BY <1>1, <1>2
<1>. QED
  BY <1>3, <1>4

LEMMA MaxIsLargest ==
  ASSUME NEW at \in SUBSET Int, IsFiniteSet(at), at # {}
  PROVE  Max(at) \in at /\ \A i \in at : i =< Max(at)
<1>1. PICK high \in at : \A i \in at : i =< high
  BY Bounds
<1>2. \A i \in at : high >= i
  BY <1>1
<1>3. Max(at) \in at /\ \A i \in at : Max(at) >= i
  BY <1>2 DEF Max
<1>. QED
  BY <1>3

-----------------------------------------------------------------------------
(***************************************************************************)
(* Merging event IDs: all is what is remembered followed by what is new.   *)
(***************************************************************************)
LastPlaces(all) == {i \in DOMAIN all : \A j \in DOMAIN all : j > i => all[j] # all[i]}

KeptPlaces(all, limit) ==
  {i \in LastPlaces(all) : Cardinality({j \in LastPlaces(all) : j > i}) < limit}

LEMMA MergeIsPick ==
  ASSUME NEW existing, NEW observed, NEW limit
  PROVE  MergeRecent(existing, observed, limit)
           = Pick(existing \o observed, KeptPlaces(existing \o observed, limit))
  BY DEF MergeRecent, KeptPlaces, LastPlaces

LEMMA LaterPlacesFinite ==
  ASSUME NEW S, NEW all \in Seq(S), NEW i
  PROVE  /\ IsFiniteSet({j \in LastPlaces(all) : j > i})
         /\ Cardinality({j \in LastPlaces(all) : j > i}) \in Nat
<1>1. {j \in LastPlaces(all) : j > i} \in SUBSET DOMAIN all
  BY DEF LastPlaces
<1>. QED
  BY <1>1, PositionsFinite

LEMMA LastPlaceExists ==
  ASSUME NEW S, NEW all \in Seq(S), NEW i \in DOMAIN all
  PROVE  \E p \in LastPlaces(all) : i =< p /\ all[p] = all[i]
<1> DEFINE same == {j \in DOMAIN all : all[j] = all[i]}
<1>1. same \in SUBSET DOMAIN all /\ i \in same
  OBVIOUS
<1>2. same \in SUBSET Int /\ IsFiniteSet(same) /\ DOMAIN all \subseteq Int
  BY <1>1, PositionsFinite
<1>3. PICK p \in same : \A j \in same : j =< p
  BY <1>1, <1>2, Bounds
<1>4. \A j \in DOMAIN all : j > p => all[j] # all[p]
  BY <1>2, <1>3
<1>. QED
  BY <1>1, <1>3, <1>4 DEF LastPlaces

\* No more than the limit are kept.
LEMMA KeptFew ==
  ASSUME NEW S, NEW all \in Seq(S), NEW limit \in Nat
  PROVE  /\ KeptPlaces(all, limit) \in SUBSET DOMAIN all
         /\ Cardinality(KeptPlaces(all, limit)) =< limit
<1> DEFINE kept == KeptPlaces(all, limit)
<1>1. kept \in SUBSET DOMAIN all
  BY DEF KeptPlaces, LastPlaces
<1>2. kept \in SUBSET Int /\ IsFiniteSet(kept) /\ Cardinality(kept) \in Nat
  BY <1>1, PositionsFinite
<1>3. CASE kept = {}
  BY <1>3, FS_EmptySet
<1>4. CASE kept # {}
  <2>1. PICK low \in kept : \A i \in kept : low =< i
    BY <1>2, <1>4, Bounds
  <2> DEFINE later == {j \in LastPlaces(all) : j > low}
  <2>2. kept \ {low} \in SUBSET later
    <3>1. kept \subseteq LastPlaces(all)
      BY DEF KeptPlaces
    <3> HIDE DEF kept
    <3>2. \A i \in kept : i # low => i > low
      BY <1>2, <2>1
    <3>. QED
      BY <3>1, <3>2
  <2>3. IsFiniteSet(later) /\ Cardinality(later) \in Nat /\ Cardinality(later) < limit
    BY <2>1, LaterPlacesFinite DEF KeptPlaces
  <2>4. Cardinality(kept \ {low}) = Cardinality(kept) - 1
    <3> HIDE DEF kept
    <3>. QED BY <1>2, <2>1, FS_RemoveElement
  <2>5. Cardinality(kept \ {low}) =< Cardinality(later)
    <3> HIDE DEF kept, later
    <3>. QED BY <2>2, <2>3, FS_Subset
  <2>6. Cardinality(kept) =< limit
    <3> HIDE DEF kept, later
    <3>. QED BY <1>2, <2>3, <2>4, <2>5
  <2>. QED
    BY <1>1, <2>6
<1>. QED
  BY <1>1, <1>3, <1>4

\* The cache stays a bounded sequence of distinct IDs, each one known before or new.
LEMMA KeptBounded ==
  ASSUME NEW S, NEW all \in Seq(S), NEW limit \in Nat
  PROVE  /\ Pick(all, KeptPlaces(all, limit)) \in Seq(S)
         /\ Len(Pick(all, KeptPlaces(all, limit))) =< limit
         /\ IsInjective(Pick(all, KeptPlaces(all, limit)))
         /\ ToSet(Pick(all, KeptPlaces(all, limit))) \subseteq ToSet(all)
<1> DEFINE kept == KeptPlaces(all, limit)
<1>1. kept \in SUBSET DOMAIN all /\ Cardinality(kept) =< limit
  BY KeptFew
<1>2. \A p, q \in kept : all[p] = all[q] => p = q
  <2>1. DOMAIN all \subseteq Int
    OBVIOUS
  <2>. QED
    BY <2>1 DEF KeptPlaces, LastPlaces
<1> HIDE DEF kept
<1>3. IsFiniteSet(kept) /\ kept \in SUBSET Int
  BY <1>1, PositionsFinite
<1>4. /\ Places(kept) \in [1..Cardinality(kept) -> kept]
      /\ \A m, n \in 1..Cardinality(kept) : Places(kept)[m] = Places(kept)[n] => m = n
  BY <1>3, PlacesIncrease
<1>5. /\ Pick(all, kept) \in Seq(S) /\ Len(Pick(all, kept)) = Cardinality(kept)
      /\ DOMAIN Pick(all, kept) = 1..Cardinality(kept)
      /\ Pick(all, kept) = [n \in 1..Cardinality(kept) |-> all[Places(kept)[n]]]
  BY <1>1, PickTakes
<1>6. IsInjective(Pick(all, kept))
  BY <1>2, <1>4, <1>5 DEF IsInjective
<1>7. ToSet(Pick(all, kept)) \subseteq ToSet(all)
  BY <1>1, <1>4, <1>5 DEF ToSet
<1>. QED
  BY <1>1, <1>5, <1>6, <1>7 DEF kept

LEMMA ConcatMembers ==
  ASSUME NEW S, NEW s \in Seq(S), NEW t \in Seq(S)
  PROVE  /\ s \o t \in Seq(S) /\ Len(s \o t) = Len(s) + Len(t)
         /\ Len(s) \in Nat /\ Len(t) \in Nat
         /\ DOMAIN (s \o t) = 1..(Len(s) + Len(t))
         /\ \A i \in 1..Len(s) : (s \o t)[i] = s[i]
         /\ \A i \in 1..Len(t) : (s \o t)[Len(s) + i] = t[i]
         /\ ToSet(s \o t) = ToSet(s) \union ToSet(t)
<1>1. /\ s \o t \in Seq(S) /\ Len(s \o t) = Len(s) + Len(t)
      /\ Len(s) \in Nat /\ Len(t) \in Nat
      /\ DOMAIN (s \o t) = 1..(Len(s) + Len(t))
  BY GluedParts
<1>2. \A i \in 1..Len(s) : (s \o t)[i] = s[i]
  BY GluedParts
<1>3. \A i \in 1..Len(t) : (s \o t)[Len(s) + i] = t[i]
  BY GluedParts
<1>4. ToSet(s \o t) \subseteq ToSet(s) \union ToSet(t)
  <2>1. ASSUME NEW i \in 1..(Len(s) + Len(t)), i > Len(s)
        PROVE  i - Len(s) \in 1..Len(t) /\ (s \o t)[i] = t[i - Len(s)]
    <3>1. i - Len(s) \in 1..Len(t) /\ Len(s) + (i - Len(s)) = i
      BY <1>1, <2>1
    <3>. QED
      BY <1>3, <3>1
  <2>2. \A i \in 1..(Len(s) + Len(t)) : i =< Len(s) => i \in 1..Len(s)
    BY <1>1
  <2>3. DOMAIN s = 1..Len(s) /\ DOMAIN t = 1..Len(t)
    OBVIOUS
  <2> SUFFICES ASSUME NEW i \in 1..(Len(s) + Len(t))
               PROVE  (s \o t)[i] \in ToSet(s) \union ToSet(t)
    BY <1>1 DEF ToSet
  <2>4. CASE i > Len(s)
    BY <2>1, <2>3, <2>4 DEF ToSet
  <2>5. CASE i =< Len(s)
    BY <1>2, <2>2, <2>3, <2>5 DEF ToSet
  <2>. QED
    BY <1>1, <2>4, <2>5
<1>5. ToSet(s) \union ToSet(t) \subseteq ToSet(s \o t)
  <2>1. \A i \in 1..Len(s) : i \in 1..(Len(s) + Len(t))
    BY <1>1
  <2>2. \A i \in 1..Len(t) : Len(s) + i \in 1..(Len(s) + Len(t))
    BY <1>1
  <2>3. DOMAIN s = 1..Len(s) /\ DOMAIN t = 1..Len(t)
    OBVIOUS
  <2>4. \A x \in ToSet(s) : x \in ToSet(s \o t)
    BY <1>1, <1>2, <2>1, <2>3 DEF ToSet
  <2>5. \A x \in ToSet(t) : x \in ToSet(s \o t)
    <3> SUFFICES ASSUME NEW i \in 1..Len(t) PROVE t[i] \in ToSet(s \o t)
      BY <2>3 DEF ToSet
    <3>1. Len(s) + i \in DOMAIN (s \o t) /\ (s \o t)[Len(s) + i] = t[i]
      BY <1>1, <1>3, <2>2
    <3>. QED
      BY <3>1 DEF ToSet
  <2>. QED
    BY <2>4, <2>5
<1>. QED
  BY <1>1, <1>2, <1>3, <1>4, <1>5

LEMMA MergeRecentBounded ==
  ASSUME NEW S, NEW existing \in Seq(S), NEW observed \in Seq(S), NEW limit \in Nat
  PROVE  /\ MergeRecent(existing, observed, limit) \in Seq(S)
         /\ Len(MergeRecent(existing, observed, limit)) =< limit
         /\ IsInjective(MergeRecent(existing, observed, limit))
         /\ ToSet(MergeRecent(existing, observed, limit))
              \subseteq ToSet(existing) \union ToSet(observed)
<1>1. existing \o observed \in Seq(S)
  BY ConcatMembers
<1>2. ToSet(existing \o observed) = ToSet(existing) \union ToSet(observed)
  BY ConcatMembers
<1>. QED
  BY <1>1, <1>2, MergeIsPick, KeptBounded

\* e stands in s, followed by members of T only.
Follows(s, e, T) ==
  \E n \in DOMAIN s : s[n] = e /\ \A q \in DOMAIN s : q > n => s[q] \in T

\* An ID and what follows it: either so many others follow that it may be
\* forgotten, or it is kept and followed by some of those only.
LEMMA KeptOrForgotten ==
  ASSUME NEW S, NEW all \in Seq(S), NEW limit \in Nat, NEW i \in LastPlaces(all),
         NEW T, IsFiniteSet(T), \A j \in DOMAIN all : j > i => all[j] \in T
  PROVE  Cardinality(T) >= limit \/ Follows(Pick(all, KeptPlaces(all, limit)), all[i], T)
<1> DEFINE later == {j \in LastPlaces(all) : j > i}
           kept == KeptPlaces(all, limit)
<1>1. /\ LastPlaces(all) \subseteq DOMAIN all /\ DOMAIN all \subseteq Int
      /\ \A p, q \in LastPlaces(all) : all[p] = all[q] => p = q
  <2>1. DOMAIN all \subseteq Int
    OBVIOUS
  <2>. QED
    BY <2>1 DEF LastPlaces
<1>2. IsFiniteSet(later) /\ Cardinality(later) \in Nat /\ Cardinality(T) \in Nat
  BY LaterPlacesFinite, FS_CardinalityType
<1>3. Cardinality(later) =< Cardinality(T)
  <2> DEFINE f == [j \in later |-> all[j]]
  <2>1. f \in [later -> T] /\ \A p, q \in later : f[p] = f[q] => p = q
    BY <1>1
  <2> HIDE DEF f, later
  <2>2. f \in Injection(later, T)
    BY <2>1, Fun_IsInj
  <2>. QED
    BY <2>2, FS_Injection
<1>4. i \in kept \/ Cardinality(T) >= limit
  <2>1. Cardinality(later) < limit => i \in kept
    BY DEF KeptPlaces
  <2> HIDE DEF later, kept
  <2>. QED
    BY <1>2, <1>3, <2>1
<1>5. kept \in SUBSET DOMAIN all
  BY KeptFew
<1> HIDE DEF kept, later
<1>6. ASSUME i \in kept
      PROVE  \E n \in DOMAIN Pick(all, kept) :
               /\ Pick(all, kept)[n] = all[i]
               /\ \A q \in DOMAIN Pick(all, kept) : q > n => Pick(all, kept)[q] \in T
  <2>1. kept \in SUBSET Int /\ IsFiniteSet(kept)
    BY <1>5, PositionsFinite
  <2>2. /\ Cardinality(kept) \in Nat /\ Places(kept) \in [1..Cardinality(kept) -> kept]
        /\ \A m, n \in 1..Cardinality(kept) : m < n <=> Places(kept)[m] < Places(kept)[n]
        /\ \A p \in kept : \E n \in 1..Cardinality(kept) : Places(kept)[n] = p
    BY <2>1, PlacesIncrease
  <2>3. /\ DOMAIN Pick(all, kept) = 1..Cardinality(kept)
        /\ Pick(all, kept) = [n \in 1..Cardinality(kept) |-> all[Places(kept)[n]]]
    BY <1>5, PickTakes
  <2>4. PICK n \in 1..Cardinality(kept) : Places(kept)[n] = i
    BY <1>6, <2>2
  <2>5. ASSUME NEW q \in 1..Cardinality(kept), q > n PROVE Pick(all, kept)[q] \in T
    <3>1. Places(kept)[q] > i /\ Places(kept)[q] \in DOMAIN all
      BY <1>1, <1>5, <2>1, <2>2, <2>4, <2>5
    <3>. QED
      BY <2>3, <3>1
  <2>. QED
    BY <2>3, <2>4, <2>5
<1>. QED
  BY <1>4, <1>6 DEF kept, Follows

\* Merging nothing new changes nothing.
LEMMA MergeNothing ==
  ASSUME NEW S, NEW existing \in Seq(S), NEW limit \in Nat,
         IsInjective(existing), Len(existing) =< limit
  PROVE  MergeRecent(existing, << >>, limit) = existing
<1> DEFINE N == Len(existing)
<1>1. existing \o << >> = existing /\ DOMAIN existing = 1..N /\ N \in Nat
  OBVIOUS
<1>2. LastPlaces(existing) = 1..N
  <2>1. \A i \in 1..N : \A j \in 1..N : j > i => existing[j] # existing[i]
    <3> SUFFICES ASSUME NEW i \in 1..N, NEW j \in 1..N, existing[j] = existing[i] PROVE i = j
      BY <1>1
    <3>. QED
      BY <1>1 DEF IsInjective
  <2>. QED
    BY <1>1, <2>1 DEF LastPlaces
<1>3. ASSUME NEW i \in 1..N
      PROVE  Cardinality({j \in 1..N : j > i}) < limit
  <2>1. {j \in 1..N : j > i} = (i + 1)..N
    BY <1>1
  <2>2. i + 1 \in Int /\ N \in Int /\ i >= 1 /\ i =< N
    BY <1>1
  <2>3. Cardinality((i + 1)..N) = IF i + 1 > N THEN 0 ELSE N - (i + 1) + 1
    BY <2>2, FS_Interval
  <2>4. Cardinality((i + 1)..N) < limit
    BY <2>2, <2>3
  <2>. QED
    BY <2>1, <2>4
<1>4. KeptPlaces(existing, limit) = 1..N
  BY <1>2, <1>3 DEF KeptPlaces
<1>5. Cardinality(1..N) = N /\ Places(1..N) = [n \in 1..N |-> n]
  <2> DEFINE id == [n \in 1..N |-> n]
  <2>1. 1..N \in SUBSET Int /\ IsFiniteSet(1..N)
    BY <1>1, FS_Interval
  <2>2. id \in [1..N -> 1..N]
    OBVIOUS
  <2>3. \A m, n \in 1..N : m < n => id[m] < id[n]
    OBVIOUS
  <2>4. \A i \in 1..N : \E n \in 1..N : id[n] = i
    OBVIOUS
  <2> HIDE DEF id
  <2>5. Cardinality(1..N) = N /\ Places(1..N) = id
    BY <1>1, <2>1, <2>2, <2>3, <2>4, PlacesUnique
  <2>. QED
    BY <2>5 DEF id
<1>6. Pick(existing, 1..N) = [n \in 1..N |-> existing[n]]
  <2>1. Pick(existing, 1..N) = [n \in 1..Cardinality(1..N) |-> existing[Places(1..N)[n]]]
    <3>1. 1..N \in SUBSET DOMAIN existing
      BY <1>1
    <3>. QED BY <3>1, PickTakes
  <2>. QED
    BY <1>5, <2>1
<1>7. [n \in 1..N |-> existing[n]] = existing
  BY <1>1
<1>. QED
  BY <1>1, <1>4, <1>6, <1>7, MergeIsPick

-----------------------------------------------------------------------------
(***************************************************************************)
(* Merging in two steps is merging once.                                   *)
(***************************************************************************)
LEMMA SameSize ==
  ASSUME NEW S, IsFiniteSet(S), NEW T, NEW h,
         \A x \in S : h[x] \in T,
         \A x, y \in S : h[x] = h[y] => x = y,
         \A z \in T : \E x \in S : h[x] = z
  PROVE  IsFiniteSet(T) /\ Cardinality(T) = Cardinality(S)
<1> DEFINE f == [x \in S |-> h[x]]
<1>1. f \in [S -> T] /\ (\A x, y \in S : f[x] = f[y] => x = y)
      /\ \A z \in T : \E x \in S : f[x] = z
  OBVIOUS
<1> HIDE DEF f
<1>2. f \in Bijection(S, T)
  BY <1>1, Fun_IsBij
<1>3. ExistsBijection(S, T)
  BY <1>2, Fun_ExistsBij
<1>. QED
  BY <1>3, FS_Bijection

\* Where the members of a prefix that was merged, followed by the rest, stand in the
\* whole: g is increasing, keeps the members and hits all that merging the whole keeps.
KeepsTheSame(part, all, limit, g) ==
  /\ g \in [DOMAIN part -> DOMAIN all]
  /\ \A p, q \in DOMAIN part : p < q <=> g[p] < g[q]
  /\ \A p \in DOMAIN part : part[p] = all[g[p]]
  /\ \A p \in DOMAIN part : p \in LastPlaces(part) <=> g[p] \in LastPlaces(all)
  /\ \A i \in KeptPlaces(all, limit) : \E p \in DOMAIN part : g[p] = i
  /\ \A p \in LastPlaces(part) : \A j \in LastPlaces(all) :
       j > g[p] => \E q \in DOMAIN part : g[q] = j

LEMMA KeptInBoth ==
  ASSUME NEW S, NEW all \in Seq(S), NEW part \in Seq(S), NEW limit \in Nat,
         NEW g, KeepsTheSame(part, all, limit, g)
  PROVE  Pick(part, KeptPlaces(part, limit)) = Pick(all, KeptPlaces(all, limit))
<1> DEFINE kept == KeptPlaces(all, limit)
           keptPart == KeptPlaces(part, limit)
<1>1. /\ DOMAIN part \subseteq Int /\ DOMAIN all \subseteq Int
      /\ LastPlaces(part) \subseteq DOMAIN part /\ LastPlaces(all) \subseteq DOMAIN all
  BY DEF LastPlaces
<1>2. /\ \A p \in DOMAIN part : g[p] \in DOMAIN all /\ g[p] \in Int /\ part[p] = all[g[p]]
      /\ \A p, q \in DOMAIN part : p < q <=> g[p] < g[q]
      /\ \A p, q \in DOMAIN part : g[p] = g[q] => p = q
  BY <1>1 DEF KeepsTheSame
<1>3. ASSUME NEW p \in LastPlaces(part)
      PROVE  Cardinality({j \in LastPlaces(all) : j > g[p]})
               = Cardinality({q \in LastPlaces(part) : q > p})
  <2> DEFINE here == {q \in LastPlaces(part) : q > p}
             there == {j \in LastPlaces(all) : j > g[p]}
  <2>1. IsFiniteSet(here)
    BY LaterPlacesFinite
  <2>2. \A q \in here : g[q] \in there
    BY <1>1, <1>2 DEF KeepsTheSame
  <2>3. \A q, r \in here : g[q] = g[r] => q = r
    BY <1>1, <1>2
  <2>4. ASSUME NEW j \in there PROVE \E q \in here : g[q] = j
    <3>1. PICK q \in DOMAIN part : g[q] = j
      BY <2>4 DEF KeepsTheSame
    <3>. QED
      BY <1>1, <1>2, <2>4, <3>1 DEF KeepsTheSame
  <2> HIDE DEF here, there
  <2>5. Cardinality(there) = Cardinality(here)
    BY <2>1, <2>2, <2>3, <2>4, SameSize
  <2>. QED
    BY <2>5 DEF here, there
<1>4. \A p \in DOMAIN part : p \in keptPart <=> g[p] \in kept
  BY <1>1, <1>3 DEF KeptPlaces, KeepsTheSame
<1>5. keptPart \in SUBSET DOMAIN part /\ kept \in SUBSET DOMAIN all
  BY KeptFew
<1>6. \A i \in kept : \E p \in DOMAIN part : g[p] = i
  BY DEF KeepsTheSame
<1> HIDE DEF kept, keptPart
<1>7. /\ keptPart \in SUBSET Int /\ IsFiniteSet(keptPart)
      /\ kept \in SUBSET Int /\ IsFiniteSet(kept)
  BY <1>5, PositionsFinite
<1> DEFINE N == Cardinality(keptPart)
           s == [n \in 1..N |-> g[Places(keptPart)[n]]]
<1>8. /\ N \in Nat /\ Places(keptPart) \in [1..N -> keptPart]
      /\ \A m, n \in 1..N : m < n <=> Places(keptPart)[m] < Places(keptPart)[n]
      /\ \A p \in keptPart : \E n \in 1..N : Places(keptPart)[n] = p
  BY <1>7, PlacesIncrease
<1> HIDE DEF N
<1>9. s \in [1..N -> kept]
  BY <1>4, <1>5, <1>8
<1>10. \A m, n \in 1..N : m < n => s[m] < s[n]
  <2> TAKE m, n \in 1..N
  <2> HAVE m < n
  <2>1. /\ Places(keptPart)[m] \in DOMAIN part /\ Places(keptPart)[n] \in DOMAIN part
        /\ Places(keptPart)[m] < Places(keptPart)[n]
    BY <1>5, <1>8
  <2>. QED
    BY <1>2, <2>1
<1>11. \A i \in kept : \E n \in 1..N : s[n] = i
  <2> TAKE i \in kept
  <2>1. PICK p \in DOMAIN part : g[p] = i
    BY <1>6
  <2>2. p \in keptPart
    BY <1>4, <2>1
  <2>3. PICK n \in 1..N : Places(keptPart)[n] = p
    BY <1>8, <2>2
  <2>. QED
    BY <2>1, <2>3
<1>12. Cardinality(kept) = N /\ Places(kept) = s
  <2> HIDE DEF s
  <2>. QED BY <1>7, <1>8, <1>9, <1>10, <1>11, PlacesUnique
<1>13. /\ Pick(all, kept) = [n \in 1..N |-> all[s[n]]]
       /\ Pick(part, keptPart) = [n \in 1..N |-> part[Places(keptPart)[n]]]
  <2> HIDE DEF s
  <2>. QED BY <1>5, <1>12, PickTakes DEF N
<1>14. \A n \in 1..N : all[s[n]] = part[Places(keptPart)[n]]
  BY <1>2, <1>5, <1>8
<1>. QED
  <2> HIDE DEF s
  <2>. QED BY <1>13, <1>14 DEF kept, keptPart

\* An ID remembered and an ID observed, in what is merged.
LEMMA LastInParts ==
  ASSUME NEW S, NEW s \in Seq(S), NEW t \in Seq(S)
  PROVE  /\ \A i \in 1..Len(s) :
              i \in LastPlaces(s \o t) <=> i \in LastPlaces(s) /\ s[i] \notin ToSet(t)
         /\ \A i \in 1..Len(t) : Len(s) + i \in LastPlaces(s \o t) <=> i \in LastPlaces(t)
<1>1. /\ Len(s) \in Nat /\ Len(t) \in Nat
      /\ DOMAIN s = 1..Len(s) /\ DOMAIN t = 1..Len(t)
      /\ DOMAIN (s \o t) = 1..(Len(s) + Len(t))
      /\ \A n \in 1..Len(s) : (s \o t)[n] = s[n]
      /\ \A n \in 1..Len(t) : (s \o t)[Len(s) + n] = t[n]
  BY GluedParts
<1> DEFINE u == s \o t
<1>2. /\ DOMAIN u = 1..(Len(s) + Len(t))
      /\ \A n \in 1..Len(s) : u[n] = s[n]
      /\ \A n \in 1..Len(t) : u[Len(s) + n] = t[n]
  BY <1>1
<1> HIDE DEF u
<1>3. \A n \in 1..(Len(s) + Len(t)) :
        n \in 1..Len(s) \/ (n - Len(s) \in 1..Len(t) /\ Len(s) + (n - Len(s)) = n)
  BY <1>1
<1>4. ASSUME NEW i \in 1..Len(s)
      PROVE  i \in LastPlaces(u) <=> i \in LastPlaces(s) /\ s[i] \notin ToSet(t)
  <2>1. ASSUME i \in LastPlaces(u) PROVE i \in LastPlaces(s) /\ s[i] \notin ToSet(t)
    <3>1. \A j \in DOMAIN s : j \in DOMAIN u
      BY <1>1, <1>2
    <3>2. i \in LastPlaces(s)
      BY <1>1, <1>2, <2>1, <3>1 DEF LastPlaces
    <3>3. ASSUME NEW k \in DOMAIN t PROVE t[k] # s[i]
      <4>1. Len(s) + k \in DOMAIN u /\ Len(s) + k > i /\ u[Len(s) + k] = t[k]
        BY <1>1, <1>2
      <4>2. u[i] = s[i] /\ u[Len(s) + k] # u[i]
        BY <1>2, <2>1, <4>1 DEF LastPlaces
      <4>. QED
        BY <4>1, <4>2
    <3>. QED
      BY <3>2, <3>3 DEF ToSet
  <2>2. ASSUME i \in LastPlaces(s), s[i] \notin ToSet(t) PROVE i \in LastPlaces(u)
    <3>1. i \in DOMAIN u /\ u[i] = s[i]
      BY <1>1, <1>2
    <3>2. ASSUME NEW j \in DOMAIN u, j > i PROVE u[j] # u[i]
      <4>1. CASE j \in 1..Len(s)
        BY <1>1, <1>2, <2>2, <3>1, <3>2, <4>1 DEF LastPlaces
      <4>2. CASE j - Len(s) \in 1..Len(t) /\ Len(s) + (j - Len(s)) = j
        <5>1. u[j] = t[j - Len(s)]
          BY <1>2, <4>2
        <5>. QED
          BY <1>1, <2>2, <3>1, <4>2, <5>1 DEF ToSet
      <4>. QED
        BY <1>2, <1>3, <4>1, <4>2
    <3>. QED
      BY <3>1, <3>2 DEF LastPlaces
  <2>. QED
    BY <2>1, <2>2
<1>5. ASSUME NEW i \in 1..Len(t)
      PROVE  Len(s) + i \in LastPlaces(u) <=> i \in LastPlaces(t)
  <2>1. Len(s) + i \in DOMAIN u /\ u[Len(s) + i] = t[i]
    BY <1>1, <1>2
  <2>2. ASSUME i \in LastPlaces(t), NEW j \in DOMAIN u, j > Len(s) + i PROVE u[j] # u[Len(s) + i]
    <3>1. /\ j - Len(s) \in DOMAIN t /\ Len(s) + (j - Len(s)) = j /\ j - Len(s) > i
      BY <1>1, <1>2, <2>2
    <3>2. u[j] = t[j - Len(s)] /\ t[j - Len(s)] # t[i]
      BY <1>1, <1>2, <2>2, <3>1 DEF LastPlaces
    <3>. QED
      BY <2>1, <3>2
  <2>3. ASSUME Len(s) + i \in LastPlaces(u), NEW k \in DOMAIN t, k > i PROVE t[k] # t[i]
    <3>1. Len(s) + k \in DOMAIN u /\ Len(s) + k > Len(s) + i /\ u[Len(s) + k] = t[k]
      BY <1>1, <1>2, <2>3
    <3>. QED
      BY <2>1, <2>3, <3>1 DEF LastPlaces
  <2>. QED
    BY <1>1, <2>1, <2>2, <2>3 DEF LastPlaces
<1>. QED
  BY <1>4, <1>5 DEF u

\* Every ID that comes later in the prefix comes later in the whole.
LEMMA LaterInWhole ==
  ASSUME NEW S, NEW s \in Seq(S), NEW t \in Seq(S), NEW i \in LastPlaces(s)
  PROVE  Cardinality({j \in LastPlaces(s) : j > i})
           =< Cardinality({j \in LastPlaces(s \o t) : j > i})
<1> DEFINE u == s \o t
           here == {j \in LastPlaces(s) : j > i}
           there == {j \in LastPlaces(u) : j > i}
           h == [j \in here |-> CHOOSE k \in there : u[k] = s[j]]
<1>1. u \in Seq(S)
  BY GluedParts
<1>2. /\ DOMAIN s = 1..Len(s) /\ DOMAIN u = 1..(Len(s) + Len(t)) /\ Len(s) \in Nat /\ Len(t) \in Nat
      /\ \A n \in 1..Len(s) : u[n] = s[n]
  BY GluedParts
<1> HIDE DEF u
<1>3. /\ LastPlaces(s) \subseteq DOMAIN s
      /\ \A p, q \in LastPlaces(s) : s[p] = s[q] => p = q
  BY <1>2 DEF LastPlaces
<1>4. ASSUME NEW j \in here PROVE \E k \in there : u[k] = s[j]
  <2>1. j \in DOMAIN u /\ u[j] = s[j] /\ j > i
    BY <1>2, <1>3
  <2>2. PICK k \in LastPlaces(u) : j =< k /\ u[k] = u[j]
    BY <1>1, <2>1, LastPlaceExists
  <2>3. k \in Int /\ i \in Int /\ j \in Int
    BY <1>2, <1>3, <2>1 DEF LastPlaces
  <2>. QED
    BY <2>1, <2>2, <2>3
<1>5. \A j \in here : h[j] \in there /\ u[h[j]] = s[j]
  BY <1>4
<1>6. h \in [here -> there]
  BY <1>5
<1>7. \A p, q \in here : h[p] = h[q] => p = q
  <2> HIDE DEF h
  <2>. QED BY <1>3, <1>5
<1>8. IsFiniteSet(there)
  BY <1>1, LaterPlacesFinite
<1> HIDE DEF h, here, there
<1>9. h \in Injection(here, there)
  BY <1>6, <1>7, Fun_IsInj
<1>10. Cardinality(here) =< Cardinality(there)
  BY <1>8, <1>9, FS_Injection
<1>. QED
  BY <1>10 DEF here, there, u

LEMMA KeptUpward ==
  ASSUME NEW S, NEW all \in Seq(S), NEW limit \in Nat,
         NEW i \in KeptPlaces(all, limit), NEW j \in LastPlaces(all), j > i
  PROVE  j \in KeptPlaces(all, limit)
<1> DEFINE less == {k \in LastPlaces(all) : k > j}
           more == {k \in LastPlaces(all) : k > i}
<1>1. LastPlaces(all) \subseteq Int /\ i \in LastPlaces(all) /\ Cardinality(more) < limit
  BY DEF LastPlaces, KeptPlaces
<1>2. less \in SUBSET more
  BY <1>1
<1>3. IsFiniteSet(more) /\ Cardinality(more) \in Nat /\ Cardinality(less) \in Nat
  BY LaterPlacesFinite
<1>4. Cardinality(less) =< Cardinality(more)
  <2> HIDE DEF less, more
  <2>. QED BY <1>2, <1>3, FS_Subset
<1>5. Cardinality(less) < limit
  <2> HIDE DEF less, more
  <2>. QED BY <1>1, <1>3, <1>4
<1>. QED
  BY <1>5 DEF KeptPlaces

\* Merging what was observed in two polls, one after the other, is merging it at once.
LEMMA MergeInParts ==
  ASSUME NEW S, NEW existing \in Seq(S), NEW first \in Seq(S), NEW second \in Seq(S),
         NEW limit \in Nat
  PROVE  MergeRecent(MergeRecent(existing, first, limit), second, limit)
           = MergeRecent(existing, first \o second, limit)
<1> DEFINE before == existing \o first
           kept == KeptPlaces(before, limit)
           M == Cardinality(kept)
           merged == Pick(before, kept)
           part == merged \o second
           all == before \o second
           L == Len(before)
           N == Len(second)
           g == [p \in 1..(M + N) |-> IF p =< M THEN Places(kept)[p] ELSE L + (p - M)]
<1>1. before \in Seq(S)
  BY GluedParts
<1>2. /\ MergeRecent(MergeRecent(existing, first, limit), second, limit)
           = Pick(part, KeptPlaces(part, limit))
      /\ MergeRecent(existing, first \o second, limit) = Pick(all, KeptPlaces(all, limit))
  <2>1. before \o second = existing \o (first \o second)
    BY ConcatAssociative
  <2>. QED
    BY <2>1, MergeIsPick
<1> HIDE DEF before
<1>3. kept \in SUBSET DOMAIN before /\ kept \subseteq LastPlaces(before)
  BY <1>1, KeptFew DEF KeptPlaces
<1>4. merged \in Seq(S) /\ IsInjective(merged)
  BY <1>1, KeptBounded
<1>5. kept \in SUBSET Int /\ IsFiniteSet(kept) /\ DOMAIN before = 1..L /\ L \in Nat
  <2> HIDE DEF kept
  <2>. QED BY <1>1, <1>3, PositionsFinite
<1>6. ASSUME NEW i \in kept, NEW j \in LastPlaces(before), j > i PROVE j \in kept
  BY <1>1, <1>6, KeptUpward
<1>7. ASSUME NEW i \in LastPlaces(before), i \in KeptPlaces(all, limit) PROVE i \in kept
  <2> DEFINE here == Cardinality({j \in LastPlaces(before) : j > i})
             there == Cardinality({j \in LastPlaces(all) : j > i})
  <2>1. here =< there
    BY <1>1, LaterInWhole
  <2>2. all \in Seq(S)
    BY <1>1, GluedParts
  <2>3. there < limit
    BY <1>7 DEF KeptPlaces
  <2>4. here \in Nat /\ there \in Nat
    <3> HIDE DEF all
    <3>. QED BY <1>1, <2>2, LaterPlacesFinite
  <2>5. here < limit
    <3> HIDE DEF here, there
    <3>. QED BY <2>1, <2>3, <2>4
  <2>. QED
    BY <2>5 DEF KeptPlaces
<1> HIDE DEF kept
<1>8. /\ M \in Nat /\ Places(kept) \in [1..M -> kept]
      /\ \A m, n \in 1..M : m < n <=> Places(kept)[m] < Places(kept)[n]
      /\ \A i \in kept : \E n \in 1..M : Places(kept)[n] = i
  BY <1>5, PlacesIncrease
<1>9. Len(merged) = M /\ DOMAIN merged = 1..M /\ merged = [n \in 1..M |-> before[Places(kept)[n]]]
  BY <1>1, <1>3, PickTakes
<1> HIDE DEF M, merged
<1>10. /\ part \in Seq(S) /\ DOMAIN part = 1..(M + N) /\ N \in Nat
       /\ \A n \in 1..M : part[n] = merged[n]
       /\ \A n \in 1..N : part[M + n] = second[n]
  <2>1. /\ part \in Seq(S) /\ DOMAIN part = 1..(Len(merged) + N) /\ N \in Nat
        /\ \A n \in 1..Len(merged) : part[n] = merged[n]
        /\ \A n \in 1..N : part[Len(merged) + n] = second[n]
    BY <1>4, GluedParts
  <2>. QED
    BY <1>9, <2>1
<1>11. /\ all \in Seq(S) /\ DOMAIN all = 1..(L + N)
       /\ \A n \in 1..L : all[n] = before[n]
       /\ \A n \in 1..N : all[L + n] = second[n]
  BY <1>1, GluedParts
<1>12. /\ \A p \in 1..M : p \in LastPlaces(part) <=> merged[p] \notin ToSet(second)
       /\ \A n \in 1..N : M + n \in LastPlaces(part) <=> n \in LastPlaces(second)
  <2>1. \A p \in 1..M : p \in LastPlaces(merged)
    <3>1. \A p, q \in 1..M : merged[p] = merged[q] => p = q
      BY <1>4, <1>9 DEF IsInjective
    <3>. QED
      BY <1>9, <3>1 DEF LastPlaces
  <2>2. /\ \A p \in 1..Len(merged) :
             p \in LastPlaces(part) <=> p \in LastPlaces(merged) /\ merged[p] \notin ToSet(second)
        /\ \A n \in 1..N : Len(merged) + n \in LastPlaces(part) <=> n \in LastPlaces(second)
    BY <1>4, LastInParts
  <2>. QED
    BY <1>9, <2>1, <2>2
<1>13. /\ \A i \in 1..L :
            i \in LastPlaces(all) <=> i \in LastPlaces(before) /\ before[i] \notin ToSet(second)
       /\ \A n \in 1..N : L + n \in LastPlaces(all) <=> n \in LastPlaces(second)
  BY <1>1, LastInParts
<1> HIDE DEF part, all, L, N
<1>14. ASSUME NEW p \in 1..(M + N)
       PROVE  \/ /\ p \in 1..M /\ g[p] = Places(kept)[p] /\ g[p] \in kept /\ g[p] \in 1..L
                 /\ merged[p] = before[g[p]]
              \/ /\ p - M \in 1..N /\ M + (p - M) = p /\ g[p] = L + (p - M) /\ g[p] > L
                 /\ g[p] \in 1..(L + N)
  <2>1. CASE p =< M
    <3>1. p \in 1..M /\ g[p] = Places(kept)[p]
      BY <1>8, <1>10, <2>1
    <3>. QED
      BY <1>3, <1>5, <1>8, <1>9, <3>1
  <2>2. CASE ~(p =< M)
    <3>1. p - M \in 1..N /\ M + (p - M) = p /\ g[p] = L + (p - M)
      BY <1>8, <1>10, <2>2
    <3>. QED
      BY <1>5, <1>10, <3>1
  <2>. QED
    BY <2>1, <2>2
<1>15. ASSUME NEW n \in 1..N PROVE M + n \in 1..(M + N) /\ g[M + n] = L + n
  <2>1. M + n \in 1..(M + N) /\ ~(M + n =< M) /\ (M + n) - M = n
    BY <1>8, <1>10
  <2>. QED
    BY <2>1
<1>16. ASSUME NEW i \in kept PROVE \E p \in 1..(M + N) : g[p] = i
  <2>1. PICK p \in 1..M : Places(kept)[p] = i
    BY <1>8
  <2>2. p \in 1..(M + N) /\ p =< M
    BY <1>8, <1>10
  <2>. QED
    BY <2>1, <2>2
<1>17. DOMAIN g = 1..(M + N) /\ g = [p \in 1..(M + N) |-> g[p]]
  OBVIOUS
<1> HIDE DEF g
<1>18. g \in [DOMAIN part -> DOMAIN all]
  <2>1. \A p \in 1..(M + N) : g[p] \in 1..(L + N)
    BY <1>5, <1>10, <1>14
  <2>. QED
    BY <1>10, <1>11, <1>17, <2>1
<1>19. ASSUME NEW p \in 1..(M + N), NEW q \in 1..(M + N) PROVE p < q <=> g[p] < g[q]
  <2>1. CASE p \in 1..M /\ q \in 1..M
    BY <1>8, <1>14, <2>1
  <2>2. CASE p \in 1..M /\ q \notin 1..M
    BY <1>5, <1>8, <1>10, <1>14, <2>2
  <2>3. CASE p \notin 1..M /\ q \in 1..M
    BY <1>5, <1>8, <1>10, <1>14, <2>3
  <2>4. CASE p \notin 1..M /\ q \notin 1..M
    BY <1>5, <1>8, <1>10, <1>14, <2>4
  <2>. QED
    BY <2>1, <2>2, <2>3, <2>4
<1>20. ASSUME NEW p \in 1..(M + N)
       PROVE  part[p] = all[g[p]] /\ (p \in LastPlaces(part) <=> g[p] \in LastPlaces(all))
  <2>1. CASE /\ p \in 1..M /\ g[p] = Places(kept)[p] /\ g[p] \in kept /\ g[p] \in 1..L
             /\ merged[p] = before[g[p]]
    BY <1>3, <1>10, <1>11, <1>12, <1>13, <2>1
  <2>2. CASE p - M \in 1..N /\ M + (p - M) = p /\ g[p] = L + (p - M)
    <3>1. part[M + (p - M)] = second[p - M] /\ all[L + (p - M)] = second[p - M]
      BY <1>10, <1>11, <2>2
    <3>2. /\ M + (p - M) \in LastPlaces(part) <=> p - M \in LastPlaces(second)
          /\ L + (p - M) \in LastPlaces(all) <=> p - M \in LastPlaces(second)
      BY <1>12, <1>13, <2>2
    <3>. QED
      BY <2>2, <3>1, <3>2
  <2>. QED
    BY <1>14, <2>1, <2>2
<1>21. ASSUME NEW i \in LastPlaces(all), i \in 1..L => i \in kept
       PROVE  \E p \in 1..(M + N) : g[p] = i
  <2>1. i \in 1..(L + N)
    BY <1>11 DEF LastPlaces
  <2>2. CASE i \in 1..L
    BY <1>16, <1>21, <2>2
  <2>3. CASE i \notin 1..L
    <3>1. i - L \in 1..N /\ L + (i - L) = i
      BY <1>5, <1>10, <2>1, <2>3
    <3>. QED
      BY <1>15, <3>1
  <2>. QED
    BY <2>2, <2>3
<1>22. ASSUME NEW i \in KeptPlaces(all, limit) PROVE \E p \in 1..(M + N) : g[p] = i
  <2>1. i \in LastPlaces(all)
    BY <1>22 DEF KeptPlaces
  <2>2. i \in 1..L => i \in kept
    BY <1>7, <1>13, <1>22, <2>1
  <2>. QED
    BY <1>21, <2>1, <2>2
<1>23. ASSUME NEW p \in LastPlaces(part), NEW j \in LastPlaces(all), j > g[p]
       PROVE  \E q \in 1..(M + N) : g[q] = j
  <2>1. p \in 1..(M + N) /\ j \in 1..(L + N)
    BY <1>10, <1>11 DEF LastPlaces
  <2>2. ASSUME j \in 1..L PROVE j \in kept
    <3>1. g[p] \in kept
      BY <1>5, <1>14, <1>23, <2>1, <2>2
    <3>2. j \in LastPlaces(before)
      BY <1>13, <2>2
    <3>. QED
      BY <1>6, <1>23, <3>1, <3>2
  <2>. QED
    BY <1>21, <2>2
<1>24. KeepsTheSame(part, all, limit, g)
  BY <1>10, <1>18, <1>19, <1>20, <1>22, <1>23 DEF KeepsTheSame
<1>. QED
  BY <1>2, <1>10, <1>11, <1>24, KeptInBoth
=============================================================================
