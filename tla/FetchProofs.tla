---------------------------- MODULE FetchProofs ----------------------------
(***************************************************************************)
(* Proofs about Fetch, for any page sizes, any budget and any log.         *)
(***************************************************************************)
EXTENDS Fetch, FiniteSetTheorems, WellFoundedInduction, TLAPS

USE SizesAssumption DEF Positions, hub, walk

-----------------------------------------------------------------------------
(***************************************************************************)
(* Sets of positions.                                                      *)
(***************************************************************************)
\* A set of positions that is not empty has a smallest and a largest one.
LEMMA MinExists ==
  ASSUME NEW S, S \subseteq Nat, S # {}
  PROVE  Min(S) \in S /\ \A i \in S : Min(S) =< i
<1>1. PICK m \in S : \A i \in S : ~ (<<i, m>> \in OpToRel(<, Nat))
  BY NatLessThanWellFounded, WFMin
<1>2. ASSUME NEW i \in S PROVE m =< i
  <2>1. <<i, m>> \in Nat \X Nat /\ <<i, m>>[1] = i /\ <<i, m>>[2] = m
    OBVIOUS
  <2>2. <<i, m>> \in {ss \in Nat \X Nat : ss[1] < ss[2]} <=> i < m
    BY <2>1
  <2>3. ~ (i < m)
    BY <1>1, <2>2 DEF OpToRel
  <2>. QED
    BY <2>3
<1>. QED
  BY <1>2 DEF Min

LEMMA MaxExists ==
  ASSUME NEW n \in Nat, NEW S, S \subseteq 0..n, S # {}
  PROVE  \E m \in S : \A i \in S : i =< m
<1> DEFINE T == {n - i : i \in S}
<1>1. T \subseteq Nat /\ T # {}
  <2>1. \A i \in S : n - i \in Nat
    OBVIOUS
  <2>. QED
    BY <2>1
<1>2. Min(T) \in T /\ \A i \in T : Min(T) =< i
  BY <1>1, MinExists
<1>3. PICK m \in S : Min(T) = n - m
  BY <1>2
<1>4. ASSUME NEW i \in S PROVE i =< m
  <2>1. n - i \in T
    OBVIOUS
  <2>2. n - m =< n - i
    BY <1>2, <1>3, <2>1
  <2>. QED
    BY <2>2
<1>. QED
  BY <1>4

\* Sets between 1 and a bound are finite; so are their subsets, and not larger.
LEMMA PositionsFinite ==
  ASSUME NEW n \in Nat, NEW S, S \subseteq 1..n
  PROVE  /\ IsFiniteSet(S) /\ Cardinality(S) \in Nat
         /\ \A T \in SUBSET S : /\ IsFiniteSet(T) /\ Cardinality(T) \in Nat
                                /\ Cardinality(T) =< Cardinality(S)
<1>1. IsFiniteSet(1..n)
  BY FS_Interval
<1>2. S \in SUBSET (1..n)
  OBVIOUS
<1>3. IsFiniteSet(S)
  BY <1>1, <1>2, FS_Subset
<1>4. Cardinality(S) \in Nat
  BY <1>3, FS_CardinalityType
<1>5. ASSUME NEW T \in SUBSET S
      PROVE  IsFiniteSet(T) /\ Cardinality(T) \in Nat /\ Cardinality(T) =< Cardinality(S)
  <2>1. IsFiniteSet(T) /\ Cardinality(T) =< Cardinality(S)
    BY <1>3, FS_Subset
  <2>2. Cardinality(T) \in Nat
    BY <2>1, FS_CardinalityType
  <2>. QED
    BY <2>1, <2>2
<1>. QED
  BY <1>3, <1>4, <1>5

\* The hub serves the newest positions from `from` down, size of them or all there are.
Below(from) == {i \in log : from # 0 => i =< from}

LEMMA PageIsTop ==
  ASSUME newest \in Nat, log \subseteq 1..newest, NEW from \in Nat, NEW size \in Nat \ {0}
  PROVE  /\ HubPage(from, size) \subseteq Below(from)
         /\ Cardinality(HubPage(from, size)) =< size
         /\ \A m \in HubPage(from, size), i \in Below(from) :
              m < i => i \in HubPage(from, size)
         /\ Cardinality(HubPage(from, size)) < size => HubPage(from, size) = Below(from)
<1> DEFINE below == Below(from)
           above(i) == {j \in below : j > i}
           reply == {i \in below : Cardinality(above(i)) < size}
<1>1. HubPage(from, size) = reply
  BY DEF HubPage, Below
<1>2. below \subseteq 1..newest
  BY DEF Below
<1>3. /\ IsFiniteSet(below) /\ Cardinality(below) \in Nat
      /\ \A T \in SUBSET below : IsFiniteSet(T) /\ Cardinality(T) \in Nat
  BY <1>2, PositionsFinite
<1>4. \A i \in below : above(i) \subseteq 1..newest /\ Cardinality(above(i)) \in Nat
  BY <1>2, <1>3
<1>5. reply \subseteq below /\ IsFiniteSet(reply) /\ Cardinality(reply) \in Nat
  BY <1>3
<1>6. \A i \in below : i \in reply <=> Cardinality(above(i)) < size
  OBVIOUS
<1>7. \A i, j \in below : j \in above(i) <=> j > i
  OBVIOUS
<1>8. \A i \in below : above(i) \subseteq below
  OBVIOUS
<1>. HIDE DEF below, above, reply
<1>9. ASSUME NEW m \in reply, NEW i \in below, m < i PROVE i \in reply
  <2>1. m \in below /\ m \in Nat /\ i \in Nat
    BY <1>2, <1>5
  <2>2. above(i) \in SUBSET above(m)
    <3>1. ASSUME NEW j \in above(i) PROVE j \in above(m)
      <4>1. j \in below /\ j > i
        BY <1>7, <1>8, <2>1
      <4>2. j \in Nat
        BY <1>2, <4>1
      <4>3. j > m
        BY <1>9, <2>1, <4>1, <4>2
      <4>. QED
        BY <1>7, <2>1, <4>1, <4>3
    <3>. QED
      BY <3>1
  <2>3. Cardinality(above(i)) =< Cardinality(above(m))
    BY <1>4, <2>1, <2>2, PositionsFinite
  <2>. QED
    BY <1>4, <1>6, <1>9, <2>1, <2>3
<1>10. Cardinality(reply) =< size
  <2>1. CASE reply = {}
    <3>1. Cardinality(reply) = 0
      BY <2>1, FS_EmptySet
    <3>. QED
      BY <3>1
  <2>2. CASE reply # {}
    <3>1. reply \subseteq Nat
      BY <1>2, <1>5
    <3>2. PICK m \in reply : \A i \in reply : m =< i
      BY <2>2, <3>1, MinExists
    <3>3. m \in below /\ IsFiniteSet(above(m))
      BY <1>3, <1>5, <1>8
    <3>4. reply \in SUBSET (above(m) \union {m})
      <4>1. ASSUME NEW i \in reply, i # m PROVE i \in above(m)
        BY <1>5, <1>7, <3>1, <3>2, <3>3, <4>1
      <4>. QED
        BY <4>1
    <3>5. m \notin above(m)
      BY <1>7, <3>1, <3>3
    <3>6. /\ IsFiniteSet(above(m) \union {m})
          /\ Cardinality(above(m) \union {m}) = Cardinality(above(m)) + 1
      BY <3>3, <3>5, FS_AddElement
    <3>7. Cardinality(reply) =< Cardinality(above(m)) + 1
      BY <3>4, <3>6, FS_Subset
    <3>8. Cardinality(above(m)) < size /\ Cardinality(above(m)) \in Nat
      BY <1>4, <1>6, <3>3
    <3>. QED
      BY <1>5, <3>7, <3>8
  <2>. QED
    BY <2>1, <2>2
<1>11. ASSUME Cardinality(reply) < size PROVE reply = below
  <2>1. SUFFICES ASSUME below \ reply # {} PROVE FALSE
    BY <1>5
  <2>2. below \ reply \subseteq 0..newest
    <3>1. 1..newest \subseteq 0..newest
      OBVIOUS
    <3>. QED
      BY <1>2, <3>1
  <2>3. PICK i \in below \ reply : \A j \in below \ reply : j =< i
    BY <2>1, <2>2, MaxExists
  <2>4. above(i) \in SUBSET reply
    <3>1. ASSUME NEW j \in above(i) PROVE j \in reply
      <4>1. j \in below /\ j > i
        BY <1>7, <1>8, <2>3
      <4>2. j \in Nat /\ i \in Nat
        BY <1>2, <2>3, <4>1
      <4>3. ~ (j =< i)
        BY <4>1, <4>2
      <4>. QED
        BY <2>3, <4>1, <4>3
    <3>. QED
      BY <3>1
  <2>5. Cardinality(above(i)) =< Cardinality(reply)
    BY <1>5, <2>4, FS_Subset
  <2>. QED
    BY <1>4, <1>5, <1>6, <1>11, <2>3, <2>5
<1>. QED
  BY <1>1, <1>5, <1>9, <1>10, <1>11 DEF below

-----------------------------------------------------------------------------
(***************************************************************************)
(* The inductive invariant.  A record the walk was offered is still kept,  *)
(* or older than all that are.  Between two pages the walk has everything  *)
(* offered above start and nothing at or below it; full pages have brought *)
(* it what it counts as taken.                                             *)
(***************************************************************************)
Kept == \A i \in offered : i \in log \/ \A k \in log : i < k

Walking ==
  result = "walking" =>
    /\ page = 0 => taken = 0 /\ collected = {} /\ offered = {}
    /\ page > 0 => /\ \A i \in offered : i > start => i \in collected
                   /\ \A j \in collected : j > start
                   /\ taken >= FirstSize + (page - 1) * PageSize
                   /\ taken < Budget

Inv == TypeOK /\ Kept /\ Walking

\* What FetchPage reads, and what it then has.
Reply    == HubPage(start, CurrentSize)
Objects  == {i \in Reply : kind[i] # "junk"}
Ids      == Numbered(Reply)
Offer    == IF page = 0 THEN Numbered(log) ELSE offered
Read     == collected \union Ids

\* A page read between two pages of the same walk: nothing it holds was read
\* before, and what was offered and is still not read is older than all that was.
LEMMA PageFacts ==
  ASSUME Inv, result = "walking"
  PROVE  /\ Reply \subseteq Below(start) /\ Ids \subseteq Reply /\ Objects \subseteq Reply
         /\ CurrentSize \in Nat \ {0} /\ CurrentSize =< PageSize
         /\ Cardinality(Objects) \in Nat /\ Cardinality(Objects) =< CurrentSize
         /\ Cardinality(Reply) < CurrentSize => Reply = Below(start)
         /\ Ids \intersect collected = {}
         /\ Offer \subseteq Numbered(1..newest) /\ Read \subseteq Numbered(1..newest)
         /\ \A i \in Offer : i \in log \/ \A k \in log : i < k
         /\ \A i \in Offer \ Read : start # 0 => i =< start
         /\ \A i \in Offer \ Read, j \in Read : i < j
<1>1. /\ newest \in Nat /\ log \subseteq 1..newest /\ start \in Nat /\ page \in Nat
      /\ start = 0 <=> page = 0
      /\ collected \subseteq Numbered(1..newest) /\ offered \subseteq Numbered(1..newest)
  BY DEF Inv, TypeOK
<1>2. CurrentSize \in Nat \ {0} /\ CurrentSize =< PageSize
  BY DEF CurrentSize
<1>3. /\ Reply \subseteq Below(start)
      /\ Cardinality(Reply) =< CurrentSize
      /\ \A m \in Reply, i \in Below(start) : m < i => i \in Reply
      /\ Cardinality(Reply) < CurrentSize => Reply = Below(start)
  BY <1>1, <1>2, PageIsTop DEF Reply
<1>4. Ids \subseteq Reply /\ Objects \subseteq Reply
  BY DEF Ids, Objects, Numbered
<1>5. Reply \subseteq log /\ Reply \subseteq 1..newest
  BY <1>1, <1>3 DEF Below
<1>6. Cardinality(Objects) \in Nat /\ Cardinality(Objects) =< CurrentSize
  <2>1. /\ Cardinality(Reply) \in Nat /\ Cardinality(Objects) \in Nat
        /\ Cardinality(Objects) =< Cardinality(Reply)
    BY <1>1, <1>4, <1>5, PositionsFinite
  <2>. QED
    BY <1>2, <1>3, <2>1
<1>7. page = 0 => collected = {}
  BY DEF Inv, Walking
<1>8. page > 0 => /\ \A i \in offered : i > start => i \in collected
                  /\ \A j \in collected : j > start
  BY DEF Inv, Walking
<1>9. Ids \intersect collected = {}
  <2>1. page > 0 => \A i \in Reply : i =< start
    BY <1>1, <1>3 DEF Below
  <2>2. \A i \in Reply : i \in Nat
    BY <1>5
  <2>3. page > 0 => \A i \in Ids : i \notin collected
    BY <1>1, <1>4, <1>8, <2>1, <2>2
  <2>. QED
    BY <1>1, <1>7, <2>3
<1>10. Offer \subseteq Numbered(1..newest) /\ Read \subseteq Numbered(1..newest)
  BY <1>1, <1>4, <1>5 DEF Offer, Read, Ids, Numbered
<1>11. \A i \in Offer : i \in log \/ \A k \in log : i < k
  BY DEF Inv, Kept, Offer, Numbered
<1>12. \A i \in Numbered(1..newest) : i \in Nat /\ i \in 1..newest /\ kind[i] = "record"
  BY DEF Numbered
<1>13. ASSUME NEW i \in Offer \ Read, start # 0 PROVE i =< start
  <2>1. page > 0 /\ i \in offered /\ i \notin collected
    BY <1>1, <1>13 DEF Offer, Read
  <2>2. i \in Nat
    BY <1>10, <1>12
  <2>. QED
    BY <1>1, <1>8, <2>1, <2>2
<1>14. ASSUME NEW i \in Offer \ Read, NEW j \in Read PROVE i < j
  <2>1. i \in Nat /\ j \in Nat /\ kind[i] = "record" /\ i \notin Ids
    BY <1>10, <1>12 DEF Read
  <2>2. CASE j \in collected
    <3>1. start # 0 /\ j > start
      BY <1>1, <1>7, <1>8, <2>2
    <3>. QED
      BY <1>1, <1>13, <2>1, <3>1
  <2>3. CASE j \in Ids
    <3>1. j \in Reply /\ j \in log /\ i # j
      BY <1>4, <1>5, <2>1, <2>3
    <3>2. CASE i \in log
      <4>1. i \in Below(start)
        BY <1>13, <3>2 DEF Below
      <4>2. i \notin Reply
        BY <2>1 DEF Ids, Numbered
      <4>. QED
        BY <1>3, <2>1, <3>1, <4>1, <4>2
    <3>. QED
      BY <1>11, <3>1, <3>2
  <2>. QED
    BY <2>2, <2>3 DEF Read
<1>. QED
  BY <1>2, <1>3, <1>4, <1>6, <1>9, <1>10, <1>11, <1>13, <1>14

\* FetchPage in those terms.
LEMMA PageTaken ==
  ASSUME FetchPage
  PROVE  /\ result = "walking" /\ page' = page + 1
         /\ taken' = taken + Cardinality(Objects)
         /\ collected' = Read /\ offered' = Offer
         /\ repeated' = repeated \union (collected \intersect Ids)
         /\ result' = Outcome(Objects, Ids)
         /\ start' = IF result' \in {"walking", "truncated"} THEN NextStart(Ids) ELSE start
         /\ UNCHANGED <<log, newest, kind, latest>>
  BY DEF FetchPage, Reply, Objects, Ids, Read, Offer

\* A walk that goes on, or stops at its budget, goes on below a full page that
\* held a record and none at or before the cursor.
LEMMA GoesOn ==
  ASSUME Inv, FetchPage, result' \in {"walking", "truncated"}
  PROVE  /\ start' = Min(Ids) - 1 /\ start' \in Nat \ {0}
         /\ Min(Ids) \in Ids /\ \A i \in Ids : Min(Ids) =< i
         /\ start # 0 => start' < start
         /\ Cardinality(Objects) = CurrentSize
         /\ result' = "walking" <=> taken' < Budget
<1>1. /\ result = "walking" /\ taken' = taken + Cardinality(Objects)
      /\ result' = Outcome(Objects, Ids) /\ start' = NextStart(Ids)
  BY PageTaken
<1>2. ~Exhausted(Objects, Ids) /\ (result' = "walking" <=> WithinBudget(Objects))
  BY <1>1 DEF Outcome
<1>3. Ids # {} /\ ~ShortPage(Objects) /\ ~(NextStart(Ids) < 1)
      /\ (start > 0 => ~(NextStart(Ids) >= start))
  BY <1>2 DEF Exhausted
<1>4. /\ Cardinality(Objects) \in Nat /\ Cardinality(Objects) =< CurrentSize
      /\ CurrentSize \in Nat /\ Ids \subseteq Nat /\ start \in Nat
  <2>1. Read \subseteq Numbered(1..newest) /\ newest \in Nat /\ start \in Nat
    BY <1>1, PageFacts DEF Inv, TypeOK
  <2>2. Read \subseteq Nat
    BY <2>1 DEF Numbered
  <2>. QED
    BY <1>1, <2>1, <2>2, PageFacts DEF Read
<1>5. Min(Ids) \in Ids /\ \A i \in Ids : Min(Ids) =< i
  BY <1>3, <1>4, MinExists
<1>6. start' = Min(Ids) - 1 /\ Min(Ids) \in Nat
  BY <1>1, <1>4, <1>5 DEF NextStart
<1>7. start' \in Nat \ {0} /\ (start # 0 => start' < start)
  BY <1>1, <1>3, <1>4, <1>6
<1>8. Cardinality(Objects) = CurrentSize
  BY <1>3, <1>4 DEF ShortPage
<1>. QED
  BY <1>1, <1>2, <1>5, <1>6, <1>7, <1>8 DEF WithinBudget

\* FetchPage keeps the invariant: below the page it has read lie only positions
\* that are older than all of it.
LEMMA PageKeepsInv ==
  ASSUME Inv, FetchPage
  PROVE  Inv'
<1>1. /\ result = "walking" /\ page' = page + 1
      /\ taken' = taken + Cardinality(Objects)
      /\ collected' = Read /\ offered' = Offer
      /\ repeated' = repeated \union (collected \intersect Ids)
      /\ result' = Outcome(Objects, Ids)
      /\ start' = IF result' \in {"walking", "truncated"} THEN NextStart(Ids) ELSE start
      /\ UNCHANGED <<log, newest, kind, latest>>
  BY PageTaken
<1>2. /\ page \in Nat /\ taken \in Nat /\ start \in Nat /\ newest \in Nat
      /\ Cardinality(Objects) \in Nat
      /\ start = 0 <=> page = 0
  BY <1>1, PageFacts DEF Inv, TypeOK
<1>3. /\ CurrentSize \in Nat \ {0}
      /\ Offer \subseteq Numbered(1..newest) /\ Read \subseteq Numbered(1..newest)
      /\ \A i \in Offer : i \in log \/ \A k \in log : i < k
      /\ \A i \in Offer \ Read, j \in Read : i < j
  BY <1>1, PageFacts
<1>4. \A i \in Numbered(1..newest) : i \in Nat
  BY DEF Numbered
<1>5. result' \in {"walking", "truncated"} =>
        /\ start' = Min(Ids) - 1 /\ start' \in Nat \ {0}
        /\ Min(Ids) \in Ids /\ \A i \in Ids : Min(Ids) =< i
        /\ start # 0 => start' < start
        /\ Cardinality(Objects) = CurrentSize
        /\ result' = "walking" <=> taken' < Budget
  BY GoesOn
<1>6. TypeOK'
  <2>1. result' \in Results \union {"idle", "walking", "failed"}
    BY <1>1 DEF Outcome, Results
  <2>2. start' \in Nat /\ page' \in Nat \ {0} /\ taken' \in Nat
    BY <1>1, <1>2, <1>5
  <2>3. result' = "walking" => start' # 0
    BY <1>5
  <2>4. collected' \subseteq Numbered(1..newest)' /\ offered' \subseteq Numbered(1..newest)'
    BY <1>1, <1>3 DEF Numbered
  <2>5. repeated' \subseteq collected'
    BY <1>1 DEF Inv, TypeOK, Read
  <2>6. /\ (log \subseteq 1..newest /\ newest \in 0..MaxId)'
        /\ (kind \in [Positions -> Kinds])' /\ (latest \in Nat \union {NoValue})'
    BY <1>1 DEF Inv, TypeOK
  <2>. QED
    BY <2>1, <2>2, <2>3, <2>4, <2>5, <2>6 DEF TypeOK
<1>7. Kept'
  BY <1>1, <1>3 DEF Kept
<1>8. Walking'
  <2>1. SUFFICES ASSUME result' = "walking"
                 PROVE  /\ \A i \in Offer : i > start' => i \in Read
                        /\ \A j \in Read : j > start'
                        /\ taken' >= FirstSize + (page' - 1) * PageSize
                        /\ taken' < Budget
    BY <1>1, <1>2 DEF Walking
  <2>2. Min(Ids) \in Read /\ Min(Ids) \in Nat
    BY <1>3, <1>4, <1>5, <2>1 DEF Read
  <2>3. ASSUME NEW i \in Offer, i > start' PROVE i \in Read
    BY <1>3, <1>4, <1>5, <2>1, <2>2, <2>3
  <2>4. ASSUME NEW j \in Read PROVE j > start'
    <3>1. CASE j \in Ids
      BY <1>3, <1>4, <1>5, <2>1, <2>2, <3>1
    <3>2. CASE j \in collected
      <4>1. page > 0 /\ j > start
        BY <1>1, <1>2, <3>2 DEF Inv, Walking
      <4>. QED
        BY <1>2, <1>3, <1>4, <1>5, <2>1, <2>4, <4>1
    <3>. QED
      BY <2>4, <3>1, <3>2 DEF Read
  <2>5. taken' >= FirstSize + (page' - 1) * PageSize
    <3>1. CASE page = 0
      <4>1. Cardinality(Objects) = FirstSize /\ page' - 1 = 0 /\ taken = 0
        BY <1>1, <1>5, <2>1, <3>1 DEF CurrentSize, Inv, Walking
      <4>2. 0 * PageSize = 0
        OBVIOUS
      <4>. QED
        BY <1>1, <4>1, <4>2
    <3>2. CASE page > 0
      <4>1. Cardinality(Objects) = PageSize /\ taken >= FirstSize + (page - 1) * PageSize
        BY <1>1, <1>5, <2>1, <3>2 DEF CurrentSize, Inv, Walking
      <4>2. (page - 1) * PageSize + PageSize = page * PageSize
        BY <1>2
      <4>3. (page - 1) * PageSize \in Int /\ page * PageSize \in Int /\ page' - 1 = page
        BY <1>1, <1>2
      <4>. QED
        BY <1>1, <1>2, <4>1, <4>2, <4>3
    <3>. QED
      BY <1>2, <3>1, <3>2
  <2>. QED
    BY <1>5, <2>1, <2>3, <2>4, <2>5
<1>. QED
  BY <1>6, <1>7, <1>8 DEF Inv

\* The hub's steps, a new walk and a failed page keep the invariant too.
LEMMA OtherStepsKeepInv ==
  ASSUME Inv, \/ HubAppend \/ HubEvict \/ PageFails
              \/ \E l \in 0..newest \union {NoValue} : Begin(l)
              \/ UNCHANGED vars
  PROVE  Inv'
<1> USE DEF Inv
<1>0. /\ newest \in Nat /\ newest =< MaxId /\ log \subseteq 1..newest
      /\ collected \subseteq Numbered(1..newest) /\ offered \subseteq Numbered(1..newest)
  BY DEF TypeOK
<1>1. CASE HubAppend
  <2>1. /\ newest' = newest + 1 /\ newest' \in 0..MaxId
        /\ log' = log \union {newest'} /\ kind' = kind
        /\ UNCHANGED walk
    BY <1>0, <1>1 DEF HubAppend
  <2>2. 1..newest \subseteq 1..newest' /\ newest' \in 1..newest'
    BY <1>0, <2>1
  <2>3. Numbered(1..newest) \subseteq Numbered(1..newest)'
    BY <2>1, <2>2 DEF Numbered
  <2>4. log' \subseteq 1..newest'
    BY <1>0, <2>1, <2>2
  <2>5. TypeOK'
    BY <2>1, <2>3, <2>4 DEF TypeOK
  <2>6. Kept'
    <3>1. \A i \in offered : i < newest'
      BY <1>0, <2>1 DEF Numbered
    <3>. QED
      BY <2>1, <3>1 DEF Kept
  <2>7. Walking'
    BY <2>1 DEF Walking
  <2>. QED
    BY <2>5, <2>6, <2>7
<1>2. CASE HubEvict
  <2>1. log # {} /\ log' = log \ {Min(log)} /\ UNCHANGED <<newest, kind, walk>>
    BY <1>2 DEF HubEvict
  <2>2. Min(log) \in log /\ \A k \in log : Min(log) =< k
    <3>1. log \subseteq Nat
      BY <1>0
    <3>. QED
      BY <2>1, <3>1, MinExists
  <2>3. TypeOK'
    BY <2>1 DEF TypeOK, Numbered
  <2>4. Kept'
    <3>1. \A i \in log : i \in Nat
      BY <1>0
    <3>2. \A k \in log' : Min(log) < k
      BY <2>1, <2>2, <3>1
    <3>. QED
      BY <2>1, <3>2 DEF Kept
  <2>5. Walking'
    BY <2>1 DEF Walking
  <2>. QED
    BY <2>3, <2>4, <2>5
<1>3. CASE PageFails
  BY <1>3 DEF PageFails, TypeOK, Kept, Walking, Numbered
<1>4. ASSUME NEW l \in 0..newest \union {NoValue}, Begin(l) PROVE Inv'
  <2>1. TypeOK'
    BY <1>0, <1>4 DEF Begin, TypeOK, Numbered
  <2>2. Kept' /\ Walking'
    BY <1>4, SizesAssumption DEF Begin, Kept, Walking
  <2>. QED
    BY <2>1, <2>2
<1>5. CASE UNCHANGED vars
  BY <1>5 DEF vars, TypeOK, Kept, Walking, Numbered
<1>. QED
  BY <1>1, <1>2, <1>3, <1>4, <1>5

LEMMA InitInv == Init => Inv
  BY DEF Init, Inv, TypeOK, Kept, Walking, Numbered

LEMMA NextInv == Inv /\ [Next]_vars => Inv'
  BY PageKeepsInv, OtherStepsKeepInv DEF Next

THEOREM InvHolds == Spec => []Inv
  BY InitInv, NextInv, PTL DEF Spec

-----------------------------------------------------------------------------
(***************************************************************************)
(* What the walk promises.                                                 *)
(***************************************************************************)
\* Fetch's type invariant, in particular that a walk past its first page names a
\* positive position to go on from.
THEOREM TypeCorrect == Spec => []TypeOK
<1>1. Inv => TypeOK
  BY DEF Inv
<1>. QED
  BY <1>1, InvHolds, PTL

\* No record is read on two pages of one walk, for any sizes and any writing.
THEOREM PagesAreDisjoint == Spec => []NoRecordReadTwice
<1>1. Init => NoRecordReadTwice
  BY DEF Init, NoRecordReadTwice
<1>2. Inv /\ NoRecordReadTwice /\ [Next]_vars => NoRecordReadTwice'
  <2> SUFFICES ASSUME Inv, NoRecordReadTwice, [Next]_vars PROVE NoRecordReadTwice'
    OBVIOUS
  <2>1. CASE FetchPage
    <3>1. /\ result = "walking"
          /\ repeated' = repeated \union (collected \intersect Ids)
      BY <2>1, PageTaken
    <3>2. Ids \intersect collected = {}
      BY <3>1, PageFacts
    <3>. QED
      BY <3>1, <3>2 DEF NoRecordReadTwice
  <2>2. CASE ~FetchPage
    BY <2>2 DEF Next, NoRecordReadTwice, vars, HubAppend, HubEvict, PageFails, Begin
  <2>. QED
    BY <2>1, <2>2
<1>. QED
  BY <1>1, <1>2, InvHolds, PTL DEF Spec

\* A walk that reports its cursor as reached has every newer record the hub had
\* when the walk began; another one lacks only records older than all it has.
THEOREM NothingIsSkipped == Spec => []NothingSkipped
<1>1. Init => NothingSkipped
  BY DEF Init, NothingSkipped
<1>2. Inv /\ NothingSkipped /\ [Next]_vars => NothingSkipped'
  <2> SUFFICES ASSUME Inv, NothingSkipped, [Next]_vars PROVE NothingSkipped'
    OBVIOUS
  <2>1. CASE FetchPage
    <3>1. /\ result = "walking" /\ collected' = Read /\ offered' = Offer
          /\ result' = Outcome(Objects, Ids) /\ latest' = latest
      BY <2>1, PageTaken
    <3>2. /\ \A i \in Offer \ Read, j \in Read : i < j
          /\ Offer \subseteq Numbered(1..newest) /\ Read \subseteq Numbered(1..newest)
      BY <3>1, PageFacts
    <3>3. ASSUME result' = "reached", NEW i \in Offer, i > latest PROVE i \in Read
      <4>1. latest # NoValue /\ \E j \in Ids : j =< latest
        BY <3>1, <3>3 DEF Outcome
      <4>2. PICK j \in Ids : j =< latest
        BY <4>1
      <4>3. latest \in Nat /\ i \in Nat /\ j \in Nat /\ j \in Read
        BY <3>2, <4>1 DEF Inv, TypeOK, Numbered, Read
      <4>. QED
        BY <3>2, <3>3, <4>2, <4>3
    <3>. QED
      BY <3>1, <3>2, <3>3 DEF NothingSkipped, Wanted
  <2>2. CASE ~FetchPage
    BY <2>2 DEF Next, NothingSkipped, Wanted, vars, HubAppend, HubEvict, PageFails, Begin
  <2>. QED
    BY <2>1, <2>2
<1>. QED
  BY <1>1, <1>2, InvHolds, PTL DEF Spec

\* What a walk costs: less than a page above its budget, at most one page above
\* max_pages, and nothing is cut off before the budget is used up.
THEOREM WalksAreBounded == Spec => []Bounded
<1>0. Budget \in Nat /\ Budget > 0
  <2>1. \A m, n \in Nat : m > 0 /\ n > 0 => m * n \in Nat /\ m * n > 0
    OBVIOUS
  <2>. QED
    BY <2>1 DEF Budget
<1>1. Init => Bounded
  BY <1>0 DEF Init, Bounded
<1>2. Inv /\ Bounded /\ [Next]_vars => Bounded'
  <2> SUFFICES ASSUME Inv, Bounded, [Next]_vars PROVE Bounded'
    OBVIOUS
  <2>1. CASE FetchPage
    <3>1. /\ result = "walking" /\ page' = page + 1
          /\ taken' = taken + Cardinality(Objects)
      BY <2>1, PageTaken
    <3>2. /\ Cardinality(Objects) \in Nat /\ Cardinality(Objects) =< PageSize
          /\ page \in Nat /\ taken \in Nat /\ taken < Budget
      <4>1. /\ CurrentSize \in Nat /\ CurrentSize =< PageSize
            /\ Cardinality(Objects) \in Nat /\ Cardinality(Objects) =< CurrentSize
        BY <3>1, PageFacts
      <4>. QED
        BY <1>0, <3>1, <4>1 DEF Inv, TypeOK, Walking
    <3>3. page =< MaxPages
      <4>1. CASE page > 0
        <5>1. taken >= FirstSize + (page - 1) * PageSize
          BY <3>1, <4>1 DEF Inv, Walking
        <5>2. (page - 1) * PageSize \in Int /\ (page - 1) * PageSize < PageSize * MaxPages
          BY <1>0, <3>2, <5>1 DEF Budget
        <5>3. \A a, b, c \in Nat : a * c < c * b => a < b
          OBVIOUS
        <5>. QED
          BY <3>2, <4>1, <5>2, <5>3
      <4>. QED
        BY <3>2, <4>1
    <3>4. result' = "truncated" => taken' >= Budget
      BY <1>0, <2>1, <3>1, <3>2, GoesOn
    <3>. QED
      BY <1>0, <3>1, <3>2, <3>3, <3>4 DEF Bounded
  <2>2. CASE ~FetchPage
    BY <1>0, <2>2 DEF Next, Bounded, vars, HubAppend, HubEvict, PageFails, Begin
  <2>. QED
    BY <2>1, <2>2
<1>. QED
  BY <1>1, <1>2, InvHolds, PTL DEF Spec

\* A walk that reports a gap has read every record after the cursor that the hub
\* still keeps, if the hub serves nothing but records.
THEOREM GapsAreReal == Spec => []GapMeansGone
<1>1. Init => GapMeansGone
  BY DEF Init, GapMeansGone
<1>2. Inv /\ GapMeansGone /\ [Next]_vars => GapMeansGone'
  <2> SUFFICES ASSUME Inv, GapMeansGone, [Next]_vars PROVE GapMeansGone'
    OBVIOUS
  <2>0. newest \in Nat /\ log \subseteq 1..newest /\ offered \subseteq Numbered(1..newest)
    BY DEF Inv, TypeOK
  <2>1. CASE FetchPage
    <3> SUFFICES ASSUME result' = "gap", Numbered(1..newest) = 1..newest,
                        NEW i \in Offer, i \in log, i \notin Read
                 PROVE  FALSE
      BY <2>1, PageTaken DEF GapMeansGone, Wanted, Numbered
    <3>1. /\ result = "walking" /\ result' = Outcome(Objects, Ids)
      BY <2>1, PageTaken
    <3>2. /\ Reply \subseteq Below(start) /\ CurrentSize \in Nat \ {0}
          /\ Cardinality(Reply) < CurrentSize => Reply = Below(start)
          /\ \A k \in Offer \ Read : start # 0 => k =< start
          /\ \A k \in Offer \ Read, j \in Read : k < j
      BY <3>1, PageFacts
    <3>3. Reply \subseteq 1..newest
      BY <2>0, <3>2 DEF Below
    <3>4. Objects = Reply /\ Ids = Reply
      BY <3>3 DEF Numbered, Objects, Ids
    <3>5. i \in Below(start) /\ i \notin Reply
      BY <3>2, <3>4 DEF Below, Read
    <3>6. ~ShortPage(Objects)
      BY <3>2, <3>4, <3>5 DEF ShortPage
    <3>7. Ids # {}
      <4>1. Cardinality({}) = 0
        BY FS_EmptySet
      <4>. QED
        BY <3>2, <3>4, <3>6, <4>1 DEF ShortPage
    <3>8. Min(Ids) \in Ids
      <4>1. Ids \subseteq Nat
        BY <2>0, <3>3, <3>4
      <4>. QED
        BY <3>7, <4>1, MinExists
    <3>9. i < Min(Ids) /\ i \in Nat \ {0} /\ Min(Ids) \in Nat /\ start \in Nat
      <4>1. i \in Offer \ Read /\ Min(Ids) \in Read
        BY <3>8 DEF Read
      <4>2. i \in 1..newest /\ Min(Ids) \in 1..newest
        BY <2>0, <3>3, <3>4, <3>8
      <4>. QED
        BY <2>0, <3>2, <4>1, <4>2 DEF Inv, TypeOK
    <3>10. Exhausted(Objects, Ids)
      BY <3>1 DEF Outcome
    <3>11. start > 0 => Min(Ids) =< start
      BY <3>2, <3>4, <3>8, <3>9 DEF Below
    <3>. QED
      BY <3>6, <3>7, <3>9, <3>10, <3>11 DEF Exhausted, NextStart
  <2>2. CASE HubAppend
    <3>1. /\ newest' = newest + 1 /\ log' = log \union {newest'}
          /\ kind' = kind /\ UNCHANGED walk
      BY <2>2 DEF HubAppend
    <3>2. newest' \notin offered
      BY <2>0, <3>1 DEF Numbered
    <3>3. Numbered(1..newest)' = 1..newest' => Numbered(1..newest) = 1..newest
      <4>1. 1..newest \subseteq 1..newest'
        BY <2>0, <3>1
      <4>. QED
        BY <3>1, <4>1 DEF Numbered
    <3>. QED
      BY <3>1, <3>2, <3>3 DEF GapMeansGone, Wanted
  <2>3. CASE HubEvict
    BY <2>3 DEF HubEvict, GapMeansGone, Wanted, Numbered
  <2>4. CASE PageFails
    BY <2>4 DEF PageFails, GapMeansGone
  <2>5. ASSUME NEW l \in 0..newest \union {NoValue}, Begin(l) PROVE GapMeansGone'
    BY <2>5 DEF Begin, GapMeansGone
  <2>6. CASE UNCHANGED vars
    BY <2>6 DEF vars, GapMeansGone, Wanted, Numbered
  <2>. QED
    BY <2>1, <2>2, <2>3, <2>4, <2>5, <2>6 DEF Next
<1>. QED
  BY <1>1, <1>2, InvHolds, PTL DEF Spec

=============================================================================
