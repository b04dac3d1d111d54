-------------------------- MODULE ProcessorProofs --------------------------
(***************************************************************************)
(* Proofs about Processor, for any step, limits and batches: any records   *)
(* in any order, malformed ones included.                                  *)
(***************************************************************************)
EXTENDS OrderProofs

USE LimitsAssumption DEF Identified

Cursors == {c \in [latest : Nat \union {NoValue}, recent : Seq(Nat)] :
              Len(c.recent) =< RecentLimit /\ IsInjective(c.recent)}

-----------------------------------------------------------------------------
(***************************************************************************)
(* What a record stands for.                                               *)
(***************************************************************************)
LEMMA RecordFields ==
  ASSUME NEW records \in Seq(RawRecord), NEW i \in DOMAIN records
  PROVE  /\ records[i] \in RawRecord
         /\ records[i].id \in Int \union {NoValue} /\ records[i].eid \in Nat \union {NoValue}
         /\ records[i].deg \in Int \union {NoValue}
<1>1. records[i] \in RawRecord
  OBVIOUS
<1>. QED
  BY <1>1 DEF RawRecord

LEMMA StepsType ==
  ASSUME NEW r \in RawRecord, Understood(r)
  PROVE  Steps(r) \in Nat /\ r.id \in Nat /\ r.eid \in Nat
<1>1. r.id \in Nat /\ r.eid \in Nat
  BY DEF Understood, Wellformed, RawRecord
<1>2. CASE r.event = "rotation"
  <2>1. r.deg \in Int /\ Magnitude(r.deg) \in Nat
    BY <1>2 DEF Understood, Wellformed, Rotatable, Magnitude, RawRecord
  <2>2. StepDegrees \in Nat /\ StepDegrees > 0
    OBVIOUS
  <2>3. Magnitude(r.deg) \div StepDegrees \in Nat
    BY <2>1, <2>2
  <2>. QED
    BY <1>1, <1>2, <2>3 DEF Steps
<1>3. CASE r.event # "rotation"
  BY <1>1, <1>3 DEF Steps
<1>. QED
  BY <1>2, <1>3

\* A record that is understood gives one emission for each of its steps.
EmissionType(r) ==
  IF r.event = "rotation" THEN IF r.deg > 0 THEN "rotate_right" ELSE "rotate_left"
  ELSE Clicks[r.event]

LEMMA ParseUnderstood ==
  ASSUME NEW r \in RawRecord, Understood(r)
  PROVE  ParseRecord(r) = [k \in 1..Steps(r) |-> Emission(r, EmissionType(r), k)]
<1>1. CASE r.event = "rotation"
  <2>1. ParseRecord(r) = RotationEmissions(r)
    BY <1>1 DEF ParseRecord
  <2>2. Steps(r) = Magnitude(r.deg) \div StepDegrees
    BY <1>1 DEF Steps
  <2>3. EmissionType(r) = IF r.deg > 0 THEN "rotate_right" ELSE "rotate_left"
    BY <1>1 DEF EmissionType
  <2>. QED
    BY <2>1, <2>2, <2>3 DEF RotationEmissions
<1>2. CASE r.event # "rotation"
  <2>1. ParseRecord(r) = <<Emission(r, EmissionType(r), 1)>>
    BY <1>2 DEF ParseRecord, EmissionType
  <2>2. 1..Steps(r) = {1}
    BY <1>2 DEF Steps
  <2>. QED
    BY <2>1, <2>2
<1>. QED
  BY <1>1, <1>2

LEMMA ParseOthers ==
  ASSUME NEW r, ~Understood(r)
  PROVE  ParseRecord(r) = << >> /\ DOMAIN ParseRecord(r) = {}
<1>1. ParseRecord(r) = << >>
  BY DEF ParseRecord
<1>. QED
  BY <1>1

LEMMA ParseFinite ==
  ASSUME NEW r \in RawRecord
  PROVE  IsFiniteSet(DOMAIN ParseRecord(r)) /\ DOMAIN ParseRecord(r) \subseteq Nat \ {0}
<1>1. CASE Understood(r)
  <2>1. Steps(r) \in Nat /\ DOMAIN ParseRecord(r) = 1..Steps(r)
    BY <1>1, StepsType, ParseUnderstood
  <2>2. IsFiniteSet(1..Steps(r))
    BY <2>1, FS_Interval
  <2>. QED
    BY <2>1, <2>2
<1>2. CASE ~Understood(r)
  BY <1>2, ParseOthers, FS_EmptySet
<1>. QED
  BY <1>1, <1>2

-----------------------------------------------------------------------------
(***************************************************************************)
(* The event IDs a poll observes.                                          *)
(***************************************************************************)
ObservedAt(records, latest) ==
  {i \in IdentifiedAt(records) : Fresh(records[i], latest) /\ records[i].eid # NoValue}

IdentityKey(records, at) == [i \in at |-> Identity(records, i)]

LEMMA IdentityKeyed ==
  ASSUME NEW records \in Seq(RawRecord), NEW at \in SUBSET IdentifiedAt(records),
         \A i \in at : records[i].eid # NoValue
  PROVE  Keyed(IdentityKey(records, at)) /\ DOMAIN IdentityKey(records, at) = at
<1>1. at \in SUBSET DOMAIN records
  BY DEF IdentifiedAt
<1>2. IsFiniteSet(at)
  BY <1>1, PositionsFinite
<1>3. ASSUME NEW i \in at PROVE Identity(records, i) \in Keys
  <2>1. records[i].id \in Int /\ records[i].eid \in Int /\ i \in Int
    BY <1>1, RecordFields DEF IdentifiedAt
  <2>. QED
    BY <2>1 DEF Identity, Keys
<1>4. \A i, j \in at : Identity(records, i) = Identity(records, j) => i = j
  BY DEF Identity
<1>. QED
  BY <1>2, <1>3, <1>4 DEF Keyed, IdentityKey

LEMMA ObservedMembers ==
  ASSUME NEW records \in Seq(RawRecord), NEW latest \in Nat \union {NoValue}
  PROVE  /\ ObservedIds(records, latest) \in Seq(Nat)
         /\ ToSet(ObservedIds(records, latest))
              = {records[i].eid : i \in ObservedAt(records, latest)}
<1> DEFINE at == ObservedAt(records, latest)
           key == IdentityKey(records, at)
           N == Cardinality(at)
<1>1. at \in SUBSET IdentifiedAt(records) /\ at \subseteq DOMAIN records
  BY DEF ObservedAt, IdentifiedAt
<1>2. \A i \in at : records[i].eid # NoValue /\ records[i].eid \in Nat
  BY <1>1, RecordFields DEF ObservedAt
<1>3. ObservedIds(records, latest)
        = [n \in DOMAIN InOrder(key) |-> records[InOrder(key)[n]].eid]
  BY DEF ObservedIds, ObservedAt, IdentityKey
<1> HIDE DEF at
<1>4. Keyed(key) /\ DOMAIN key = at
  BY <1>1, <1>2, IdentityKeyed
<1> HIDE DEF key
<1>5. /\ N \in Nat /\ InOrder(key) \in [1..N -> at]
      /\ \A i \in at : \E n \in 1..N : InOrder(key)[n] = i
  BY <1>4, InOrderRanks, InOrderSorts
<1> HIDE DEF N
<1>6. ObservedIds(records, latest) = [n \in 1..N |-> records[InOrder(key)[n]].eid]
  BY <1>3, <1>5
<1>7. ObservedIds(records, latest) \in Seq(Nat)
  <2>1. \A n \in 1..N : records[InOrder(key)[n]].eid \in Nat
    BY <1>2, <1>5
  <2>. QED
    BY <1>5, <1>6, <2>1
<1>8. ToSet(ObservedIds(records, latest)) = {records[i].eid : i \in at}
  BY <1>5, <1>6 DEF ToSet
<1>. QED
  BY <1>7, <1>8 DEF at

-----------------------------------------------------------------------------
(***************************************************************************)
(* The cursor a batch leaves.                                              *)
(***************************************************************************)
LEMMA ImageFinite ==
  ASSUME NEW S, IsFiniteSet(S), NEW f, DOMAIN f = S
  PROVE  IsFiniteSet({f[x] : x \in S})
<1> DEFINE T == {f[x] : x \in S}
           g == [x \in S |-> f[x]]
<1>1. g \in [S -> T] /\ \A y \in T : \E x \in S : g[x] = y
  OBVIOUS
<1> HIDE DEF g, T
<1>2. g \in Surjection(S, T)
  BY <1>1, Fun_IsSurj
<1>3. IsFiniteSet(T)
  BY <1>2, FS_Surjection
<1>. QED
  BY <1>3 DEF T

LEMMA IdentifiedFinite ==
  ASSUME NEW records \in Seq(RawRecord)
  PROVE  /\ IdentifiedAt(records) \in SUBSET DOMAIN records
         /\ IdentifiedAt(records) \in SUBSET Int /\ IsFiniteSet(IdentifiedAt(records))
         /\ \A i \in IdentifiedAt(records) : records[i].id \in Int
         /\ IsFiniteSet({records[i].id : i \in IdentifiedAt(records)})
<1> DEFINE f == [i \in IdentifiedAt(records) |-> records[i].id]
<1>1. IdentifiedAt(records) \in SUBSET DOMAIN records
  BY DEF IdentifiedAt
<1>2. IdentifiedAt(records) \in SUBSET Int /\ IsFiniteSet(IdentifiedAt(records))
  BY <1>1, PositionsFinite
<1>3. IsFiniteSet({f[i] : i \in IdentifiedAt(records)})
  <2>1. DOMAIN f = IdentifiedAt(records)
    OBVIOUS
  <2> HIDE DEF f
  <2>. QED BY <1>2, <2>1, ImageFinite
<1>4. {f[i] : i \in IdentifiedAt(records)} = {records[i].id : i \in IdentifiedAt(records)}
  OBVIOUS
<1>5. IsFiniteSet({records[i].id : i \in IdentifiedAt(records)})
  <2> HIDE DEF f
  <2>. QED BY <1>3, <1>4
<1>6. \A i \in IdentifiedAt(records) : records[i].id \in Int
  BY DEF IdentifiedAt
<1>. QED
  BY <1>1, <1>2, <1>5, <1>6

Position(cur) == IF cur.latest = NoValue THEN 0 ELSE cur.latest

LEMMA NextPosition ==
  ASSUME NEW records \in Seq(RawRecord), NEW cur \in Cursors
  PROVE  /\ Position(cur) \in Nat /\ NextCursor(records, cur).latest \in Nat
         /\ Position(cur) =< NextCursor(records, cur).latest
         /\ \A i \in IdentifiedAt(records) : records[i].id =< NextCursor(records, cur).latest
         /\ \/ NextCursor(records, cur).latest = Position(cur)
            \/ \E i \in IdentifiedAt(records) : NextCursor(records, cur).latest = records[i].id
<1> DEFINE ids == {records[i].id : i \in IdentifiedAt(records)}
           at == {Position(cur)} \union ids
<1>1. Position(cur) \in Nat
  BY DEF Position, Cursors
<1>2. IsFiniteSet(ids) /\ ids \subseteq Int
  BY IdentifiedFinite
<1>3. IsFiniteSet(at)
  <2> HIDE DEF ids
  <2>1. IsFiniteSet({Position(cur)})
    BY FS_Singleton
  <2>. QED
    BY <1>2, <2>1, FS_Union
<1>4. at \in SUBSET Int /\ at # {}
  BY <1>1, <1>2
<1>5. Max(at) \in at /\ \A i \in at : i =< Max(at)
  <2> HIDE DEF at
  <2>. QED BY <1>3, <1>4, MaxIsLargest
<1>6. NextCursor(records, cur).latest = Max(at)
  BY DEF NextCursor, Position
<1> HIDE DEF at
<1>7. Max(at) \in Int /\ Position(cur) =< Max(at)
  BY <1>1, <1>4, <1>5 DEF at
<1>8. \A i \in IdentifiedAt(records) : records[i].id =< Max(at)
  BY <1>5 DEF at
<1>9. Max(at) = Position(cur) \/ \E i \in IdentifiedAt(records) : Max(at) = records[i].id
  BY <1>5 DEF at
<1>. QED
  BY <1>1, <1>6, <1>7, <1>8, <1>9

LEMMA NextCursorType ==
  ASSUME NEW records \in Seq(RawRecord), NEW cur \in Cursors
  PROVE  NextCursor(records, cur) \in Cursors
<1> DEFINE observed == ObservedIds(records, cur.latest)
           merged == MergeRecent(cur.recent, observed, RecentLimit)
<1>1. cur.latest \in Nat \union {NoValue} /\ cur.recent \in Seq(Nat)
  BY DEF Cursors
<1>2. observed \in Seq(Nat)
  BY <1>1, ObservedMembers
<1>3. merged \in Seq(Nat) /\ Len(merged) =< RecentLimit /\ IsInjective(merged)
  <2> HIDE DEF observed
  <2>1. RecentLimit \in Nat
    OBVIOUS
  <2>. QED BY <1>1, <1>2, <2>1, MergeRecentBounded
<1> HIDE DEF observed
<1>4. NextCursor(records, cur) = [latest |-> NextCursor(records, cur).latest, recent |-> merged]
  BY DEF NextCursor, observed
<1>5. NextCursor(records, cur).latest \in Nat
  BY NextPosition
<1>. QED
  <2> HIDE DEF merged
  <2>. QED BY <1>3, <1>4, <1>5 DEF Cursors

LEMMA PlanCursor ==
  ASSUME NEW records, NEW cur
  PROVE  PlanBatch(records, cur).cursor
           = IF IdentifiedAt(records) = {} THEN cur ELSE NextCursor(records, cur)
  BY DEF PlanBatch, NothingPlanned

LEMMA PlanCursorType ==
  ASSUME NEW records \in Seq(RawRecord), NEW cur \in Cursors
  PROVE  PlanBatch(records, cur).cursor \in Cursors
  BY PlanCursor, NextCursorType

LEMMA SameCursor ==
  ASSUME NEW a \in Cursors, NEW b \in Cursors, a.latest = b.latest, a.recent = b.recent
  PROVE  a = b
<1>1. \A c \in Cursors : c = [latest |-> c.latest, recent |-> c.recent]
  BY DEF Cursors
<1>. QED
  BY <1>1

LEMMA TypeIsCursor == TypeOK => cursor \in Cursors
  BY DEF TypeOK, Cursors

-----------------------------------------------------------------------------
(***************************************************************************)
(* The emissions of the records at some positions.                         *)
(***************************************************************************)
SlotsOf(records, at) == UNION {{i} \X DOMAIN ParseRecord(records[i]) : i \in at}
SlotKey(records, at) == [s \in SlotsOf(records, at) |-> Slot(records, s[1], s[2])]

LEMMA SlotMembers ==
  ASSUME NEW records, NEW at
  PROVE  /\ \A s \in SlotsOf(records, at) : /\ s = <<s[1], s[2]>> /\ s[1] \in at
                                            /\ s[2] \in DOMAIN ParseRecord(records[s[1]])
         /\ \A i \in at : \A k \in DOMAIN ParseRecord(records[i]) :
              <<i, k>> \in SlotsOf(records, at)
<1>1. ASSUME NEW s \in SlotsOf(records, at)
      PROVE  /\ s = <<s[1], s[2]>> /\ s[1] \in at
             /\ s[2] \in DOMAIN ParseRecord(records[s[1]])
  <2>1. PICK i \in at : s \in {i} \X DOMAIN ParseRecord(records[i])
    BY DEF SlotsOf
  <2>. QED
    BY <2>1
<1>2. ASSUME NEW i \in at, NEW k \in DOMAIN ParseRecord(records[i])
      PROVE  <<i, k>> \in SlotsOf(records, at)
  <2>1. <<i, k>> \in {i} \X DOMAIN ParseRecord(records[i])
    OBVIOUS
  <2>. QED
    BY <2>1 DEF SlotsOf
<1>. QED
  BY <1>1, <1>2

LEMMA SlotsFinite ==
  ASSUME NEW records \in Seq(RawRecord), NEW at \in SUBSET DOMAIN records
  PROVE  IsFiniteSet(SlotsOf(records, at))
<1> DEFINE f == [i \in at |-> {i} \X DOMAIN ParseRecord(records[i])]
<1>1. IsFiniteSet(at)
  BY PositionsFinite
<1>2. ASSUME NEW i \in at PROVE IsFiniteSet(f[i])
  <2>1. IsFiniteSet({i}) /\ IsFiniteSet(DOMAIN ParseRecord(records[i]))
    BY RecordFields, ParseFinite, FS_Singleton
  <2>2. IsFiniteSet({i} \X DOMAIN ParseRecord(records[i]))
    BY <2>1, FS_Product
  <2>. QED
    BY <2>2
<1>3. SlotsOf(records, at) = UNION {f[i] : i \in at} /\ DOMAIN f = at
  BY DEF SlotsOf
<1> HIDE DEF f
<1>4. IsFiniteSet({f[i] : i \in at})
  BY <1>1, <1>3, ImageFinite
<1>5. IsFiniteSet(UNION {f[i] : i \in at})
  BY <1>2, <1>4, FS_UNION
<1>. QED
  BY <1>3, <1>5

LEMMA SlotsKeyed ==
  ASSUME NEW records \in Seq(RawRecord), NEW at \in SUBSET IdentifiedAt(records)
  PROVE  /\ Keyed(SlotKey(records, at)) /\ DOMAIN SlotKey(records, at) = SlotsOf(records, at)
         /\ \A s \in SlotsOf(records, at) :
              s[1] \in Int /\ s[2] \in Nat \ {0} /\ records[s[1]].id \in Int
<1>1. at \in SUBSET DOMAIN records /\ \A i \in at : i \in Int /\ records[i].id \in Int
  BY IdentifiedFinite
<1>2. ASSUME NEW s \in SlotsOf(records, at)
      PROVE  s[1] \in Int /\ s[2] \in Nat \ {0} /\ records[s[1]].id \in Int
  <2>1. s[1] \in at /\ s[2] \in DOMAIN ParseRecord(records[s[1]])
    BY SlotMembers
  <2>2. records[s[1]] \in RawRecord
    BY <1>1, <2>1, RecordFields
  <2>3. DOMAIN ParseRecord(records[s[1]]) \subseteq Nat \ {0}
    BY <2>2, ParseFinite
  <2>. QED
    BY <1>1, <2>1, <2>3
<1>3. \A s \in SlotsOf(records, at) : Slot(records, s[1], s[2]) \in Keys
  BY <1>2 DEF Slot, Keys
<1>4. ASSUME NEW s \in SlotsOf(records, at), NEW t \in SlotsOf(records, at),
             Slot(records, s[1], s[2]) = Slot(records, t[1], t[2])
      PROVE  s = t
  <2>1. s[1] = t[1] /\ s[2] = t[2]
    BY <1>4 DEF Slot
  <2>. QED
    BY <2>1, SlotMembers
<1>. QED
  BY <1>1, <1>2, <1>3, <1>4, SlotsFinite DEF Keyed, SlotKey

Order(records, at) == InOrder(SlotKey(records, at))

LEMMA EmissionsBySlot ==
  ASSUME NEW records \in Seq(RawRecord), NEW at \in SUBSET IdentifiedAt(records)
  PROVE  /\ Cardinality(SlotsOf(records, at)) \in Nat
         /\ Len(Emissions(records, at)) = Cardinality(SlotsOf(records, at))
         /\ DOMAIN Emissions(records, at) = 1..Cardinality(SlotsOf(records, at))
         /\ Order(records, at) \in [1..Cardinality(SlotsOf(records, at)) -> SlotsOf(records, at)]
         /\ Emissions(records, at)
              = [n \in 1..Cardinality(SlotsOf(records, at)) |->
                   ParseRecord(records[Order(records, at)[n][1]])[Order(records, at)[n][2]]]
<1> DEFINE N == Cardinality(SlotsOf(records, at))
<1>1. Keyed(SlotKey(records, at)) /\ DOMAIN SlotKey(records, at) = SlotsOf(records, at)
  BY SlotsKeyed
<1>2. N \in Nat /\ Order(records, at) \in [1..N -> SlotsOf(records, at)]
  BY <1>1, InOrderRanks DEF Order
<1>3. Emissions(records, at)
        = [n \in DOMAIN Order(records, at) |->
             ParseRecord(records[Order(records, at)[n][1]])[Order(records, at)[n][2]]]
  BY DEF Emissions, Order, SlotKey, SlotsOf
<1> HIDE DEF N
<1>4. /\ Emissions(records, at)
           = [n \in 1..N |->
                ParseRecord(records[Order(records, at)[n][1]])[Order(records, at)[n][2]]]
      /\ DOMAIN Emissions(records, at) = 1..N
  BY <1>2, <1>3
<1>5. Len(Emissions(records, at)) = N
  BY <1>2, <1>4
<1>. QED
  BY <1>2, <1>4, <1>5 DEF N

LEMMA EmissionsAreSequence ==
  ASSUME NEW records \in Seq(RawRecord), NEW at \in SUBSET IdentifiedAt(records), NEW S,
         \A n \in DOMAIN Emissions(records, at) : Emissions(records, at)[n] \in S
  PROVE  Emissions(records, at) \in Seq(S)
<1> DEFINE N == Cardinality(SlotsOf(records, at))
           out == Emissions(records, at)
<1>1. /\ N \in Nat /\ DOMAIN out = 1..N
      /\ out = [n \in 1..N |->
                  ParseRecord(records[Order(records, at)[n][1]])[Order(records, at)[n][2]]]
  BY EmissionsBySlot
<1>2. \A n \in DOMAIN out : out[n] \in S
  OBVIOUS
<1> HIDE DEF N, out
<1>3. out = [n \in 1..N |-> out[n]]
  BY <1>1
<1>4. out \in [1..N -> S]
  BY <1>1, <1>2, <1>3
<1>. QED
  BY <1>1, <1>4 DEF out

LEMMA EmissionAt ==
  ASSUME NEW records \in Seq(RawRecord), NEW at \in SUBSET IdentifiedAt(records),
         NEW n \in DOMAIN Emissions(records, at)
  PROVE  \E i \in at : \E k \in Nat \ {0} :
           /\ Order(records, at)[n] = <<i, k>>
           /\ Understood(records[i]) /\ k \in 1..Steps(records[i])
           /\ Emissions(records, at)[n] = Emission(records[i], EmissionType(records[i]), k)
<1> DEFINE s == Order(records, at)[n]
<1>1. s \in SlotsOf(records, at) /\ Emissions(records, at)[n] = ParseRecord(records[s[1]])[s[2]]
  BY EmissionsBySlot
<1> HIDE DEF s
<1>2. s = <<s[1], s[2]>> /\ s[1] \in at /\ s[2] \in DOMAIN ParseRecord(records[s[1]])
  BY <1>1, SlotMembers
<1>3. s[2] \in Nat \ {0}
  BY <1>1, SlotsKeyed
<1>4. records[s[1]] \in RawRecord
  BY <1>2, IdentifiedFinite, RecordFields
<1>5. Understood(records[s[1]])
  BY <1>2, ParseOthers
<1>6. /\ s[2] \in 1..Steps(records[s[1]])
      /\ Emissions(records, at)[n] = Emission(records[s[1]], EmissionType(records[s[1]]), s[2])
  BY <1>1, <1>2, <1>4, <1>5, ParseUnderstood
<1>. QED
  BY <1>2, <1>3, <1>5, <1>6 DEF s

-----------------------------------------------------------------------------
(***************************************************************************)
(* What is published, and in which order.                                  *)
(***************************************************************************)
LEMMA CandidatesIdentified ==
  ASSUME NEW records, NEW cur
  PROVE  CandidatesAt(records, cur) \in SUBSET IdentifiedAt(records)
  BY DEF CandidatesAt

LEMMA PlanPublishes ==
  ASSUME NEW records, NEW cur, PlanBatch(records, cur).emissions # << >>
  PROVE  /\ IdentifiedAt(records) # {} /\ cur.latest # NoValue
         /\ PlanBatch(records, cur).emissions = Emissions(records, CandidatesAt(records, cur))
  BY DEF PlanBatch, NothingPlanned

LEMMA PublishedAt ==
  ASSUME NEW records \in Seq(RawRecord), NEW cur \in Cursors,
         NEW n \in DOMAIN PlanBatch(records, cur).emissions
  PROVE  /\ cur.latest \in Nat /\ IdentifiedAt(records) # {}
         /\ PlanBatch(records, cur).emissions = Emissions(records, CandidatesAt(records, cur))
         /\ \E i \in CandidatesAt(records, cur) : \E k \in Nat \ {0} :
              /\ Order(records, CandidatesAt(records, cur))[n] = <<i, k>>
              /\ Understood(records[i]) /\ k \in 1..Steps(records[i])
              /\ PlanBatch(records, cur).emissions[n]
                   = Emission(records[i], EmissionType(records[i]), k)
              /\ records[i].id > cur.latest /\ records[i].eid \notin ToSet(cur.recent)
<1>1. PlanBatch(records, cur).emissions # << >>
  OBVIOUS
<1>2. /\ IdentifiedAt(records) # {} /\ cur.latest # NoValue
      /\ PlanBatch(records, cur).emissions = Emissions(records, CandidatesAt(records, cur))
  BY <1>1, PlanPublishes
<1>3. cur.latest \in Nat
  BY <1>2 DEF Cursors
<1>4. PICK i \in CandidatesAt(records, cur), k \in Nat \ {0} :
        /\ Order(records, CandidatesAt(records, cur))[n] = <<i, k>>
        /\ Understood(records[i]) /\ k \in 1..Steps(records[i])
        /\ Emissions(records, CandidatesAt(records, cur))[n]
             = Emission(records[i], EmissionType(records[i]), k)
  BY <1>2, CandidatesIdentified, EmissionAt
<1>5. records[i].id \in Int /\ ~Duplicate(records[i], cur)
  BY DEF CandidatesAt, IdentifiedAt
<1>6. records[i].id > cur.latest /\ records[i].eid \notin ToSet(cur.recent)
  BY <1>3, <1>5 DEF Duplicate
<1>. QED
  BY <1>2, <1>3, <1>4, <1>6

LEMMA Neighbours ==
  ASSUME NEW records \in Seq(RawRecord), NEW at \in SUBSET IdentifiedAt(records),
         NEW n \in DOMAIN Emissions(records, at), n > 1
  PROVE  LET out == Emissions(records, at)
         IN  \/ out[n].step = 1 /\ out[n - 1].id =< out[n].id
             \/ out[n] = [out[n - 1] EXCEPT !.step = @ + 1]
<1> DEFINE out == Emissions(records, at)
           key == SlotKey(records, at)
           N == Cardinality(SlotsOf(records, at))
<1>1. /\ N \in Nat /\ DOMAIN out = 1..N /\ n \in 1..N /\ n - 1 \in 1..N
      /\ Keyed(key) /\ DOMAIN key = SlotsOf(records, at) /\ Order(records, at) = InOrder(key)
  BY EmissionsBySlot, SlotsKeyed DEF Order
<1>2. PICK i \in at, k \in Nat \ {0} :
        /\ Order(records, at)[n] = <<i, k>>
        /\ Understood(records[i]) /\ k \in 1..Steps(records[i])
        /\ out[n] = Emission(records[i], EmissionType(records[i]), k)
  BY <1>1, EmissionAt
<1>3. PICK j \in at, l \in Nat \ {0} :
        /\ Order(records, at)[n - 1] = <<j, l>>
        /\ Understood(records[j]) /\ l \in 1..Steps(records[j])
        /\ out[n - 1] = Emission(records[j], EmissionType(records[j]), l)
  BY <1>1, EmissionAt
<1>4. /\ i \in Int /\ j \in Int /\ records[i].id \in Int /\ records[j].id \in Int
      /\ records[i] \in RawRecord /\ records[j] \in RawRecord
  BY IdentifiedFinite, RecordFields
<1>5. /\ DOMAIN ParseRecord(records[i]) = 1..Steps(records[i]) /\ Steps(records[i]) \in Nat
      /\ DOMAIN ParseRecord(records[j]) = 1..Steps(records[j]) /\ Steps(records[j]) \in Nat
  BY <1>2, <1>3, <1>4, ParseUnderstood, StepsType
<1>6. ASSUME NEW a \in at, NEW b \in DOMAIN ParseRecord(records[a])
      PROVE  <<a, b>> \in DOMAIN key /\ key[<<a, b>>] = Slot(records, a, b)
  BY <1>1, <1>6, SlotMembers DEF SlotKey
<1>7. Precedes(Slot(records, j, l), Slot(records, i, k))
  <2>1. Precedes(key[InOrder(key)[n - 1]], key[InOrder(key)[n]])
    <3> HIDE DEF key
    <3>1. n - 1 < n /\ n - 1 \in 1..Cardinality(DOMAIN key) /\ n \in 1..Cardinality(DOMAIN key)
      BY <1>1
    <3>. QED BY <1>1, <3>1, InOrderSorts
  <2>. QED
    BY <2>1, <1>1, <1>2, <1>3, <1>5, <1>6
<1>8. ASSUME NEW b \in 1..Steps(records[i])
      PROVE  ~ /\ Precedes(Slot(records, j, l), Slot(records, i, b))
               /\ Precedes(Slot(records, i, b), Slot(records, i, k))
  <2>1. <<i, b>> \in DOMAIN key /\ key[<<i, b>>] = Slot(records, i, b)
    BY <1>5, <1>6
  <2>2. ~ /\ Precedes(key[InOrder(key)[n - 1]], key[<<i, b>>])
          /\ Precedes(key[<<i, b>>], key[InOrder(key)[n]])
    <3> HIDE DEF key
    <3>. QED BY <1>1, <2>1, InOrderNeighbours
  <2>. QED
    BY <2>1, <2>2, <1>1, <1>2, <1>3, <1>5, <1>6
<1>9. CASE i = j
  <2>1. l < k
    BY <1>2, <1>3, <1>4, <1>7, <1>9 DEF Precedes, Slot
  <2>2. l + 1 \in 1..Steps(records[i])
    BY <1>2, <1>5, <2>1
  <2>3. k = l + 1
    BY <1>2, <1>4, <1>8, <1>9, <2>1, <2>2 DEF Precedes, Slot
  <2>. QED
    BY <1>2, <1>3, <1>9, <2>3 DEF Emission
<1>10. CASE i # j
  <2>1. records[j].id =< records[i].id
    BY <1>4, <1>7 DEF Precedes, Slot
  <2>2. 1 \in 1..Steps(records[i])
    BY <1>2, <1>5
  <2>3. Precedes(Slot(records, j, l), Slot(records, i, 1))
    BY <1>4, <1>7, <1>10 DEF Precedes, Slot
  <2>4. k = 1
    BY <1>4, <1>8, <2>2, <2>3 DEF Precedes, Slot
  <2>. QED
    BY <1>2, <1>3, <2>1, <2>4 DEF Emission
<1>. QED
  BY <1>9, <1>10

\* OldestFirst, of any batch and cursor: what is published is newer than the
\* cursor and sorted, and the steps of a rotation stay together (candidates.sort).
LEMMA BatchOldestFirst ==
  ASSUME NEW records \in Seq(RawRecord), NEW cur \in Cursors,
         NEW n \in DOMAIN PlanBatch(records, cur).emissions
  PROVE  LET out == PlanBatch(records, cur).emissions
         IN  /\ out[n].id > cur.latest
             /\ n > 1 => \/ out[n].step = 1 /\ out[n - 1].id =< out[n].id
                         \/ out[n] = [out[n - 1] EXCEPT !.step = @ + 1]
<1> DEFINE out == PlanBatch(records, cur).emissions
<1>1. out = Emissions(records, CandidatesAt(records, cur)) /\ out[n].id > cur.latest
  <2>1. PICK i \in CandidatesAt(records, cur), k \in Nat \ {0} :
          /\ out[n] = Emission(records[i], EmissionType(records[i]), k)
          /\ records[i].id > cur.latest
    BY PublishedAt
  <2>2. out[n].id = records[i].id
    BY <2>1 DEF Emission
  <2>. QED
    BY <2>1, <2>2, PublishedAt
<1>2. ASSUME n > 1
      PROVE  \/ out[n].step = 1 /\ out[n - 1].id =< out[n].id
             \/ out[n] = [out[n - 1] EXCEPT !.step = @ + 1]
  BY <1>1, <1>2, CandidatesIdentified, Neighbours
<1>. QED
  BY <1>1, <1>2

\* An ID that is published is an ID that is observed, and not a remembered one.
LEMMA EmittedIsObserved ==
  ASSUME NEW records \in Seq(RawRecord), NEW cur \in Cursors,
         NEW e \in EmittedIds(PlanBatch(records, cur))
  PROVE  e \in Nat /\ e \in ToSet(ObservedIds(records, cur.latest)) /\ e \notin ToSet(cur.recent)
<1>1. PICK n \in DOMAIN PlanBatch(records, cur).emissions :
        e = PlanBatch(records, cur).emissions[n].eid
  BY DEF EmittedIds
<1>2. PICK i \in CandidatesAt(records, cur), k \in Nat \ {0} :
        /\ PlanBatch(records, cur).emissions[n] = Emission(records[i], EmissionType(records[i]), k)
        /\ Understood(records[i])
        /\ records[i].id > cur.latest /\ records[i].eid \notin ToSet(cur.recent)
  BY PublishedAt
<1>3. i \in IdentifiedAt(records) /\ records[i] \in RawRecord
  BY CandidatesIdentified, IdentifiedFinite, RecordFields
<1>4. e = records[i].eid /\ e \in Nat /\ e # NoValue
  BY <1>1, <1>2, <1>3, StepsType DEF Emission
<1>5. i \in ObservedAt(records, cur.latest)
  BY <1>2, <1>3, <1>4 DEF ObservedAt, Fresh
<1>6. ToSet(ObservedIds(records, cur.latest))
        = {records[j].eid : j \in ObservedAt(records, cur.latest)}
  <2>1. cur.latest \in Nat \union {NoValue}
    BY DEF Cursors
  <2>. QED
    BY <2>1, ObservedMembers
<1>7. e \in ToSet(ObservedIds(records, cur.latest))
  BY <1>4, <1>5, <1>6
<1>. QED
  BY <1>2, <1>4, <1>7

-----------------------------------------------------------------------------
(***************************************************************************)
(* The inductive invariant: types, and what is remembered of each ID that  *)
(* was published.                                                          *)
(***************************************************************************)
\* A published event ID is in the cache, followed there only by IDs observed
\* after it, or as many others have been observed as the cache holds.
Remembered ==
  \A e \in DOMAIN since :
    /\ IsFiniteSet(since[e])
    /\ \/ Cardinality(since[e]) >= RecentLimit
       \/ \E p \in DOMAIN cursor.recent :
            /\ cursor.recent[p] = e
            /\ \A q \in DOMAIN cursor.recent : q > p => cursor.recent[q] \in since[e]

Inv == TypeOK /\ Remembered

LEMMA NothingObserved ==
  ASSUME NEW records \in Seq(RawRecord), NEW latest \in Nat \union {NoValue},
         ObservedAt(records, latest) = {}
  PROVE  ObservedIds(records, latest) = << >>
<1>1. /\ ToSet(ObservedIds(records, latest))
            = {records[i].eid : i \in ObservedAt(records, latest)}
      /\ ObservedIds(records, latest) \in Seq(Nat)
  BY ObservedMembers
<1>2. ToSet(ObservedIds(records, latest)) = {}
  BY <1>1
<1>3. DOMAIN ObservedIds(records, latest) = {}
  BY <1>2 DEF ToSet
<1>. QED
  BY <1>1, <1>3

\* Also a batch without identities leaves what merging leaves.
LEMMA PlanRecent ==
  ASSUME NEW records \in Seq(RawRecord), NEW cur \in Cursors
  PROVE  PlanBatch(records, cur).cursor.recent
           = MergeRecent(cur.recent, ObservedIds(records, cur.latest), RecentLimit)
<1>1. cur.recent \in Seq(Nat) /\ Len(cur.recent) =< RecentLimit /\ IsInjective(cur.recent)
  BY DEF Cursors
<1>2. CASE IdentifiedAt(records) = {}
  <2>1. cur.latest \in Nat \union {NoValue} /\ ObservedAt(records, cur.latest) = {}
    BY <1>2 DEF ObservedAt, Cursors
  <2>2. ObservedIds(records, cur.latest) = << >>
    BY <2>1, NothingObserved
  <2>3. RecentLimit \in Nat
    OBVIOUS
  <2>4. MergeRecent(cur.recent, << >>, RecentLimit) = cur.recent
    BY <1>1, <2>3, MergeNothing
  <2>5. PlanBatch(records, cur).cursor = cur
    BY <1>2, PlanCursor
  <2>. QED
    BY <2>2, <2>4, <2>5
<1>3. CASE IdentifiedAt(records) # {}
  <2>1. NextCursor(records, cur).recent
          = MergeRecent(cur.recent, ObservedIds(records, cur.latest), RecentLimit)
    BY DEF NextCursor
  <2>2. PlanBatch(records, cur).cursor = NextCursor(records, cur)
    BY <1>3, PlanCursor
  <2>. QED
    BY <2>1, <2>2
<1>. QED
  BY <1>2, <1>3

\* A cursor with a position moves to the largest ID of the batch, never back.
LEMMA PlanLatest ==
  ASSUME NEW records \in Seq(RawRecord), NEW cur \in Cursors, cur.latest # NoValue
  PROVE  /\ cur.latest \in Nat /\ PlanBatch(records, cur).cursor.latest \in Nat
         /\ cur.latest =< PlanBatch(records, cur).cursor.latest
         /\ \A i \in IdentifiedAt(records) :
              records[i].id =< PlanBatch(records, cur).cursor.latest
         /\ \/ PlanBatch(records, cur).cursor.latest = cur.latest
            \/ \E i \in IdentifiedAt(records) :
                 PlanBatch(records, cur).cursor.latest = records[i].id
<1>1. cur.latest \in Nat /\ Position(cur) = cur.latest
  BY DEF Cursors, Position
<1>2. CASE IdentifiedAt(records) = {}
  BY <1>1, <1>2, PlanCursor
<1>3. CASE IdentifiedAt(records) # {}
  BY <1>1, <1>3, PlanCursor, NextPosition
<1>. QED
  BY <1>2, <1>3

LEMMA NoEmissions ==
  ASSUME NEW records \in Seq(RawRecord)
  PROVE  SlotsOf(records, {}) = {} /\ Emissions(records, {}) = << >>
<1>1. {} \in SUBSET IdentifiedAt(records)
  OBVIOUS
<1>2. SlotsOf(records, {}) = {}
  BY DEF SlotsOf
<1>3. Cardinality(SlotsOf(records, {})) = 0
  BY <1>2, FS_EmptySet
<1>4. DOMAIN Emissions(records, {}) = 1..0
  BY <1>1, <1>3, EmissionsBySlot
<1>5. Emissions(records, {})
        = [n \in 1..0 |-> ParseRecord(records[Order(records, {})[n][1]])[Order(records, {})[n][2]]]
  BY <1>1, <1>3, EmissionsBySlot
<1>. QED
  BY <1>2, <1>4, <1>5

\* A batch is published whole or, above the limit, not at all.
LEMMA PlanEmissions ==
  ASSUME NEW records \in Seq(RawRecord), NEW cur \in Cursors, cur.latest # NoValue
  PROVE  LET all == Emissions(records, CandidatesAt(records, cur))
             p   == PlanBatch(records, cur)
         IN  /\ Len(all) \in Nat
             /\ p.emissions = IF Len(all) > EmissionLimit THEN << >> ELSE all
             /\ p.suppressed = IF Len(all) > EmissionLimit THEN Len(all) ELSE 0
<1> DEFINE all == Emissions(records, CandidatesAt(records, cur))
<1>1. Len(all) \in Nat
  BY CandidatesIdentified, EmissionsBySlot
<1>2. CASE IdentifiedAt(records) = {}
  <2>1. CandidatesAt(records, cur) = {}
    BY <1>2, CandidatesIdentified
  <2>2. all = << >> /\ Len(all) = 0
    BY <2>1, NoEmissions
  <2>3. PlanBatch(records, cur).emissions = << >> /\ PlanBatch(records, cur).suppressed = 0
    BY <1>2 DEF PlanBatch, NothingPlanned
  <2>. QED
    BY <2>2, <2>3
<1>3. CASE IdentifiedAt(records) # {}
  BY <1>1, <1>3 DEF PlanBatch
<1>. QED
  BY <1>2, <1>3

LEMMA AfterMembers ==
  ASSUME NEW observed \in Seq(Nat), NEW e
  PROVE  /\ After(observed, e) \subseteq Nat /\ IsFiniteSet(After(observed, e))
         /\ e \notin ToSet(observed) => After(observed, e) = ToSet(observed)
<1> DEFINE at == {k \in DOMAIN observed : \A j \in k..Len(observed) : observed[j] # e}
           f == [i \in at |-> observed[i]]
<1>1. at \in SUBSET DOMAIN observed /\ DOMAIN observed = 1..Len(observed)
  OBVIOUS
<1>2. IsFiniteSet(at)
  BY <1>1, PositionsFinite
<1>3. After(observed, e) = {f[i] : i \in at}
  BY DEF After
<1>4. After(observed, e) \subseteq Nat
  BY DEF After
<1>5. IsFiniteSet(After(observed, e))
  <2>1. DOMAIN f = at
    OBVIOUS
  <2> HIDE DEF f, at
  <2>. QED BY <1>2, <1>3, <2>1, ImageFinite
<1>6. ASSUME e \notin ToSet(observed) PROVE After(observed, e) = ToSet(observed)
  <2>1. \A j \in DOMAIN observed : observed[j] # e
    BY <1>6 DEF ToSet
  <2>2. \A k \in DOMAIN observed : \A j \in k..Len(observed) : j \in DOMAIN observed
    BY <1>1
  <2>3. at = DOMAIN observed
    BY <2>1, <2>2
  <2>. QED
    BY <2>3 DEF After, ToSet
<1>. QED
  BY <1>4, <1>5, <1>6

LEMMA InitInv == Init => Inv
<1> SUFFICES ASSUME Init PROVE Inv
  OBVIOUS
<1>1. cursor = [latest |-> NoValue, recent |-> << >>] /\ since = [e \in {} |-> {}]
  BY DEF Init, NewCursor
<1>2. DOMAIN since = {}
  BY <1>1
<1>3. << >> \in Seq(Nat) /\ Len(<< >>) = 0 /\ DOMAIN << >> = {}
  OBVIOUS
<1>4. IsInjective(<< >>)
  BY <1>3 DEF IsInjective
<1>5. since \in [DOMAIN since -> SUBSET Nat]
  BY <1>1, <1>2
<1>. QED
  BY <1>1, <1>2, <1>3, <1>4, <1>5 DEF Inv, TypeOK, Remembered

LEMMA PollKeepsType ==
  ASSUME Inv, NEW records \in Seq(RawRecord), Poll(records)
  PROVE  TypeOK'
<1> DEFINE plan == PlanBatch(records, cursor)
           observed == ObservedIds(records, cursor.latest)
<1>1. cursor \in Cursors /\ cursor.latest \in Nat \union {NoValue}
  BY TypeIsCursor DEF Inv, TypeOK
<1>2. cursor' \in Cursors
  BY <1>1, PlanCursorType DEF Poll
<1>3. DOMAIN since' = DOMAIN since \union EmittedIds(plan)
  BY DEF Poll
<1>4. EmittedIds(plan) \subseteq Nat
  BY <1>1, EmittedIsObserved
<1>5. observed \in Seq(Nat)
  BY <1>1, ObservedMembers
<1>6. ASSUME NEW e \in DOMAIN since' PROVE since'[e] \in SUBSET Nat
  <2>1. since'[e] = After(observed, e) \union
                      (IF e \in ToSet(observed) \/ e \notin DOMAIN since THEN {} ELSE since[e])
    BY <1>3 DEF Poll
  <2>2. e \in DOMAIN since => since[e] \subseteq Nat
    BY DEF Inv, TypeOK
  <2>3. After(observed, e) \subseteq Nat
    BY <1>5, AfterMembers
  <2>. QED
    BY <2>1, <2>2, <2>3
<1>7. DOMAIN since' \subseteq Nat
  BY <1>3, <1>4 DEF Inv, TypeOK
<1>8. since' = [e \in DOMAIN since' |-> since'[e]]
  BY <1>3 DEF Poll
<1>. QED
  BY <1>2, <1>6, <1>7, <1>8 DEF TypeOK, Cursors

\* An ID that stands somewhere in what is merged, followed there by IDs of T or by
\* itself, is remembered or T is so large that it need not be.
LEMMA MergeRemembers ==
  ASSUME NEW existing \in Seq(Nat), NEW observed \in Seq(Nat), NEW e,
         NEW T, IsFiniteSet(T), NEW i \in DOMAIN (existing \o observed),
         (existing \o observed)[i] = e,
         \A j \in DOMAIN (existing \o observed) :
            j > i => (existing \o observed)[j] = e \/ (existing \o observed)[j] \in T
  PROVE  \/ Cardinality(T) >= RecentLimit
         \/ Follows(MergeRecent(existing, observed, RecentLimit), e, T)
<1> DEFINE all == existing \o observed
<1>1. all \in Seq(Nat) /\ DOMAIN all \subseteq Int
  OBVIOUS
<1>2. MergeRecent(existing, observed, RecentLimit) = Pick(all, KeptPlaces(all, RecentLimit))
  BY MergeIsPick
<1>3. i \in DOMAIN all /\ all[i] = e
      /\ \A j \in DOMAIN all : j > i => all[j] = e \/ all[j] \in T
  OBVIOUS
<1> HIDE DEF all
<1>4. PICK p \in LastPlaces(all) : i =< p /\ all[p] = e
  BY <1>1, <1>3, LastPlaceExists
<1>5. \A j \in DOMAIN all : j > p => all[j] \in T
  <2> TAKE j \in DOMAIN all
  <2> HAVE j > p
  <2>1. p \in DOMAIN all /\ all[j] # all[p]
    BY DEF LastPlaces
  <2>2. j > i
    BY <1>1, <1>3, <1>4, <2>1
  <2>. QED
    BY <1>3, <1>4, <2>1, <2>2
<1>6. RecentLimit \in Nat
  OBVIOUS
<1>7. \/ Cardinality(T) >= RecentLimit
      \/ Follows(Pick(all, KeptPlaces(all, RecentLimit)), all[p], T)
  BY <1>1, <1>5, <1>6, KeptOrForgotten
<1>. QED
  BY <1>2, <1>4, <1>7

LEMMA PollRemembers ==
  ASSUME Inv, NEW records \in Seq(RawRecord), Poll(records)
  PROVE  Remembered'
<1> DEFINE plan == PlanBatch(records, cursor)
           observed == ObservedIds(records, cursor.latest)
           existing == cursor.recent
<1>1. /\ cursor \in Cursors /\ cursor.latest \in Nat \union {NoValue}
      /\ existing \in Seq(Nat) /\ observed \in Seq(Nat)
  BY TypeIsCursor, ObservedMembers DEF Inv, TypeOK
<1>2. cursor'.recent = MergeRecent(existing, observed, RecentLimit)
  BY <1>1, PlanRecent DEF Poll
<1>3. DOMAIN since' = DOMAIN since \union EmittedIds(plan)
  BY DEF Poll
<1>4. EmittedIds(plan) \subseteq ToSet(observed)
  BY <1>1, EmittedIsObserved
<1>5. \A e \in DOMAIN since' :
        since'[e] = After(observed, e) \union
                      (IF e \in ToSet(observed) \/ e \notin DOMAIN since THEN {} ELSE since[e])
  BY <1>3 DEF Poll
<1>6. \A e \in DOMAIN since :
        /\ IsFiniteSet(since[e])
        /\ \/ Cardinality(since[e]) >= RecentLimit
           \/ \E p \in DOMAIN existing :
                /\ existing[p] = e
                /\ \A q \in DOMAIN existing : q > p => existing[q] \in since[e]
  BY DEF Inv, Remembered
<1> HIDE DEF plan, observed, existing
<1>7. /\ Len(existing) \in Nat /\ Len(observed) \in Nat
      /\ DOMAIN existing = 1..Len(existing) /\ DOMAIN observed = 1..Len(observed)
      /\ DOMAIN (existing \o observed) = 1..(Len(existing) + Len(observed))
      /\ \A j \in 1..Len(existing) : (existing \o observed)[j] = existing[j]
      /\ \A j \in 1..Len(observed) : (existing \o observed)[Len(existing) + j] = observed[j]
  BY <1>1, ConcatMembers
<1> SUFFICES ASSUME NEW e \in DOMAIN since'
             PROVE  /\ IsFiniteSet(since'[e])
                    /\ \/ Cardinality(since'[e]) >= RecentLimit
                       \/ Follows(cursor'.recent, e, since'[e])
  BY DEF Remembered, Follows
<1>8. IsFiniteSet(since'[e])
  <2> DEFINE new == After(observed, e)
             old == IF e \in ToSet(observed) \/ e \notin DOMAIN since THEN {} ELSE since[e]
  <2>1. IsFiniteSet(new) /\ IsFiniteSet({})
    BY <1>1, AfterMembers, FS_EmptySet
  <2>2. IsFiniteSet(old)
    BY <1>6, <2>1
  <2>3. since'[e] = new \union old
    BY <1>5
  <2> HIDE DEF new, old
  <2>. QED
    BY <2>1, <2>2, <2>3, FS_Union
<1>9. CASE e \in ToSet(observed)
  <2>1. PICK k \in LastPlaces(observed) : observed[k] = e
    <3>1. PICK j \in DOMAIN observed : observed[j] = e
      BY <1>9 DEF ToSet
    <3>. QED
      BY <1>1, <3>1, LastPlaceExists
  <2>2. k \in DOMAIN observed /\ \A j \in DOMAIN observed : j > k => observed[j] # e
    BY <2>1 DEF LastPlaces
  <2>3. ASSUME NEW m \in DOMAIN observed, m > k PROVE observed[m] \in since'[e]
    <3>1. \A j \in m..Len(observed) : j \in DOMAIN observed /\ j > k
      BY <1>7, <2>2, <2>3
    <3>2. observed[m] \in After(observed, e)
      BY <2>2, <3>1 DEF After
    <3>. QED
      BY <1>5, <3>2
  <2>4. /\ Len(existing) + k \in DOMAIN (existing \o observed)
        /\ (existing \o observed)[Len(existing) + k] = e
    BY <1>7, <2>1, <2>2
  <2>5. ASSUME NEW j \in DOMAIN (existing \o observed), j > Len(existing) + k
        PROVE  (existing \o observed)[j] \in since'[e]
    <3>1. /\ j - Len(existing) \in 1..Len(observed) /\ j - Len(existing) > k
          /\ Len(existing) + (j - Len(existing)) = j
      BY <1>7, <2>2, <2>5
    <3>2. (existing \o observed)[j] = observed[j - Len(existing)]
      BY <1>7, <3>1
    <3>. QED
      BY <1>7, <2>3, <3>1, <3>2
  <2>. QED
    BY <1>1, <1>2, <1>8, <2>4, <2>5, MergeRemembers
<1>10. CASE e \notin ToSet(observed)
  <2>1. e \in DOMAIN since /\ since'[e] = ToSet(observed) \union since[e]
    BY <1>1, <1>3, <1>4, <1>5, <1>10, AfterMembers
  <2>2. CASE Cardinality(since[e]) >= RecentLimit
    <3>1. /\ since[e] \in SUBSET since'[e] /\ IsFiniteSet(since[e])
          /\ Cardinality(since[e]) \in Nat /\ Cardinality(since'[e]) \in Nat
      BY <1>6, <1>8, <2>1, FS_CardinalityType
    <3>2. Cardinality(since[e]) =< Cardinality(since'[e])
      BY <1>8, <3>1, FS_Subset
    <3>3. Cardinality(since'[e]) >= RecentLimit
      BY <2>2, <3>1, <3>2
    <3>. QED
      BY <1>8, <3>3
  <2>3. CASE \E p \in DOMAIN existing :
                /\ existing[p] = e
                /\ \A q \in DOMAIN existing : q > p => existing[q] \in since[e]
    <3>1. PICK p \in DOMAIN existing :
                /\ existing[p] = e
                /\ \A q \in DOMAIN existing : q > p => existing[q] \in since[e]
      BY <2>3
    <3>2. p \in DOMAIN (existing \o observed) /\ (existing \o observed)[p] = e
      BY <1>7, <3>1
    <3>3. ASSUME NEW j \in DOMAIN (existing \o observed), j > p
          PROVE  (existing \o observed)[j] \in since'[e]
      <4>1. CASE j =< Len(existing)
        BY <1>7, <2>1, <3>1, <3>3, <4>1
      <4>2. CASE j > Len(existing)
        <5>1. j - Len(existing) \in 1..Len(observed) /\ Len(existing) + (j - Len(existing)) = j
          BY <1>7, <4>2
        <5>2. (existing \o observed)[j] = observed[j - Len(existing)]
          BY <1>7, <5>1
        <5>. QED
          BY <1>7, <2>1, <5>1, <5>2 DEF ToSet
      <4>. QED
        BY <1>7, <4>1, <4>2
    <3>. QED
      BY <1>1, <1>2, <1>8, <3>2, <3>3, MergeRemembers
  <2>. QED
    BY <1>6, <2>1, <2>2, <2>3
<1>. QED
  BY <1>9, <1>10

LEMMA InvStep == Inv /\ [Next]_vars => Inv'
<1> SUFFICES ASSUME Inv, [Next]_vars PROVE Inv'
  OBVIOUS
<1>1. ASSUME NEW records \in Batches, Poll(records) PROVE Inv'
  <2>1. records \in Seq(RawRecord)
    BY BatchesAssumption
  <2>. QED
    BY <1>1, <2>1, PollKeepsType, PollRemembers DEF Inv
<1>2. ASSUME UNCHANGED vars PROVE Inv'
  BY <1>2 DEF Inv, TypeOK, Remembered, vars
<1>. QED
  BY <1>1, <1>2 DEF Next, FailedPoll

LEMMA InvAlways == Spec => []Inv
  BY InitInv, InvStep, PTL DEF Spec

\* The cursor stays a position and a bounded cache of distinct event IDs
\* (ChildCursor, _merge_recent_ids).
THEOREM TypeCorrect == Spec => []TypeOK
<1>1. Inv => TypeOK
  BY DEF Inv
<1>. QED
  BY <1>1, InvAlways, PTL

\* A published ID is in the cache, or so many others came that it was dropped.
THEOREM PublishedRemembered == Spec => []Remembered
<1>1. Inv => Remembered
  BY DEF Inv
<1>. QED
  BY <1>1, InvAlways, PTL

\* No event ID is published twice before RECENT_EVENT_IDS_LIMIT others were
\* observed, whatever the hub returns and under whatever record ID (seen_ids).
THEOREM NothingRepublished == Spec => []NeverRepublished
<1>1. Inv => NeverRepublished
  <2> SUFFICES ASSUME Inv, NEW b \in Plannable, NEW e \in EmittedIds(PlanBatch(b, cursor)),
                      e \in DOMAIN since
               PROVE  Cardinality(since[e]) >= RecentLimit
    BY DEF NeverRepublished
  <2>1. b \in Seq(RawRecord) /\ cursor \in Cursors
    BY BatchesAssumption, TypeIsCursor DEF Plannable, Inv
  <2>2. e \notin ToSet(cursor.recent)
    BY <2>1, EmittedIsObserved
  <2>3. ~ \E p \in DOMAIN cursor.recent : cursor.recent[p] = e
    BY <2>2 DEF ToSet
  <2>. QED
    BY <2>3 DEF Inv, Remembered
<1>. QED
  BY <1>1, InvAlways, PTL

\* What is published is newer than the cursor and comes out oldest first, the
\* steps of a rotation together (candidates.sort, _rotation_emissions).
THEOREM PublishedOldestFirst == Spec => []OldestFirst
<1>1. Inv => OldestFirst
  <2> SUFFICES ASSUME Inv, NEW b \in Plannable,
                      NEW n \in DOMAIN PlanBatch(b, cursor).emissions
               PROVE  LET out == PlanBatch(b, cursor).emissions
                      IN  /\ out[n].id > cursor.latest
                          /\ n > 1 => \/ out[n].step = 1 /\ out[n - 1].id =< out[n].id
                                      \/ out[n] = [out[n - 1] EXCEPT !.step = @ + 1]
    BY DEF OldestFirst
  <2>1. b \in Seq(RawRecord) /\ cursor \in Cursors
    BY BatchesAssumption, TypeIsCursor DEF Plannable, Inv
  <2>. QED
    BY <2>1, BatchOldestFirst
<1>. QED
  BY <1>1, InvAlways, PTL

-----------------------------------------------------------------------------
(***************************************************************************)
(* Reading the same records again.                                         *)
(***************************************************************************)
LEMMA BatchRereadSilent ==
  ASSUME NEW records \in Seq(RawRecord), NEW cur \in Cursors
  PROVE  LET first == PlanBatch(records, cur)
             again == PlanBatch(records, first.cursor)
         IN  again.emissions = << >> /\ again.cursor = first.cursor
<1> DEFINE next == PlanBatch(records, cur).cursor
<1>1. next \in Cursors
  BY PlanCursorType
<1>2. CASE IdentifiedAt(records) = {}
  <2>1. PlanBatch(records, next).emissions = << >>
    BY <1>2 DEF PlanBatch, NothingPlanned
  <2>. QED
    BY <1>2, <2>1, PlanCursor
<1>3. CASE IdentifiedAt(records) # {}
  <2>1. next.latest \in Nat /\ \A i \in IdentifiedAt(records) : records[i].id =< next.latest
    BY <1>3, PlanCursor, NextPosition
  <2> HIDE DEF next
  <2>2. next.latest # NoValue /\ next.latest \in Nat \union {NoValue}
    BY <2>1
  <2>3. \A i \in IdentifiedAt(records) : records[i].id \in Int /\ ~(records[i].id > next.latest)
    <3>1. \A i \in IdentifiedAt(records) : records[i].id \in Int
      BY IdentifiedFinite
    <3>. QED
      BY <2>1, <3>1
  <2>4. ObservedAt(records, next.latest) = {}
    BY <2>2, <2>3 DEF ObservedAt, Fresh
  <2>5. CandidatesAt(records, next) = {}
    BY <2>1 DEF CandidatesAt, Duplicate
  <2>6. PlanBatch(records, next).emissions = << >>
    BY <2>5, NoEmissions, PlanPublishes
  <2>7. PlanBatch(records, next).cursor.recent = next.recent
    <3>1. ObservedIds(records, next.latest) = << >>
      BY <2>2, <2>4, NothingObserved
    <3>2. next.recent \in Seq(Nat) /\ Len(next.recent) =< RecentLimit /\ IsInjective(next.recent)
      BY <1>1 DEF Cursors
    <3>3. RecentLimit \in Nat
      OBVIOUS
    <3>4. MergeRecent(next.recent, << >>, RecentLimit) = next.recent
      BY <3>2, <3>3, MergeNothing
    <3>. QED
      BY <1>1, <3>1, <3>4, PlanRecent
  <2>8. PlanBatch(records, next).cursor.latest = next.latest
    <3>1. /\ PlanBatch(records, next).cursor.latest \in Nat
          /\ next.latest =< PlanBatch(records, next).cursor.latest
          /\ \/ PlanBatch(records, next).cursor.latest = next.latest
             \/ \E i \in IdentifiedAt(records) :
                  PlanBatch(records, next).cursor.latest = records[i].id
      BY <1>1, <2>2, PlanLatest
    <3>. QED
      BY <2>1, <3>1
  <2>9. PlanBatch(records, next).cursor \in Cursors
    BY <1>1, PlanCursorType
  <2>10. PlanBatch(records, next).cursor = next
    BY <1>1, <2>7, <2>8, <2>9, SameCursor
  <2>. QED
    BY <2>6, <2>10 DEF next
<1>. QED
  BY <1>2, <1>3

\* Reading the same records once more publishes nothing and leaves the cursor as
\* it is, so an overlapping page or a poll repeated after a failed save is harmless.
THEOREM RereadingIsHarmless == Spec => []RereadingIsSilent
<1>1. Inv => RereadingIsSilent
  <2> SUFFICES ASSUME Inv, NEW b \in Plannable
               PROVE  LET first == PlanBatch(b, cursor)
                          again == PlanBatch(b, first.cursor)
                      IN  again.emissions = << >> /\ again.cursor = first.cursor
    BY DEF RereadingIsSilent
  <2>1. b \in Seq(RawRecord) /\ cursor \in Cursors
    BY BatchesAssumption, TypeIsCursor DEF Plannable, Inv
  <2>. QED
    BY <2>1, BatchRereadSilent
<1>. QED
  BY <1>1, InvAlways, PTL

-----------------------------------------------------------------------------
(***************************************************************************)
(* Every record is accounted for.                                          *)
(***************************************************************************)
LEMMA AcceptedCandidates ==
  ASSUME NEW records \in Seq(RawRecord), NEW cur \in Cursors, cur.latest # NoValue
  PROVE  LET candidates == CandidatesAt(records, cur)
             unusable   == {i \in candidates : ~Understood(records[i])}
             steps      == UNION {{i} \X (1..Steps(records[i])) : i \in Accepted(records, cur)}
         IN  /\ IsFiniteSet(candidates)
             /\ Cardinality(candidates)
                  = Cardinality(Accepted(records, cur)) + Cardinality(unusable)
             /\ Cardinality(Accepted(records, cur)) \in Nat /\ Cardinality(unusable) \in Nat
             /\ SlotsOf(records, candidates) = steps
<1> DEFINE candidates == CandidatesAt(records, cur)
           unusable == {i \in candidates : ~Understood(records[i])}
           accepted == Accepted(records, cur)
<1>1. cur.latest \in Nat
  BY DEF Cursors
<1>2. ASSUME NEW i \in DOMAIN records
      PROVE  i \in accepted <=> i \in candidates /\ Understood(records[i])
  <2>1. records[i] \in RawRecord
    BY RecordFields
  <2>2. Understood(records[i]) => records[i].id \in Int /\ i \in IdentifiedAt(records)
    BY <2>1, StepsType DEF IdentifiedAt
  <2>. QED
    BY <1>1, <2>2 DEF Accepted, CandidatesAt, Duplicate
<1>3. candidates \in SUBSET DOMAIN records /\ accepted \in SUBSET DOMAIN records
  BY DEF CandidatesAt, IdentifiedAt, Accepted
<1>4. candidates = accepted \union unusable /\ accepted \intersect unusable = {}
  BY <1>2, <1>3
<1>5. IsFiniteSet(candidates) /\ IsFiniteSet(accepted) /\ IsFiniteSet(unusable)
  <2>1. unusable \in SUBSET DOMAIN records
    BY <1>3
  <2>. QED
    BY <1>3, <2>1, PositionsFinite
<1>6. \A i \in accepted : DOMAIN ParseRecord(records[i]) = 1..Steps(records[i])
  BY <1>2, <1>3, RecordFields, ParseUnderstood
<1>7. \A i \in candidates \ accepted : DOMAIN ParseRecord(records[i]) = {}
  BY <1>2, <1>3, ParseOthers
<1> HIDE DEF candidates, unusable, accepted
<1>8. Cardinality(candidates) = Cardinality(accepted) + Cardinality(unusable)
  <2>1. Cardinality(accepted \intersect unusable) = 0
    BY <1>4, FS_EmptySet
  <2>2. Cardinality(accepted) \in Nat /\ Cardinality(unusable) \in Nat
    BY <1>5, FS_CardinalityType
  <2>3. Cardinality(accepted \union unusable)
          = Cardinality(accepted) + Cardinality(unusable) - Cardinality(accepted \intersect unusable)
    BY <1>5, FS_Union
  <2>. QED
    BY <1>4, <2>1, <2>2, <2>3
<1>9. SlotsOf(records, candidates) = UNION {{i} \X (1..Steps(records[i])) : i \in accepted}
  <2>1. accepted \subseteq candidates
    BY <1>4
  <2>2. ASSUME NEW s \in SlotsOf(records, candidates)
        PROVE  s \in UNION {{i} \X (1..Steps(records[i])) : i \in accepted}
    <3>1. s = <<s[1], s[2]>> /\ s[1] \in candidates /\ s[2] \in DOMAIN ParseRecord(records[s[1]])
      BY SlotMembers
    <3>2. s[1] \in accepted /\ s[2] \in 1..Steps(records[s[1]])
      BY <1>6, <1>7, <3>1
    <3>. QED
      BY <3>1, <3>2
  <2>3. ASSUME NEW i \in accepted, NEW s \in {i} \X (1..Steps(records[i]))
        PROVE  s \in SlotsOf(records, candidates)
    <3>1. s = <<i, s[2]>> /\ s[2] \in 1..Steps(records[i])
      OBVIOUS
    <3>2. i \in candidates /\ s[2] \in DOMAIN ParseRecord(records[i])
      BY <1>6, <2>1, <3>1
    <3>. QED
      BY <3>1, <3>2, SlotMembers
  <2>. QED
    BY <2>2, <2>3
<1>10. Cardinality(accepted) \in Nat /\ Cardinality(unusable) \in Nat
  BY <1>5, FS_CardinalityType
<1>. QED
  BY <1>5, <1>8, <1>9, <1>10 DEF candidates, unusable, accepted

LEMMA BatchAccountedFor ==
  ASSUME NEW b \in Seq(RawRecord), NEW cur \in Cursors, cur.latest # NoValue
  PROVE  LET p        == PlanBatch(b, cur)
             accepted == Accepted(b, cur)
             total    == Cardinality(UNION {{i} \X (1..Steps(b[i])) : i \in accepted})
         IN  /\ Cardinality(accepted) + p.duplicate + p.ignored = Len(b)
             /\ Len(p.emissions) + p.suppressed = total
             /\ total > EmissionLimit <=> p.suppressed > 0
             /\ p.suppressed > 0 => p.emissions = << >>
             /\ \A i \in DOMAIN b : Identified(b[i]) => p.cursor.latest >= b[i].id
<1> DEFINE candidates == CandidatesAt(b, cur)
           unusable == {i \in candidates : ~Understood(b[i])}
           accepted == Accepted(b, cur)
           identified == IdentifiedAt(b)
           total == Cardinality(UNION {{i} \X (1..Steps(b[i])) : i \in accepted})
           p == PlanBatch(b, cur)
<1>1. /\ IsFiniteSet(candidates)
      /\ Cardinality(candidates) = Cardinality(accepted) + Cardinality(unusable)
      /\ Cardinality(accepted) \in Nat /\ Cardinality(unusable) \in Nat
      /\ total = Cardinality(SlotsOf(b, candidates))
  BY AcceptedCandidates
<1>2. Cardinality(identified) \in Nat /\ Len(b) \in Nat /\ EmissionLimit \in Nat
  <2>1. IsFiniteSet(identified)
    BY IdentifiedFinite
  <2>2. Cardinality(identified) \in Nat
    BY <2>1, FS_CardinalityType
  <2>. QED
    BY <2>2
<1>3. Len(Emissions(b, candidates)) = total /\ total \in Nat
  BY <1>1, CandidatesIdentified, EmissionsBySlot
<1>4. Cardinality(accepted) + p.duplicate + p.ignored = Len(b)
  <2>1. CASE identified = {}
    <3>1. candidates = {}
      BY <2>1, CandidatesIdentified
    <3>2. Cardinality(candidates) = 0 /\ Cardinality(identified) = 0
      BY <2>1, <3>1, FS_EmptySet
    <3>3. p.duplicate = 0 /\ p.ignored = Len(b) - Cardinality(identified)
      BY <2>1 DEF PlanBatch, NothingPlanned
    <3> HIDE DEF candidates, unusable, accepted, identified, p
    <3>. QED
      BY <1>1, <1>2, <3>2, <3>3
  <2>2. CASE identified # {}
    <3>1. /\ p.duplicate = Cardinality(identified) - Cardinality(candidates)
          /\ p.ignored = Len(b) - Cardinality(identified) + Cardinality(unusable)
      BY <2>2 DEF PlanBatch
    <3> HIDE DEF candidates, unusable, accepted, identified, p
    <3>. QED
      BY <1>1, <1>2, <3>1
  <2>. QED
    BY <2>1, <2>2
<1>5. /\ p.emissions = IF total > EmissionLimit THEN << >> ELSE Emissions(b, candidates)
      /\ p.suppressed = IF total > EmissionLimit THEN total ELSE 0
  BY <1>3, PlanEmissions
<1>6. /\ Len(p.emissions) + p.suppressed = total
      /\ total > EmissionLimit <=> p.suppressed > 0
      /\ p.suppressed > 0 => p.emissions = << >>
  <2> HIDE DEF candidates, total, p
  <2>1. Len(<< >>) = 0
    OBVIOUS
  <2>2. CASE total > EmissionLimit
    BY <1>2, <1>3, <1>5, <2>1, <2>2
  <2>3. CASE ~(total > EmissionLimit)
    BY <1>2, <1>3, <1>5, <2>3
  <2>. QED
    BY <2>2, <2>3
<1>7. ASSUME NEW i \in DOMAIN b, Identified(b[i]) PROVE p.cursor.latest >= b[i].id
  <2>1. i \in IdentifiedAt(b) /\ b[i].id \in Int
    BY <1>7 DEF IdentifiedAt
  <2>2. p.cursor.latest \in Nat /\ b[i].id =< p.cursor.latest
    BY <2>1, PlanLatest
  <2> HIDE DEF p
  <2>. QED
    BY <2>1, <2>2
<1>. QED
  BY <1>4, <1>6, <1>7

\* No record vanishes: accepted, duplicate or ignored, counted once; published
\* whole or suppressed whole, and left behind the cursor (plan_batch's counters).
THEOREM RecordsAccountedFor == Spec => []EveryRecordAccountedFor
<1>1. Inv => EveryRecordAccountedFor
  <2> SUFFICES ASSUME Inv, cursor.latest # NoValue, NEW b \in Plannable
               PROVE  LET p        == PlanBatch(b, cursor)
                          accepted == Accepted(b, cursor)
                          total    == Cardinality(UNION {{i} \X (1..Steps(b[i])) : i \in accepted})
                      IN  /\ Cardinality(accepted) + p.duplicate + p.ignored = Len(b)
                          /\ Len(p.emissions) + p.suppressed = total
                          /\ total > EmissionLimit <=> p.suppressed > 0
                          /\ p.suppressed > 0 => p.emissions = << >>
                          /\ \A i \in DOMAIN b : Identified(b[i]) => p.cursor.latest >= b[i].id
    BY DEF EveryRecordAccountedFor
  <2>1. b \in Seq(RawRecord) /\ cursor \in Cursors
    BY BatchesAssumption, TypeIsCursor DEF Plannable, Inv
  <2>. QED
    BY <2>1, BatchAccountedFor
<1>. QED
  BY <1>1, InvAlways, PTL

-----------------------------------------------------------------------------
(***************************************************************************)
(* The records of a batch, split into two others: h takes a position in    *)
(* one of them to the position that its record has in the batch.           *)
(***************************************************************************)
PartOf(part, records, h) ==
  /\ part \in Seq(RawRecord) /\ records \in Seq(RawRecord)
  /\ \A i \in DOMAIN part : h[i] \in DOMAIN records /\ part[i] = records[h[i]]
  /\ \A i, j \in DOMAIN part : h[i] = h[j] => i = j

\* at is what h1 makes of at1 together with what h2 makes of at2.
SplitInto(at, at1, h1, at2, h2) ==
  /\ \A i \in at1 : h1[i] \in at
  /\ \A i \in at2 : h2[i] \in at
  /\ \A x \in at : (\E i \in at1 : h1[i] = x) \/ (\E i \in at2 : h2[i] = x)

\* at falls into two parts of the batch, the first one older than the second.
Parts(records, at, part1, h1, at1, part2, h2, at2) ==
  /\ DistinctIds(records) /\ at \in SUBSET IdentifiedAt(records)
  /\ PartOf(part1, records, h1) /\ at1 \in SUBSET IdentifiedAt(part1)
  /\ PartOf(part2, records, h2) /\ at2 \in SUBSET IdentifiedAt(part2)
  /\ SplitInto(at, at1, h1, at2, h2)
  /\ \A i \in at1 : \A j \in at2 : part1[i].id < part2[j].id

LEMMA PartPositions ==
  ASSUME NEW part, NEW records, NEW h, PartOf(part, records, h), DistinctIds(records)
  PROVE  /\ \A i \in DOMAIN part : i \in IdentifiedAt(part) <=> h[i] \in IdentifiedAt(records)
         /\ \A i, j \in IdentifiedAt(part) : i # j => part[i].id # part[j].id
<1>1. \A i \in DOMAIN part : h[i] \in DOMAIN records /\ part[i] = records[h[i]]
  BY DEF PartOf
<1>2. \A i \in DOMAIN part : i \in IdentifiedAt(part) <=> h[i] \in IdentifiedAt(records)
  BY <1>1 DEF IdentifiedAt
<1>3. ASSUME NEW i \in IdentifiedAt(part), NEW j \in IdentifiedAt(part), i # j
      PROVE  part[i].id # part[j].id
  <2>1. i \in DOMAIN part /\ j \in DOMAIN part /\ Identified(part[i])
    BY DEF IdentifiedAt
  <2>2. h[i] # h[j]
    BY <1>3, <2>1 DEF PartOf
  <2>. QED
    BY <1>1, <2>1, <2>2 DEF DistinctIds
<1>. QED
  BY <1>2, <1>3

\* Distinct IDs alone decide the order, so a part keeps it.
LEMMA PartOrder ==
  ASSUME NEW part, NEW records, NEW h, PartOf(part, records, h), DistinctIds(records),
         NEW i \in IdentifiedAt(part), NEW j \in IdentifiedAt(part),
         part[i].eid # NoValue, part[j].eid # NoValue,
         Precedes(Identity(part, i), Identity(part, j))
  PROVE  Precedes(Identity(records, h[i]), Identity(records, h[j]))
<1>1. /\ i \in DOMAIN part /\ j \in DOMAIN part
      /\ i \in Int /\ j \in Int /\ part[i].id \in Int /\ part[j].id \in Int
      /\ part[i].eid \in Int /\ part[j].eid \in Int
  <2>1. part \in Seq(RawRecord)
    BY DEF PartOf
  <2>2. /\ i \in DOMAIN part /\ j \in DOMAIN part
        /\ i \in Int /\ j \in Int /\ part[i].id \in Int /\ part[j].id \in Int
    BY <2>1, IdentifiedFinite
  <2>3. part[i].eid \in Nat \union {NoValue} /\ part[j].eid \in Nat \union {NoValue}
    BY <2>1, <2>2, RecordFields
  <2>. QED
    BY <2>2, <2>3
<1>2. part[i] = records[h[i]] /\ part[j] = records[h[j]]
  BY <1>1 DEF PartOf
<1>3. i # j
  BY <1>1 DEF Precedes, Identity
<1>4. part[i].id # part[j].id
  BY <1>3, PartPositions
<1>5. part[i].id < part[j].id
  BY <1>1, <1>4 DEF Precedes, Identity
<1>. QED
  BY <1>2, <1>5 DEF Precedes, Identity

LEMMA PartSlotOrder ==
  ASSUME NEW part, NEW records, NEW h, PartOf(part, records, h), DistinctIds(records),
         NEW i \in IdentifiedAt(part), NEW j \in IdentifiedAt(part), NEW k \in Int, NEW l \in Int,
         Precedes(Slot(part, i, k), Slot(part, j, l))
  PROVE  Precedes(Slot(records, h[i], k), Slot(records, h[j], l))
<1>1. /\ i \in DOMAIN part /\ j \in DOMAIN part /\ part \in Seq(RawRecord)
      /\ i \in Int /\ j \in Int /\ part[i].id \in Int /\ part[j].id \in Int
  BY IdentifiedFinite DEF PartOf
<1>2. part[i] = records[h[i]] /\ part[j] = records[h[j]]
  BY <1>1 DEF PartOf
<1>3. CASE i = j
  <2>1. k < l
    BY <1>1, <1>3 DEF Precedes, Slot
  <2>. QED
    BY <1>3, <2>1 DEF Precedes, Slot
<1>4. CASE i # j
  <2>1. part[i].id # part[j].id
    BY <1>4, PartPositions
  <2>2. part[i].id < part[j].id
    BY <1>1, <2>1 DEF Precedes, Slot
  <2>. QED
    BY <1>2, <2>2 DEF Precedes, Slot
<1>. QED
  BY <1>3, <1>4

\* The event IDs at some positions, in the order of the records' identities.
Listed(records, at) ==
  LET order == InOrder(IdentityKey(records, at))
  IN  [n \in 1..Cardinality(at) |-> records[order[n]].eid]

LEMMA ListedType ==
  ASSUME NEW records \in Seq(RawRecord), NEW at \in SUBSET IdentifiedAt(records),
         \A i \in at : records[i].eid # NoValue
  PROVE  /\ Cardinality(at) \in Nat /\ Listed(records, at) \in Seq(Nat)
         /\ Len(Listed(records, at)) = Cardinality(at)
         /\ InOrder(IdentityKey(records, at)) \in [1..Cardinality(at) -> at]
<1> DEFINE order == InOrder(IdentityKey(records, at))
<1>1. Keyed(IdentityKey(records, at)) /\ DOMAIN IdentityKey(records, at) = at
  BY IdentityKeyed
<1>2. Cardinality(at) \in Nat /\ order \in [1..Cardinality(at) -> at]
  BY <1>1, InOrderRanks
<1>3. Listed(records, at) = [n \in 1..Cardinality(at) |-> records[order[n]].eid]
  BY DEF Listed
<1> HIDE DEF order
<1>4. \A i \in at : records[i].eid \in Nat
  BY RecordFields DEF IdentifiedAt
<1>5. Listed(records, at) \in [1..Cardinality(at) -> Nat]
  BY <1>2, <1>3, <1>4
<1>. QED
  BY <1>2, <1>5 DEF order

LEMMA ObservedAreListed ==
  ASSUME NEW records \in Seq(RawRecord), NEW latest
  PROVE  /\ ObservedAt(records, latest) \in SUBSET IdentifiedAt(records)
         /\ \A i \in ObservedAt(records, latest) : records[i].eid # NoValue
         /\ ObservedIds(records, latest) = Listed(records, ObservedAt(records, latest))
<1> DEFINE at == ObservedAt(records, latest)
           order == InOrder(IdentityKey(records, at))
<1>1. at \in SUBSET IdentifiedAt(records) /\ \A i \in at : records[i].eid # NoValue
  BY DEF ObservedAt
<1>2. ObservedIds(records, latest) = [n \in DOMAIN order |-> records[order[n]].eid]
  BY DEF ObservedIds, ObservedAt, IdentityKey
<1>3. DOMAIN order = 1..Cardinality(at)
  <2> HIDE DEF at
  <2>. QED BY <1>1, ListedType
<1>. QED
  BY <1>1, <1>2, <1>3 DEF Listed

\* The IDs of two parts, one older than the other, are listed part by part.
LEMMA ListedByParts ==
  ASSUME NEW records, NEW at, NEW part1, NEW h1, NEW at1, NEW part2, NEW h2, NEW at2,
         Parts(records, at, part1, h1, at1, part2, h2, at2),
         \A i \in at : records[i].eid # NoValue
  PROVE  Listed(records, at) = Listed(part1, at1) \o Listed(part2, at2)
<1> DEFINE key == IdentityKey(records, at)
           key1 == IdentityKey(part1, at1)
           key2 == IdentityKey(part2, at2)
           N1 == Cardinality(at1)
           N2 == Cardinality(at2)
<1>. /\ DistinctIds(records) /\ at \in SUBSET IdentifiedAt(records)
     /\ PartOf(part1, records, h1) /\ at1 \in SUBSET IdentifiedAt(part1)
     /\ PartOf(part2, records, h2) /\ at2 \in SUBSET IdentifiedAt(part2)
     /\ SplitInto(at, at1, h1, at2, h2)
     /\ \A i \in at1 : \A j \in at2 : part1[i].id < part2[j].id
  BY DEF Parts
<1>1. /\ records \in Seq(RawRecord) /\ part1 \in Seq(RawRecord) /\ part2 \in Seq(RawRecord)
      /\ \A i \in at1 : i \in DOMAIN part1 /\ h1[i] \in at /\ part1[i] = records[h1[i]]
      /\ \A i \in at2 : i \in DOMAIN part2 /\ h2[i] \in at /\ part2[i] = records[h2[i]]
  BY DEF PartOf, SplitInto, IdentifiedAt
<1>2. /\ \A i \in at1 : part1[i].eid # NoValue
      /\ \A i \in at2 : part2[i].eid # NoValue
  BY <1>1
<1>3. /\ Keyed(key) /\ DOMAIN key = at
      /\ Keyed(key1) /\ DOMAIN key1 = at1
      /\ Keyed(key2) /\ DOMAIN key2 = at2
  BY <1>1, <1>2, IdentityKeyed
<1>4. /\ \A i \in at : key[i] = Identity(records, i)
      /\ \A i \in at1 : key1[i] = Identity(part1, i)
      /\ \A i \in at2 : key2[i] = Identity(part2, i)
  BY DEF IdentityKey
<1> HIDE DEF key, key1, key2
<1>5. \A i, j \in at1 : Precedes(key1[i], key1[j]) => Precedes(key[h1[i]], key[h1[j]])
  BY <1>1, <1>2, <1>4, PartOrder
<1>6. \A i, j \in at2 : Precedes(key2[i], key2[j]) => Precedes(key[h2[i]], key[h2[j]])
  BY <1>1, <1>2, <1>4, PartOrder
<1>7. \A i \in at1 : \A j \in at2 : Precedes(key[h1[i]], key[h2[j]])
  <2>1. ASSUME NEW i \in at1, NEW j \in at2
        PROVE  Precedes(Identity(records, h1[i]), Identity(records, h2[j]))
    <3>1. records[h1[i]].id < records[h2[j]].id
      BY <1>1
    <3>. QED
      BY <3>1 DEF Precedes, Identity
  <2>. QED
    BY <1>1, <1>4, <2>1
<1>8. InTwoParts(key, key1, h1, key2, h2)
  BY <1>1, <1>3, <1>5, <1>6, <1>7 DEF InTwoParts, SplitInto
<1>9. /\ N1 \in Nat /\ N2 \in Nat /\ Cardinality(at) = N1 + N2
      /\ InOrder(key) = [n \in 1..(N1 + N2) |->
                           IF n =< N1 THEN h1[InOrder(key1)[n]] ELSE h2[InOrder(key2)[n - N1]]]
  BY <1>3, <1>8, InOrderByParts
<1>10. /\ Listed(records, at) = [n \in 1..(N1 + N2) |-> records[InOrder(key)[n]].eid]
       /\ Listed(part1, at1) = [n \in 1..N1 |-> part1[InOrder(key1)[n]].eid]
       /\ Listed(part2, at2) = [n \in 1..N2 |-> part2[InOrder(key2)[n]].eid]
  BY <1>9 DEF Listed, key, key1, key2
<1>11. /\ Listed(part1, at1) \in Seq(Nat) /\ Len(Listed(part1, at1)) = N1
       /\ Listed(part2, at2) \in Seq(Nat) /\ Len(Listed(part2, at2)) = N2
       /\ InOrder(key1) \in [1..N1 -> at1] /\ InOrder(key2) \in [1..N2 -> at2]
  BY <1>1, <1>2, ListedType DEF key1, key2
<1> HIDE DEF N1, N2
<1>12. ASSUME NEW n \in 1..(N1 + N2)
       PROVE  records[InOrder(key)[n]].eid
                = IF n =< N1 THEN Listed(part1, at1)[n] ELSE Listed(part2, at2)[n - N1]
  <2>1. CASE n =< N1
    <3>1. n \in 1..N1 /\ InOrder(key)[n] = h1[InOrder(key1)[n]] /\ InOrder(key1)[n] \in at1
      BY <1>9, <1>11, <2>1
    <3>. QED
      BY <1>1, <1>10, <2>1, <3>1
  <2>2. CASE ~(n =< N1)
    <3>1. n - N1 \in 1..N2
      BY <1>9, <2>2
    <3>2. InOrder(key)[n] = h2[InOrder(key2)[n - N1]] /\ InOrder(key2)[n - N1] \in at2
      BY <1>9, <1>11, <2>2, <3>1
    <3>. QED
      BY <1>1, <1>10, <2>2, <3>1, <3>2
  <2>. QED
    BY <2>1, <2>2
<1>13. Listed(records, at)
         = [n \in 1..(N1 + N2) |->
              IF n =< N1 THEN Listed(part1, at1)[n] ELSE Listed(part2, at2)[n - N1]]
  BY <1>10, <1>12
<1>. QED
  BY <1>11, <1>13, Glued

\* The emissions of two parts, one older than the other, come part by part.
LEMMA EmissionsByParts ==
  ASSUME NEW records, NEW at, NEW part1, NEW h1, NEW at1, NEW part2, NEW h2, NEW at2,
         Parts(records, at, part1, h1, at1, part2, h2, at2)
  PROVE  Emissions(records, at) = Emissions(part1, at1) \o Emissions(part2, at2)
<1> DEFINE slots == SlotsOf(records, at)
           slots1 == SlotsOf(part1, at1)
           slots2 == SlotsOf(part2, at2)
           key == SlotKey(records, at)
           key1 == SlotKey(part1, at1)
           key2 == SlotKey(part2, at2)
           g1 == [s \in slots1 |-> <<h1[s[1]], s[2]>>]
           g2 == [s \in slots2 |-> <<h2[s[1]], s[2]>>]
           N1 == Cardinality(slots1)
           N2 == Cardinality(slots2)
           out1 == Emissions(part1, at1)
           out2 == Emissions(part2, at2)
<1>. /\ DistinctIds(records) /\ at \in SUBSET IdentifiedAt(records)
     /\ PartOf(part1, records, h1) /\ at1 \in SUBSET IdentifiedAt(part1)
     /\ PartOf(part2, records, h2) /\ at2 \in SUBSET IdentifiedAt(part2)
     /\ SplitInto(at, at1, h1, at2, h2)
     /\ \A i \in at1 : \A j \in at2 : part1[i].id < part2[j].id
  BY DEF Parts
<1>1. /\ records \in Seq(RawRecord) /\ part1 \in Seq(RawRecord) /\ part2 \in Seq(RawRecord)
      /\ \A i \in at1 : i \in DOMAIN part1 /\ h1[i] \in at /\ part1[i] = records[h1[i]]
      /\ \A i \in at2 : i \in DOMAIN part2 /\ h2[i] \in at /\ part2[i] = records[h2[i]]
  BY DEF PartOf, SplitInto, IdentifiedAt
<1>2. /\ Keyed(key) /\ DOMAIN key = slots
      /\ Keyed(key1) /\ DOMAIN key1 = slots1 /\ \A s \in slots1 : s[2] \in Int
      /\ Keyed(key2) /\ DOMAIN key2 = slots2 /\ \A s \in slots2 : s[2] \in Int
  BY <1>1, SlotsKeyed
<1>3. /\ \A s \in slots : key[s] = Slot(records, s[1], s[2])
      /\ \A s \in slots1 : key1[s] = Slot(part1, s[1], s[2])
      /\ \A s \in slots2 : key2[s] = Slot(part2, s[1], s[2])
  BY DEF SlotKey
<1>4. ASSUME NEW s \in slots1
      PROVE  /\ s[1] \in at1 /\ s = <<s[1], s[2]>> /\ g1[s] = <<h1[s[1]], s[2]>> /\ g1[s] \in slots
             /\ key[g1[s]] = Slot(records, h1[s[1]], s[2])
             /\ ParseRecord(records[g1[s][1]])[g1[s][2]] = ParseRecord(part1[s[1]])[s[2]]
  <2>1. s[1] \in at1 /\ s = <<s[1], s[2]>> /\ s[2] \in DOMAIN ParseRecord(part1[s[1]])
    BY SlotMembers
  <2>2. g1[s] = <<h1[s[1]], s[2]>> /\ g1[s][1] = h1[s[1]] /\ g1[s][2] = s[2]
    OBVIOUS
  <2>3. h1[s[1]] \in at /\ part1[s[1]] = records[h1[s[1]]]
    BY <1>1, <2>1
  <2>4. g1[s] \in slots
    BY <2>1, <2>2, <2>3, SlotMembers
  <2> HIDE DEF g1, slots, key
  <2>. QED
    BY <1>3, <2>1, <2>2, <2>3, <2>4
<1>5. ASSUME NEW s \in slots2
      PROVE  /\ s[1] \in at2 /\ s = <<s[1], s[2]>> /\ g2[s] = <<h2[s[1]], s[2]>> /\ g2[s] \in slots
             /\ key[g2[s]] = Slot(records, h2[s[1]], s[2])
             /\ ParseRecord(records[g2[s][1]])[g2[s][2]] = ParseRecord(part2[s[1]])[s[2]]
  <2>1. s[1] \in at2 /\ s = <<s[1], s[2]>> /\ s[2] \in DOMAIN ParseRecord(part2[s[1]])
    BY SlotMembers
  <2>2. g2[s] = <<h2[s[1]], s[2]>> /\ g2[s][1] = h2[s[1]] /\ g2[s][2] = s[2]
    OBVIOUS
  <2>3. h2[s[1]] \in at /\ part2[s[1]] = records[h2[s[1]]]
    BY <1>1, <2>1
  <2>4. g2[s] \in slots
    BY <2>1, <2>2, <2>3, SlotMembers
  <2> HIDE DEF g2, slots, key
  <2>. QED
    BY <1>3, <2>1, <2>2, <2>3, <2>4
<1>6. ASSUME NEW s \in slots
      PROVE  (\E u \in slots1 : g1[u] = s) \/ (\E u \in slots2 : g2[u] = s)
  <2>1. s = <<s[1], s[2]>> /\ s[1] \in at /\ s[2] \in DOMAIN ParseRecord(records[s[1]])
    BY SlotMembers
  <2>2. CASE \E i \in at1 : h1[i] = s[1]
    <3>1. PICK i \in at1 : h1[i] = s[1]
      BY <2>2
    <3>2. s[2] \in DOMAIN ParseRecord(part1[i])
      BY <1>1, <2>1, <3>1
    <3>3. <<i, s[2]>> \in slots1
      BY <3>2, SlotMembers
    <3>4. g1[<<i, s[2]>>] = s
      BY <2>1, <3>1, <3>3
    <3>. QED
      BY <3>3, <3>4
  <2>3. CASE \E i \in at2 : h2[i] = s[1]
    <3>1. PICK i \in at2 : h2[i] = s[1]
      BY <2>3
    <3>2. s[2] \in DOMAIN ParseRecord(part2[i])
      BY <1>1, <2>1, <3>1
    <3>3. <<i, s[2]>> \in slots2
      BY <3>2, SlotMembers
    <3>4. g2[<<i, s[2]>>] = s
      BY <2>1, <3>1, <3>3
    <3>. QED
      BY <3>3, <3>4
  <2>. QED
    BY <2>1, <2>2, <2>3 DEF SplitInto
<1> HIDE DEF slots, slots1, slots2, key, key1, key2, g1, g2
<1>7. \A s, u \in slots1 : Precedes(key1[s], key1[u]) => Precedes(key[g1[s]], key[g1[u]])
  <2> TAKE s, u \in slots1
  <2> HAVE Precedes(key1[s], key1[u])
  <2>1. /\ Precedes(Slot(part1, s[1], s[2]), Slot(part1, u[1], u[2]))
        /\ s[1] \in IdentifiedAt(part1) /\ u[1] \in IdentifiedAt(part1)
        /\ s[2] \in Int /\ u[2] \in Int
    BY <1>2, <1>3, <1>4
  <2>2. Precedes(Slot(records, h1[s[1]], s[2]), Slot(records, h1[u[1]], u[2]))
    BY <2>1, PartSlotOrder
  <2>. QED
    BY <1>4, <2>2
<1>8. \A s, u \in slots2 : Precedes(key2[s], key2[u]) => Precedes(key[g2[s]], key[g2[u]])
  <2> TAKE s, u \in slots2
  <2> HAVE Precedes(key2[s], key2[u])
  <2>1. /\ Precedes(Slot(part2, s[1], s[2]), Slot(part2, u[1], u[2]))
        /\ s[1] \in IdentifiedAt(part2) /\ u[1] \in IdentifiedAt(part2)
        /\ s[2] \in Int /\ u[2] \in Int
    BY <1>2, <1>3, <1>5
  <2>2. Precedes(Slot(records, h2[s[1]], s[2]), Slot(records, h2[u[1]], u[2]))
    BY <2>1, PartSlotOrder
  <2>. QED
    BY <1>5, <2>2
<1>9. \A s \in slots1 : \A u \in slots2 : Precedes(key[g1[s]], key[g2[u]])
  <2> TAKE s \in slots1
  <2> TAKE u \in slots2
  <2>1. records[h1[s[1]]].id < records[h2[u[1]]].id
    BY <1>1, <1>4, <1>5
  <2>2. Precedes(Slot(records, h1[s[1]], s[2]), Slot(records, h2[u[1]], u[2]))
    BY <2>1 DEF Precedes, Slot
  <2>. QED
    BY <1>4, <1>5, <2>2
<1>10. InTwoParts(key, key1, g1, key2, g2)
  BY <1>2, <1>4, <1>5, <1>6, <1>7, <1>8, <1>9 DEF InTwoParts
<1>11. /\ N1 \in Nat /\ N2 \in Nat /\ Cardinality(slots) = N1 + N2
       /\ InOrder(key) = [n \in 1..(N1 + N2) |->
                            IF n =< N1 THEN g1[InOrder(key1)[n]] ELSE g2[InOrder(key2)[n - N1]]]
  BY <1>2, <1>10, InOrderByParts
<1>12. /\ InOrder(key1) \in [1..N1 -> slots1]
       /\ out1 = [n \in 1..N1 |-> ParseRecord(part1[InOrder(key1)[n][1]])[InOrder(key1)[n][2]]]
  BY <1>1, EmissionsBySlot DEF Order, key1, slots1
<1>13. /\ InOrder(key2) \in [1..N2 -> slots2]
       /\ out2 = [n \in 1..N2 |-> ParseRecord(part2[InOrder(key2)[n][1]])[InOrder(key2)[n][2]]]
  BY <1>1, EmissionsBySlot DEF Order, key2, slots2
<1>14. Emissions(records, at)
         = [n \in 1..(N1 + N2) |-> ParseRecord(records[InOrder(key)[n][1]])[InOrder(key)[n][2]]]
  <2>1. Emissions(records, at)
          = [n \in 1..Cardinality(slots) |->
               ParseRecord(records[InOrder(key)[n][1]])[InOrder(key)[n][2]]]
    BY <1>1, EmissionsBySlot DEF Order, key, slots
  <2>. QED
    BY <1>11, <2>1
<1> HIDE DEF N1, N2, out1, out2
<1>15. ASSUME NEW n \in 1..(N1 + N2)
       PROVE  ParseRecord(records[InOrder(key)[n][1]])[InOrder(key)[n][2]]
                = IF n =< N1 THEN out1[n] ELSE out2[n - N1]
  <2>1. CASE n =< N1
    <3>1. n \in 1..N1 /\ InOrder(key)[n] = g1[InOrder(key1)[n]] /\ InOrder(key1)[n] \in slots1
      BY <1>11, <1>12, <2>1
    <3>2. out1[n] = ParseRecord(part1[InOrder(key1)[n][1]])[InOrder(key1)[n][2]]
      BY <1>12, <3>1
    <3>. QED
      BY <1>4, <2>1, <3>1, <3>2
  <2>2. CASE ~(n =< N1)
    <3>1. n - N1 \in 1..N2
      BY <1>11, <2>2
    <3>2. InOrder(key)[n] = g2[InOrder(key2)[n - N1]] /\ InOrder(key2)[n - N1] \in slots2
      BY <1>11, <1>13, <2>2, <3>1
    <3>3. out2[n - N1] = ParseRecord(part2[InOrder(key2)[n - N1][1]])[InOrder(key2)[n - N1][2]]
      BY <1>13, <3>1
    <3>. QED
      BY <1>5, <2>2, <3>2, <3>3
  <2>. QED
    BY <2>1, <2>2
<1>16. Emissions(records, at)
         = [n \in 1..(N1 + N2) |-> IF n =< N1 THEN out1[n] ELSE out2[n - N1]]
  BY <1>14, <1>15
<1> DEFINE S == {out1[n] : n \in 1..N1} \union {out2[n] : n \in 1..N2}
<1>17. /\ out1 = [n \in 1..N1 |-> out1[n]] /\ \A n \in 1..N1 : out1[n] \in S
       /\ out2 = [n \in 1..N2 |-> out2[n]] /\ \A n \in 1..N2 : out2[n] \in S
  BY <1>12, <1>13
<1> HIDE DEF S
<1>18. out1 \in [1..N1 -> S] /\ out2 \in [1..N2 -> S]
  BY <1>17
<1>19. out1 \in Seq(S) /\ Len(out1) = N1 /\ out2 \in Seq(S) /\ Len(out2) = N2
  BY <1>11, <1>18
<1>20. Emissions(records, at) = out1 \o out2
  BY <1>16, <1>19, Glued
<1>. QED
  BY <1>20 DEF out1, out2

-----------------------------------------------------------------------------
(***************************************************************************)
(* The order of the records does not show.                                 *)
(***************************************************************************)
LEMMA EmptyPart ==
  ASSUME NEW records \in Seq(RawRecord)
  PROVE  /\ PartOf(<< >>, records, << >>) /\ << >> \in Seq(RawRecord)
         /\ {} \in SUBSET IdentifiedAt(<< >>)
         /\ Listed(<< >>, {}) = << >> /\ Emissions(<< >>, {}) = << >>
<1>1. << >> \in Seq(RawRecord) /\ DOMAIN << >> = {}
  OBVIOUS
<1>2. PartOf(<< >>, records, << >>)
  BY <1>1 DEF PartOf
<1>3. Cardinality({}) = 0
  BY FS_EmptySet
<1>4. Listed(<< >>, {}) = << >>
  BY <1>3 DEF Listed
<1>. QED
  BY <1>1, <1>2, <1>4, NoEmissions

LEMMA PlanParts ==
  ASSUME NEW records, NEW cur
  PROVE  LET identified   == IdentifiedAt(records)
             candidates   == CandidatesAt(records, cur)
             unidentified == Len(records) - Cardinality(identified)
             unusable     == Cardinality({i \in candidates : ~Understood(records[i])})
             emissions    == Emissions(records, candidates)
             storm        == Len(emissions) > EmissionLimit
         IN  PlanBatch(records, cur) =
               CASE identified = {} -> [NothingPlanned(cur) EXCEPT !.ignored = unidentified]
                 [] identified # {} /\ cur.latest = NoValue ->
                      [NothingPlanned(NextCursor(records, cur)) EXCEPT
                         !.processed = Cardinality(identified), !.ignored = unidentified,
                         !.bootstrapped = TRUE]
                 [] OTHER ->
                      [cursor       |-> NextCursor(records, cur),
                       emissions    |-> IF storm THEN << >> ELSE emissions,
                       processed    |-> Cardinality(candidates),
                       duplicate    |-> Cardinality(identified) - Cardinality(candidates),
                       ignored      |-> unidentified + unusable,
                       suppressed   |-> IF storm THEN Len(emissions) ELSE 0,
                       bootstrapped |-> FALSE]
  BY DEF PlanBatch

\* The same records in any other order, with distinct record IDs, give the same plan:
\* h says where each record of the one batch is in the other (sorted(), candidates.sort).
THEOREM AnyOrder ==
  ASSUME NEW part, NEW records, NEW h, PartOf(part, records, h), DistinctIds(records),
         \A x \in DOMAIN records : \E i \in DOMAIN part : h[i] = x,
         NEW cur \in Cursors
  PROVE  PlanBatch(part, cur) = PlanBatch(records, cur)
<1>1. /\ part \in Seq(RawRecord) /\ records \in Seq(RawRecord)
      /\ \A i \in DOMAIN part : h[i] \in DOMAIN records /\ part[i] = records[h[i]]
      /\ \A i, j \in DOMAIN part : h[i] = h[j] => i = j
  BY DEF PartOf
<1>2. \A i \in DOMAIN part :
        /\ i \in IdentifiedAt(part) <=> h[i] \in IdentifiedAt(records)
        /\ i \in CandidatesAt(part, cur) <=> h[i] \in CandidatesAt(records, cur)
        /\ i \in ObservedAt(part, cur.latest) <=> h[i] \in ObservedAt(records, cur.latest)
  BY <1>1 DEF IdentifiedAt, CandidatesAt, ObservedAt
<1>3. /\ IdentifiedAt(part) \subseteq DOMAIN part
      /\ CandidatesAt(part, cur) \in SUBSET IdentifiedAt(part)
      /\ ObservedAt(part, cur.latest) \in SUBSET IdentifiedAt(part)
      /\ IdentifiedAt(records) \subseteq DOMAIN records
      /\ CandidatesAt(records, cur) \in SUBSET IdentifiedAt(records)
      /\ ObservedAt(records, cur.latest) \in SUBSET IdentifiedAt(records)
  BY DEF IdentifiedAt, CandidatesAt, ObservedAt
<1>4. ASSUME NEW at1 \in SUBSET DOMAIN part, NEW at \in SUBSET DOMAIN records,
             \A i \in DOMAIN part : i \in at1 <=> h[i] \in at
      PROVE  Cardinality(at) = Cardinality(at1) /\ \A x \in at : \E i \in at1 : h[i] = x
  <2>1. IsFiniteSet(at1)
    BY <1>1, PositionsFinite
  <2>2. \A x \in at : \E i \in at1 : h[i] = x
    BY <1>4
  <2>3. /\ \A i \in at1 : h[i] \in at
        /\ \A i, j \in at1 : h[i] = h[j] => i = j
    BY <1>1, <1>4
  <2>. QED
    BY <2>1, <2>2, <2>3, SameSize
<1>5. /\ Cardinality(IdentifiedAt(records)) = Cardinality(IdentifiedAt(part))
      /\ \A x \in IdentifiedAt(records) : \E i \in IdentifiedAt(part) : h[i] = x
  BY <1>2, <1>3, <1>4
<1>6. /\ Cardinality(CandidatesAt(records, cur)) = Cardinality(CandidatesAt(part, cur))
      /\ \A x \in CandidatesAt(records, cur) : \E i \in CandidatesAt(part, cur) : h[i] = x
  BY <1>2, <1>3, <1>4
<1>7. \A x \in ObservedAt(records, cur.latest) :
        \E i \in ObservedAt(part, cur.latest) : h[i] = x
  BY <1>2, <1>3, <1>4
<1>8. Cardinality({i \in CandidatesAt(records, cur) : ~Understood(records[i])})
        = Cardinality({i \in CandidatesAt(part, cur) : ~Understood(part[i])})
  <2> DEFINE at1 == {i \in CandidatesAt(part, cur) : ~Understood(part[i])}
             at == {i \in CandidatesAt(records, cur) : ~Understood(records[i])}
  <2>1. at1 \in SUBSET DOMAIN part /\ at \in SUBSET DOMAIN records
    BY <1>3
  <2>2. \A i \in DOMAIN part : i \in at1 <=> h[i] \in at
    BY <1>1, <1>2
  <2> HIDE DEF at1, at
  <2>3. Cardinality(at) = Cardinality(at1)
    BY <1>4, <2>1, <2>2
  <2>. QED
    BY <2>3 DEF at1, at
<1>9. Len(part) = Len(records)
  <2>1. Cardinality(DOMAIN records) = Cardinality(DOMAIN part)
    BY <1>1, <1>4
  <2>2. Cardinality(DOMAIN part) = Len(part) /\ Cardinality(DOMAIN records) = Len(records)
    BY <1>1, PositionsFinite
  <2>. QED
    BY <2>1, <2>2
<1>10. IdentifiedAt(part) = {} <=> IdentifiedAt(records) = {}
  BY <1>2, <1>3, <1>5
<1>11. {part[i].id : i \in IdentifiedAt(part)} = {records[i].id : i \in IdentifiedAt(records)}
  <2> DEFINE ids == {records[i].id : i \in IdentifiedAt(records)}
             ids1 == {part[i].id : i \in IdentifiedAt(part)}
  <2>1. ASSUME NEW i \in IdentifiedAt(part) PROVE part[i].id \in ids
    <3>1. h[i] \in IdentifiedAt(records) /\ part[i] = records[h[i]]
      BY <1>1, <1>2, <1>3
    <3>. QED
      BY <3>1
  <2>2. ASSUME NEW x \in IdentifiedAt(records) PROVE records[x].id \in ids1
    <3>1. PICK i \in IdentifiedAt(part) : h[i] = x
      BY <1>5
    <3>2. part[i] = records[x]
      BY <1>1, <1>3, <3>1
    <3>. QED
      BY <3>2
  <2>3. ids \subseteq ids1 /\ ids1 \subseteq ids
    BY <2>1, <2>2
  <2>. QED
    BY <2>3
<1>12. PartOf(<< >>, records, << >>) /\ {} \in SUBSET IdentifiedAt(<< >>)
  BY <1>1, EmptyPart
<1>13. ObservedIds(part, cur.latest) = ObservedIds(records, cur.latest)
  <2> DEFINE at1 == ObservedAt(part, cur.latest)
             at == ObservedAt(records, cur.latest)
  <2>1. /\ \A i \in at : records[i].eid # NoValue
        /\ \A i \in at1 : part[i].eid # NoValue
        /\ ObservedIds(part, cur.latest) = Listed(part, at1)
        /\ ObservedIds(records, cur.latest) = Listed(records, at)
    BY <1>1, ObservedAreListed
  <2>2. SplitInto(at, at1, h, {}, << >>)
    BY <1>2, <1>3, <1>7 DEF SplitInto
  <2>3. at \in SUBSET IdentifiedAt(records) /\ at1 \in SUBSET IdentifiedAt(part)
    BY <1>3
  <2> HIDE DEF at1, at
  <2>4. Listed(records, at) = Listed(part, at1) \o Listed(<< >>, {})
    <3>1. Parts(records, at, part, h, at1, << >>, << >>, {})
      BY <1>12, <2>2, <2>3 DEF Parts
    <3>. QED
      BY <2>1, <3>1, ListedByParts
  <2>5. Listed(part, at1) \in Seq(Nat) /\ Listed(<< >>, {}) = << >>
    BY <1>1, <2>1, <2>3, ListedType, EmptyPart
  <2>6. Listed(part, at1) \o << >> = Listed(part, at1)
    BY <2>5, ConcatEmptySeq
  <2>. QED
    BY <2>1, <2>4, <2>5, <2>6
<1>14. Emissions(part, CandidatesAt(part, cur)) = Emissions(records, CandidatesAt(records, cur))
  <2> DEFINE at1 == CandidatesAt(part, cur)
             at == CandidatesAt(records, cur)
  <2>1. SplitInto(at, at1, h, {}, << >>)
    BY <1>2, <1>3, <1>6 DEF SplitInto
  <2>2. at \in SUBSET IdentifiedAt(records) /\ at1 \in SUBSET IdentifiedAt(part)
    BY <1>3
  <2> HIDE DEF at1, at
  <2>3. Emissions(records, at) = Emissions(part, at1) \o Emissions(<< >>, {})
    <3>1. Parts(records, at, part, h, at1, << >>, << >>, {})
      BY <1>12, <2>1, <2>2 DEF Parts
    <3>. QED
      BY <3>1, EmissionsByParts
  <2>4. Emissions(<< >>, {}) = << >>
    BY <1>1, EmptyPart
  <2>5. Emissions(part, at1) \o << >> = Emissions(part, at1)
    <3> DEFINE S == {Emissions(part, at1)[n] : n \in DOMAIN Emissions(part, at1)}
    <3>1. \A n \in DOMAIN Emissions(part, at1) : Emissions(part, at1)[n] \in S
      OBVIOUS
    <3> HIDE DEF S
    <3>2. Emissions(part, at1) \in Seq(S)
      BY <1>1, <2>2, <3>1, EmissionsAreSequence
    <3>. QED
      BY <3>2, ConcatEmptySeq
  <2>. QED
    BY <2>3, <2>4, <2>5 DEF at1, at
<1>15. NextCursor(part, cur) = NextCursor(records, cur)
  BY <1>11, <1>13 DEF NextCursor
<1>. QED
  BY <1>5, <1>6, <1>8, <1>9, <1>10, <1>14, <1>15, PlanParts

LEMMA ReverseIsPart ==
  ASSUME NEW records \in Seq(RawRecord)
  PROVE  LET h == [i \in DOMAIN records |-> (Len(records) - i) + 1]
         IN  /\ PartOf(Reverse(records), records, h)
             /\ \A x \in DOMAIN records : \E i \in DOMAIN Reverse(records) : h[i] = x
<1> DEFINE h == [i \in DOMAIN records |-> (Len(records) - i) + 1]
           part == Reverse(records)
           N == Len(records)
<1>1. N \in Nat /\ DOMAIN records = 1..N /\ \A i \in 1..N : records[i] \in RawRecord
  OBVIOUS
<1>2. part = [i \in 1..N |-> records[(N - i) + 1]] /\ DOMAIN part = 1..N
  BY DEF Reverse
<1> HIDE DEF part, N
<1>3. \A i \in 1..N : (N - i) + 1 \in 1..N /\ (N - ((N - i) + 1)) + 1 = i
  BY <1>1
<1>4. \A i \in 1..N : h[i] = (N - i) + 1
  BY <1>1 DEF N
<1> HIDE DEF h
<1>5. part \in Seq(RawRecord)
  <2>1. part \in [1..N -> RawRecord]
    BY <1>1, <1>2, <1>3
  <2>. QED
    BY <1>1, <2>1
<1>6. \A i \in DOMAIN part : h[i] \in DOMAIN records /\ part[i] = records[h[i]]
  BY <1>1, <1>2, <1>3, <1>4
<1>7. \A i, j \in DOMAIN part : h[i] = h[j] => i = j
  BY <1>1, <1>2, <1>4
<1>8. \A x \in DOMAIN records : \E i \in DOMAIN part : h[i] = x
  <2> TAKE x \in DOMAIN records
  <2>1. (N - x) + 1 \in DOMAIN part /\ h[(N - x) + 1] = x
    BY <1>1, <1>2, <1>3, <1>4
  <2>. QED
    BY <2>1
<1>. QED
  BY <1>5, <1>6, <1>7, <1>8 DEF PartOf, h, part, N

\* The hub's page order does not show: with distinct record IDs the same records,
\* turned around, give the same plan, its counters included (sorted(), candidates.sort).
THEOREM PageOrder == Spec => []PageOrderIrrelevant
<1>1. Inv => PageOrderIrrelevant
  <2> SUFFICES ASSUME Inv, NEW b \in Plannable, DistinctIds(b)
               PROVE  PlanBatch(Reverse(b), cursor) = PlanBatch(b, cursor)
    BY DEF PageOrderIrrelevant
  <2>1. b \in Seq(RawRecord) /\ cursor \in Cursors
    BY BatchesAssumption, TypeIsCursor DEF Plannable, Inv
  <2> DEFINE h == [i \in DOMAIN b |-> (Len(b) - i) + 1]
  <2>2. /\ PartOf(Reverse(b), b, h)
        /\ \A x \in DOMAIN b : \E i \in DOMAIN Reverse(b) : h[i] = x
    BY <2>1, ReverseIsPart
  <2> HIDE DEF h
  <2>. QED
    BY <2>1, <2>2, AnyOrder
<1>. QED
  BY <1>1, InvAlways, PTL

-----------------------------------------------------------------------------
(***************************************************************************)
(* How the records are cut into polls does not show.                       *)
(***************************************************************************)
LEMMA PickIsPart ==
  ASSUME NEW records \in Seq(RawRecord), NEW at \in SUBSET IdentifiedAt(records)
  PROVE  /\ Pick(records, at) \in Seq(RawRecord)
         /\ PartOf(Pick(records, at), records, Places(at))
         /\ IdentifiedAt(Pick(records, at)) = DOMAIN Pick(records, at)
         /\ \A n \in DOMAIN Pick(records, at) :
              Places(at)[n] \in at /\ Pick(records, at)[n] = records[Places(at)[n]]
         /\ \A i \in at : \E n \in DOMAIN Pick(records, at) : Places(at)[n] = i
<1> DEFINE part == Pick(records, at)
<1>1. at \in SUBSET DOMAIN records /\ \A i \in at : records[i].id \in Int
  BY DEF IdentifiedAt
<1>2. at \in SUBSET Int /\ IsFiniteSet(at)
  BY <1>1, PositionsFinite
<1>3. /\ Cardinality(at) \in Nat /\ Places(at) \in [1..Cardinality(at) -> at]
      /\ \A m, n \in 1..Cardinality(at) : Places(at)[m] = Places(at)[n] => m = n
      /\ \A i \in at : \E n \in 1..Cardinality(at) : Places(at)[n] = i
  BY <1>2, PlacesIncrease
<1>4. /\ part \in Seq(RawRecord) /\ DOMAIN part = 1..Cardinality(at)
      /\ part = [n \in 1..Cardinality(at) |-> records[Places(at)[n]]]
  BY <1>1, PickTakes
<1> HIDE DEF part
<1>5. \A n \in DOMAIN part : Places(at)[n] \in at /\ part[n] = records[Places(at)[n]]
  BY <1>3, <1>4
<1>6. PartOf(part, records, Places(at))
  BY <1>1, <1>3, <1>4, <1>5 DEF PartOf
<1>7. IdentifiedAt(part) = DOMAIN part
  BY <1>1, <1>5 DEF IdentifiedAt
<1>. QED
  BY <1>3, <1>4, <1>5, <1>6, <1>7 DEF part

\* older holds the records of b up to cut, newer the others that have an ID, and
\* h1 and h2 tell where they stand in b.
CutAt(b, cut, older, h1, newer, h2) ==
  /\ PartOf(older, b, h1) /\ IdentifiedAt(older) = DOMAIN older
  /\ PartOf(newer, b, h2) /\ IdentifiedAt(newer) = DOMAIN newer
  /\ cut \in Int /\ \E i \in DOMAIN older : older[i].id = cut
  /\ \A i \in DOMAIN older : h1[i] \in IdentifiedAt(b) /\ older[i].id =< cut
  /\ \A i \in DOMAIN newer : h2[i] \in IdentifiedAt(b) /\ newer[i].id > cut
  /\ \A x \in IdentifiedAt(b) :
       (\E i \in DOMAIN older : h1[i] = x) \/ (\E i \in DOMAIN newer : h2[i] = x)

LEMMA CutIntoPicks ==
  ASSUME NEW b \in Seq(RawRecord), NEW cut \in {b[i].id : i \in IdentifiedAt(b)}
  PROVE  LET upTo == {i \in IdentifiedAt(b) : b[i].id =< cut}
             rest == IdentifiedAt(b) \ upTo
         IN  CutAt(b, cut, Pick(b, upTo), Places(upTo), Pick(b, rest), Places(rest))
<1> DEFINE upTo == {i \in IdentifiedAt(b) : b[i].id =< cut}
           rest == IdentifiedAt(b) \ upTo
<1>1. PICK c \in IdentifiedAt(b) : cut = b[c].id
  OBVIOUS
<1>2. cut \in Int /\ \A i \in IdentifiedAt(b) : b[i].id \in Int
  BY <1>1, IdentifiedFinite
<1>3. /\ c \in upTo
      /\ \A i \in upTo : b[i].id =< cut
      /\ \A i \in rest : b[i].id > cut
      /\ upTo \in SUBSET IdentifiedAt(b) /\ rest \in SUBSET IdentifiedAt(b)
      /\ \A x \in IdentifiedAt(b) : x \in upTo \/ x \in rest
  BY <1>1, <1>2
<1> HIDE DEF upTo, rest
<1>4. /\ PartOf(Pick(b, upTo), b, Places(upTo))
      /\ IdentifiedAt(Pick(b, upTo)) = DOMAIN Pick(b, upTo)
      /\ \A n \in DOMAIN Pick(b, upTo) :
           Places(upTo)[n] \in upTo /\ Pick(b, upTo)[n] = b[Places(upTo)[n]]
      /\ \A i \in upTo : \E n \in DOMAIN Pick(b, upTo) : Places(upTo)[n] = i
  BY <1>3, PickIsPart
<1>5. /\ PartOf(Pick(b, rest), b, Places(rest))
      /\ IdentifiedAt(Pick(b, rest)) = DOMAIN Pick(b, rest)
      /\ \A n \in DOMAIN Pick(b, rest) :
           Places(rest)[n] \in rest /\ Pick(b, rest)[n] = b[Places(rest)[n]]
      /\ \A i \in rest : \E n \in DOMAIN Pick(b, rest) : Places(rest)[n] = i
  BY <1>3, PickIsPart
<1>6. \E i \in DOMAIN Pick(b, upTo) : Pick(b, upTo)[i].id = cut
  BY <1>1, <1>3, <1>4
<1>7. CutAt(b, cut, Pick(b, upTo), Places(upTo), Pick(b, rest), Places(rest))
  BY <1>2, <1>3, <1>4, <1>5, <1>6 DEF CutAt
<1>. QED
  BY <1>7 DEF upTo, rest

\* The first poll moves the cursor to the cut, unless it is past it already.
LEMMA CutCursor ==
  ASSUME NEW b, NEW cut, NEW older, NEW h1, NEW newer, NEW h2,
         CutAt(b, cut, older, h1, newer, h2), NEW cur \in Cursors, cur.latest # NoValue
  PROVE  LET mid == PlanBatch(older, cur).cursor
         IN  /\ mid \in Cursors /\ mid.latest # NoValue
             /\ cur.latest \in Nat /\ mid.latest \in Nat
             /\ cur.latest =< mid.latest /\ (mid.latest = cur.latest \/ mid.latest =< cut)
             /\ PlanBatch(newer, mid).cursor.latest = PlanBatch(b, cur).cursor.latest
<1> DEFINE mid == PlanBatch(older, cur).cursor
           end == PlanBatch(newer, mid).cursor
           all == PlanBatch(b, cur).cursor
<1>1. /\ b \in Seq(RawRecord) /\ older \in Seq(RawRecord) /\ newer \in Seq(RawRecord)
      /\ IdentifiedAt(older) = DOMAIN older /\ IdentifiedAt(newer) = DOMAIN newer
      /\ \A i \in DOMAIN older : h1[i] \in IdentifiedAt(b) /\ older[i] = b[h1[i]]
      /\ \A i \in DOMAIN newer : h2[i] \in IdentifiedAt(b) /\ newer[i] = b[h2[i]]
  BY DEF CutAt, PartOf
<1>2. /\ cut \in Int /\ \A i \in DOMAIN older : older[i].id =< cut
      /\ \A x \in IdentifiedAt(b) :
           (\E i \in DOMAIN older : h1[i] = x) \/ (\E i \in DOMAIN newer : h2[i] = x)
  BY DEF CutAt
<1>3. /\ mid \in Cursors /\ cur.latest \in Nat /\ mid.latest \in Nat
      /\ cur.latest =< mid.latest
      /\ \A i \in DOMAIN older : older[i].id =< mid.latest
      /\ mid.latest = cur.latest \/ \E i \in DOMAIN older : mid.latest = older[i].id
  BY <1>1, PlanLatest, PlanCursorType
<1>4. mid.latest # NoValue
  BY <1>3
<1> HIDE DEF mid
<1>5. /\ end.latest \in Nat /\ mid.latest =< end.latest
      /\ \A i \in DOMAIN newer : newer[i].id =< end.latest
      /\ end.latest = mid.latest \/ \E i \in DOMAIN newer : end.latest = newer[i].id
  BY <1>1, <1>3, <1>4, PlanLatest
<1>6. /\ all.latest \in Nat /\ cur.latest =< all.latest
      /\ \A x \in IdentifiedAt(b) : b[x].id \in Int /\ b[x].id =< all.latest
      /\ all.latest = cur.latest \/ \E x \in IdentifiedAt(b) : all.latest = b[x].id
  <2>1. \A x \in IdentifiedAt(b) : b[x].id \in Int
    BY <1>1, IdentifiedFinite
  <2>. QED
    BY <1>1, <2>1, PlanLatest
<1> HIDE DEF end, all
<1>7. end.latest =< all.latest
  <2>1. mid.latest =< all.latest
    BY <1>1, <1>3, <1>6
  <2>. QED
    BY <1>1, <1>5, <1>6, <2>1
<1>8. all.latest =< end.latest
  <2>1. \A x \in IdentifiedAt(b) : b[x].id =< end.latest
    <3> TAKE x \in IdentifiedAt(b)
    <3>1. CASE \E i \in DOMAIN older : h1[i] = x
      <4>1. PICK i \in DOMAIN older : h1[i] = x
        BY <3>1
      <4>2. b[x].id = older[i].id /\ older[i].id =< mid.latest
        BY <1>1, <1>3, <4>1
      <4>. QED
        BY <1>3, <1>5, <1>6, <4>2
    <3>2. CASE \E i \in DOMAIN newer : h2[i] = x
      BY <1>1, <1>5, <3>2
    <3>. QED
      BY <1>2, <3>1, <3>2
  <2>. QED
    BY <1>3, <1>5, <1>6, <2>1
<1>9. mid.latest = cur.latest \/ mid.latest =< cut
  BY <1>2, <1>3
<1>10. end.latest = all.latest
  BY <1>5, <1>6, <1>7, <1>8
<1>. QED
  BY <1>3, <1>4, <1>9, <1>10 DEF mid, end, all

\* What two polls observe is what one would have observed.
LEMMA CutObserved ==
  ASSUME NEW b, NEW cut, NEW older, NEW h1, NEW newer, NEW h2, DistinctIds(b),
         CutAt(b, cut, older, h1, newer, h2), NEW cur \in Cursors, cur.latest # NoValue
  PROVE  LET mid == PlanBatch(older, cur).cursor
         IN  ObservedIds(b, cur.latest)
               = ObservedIds(older, cur.latest) \o ObservedIds(newer, mid.latest)
<1> DEFINE mid == PlanBatch(older, cur).cursor
           at == ObservedAt(b, cur.latest)
           at1 == ObservedAt(older, cur.latest)
           at2 == ObservedAt(newer, mid.latest)
<1>1. /\ b \in Seq(RawRecord) /\ older \in Seq(RawRecord) /\ newer \in Seq(RawRecord)
      /\ \A i \in DOMAIN older : h1[i] \in IdentifiedAt(b) /\ older[i] = b[h1[i]]
      /\ \A i \in DOMAIN newer : h2[i] \in IdentifiedAt(b) /\ newer[i] = b[h2[i]]
      /\ IdentifiedAt(older) = DOMAIN older /\ IdentifiedAt(newer) = DOMAIN newer
      /\ PartOf(older, b, h1) /\ PartOf(newer, b, h2)
  BY DEF CutAt, PartOf
<1>2. /\ cut \in Int
      /\ \A i \in DOMAIN older : older[i].id =< cut
      /\ \A i \in DOMAIN newer : newer[i].id > cut
      /\ \A x \in IdentifiedAt(b) :
           (\E i \in DOMAIN older : h1[i] = x) \/ (\E i \in DOMAIN newer : h2[i] = x)
  BY DEF CutAt
<1>3. /\ mid.latest # NoValue /\ cur.latest \in Nat /\ mid.latest \in Nat
      /\ cur.latest =< mid.latest /\ (mid.latest = cur.latest \/ mid.latest =< cut)
  BY CutCursor
<1>4. \A x \in IdentifiedAt(b) : b[x].id \in Int
  BY <1>1, IdentifiedFinite
<1>5. /\ at \in SUBSET IdentifiedAt(b) /\ \A i \in at : b[i].eid # NoValue
      /\ at1 \in SUBSET IdentifiedAt(older) /\ at2 \in SUBSET IdentifiedAt(newer)
      /\ ObservedIds(b, cur.latest) = Listed(b, at)
      /\ ObservedIds(older, cur.latest) = Listed(older, at1)
      /\ ObservedIds(newer, mid.latest) = Listed(newer, at2)
  BY <1>1, ObservedAreListed
<1> HIDE DEF mid
<1>6. \A i \in at1 : h1[i] \in at
  BY <1>1 DEF ObservedAt
<1>7. \A i \in at2 : h2[i] \in at
  BY <1>1, <1>3, <1>4 DEF ObservedAt, Fresh
<1>8. ASSUME NEW x \in at PROVE (\E i \in at1 : h1[i] = x) \/ (\E i \in at2 : h2[i] = x)
  <2>1. x \in IdentifiedAt(b) /\ b[x].id > cur.latest /\ b[x].eid # NoValue
    BY DEF ObservedAt, Fresh
  <2>2. ASSUME NEW i \in DOMAIN older, h1[i] = x PROVE i \in at1
    BY <1>1, <1>8, <2>2 DEF ObservedAt
  <2>3. ASSUME NEW i \in DOMAIN newer, h2[i] = x PROVE i \in at2
    <3>1. newer[i] = b[x] /\ newer[i].id > cut /\ newer[i].id > mid.latest
      BY <1>1, <1>2, <1>3, <1>4, <2>1, <2>3
    <3>. QED
      BY <1>1, <2>1, <3>1 DEF ObservedAt, Fresh
  <2>. QED
    BY <1>2, <2>1, <2>2, <2>3
<1>9. SplitInto(at, at1, h1, at2, h2)
  BY <1>6, <1>7, <1>8 DEF SplitInto
<1>10. \A i \in at1 : \A j \in at2 : older[i].id < newer[j].id
  <2> TAKE i \in at1
  <2> TAKE j \in at2
  <2>1. i \in DOMAIN older /\ j \in DOMAIN newer
    BY <1>1, <1>5
  <2>2. older[i].id \in Int /\ newer[j].id \in Int
    BY <1>1, <1>4, <2>1
  <2>. QED
    BY <1>2, <2>1, <2>2
<1> HIDE DEF at, at1, at2
<1>11. Listed(b, at) = Listed(older, at1) \o Listed(newer, at2)
  <2>1. Parts(b, at, older, h1, at1, newer, h2, at2)
    BY <1>1, <1>5, <1>9, <1>10 DEF Parts
  <2>. QED
    BY <1>5, <2>1, ListedByParts
<1>. QED
  BY <1>5, <1>11 DEF mid

LEMMA CutSameCursor ==
  ASSUME NEW b, NEW cut, NEW older, NEW h1, NEW newer, NEW h2, DistinctIds(b),
         CutAt(b, cut, older, h1, newer, h2), NEW cur \in Cursors, cur.latest # NoValue
  PROVE  PlanBatch(newer, PlanBatch(older, cur).cursor).cursor = PlanBatch(b, cur).cursor
<1> DEFINE mid == PlanBatch(older, cur).cursor
           seen1 == ObservedIds(older, cur.latest)
           seen2 == ObservedIds(newer, mid.latest)
<1>1. b \in Seq(RawRecord) /\ older \in Seq(RawRecord) /\ newer \in Seq(RawRecord)
  BY DEF CutAt, PartOf
<1>2. /\ mid \in Cursors
      /\ PlanBatch(newer, mid).cursor.latest = PlanBatch(b, cur).cursor.latest
  BY CutCursor
<1>3. ObservedIds(b, cur.latest) = seen1 \o seen2
  BY CutObserved
<1>4. /\ cur.recent \in Seq(Nat)
      /\ cur.latest \in Nat \union {NoValue} /\ mid.latest \in Nat \union {NoValue}
  <2> HIDE DEF mid
  <2>. QED BY <1>2 DEF Cursors
<1>5. mid.recent = MergeRecent(cur.recent, seen1, RecentLimit)
  BY <1>1, PlanRecent
<1> HIDE DEF mid
<1>6. seen1 \in Seq(Nat) /\ seen2 \in Seq(Nat)
  BY <1>1, <1>4, ObservedMembers
<1>7. PlanBatch(newer, mid).cursor.recent = MergeRecent(mid.recent, seen2, RecentLimit)
  BY <1>1, <1>2, PlanRecent
<1>8. PlanBatch(b, cur).cursor.recent = MergeRecent(cur.recent, seen1 \o seen2, RecentLimit)
  BY <1>1, <1>3, PlanRecent
<1> HIDE DEF seen1, seen2
<1>9. MergeRecent(MergeRecent(cur.recent, seen1, RecentLimit), seen2, RecentLimit)
        = MergeRecent(cur.recent, seen1 \o seen2, RecentLimit)
  <2>1. RecentLimit \in Nat
    OBVIOUS
  <2>. QED
    BY <1>4, <1>6, <2>1, MergeInParts
<1>10. PlanBatch(newer, mid).cursor.recent = PlanBatch(b, cur).cursor.recent
  BY <1>5, <1>7, <1>8, <1>9
<1>11. PlanBatch(newer, mid).cursor \in Cursors /\ PlanBatch(b, cur).cursor \in Cursors
  BY <1>1, <1>2, PlanCursorType
<1>. QED
  BY <1>2, <1>10, <1>11, SameCursor DEF mid

\* Two polls have the candidates of one, unless an event ID repeats.
LEMMA CutEmissions ==
  ASSUME NEW b, NEW cut, NEW older, NEW h1, NEW newer, NEW h2, DistinctIds(b),
         CutAt(b, cut, older, h1, newer, h2), NEW cur \in Cursors, cur.latest # NoValue,
         ~RepeatsAnId(b, cur)
  PROVE  LET mid == PlanBatch(older, cur).cursor
         IN  Emissions(b, CandidatesAt(b, cur))
               = Emissions(older, CandidatesAt(older, cur))
                   \o Emissions(newer, CandidatesAt(newer, mid))
<1> DEFINE mid == PlanBatch(older, cur).cursor
           at == CandidatesAt(b, cur)
           at1 == CandidatesAt(older, cur)
           at2 == CandidatesAt(newer, mid)
<1>1. /\ b \in Seq(RawRecord) /\ older \in Seq(RawRecord) /\ newer \in Seq(RawRecord)
      /\ \A i \in DOMAIN older : h1[i] \in IdentifiedAt(b) /\ older[i] = b[h1[i]]
      /\ \A i \in DOMAIN newer : h2[i] \in IdentifiedAt(b) /\ newer[i] = b[h2[i]]
      /\ IdentifiedAt(older) = DOMAIN older /\ IdentifiedAt(newer) = DOMAIN newer
      /\ PartOf(older, b, h1) /\ PartOf(newer, b, h2)
  BY DEF CutAt, PartOf
<1>2. /\ cut \in Int
      /\ \A i \in DOMAIN older : older[i].id =< cut
      /\ \A i \in DOMAIN newer : newer[i].id > cut
      /\ \A x \in IdentifiedAt(b) :
           (\E i \in DOMAIN older : h1[i] = x) \/ (\E i \in DOMAIN newer : h2[i] = x)
  BY DEF CutAt
<1>3. /\ mid.latest # NoValue /\ cur.latest \in Nat /\ mid.latest \in Nat
      /\ cur.latest =< mid.latest /\ (mid.latest = cur.latest \/ mid.latest =< cut)
  BY CutCursor
<1>4. \A x \in IdentifiedAt(b) : x \in DOMAIN b /\ b[x].id \in Int
  BY <1>1, IdentifiedFinite
<1>5. ToSet(mid.recent) \subseteq ToSet(cur.recent) \union ToSet(ObservedIds(older, cur.latest))
  <2>1. cur.recent \in Seq(Nat) /\ cur.latest \in Nat \union {NoValue}
    BY DEF Cursors
  <2>2. ObservedIds(older, cur.latest) \in Seq(Nat)
    BY <1>1, <2>1, ObservedMembers
  <2>3. mid.recent = MergeRecent(cur.recent, ObservedIds(older, cur.latest), RecentLimit)
    BY <1>1, PlanRecent
  <2>4. RecentLimit \in Nat
    OBVIOUS
  <2>. QED
    BY <2>1, <2>2, <2>3, <2>4, MergeRecentBounded
<1>6. ToSet(ObservedIds(older, cur.latest)) = {older[i].eid : i \in ObservedAt(older, cur.latest)}
  BY <1>1, <1>3, ObservedMembers
<1> HIDE DEF mid
<1>7. /\ at \in SUBSET IdentifiedAt(b)
      /\ at1 \in SUBSET IdentifiedAt(older) /\ at2 \in SUBSET IdentifiedAt(newer)
  BY CandidatesIdentified
<1>8. \A x \in DOMAIN b : b[x].eid \notin ToSet(cur.recent)
  BY DEF RepeatsAnId
<1>9. \A i \in at1 : h1[i] \in at
  BY <1>1 DEF CandidatesAt, Duplicate
<1>10. ASSUME NEW i \in at2 PROVE h2[i] \in at
  <2>1. h2[i] \in IdentifiedAt(b) /\ newer[i] = b[h2[i]] /\ ~(newer[i].id =< mid.latest)
    BY <1>1, <1>7 DEF CandidatesAt, Duplicate
  <2>2. ~(b[h2[i]].id =< cur.latest)
    BY <1>3, <1>4, <2>1
  <2>. QED
    BY <1>4, <1>8, <2>1, <2>2 DEF CandidatesAt, Duplicate
<1>11. ASSUME NEW x \in at PROVE (\E i \in at1 : h1[i] = x) \/ (\E i \in at2 : h2[i] = x)
  <2>1. x \in IdentifiedAt(b) /\ ~(b[x].id =< cur.latest)
    BY DEF CandidatesAt, Duplicate
  <2>2. ASSUME NEW i \in DOMAIN older, h1[i] = x PROVE i \in at1
    BY <1>1, <1>11, <2>2 DEF CandidatesAt, Duplicate
  <2>3. ASSUME NEW i \in DOMAIN newer, h2[i] = x PROVE i \in at2
    <3>1. newer[i] = b[x] /\ newer[i].id > cut /\ newer[i].id \in Int
      BY <1>1, <1>2, <1>4, <2>1, <2>3
    <3>2. ~(newer[i].id =< mid.latest)
      BY <1>2, <1>3, <2>1, <3>1
    <3>3. newer[i].eid \notin ToSet(ObservedIds(older, cur.latest))
      <4> SUFFICES ASSUME NEW k \in ObservedAt(older, cur.latest), older[k].eid = b[x].eid
                   PROVE  FALSE
        BY <1>6, <3>1
      <4>1. k \in DOMAIN older /\ h1[k] \in DOMAIN b /\ older[k] = b[h1[k]] /\ older[k].id =< cut
        BY <1>1, <1>2, <1>4 DEF ObservedAt
      <4>2. h1[k] # x
        BY <1>2, <3>1, <4>1
      <4>3. x \in DOMAIN b /\ h1[k] \in DOMAIN b \ {x} /\ b[x].eid = b[h1[k]].eid
        BY <1>4, <2>1, <4>1, <4>2
      <4>. QED
        BY <4>3 DEF RepeatsAnId
    <3>4. newer[i].eid \notin ToSet(mid.recent)
      BY <1>4, <1>5, <1>8, <2>1, <3>1, <3>3
    <3>. QED
      BY <1>1, <3>2, <3>4 DEF CandidatesAt, Duplicate
  <2>. QED
    BY <1>2, <2>1, <2>2, <2>3
<1>12. SplitInto(at, at1, h1, at2, h2)
  BY <1>9, <1>10, <1>11 DEF SplitInto
<1>13. \A i \in at1 : \A j \in at2 : older[i].id < newer[j].id
  <2> TAKE i \in at1
  <2> TAKE j \in at2
  <2>1. i \in DOMAIN older /\ j \in DOMAIN newer
    BY <1>1, <1>7
  <2>2. older[i].id \in Int /\ newer[j].id \in Int
    BY <1>1, <1>4, <2>1
  <2>. QED
    BY <1>2, <2>1, <2>2
<1> HIDE DEF at, at1, at2
<1>14. Emissions(b, at) = Emissions(older, at1) \o Emissions(newer, at2)
  <2>1. Parts(b, at, older, h1, at1, newer, h2, at2)
    BY <1>1, <1>7, <1>12, <1>13 DEF Parts
  <2>. QED
    BY <2>1, EmissionsByParts
<1>. QED
  BY <1>14 DEF at, at1, at2, mid

\* Polling the older and then the newer records publishes what one poll does, unless an
\* event ID repeats or the storm bound bites.
PublishTheSame(b, cur, older, newer) ==
  LET mid == PlanBatch(older, cur).cursor
  IN  ~RepeatsAnId(b, cur) /\ PlanBatch(b, cur).suppressed = 0
        => PlanBatch(older, cur).emissions \o PlanBatch(newer, mid).emissions
             = PlanBatch(b, cur).emissions

LEMMA CutSameEmissions ==
  ASSUME NEW b, NEW cut, NEW older, NEW h1, NEW newer, NEW h2, DistinctIds(b),
         CutAt(b, cut, older, h1, newer, h2), NEW cur \in Cursors, cur.latest # NoValue
  PROVE  PublishTheSame(b, cur, older, newer)
<1> SUFFICES ASSUME ~RepeatsAnId(b, cur), PlanBatch(b, cur).suppressed = 0
             PROVE  PlanBatch(older, cur).emissions
                      \o PlanBatch(newer, PlanBatch(older, cur).cursor).emissions
                        = PlanBatch(b, cur).emissions
  BY DEF PublishTheSame
<1> DEFINE mid == PlanBatch(older, cur).cursor
           out == Emissions(b, CandidatesAt(b, cur))
           out1 == Emissions(older, CandidatesAt(older, cur))
           out2 == Emissions(newer, CandidatesAt(newer, mid))
           S == {out1[n] : n \in DOMAIN out1} \union {out2[n] : n \in DOMAIN out2}
<1>1. b \in Seq(RawRecord) /\ older \in Seq(RawRecord) /\ newer \in Seq(RawRecord)
  BY DEF CutAt, PartOf
<1>2. mid \in Cursors /\ mid.latest # NoValue
  BY CutCursor
<1>3. out = out1 \o out2
  BY CutEmissions
<1>4. (\A n \in DOMAIN out1 : out1[n] \in S) /\ (\A n \in DOMAIN out2 : out2[n] \in S)
  OBVIOUS
<1> HIDE DEF S, mid
<1>5. out1 \in Seq(S) /\ out2 \in Seq(S)
  BY <1>1, <1>4, CandidatesIdentified, EmissionsAreSequence
<1>6. /\ Len(out) \in Nat
      /\ PlanBatch(b, cur).emissions = IF Len(out) > EmissionLimit THEN << >> ELSE out
      /\ PlanBatch(b, cur).suppressed = IF Len(out) > EmissionLimit THEN Len(out) ELSE 0
  BY <1>1, PlanEmissions
<1>7. /\ Len(out1) \in Nat
      /\ PlanBatch(older, cur).emissions = IF Len(out1) > EmissionLimit THEN << >> ELSE out1
  BY <1>1, PlanEmissions
<1>8. /\ Len(out2) \in Nat
      /\ PlanBatch(newer, mid).emissions = IF Len(out2) > EmissionLimit THEN << >> ELSE out2
  BY <1>1, <1>2, PlanEmissions
<1> HIDE DEF out, out1, out2
<1>9. Len(out) = Len(out1) + Len(out2)
  BY <1>3, <1>5, GluedParts
<1>10. EmissionLimit \in Nat /\ ~(Len(out) > EmissionLimit)
  BY <1>6
<1>11. ~(Len(out1) > EmissionLimit) /\ ~(Len(out2) > EmissionLimit)
  BY <1>7, <1>8, <1>9, <1>10
<1>. QED
  BY <1>3, <1>6, <1>7, <1>8, <1>10, <1>11 DEF mid

\* Polling up to a record and then the rest ends at the cursor and the cache of one
\* poll and, unless an event ID repeats or the storm bound bites, publishes the same.
THEOREM PollsDoNotShow == Spec => []CuttingIntoPollsIrrelevant
<1>1. Inv => CuttingIntoPollsIrrelevant
  <2> SUFFICES ASSUME Inv, cursor.latest # NoValue, NEW b \in Plannable, DistinctIds(b),
                      NEW cut \in {b[i].id : i \in IdentifiedAt(b)}
               PROVE  LET whole == PlanBatch(b, cursor)
                          upTo  == {i \in IdentifiedAt(b) : b[i].id =< cut}
                          older == PlanBatch(Pick(b, upTo), cursor)
                          newer == PlanBatch(Pick(b, IdentifiedAt(b) \ upTo), older.cursor)
                      IN  /\ newer.cursor = whole.cursor
                          /\ ~RepeatsAnId(b, cursor) /\ whole.suppressed = 0
                               => older.emissions \o newer.emissions = whole.emissions
    BY DEF CuttingIntoPollsIrrelevant
  <2> DEFINE upTo == {i \in IdentifiedAt(b) : b[i].id =< cut}
             rest == IdentifiedAt(b) \ upTo
             part1 == Pick(b, upTo)
             part2 == Pick(b, rest)
             h1 == Places(upTo)
             h2 == Places(rest)
  <2>1. b \in Seq(RawRecord) /\ cursor \in Cursors
    BY BatchesAssumption, TypeIsCursor DEF Plannable, Inv
  <2>2. CutAt(b, cut, part1, h1, part2, h2)
    BY <2>1, CutIntoPicks
  <2> HIDE DEF part1, part2, h1, h2
  <2>3. PlanBatch(part2, PlanBatch(part1, cursor).cursor).cursor = PlanBatch(b, cursor).cursor
    BY <2>1, <2>2, CutSameCursor
  <2>4. PublishTheSame(b, cursor, part1, part2)
    BY <2>1, <2>2, CutSameEmissions
  <2>. QED
    BY <2>3, <2>4 DEF part1, part2, PublishTheSame
<1>. QED
  BY <1>1, InvAlways, PTL
=============================================================================
