----------------------------- MODULE Processor -----------------------------
(***************************************************************************)
(* processor.py: how one poll of one child turns raw trigger-log records   *)
(* into a BatchPlan, that is, the Event emissions to publish and the       *)
(* cursor that must be saved first.                                        *)
(*                                                                         *)
(* A raw record is [id, eid, ts, event, deg].  NoValue stands in any field *)
(* for a value the code refuses: a missing key, a wrong type, an empty     *)
(* string.  Event IDs are strings in the code; only their equality and     *)
(* their order (sorted() compares them) matter, so they are naturals here. *)
(* deg is params["rotate_deg"] of a rotation.                              *)
(***************************************************************************)
EXTENDS Integers, SequencesExt

CONSTANTS NoValue,        \* a field without a usable value, and Python's None
          StepDegrees,    \* ROTATION_STEP_DEGREES
          MaxDegrees,     \* MAX_ROTATION_DEGREES
          EmissionLimit,  \* MAX_EMISSIONS_PER_POLL
          RecentLimit,    \* RECENT_EVENT_IDS_LIMIT
          Batches         \* the record sequences a fetch may return

ASSUME LimitsAssumption ==
  /\ StepDegrees \in Nat \ {0} /\ MaxDegrees \in Nat
  /\ EmissionLimit \in Nat /\ RecentLimit \in Nat \ {0}
  /\ NoValue \notin Int

\* What json.loads may put into the fields the code looks at.
RawRecord == [id : Int \union {NoValue}, eid : Nat \union {NoValue},
              ts : Int \union {NoValue}, event : STRING \union {NoValue},
              deg : Int \union {NoValue}]

ASSUME BatchesAssumption == Batches \subseteq Seq(RawRecord)

VARIABLES cursor,   \* ChildCursor: [latest, recent]
          since     \* history: the event IDs observed after each one published
vars == <<cursor, since>>

(***************************************************************************)
(* parse_record and _rotation_emissions.                                   *)
(***************************************************************************)
Magnitude(d) == IF d < 0 THEN -d ELSE d

Rotatable(d) == /\ d \in Int \ {0}
                /\ d % StepDegrees = 0
                /\ Magnitude(d) =< MaxDegrees

\* id and eid are not in the code's emission: they say which record it came
\* from, for the properties below.
Emission(r, type, step) == [id |-> r.id, eid |-> r.eid, type |-> type, step |-> step]

\* Slip: range(1, steps), without the last step.
RotationEmissionsShort(r) ==
  [k \in 1..(Magnitude(r.deg) \div StepDegrees) - 1 |->
     Emission(r, IF r.deg > 0 THEN "rotate_right" ELSE "rotate_left", k)]

RotationEmissions(r) ==
  [k \in 1..(Magnitude(r.deg) \div StepDegrees) |->
     Emission(r, IF r.deg > 0 THEN "rotate_right" ELSE "rotate_left", k)]

Clicks == [singleClick |-> "single_click", doubleClick |-> "double_click"]

Wellformed(r) == /\ r.id \in Nat /\ r.ts \in Nat
                 /\ r.eid # NoValue /\ r.event # NoValue
                 /\ r.event = "rotation" => Rotatable(r.deg)

Understood(r) == Wellformed(r) /\ r.event \in DOMAIN Clicks \union {"rotation"}

ParseRecord(r) ==
  CASE Understood(r) /\ r.event = "rotation" -> RotationEmissions(r)
    [] Understood(r) /\ r.event # "rotation" -> <<Emission(r, Clicks[r.event], 1)>>
    [] OTHER -> << >>

(***************************************************************************)
(* plan_batch.                                                             *)
(***************************************************************************)
Identified(r) == r.id \in Int

Fresh(r, latest) == latest # NoValue => r.id > latest

\* sorted() compares the tuples (id, eventId, record).  Python cannot order
\* None against a string, nor two different dicts, and raises TypeError.
Incomparable(r, s) ==
  /\ r.id = s.id
  /\ \/ (r.eid = NoValue) # (s.eid = NoValue)
     \/ r.eid = s.eid /\ r # s

Raises(records, cur) ==
  \E i, j \in DOMAIN records :
     /\ \A k \in {i, j} : Identified(records[k]) /\ Fresh(records[k], cur.latest)
     /\ Incomparable(records[i], records[j])

\* Python orders tuples by their first difference.
Precedes(a, b) ==
  \/ a[1] < b[1]
  \/ a[1] = b[1] /\ a[2] < b[2]
  \/ a[1] = b[1] /\ a[2] = b[2] /\ a[3] < b[3]

\* What has a key, in the order of the keys; no two keys are equal.
Rank(key, x) == Cardinality({y \in DOMAIN key : Precedes(key[y], key[x])})
InOrder(key) ==
  [n \in 1..Cardinality(DOMAIN key) |-> CHOOSE x \in DOMAIN key : Rank(key, x) = n - 1]

\* The members of s at the positions in at, in their order.
Pick(s, at) ==
  LET order == InOrder([i \in at |-> <<i, 0, 0>>])
  IN  [n \in DOMAIN order |-> s[order[n]]]

\* Slip: an event ID seen again is appended again.
MergeRecentAppending(existing, observed, limit) ==
  LET all == existing \o observed
  IN  Pick(all, {i \in DOMAIN all : Len(all) - i < limit})

\* Each event ID at its last position only, and the newest limit of those.
MergeRecent(existing, observed, limit) ==
  LET all  == existing \o observed
      last == {i \in DOMAIN all : \A j \in DOMAIN all : j > i => all[j] # all[i]}
  IN  Pick(all, {i \in last : Cardinality({j \in last : j > i}) < limit})

IdentifiedAt(records) == {i \in DOMAIN records : Identified(records[i])}

\* Slip: IDs are remembered in page order, newest first.
IdentityInPageOrder(records, i) == <<0, 0, i>>

\* sorted() on (id, eventId, record): equal pairs are equal records here, and
\* which of those comes first does not show.
Identity(records, i) == <<records[i].id, records[i].eid, i>>

ObservedIds(records, latest) ==
  LET at    == {i \in IdentifiedAt(records) :
                  Fresh(records[i], latest) /\ records[i].eid # NoValue}
      order == InOrder([i \in at |-> Identity(records, i)])
  IN  [n \in DOMAIN order |-> records[order[n]].eid]

\* Slip: the cursor is set by the first poll and never moved again.
NextCursorOnlyBootstraps(records, cur) ==
  IF cur.latest # NoValue THEN cur
  ELSE [latest |-> Max({records[i].id : i \in IdentifiedAt(records)}), recent |-> << >>]

NextCursor(records, cur) ==
  [latest |-> Max({IF cur.latest = NoValue THEN 0 ELSE cur.latest}
                    \union {records[i].id : i \in IdentifiedAt(records)}),
   recent |-> MergeRecent(cur.recent, ObservedIds(records, cur.latest), RecentLimit)]

\* Slip: seen_ids is not looked at.
DuplicateByPosition(r, cur) == r.id =< cur.latest

Duplicate(r, cur) == r.id =< cur.latest \/ r.eid \in ToSet(cur.recent)

CandidatesAt(records, cur) == {i \in IdentifiedAt(records) : ~Duplicate(records[i], cur)}

\* Slips: the candidates stay in page order; newest first, as the hub's pages are.
SlotUnsorted(records, i, k) == <<0, i, k>>
SlotNewestFirst(records, i, k) == <<-records[i].id, i, k>>

\* candidates.sort is stable: records with one ID keep their order; the emissions
\* of a record stay together (extend).
Slot(records, i, k) == <<records[i].id, i, k>>

\* The k-th emission of the record at i, for every candidate and every k.
Emissions(records, at) ==
  LET slots == UNION {{i} \X DOMAIN ParseRecord(records[i]) : i \in at}
      order == InOrder([s \in slots |-> Slot(records, s[1], s[2])])
  IN  [n \in DOMAIN order |-> ParseRecord(records[order[n][1]])[order[n][2]]]

NothingPlanned(cur) ==
  [cursor |-> cur, emissions |-> << >>, processed |-> 0, duplicate |-> 0,
   ignored |-> 0, suppressed |-> 0, bootstrapped |-> FALSE]

PlanBatch(records, cur) ==
  LET identified   == IdentifiedAt(records)
      unidentified == Len(records) - Cardinality(identified)
      candidates   == CandidatesAt(records, cur)
      unusable     == {i \in candidates : ~Understood(records[i])}
      emissions    == Emissions(records, candidates)
      storm        == Len(emissions) > EmissionLimit
  IN  CASE identified = {} ->
             [NothingPlanned(cur) EXCEPT !.ignored = unidentified]
        [] identified # {} /\ cur.latest = NoValue ->
             [NothingPlanned(NextCursor(records, cur)) EXCEPT
                !.processed = Cardinality(identified), !.ignored = unidentified,
                !.bootstrapped = TRUE]
        [] OTHER ->
             [cursor       |-> NextCursor(records, cur),
              emissions    |-> IF storm THEN << >> ELSE emissions,
              processed    |-> Cardinality(candidates),
              duplicate    |-> Cardinality(identified) - Cardinality(candidates),
              ignored      |-> unidentified + Cardinality(unusable),
              suppressed   |-> IF storm THEN Len(emissions) ELSE 0,
              bootstrapped |-> FALSE]

(***************************************************************************)
(* One child polled again and again: the coordinator keeps the cursor of   *)
(* each plan, and keeps the old one when plan_batch raises.                *)
(***************************************************************************)
NewCursor == [latest |-> NoValue, recent |-> << >>]   \* ChildCursor()

Init == cursor = NewCursor /\ since = [e \in {} |-> {}]

EmittedIds(p) == {p.emissions[n].eid : n \in DOMAIN p.emissions}

\* Of the observed IDs, those after the last e; all if e is not among them.
After(observed, e) ==
  {observed[i] : i \in {k \in DOMAIN observed : \A j \in k..Len(observed) : observed[j] # e}}

Poll(records) ==
  LET plan     == PlanBatch(records, cursor)
      observed == ObservedIds(records, cursor.latest)
  IN  /\ ~Raises(records, cursor)
      /\ cursor' = plan.cursor
      /\ since' = [e \in DOMAIN since \union EmittedIds(plan) |->
                     After(observed, e) \union
                       IF e \in ToSet(observed) \/ e \notin DOMAIN since THEN {} ELSE since[e]]

FailedPoll(records) == Raises(records, cursor) /\ UNCHANGED vars

Next == \E records \in Batches : Poll(records) \/ FailedPoll(records)

Spec == Init /\ [][Next]_vars

-----------------------------------------------------------------------------
(***************************************************************************)
(* What a batch promises, whichever cursor the polls before it have left.  *)
(***************************************************************************)

\* The cursor stays a position and a bounded cache of distinct event IDs,
\* whatever the hub returns (ChildCursor, _merge_recent_ids).
TypeOK ==
  /\ cursor \in [latest : Nat \union {NoValue}, recent : Seq(Nat)]
  /\ Len(cursor.recent) =< RecentLimit
  /\ IsInjective(cursor.recent)
  /\ DOMAIN since \subseteq Nat /\ since \in [DOMAIN since -> SUBSET Nat]

Plannable == {b \in Batches : ~Raises(b, cursor)}

Accepted(records, cur) ==
  {i \in DOMAIN records : /\ Understood(records[i])
                          /\ records[i].id > cur.latest
                          /\ records[i].eid \notin ToSet(cur.recent)}

\* An independent count of the steps a record stands for.
Steps(r) == IF r.event = "rotation" THEN Magnitude(r.deg) \div StepDegrees ELSE 1

\* No record vanishes: each is accepted, a duplicate or ignored, and counted as
\* such; the accepted ones are published completely or, above the limit,
\* suppressed completely, and the cursor moves past all of them either way
\* (plan_batch's counters, the storm bound and next_cursor).
EveryRecordAccountedFor ==
  cursor.latest # NoValue =>
    \A b \in Plannable :
      LET p        == PlanBatch(b, cursor)
          accepted == Accepted(b, cursor)
          total    == Cardinality(UNION {{i} \X (1..Steps(b[i])) : i \in accepted})
      IN  /\ Cardinality(accepted) + p.duplicate + p.ignored = Len(b)
          /\ Len(p.emissions) + p.suppressed = total
          /\ total > EmissionLimit <=> p.suppressed > 0
          /\ p.suppressed > 0 => p.emissions = << >>
          /\ \A i \in DOMAIN b : Identified(b[i]) => p.cursor.latest >= b[i].id

\* What is published is newer than the cursor it was planned from and comes out
\* oldest first, the steps of one rotation in order and together, whatever the
\* order of the records in the pages (candidates.sort, _rotation_emissions).
OldestFirst ==
  \A b \in Plannable :
    LET out == PlanBatch(b, cursor).emissions
    IN  \A n \in DOMAIN out :
          /\ out[n].id > cursor.latest
          /\ n > 1 => \/ out[n].step = 1 /\ out[n - 1].id =< out[n].id
                      \/ out[n] = [out[n - 1] EXCEPT !.step = @ + 1]

DistinctIds(records) ==
  \A i, j \in DOMAIN records :
     i # j /\ Identified(records[i]) => records[i].id # records[j].id

\* The hub's page order does not show: the same records in reverse give the same
\* cursor, the same cache of event IDs and the same emissions.
PageOrderIrrelevant ==
  \A b \in Plannable :
    DistinctIds(b) => PlanBatch(Reverse(b), cursor) = PlanBatch(b, cursor)

\* A poll that reads the same records again with the cursor they left publishes
\* nothing and leaves the cursor and the cache as they are (plan_batch).
RereadingIsSilent ==
  \A b \in Plannable :
    LET first == PlanBatch(b, cursor)
        again == PlanBatch(b, first.cursor)
    IN  again.emissions = << >> /\ again.cursor = first.cursor

\* An event ID of the batch is in the cache already, or comes twice.
RepeatsAnId(records, cur) ==
  \E i \in DOMAIN records :
     \/ records[i].eid \in ToSet(cur.recent)
     \/ \E j \in DOMAIN records \ {i} : records[i].eid = records[j].eid

\* How the records are cut into polls does not show: polling up to a record and
\* then the rest ends at the same cursor and cache as one poll, and unless an
\* event ID repeats or the storm bound bites, publishes the same emissions.
CuttingIntoPollsIrrelevant ==
  cursor.latest # NoValue =>
    \A b \in {x \in Plannable : DistinctIds(x)} :
      \A cut \in {b[i].id : i \in IdentifiedAt(b)} :
        LET whole == PlanBatch(b, cursor)
            upTo  == {i \in IdentifiedAt(b) : b[i].id =< cut}
            older == PlanBatch(Pick(b, upTo), cursor)
            newer == PlanBatch(Pick(b, IdentifiedAt(b) \ upTo), older.cursor)
        IN  /\ newer.cursor = whole.cursor
            /\ ~RepeatsAnId(b, cursor) /\ whole.suppressed = 0
                 => older.emissions \o newer.emissions = whole.emissions

\* An event ID published by one poll is not published by a later one, even under
\* a new record ID, before as many other IDs were observed as the cache holds
\* (seen_ids, RECENT_EVENT_IDS_LIMIT).
NeverRepublished ==
  \A b \in Plannable : \A e \in EmittedIds(PlanBatch(b, cursor)) :
    e \in DOMAIN since => Cardinality(since[e]) >= RecentLimit

CursorAfter(records) ==
  IF Raises(records, cursor) THEN cursor ELSE PlanBatch(records, cursor).cursor

\* README, "Unknown or malformed records are advanced past": a poll moves the
\* cursor past every record that has an ID.
MalformedRecordsAdvancedPast ==
  cursor.latest # NoValue =>
    \A b \in Batches : \A i \in DOMAIN b :
      Identified(b[i]) => CursorAfter(b).latest >= b[i].id

=============================================================================
