------------------------------- MODULE Fetch -------------------------------
(***************************************************************************)
(* api.py, async_fetch_since: one child's trigger log read backward, page  *)
(* by page, from the newest record to the stored cursor.  The button goes  *)
(* on writing to the hub's log, and the hub goes on dropping the oldest    *)
(* entries, between any two pages.                                         *)
(*                                                                         *)
(* An entry of the log is its position, a positive natural.  kind says     *)
(* what the hub serves there: a "record" whose integer "id" is that        *)
(* position, an "unnumbered" object without an integer id, or "junk" that  *)
(* is no object at all.                                                    *)
(***************************************************************************)
EXTENDS Integers, FiniteSets, FiniteSetsExt

CONSTANTS FirstSize,  \* first_page_size, after min(first_page_size, page_size)
          PageSize,   \* page_size
          MaxPages,   \* max_pages
          MaxId,      \* bound: positions the log may ever use
          Kinds,      \* the kinds of entry that occur
          NoValue     \* latest_record_id = None

ASSUME SizesAssumption ==
  /\ FirstSize \in Nat \ {0} /\ PageSize \in Nat \ {0} /\ FirstSize =< PageSize
  /\ MaxPages \in Nat \ {0} /\ MaxId \in Nat
  /\ Kinds \subseteq {"record", "unnumbered", "junk"}
  /\ NoValue \notin Int

VARIABLES log,        \* positions the hub still keeps
          newest,     \* the last position written
          kind,       \* what is served at each position; never changes
          latest,     \* argument: latest_record_id
          page,       \* page_number
          start,      \* start_id
          taken,      \* len(records)
          collected,  \* the numbered records in records
          result,     \* "idle", "walking", "failed", or the FetchResult's meaning
          offered,    \* history: the numbered records kept when the walk began
          repeated    \* history: numbered records read on two pages

hub  == <<log, newest, kind>>
walk == <<latest, page, start, taken, collected, result, offered, repeated>>
vars == <<hub, walk>>

Positions == 1..MaxId
Budget    == PageSize * MaxPages                       \* record_budget
Results   == {"bootstrap", "reached", "gap", "truncated"}
Numbered(S) == {i \in S : kind[i] = "record"}

Init == /\ log = {} /\ newest = 0
        /\ kind \in [Positions -> Kinds]
        /\ latest = NoValue /\ page = 0 /\ start = 0 /\ taken = 0
        /\ collected = {} /\ offered = {} /\ repeated = {}
        /\ result = "idle"

(***************************************************************************)
(* The hub (external).  Pagination is descending and inclusive; start_id 0 *)
(* selects the newest page.                                                *)
(***************************************************************************)
HubAppend == /\ newest < MaxId
             /\ newest' = newest + 1
             /\ log' = log \union {newest'}
             /\ UNCHANGED <<kind, walk>>

HubEvict == /\ log # {}
            /\ log' = log \ {Min(log)}
            /\ UNCHANGED <<newest, kind, walk>>

HubPage(from, size) ==
  LET below == {i \in log : from # 0 => i =< from}
  IN  {i \in below : Cardinality({j \in below : j > i}) < size}

(***************************************************************************)
(* The walk.                                                               *)
(***************************************************************************)
Begin(l) == /\ result # "walking"
            /\ latest' = l
            /\ page' = 0 /\ start' = 0 /\ taken' = 0
            /\ collected' = {} /\ offered' = {} /\ repeated' = {}
            /\ result' = "walking"
            /\ UNCHANGED hub

CurrentSize == IF page = 0 THEN FirstSize ELSE PageSize

\* Slips: the page that holds the oldest record is asked for again; record IDs
\* are taken for dense, and the next page counted from the newest.
NextStartInclusive(ids) == Min(ids)
NextStartDense(ids) == Max(ids) - PageSize

NextStart(ids) == Min(ids) - 1

\* Slip: the first, smaller page is held against page_size.
ShortPageBySize(objects) == Cardinality(objects) < PageSize

ShortPage(objects) == Cardinality(objects) < CurrentSize

\* Slip: next_start_id may reach 0, which selects the newest page.
ExhaustedWithoutFloor(objects, ids) == ShortPage(objects) \/ ids = {}

Exhausted(objects, ids) == \/ ShortPage(objects)
                           \/ ids = {}
                           \/ NextStart(ids) < 1
                           \/ start > 0 /\ NextStart(ids) >= start

\* Slip: the loop has no bound.
WithinBudgetAlways(objects) == TRUE

WithinBudget(objects) == taken + Cardinality(objects) < Budget

\* What the loop does after a page of these objects with these integer ids.
Outcome(objects, ids) ==
  IF latest = NoValue THEN "bootstrap"
  ELSE IF \E i \in ids : i =< latest THEN "reached"
  ELSE IF Exhausted(objects, ids) THEN "gap"
  ELSE IF WithinBudget(objects) THEN "walking" ELSE "truncated"

FetchPage ==
  LET reply   == HubPage(start, CurrentSize)
      objects == {i \in reply : kind[i] # "junk"}
      ids     == Numbered(reply)
  IN  /\ result = "walking"
      /\ page' = page + 1
      /\ taken' = taken + Cardinality(objects)
      /\ collected' = collected \union ids
      /\ repeated' = repeated \union (collected \intersect ids)
      /\ offered' = IF page = 0 THEN Numbered(log) ELSE offered
      /\ result' = Outcome(objects, ids)
      /\ start' = IF result' \in {"walking", "truncated"} THEN NextStart(ids) ELSE start
      /\ UNCHANGED <<hub, latest>>

\* No answer, an answer that is no object, or one without a list of logs.
PageFails == /\ result = "walking"
             /\ result' = "failed"
             /\ UNCHANGED <<hub, latest, page, start, taken, collected, offered, repeated>>

Next == \/ HubAppend \/ HubEvict
        \/ \E l \in 0..newest \union {NoValue} : Begin(l)
        \/ FetchPage \/ PageFails

Spec == Init /\ [][Next]_vars

-----------------------------------------------------------------------------
(***************************************************************************)
(* What the walk promises.                                                 *)
(***************************************************************************)

\* The walk's state; once past the first page it names a position to go on
\* from, never 0, which would start over at the newest page.
TypeOK ==
  /\ log \subseteq 1..newest /\ newest \in 0..MaxId
  /\ kind \in [Positions -> Kinds]
  /\ latest \in Nat \union {NoValue}
  /\ page \in Nat /\ taken \in Nat /\ start \in Nat
  /\ result \in Results \union {"idle", "walking", "failed"}
  /\ result = "walking" => (start = 0 <=> page = 0)
  /\ collected \subseteq Numbered(1..newest) /\ offered \subseteq Numbered(1..newest)
  /\ repeated \subseteq collected

Wanted == {i \in offered : i > latest}

\* Nothing is lost silently: a walk that reports the cursor as reached holds
\* every record newer than the cursor that the hub had when the walk began,
\* however many it wrote or dropped meanwhile; any other walk lacks only records
\* older than all it holds, so the cursor never jumps over a hole it did not
\* report (FetchResult's reached_cursor, history_gap and truncated).
NothingSkipped ==
  /\ result = "reached" => Wanted \subseteq collected
  /\ result \in {"walking", "gap", "truncated"} /\ page > 0 =>
       \A i \in Wanted \ collected, j \in collected : i < j

\* No record is read on two pages, whatever the hub writes between them
\* ("subsequent pages use oldest_id - 1 to avoid overlap", api.py).
NoRecordReadTwice == repeated = {}

\* A walk reads less than one page above its budget, in at most one page more
\* than max_pages (the first page is a small one), and is called truncated only
\* when the budget is used up.
Bounded ==
  /\ taken < Budget + PageSize
  /\ page =< MaxPages + 1
  /\ result = "truncated" => taken >= Budget

\* A gap is reported only if there is one: unless the hub served something that is
\* no record, a walk that stops at a gap has read every record after the cursor
\* that the hub still keeps ("page backward until the stored cursor is reached").
\* An entry without an ID may end the walk early, for its page looks short or
\* names no position to go on from.
GapMeansGone ==
  result = "gap" /\ Numbered(1..newest) = 1..newest =>
    Wanted \intersect log \subseteq collected

=============================================================================
