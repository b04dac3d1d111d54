---------------------------- MODULE Coordinator ----------------------------
(***************************************************************************)
(* coordinator.py with the parts of __init__.py and event.py that drive    *)
(* it: one poll after another over the children of one hub, the cursor of  *)
(* each child in memory and on disk, and the Event entities that listen.   *)
(*                                                                         *)
(* A record of child c is its position i in log[c]; log[c][i] is the       *)
(* number of emissions it expands to (0: unknown or malformed; see         *)
(* Processor).  What a walk over the pages returns is Fetch's result: the  *)
(* newest records down to some position, all of them.  Each await of the   *)
(* code ends a step, so that the hub, the entities, a reload or a crash    *)
(* may come in between.                                                    *)
(***************************************************************************)
EXTENDS Integers, FiniteSets, Sequences

LOCAL INSTANCE FiniteSetsExt

CONSTANTS Children,       \* device ids of the hub's buttons
          MaxRecords,     \* bound: records ever written per child
          StepCounts,     \* emissions one record may expand to
          Depth,          \* records a walk reads before it is truncated
          EmissionLimit,  \* MAX_EMISSIONS_PER_POLL
          Healthy,        \* children whose reads do not fail for ever
          Absent,         \* no cursor for this child; also "no child"
          Unset           \* a cursor whose latest_record_id is None

ASSUME ConstantsAssumption ==
  /\ MaxRecords \in Nat /\ Depth \in Nat \ {0} /\ EmissionLimit \in Nat
  /\ StepCounts \subseteq Nat
  /\ Absent \notin Nat /\ Unset \notin Nat /\ Absent # Unset
  /\ Absent \notin Children /\ Healthy \subseteq Children

VARIABLES
  log,        \* hub: everything each child ever recorded
  kept,       \* hub: the oldest position it still keeps
  durable,    \* disk: the Store's cursors
  enabled,    \* disk: the entity registry's enabled Event entities
  mode,       \* the config entry: see Modes
  present,    \* self.buttons
  memory,     \* self._cursors
  listeners,  \* children whose Event entity is subscribed
  pc,         \* where _async_update_data waits: see Steps
  todo,       \* child_ids not polled yet
  child,      \* child_id
  top,        \* the newest record of the first page, 0 if it was empty
  floor,      \* the oldest record kept when the first page was read
  next,       \* next_cursors
  emit,       \* the records behind plan.emissions
  fetched,    \* successful_fetches > 0
  count,      \* history: how often each record was handed to its entity
  fate        \* history: what else became of each record

hub     == <<log, kept>>
disk    == <<durable, enabled>>
session == <<mode, present, memory, listeners>>
fetch   == <<child, top, floor, emit>>
poll    == <<pc, todo, fetch, next, fetched>>
history == <<count, fate>>
vars    == <<hub, disk, session, poll, history>>

Ids     == 1..MaxRecords
Cursors == Nat \union {Absent, Unset}

\* setup waits for the first refresh; entry loaded without entities; entities
\* added; polling stopped until the user logs in again; entities removed.
Modes == {"down", "first", "loaded", "running", "reauth", "unloading"}

Steps == {"idle", "next", "fetching", "saving", "saved", "finalSaving", "finalSaved"}

Fates == {"none", "discarded", "unheard", "raised", "lost"}

Written(c) == 1..Len(log[c])

NoCursors == [c \in Children |-> Absent]

Init ==
  /\ log = [c \in Children |-> << >>] /\ kept = [c \in Children |-> 1]
  /\ durable = NoCursors /\ enabled = Children
  /\ mode = "down" /\ present = {} /\ memory = NoCursors /\ listeners = {}
  /\ pc = "idle" /\ todo = {} /\ child = Absent /\ top = 0 /\ floor = 0
  /\ next = NoCursors /\ emit = {} /\ fetched = FALSE
  /\ count = [c \in Children |-> [i \in Ids |-> 0]]
  /\ fate = [c \in Children |-> [i \in Ids |-> "none"]]

-----------------------------------------------------------------------------
(***************************************************************************)
(* The hub (external): a button is used; the log drops its oldest record.  *)
(***************************************************************************)
HubRecord(c, steps) ==
  /\ Len(log[c]) < MaxRecords
  /\ log' = [log EXCEPT ![c] = Append(@, steps)]
  /\ UNCHANGED <<kept, disk, session, poll, history>>

HubEvict(c) ==
  /\ kept[c] =< Len(log[c])
  /\ kept' = [kept EXCEPT ![c] = @ + 1]
  /\ UNCHANGED <<log, disk, session, poll, history>>

-----------------------------------------------------------------------------
(***************************************************************************)
(* The config entry: set up, loaded, unloaded, killed.                     *)
(***************************************************************************)

\* What is volatile is gone and a poll is cancelled wherever it was.
NoFetch    == child' = Absent /\ top' = 0 /\ floor' = 0 /\ emit' = {}
NoPoll     == NoFetch /\ pc' = "idle" /\ todo' = {} /\ fetched' = FALSE /\ next' = NoCursors
EntryGone  == /\ mode' = "down" /\ present' = {} /\ memory' = NoCursors
              /\ listeners' = {}
              /\ NoPoll

\* Records behind a saved cursor that were never handed over: the price of
\* saving first.  (History only.)
Lost(c) == {i \in Ids : /\ durable[c] \in Nat /\ i =< durable[c]
                        /\ count[c][i] = 0 /\ fate[c][i] = "none"}

\* async_setup_entry up to the first refresh: the hub lists its buttons and
\* async_load_cursors takes the stored cursors of those, except unreadable ones.
Setup(listed, unreadable) ==
  /\ mode = "down"
  /\ mode' = "first"
  /\ present' = listed
  /\ memory' = [c \in Children |->
                  IF c \in listed \ unreadable THEN durable[c] ELSE Absent]
  /\ fate' = [c \in Children |-> [i \in Ids |->
                IF i \in Lost(c) THEN "lost" ELSE fate[c][i]]]
  /\ UNCHANGED <<hub, disk, listeners, poll, count>>

\* async_forward_entry_setups: event.py subscribes one entity per enabled child
\* and turns on context filtering.
AddEntitiesOfRegistry ==   \* Slip: entities of children the hub does not list
  /\ mode = "loaded"
  /\ mode' = "running"
  /\ listeners' = enabled
  /\ UNCHANGED <<hub, disk, present, memory, poll, history>>

AddEntities ==
  /\ mode = "loaded"
  /\ mode' = "running"
  /\ listeners' = enabled \intersect present
  /\ UNCHANGED <<hub, disk, present, memory, poll, history>>

\* The user disables an entity, which is removed at once, or enables one, which
\* Home Assistant adds at the next reload.
DisableEntity(c) ==
  /\ c \in enabled
  /\ enabled' = enabled \ {c}
  /\ listeners' = listeners \ {c}
  /\ UNCHANGED <<hub, durable, mode, present, memory, poll, history>>

EnableEntity(c) ==
  /\ c \notin enabled
  /\ enabled' = enabled \union {c}
  /\ UNCHANGED <<hub, durable, session, poll, history>>

\* async_unload_entry: the entities go first, while a poll may still be under
\* way; the rest of the entry, and that poll, go with Close.
UnloadPlatforms ==
  /\ mode \in {"loaded", "running", "reauth"}
  /\ mode' = "unloading"
  /\ listeners' = {}
  /\ UNCHANGED <<hub, disk, present, memory, poll, history>>

Close ==
  /\ mode = "unloading"
  /\ EntryGone
  /\ UNCHANGED <<hub, disk, history>>

\* Home Assistant stops or dies at any moment.
Crash ==
  /\ mode # "down"
  /\ EntryGone
  /\ UNCHANGED <<hub, disk, history>>

-----------------------------------------------------------------------------
(***************************************************************************)
(* _async_update_data.                                                     *)
(***************************************************************************)

\* _child_ids_to_poll: every button before filtering, then the subscribed ones.
ChildIdsToPoll == IF mode = "first" THEN present ELSE listeners

BeginPoll ==
  /\ pc = "idle"
  /\ mode \in {"first", "running"} /\ ChildIdsToPoll # {}
  /\ pc' = "next" /\ todo' = ChildIdsToPoll /\ next' = memory /\ fetched' = FALSE
  /\ UNCHANGED <<hub, disk, session, fetch, history>>

\* The poll ends by an exception: a later poll starts afresh from memory, but
\* the first refresh fails the whole setup.
Abort ==
  /\ IF mode = "first" THEN EntryGone
     ELSE NoPoll /\ UNCHANGED <<mode, present, memory, listeners>>
  /\ UNCHANGED <<hub, disk, history>>

FetchFirstPage(c) ==
  /\ pc = "next" /\ c \in todo
  /\ pc' = "fetching" /\ todo' = todo \ {c} /\ child' = c
  /\ floor' = kept[c]
  /\ top' = IF kept[c] =< Len(log[c]) THEN Len(log[c]) ELSE 0
  /\ UNCHANGED <<hub, disk, session, next, emit, fetched, history>>

\* Slips: the failed child's position is advanced; one failed read ends the poll.
FetchFailsAdvancing ==
  /\ pc = "fetching"
  /\ pc' = "next" /\ NoFetch
  /\ next' = [next EXCEPT ![child] = IF top > 0 THEN top ELSE @]
  /\ UNCHANGED <<hub, disk, session, todo, fetched, history>>
FetchFailsAborting == pc = "fetching" /\ Abort

\* A read fails, or plan_batch raises: this child is skipped, the poll goes on.
FetchFails ==
  /\ pc = "fetching"
  /\ pc' = "next" /\ NoFetch
  /\ UNCHANGED <<hub, disk, session, todo, next, fetched, history>>

\* InvalidAuthentication ends the poll, and polling.
AuthFails ==
  /\ pc = "fetching"
  /\ IF mode = "first" THEN EntryGone
     ELSE /\ NoPoll
          /\ mode' = IF mode = "running" THEN "reauth" ELSE mode
          /\ UNCHANGED <<present, memory, listeners>>
  /\ UNCHANGED <<hub, disk, history>>

\* What a walk from position top may come back with, as Fetch checks: the
\* records from some position up, no further back than the budget allows, and
\* none the hub dropped before the walk could reach it.
\* Slip: the record at the cursor counts as new.
WalkStartsAtCursor(cursor) ==
  {low \in cursor..(top + 1) :
     \E gone \in floor..kept[child] :
       /\ gone =< top
       /\ low = Max({cursor, gone, top - Depth + 1})}

WalkStarts(cursor) ==
  {low \in (cursor + 1)..(top + 1) :
     \E gone \in floor..kept[child] :
       /\ gone =< top
       /\ low = Max({cursor + 1, gone, top - Depth + 1})}

Emissions(low) == MapThenSumSet(LAMBDA i : log[child][i], low..top)

Discard(ids) == fate' = [fate EXCEPT ![child] =
                  [i \in Ids |-> IF i \in ids THEN "discarded" ELSE @[i]]]

\* Slip: emissions are published first and saved with the rest at the end.
PlanUnsaved(cursor, records) ==
  /\ next' = [next EXCEPT ![child] = cursor]
  /\ emit' = records
  /\ fetched' = TRUE
  /\ IF records = {}
     THEN pc' = "next" /\ child' = Absent /\ top' = 0 /\ floor' = 0
     ELSE pc' = "saved" /\ UNCHANGED <<child, top, floor>>

\* The cursor of this child in next_cursors, and where the poll goes on.
Plan(cursor, records) ==
  /\ next' = [next EXCEPT ![child] = cursor]
  /\ emit' = records
  /\ fetched' = TRUE
  /\ IF records = {}
     THEN pc' = "next" /\ child' = Absent /\ top' = 0 /\ floor' = 0
     ELSE pc' = "saving" /\ UNCHANGED <<child, top, floor>>

\* The log is empty: plan_batch gives the cursor back as it is.
FetchNothing ==
  /\ pc = "fetching" /\ top = 0
  /\ Plan(IF memory[child] = Absent THEN Unset ELSE memory[child], {})
  /\ UNCHANGED <<hub, disk, session, todo, history>>

\* No position yet: the newest record becomes the position, nothing is replayed.
FetchBootstraps ==
  /\ pc = "fetching" /\ top > 0 /\ memory[child] \notin Nat
  /\ Plan(top, {})
  /\ Discard(1..top)
  /\ UNCHANGED <<hub, disk, session, todo, count>>

\* Above the storm limit the whole batch is suppressed; otherwise every record
\* that expands to emissions is to be published.
ToPublish(low) == IF Emissions(low) > EmissionLimit THEN {}
                  ELSE {i \in low..top : log[child][i] > 0}

\* Records below the walk are a reported gap.
FetchReturns ==
  /\ pc = "fetching" /\ top > 0 /\ memory[child] \in Nat
  /\ \E low \in WalkStarts(memory[child]) :
       /\ Plan(top, ToPublish(low))
       /\ Discard(((memory[child] + 1)..top) \ ToPublish(low))
  /\ UNCHANGED <<hub, disk, session, todo, count>>

\* Slip: self._cursors is saved, which does not have the new position yet.
SaveLandsOld ==
  /\ pc = "saving"
  /\ pc' = "saved" /\ durable' = memory
  /\ UNCHANGED <<hub, enabled, session, todo, fetch, next, fetched, history>>

\* Store.async_save of this child's position, with every position planned so
\* far in this poll; the file is replaced atomically.
SaveLands ==
  /\ pc = "saving"
  /\ pc' = "saved" /\ durable' = next
  /\ UNCHANGED <<hub, enabled, session, todo, fetch, next, fetched, history>>

\* async_save raises, before or after the file was replaced.
SaveRaises ==
  /\ pc \in {"saving", "saved", "finalSaving", "finalSaved"}
  /\ Abort

\* Of the records to publish, these reached the entity.  (History only.)
Account(heard) ==
  /\ count' = [count EXCEPT ![child] =
                 [i \in Ids |-> IF i \in heard THEN @[i] + 1 ELSE @[i]]]
  /\ fate' = [fate EXCEPT ![child] =
                [i \in Ids |-> IF i \notin emit \ heard THEN @[i]
                               ELSE IF child \in listeners THEN "raised" ELSE "unheard"]]

\* async_save returns: the cursors become current and, with no await between,
\* the child's listener gets the emissions.  A listener that raises has handed
\* over those before the one it failed at.
Publish ==
  /\ pc = "saved"
  /\ memory' = next
  /\ \E done \in 0..top :
       Account({i \in emit : child \in listeners /\ i =< done})
  /\ pc' = "next" /\ NoFetch
  /\ UNCHANGED <<hub, disk, mode, present, listeners, todo, next, fetched>>

Done == /\ mode' = IF mode = "first" THEN "loaded" ELSE mode
        /\ NoPoll

\* All reads failed: UpdateFailed.
EndWithoutReads ==
  /\ pc = "next" /\ todo = {} /\ ~fetched
  /\ Abort

EndUnchanged ==
  /\ pc = "next" /\ todo = {} /\ fetched /\ next = memory
  /\ Done
  /\ UNCHANGED <<hub, disk, present, memory, listeners, history>>

\* Slip: self._cursors is replaced before the save and not after it.
EndChangedEarly ==
  /\ pc = "next" /\ todo = {} /\ fetched /\ next # memory
  /\ pc' = "finalSaving" /\ memory' = next
  /\ UNCHANGED <<hub, disk, mode, present, listeners, todo, fetch, next, fetched, history>>

EndChanged ==
  /\ pc = "next" /\ todo = {} /\ fetched /\ next # memory
  /\ pc' = "finalSaving"
  /\ UNCHANGED <<hub, disk, session, todo, fetch, next, fetched, history>>

FinalSaveLands ==
  /\ pc = "finalSaving"
  /\ pc' = "finalSaved" /\ durable' = next
  /\ UNCHANGED <<hub, enabled, session, todo, fetch, next, fetched, history>>

FinalSaveReturns ==
  /\ pc = "finalSaved"
  /\ memory' = next
  /\ Done
  /\ UNCHANGED <<hub, disk, present, listeners, history>>

-----------------------------------------------------------------------------
Hub      == \E c \in Children : HubEvict(c) \/ \E n \in StepCounts : HubRecord(c, n)

Entry    == \/ \E listed \in SUBSET Children \ {{}} :
                 \E unreadable \in SUBSET listed : Setup(listed, unreadable)
            \/ AddEntities \/ UnloadPlatforms \/ Close \/ Crash
            \/ \E c \in Children : DisableEntity(c) \/ EnableEntity(c)

Fetching == \/ FetchFails \/ AuthFails
            \/ FetchNothing \/ FetchBootstraps \/ FetchReturns

Saving   == \/ SaveLands \/ SaveRaises \/ Publish
            \/ FinalSaveLands \/ FinalSaveReturns

Poll     == \/ BeginPoll \/ \E c \in Children : FetchFirstPage(c)
            \/ Fetching \/ Saving
            \/ EndWithoutReads \/ EndUnchanged \/ EndChanged

Next == Hub \/ Entry \/ Poll

Spec == Init /\ [][Next]_vars

\* Home Assistant's scheduler starts the next poll, every read and every save
\* ends one way or another, and neither the disk nor the reads of a healthy
\* child fail for ever.  Nothing is assumed of the other children, of the
\* buttons, the user or the config entry.
Fairness ==
  /\ WF_vars(BeginPoll) /\ WF_vars(\E c \in Children : FetchFirstPage(c))
  /\ WF_vars(Fetching) /\ WF_vars(Saving)
  /\ WF_vars(EndWithoutReads \/ EndUnchanged \/ EndChanged)
  /\ \A c \in Healthy :
       SF_vars(child = c /\ (FetchNothing \/ FetchBootstraps \/ FetchReturns))
  /\ SF_vars(SaveLands) /\ SF_vars(Publish)
  /\ SF_vars(FinalSaveLands) /\ SF_vars(FinalSaveReturns)

FairSpec == Spec /\ Fairness

-----------------------------------------------------------------------------
(***************************************************************************)
(* What the integration promises.                                          *)
(***************************************************************************)

\* The variables' types, and which of them go together: a child is being polled
\* exactly between its first page and its publication, no poll is left over in
\* an entry that does not poll, and only listed children are polled or heard.
OutsideOK ==
  /\ log \in [Children -> Seq(StepCounts)]
  /\ \A c \in Children : Len(log[c]) =< MaxRecords
  /\ kept \in [Children -> Nat]
  /\ durable \in [Children -> Cursors] /\ enabled \subseteq Children

SessionOK ==
  /\ mode \in Modes /\ present \subseteq Children
  /\ memory \in [Children -> Cursors]
  /\ listeners \subseteq enabled \intersect present
  /\ mode \in {"down", "first", "loaded", "unloading"} => listeners = {}

PollOK ==
  /\ pc \in Steps /\ todo \subseteq present
  /\ next \in [Children -> Cursors]
  /\ child \in Children \union {Absent}
  /\ child # Absent <=> pc \in {"fetching", "saving", "saved"}
  /\ top \in 0..MaxRecords /\ floor \in Nat /\ emit \subseteq Ids
  /\ emit # {} <=> pc \in {"saving", "saved"}
  /\ fetched \in BOOLEAN
  /\ pc = "idle" => todo = {}
  /\ mode \in {"down", "loaded", "reauth"} => pc = "idle"

HistoryOK ==
  /\ count \in [Children -> [Ids -> Nat]]
  /\ fate \in [Children -> [Ids -> Fates]]

TypeOK == OutsideOK /\ SessionOK /\ PollOK /\ HistoryOK

\* README, "a restart will not intentionally replay it": no record is handed to
\* its entity twice, across failed saves, reloads, crashes and hub evictions.
AtMostOnce == \A c \in Children, i \in Ids : count[c][i] =< 1

\* README, "The cursor is saved before Event entities are updated": whenever a
\* record is handed over, the position on disk is already at or past it.
PersistBeforePublish ==
  [][\A c \in Children, i \in Ids :
       count'[c][i] # count[c][i] => durable[c] \in Nat /\ i =< durable[c]]_vars

\* The position on disk is never behind the one in memory, at any point of a
\* poll, so a restart never goes back over what this session has settled.
DiskNotBehindMemory ==
  \A c \in Children :
    memory[c] \in Nat => durable[c] \in Nat /\ memory[c] =< durable[c]

Settled(c, i) == count[c][i] > 0 \/ fate[c][i] # "none"

\* No position moves past a record in silence: each record up to it was handed
\* over, offered to listeners, or given up for one of the documented reasons
\* (bootstrap, unknown record, storm, gap, restart after a save).
NothingSkippedSilently ==
  \A c \in Children :
    memory[c] \in Nat => \A i \in Ids : i =< memory[c] => Settled(c, i)

\* The price of saving first is one batch: what a restart finds saved but never
\* published is of one child only, whichever step of the poll was cut off.
OneBatchLostPerRestart ==
  [][\A c, d \in Children :
       /\ \E i \in Ids : fate[c][i] # "lost" /\ fate'[c][i] = "lost"
       /\ \E i \in Ids : fate[d][i] # "lost" /\ fate'[d][i] = "lost"
       => c = d]_vars

-----------------------------------------------------------------------------
(***************************************************************************)
(* The invariants behind these promises.  CoordinatorProofs shows that     *)
(* each group is inductive given the ones before it.                       *)
(***************************************************************************)

\* A position, wherever it is kept, is one the hub has written and covers all
\* that was handed over.
Covers(cursor, c) ==
  cursor \in Nat => /\ cursor =< Len(log[c])
                    /\ \A i \in Ids : count[c][i] > 0 => i =< cursor

Delivered == \A c \in Children, i \in Ids : count[c][i] > 0 => i =< Len(log[c])

CursorsCover ==
  \A c \in Children : Covers(durable[c], c) /\ Covers(memory[c], c) /\ Covers(next[c], c)

\* The page being walked is not older than anything handed over.
FirstPageCovers == pc = "fetching" /\ top > 0 => Covers(top, child)

\* A poll only moves positions forward.
NextNotBehindMemory ==
  pc # "idle" => \A c \in Children :
                   memory[c] \in Nat => next[c] \in Nat /\ memory[c] =< next[c]

\* What waits for its save is new, and the position to be saved is behind none
\* of it.
BatchIsNew ==
  pc \in {"saving", "saved"} =>
    /\ memory[child] \in Nat /\ next[child] = top
    /\ \A i \in emit : memory[child] < i /\ i =< top

SavedIsNext == pc \in {"saved", "finalSaved"} => durable = next

DeliveryInv == /\ AtMostOnce /\ Delivered /\ CursorsCover /\ FirstPageCovers
               /\ NextNotBehindMemory /\ BatchIsNew /\ SavedIsNext
               /\ DiskNotBehindMemory

\* The records a position has passed without settling them.
Open(cursor, c) == {i \in Ids : cursor \in Nat /\ i =< cursor /\ ~Settled(c, i)}

NextSettled ==
  pc # "idle" => \A c \in Children : Open(next[c], c) \subseteq
                   IF pc \in {"saving", "saved"} /\ c = child THEN emit ELSE {}

\* On disk only one child can be ahead of what is settled.
DiskAheadForOne ==
  \A c, d \in Children :
    Open(durable[c], c) # {} /\ Open(durable[d], d) # {} => c = d

AccountInv == NothingSkippedSilently /\ NextSettled /\ DiskAheadForOne

-----------------------------------------------------------------------------
\* The feed as its user sees it.
Promise == INSTANCE Feed WITH written <- [c \in Children |-> Len(log[c])], times <- count

\* Each record at most once and in the order recorded: the coordinator
\* implements Feed.
ImplementsFeed == Promise!Spec

\* A record of a healthy child with a listening entity is settled sooner or
\* later, even if every read of every other child fails, unless the hub drops
\* the record first or the entity stops listening ("continue" on a failed
\* read; a failed poll leaves the cursors as they were).
HealthyChildServed ==
  \A c \in Healthy, i \in Ids :
    (mode = "running" /\ c \in listeners /\ i \in Written(c))
      ~> \/ mode # "running" \/ c \notin listeners
         \/ i < kept[c]
         \/ memory[c] \in Nat /\ i =< memory[c]

\* README, "A persisted child event is published immediately": setting the entry
\* up does not use up events of an entity that is enabled.
FirstRefreshPublishes ==
  [][\A c \in Children, i \in Ids :
       mode = "first" /\ fate[c][i] # "unheard" /\ fate'[c][i] = "unheard"
         => c \notin enabled]_vars

=============================================================================
