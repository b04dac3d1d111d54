------------------------- MODULE CoordinatorProofs -------------------------
(***************************************************************************)
(* Proofs about Coordinator, for any children, any length of the logs, any *)
(* depth of a walk and any storm limit.                                    *)
(***************************************************************************)
EXTENDS Coordinator, TLAPS

USE DEF Cursors, Modes, Steps, Fates, Ids, hub, disk, session, fetch, poll, history

-----------------------------------------------------------------------------
(***************************************************************************)
(* Type correctness.                                                       *)
(***************************************************************************)

\* A poll that is over leaves nothing behind, whatever the entry does.
LEMMA NoPollOK == NoPoll => PollOK'
<1> SUFFICES ASSUME NoPoll PROVE PollOK'
  OBVIOUS
<1>1. next' \in [Children -> Cursors]
  BY DEF NoPoll, NoCursors
<1>2. top' \in 0..MaxRecords /\ floor' \in Nat
  BY ConstantsAssumption DEF NoPoll, NoFetch
<1>3. emit' = {} /\ todo' = {} /\ pc' = "idle" /\ child' = Absent /\ fetched' = FALSE
  BY DEF NoPoll, NoFetch
<1>. QED
  BY <1>1, <1>2, <1>3 DEF PollOK

\* The program starts well typed.
LEMMA InitType == Init => TypeOK
<1> SUFFICES ASSUME Init PROVE TypeOK
  OBVIOUS
<1>1. OutsideOK
  BY ConstantsAssumption DEF Init, OutsideOK, NoCursors
<1>2. SessionOK
  BY DEF Init, SessionOK, NoCursors
<1>3. PollOK
  <2>1. next \in [Children -> Cursors]
    BY DEF Init, NoCursors
  <2>2. top \in 0..MaxRecords /\ floor \in Nat
    BY ConstantsAssumption DEF Init
  <2>3. emit = {} /\ todo = {} /\ pc = "idle" /\ child = Absent /\ fetched = FALSE
    BY DEF Init
  <2>. QED
    BY <2>1, <2>2, <2>3 DEF PollOK
<1>4. HistoryOK
  BY DEF Init, HistoryOK
<1>. QED
  BY <1>1, <1>2, <1>3, <1>4 DEF TypeOK

\* Every step keeps the types: the hub's and the entry's steps.
LEMMA EntryType ==
  ASSUME TypeOK, Hub \/ Entry PROVE TypeOK'
<1> USE ConstantsAssumption DEF TypeOK, OutsideOK, SessionOK, HistoryOK
<1>1. ASSUME NEW c \in Children, HubEvict(c) PROVE TypeOK'
  BY <1>1 DEF HubEvict, PollOK
<1>2. ASSUME NEW c \in Children, NEW n \in StepCounts, HubRecord(c, n) PROVE TypeOK'
  <2>1. OutsideOK'
    BY <1>2 DEF HubRecord
  <2>2. SessionOK' /\ PollOK' /\ HistoryOK'
    BY <1>2 DEF HubRecord, PollOK
  <2>. QED
    BY <2>1, <2>2
<1>3. ASSUME NEW listed \in SUBSET Children, NEW unreadable \in SUBSET listed,
             Setup(listed, unreadable)
      PROVE  TypeOK'
  <2>1. OutsideOK' /\ SessionOK'
    BY <1>3 DEF Setup
  <2>2. PollOK'
    BY <1>3 DEF Setup, PollOK
  <2>3. HistoryOK'
    BY <1>3 DEF Setup
  <2>. QED
    BY <2>1, <2>2, <2>3
<1>4. CASE AddEntities
  BY <1>4 DEF AddEntities, PollOK
<1>5. CASE UnloadPlatforms
  BY <1>5 DEF UnloadPlatforms, PollOK
<1>6. CASE Close \/ Crash
  <2>1. PollOK'
    BY <1>6, NoPollOK DEF Close, Crash, EntryGone
  <2>2. OutsideOK' /\ SessionOK' /\ HistoryOK'
    BY <1>6 DEF Close, Crash, EntryGone, NoCursors
  <2>. QED
    BY <2>1, <2>2
<1>7. ASSUME NEW c \in Children, DisableEntity(c) PROVE TypeOK'
  BY <1>7 DEF DisableEntity, PollOK
<1>8. ASSUME NEW c \in Children, EnableEntity(c) PROVE TypeOK'
  BY <1>8 DEF EnableEntity, PollOK
<1>. QED
  BY <1>1, <1>2, <1>3, <1>4, <1>5, <1>6, <1>7, <1>8 DEF Hub, Entry

\* Every way in which a poll ends: it leaves the entry alone, brings it from
\* "first" to "loaded", stops it for a new login, or takes it down.
LEMMA PollEndType ==
  ASSUME TypeOK, NoPoll, UNCHANGED hub, UNCHANGED enabled, UNCHANGED history,
         durable' \in [Children -> Cursors], memory' \in [Children -> Cursors],
         \/ EntryGone
         \/ /\ UNCHANGED <<present, listeners>>
            /\ \/ mode' = mode
               \/ mode = "first" /\ mode' = "loaded"
               \/ mode = "running" /\ mode' = "reauth"
  PROVE  TypeOK'
<1>1. PollOK'
  BY NoPollOK
<1>2. OutsideOK' /\ HistoryOK'
  BY DEF TypeOK, OutsideOK, HistoryOK
<1>3. SessionOK'
  BY DEF TypeOK, SessionOK, EntryGone
<1>. QED
  BY <1>1, <1>2, <1>3 DEF TypeOK

\* Every step of a poll keeps the types.
LEMMA PollType ==
  ASSUME TypeOK, Poll PROVE TypeOK'
<1> USE ConstantsAssumption DEF TypeOK
<1>1. CASE BeginPoll
  BY <1>1 DEF BeginPoll, ChildIdsToPoll, OutsideOK, SessionOK, PollOK, HistoryOK
<1>2. ASSUME NEW c \in Children, FetchFirstPage(c) PROVE TypeOK'
  BY <1>2 DEF FetchFirstPage, OutsideOK, SessionOK, PollOK, HistoryOK
<1>3. CASE FetchFails
  BY <1>3 DEF FetchFails, NoFetch, OutsideOK, SessionOK, PollOK, HistoryOK
<1>4. CASE AuthFails
  BY <1>4, PollEndType DEF AuthFails, EntryGone, NoCursors, OutsideOK, SessionOK
<1>5. CASE FetchNothing
  <2>1. PollOK'
    BY <1>5 DEF FetchNothing, Plan, SessionOK, PollOK
  <2>2. OutsideOK' /\ SessionOK' /\ HistoryOK'
    BY <1>5 DEF FetchNothing, OutsideOK, SessionOK, HistoryOK
  <2>. QED
    BY <2>1, <2>2
<1>6. CASE FetchBootstraps
  <2>1. PollOK'
    BY <1>6 DEF FetchBootstraps, Plan, SessionOK, PollOK
  <2>2. HistoryOK'
    BY <1>6 DEF FetchBootstraps, Discard, HistoryOK
  <2>3. OutsideOK' /\ SessionOK'
    BY <1>6 DEF FetchBootstraps, OutsideOK, SessionOK
  <2>. QED
    BY <2>1, <2>2, <2>3
<1>7. CASE FetchReturns
  <2>1. PICK low \in WalkStarts(memory[child]) :
             /\ Plan(top, ToPublish(low))
             /\ Discard(((memory[child] + 1)..top) \ ToPublish(low))
    BY <1>7 DEF FetchReturns
  <2>2. ToPublish(low) \subseteq Ids
    BY <1>7, <2>1 DEF FetchReturns, WalkStarts, ToPublish, PollOK
  <2>3. PollOK'
    BY <1>7, <2>1, <2>2 DEF FetchReturns, Plan, SessionOK, PollOK
  <2>4. HistoryOK'
    BY <1>7, <2>1 DEF FetchReturns, Discard, HistoryOK
  <2>5. OutsideOK' /\ SessionOK'
    BY <1>7 DEF FetchReturns, OutsideOK, SessionOK
  <2>. QED
    BY <2>3, <2>4, <2>5
<1>8. CASE SaveLands
  BY <1>8 DEF SaveLands, OutsideOK, SessionOK, PollOK, HistoryOK
<1>9. CASE SaveRaises \/ EndWithoutReads
  BY <1>9, PollEndType
  DEF SaveRaises, EndWithoutReads, Abort, EntryGone, NoCursors, OutsideOK, SessionOK
<1>10. CASE Publish
  <2>1. HistoryOK'
    <3>1. PICK heard \in SUBSET emit : Account(heard)
      BY <1>10 DEF Publish
    <3>2. count' \in [Children -> [Ids -> Nat]]
      <4> DEFINE row == [i \in Ids |-> IF i \in heard THEN count[child][i] + 1
                                       ELSE count[child][i]]
      <4>1. count' = [count EXCEPT ![child] = row]
        BY <3>1 DEF Account
      <4>2. ASSUME child \in Children PROVE row \in [Ids -> Nat]
        BY <4>2 DEF HistoryOK
      <4> HIDE DEF row
      <4>. QED
        BY <4>1, <4>2 DEF HistoryOK
    <3>3. fate' \in [Children -> [Ids -> Fates]]
      BY <3>1 DEF Account, HistoryOK
    <3>. QED
      BY <3>2, <3>3 DEF HistoryOK
  <2>2. OutsideOK' /\ SessionOK' /\ PollOK'
    BY <1>10 DEF Publish, NoFetch, OutsideOK, SessionOK, PollOK
  <2>. QED
    BY <2>1, <2>2
<1>11. CASE EndUnchanged
  BY <1>11, PollEndType DEF EndUnchanged, Done, OutsideOK, SessionOK
<1>12. CASE EndChanged
  BY <1>12 DEF EndChanged, OutsideOK, SessionOK, PollOK, HistoryOK
<1>13. CASE FinalSaveLands
  BY <1>13 DEF FinalSaveLands, OutsideOK, SessionOK, PollOK, HistoryOK
<1>14. CASE FinalSaveReturns
  BY <1>14, PollEndType DEF FinalSaveReturns, Done, OutsideOK, SessionOK, PollOK
<1>. QED
  BY <1>1, <1>2, <1>3, <1>4, <1>5, <1>6, <1>7, <1>8, <1>9, <1>10, <1>11, <1>12,
     <1>13, <1>14
  DEF Poll, Fetching, Saving

LEMMA StepType == TypeOK /\ [Next]_vars => TypeOK'
<1>1. CASE UNCHANGED vars
  BY <1>1 DEF vars, TypeOK, OutsideOK, SessionOK, PollOK, HistoryOK
<1>. QED
  BY <1>1, EntryType, PollType DEF Next

\* Type correctness, with the coupling of pc, child, emit and the entry's mode.
THEOREM TypeCorrect == Spec => []TypeOK
  BY InitType, StepType, PTL DEF Spec

-----------------------------------------------------------------------------
(***************************************************************************)
(* At most once.  DeliveryInv says that every position kept anywhere (on   *)
(* disk, in memory, in next_cursors, in the page being walked) covers all  *)
(* that was handed over, and that what a poll is about to hand over lies   *)
(* beyond its child's position in memory: so it cannot have been handed    *)
(* over before, even by a session that died.                               *)
(***************************************************************************)

LEMMA InitDelivery == Init => DeliveryInv
  BY ConstantsAssumption
  DEF Init, NoCursors, DeliveryInv, AtMostOnce, Delivered, CursorsCover, Covers,
      FirstPageCovers, NextNotBehindMemory, BatchIsNew, SavedIsNext, DiskNotBehindMemory

\* Nothing but the log changes, and it only grows.
LEMMA LogGrows ==
  ASSUME TypeOK, DeliveryInv, \A c \in Children : Len(log[c]) =< Len(log'[c]),
         \A c \in Children : Len(log[c]) \in Nat /\ Len(log'[c]) \in Nat,
         UNCHANGED <<durable, memory, next, pc, child, top, emit, count>>
  PROVE  DeliveryInv'
<1> USE DEF DeliveryInv
<1>1. AtMostOnce' /\ Delivered'
  BY DEF AtMostOnce, Delivered
<1>2. CursorsCover'
  BY DEF CursorsCover, Covers, TypeOK, OutsideOK, SessionOK, PollOK
<1>3. FirstPageCovers'
  BY DEF FirstPageCovers, Covers, TypeOK, PollOK
<1>4. NextNotBehindMemory' /\ BatchIsNew' /\ SavedIsNext' /\ DiskNotBehindMemory'
  BY DEF NextNotBehindMemory, BatchIsNew, SavedIsNext, DiskNotBehindMemory
<1>. QED
  BY <1>1, <1>2, <1>3, <1>4

\* A poll is over; the cursors in memory are the old ones, none, or those saved.
LEMMA PollOver ==
  ASSUME TypeOK, DeliveryInv, NoPoll, UNCHANGED <<log, count, durable>>,
         \/ memory' = memory
         \/ memory' = NoCursors
         \/ memory' = next /\ pc \in {"saved", "finalSaved"}
  PROVE  DeliveryInv'
<1> USE DEF DeliveryInv
<1>1. AtMostOnce' /\ Delivered'
  BY DEF AtMostOnce, Delivered
<1>2. CursorsCover'
  BY ConstantsAssumption DEF CursorsCover, Covers, NoPoll, NoCursors
<1>3. DiskNotBehindMemory'
  BY ConstantsAssumption
  DEF DiskNotBehindMemory, SavedIsNext, NoCursors, TypeOK, OutsideOK
<1>4. FirstPageCovers' /\ NextNotBehindMemory' /\ BatchIsNew' /\ SavedIsNext'
  BY DEF FirstPageCovers, NextNotBehindMemory, BatchIsNew, SavedIsNext, NoPoll
<1>. QED
  BY <1>1, <1>2, <1>3, <1>4

\* The hub's and the entry's steps keep the invariant.
LEMMA EntryDelivery ==
  ASSUME TypeOK, DeliveryInv, Hub \/ Entry PROVE DeliveryInv'
<1>1. \A c \in Children : Len(log[c]) \in Nat
  BY DEF TypeOK, OutsideOK
<1>2. ASSUME NEW c \in Children, HubEvict(c) PROVE DeliveryInv'
  BY <1>1, <1>2, LogGrows DEF HubEvict
<1>3. ASSUME NEW c \in Children, NEW n \in StepCounts, HubRecord(c, n) PROVE DeliveryInv'
  <2>1. \A d \in Children : Len(log'[d]) \in Nat /\ Len(log[d]) =< Len(log'[d])
    BY <1>1, <1>3 DEF HubRecord, TypeOK, OutsideOK
  <2>. QED
    BY <1>1, <1>3, <2>1, LogGrows DEF HubRecord
<1>4. ASSUME NEW listed \in SUBSET Children, NEW unreadable \in SUBSET listed,
             Setup(listed, unreadable)
      PROVE  DeliveryInv'
  <2>1. \A c \in Children : memory'[c] \in {durable[c], Absent}
    BY <1>4 DEF Setup
  <2>2. pc' = "idle"
    BY <1>4 DEF Setup, TypeOK, PollOK
  <2>3. CursorsCover'
    BY <1>4, <2>1, ConstantsAssumption DEF Setup, DeliveryInv, CursorsCover, Covers
  <2>4. DiskNotBehindMemory'
    BY <1>4, <2>1, ConstantsAssumption
    DEF Setup, DiskNotBehindMemory, TypeOK, OutsideOK
  <2>. QED
    BY <1>4, <2>2, <2>3, <2>4
    DEF Setup, DeliveryInv, AtMostOnce, Delivered, FirstPageCovers,
        NextNotBehindMemory, BatchIsNew, SavedIsNext
<1>5. CASE AddEntities \/ UnloadPlatforms
  BY <1>1, <1>5, LogGrows DEF AddEntities, UnloadPlatforms
<1>6. CASE Close \/ Crash
  BY <1>6, PollOver DEF Close, Crash, EntryGone
<1>7. ASSUME NEW c \in Children, DisableEntity(c) \/ EnableEntity(c) PROVE DeliveryInv'
  BY <1>1, <1>7, LogGrows DEF DisableEntity, EnableEntity
<1>. QED
  BY <1>2, <1>3, <1>4, <1>5, <1>6, <1>7 DEF Hub, Entry

\* A read that came back puts the position of its child forward, and waits for a
\* save only with records beyond the old one.
LEMMA PlanDelivery ==
  ASSUME TypeOK, DeliveryInv, pc = "fetching", NEW cursor \in Cursors, NEW records,
         Plan(cursor, records),
         UNCHANGED <<log, durable, memory, count>>,
         Covers(cursor, child),
         memory[child] \in Nat => cursor \in Nat /\ memory[child] =< cursor,
         records # {} => /\ memory[child] \in Nat /\ cursor = top
                         /\ \A i \in records : memory[child] < i /\ i =< top
  PROVE  DeliveryInv'
<1>1. child \in Children
  BY DEF TypeOK, PollOK
<1>2. /\ next' = [next EXCEPT ![child] = cursor]
      /\ emit' = records
      /\ pc' \in {"next", "saving"}
      /\ pc' = "saving" => records # {} /\ child' = child /\ top' = top
  BY DEF Plan
<1>3. CursorsCover'
  BY <1>1, <1>2 DEF DeliveryInv, CursorsCover, Covers, TypeOK, PollOK
<1>4. NextNotBehindMemory'
  BY <1>1, <1>2 DEF DeliveryInv, NextNotBehindMemory, TypeOK, PollOK
<1>5. BatchIsNew'
  BY <1>1, <1>2 DEF BatchIsNew, TypeOK, PollOK
<1>. QED
  BY <1>2, <1>3, <1>4, <1>5
  DEF DeliveryInv, AtMostOnce, Delivered, FirstPageCovers, SavedIsNext,
      DiskNotBehindMemory

\* What a walk brings back for publication lies beyond the position in memory.
LEMMA WalkIsNew ==
  ASSUME TypeOK, memory[child] \in Nat, NEW low \in WalkStarts(memory[child])
  PROVE  \A i \in ToPublish(low) : i \in Nat /\ memory[child] < i /\ i =< top
  BY DEF WalkStarts, ToPublish, TypeOK, PollOK

\* The record handed over is new to its child, so its count goes from 0 to 1.
LEMMA PublishDelivery ==
  ASSUME TypeOK, DeliveryInv, Publish PROVE DeliveryInv'
<1>1. child \in Children /\ emit \subseteq Ids /\ top \in Nat
  BY DEF Publish, TypeOK, PollOK
<1>2. PICK heard \in SUBSET emit : Account(heard)
  BY DEF Publish
<1>3. \A c \in Children, i \in Ids :
        count'[c][i] = IF c = child /\ i \in heard THEN count[c][i] + 1 ELSE count[c][i]
  BY <1>2 DEF Account, TypeOK, HistoryOK
<1>4. /\ memory[child] \in Nat /\ next[child] = top /\ durable = next
      /\ \A i \in heard : memory[child] < i /\ i =< top
  BY <1>2 DEF Publish, DeliveryInv, BatchIsNew, SavedIsNext
<1>5. ASSUME NEW i \in heard PROVE i \in Ids /\ count[child][i] = 0
  <2>1. i \in Ids /\ memory[child] < i
    BY <1>1, <1>2, <1>4
  <2>2. Covers(memory[child], child)
    BY <1>1 DEF DeliveryInv, CursorsCover
  <2>3. ~(count[child][i] > 0)
    BY <1>4, <2>1, <2>2 DEF Covers
  <2>4. count[child][i] \in Nat
    BY <1>1, <2>1 DEF TypeOK, HistoryOK
  <2>. QED
    BY <2>1, <2>3, <2>4
<1>6. Covers(top, child)
  BY <1>1, <1>4 DEF DeliveryInv, CursorsCover
<1>7. AtMostOnce' /\ Delivered'
  <2>1. AtMostOnce'
    BY <1>3, <1>5 DEF DeliveryInv, AtMostOnce
  <2>2. top =< Len(log[child]) /\ log' = log
    BY <1>1, <1>6 DEF Publish, Covers
  <2>3. Len(log[child]) \in Nat
    BY <1>1 DEF TypeOK, OutsideOK
  <2>4. ASSUME NEW c \in Children, NEW i \in Ids, count'[c][i] > 0
        PROVE  i =< Len(log[c])
    <3>1. CASE c = child /\ i \in heard
      BY <1>1, <1>4, <2>2, <2>3, <3>1
    <3>2. CASE ~(c = child /\ i \in heard)
      BY <1>3, <2>4, <3>2 DEF DeliveryInv, Delivered
    <3>. QED
      BY <3>1, <3>2
  <2>. QED
    BY <2>1, <2>2, <2>4 DEF Delivered
<1>8. CursorsCover'
  <2>1. durable' = next /\ memory' = next /\ next' = next /\ log' = log
    BY <1>4 DEF Publish
  <2>2. ASSUME NEW c \in Children PROVE Covers(next[c], c)'
    BY <1>1, <1>3, <1>4, <2>1
    DEF DeliveryInv, CursorsCover, Covers, TypeOK, HistoryOK
  <2>. QED
    BY <2>1, <2>2 DEF CursorsCover
<1>9. NextNotBehindMemory' /\ DiskNotBehindMemory'
  BY <1>4 DEF Publish, NextNotBehindMemory, DiskNotBehindMemory, TypeOK, PollOK
<1>. QED
  BY <1>7, <1>8, <1>9
  DEF Publish, DeliveryInv, FirstPageCovers, BatchIsNew, SavedIsNext

\* Every step of a poll keeps the invariant.
LEMMA PollDelivery ==
  ASSUME TypeOK, DeliveryInv, Poll PROVE DeliveryInv'
<1>0. /\ \A c \in Children : Len(log[c]) \in Nat
      /\ child \in Children \union {Absent} /\ top \in Nat
  BY DEF TypeOK, OutsideOK, PollOK
<1>1. CASE BeginPoll
  <2>1. CursorsCover'
    BY <1>1 DEF BeginPoll, DeliveryInv, CursorsCover, Covers
  <2>2. NextNotBehindMemory'
    BY <1>1 DEF BeginPoll, NextNotBehindMemory, TypeOK, SessionOK
  <2>. QED
    BY <1>1, <2>1, <2>2
    DEF BeginPoll, DeliveryInv, AtMostOnce, Delivered, FirstPageCovers, BatchIsNew,
        SavedIsNext, DiskNotBehindMemory
<1>2. ASSUME NEW c \in Children, FetchFirstPage(c) PROVE DeliveryInv'
  <2>1. FirstPageCovers'
    BY <1>0, <1>2 DEF FetchFirstPage, FirstPageCovers, Covers, DeliveryInv, Delivered
  <2>2. CursorsCover' /\ NextNotBehindMemory'
    BY <1>2 DEF FetchFirstPage, DeliveryInv, CursorsCover, Covers, NextNotBehindMemory
  <2>. QED
    BY <1>2, <2>1, <2>2
    DEF FetchFirstPage, DeliveryInv, AtMostOnce, Delivered, BatchIsNew, SavedIsNext,
        DiskNotBehindMemory
<1>3. CASE FetchFails
  <2>1. CursorsCover' /\ NextNotBehindMemory'
    BY <1>3 DEF FetchFails, DeliveryInv, CursorsCover, Covers, NextNotBehindMemory
  <2>. QED
    BY <1>3, <2>1
    DEF FetchFails, DeliveryInv, AtMostOnce, Delivered, FirstPageCovers, BatchIsNew,
        SavedIsNext, DiskNotBehindMemory
<1>4. CASE AuthFails \/ SaveRaises \/ EndWithoutReads
  BY <1>4, PollOver DEF AuthFails, SaveRaises, EndWithoutReads, Abort, EntryGone
<1>5. CASE FetchNothing
  <2> DEFINE cursor == IF memory[child] = Absent THEN Unset ELSE memory[child]
  <2>1. child \in Children
    BY <1>5 DEF FetchNothing, TypeOK, PollOK
  <2>2. cursor \in Cursors
    BY <2>1 DEF TypeOK, SessionOK
  <2>3. Covers(cursor, child)
    BY <2>1, ConstantsAssumption DEF DeliveryInv, CursorsCover, Covers
  <2>4. memory[child] \in Nat => cursor \in Nat /\ memory[child] =< cursor
    BY ConstantsAssumption
  <2> HIDE DEF cursor
  <2>5. Plan(cursor, {}) /\ pc = "fetching"
    BY <1>5 DEF FetchNothing, cursor
  <2>6. UNCHANGED <<log, durable, memory, count>>
    BY <1>5 DEF FetchNothing
  <2>. QED
    BY <2>2, <2>3, <2>4, <2>5, <2>6, PlanDelivery
<1>6. CASE FetchBootstraps
  <2>1. Covers(top, child) /\ top \in Cursors
    BY <1>0, <1>6 DEF FetchBootstraps, DeliveryInv, FirstPageCovers
  <2>2. pc = "fetching" /\ Plan(top, {}) /\ memory[child] \notin Nat
    BY <1>6 DEF FetchBootstraps
  <2>3. UNCHANGED <<log, durable, memory, count>>
    BY <1>6 DEF FetchBootstraps
  <2>. QED
    BY <2>1, <2>2, <2>3, PlanDelivery
<1>7. CASE FetchReturns
  <2>1. PICK low \in WalkStarts(memory[child]) : Plan(top, ToPublish(low))
    BY <1>7 DEF FetchReturns
  <2>2. Covers(top, child) /\ top \in Cursors
    BY <1>0, <1>7 DEF FetchReturns, DeliveryInv, FirstPageCovers
  <2>3. /\ pc = "fetching" /\ memory[child] \in Nat
        /\ UNCHANGED <<log, durable, memory, count>>
    BY <1>7 DEF FetchReturns
  <2>4. \A i \in ToPublish(low) : memory[child] < i /\ i =< top
    BY <2>3, WalkIsNew
  <2>5. memory[child] =< top
    BY <1>0, <2>1, <2>3 DEF WalkStarts
  <2>. QED
    BY <2>1, <2>2, <2>3, <2>4, <2>5, PlanDelivery
<1>8. CASE SaveLands \/ FinalSaveLands
  <2>1. /\ durable' = next /\ UNCHANGED <<log, memory, next, child, top, emit, count>>
        /\ pc # "idle"
        /\ \/ pc = "saving" /\ pc' = "saved"
           \/ pc = "finalSaving" /\ pc' = "finalSaved"
    BY <1>8 DEF SaveLands, FinalSaveLands
  <2>2. CursorsCover' /\ DiskNotBehindMemory'
    BY <2>1 DEF DeliveryInv, CursorsCover, Covers, DiskNotBehindMemory,
                NextNotBehindMemory
  <2>. QED
    BY <2>1, <2>2
    DEF DeliveryInv, AtMostOnce, Delivered, FirstPageCovers, BatchIsNew, SavedIsNext,
        NextNotBehindMemory
<1>9. CASE Publish
  BY <1>9, PublishDelivery
<1>10. CASE EndUnchanged
  BY <1>10, PollOver DEF EndUnchanged, Done
<1>11. CASE EndChanged
  <2>1. CursorsCover' /\ NextNotBehindMemory'
    BY <1>11 DEF EndChanged, DeliveryInv, CursorsCover, Covers, NextNotBehindMemory
  <2>. QED
    BY <1>11, <2>1
    DEF EndChanged, DeliveryInv, AtMostOnce, Delivered, FirstPageCovers, BatchIsNew,
        SavedIsNext, DiskNotBehindMemory
<1>12. CASE FinalSaveReturns
  BY <1>12, PollOver DEF FinalSaveReturns, Done
<1>. QED
  BY <1>1, <1>2, <1>3, <1>4, <1>5, <1>6, <1>7, <1>8, <1>9, <1>10, <1>11, <1>12
  DEF Poll, Fetching, Saving

LEMMA StepDelivery == TypeOK /\ DeliveryInv /\ [Next]_vars => DeliveryInv'
<1>1. CASE UNCHANGED vars
  BY <1>1
  DEF vars, DeliveryInv, AtMostOnce, Delivered, CursorsCover, Covers, FirstPageCovers,
      NextNotBehindMemory, BatchIsNew, SavedIsNext, DiskNotBehindMemory
<1>. QED
  BY <1>1, EntryDelivery, PollDelivery DEF Next

\* The inductive invariant behind at-most-once delivery holds in every behaviour.
THEOREM DeliveryCorrect == Spec => []DeliveryInv
  BY TypeCorrect, InitDelivery, StepDelivery, PTL DEF Spec

\* No record reaches its entity twice, whatever fails, dies, reloads or is evicted.
THEOREM DeliveredAtMostOnce == Spec => []AtMostOnce
<1>1. DeliveryInv => AtMostOnce
  BY DEF DeliveryInv
<1>. QED
  BY <1>1, DeliveryCorrect, PTL

\* The position on disk never falls behind the one in memory.
THEOREM DiskLeads == Spec => []DiskNotBehindMemory
<1>1. DeliveryInv => DiskNotBehindMemory
  BY DEF DeliveryInv
<1>. QED
  BY <1>1, DeliveryCorrect, PTL

-----------------------------------------------------------------------------
(***************************************************************************)
(* The position is saved before its records are handed over: only Publish  *)
(* hands over, and it runs after this child's position landed on disk.     *)
(***************************************************************************)

Saved == \A c \in Children, i \in Ids :
           count'[c][i] # count[c][i] => durable[c] \in Nat /\ i =< durable[c]

LEMMA OnlyPublishCounts == [Next]_vars => count' = count \/ Publish
  BY DEF Next, vars, Hub, Entry, Poll, Fetching, Saving, HubEvict, HubRecord, Setup,
         AddEntities, UnloadPlatforms, Close, Crash, DisableEntity, EnableEntity,
         BeginPoll, FetchFirstPage, FetchFails, AuthFails, FetchNothing,
         FetchBootstraps, FetchReturns, SaveLands, SaveRaises, FinalSaveLands,
         FinalSaveReturns, EndWithoutReads, EndUnchanged, EndChanged, Abort

LEMMA PublishIsSaved == TypeOK /\ DeliveryInv /\ Publish => Saved
<1> SUFFICES ASSUME TypeOK, DeliveryInv, Publish PROVE Saved
  OBVIOUS
<1>1. PICK heard \in SUBSET emit : Account(heard)
  BY DEF Publish
<1>2. /\ child \in Children /\ durable[child] = top /\ top \in Nat
      /\ \A i \in heard : i =< top
  BY DEF Publish, DeliveryInv, BatchIsNew, SavedIsNext, TypeOK, PollOK
<1>3. \A c \in Children, i \in Ids :
        count'[c][i] # count[c][i] => c = child /\ i \in heard
  BY <1>1 DEF Account, TypeOK, HistoryOK
<1>. QED
  BY <1>2, <1>3 DEF Saved

\* README, "The cursor is saved before Event entities are updated", in every step.
THEOREM SavedBeforePublished == Spec => PersistBeforePublish
<1>1. TypeOK /\ DeliveryInv /\ [Next]_vars => [Saved]_vars
  BY OnlyPublishCounts, PublishIsSaved DEF Saved
<1>. QED
  BY <1>1, TypeCorrect, DeliveryCorrect, PTL DEF Spec, PersistBeforePublish, Saved

-----------------------------------------------------------------------------
(***************************************************************************)
(* No position moves past a record in silence, and a restart loses one     *)
(* child's batch at most.                                                  *)
(*                                                                         *)
(* What is settled stays settled, so a position that has passed only       *)
(* settled records stays such.  The positions of next_cursors have, but    *)
(* for the batch of the one child that waits for its save; that one        *)
(* exception is also what the disk can be ahead by.                        *)
(***************************************************************************)

StaysSettled == \A c \in Children, i \in Ids : Settled(c, i) => Settled(c, i)'

\* Records behind a position that pass from unsettled to settled, never back.
LEMMA SettledStays == TypeOK /\ [Next]_vars => StaysSettled
<1> SUFFICES ASSUME TypeOK, [Next]_vars PROVE StaysSettled
  OBVIOUS
<1>1. CASE UNCHANGED <<count, fate>>
  BY <1>1 DEF StaysSettled, Settled
<1>2. ASSUME NEW listed \in SUBSET Children, NEW unreadable \in SUBSET listed,
             Setup(listed, unreadable)
      PROVE  StaysSettled
  BY <1>2 DEF Setup, StaysSettled, Settled
<1>3. ASSUME NEW ids, Discard(ids), UNCHANGED count PROVE StaysSettled
  BY <1>3 DEF Discard, StaysSettled, Settled, TypeOK, HistoryOK
<1>4. CASE Publish
  <2>1. PICK heard \in SUBSET emit : Account(heard)
    BY <1>4 DEF Publish
  <2> SUFFICES ASSUME NEW c \in Children, NEW i \in Ids, Settled(c, i)
               PROVE  Settled(c, i)'
    BY DEF StaysSettled
  <2>2. count'[c][i] \in {count[c][i], count[c][i] + 1} /\ count[c][i] \in Nat
    BY <2>1 DEF Account, TypeOK, HistoryOK
  <2>3. fate'[c][i] \in {fate[c][i], "raised", "unheard"}
    BY <2>1 DEF Account, TypeOK, HistoryOK
  <2>. QED
    BY <2>2, <2>3 DEF Settled
<1>5. CASE Hub
  BY <1>1, <1>5 DEF Hub, HubEvict, HubRecord
<1>6. CASE Entry
  BY <1>1, <1>2, <1>6
  DEF Entry, AddEntities, UnloadPlatforms, Close, Crash, DisableEntity, EnableEntity
<1>7. CASE FetchBootstraps \/ FetchReturns
  BY <1>3, <1>7 DEF FetchBootstraps, FetchReturns
<1>8. CASE Poll /\ ~(FetchBootstraps \/ FetchReturns \/ Publish)
  BY <1>1, <1>8
  DEF Poll, Fetching, Saving, BeginPoll, FetchFirstPage, FetchFails, AuthFails,
      FetchNothing, SaveLands, SaveRaises, FinalSaveLands, FinalSaveReturns,
      EndWithoutReads, EndUnchanged, EndChanged, Abort
<1>9. CASE UNCHANGED vars
  BY <1>1, <1>9 DEF vars
<1>. QED
  BY <1>4, <1>5, <1>6, <1>7, <1>8, <1>9 DEF Next

\* A position that did not change has passed no more unsettled records.
LEMMA OpenShrinks ==
  ASSUME StaysSettled, NEW cursor, NEW c \in Children
  PROVE  Open(cursor, c)' \subseteq Open(cursor, c)
  BY DEF StaysSettled, Open

LEMMA InitAccount == Init => AccountInv
  BY ConstantsAssumption
  DEF Init, NoCursors, AccountInv, NothingSkippedSilently, NextSettled,
      DiskAheadForOne, Open

\* What the two other parts come to when expressed by Open.
LEMMA MemoryIsSettled ==
  NothingSkippedSilently <=> \A c \in Children : Open(memory[c], c) = {}
  BY DEF NothingSkippedSilently, Open

\* Nothing is planned or saved: positions stay, or go with the poll or the entry.
LEMMA QuietAccount ==
  ASSUME TypeOK, AccountInv, StaysSettled,
         durable' = durable,
         memory' = memory \/ memory' = NoCursors,
         \/ pc' = "idle"
         \/ UNCHANGED <<pc, child, emit, next>>
         \/ next' = next /\ pc \in {"next", "fetching"}
  PROVE  AccountInv'
<1> USE DEF AccountInv
<1>1. NothingSkippedSilently'
  BY ConstantsAssumption DEF NothingSkippedSilently, StaysSettled, NoCursors
<1>2. DiskAheadForOne'
  <2>1. \A c \in Children : Open(durable[c], c)' \subseteq Open(durable[c], c)
    BY DEF Open, StaysSettled
  <2>. QED
    BY <2>1 DEF DiskAheadForOne
<1>3. NextSettled'
  <2>1. CASE pc' = "idle"
    BY <2>1 DEF NextSettled
  <2>2. CASE pc' # "idle"
    <3>1. next' = next
      BY <2>2
    <3>2. \A c \in Children : Open(next[c], c)' \subseteq Open(next[c], c)
      BY <3>1 DEF Open, StaysSettled
    <3>. QED
      BY <2>2, <3>2 DEF NextSettled
  <2>. QED
    BY <2>1, <2>2
<1>. QED
  BY <1>1, <1>2, <1>3

\* The hub's and the entry's steps keep the account.
LEMMA EntryAccount ==
  ASSUME TypeOK, AccountInv, StaysSettled, Hub \/ Entry PROVE AccountInv'
<1>1. CASE Hub
  BY <1>1, QuietAccount DEF Hub, HubEvict, HubRecord
<1>2. ASSUME NEW listed \in SUBSET Children, NEW unreadable \in SUBSET listed,
             Setup(listed, unreadable)
      PROVE  AccountInv'
  <2>1. ASSUME NEW c \in Children PROVE Open(durable[c], c)' = {}
    <3> SUFFICES ASSUME NEW i \in Ids, durable[c] \in Nat, i =< durable[c]
                 PROVE  Settled(c, i)'
      BY <1>2 DEF Setup, Open
    <3>1. count' = count /\ count[c][i] \in Nat
      BY <1>2 DEF Setup, TypeOK, HistoryOK
    <3>2. fate'[c][i] = IF i \in Lost(c) THEN "lost" ELSE fate[c][i]
      BY <1>2 DEF Setup
    <3>. QED
      BY <3>1, <3>2 DEF Settled, Lost
  <2>2. \A c \in Children : memory'[c] \in {durable[c], Absent} /\ durable' = durable
    BY <1>2 DEF Setup
  <2>3. \A c \in Children : Open(memory[c], c)' = {}
    BY <2>1, <2>2, ConstantsAssumption DEF Open
  <2>4. pc' = "idle"
    BY <1>2 DEF Setup, TypeOK, PollOK
  <2>5. NothingSkippedSilently'
    BY <2>3 DEF NothingSkippedSilently, Open
  <2>. QED
    BY <2>1, <2>4, <2>5 DEF AccountInv, NextSettled, DiskAheadForOne
<1>3. CASE AddEntities \/ UnloadPlatforms
  BY <1>3, QuietAccount DEF AddEntities, UnloadPlatforms
<1>4. CASE Close \/ Crash
  BY <1>4, QuietAccount DEF Close, Crash, EntryGone, NoPoll
<1>5. ASSUME NEW c \in Children, DisableEntity(c) \/ EnableEntity(c) PROVE AccountInv'
  BY <1>5, QuietAccount DEF DisableEntity, EnableEntity
<1>. QED
  BY <1>1, <1>2, <1>3, <1>4, <1>5 DEF Entry

\* A read that came back: what its position passes is settled, but for the batch.
LEMMA PlanAccount ==
  ASSUME TypeOK, AccountInv, StaysSettled, pc = "fetching",
         NEW cursor \in Cursors, NEW records, Plan(cursor, records),
         UNCHANGED <<durable, memory>>,
         \A i \in Ids : cursor \in Nat /\ i =< cursor =>
            i \in records \/ count'[child][i] > 0 \/ fate'[child][i] # "none"
  PROVE  AccountInv'
<1>1. /\ child \in Children
      /\ next' = [next EXCEPT ![child] = cursor]
      /\ emit' = records
      /\ IF records = {} THEN pc' = "next" ELSE pc' = "saving" /\ child' = child
  BY DEF Plan, TypeOK, PollOK
<1>2. ASSUME NEW c \in Children, c # child PROVE Open(next[c], c)' = {}
  <2>1. next'[c] = next[c] /\ Open(next[c], c) = {}
    BY <1>1, <1>2 DEF AccountInv, NextSettled, TypeOK, PollOK
  <2>. QED
    BY <2>1 DEF Open, StaysSettled
<1>3. ASSUME NEW c \in Children, c = child PROVE Open(next[c], c)' \subseteq records
  <2>1. next'[c] = cursor
    BY <1>1, <1>3 DEF TypeOK, PollOK
  <2>. QED
    BY <1>3, <2>1 DEF Open, Settled
<1>4. NextSettled'
  <2> SUFFICES ASSUME NEW c \in Children
               PROVE  Open(next[c], c)' \subseteq
                        IF pc' \in {"saving", "saved"} /\ c = child' THEN emit' ELSE {}
    BY DEF NextSettled
  <2>1. CASE c = child
    BY <1>1, <1>3, <2>1
  <2>2. CASE c # child
    BY <1>2, <2>2
  <2>. QED
    BY <2>1, <2>2
<1>5. NothingSkippedSilently'
  BY DEF AccountInv, NothingSkippedSilently, StaysSettled
<1>6. DiskAheadForOne'
  <2>1. \A c \in Children : Open(durable[c], c)' \subseteq Open(durable[c], c)
    BY DEF Open, StaysSettled
  <2>. QED
    BY <2>1 DEF AccountInv, DiskAheadForOne
<1>. QED
  BY <1>4, <1>5, <1>6 DEF AccountInv

\* Records of the batch that were not handed over have been offered in vain.
LEMMA PublishAccount ==
  ASSUME TypeOK, AccountInv, StaysSettled, Publish PROVE AccountInv'
<1>1. /\ child \in Children /\ pc = "saved" /\ pc' = "next"
      /\ memory' = next /\ next' = next /\ durable' = durable
  BY DEF Publish, TypeOK, PollOK
<1>2. PICK heard \in SUBSET emit : Account(heard)
  BY DEF Publish
<1>3. ASSUME NEW c \in Children PROVE Open(next[c], c)' = {}
  <2>1. ASSUME NEW i \in Ids, c = child, i \in emit PROVE Settled(c, i)'
    <3>1. count[c][i] \in Nat
      BY DEF TypeOK, HistoryOK
    <3>2. CASE i \in heard
      <4>1. count'[c][i] = count[c][i] + 1
        BY <1>2, <2>1, <3>2 DEF Account, TypeOK, HistoryOK
      <4>. QED
        BY <3>1, <4>1 DEF Settled
    <3>3. CASE i \notin heard
      <4>1. fate'[c][i] \in {"raised", "unheard"}
        BY <1>2, <2>1, <3>3 DEF Account, TypeOK, HistoryOK
      <4>. QED
        BY <4>1 DEF Settled
    <3>. QED
      BY <3>2, <3>3
  <2>2. Open(next[c], c) \subseteq IF c = child THEN emit ELSE {}
    BY <1>1 DEF AccountInv, NextSettled
  <2>3. Open(next[c], c)' \subseteq Open(next[c], c)
    BY <1>1 DEF Open, StaysSettled
  <2>4. \A i \in Open(next[c], c)' : i \in Ids /\ ~Settled(c, i)'
    BY DEF Open
  <2>. QED
    BY <2>1, <2>2, <2>3, <2>4
<1>4. NextSettled'
  BY <1>1, <1>3 DEF NextSettled
<1>5. NothingSkippedSilently'
  BY <1>1, <1>3 DEF NothingSkippedSilently, Open
<1>6. DiskAheadForOne'
  <2>1. \A c \in Children : Open(durable[c], c)' \subseteq Open(durable[c], c)
    BY <1>1 DEF Open, StaysSettled
  <2>. QED
    BY <2>1 DEF AccountInv, DiskAheadForOne
<1>. QED
  BY <1>4, <1>5, <1>6 DEF AccountInv

\* Every step of a poll keeps the account.
LEMMA PollAccount ==
  ASSUME TypeOK, AccountInv, StaysSettled, Poll PROVE AccountInv'
<1>1. CASE BeginPoll
  <2>1. next' = memory /\ UNCHANGED <<memory, durable, count, fate>> /\ pc' = "next"
    BY <1>1 DEF BeginPoll
  <2>. QED
    BY <2>1
    DEF AccountInv, NothingSkippedSilently, NextSettled, DiskAheadForOne, Open, Settled
<1>2. ASSUME NEW c \in Children, FetchFirstPage(c) PROVE AccountInv'
  BY <1>2, QuietAccount DEF FetchFirstPage
<1>3. CASE FetchFails
  BY <1>3, QuietAccount DEF FetchFails
<1>4. CASE AuthFails \/ SaveRaises \/ EndWithoutReads
  BY <1>4, QuietAccount
  DEF AuthFails, SaveRaises, EndWithoutReads, Abort, EntryGone, NoPoll
<1>5. CASE FetchNothing
  <2> DEFINE cursor == IF memory[child] = Absent THEN Unset ELSE memory[child]
  <2>1. child \in Children /\ pc = "fetching" /\ Plan(cursor, {})
        /\ UNCHANGED <<durable, memory, count, fate>>
    BY <1>5 DEF FetchNothing, TypeOK, PollOK
  <2>2. cursor \in Cursors
    BY <2>1 DEF TypeOK, SessionOK
  <2>3. ASSUME NEW i \in Ids, cursor \in Nat, i =< cursor
        PROVE  count'[child][i] > 0 \/ fate'[child][i] # "none"
    BY <2>1, <2>3, ConstantsAssumption DEF AccountInv, NothingSkippedSilently, Settled
  <2> HIDE DEF cursor
  <2>. QED
    BY <2>1, <2>2, <2>3, PlanAccount
<1>6. CASE FetchBootstraps
  <2>1. child \in Children /\ pc = "fetching" /\ Plan(top, {}) /\ top \in Nat
        /\ Discard(1..top) /\ UNCHANGED <<durable, memory>>
    BY <1>6 DEF FetchBootstraps, TypeOK, PollOK
  <2>2. ASSUME NEW i \in Ids, i =< top PROVE fate'[child][i] = "discarded"
    BY <2>1, <2>2 DEF Discard, TypeOK, HistoryOK
  <2>. QED
    BY <2>1, <2>2, PlanAccount
<1>7. CASE FetchReturns
  <2>1. child \in Children /\ pc = "fetching" /\ top \in Nat
        /\ memory[child] \in Nat /\ UNCHANGED <<durable, memory, count>>
    BY <1>7 DEF FetchReturns, TypeOK, PollOK
  <2>2. PICK low : /\ Plan(top, ToPublish(low))
                   /\ Discard(((memory[child] + 1)..top) \ ToPublish(low))
    BY <1>7 DEF FetchReturns
  <2>3. ASSUME NEW i \in Ids, i =< top, i \notin ToPublish(low)
        PROVE  count'[child][i] > 0 \/ fate'[child][i] # "none"
    <3>1. CASE i =< memory[child]
      <4>1. Settled(child, i)
        BY <2>1, <3>1 DEF AccountInv, NothingSkippedSilently
      <4>2. fate'[child][i] \in {fate[child][i], "discarded"}
        BY <2>1, <2>2 DEF Discard, TypeOK, HistoryOK
      <4>. QED
        BY <2>1, <4>1, <4>2 DEF Settled
    <3>2. CASE ~(i =< memory[child])
      <4>1. i \in ((memory[child] + 1)..top) \ ToPublish(low)
        BY <2>1, <2>3, <3>2
      <4>2. fate'[child][i] = "discarded"
        BY <2>1, <2>2, <4>1 DEF Discard, TypeOK, HistoryOK
      <4>. QED
        BY <4>2
    <3>. QED
      BY <3>1, <3>2
  <2>. QED
    BY <2>1, <2>2, <2>3, PlanAccount
<1>8. CASE SaveLands \/ FinalSaveLands
  <2>1. /\ durable' = next /\ UNCHANGED <<memory, next, child, emit, count, fate>>
        /\ pc # "idle"
        /\ \/ pc = "saving" /\ pc' = "saved"
           \/ pc = "finalSaving" /\ pc' = "finalSaved"
    BY <1>8 DEF SaveLands, FinalSaveLands
  <2>2. \A c \in Children : /\ Open(durable[c], c)' = Open(next[c], c)
                            /\ Open(next[c], c)' = Open(next[c], c)
    BY <2>1 DEF Open, Settled
  <2>3. DiskAheadForOne'
    BY <2>1, <2>2 DEF AccountInv, NextSettled, DiskAheadForOne
  <2>4. NextSettled'
    BY <2>1, <2>2 DEF AccountInv, NextSettled
  <2>5. NothingSkippedSilently'
    BY <2>1 DEF AccountInv, NothingSkippedSilently, Settled
  <2>. QED
    BY <2>3, <2>4, <2>5 DEF AccountInv
<1>9. CASE Publish
  BY <1>9, PublishAccount
<1>10. CASE EndUnchanged
  BY <1>10, QuietAccount DEF EndUnchanged, Done, NoPoll
<1>11. CASE EndChanged
  <2>1. /\ UNCHANGED <<memory, durable, next, count, fate>>
        /\ pc = "next" /\ pc' = "finalSaving"
    BY <1>11 DEF EndChanged
  <2>. QED
    BY <2>1, QuietAccount
<1>12. CASE FinalSaveReturns
  <2>1. /\ memory' = next /\ pc = "finalSaved" /\ pc' = "idle"
        /\ UNCHANGED <<durable, count, fate>>
    BY <1>12 DEF FinalSaveReturns, Done, NoPoll
  <2>2. \A c \in Children : Open(next[c], c) = {}
    BY <2>1 DEF AccountInv, NextSettled
  <2>3. NothingSkippedSilently'
    BY <2>1, <2>2 DEF NothingSkippedSilently, Open, Settled
  <2>. QED
    BY <2>1, <2>3 DEF AccountInv, NextSettled, DiskAheadForOne, Open, Settled
<1>. QED
  BY <1>1, <1>2, <1>3, <1>4, <1>5, <1>6, <1>7, <1>8, <1>9, <1>10, <1>11, <1>12
  DEF Poll, Fetching, Saving

LEMMA StepAccount == TypeOK /\ AccountInv /\ [Next]_vars => AccountInv'
<1>1. CASE UNCHANGED vars
  BY <1>1
  DEF vars, AccountInv, NothingSkippedSilently, NextSettled, DiskAheadForOne, Open,
      Settled
<1>. QED
  BY <1>1, SettledStays, EntryAccount, PollAccount DEF Next

\* The account holds in every behaviour.
THEOREM AccountCorrect == Spec => []AccountInv
  BY TypeCorrect, InitAccount, StepAccount, PTL DEF Spec

\* No position moves past a record in silence.
THEOREM NothingSkipped == Spec => []NothingSkippedSilently
<1>1. AccountInv => NothingSkippedSilently
  BY DEF AccountInv
<1>. QED
  BY <1>1, AccountCorrect, PTL

-----------------------------------------------------------------------------
(***************************************************************************)
(* Only a setup finds records lost, and those are what the disk is ahead   *)
(* by: of one child.                                                       *)
(***************************************************************************)

LosesOne ==
  \A c, d \in Children :
     /\ \E i \in Ids : fate[c][i] # "lost" /\ fate'[c][i] = "lost"
     /\ \E i \in Ids : fate[d][i] # "lost" /\ fate'[d][i] = "lost"
     => c = d

\* A poll has other words for what becomes of a record.
LEMMA PollsLoseNothing ==
  ASSUME TypeOK, NEW ids, Discard(ids) \/ Account(ids)
  PROVE  \A c \in Children, i \in Ids : fate'[c][i] = "lost" => fate[c][i] = "lost"
<1> TAKE c \in Children, i \in Ids
<1>1. CASE Discard(ids)
  <2>1. fate'[c][i] \in {fate[c][i], "discarded"}
    BY <1>1 DEF Discard, TypeOK, HistoryOK
  <2>. QED
    BY <2>1
<1>2. CASE Account(ids)
  <2>1. fate'[c][i] \in {fate[c][i], "raised", "unheard"}
    BY <1>2 DEF Account, TypeOK, HistoryOK
  <2>. QED
    BY <2>1
<1>. QED
  BY <1>1, <1>2

LEMMA StepLosesOne == TypeOK /\ AccountInv /\ [Next]_vars => LosesOne
<1> SUFFICES ASSUME TypeOK, AccountInv, [Next]_vars PROVE LosesOne
  OBVIOUS
<1>1. CASE fate' = fate
  BY <1>1 DEF LosesOne
<1>2. ASSUME NEW ids, Discard(ids) \/ Account(ids) PROVE LosesOne
  BY <1>2, PollsLoseNothing DEF LosesOne
<1>3. ASSUME NEW listed \in SUBSET Children, NEW unreadable \in SUBSET listed,
             Setup(listed, unreadable)
      PROVE  LosesOne
  <2>1. \A c \in Children, i \in Ids :
          fate[c][i] # "lost" /\ fate'[c][i] = "lost" => i \in Lost(c)
    BY <1>3 DEF Setup
  <2>2. \A c \in Children, i \in Ids : i \in Lost(c) => i \in Open(durable[c], c)
    BY DEF Lost, Open, Settled
  <2>. QED
    BY <2>1, <2>2 DEF LosesOne, AccountInv, DiskAheadForOne
<1>4. CASE Hub
  BY <1>1, <1>4 DEF Hub, HubEvict, HubRecord
<1>5. CASE Entry
  BY <1>1, <1>3, <1>5
  DEF Entry, AddEntities, UnloadPlatforms, Close, Crash, DisableEntity, EnableEntity
<1>6. CASE FetchBootstraps \/ FetchReturns \/ Publish
  BY <1>2, <1>6 DEF FetchBootstraps, FetchReturns, Publish
<1>7. CASE Poll /\ ~(FetchBootstraps \/ FetchReturns \/ Publish)
  BY <1>1, <1>7
  DEF Poll, Fetching, Saving, BeginPoll, FetchFirstPage, FetchFails, AuthFails,
      FetchNothing, SaveLands, SaveRaises, FinalSaveLands, FinalSaveReturns,
      EndWithoutReads, EndUnchanged, EndChanged, Abort
<1>8. CASE UNCHANGED vars
  BY <1>1, <1>8 DEF vars
<1>. QED
  BY <1>4, <1>5, <1>6, <1>7, <1>8 DEF Next

\* The price of saving first is one child's batch per restart.
THEOREM OneBatchLost == Spec => OneBatchLostPerRestart
<1>1. TypeOK /\ AccountInv /\ [Next]_vars => [LosesOne]_vars
  BY StepLosesOne
<1>. QED
  BY <1>1, TypeCorrect, AccountCorrect, PTL
  DEF Spec, OneBatchLostPerRestart, LosesOne

-----------------------------------------------------------------------------
(***************************************************************************)
(* Coordinator implements Feed: what a poll hands over is newer than all   *)
(* its child has had delivered, and was never handed over before.          *)
(***************************************************************************)

written == [c \in Children |-> Len(log[c])]

LEMMA InitFeed == Init => Promise!Init
  BY DEF Init, Promise!Init, Promise!Ids

\* A button is used: Feed writes.
LEMMA RecordWrites ==
  ASSUME TypeOK, NEW c \in Children, NEW n \in StepCounts, HubRecord(c, n)
  PROVE  Promise!Write(c)
<1>1. log[c] \in Seq(StepCounts) /\ log' = [log EXCEPT ![c] = Append(@, n)]
  BY DEF HubRecord, TypeOK, OutsideOK
<1>2. Len(log'[c]) = Len(log[c]) + 1 /\ \A d \in Children : d # c => log'[d] = log[d]
  BY <1>1 DEF TypeOK, OutsideOK
<1>3. written' = [written EXCEPT ![c] = @ + 1]
  BY <1>2 DEF written
<1>4. count' = count /\ Len(log[c]) < MaxRecords
  BY DEF HubRecord
<1>. QED
  BY <1>3, <1>4 DEF Promise!Write, written

\* A publication delivers those of the batch that reach the entity.
LEMMA PublishDelivers ==
  ASSUME TypeOK, DeliveryInv, Publish
  PROVE  \E batch \in SUBSET Promise!Deliverable(child) : Promise!Deliver(child, batch)
<1>1. child \in Children /\ emit \subseteq Ids /\ top \in Nat /\ log' = log
  BY DEF Publish, TypeOK, PollOK
<1>2. PICK heard \in SUBSET emit : Account(heard)
  BY DEF Publish
<1>3. /\ memory[child] \in Nat /\ next[child] = top
      /\ \A i \in heard : memory[child] < i /\ i =< top
  BY <1>2 DEF Publish, DeliveryInv, BatchIsNew
<1>4. Covers(memory[child], child) /\ Covers(next[child], child)
  BY <1>1 DEF DeliveryInv, CursorsCover
<1>5. Len(log[child]) \in Nat
  BY <1>1 DEF TypeOK, OutsideOK
<1>6. ASSUME NEW i \in heard
      PROVE  /\ i \in 1..Len(log[child])
             /\ \A j \in Ids : count[child][j] > 0 => j < i
  <2>1. i \in Nat /\ 1 =< i /\ memory[child] < i /\ i =< top
    BY <1>1, <1>2, <1>3, ConstantsAssumption
  <2>2. top =< Len(log[child])
    BY <1>1, <1>3, <1>4 DEF Covers
  <2>3. \A j \in Ids : count[child][j] > 0 => j =< memory[child]
    BY <1>3, <1>4 DEF Covers
  <2>. QED
    BY <1>1, <1>3, <1>5, <2>1, <2>2, <2>3, ConstantsAssumption
<1>7. heard \in SUBSET Promise!Deliverable(child)
  BY <1>1, <1>6 DEF Promise!Deliverable, Promise!Ids
<1>8. count' = [count EXCEPT ![child] = [i \in Ids |-> IF i \in heard THEN 1 ELSE @[i]]]
  <2>1. ASSUME NEW i \in heard PROVE i \in Ids /\ count[child][i] = 0
    <3>1. i \in Ids
      BY <1>1, <1>2
    <3>2. ~(count[child][i] > 0)
      BY <1>6, <3>1
    <3>3. count[child][i] \in Nat
      BY <1>1, <3>1 DEF TypeOK, HistoryOK
    <3>. QED
      BY <3>1, <3>2, <3>3
  <2>2. [i \in Ids |-> IF i \in heard THEN count[child][i] + 1 ELSE count[child][i]]
      = [i \in Ids |-> IF i \in heard THEN 1 ELSE count[child][i]]
    BY <2>1
  <2>3. count' = [count EXCEPT ![child] = [i \in Ids |->
                    IF i \in heard THEN count[child][i] + 1 ELSE count[child][i]]]
    BY <1>2 DEF Account
  <2>. QED
    BY <2>2, <2>3
<1>9. Promise!Deliver(child, heard)
  BY <1>1, <1>8 DEF Promise!Deliver, Promise!Ids
<1>. QED
  BY <1>7, <1>9

\* Every other step is none of Feed's.
LEMMA OthersStutter ==
  [Next]_vars => \/ \E c \in Children, n \in StepCounts : HubRecord(c, n)
                 \/ Publish
                 \/ UNCHANGED <<log, count>>
  BY DEF Next, vars, Hub, Entry, Poll, Fetching, Saving, HubEvict, Setup,
         AddEntities, UnloadPlatforms, Close, Crash, DisableEntity, EnableEntity,
         BeginPoll, FetchFirstPage, FetchFails, AuthFails, FetchNothing,
         FetchBootstraps, FetchReturns, SaveLands, SaveRaises, FinalSaveLands,
         FinalSaveReturns, EndWithoutReads, EndUnchanged, EndChanged, Abort

LEMMA StepFeed ==
  TypeOK /\ DeliveryInv /\ [Next]_vars => [Promise!Next]_(Promise!vars)
<1> SUFFICES ASSUME TypeOK, DeliveryInv, [Next]_vars PROVE [Promise!Next]_(Promise!vars)
  OBVIOUS
<1>1. CASE \E c \in Children, n \in StepCounts : HubRecord(c, n)
  BY <1>1, RecordWrites DEF Promise!Next
<1>2. CASE Publish
  <2>1. child \in Children
    BY <1>2 DEF Publish, TypeOK, PollOK
  <2>. QED
    BY <1>2, <2>1, PublishDelivers DEF Promise!Next
<1>3. CASE UNCHANGED <<log, count>>
  BY <1>3 DEF Promise!vars
<1>. QED
  BY <1>1, <1>2, <1>3, OthersStutter

\* The coordinator implements Feed: whatever fails, each record is delivered at most
\* once, and never after a newer one of the same child.
THEOREM FeedImplemented == Spec => ImplementsFeed
  BY InitFeed, StepFeed, TypeCorrect, DeliveryCorrect, PTL
  DEF Spec, ImplementsFeed, Promise!Spec
=============================================================================
