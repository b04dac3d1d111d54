-------------------------- MODULE DiscoveryProofs --------------------------
(***************************************************************************)
(* Proofs about Discovery, for any callers, any number of scans and any    *)
(* time an answer is kept.                                                 *)
(***************************************************************************)
EXTENDS Discovery, TLAPS

USE DiscoveryAssumption DEF Scans, Named, state, scans

\* The program starts well typed.
LEMMA InitType == Init => TypeOK
  BY DEF Init, TypeOK

\* Coming back from a scan that is over leaves a well-typed state, if the rest of
\* the step changes no more than who waits.
LEMMA ComesBackType ==
  ASSUME TypeOK, NEW c \in Callers, NEW s \in Scans, s =< started, ~Running(s),
         ComesBack(c, s), UNCHANGED <<scans, now, deserted>>,
         awaits' = awaits \/ awaits' = [awaits EXCEPT ![c] = None]
  PROVE  TypeOK'
<1> USE DEF TypeOK
<1>1. /\ awaits' \in [Callers -> Named]
      /\ \A d \in Callers : awaits'[d] # None => awaits'[d] =< started'
  OBVIOUS
<1>2. task' \in {task, None} /\ age' \in [Callers -> Int]
  BY DEF ComesBack, Keep, Forget, Answer
<1>3. \/ UNCHANGED <<results, expiresAt>>
      \/ results' = s /\ expiresAt' = now + CacheTime /\ scan[s] = "done"
  BY DEF ComesBack, Keep
<1>4. task' \in Named /\ (task' # None => task' =< started')
  BY <1>2
<1>5. /\ results' \in Named /\ expiresAt' \in Nat
      /\ results' # None => results' =< started' /\ scan'[results'] = "done"
  BY <1>3
<1>6. /\ started' \in 0..MaxScans /\ now' \in Nat /\ deserted' \subseteq Scans
      /\ scan' \in [Scans -> {"running", "done", "failed"}] /\ endedAt' \in [Scans -> Nat]
      /\ \A t \in deserted' : t =< started'
      /\ \A t \in Scans : t > started' => scan'[t] = "running"
  OBVIOUS
<1>. QED
  BY <1>1, <1>2, <1>4, <1>5, <1>6

\* Every step keeps the types.
LEMMA StepType == TypeOK /\ [Next]_vars => TypeOK'
<1> SUFFICES ASSUME TypeOK, [Next]_vars PROVE TypeOK'
  OBVIOUS
<1>1. CASE Tick
  BY <1>1 DEF Tick, TypeOK
<1>2. ASSUME NEW s \in Scans, NEW how \in {"done", "failed"}, ScanEnds(s, how)
      PROVE  TypeOK'
  BY <1>2 DEF ScanEnds, Running, TypeOK
<1>3. ASSUME NEW c \in Callers, CallAnsweredFromCache(c) PROVE TypeOK'
  BY <1>3 DEF CallAnsweredFromCache, Answer, Cached, TypeOK
<1>4. ASSUME NEW c \in Callers, CallStartsScan(c) PROVE TypeOK'
  BY <1>4 DEF CallStartsScan, TypeOK
<1>5. ASSUME NEW c \in Callers, CallJoins(c) PROVE TypeOK'
  BY <1>5 DEF CallJoins, TypeOK
<1>6. ASSUME NEW c \in Callers, CallFindsScanOver(c) PROVE TypeOK'
  <2>1. task \in Scans /\ task =< started /\ ~Running(task)
    BY <1>6 DEF CallFindsScanOver, TypeOK
  <2>. QED
    BY <1>6, <2>1, ComesBackType DEF CallFindsScanOver
<1>7. ASSUME NEW c \in Callers, Resume(c) PROVE TypeOK'
  <2>1. awaits[c] \in Scans /\ awaits[c] =< started /\ ~Running(awaits[c])
    BY <1>7 DEF Resume, TypeOK
  <2>. QED
    BY <1>7, <2>1, ComesBackType DEF Resume
<1>8. ASSUME NEW c \in Callers, Cancel(c) PROVE TypeOK'
  BY <1>8 DEF Cancel, Forget, TypeOK
<1>9. CASE UNCHANGED vars
  BY <1>9 DEF vars, TypeOK
<1>. QED
  BY <1>1, <1>2, <1>3, <1>4, <1>5, <1>6, <1>7, <1>8, <1>9 DEF Next, Scanning, Call

\* Type correctness.
THEOREM TypeCorrect == Spec => []TypeOK
  BY InitType, StepType, PTL DEF Spec

-----------------------------------------------------------------------------
(***************************************************************************)
(* Sharing.  The task is forgotten only by a caller that comes back from   *)
(* it, after the scan, or that is cancelled while it waits for it.         *)
(***************************************************************************)

LEMMA InitShared == Init => SharedUntilDeserted
  BY DEF Init, SharedUntilDeserted, Running

LEMMA StepShared ==
  TypeOK /\ SharedUntilDeserted /\ [Next]_vars => SharedUntilDeserted'
<1> SUFFICES ASSUME TypeOK, SharedUntilDeserted, [Next]_vars,
                    NEW s \in Scans, Running(s)', s \notin deserted'
             PROVE  task' = s
  BY DEF SharedUntilDeserted
<1>1. Running(s) /\ s \notin deserted => task = s
  BY DEF SharedUntilDeserted
<1>2. ASSUME NEW c \in Callers, NEW t \in Scans, ~Running(t), ComesBack(c, t),
             UNCHANGED <<scans, deserted>>
      PROVE  task' = s
  <2>1. Running(s) /\ task = s
    BY <1>1, <1>2 DEF Running
  <2>. QED
    BY <1>2, <2>1 DEF ComesBack, Keep, Forget
<1>3. CASE Tick
  BY <1>1, <1>3 DEF Tick, Running
<1>4. ASSUME NEW t \in Scans, NEW how \in {"done", "failed"}, ScanEnds(t, how)
      PROVE  task' = s
  BY <1>1, <1>4 DEF ScanEnds, Running, TypeOK
<1>5. ASSUME NEW c \in Callers, CallAnsweredFromCache(c) \/ CallJoins(c) PROVE task' = s
  BY <1>1, <1>5 DEF CallAnsweredFromCache, CallJoins, Running
<1>6. ASSUME NEW c \in Callers, CallStartsScan(c) PROVE task' = s
  <2>1. task = None /\ task' = started + 1 /\ started' = started + 1
        /\ UNCHANGED <<scan, deserted>>
    BY <1>6 DEF CallStartsScan
  <2>2. CASE s =< started
    <3>1. Running(s)
      BY <2>1, <2>2 DEF Running
    <3>. QED
      BY <1>1, <2>1, <3>1
  <2>3. CASE ~(s =< started)
    BY <2>1, <2>3 DEF Running, TypeOK
  <2>. QED
    BY <2>2, <2>3
<1>7. ASSUME NEW c \in Callers, CallFindsScanOver(c) PROVE task' = s
  <2>1. task \in Scans /\ ~Running(task)
    BY <1>7 DEF CallFindsScanOver, TypeOK
  <2>. QED
    BY <1>2, <1>7, <2>1 DEF CallFindsScanOver
<1>8. ASSUME NEW c \in Callers, Resume(c) PROVE task' = s
  <2>1. awaits[c] \in Scans /\ ~Running(awaits[c])
    BY <1>8 DEF Resume, TypeOK
  <2>. QED
    BY <1>2, <1>8, <2>1 DEF Resume
<1>9. ASSUME NEW c \in Callers, Cancel(c) PROVE task' = s
  <2>1. Running(s) /\ s \notin deserted /\ s # awaits[c]
    BY <1>9 DEF Cancel, Running
  <2>. QED
    BY <1>1, <1>9, <2>1 DEF Cancel, Forget
<1>10. CASE UNCHANGED vars
  BY <1>1, <1>10 DEF vars, Running
<1>. QED
  BY <1>3, <1>4, <1>5, <1>6, <1>7, <1>8, <1>9, <1>10 DEF Next, Scanning, Call

\* Whoever calls while a scan runs joins it, until one of its waiters is cancelled.
THEOREM Shared == Spec => []SharedUntilDeserted
  BY TypeCorrect, InitShared, StepShared, PTL DEF Spec

-----------------------------------------------------------------------------
(***************************************************************************)
(* The cache: which answers it keeps, and how long.                        *)
(***************************************************************************)

LEMMA InitCache == Init => CacheInv
  BY DEF Init, CacheInv, TaskHasWaiter, TaskIsNewer, Punctual, CacheIsDated, AnswersFresh

\* A caller comes back from a scan that ended just now: the first one puts it in
\* the cache, in place of an older one, and every other waiter is still waiting.
LEMMA ComesBackCache ==
  ASSUME TypeOK, CacheInv, NEW c \in Callers, NEW s \in Scans, s =< started,
         ~Running(s), endedAt[s] = now, ComesBack(c, s), UNCHANGED <<scans, now>>,
         \/ awaits' = awaits /\ task = s
         \/ awaits' = [awaits EXCEPT ![c] = None] /\ awaits[c] = s
  PROVE  CacheInv'
<1> USE DEF CacheInv
<1>1. /\ task' = IF task = s THEN None ELSE task
      /\ \/ UNCHANGED <<results, expiresAt>>
         \/ task = s /\ results' = s /\ expiresAt' = now + CacheTime
      /\ age' = age \/ age' = [age EXCEPT ![c] = now - endedAt[s]]
  BY DEF ComesBack, Keep, Forget, Answer
<1>2. TaskHasWaiter'
  <2> SUFFICES ASSUME task' # None PROVE \E d \in Callers : awaits'[d] = task'
    BY DEF TaskHasWaiter
  <2>1. task' = task /\ task # s
    BY <1>1
  <2>2. PICK d \in Callers : awaits[d] = task
    BY <2>1 DEF TaskHasWaiter
  <2>3. awaits'[d] = task
    BY <2>1, <2>2 DEF TypeOK
  <2>. QED
    BY <2>1, <2>3
<1>3. TaskIsNewer'
  BY <1>1 DEF TaskIsNewer
<1>4. Punctual'
  <2>1. \A d \in Callers : awaits'[d] \in {awaits[d], None}
    BY DEF TypeOK
  <2>. QED
    BY <2>1 DEF Punctual, Running
<1>5. CacheIsDated'
  BY <1>1 DEF CacheIsDated
<1>6. AnswersFresh'
  <2>1. now - endedAt[s] = 0
    BY DEF TypeOK
  <2>2. \A d \in Callers : age'[d] \in {age[d], 0}
    BY <1>1, <2>1 DEF TypeOK
  <2>. QED
    BY <2>2 DEF AnswersFresh
<1>. QED
  BY <1>2, <1>3, <1>4, <1>5, <1>6

\* Every step keeps the cache's invariant.
LEMMA StepCache == TypeOK /\ CacheInv /\ [Next]_vars => CacheInv'
<1> SUFFICES ASSUME TypeOK, CacheInv, [Next]_vars PROVE CacheInv'
  OBVIOUS
<1> USE DEF CacheInv
<1>1. CASE Tick
  <2>1. Punctual'
    BY <1>1 DEF Tick, Punctual, Running
  <2>. QED
    BY <1>1, <2>1 DEF Tick, TaskHasWaiter, TaskIsNewer, CacheIsDated, AnswersFresh
<1>2. ASSUME NEW s \in Scans, NEW how \in {"done", "failed"}, ScanEnds(s, how)
      PROVE  CacheInv'
  <2>1. /\ UNCHANGED <<state, started, awaits, now, age>>
        /\ \A t \in Scans : t # s => scan'[t] = scan[t] /\ endedAt'[t] = endedAt[t]
        /\ endedAt'[s] = now /\ Running(s)
    BY <1>2 DEF ScanEnds, TypeOK
  <2>2. Punctual'
    BY <2>1 DEF Punctual, Running, TypeOK
  <2>3. CacheIsDated'
    <3>1. results # None => results \in Scans /\ results # s
      BY <2>1 DEF Running, TypeOK
    <3>. QED
      BY <2>1, <3>1 DEF CacheIsDated
  <2>. QED
    BY <2>1, <2>2, <2>3 DEF TaskHasWaiter, TaskIsNewer, AnswersFresh
<1>3. ASSUME NEW c \in Callers, CallAnsweredFromCache(c) PROVE CacheInv'
  <2>1. AnswersFresh'
    <3>1. now < endedAt[results] + CacheTime /\ results \in Scans
      BY <1>3 DEF CallAnsweredFromCache, Cached, CacheIsDated, TypeOK
    <3>2. now - endedAt[results] < CacheTime
      BY <3>1 DEF TypeOK
    <3>. QED
      BY <1>3, <3>2 DEF CallAnsweredFromCache, Answer, AnswersFresh, TypeOK
  <2>. QED
    BY <1>3, <2>1
    DEF CallAnsweredFromCache, TaskHasWaiter, TaskIsNewer, Punctual, Running, CacheIsDated
<1>4. ASSUME NEW c \in Callers, CallStartsScan(c) PROVE CacheInv'
  <2>1. /\ task' = started + 1 /\ started' = started + 1 /\ started < MaxScans
        /\ awaits' = [awaits EXCEPT ![c] = started + 1]
        /\ UNCHANGED <<results, expiresAt, scan, endedAt, now, age>>
    BY <1>4 DEF CallStartsScan
  <2>2. TaskHasWaiter'
    <3>1. awaits'[c] = task'
      BY <2>1 DEF TypeOK
    <3>. QED
      BY <3>1 DEF TaskHasWaiter
  <2>3. TaskIsNewer'
    BY <2>1 DEF TaskIsNewer, TypeOK
  <2>4. Punctual'
    <3> SUFFICES ASSUME NEW d \in Callers, awaits'[d] # None, ~Running(awaits[d])'
                 PROVE  endedAt'[awaits'[d]] = now'
      BY DEF Punctual
    <3>1. CASE awaits'[d] = awaits[d]
      BY <2>1, <3>1 DEF Punctual, Running, TypeOK
    <3>2. CASE awaits'[d] = started + 1
      <4>1. Running(awaits[d])' \/ scan[started + 1] # "running"
        BY <2>1, <3>2 DEF Running, TypeOK
      <4>2. scan[started + 1] = "running"
        BY <2>1 DEF TypeOK
      <4>. QED
        BY <4>1, <4>2
    <3>. QED
      BY <2>1, <3>1, <3>2 DEF TypeOK
  <2>. QED
    BY <2>1, <2>2, <2>3, <2>4 DEF CacheIsDated, AnswersFresh
<1>5. ASSUME NEW c \in Callers, CallJoins(c) PROVE CacheInv'
  <2>1. TaskHasWaiter'
    BY <1>5 DEF CallJoins, TaskHasWaiter, TypeOK
  <2>2. Punctual'
    <3>1. \A d \in Callers : awaits'[d] = awaits[d] \/ awaits'[d] = task
      BY <1>5 DEF CallJoins, TypeOK
    <3>. QED
      BY <1>5, <3>1 DEF CallJoins, Punctual, Running
  <2>. QED
    BY <1>5, <2>1, <2>2 DEF CallJoins, TaskIsNewer, CacheIsDated, AnswersFresh
<1>6. ASSUME NEW c \in Callers, CallFindsScanOver(c) PROVE CacheInv'
  <2>1. task \in Scans /\ task =< started /\ ~Running(task)
    BY <1>6 DEF CallFindsScanOver, TypeOK
  <2>2. endedAt[task] = now
    BY <2>1 DEF TaskHasWaiter, Punctual
  <2>. QED
    BY <1>6, <2>1, <2>2, ComesBackCache DEF CallFindsScanOver
<1>7. ASSUME NEW c \in Callers, Resume(c) PROVE CacheInv'
  <2>1. awaits[c] \in Scans /\ awaits[c] =< started /\ ~Running(awaits[c])
    BY <1>7 DEF Resume, TypeOK
  <2>2. endedAt[awaits[c]] = now
    BY <2>1 DEF Punctual
  <2>. QED
    BY <1>7, <2>1, <2>2, ComesBackCache DEF Resume
<1>8. ASSUME NEW c \in Callers, Cancel(c) PROVE CacheInv'
  <2>1. /\ task' = IF task = awaits[c] THEN None ELSE task
        /\ \A d \in Callers : awaits'[d] = IF d = c THEN None ELSE awaits[d]
        /\ UNCHANGED <<results, expiresAt, started, scan, endedAt, now, age>>
    BY <1>8 DEF Cancel, Forget, TypeOK
  <2>2. TaskHasWaiter'
    BY <2>1 DEF TaskHasWaiter
  <2>3. Punctual'
    BY <2>1 DEF Punctual, Running
  <2>. QED
    BY <2>1, <2>2, <2>3 DEF TaskIsNewer, CacheIsDated, AnswersFresh
<1>9. CASE UNCHANGED vars
  BY <1>9
  DEF vars, TaskHasWaiter, TaskIsNewer, Punctual, Running, CacheIsDated, AnswersFresh
<1>. QED
  BY <1>1, <1>2, <1>3, <1>4, <1>5, <1>6, <1>7, <1>8, <1>9 DEF Next, Scanning, Call

\* The cache's invariant holds in every behaviour.
THEOREM CacheCorrect == Spec => []CacheInv
  BY TypeCorrect, InitCache, StepCache, PTL DEF Spec

\* No answer is older than the time it may be kept.
THEOREM Fresh == Spec => []AnswersFresh
<1>1. CacheInv => AnswersFresh
  BY DEF CacheInv
<1>. QED
  BY <1>1, CacheCorrect, PTL

\* No caller is ever given what is left of an old scan.
THEOREM NoTaskLeftBehind == Spec => []TaskHasWaiter
<1>1. CacheInv => TaskHasWaiter
  BY DEF CacheInv
<1>. QED
  BY <1>1, CacheCorrect, PTL

Newer == results' # results => results' # None /\ (results # None => results < results')

LEMMA StepNewer == TypeOK /\ CacheInv /\ [Next]_vars => [Newer]_vars
<1> SUFFICES ASSUME TypeOK, CacheInv, [Next]_vars, results' # results PROVE Newer
  BY DEF Newer
<1>1. ASSUME NEW c \in Callers, NEW s \in Scans, ComesBack(c, s) PROVE Newer
  <2>1. task = s /\ results' = s
    BY <1>1 DEF ComesBack, Keep
  <2>. QED
    BY <2>1 DEF CacheInv, TaskIsNewer, Newer, TypeOK
<1>2. PICK c \in Callers : CallFindsScanOver(c) \/ Resume(c)
  BY DEF Next, Scanning, Call, Tick, ScanEnds, CallAnsweredFromCache, CallStartsScan,
         CallJoins, Cancel, vars
<1>3. CASE CallFindsScanOver(c)
  BY <1>1, <1>3 DEF CallFindsScanOver, TypeOK
<1>4. CASE Resume(c)
  BY <1>1, <1>4 DEF Resume, TypeOK
<1>. QED
  BY <1>2, <1>3, <1>4

\* An overtaken scan never replaces the results of a newer one.
THEOREM Newest == Spec => NewestKept
  BY TypeCorrect, CacheCorrect, StepNewer, PTL DEF Spec, NewestKept, Newer

=============================================================================
