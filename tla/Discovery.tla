----------------------------- MODULE Discovery -----------------------------
(***************************************************************************)
(* discovery.py, _async_discover_devices: one UDP scan shared by everyone  *)
(* who wants the hubs' addresses at the same time, and its answer kept for *)
(* DISCOVERY_CACHE_SECONDS.                                                *)
(*                                                                         *)
(* A scan is named by its number in the order of starting, and its results *)
(* are its name: what the properties need to know of an answer is whose    *)
(* it is and how old.  Callers run between their awaits one at a time;     *)
(* those a scan wakes may run in any order, and new ones in between.       *)
(***************************************************************************)
EXTENDS Integers

CONSTANTS Callers,     \* tasks that resolve a hub: setups and config flows
          MaxScans,    \* bound: scans ever started
          MaxTime,     \* bound: the clock
          CacheTime,   \* DISCOVERY_CACHE_SECONDS
          None

ASSUME DiscoveryAssumption ==
  /\ MaxScans \in Nat /\ MaxTime \in Nat /\ CacheTime \in Nat \ {0}
  /\ None \notin Nat

VARIABLES
  task,       \* state.task
  results,    \* state.results
  expiresAt,  \* state.expires_at
  started,    \* number of scans started
  scan,       \* what became of each
  awaits,     \* the scan each caller waits for
  now,        \* loop.time()
  endedAt,    \* history: when each scan came to its end
  deserted,   \* history: scans one of whose waiters was cancelled
  age         \* history: how old each caller's last answer was when given

state   == <<task, results, expiresAt>>
scans   == <<started, scan, endedAt>>
vars    == <<state, scans, awaits, now, deserted, age>>

Scans == 1..MaxScans

Init ==
  /\ task = None /\ results = None /\ expiresAt = 0
  /\ started = 0 /\ scan = [s \in Scans |-> "running"] /\ endedAt = [s \in Scans |-> 0]
  /\ awaits = [c \in Callers |-> None] /\ now = 0
  /\ deserted = {} /\ age = [c \in Callers |-> 0]

Running(s) == s =< started /\ scan[s] = "running"

-----------------------------------------------------------------------------
(***************************************************************************)
(* Outside the callers: the clock and the scan's own task.  The loop runs  *)
(* whoever is ready before it waits for time to pass.                      *)
(***************************************************************************)
Tick ==
  /\ now < MaxTime
  /\ \A c \in Callers : awaits[c] # None => Running(awaits[c])
  /\ now' = now + 1
  /\ UNCHANGED <<state, scans, awaits, deserted, age>>

\* _async_scan returns, or raises.  Nobody's cancellation reaches it (shield).
ScanEnds(s, how) ==
  /\ Running(s)
  /\ scan' = [scan EXCEPT ![s] = how]
  /\ endedAt' = [endedAt EXCEPT ![s] = now]
  /\ UNCHANGED <<state, started, awaits, now, deserted, age>>

-----------------------------------------------------------------------------
(***************************************************************************)
(* The callers.                                                            *)
(***************************************************************************)
CachedForGood == results # None   \* Slip: the answer never expires.

Cached == results # None /\ now < expiresAt

Answer(c, s) == age' = [age EXCEPT ![c] = now - endedAt[s]]

\* Slips: whoever comes back resets the state; a failure leaves the task there;
\* the results of any scan are kept.
ForgetAlways(s) == task' = None
ForgetNever(s) == UNCHANGED task

\* The exception path: the task is forgotten if it is still this one.
Forget(s) == task' = IF task = s THEN None ELSE task

KeepAny(s) ==
  /\ task' = IF task = s THEN None ELSE task
  /\ results' = s /\ expiresAt' = now + CacheTime

\* The normal path: the results are kept if the task is still this one.
Keep(s) ==
  IF task = s
  THEN task' = None /\ results' = s /\ expiresAt' = now + CacheTime
  ELSE UNCHANGED state

\* Slip: the results are kept in a "finally", whatever the scan came to.
ComesBackFinally(c, s) == Keep(s) /\ Answer(c, s)

\* Control comes back from "await asyncio.shield(task)".
ComesBack(c, s) ==
  \/ /\ scan[s] = "done"
     /\ Keep(s) /\ Answer(c, s)
  \/ /\ scan[s] = "failed"
     /\ Forget(s)
     /\ UNCHANGED <<results, expiresAt, age>>

CallAnsweredFromCache(c) ==
  /\ awaits[c] = None /\ Cached
  /\ Answer(c, results)
  /\ UNCHANGED <<state, scans, awaits, now, deserted>>

CallStartsScan(c) ==
  /\ awaits[c] = None /\ ~Cached /\ task = None
  /\ started < MaxScans
  /\ started' = started + 1
  /\ task' = started' /\ awaits' = [awaits EXCEPT ![c] = started']
  /\ UNCHANGED <<results, expiresAt, scan, endedAt, now, deserted, age>>

CallJoins(c) ==
  /\ awaits[c] = None /\ ~Cached /\ task # None /\ Running(task)
  /\ awaits' = [awaits EXCEPT ![c] = task]
  /\ UNCHANGED <<state, scans, now, deserted, age>>

\* The task is over but its waiters have not run yet: no need to wait.
CallFindsScanOver(c) ==
  /\ awaits[c] = None /\ ~Cached /\ task # None /\ ~Running(task)
  /\ ComesBack(c, task)
  /\ UNCHANGED <<scans, awaits, now, deserted>>

Resume(c) ==
  /\ awaits[c] # None /\ ~Running(awaits[c])
  /\ ComesBack(c, awaits[c])
  /\ awaits' = [awaits EXCEPT ![c] = None]
  /\ UNCHANGED <<scans, now, deserted>>

\* The caller's own task is cancelled: a setup that timed out, a closed flow.
Cancel(c) ==
  /\ awaits[c] # None
  /\ Forget(awaits[c])
  /\ awaits' = [awaits EXCEPT ![c] = None]
  /\ deserted' = deserted \union {awaits[c]}
  /\ UNCHANGED <<results, expiresAt, scans, now, age>>

-----------------------------------------------------------------------------
Call(c) == \/ CallAnsweredFromCache(c) \/ CallStartsScan(c)
           \/ CallJoins(c) \/ CallFindsScanOver(c)

Scanning == Tick \/ \E s \in Scans, how \in {"done", "failed"} : ScanEnds(s, how)

Next == Scanning \/ \E c \in Callers : Call(c) \/ Resume(c) \/ Cancel(c)

Spec == Init /\ [][Next]_vars

-----------------------------------------------------------------------------
(***************************************************************************)
(* Properties.                                                             *)
(***************************************************************************)
Named == Scans \union {None}

\* The variables' types; a cached answer is the one of a scan that succeeded, and
\* only scans that were started are waited for.
TypeOK ==
  /\ task \in Named /\ results \in Named /\ expiresAt \in Nat
  /\ started \in 0..MaxScans /\ now \in Nat
  /\ scan \in [Scans -> {"running", "done", "failed"}] /\ endedAt \in [Scans -> Nat]
  /\ \A s \in Scans : s > started => scan[s] = "running"
  /\ awaits \in [Callers -> Named]
  /\ deserted \subseteq Scans
  /\ age \in [Callers -> Int]
  /\ results # None => results =< started /\ scan[results] = "done"
  /\ \A c \in Callers : awaits[c] # None => awaits[c] =< started
  /\ task # None => task =< started
  /\ \A s \in deserted : s =< started

\* "shares the result among concurrent entries": a scan under way is the one
\* that new callers join, until one of its own waiters is cancelled.  So what
\* another, older scan's waiters find never takes it away from them.
SharedUntilDeserted ==
  \A s \in Scans : Running(s) /\ s \notin deserted => task = s

\* The task of a scan that is over is not left behind: someone is still to come
\* back from it.  So no caller is ever given an old failure.
TaskHasWaiter == task # None => \E c \in Callers : awaits[c] = task

\* "for 30 seconds": no answer is older than that when it is given.
AnswersFresh == \A c \in Callers : age[c] < CacheTime

\* A scan that was overtaken, because its waiter was cancelled and another scan
\* was started, never replaces the newer one's results with its own.
NewestKept ==
  [][results' # results => results' # None /\ (results # None => results < results')]_vars

-----------------------------------------------------------------------------
(***************************************************************************)
(* The invariants behind these, which DiscoveryProofs shows inductive.     *)
(***************************************************************************)

\* The scan under way is younger than the cached one.
TaskIsNewer == task # None /\ results # None => results < task

\* Whoever waits for a scan that is over comes back before time goes on, so that
\* the cache's clock starts when the scan ends.
Punctual ==
  \A c \in Callers : awaits[c] # None /\ ~Running(awaits[c]) => endedAt[awaits[c]] = now

CacheIsDated == results # None => expiresAt = endedAt[results] + CacheTime

CacheInv == TaskHasWaiter /\ TaskIsNewer /\ Punctual /\ CacheIsDated /\ AnswersFresh

=============================================================================
