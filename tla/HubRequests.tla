---------------------------- MODULE HubRequests ----------------------------
(***************************************************************************)
(* connection.py, diagnostic_coordinator.py and the diagnostic entities:   *)
(* everything that sends requests through one connection.  Event polls,    *)
(* refreshes of the diagnostics and presses of a maintenance button are    *)
(* tasks that Home Assistant starts when it likes; nothing here stops it   *)
(* from starting a refresh while another is under way.  An own session     *)
(* serves them one by one, under request_lock; a shared one asks the       *)
(* official TP-Link entry, which comes and goes.                           *)
(*                                                                         *)
(* A button is its place in connection.buttons.  Its diagnostic values are *)
(* a version that the button counts up.                                    *)
(***************************************************************************)
EXTENDS Integers

CONSTANTS Polls, Refreshes, Presses,  \* the tasks of each kind
          Last,                       \* number of buttons
          Cloud,                      \* those with the cloud_connect component
          MaxVersion,                 \* bound: changes of a button's values
          None

Tasks    == Polls \union Refreshes \union Presses
Buttons  == 1..Last
Versions == 0..MaxVersion

ASSUME TasksAssumption ==
  /\ Last \in Nat \ {0} /\ MaxVersion \in Nat /\ None \notin Versions /\ Cloud \subseteq Buttons
  /\ Polls \intersect Refreshes = {} /\ Presses \intersect (Polls \union Refreshes) = {}

VARIABLES
  shared,    \* transport; fixed when the connection is made
  version,   \* the values each button has now
  paired,    \* buttons the hub still knows
  official,  \* the TP-Link entry is loaded
  cached,    \* the values its device object has
  open,      \* the entry is loaded and the connection not closed
  step,      \* where each task waits
  at,        \* its current button; 0 if idle
  ahead,     \* request_lock, which is fair: the tasks that get it before this one
  got,       \* diagnostics of each _async_update_data
  data, ok,  \* the coordinator's data and last_update_success
  best       \* history: the newest values ever shown

hub   == <<version, paired, official, cached>>
tasks == <<step, at, ahead>>
shown == <<data, ok, best>>
vars  == <<shared, hub, open, tasks, got, shown>>

Nothing == [b \in Buttons |-> None]

Init ==
  /\ shared \in BOOLEAN
  /\ version = [b \in Buttons |-> 0] /\ cached = version
  /\ paired = Buttons /\ official = TRUE /\ open = TRUE
  /\ step = [t \in Tasks |-> "idle"] /\ at = [t \in Tasks |-> 0]
  /\ ahead = [t \in Tasks |-> {}]
  /\ got = [r \in Refreshes |-> Nothing]
  /\ data = Nothing /\ ok = TRUE /\ best = version

-----------------------------------------------------------------------------
(***************************************************************************)
(* The buttons and the official integration (external).                    *)
(***************************************************************************)
ButtonChanges(b) ==
  /\ version[b] < MaxVersion /\ version' = [version EXCEPT ![b] = @ + 1]
  /\ UNCHANGED <<shared, paired, official, cached, open, tasks, got, shown>>

OfficialReads(b) ==
  /\ shared /\ official /\ b \in paired /\ cached' = [cached EXCEPT ![b] = version[b]]
  /\ UNCHANGED <<shared, version, paired, official, open, tasks, got, shown>>

\* A reload makes a new device object, which reads all buttons.
OfficialReloads ==
  /\ shared /\ official' = ~official
  /\ cached' = IF official' THEN version ELSE cached
  /\ UNCHANGED <<shared, version, paired, open, tasks, got, shown>>

-----------------------------------------------------------------------------
(***************************************************************************)
(* request_lock.                                                           *)
(***************************************************************************)
Waiting == {t \in Tasks : step[t] # "idle"}

\* Task t, if it has the lock, gives it back; its next request is about button b.  A
\* shared connection has no lock, and current_child raises if the entry is away.
Again(t, b) ==
  /\ shared => official
  /\ step' = [step EXCEPT ![t] = IF shared THEN "sent" ELSE "queued"]
  /\ at' = [at EXCEPT ![t] = b]
  /\ ahead' = [u \in Tasks |-> IF u # t THEN ahead[u] \ {t}
                                ELSE IF shared THEN {} ELSE Waiting \ {t}]

Leave(t) ==
  /\ step' = [step EXCEPT ![t] = "idle"] /\ at' = [at EXCEPT ![t] = 0]
  /\ ahead' = [u \in Tasks |-> IF u = t THEN {} ELSE ahead[u] \ {t}]

\* Slips: maintenance actions, or diagnostics, do not take the lock.
MaySendPress(t)   == ahead[t] = {} \/ t \in Presses
MaySendRefresh(t) == ahead[t] = {} \/ t \in Refreshes

MaySend(t) == ahead[t] = {}

Send(t) ==
  /\ step[t] = "queued" /\ MaySend(t)
  /\ step' = [step EXCEPT ![t] = "sent"]
  /\ UNCHANGED <<shared, hub, open, at, ahead, got, shown>>

\* The request is answered; one about a button the hub does not know fails.
Answers(t) == step[t] = "sent" /\ at[t] \in paired

Raises(t) == step[t] \in {"sent", "cloud"}

-----------------------------------------------------------------------------
(***************************************************************************)
(* Event polls and presses.                                                *)
(***************************************************************************)
Start(t, b) ==
  /\ open /\ step[t] = "idle" /\ Again(t, b)
  /\ UNCHANGED <<shared, hub, open, got, shown>>

PollAsks(p) == Start(p, 1)

\* Reboot and unpair ask alike; Pressed says what comes of it.
PressStarts(b) == \E c \in Buttons : Start(b, c)

\* After a page, or an error, comes the next page or the end of the poll; saving does
\* not hold the lock, and what comes after it is a new start here.  Which button a
\* page is about makes no difference to the others: it is always the first here.
PageReturns(p) ==
  /\ step[p] = "sent"                                   \* answered or not
  /\ Leave(p) \/ Again(p, 1)
  /\ UNCHANGED <<shared, hub, open, got, shown>>

\* Reboot, or unpair: the button is gone.
Pressed(b) ==
  /\ Answers(b) /\ Leave(b)
  /\ paired' \in {paired, paired \ {at[b]}}
  /\ UNCHANGED <<shared, version, official, cached, open, got, shown>>

PressRaises(b) ==
  /\ Raises(b) /\ Leave(b)
  /\ UNCHANGED <<shared, hub, open, got, shown>>

-----------------------------------------------------------------------------
(***************************************************************************)
(* Refreshes of the diagnostics.                                           *)
(***************************************************************************)
Newest(values) == [b \in Buttons |->
  IF values[b] # None /\ values[b] > best[b] THEN values[b] ELSE best[b]]

\* Slip: a refresh that read nothing is no failure.
PublishNothing(values) == data' = values /\ ok' = TRUE /\ best' = Newest(values)

\* _async_update_data returns, or raises UpdateFailed.
Publish(values) ==
  IF values = Nothing
  THEN ok' = FALSE /\ UNCHANGED <<data, best>>
  ELSE data' = values /\ ok' = TRUE /\ best' = Newest(values)

\* A shared connection reads the values its device object has: nothing suspends.
RefreshShared ==
  /\ open /\ shared
  /\ Publish(IF official THEN [b \in Buttons |-> IF b \in paired THEN cached[b] ELSE None]
             ELSE Nothing)
  /\ UNCHANGED <<shared, hub, open, tasks, got>>

RefreshStarts(r) == ~shared /\ Start(r, 1)

\* What the loop goes on to after a button.
Proceed(r, values) ==
  IF at[r] < Last
  THEN Again(r, at[r] + 1) /\ got' = [got EXCEPT ![r] = values] /\ UNCHANGED shown
  ELSE Leave(r) /\ got' = [got EXCEPT ![r] = Nothing] /\ Publish(values)

\* child.update() returns and, without cloud_connect, so does the read.
Updated(r) ==
  /\ Answers(r)
  /\ LET values == [got[r] EXCEPT ![at[r]] = version[at[r]]]
     IN IF at[r] \in Cloud
        THEN /\ step' = [step EXCEPT ![r] = "cloud"]
             /\ got' = [got EXCEPT ![r] = values] /\ UNCHANGED <<at, ahead, shown>>
        ELSE Proceed(r, values)
  /\ UNCHANGED <<shared, hub, open>>

CloudReturns(r) ==
  /\ step[r] = "cloud" /\ Proceed(r, got[r])
  /\ UNCHANGED <<shared, hub, open>>

\* The button is left out; so are values read before the cloud request failed.
ReadRaises(r) ==
  /\ Raises(r) /\ Proceed(r, [got[r] EXCEPT ![at[r]] = None])
  /\ UNCHANGED <<shared, hub, open>>

-----------------------------------------------------------------------------
(***************************************************************************)
(* async_unload_entry closes the connection; polls and refreshes are       *)
(* cancelled when Home Assistant gets to it, presses are not.              *)
(***************************************************************************)
Unload ==
  /\ open /\ open' = FALSE
  /\ UNCHANGED <<shared, hub, tasks, got, shown>>

\* Slip: a task that is cancelled does not give the lock back.
CancelLocked(t) ==
  /\ ~open /\ t \in Polls \union Refreshes /\ step[t] # "idle"
  /\ step' = [step EXCEPT ![t] = "idle"] /\ at' = [at EXCEPT ![t] = 0]
  /\ got' = [r \in Refreshes |-> IF r = t THEN Nothing ELSE got[r]]
  /\ UNCHANGED <<shared, hub, open, ahead, shown>>

Cancel(t) ==
  /\ ~open /\ t \in Polls \union Refreshes /\ step[t] # "idle" /\ Leave(t)
  /\ got' = [r \in Refreshes |-> IF r = t THEN Nothing ELSE got[r]]
  /\ UNCHANGED <<shared, hub, open, shown>>

-----------------------------------------------------------------------------
External == \/ \E b \in Buttons : ButtonChanges(b) \/ OfficialReads(b)
            \/ OfficialReloads

TaskStep(t) == \/ Send(t)
               \/ t \in Polls /\ PageReturns(t)
               \/ t \in Presses /\ (Pressed(t) \/ PressRaises(t))
               \/ t \in Refreshes /\ (Updated(t) \/ CloudReturns(t) \/ ReadRaises(t))

Next == \/ External \/ Unload \/ RefreshShared
        \/ \E t \in Tasks : TaskStep(t) \/ Cancel(t)
        \/ \E p \in Polls : PollAsks(p)
        \/ \E b \in Presses : PressStarts(b)
        \/ \E r \in Refreshes : RefreshStarts(r)

Spec == Init /\ [][Next]_vars

\* Whoever gets the lock sends, and every request ends: its client has a timeout.
Fairness == \A t \in Tasks : WF_vars(TaskStep(t))

FairSpec == Spec /\ Fairness

-----------------------------------------------------------------------------
(***************************************************************************)
(* Properties.                                                             *)
(***************************************************************************)
Values == [Buttons -> Versions \union {None}]

\* Types; a task has a button exactly while it waits; data that is shown has
\* something in it.
TypeOK ==
  /\ shared \in BOOLEAN
  /\ version \in [Buttons -> Versions] /\ cached \in [Buttons -> Versions]
  /\ paired \subseteq Buttons /\ official \in BOOLEAN /\ open \in BOOLEAN
  /\ step \in [Tasks -> {"idle", "queued", "sent", "cloud"}]
  /\ at \in [Tasks -> 0..Last]
  /\ \A t \in Tasks : at[t] = 0 <=> step[t] = "idle"
  /\ ahead \in [Tasks -> SUBSET Tasks]
  /\ got \in [Refreshes -> Values] /\ data \in Values
  /\ ok \in BOOLEAN /\ best \in [Buttons -> Versions]
  /\ ok /\ data = Nothing => \A b \in Buttons : best[b] = 0

\* README, "Polling is serialized per hub": an own session has one request on its way,
\* whoever sends it.
OneRequestAtATime ==
  ~shared => \A t, u \in Tasks :
               step[t] \in {"sent", "cloud"} /\ step[u] \in {"sent", "cloud"} => t = u

Snapshot(b) == data[b]

\* What a button's entity shows: CoordinatorEntity is available after a refresh that
\* succeeded, the entity only if that read this button.
Shown(b) == IF ok THEN Snapshot(b) ELSE None

\* However refreshes overlap, fail or are cancelled, an entity never goes back to
\* values older than some it has shown: overlapping refreshes ask for the same
\* buttons in the same order, and the lock lets none overtake another.
NeverOlder == \A b \in Buttons : Shown(b) # None => Shown(b) = best[b]

\* A press is carried out or fails, whatever polls and refreshes want, even while
\* the entry is unloaded and other requests fail or are cancelled.
PressesEnd == \A b \in Presses : step[b] # "idle" ~> step[b] = "idle"

=============================================================================
