------------------------- MODULE HubRequestsProofs -------------------------
(***************************************************************************)
(* Proofs about HubRequests, for any tasks and any number of buttons: the  *)
(* lock lets one request through, and overlapping refreshes keep their     *)
(* order from the first button to the last.                                *)
(***************************************************************************)
EXTENDS HubRequests, TLAPS

USE TasksAssumption DEF Tasks, Buttons, Versions, hub, tasks, shown

Proceeds == {"sent", "cloud"}

LEMMA InitType == Init => TypeOK
  BY DEF Init, TypeOK, Values, Nothing

-----------------------------------------------------------------------------
(***************************************************************************)
(* What a step does to the tasks.                                          *)
(***************************************************************************)
Granted(t)  == /\ step[t] = "queued" /\ ahead[t] = {}
               /\ step' = [step EXCEPT ![t] = "sent"] /\ UNCHANGED <<at, ahead>>
AsksCloud(t) == /\ step[t] = "sent" /\ t \in Refreshes
                /\ step' = [step EXCEPT ![t] = "cloud"] /\ UNCHANGED <<at, ahead>>
Asks(t)     == /\ step[t] # "queued" /\ (t \in Refreshes => ~shared)
               /\ \E b \in Buttons : Again(t, b)
Leaves(t)   == step[t] # "idle" /\ Leave(t)
Moves(t)    == Granted(t) \/ AsksCloud(t) \/ Asks(t) \/ Leaves(t)

TasksOK == /\ shared \in BOOLEAN
           /\ step \in [Tasks -> {"idle", "queued", "sent", "cloud"}]
           /\ at \in [Tasks -> 0..Last]
           /\ \A t \in Tasks : at[t] = 0 <=> step[t] = "idle"
           /\ ahead \in [Tasks -> SUBSET Tasks]

LockInv ==
  /\ \A t \in Tasks : step[t] # "queued" => ahead[t] = {}
  /\ \A t, u \in Tasks : t \in ahead[u] => step[t] # "idle" /\ u \notin ahead[t]
  /\ shared => \A r \in Refreshes : step[r] = "idle"
  /\ ~shared => \A t, u \in Tasks : t # u /\ step[t] # "idle" /\ step[u] # "idle"
                                      => t \in ahead[u] \/ u \in ahead[t]

\* Every step moves one task or none.
LEMMA StepMoves ==
  ASSUME TypeOK, LockInv, [Next]_vars
  PROVE  shared' = shared /\ (UNCHANGED tasks \/ \E t \in Tasks : Moves(t))
<1> USE DEF TypeOK
<1>1. CASE External \/ Unload \/ RefreshShared \/ UNCHANGED vars
  BY <1>1 DEF External, Unload, RefreshShared, ButtonChanges, OfficialReads,
              OfficialReloads, vars
<1>2. ASSUME NEW t \in Tasks, NEW b \in Buttons, Start(t, b), t \in Refreshes => ~shared
      PROVE  shared' = shared /\ Moves(t)
  BY <1>2 DEF Start, Moves, Asks
<1>3. ASSUME NEW r \in Refreshes, NEW values, Proceed(r, values), step[r] \in Proceeds
      PROVE  Moves(r)
  <2>1. ~shared
    BY <1>3 DEF LockInv, Proceeds
  <2>2. CASE at[r] < Last
    <3>1. at[r] + 1 \in Buttons
      BY <2>2
    <3>. QED
      BY <1>3, <2>1, <2>2, <3>1 DEF Proceed, Moves, Asks, Proceeds
  <2>3. CASE ~(at[r] < Last)
    BY <1>3, <2>3 DEF Proceed, Moves, Leaves, Proceeds
  <2>. QED
    BY <2>2, <2>3
<1>4. ASSUME NEW t \in Tasks, Send(t) PROVE shared' = shared /\ Moves(t)
  BY <1>4 DEF Send, MaySend, Moves, Granted
<1>5. ASSUME NEW t \in Tasks, Cancel(t) PROVE shared' = shared /\ Moves(t)
  BY <1>5 DEF Cancel, Moves, Leaves
<1>6. ASSUME NEW p \in Polls, PageReturns(p) PROVE shared' = shared /\ Moves(p)
  <2>1. 1 \in Buttons /\ p \notin Refreshes
    OBVIOUS
  <2>. QED
    BY <1>6, <2>1 DEF PageReturns, Moves, Asks, Leaves
<1>7. ASSUME NEW b \in Presses, Pressed(b) \/ PressRaises(b)
      PROVE  shared' = shared /\ Moves(b)
  BY <1>7 DEF Pressed, PressRaises, Answers, Raises, Moves, Leaves
<1>8. ASSUME NEW r \in Refreshes, Updated(r) \/ CloudReturns(r) \/ ReadRaises(r)
      PROVE  shared' = shared /\ Moves(r)
  <2>1. shared' = shared
    BY <1>8 DEF Updated, CloudReturns, ReadRaises
  <2>2. CASE Updated(r)
    BY <1>3, <2>2 DEF Updated, Answers, Moves, AsksCloud, Proceeds
  <2>3. CASE CloudReturns(r)
    BY <1>3, <2>3 DEF CloudReturns, Proceeds
  <2>4. CASE ReadRaises(r)
    BY <1>3, <2>4 DEF ReadRaises, Raises, Proceeds
  <2>. QED
    BY <1>8, <2>1, <2>2, <2>3, <2>4
<1>9. ASSUME NEW t \in Tasks, TaskStep(t) PROVE shared' = shared /\ Moves(t)
  BY <1>4, <1>6, <1>7, <1>8, <1>9 DEF TaskStep
<1>10. 1 \in Buttons
  OBVIOUS
<1>11. ASSUME NEW p \in Polls, Start(p, 1) PROVE shared' = shared /\ Moves(p)
  BY <1>2, <1>10, <1>11
<1>12. ASSUME NEW b \in Presses, NEW c \in Buttons, Start(b, c)
       PROVE  shared' = shared /\ Moves(b)
  BY <1>2, <1>12
<1>13. ASSUME NEW r \in Refreshes, RefreshStarts(r) PROVE shared' = shared /\ Moves(r)
  BY <1>2, <1>10, <1>13 DEF RefreshStarts
<1>. QED
  BY <1>1, <1>5, <1>9, <1>11, <1>12, <1>13 DEF Next, PollAsks, PressStarts

\* Moving a task keeps the tasks well typed, and the lock's queue a queue.
LEMMA MoveKeepsLock ==
  ASSUME TasksOK, LockInv, NEW t \in Tasks, Moves(t), shared' = shared
  PROVE  TasksOK' /\ LockInv'
<1> USE DEF TasksOK
<1>1. CASE Granted(t) \/ AsksCloud(t)
  BY <1>1 DEF Granted, AsksCloud, LockInv
<1>2. CASE Asks(t)
  <2>1. PICK b \in Buttons : Again(t, b)
    BY <1>2 DEF Asks
  <2>2. TasksOK'
    BY <2>1 DEF Again, Waiting
  <2>3. \A u \in Tasks : u # t => step'[u] = step[u] /\ ahead'[u] = ahead[u] \ {t}
    BY <2>1 DEF Again
  <2>4. /\ step'[t] = (IF shared THEN "sent" ELSE "queued")
        /\ ahead'[t] = (IF shared THEN {} ELSE Waiting \ {t})
    BY <2>1 DEF Again
  <2>5. \A u \in Waiting : u \in Tasks /\ step[u] # "idle"
    BY DEF Waiting
  <2>6. \A u \in Tasks : step[u] # "idle" => u \in Waiting
    BY DEF Waiting
  <2>. QED
    BY <1>2, <2>2, <2>3, <2>4, <2>5, <2>6 DEF LockInv, Asks
<1>3. CASE Leaves(t)
  <2>1. TasksOK'
    BY <1>3 DEF Leaves, Leave
  <2>2. \A u \in Tasks : u # t => step'[u] = step[u] /\ ahead'[u] = ahead[u] \ {t}
    BY <1>3 DEF Leaves, Leave
  <2>3. step'[t] = "idle" /\ ahead'[t] = {}
    BY <1>3 DEF Leaves, Leave
  <2>. QED
    BY <2>1, <2>2, <2>3 DEF LockInv
<1>. QED
  BY <1>1, <1>2, <1>3 DEF Moves

LEMMA StepLock ==
  ASSUME TypeOK, LockInv, [Next]_vars PROVE TasksOK' /\ LockInv'
<1>1. TasksOK
  BY DEF TypeOK, TasksOK
<1>2. CASE UNCHANGED tasks /\ shared' = shared
  BY <1>1, <1>2 DEF TasksOK, LockInv
<1>. QED
  BY <1>1, <1>2, StepMoves, MoveKeepsLock

-----------------------------------------------------------------------------
(***************************************************************************)
(* Types, and what refreshes have read.                                    *)
(***************************************************************************)
\* Refresh q asks for its current button before r gets to it.
Leads(q, r) == at[q] > at[r] \/ (at[q] = at[r] /\ q \in ahead[r])

\* What a refresh has read is not older than what was shown, nor than what a refresh
\* that leads it has read of the same button.
AgeInv ==
  /\ \A r \in Refreshes : step[r] = "idle" => got[r] = Nothing
  /\ \A r \in Refreshes, b \in Buttons : got[r][b] # None =>
       /\ b < at[r] \/ (b = at[r] /\ step[r] = "cloud")
       /\ best[b] =< got[r][b] /\ got[r][b] =< version[b]
  /\ \A q, r \in Refreshes, b \in Buttons :
       Leads(q, r) /\ got[q][b] # None /\ got[r][b] # None => got[q][b] =< got[r][b]
  /\ \A b \in Buttons : /\ best[b] =< version[b] /\ cached[b] =< version[b]
                        /\ shared => best[b] =< cached[b]

\* What refresh r may go on with: diagnostics up to its current button, between
\* those of the refreshes that lead it and those of the refreshes it leads.
ValuesFit(r, values) ==
  /\ values \in Values
  /\ \A b \in Buttons : values[b] # None =>
       /\ b =< at[r] /\ best[b] =< values[b] /\ values[b] =< version[b]
       /\ \A q \in Refreshes : q # r /\ got[q][b] # None =>
            /\ Leads(q, r) => got[q][b] =< values[b]
            /\ Leads(r, q) => values[b] =< got[q][b]

\* The last conjunct of TypeOK, and what an entity shows.
ShownInv == /\ data \in Values /\ ok \in BOOLEAN /\ best \in [Buttons -> Versions]
            /\ ok /\ data = Nothing => \A b \in Buttons : best[b] = 0
            /\ NeverOlder

LEMMA PublishKeepsShown ==
  ASSUME ShownInv, NEW values \in Values, Publish(values),
         \A b \in Buttons : values[b] # None => best[b] =< values[b]
  PROVE  /\ ShownInv'
         /\ \A b \in Buttons : best'[b] = best[b] \/ (values[b] # None /\ best'[b] = values[b])
<1> USE DEF ShownInv, Values
<1>1. CASE values = Nothing
  <2>1. ok' = FALSE /\ data' = data /\ best' = best
    BY <1>1 DEF Publish
  <2>2. NeverOlder'
    BY <2>1 DEF NeverOlder, Shown, Snapshot
  <2>. QED
    BY <2>1, <2>2
<1>2. CASE values # Nothing
  <2>1. data' = values /\ ok' = TRUE /\ best' = Newest(values)
    BY <1>2 DEF Publish
  <2>2. ASSUME NEW b \in Buttons
        PROVE  /\ best'[b] \in Versions
               /\ best'[b] = best[b] \/ (values[b] # None /\ best'[b] = values[b])
               /\ values[b] # None => best'[b] = values[b]
    <3>1. /\ values[b] \in Versions \union {None} /\ best[b] \in Versions
          /\ values[b] # None => best[b] =< values[b]
      OBVIOUS
    <3>2. best'[b] = IF values[b] # None /\ values[b] > best[b] THEN values[b] ELSE best[b]
      BY <2>1 DEF Newest
    <3>. QED
      BY <3>1, <3>2
  <2>3. best' \in [Buttons -> Versions]
    BY <2>1, <2>2 DEF Newest
  <2>4. NeverOlder'
    BY <2>1, <2>2 DEF NeverOlder, Shown, Snapshot
  <2>. QED
    BY <1>2, <2>1, <2>2, <2>3, <2>4
<1>. QED
  BY <1>1, <1>2

\* Going on with values that fit, a refresh keeps its place among the refreshes.
LEMMA ProceedKeepsAge ==
  ASSUME TypeOK, LockInv, AgeInv, ShownInv, NEW r \in Refreshes, NEW values,
         ValuesFit(r, values), step[r] \in Proceeds, Proceed(r, values),
         UNCHANGED <<shared, hub>>
  PROVE  AgeInv' /\ ShownInv' /\ got' \in [Refreshes -> Values]
<1>1. ~shared /\ ahead[r] = {} /\ at[r] \in Buttons
  <2>1. r \in Tasks /\ step[r] # "idle" /\ step[r] # "queued"
    BY DEF Proceeds
  <2>2. ~shared /\ ahead[r] = {}
    BY <2>1 DEF LockInv
  <2>3. at[r] \in 0..Last /\ at[r] # 0
    BY <2>1 DEF TypeOK
  <2>. QED
    BY <2>2, <2>3
<1>2. CASE at[r] < Last
  <2>1. Again(r, at[r] + 1) /\ got' = [got EXCEPT ![r] = values] /\ UNCHANGED shown
    BY <1>2 DEF Proceed
  <2>2. /\ \A q \in Refreshes : q # r => got'[q] = got[q] /\ step'[q] = step[q]
                                         /\ at'[q] = at[q] /\ ahead'[q] = ahead[q] \ {r}
        /\ got'[r] = values /\ step'[r] = "queued" /\ at'[r] = at[r] + 1
        /\ ahead'[r] = Waiting \ {r}
    BY <1>1, <2>1 DEF Again, TypeOK
  <2>3. got' \in [Refreshes -> Values]
    BY <2>1 DEF TypeOK, ValuesFit
  <2>4. ASSUME NEW q \in Refreshes, q # r, step[q] # "idle"
        PROVE  /\ Leads(q, r)' => Leads(q, r)
               /\ Leads(r, q)' => Leads(r, q)
    <3>1. q \in Tasks /\ r \in Tasks /\ (r \in ahead[q] \/ q \in ahead[r])
      BY <1>1, <2>4 DEF LockInv, Proceeds
    <3>2. at[q] \in Int /\ at[r] \in Int
      BY <3>1 DEF TypeOK
    <3>3. q \in ahead[r] \/ r \in ahead[q]
      BY <3>1
    <3>4. Leads(q, r)' <=> at[q] > at[r] + 1 \/ (at[q] = at[r] + 1 /\ q \in Waiting \ {r})
      BY <2>2, <2>4 DEF Leads
    <3>5. Leads(r, q)' <=> at[r] + 1 > at[q] \/ (at[r] + 1 = at[q] /\ r \in ahead[q] \ {r})
      BY <2>2, <2>4 DEF Leads
    <3>. QED
      BY <1>1, <3>2, <3>3, <3>4, <3>5 DEF Leads
  <2>5. ASSUME NEW q \in Refreshes, NEW s \in Refreshes, q # r, s # r
        PROVE  Leads(q, s)' => Leads(q, s)
    BY <2>2, <2>5 DEF Leads
  <2>6. ASSUME NEW q \in Refreshes, NEW s \in Refreshes, NEW b \in Buttons,
               Leads(q, s)', got'[q][b] # None, got'[s][b] # None
        PROVE  got'[q][b] =< got'[s][b]
    <3>1. \A u \in Refreshes : step[u] = "idle" => got[u][b] = None
      BY DEF AgeInv, Nothing
    <3>2. CASE q # r /\ s # r
      BY <2>2, <2>5, <2>6, <3>2 DEF AgeInv
    <3>3. CASE q = r /\ s # r
      BY <2>2, <2>4, <2>6, <3>1, <3>3 DEF ValuesFit
    <3>4. CASE q # r /\ s = r
      BY <2>2, <2>4, <2>6, <3>1, <3>4 DEF ValuesFit
    <3>5. CASE q = r /\ s = r
      BY <2>2, <2>3, <2>6, <3>5 DEF Values
    <3>. QED
      BY <3>2, <3>3, <3>4, <3>5
  <2>7. \A b \in Buttons : values[b] # None => b < at'[r]
    BY <2>2 DEF ValuesFit, TypeOK
  <2>8. ASSUME NEW q \in Refreshes, NEW b \in Buttons, got'[q][b] # None
        PROVE  /\ b < at'[q] \/ (b = at'[q] /\ step'[q] = "cloud")
               /\ best[b] =< got'[q][b] /\ got'[q][b] =< version[b]
    <3>1. CASE q = r
      BY <2>2, <2>7, <2>8, <3>1 DEF ValuesFit
    <3>2. CASE q # r
      BY <2>2, <2>8, <3>2 DEF AgeInv
    <3>. QED
      BY <3>1, <3>2
  <2>9. \A q \in Refreshes : step'[q] = "idle" => got'[q] = Nothing
    BY <2>2 DEF AgeInv
  <2>10. ShownInv'
    BY <2>1 DEF ShownInv, NeverOlder, Shown, Snapshot
  <2>11. AgeInv'
    BY <2>1, <2>6, <2>8, <2>9 DEF AgeInv
  <2>. QED
    BY <2>3, <2>10, <2>11
<1>3. CASE ~(at[r] < Last)
  <2>1. Leave(r) /\ got' = [got EXCEPT ![r] = Nothing] /\ Publish(values)
    BY <1>3 DEF Proceed
  <2>2. \A q \in Refreshes : q # r => /\ got'[q] = got[q] /\ step'[q] = step[q]
                                      /\ at'[q] = at[q] /\ ahead'[q] = ahead[q] \ {r}
    BY <2>1 DEF Leave, TypeOK
  <2>3. got'[r] = Nothing /\ step'[r] = "idle" /\ \A b \in Buttons : got'[r][b] = None
    BY <2>1 DEF Leave, TypeOK, Nothing
  <2>4. got' \in [Refreshes -> Values]
    BY <2>1 DEF TypeOK, Nothing, Values
  <2>5. /\ ShownInv'
        /\ \A b \in Buttons : best'[b] = best[b] \/ (values[b] # None /\ best'[b] = values[b])
    BY <2>1, PublishKeepsShown DEF ValuesFit
  <2>6. ASSUME NEW q \in Refreshes, q # r, step[q] # "idle" PROVE Leads(r, q)
    <3>1. q \in Tasks /\ r \in Tasks /\ (r \in ahead[q] \/ q \in ahead[r])
      BY <1>1, <2>6 DEF LockInv, Proceeds
    <3>2. at[q] \in 0..Last /\ at[r] = Last
      BY <1>1, <1>3, <3>1 DEF TypeOK
    <3>. QED
      BY <1>1, <3>1, <3>2 DEF Leads
  <2>7. ASSUME NEW q \in Refreshes, NEW b \in Buttons, got'[q][b] # None
        PROVE  best'[b] =< got'[q][b]
    <3>1. q # r /\ got[q][b] # None /\ got'[q] = got[q] /\ step[q] # "idle"
      BY <2>2, <2>3, <2>7 DEF AgeInv, Nothing
    <3>. QED
      BY <2>5, <2>6, <3>1 DEF AgeInv, ValuesFit
  <2>8. \A b \in Buttons : best'[b] =< version'[b]
    BY <2>5 DEF AgeInv, ValuesFit
  <2>9. \A q, s \in Refreshes : q # r /\ s # r => (Leads(q, s)' => Leads(q, s))
    BY <2>2 DEF Leads
  <2>. QED
    BY <1>1, <2>2, <2>3, <2>4, <2>5, <2>7, <2>8, <2>9 DEF AgeInv
<1>. QED
  BY <1>2, <1>3

\* So does moving a task that is no refresh, or a refresh that has read nothing.
LEMMA MoveKeepsAge ==
  ASSUME TypeOK, AgeInv, NEW t \in Tasks, got' \in [Refreshes -> Values],
         \A u \in Tasks : u # t => /\ step'[u] = step[u] /\ at'[u] = at[u]
                                   /\ ahead'[u] = ahead[u] \ {t},
         \A r \in Refreshes : got'[r] = IF r = t THEN Nothing ELSE got[r],
         UNCHANGED <<shared, version, cached, best>>
  PROVE  AgeInv'
<1>1. \A b \in Buttons : t \in Refreshes => got'[t][b] = None
  BY DEF Nothing
<1>2. ASSUME NEW q \in Refreshes, NEW s \in Refreshes, q # t, s # t
      PROVE  Leads(q, s)' => Leads(q, s)
  <2>1. q \in Tasks /\ s \in Tasks
    OBVIOUS
  <2>. QED
    BY <1>2, <2>1 DEF Leads
<1>3. ASSUME NEW r \in Refreshes PROVE step'[r] = "idle" => got'[r] = Nothing
  BY DEF AgeInv
<1>4. ASSUME NEW r \in Refreshes, NEW b \in Buttons, got'[r][b] # None
      PROVE  /\ b < at'[r] \/ (b = at'[r] /\ step'[r] = "cloud")
             /\ best'[b] =< got'[r][b] /\ got'[r][b] =< version'[b]
  <2>1. r # t /\ r \in Tasks /\ got'[r] = got[r]
    BY <1>1, <1>4
  <2>. QED
    BY <1>4, <2>1 DEF AgeInv
<1>5. ASSUME NEW q \in Refreshes, NEW r \in Refreshes, NEW b \in Buttons,
             Leads(q, r)', got'[q][b] # None, got'[r][b] # None
      PROVE  got'[q][b] =< got'[r][b]
  <2>1. q # t /\ r # t /\ got'[q] = got[q] /\ got'[r] = got[r]
    BY <1>1, <1>5
  <2>. QED
    BY <1>2, <1>5, <2>1 DEF AgeInv
<1>6. \A b \in Buttons : /\ best'[b] =< version'[b] /\ cached'[b] =< version'[b]
                         /\ shared' => best'[b] =< cached'[b]
  BY DEF AgeInv
<1>. QED
  BY <1>3, <1>4, <1>5, <1>6 DEF AgeInv

\* The three ways a refresh gets values to go on with give values that fit.
LEMMA ReadFits ==
  ASSUME TypeOK, LockInv, AgeInv, NEW r \in Refreshes, step[r] \in Proceeds
  PROVE  /\ step[r] = "sent" => ValuesFit(r, [got[r] EXCEPT ![at[r]] = version[at[r]]])
         /\ ValuesFit(r, got[r])
         /\ ValuesFit(r, [got[r] EXCEPT ![at[r]] = None])
<1>1. r \in Tasks /\ step[r] # "idle" /\ at[r] \in Buttons
  <2>1. r \in Tasks /\ step[r] # "idle"
    BY DEF Proceeds
  <2>2. at[r] \in 0..Last /\ at[r] # 0
    BY <2>1 DEF TypeOK
  <2>. QED
    BY <2>1, <2>2
<1>2. got[r] \in Values /\ version \in [Buttons -> Versions]
  BY DEF TypeOK
<1>3. ValuesFit(r, got[r])
  <2>1. \A b \in Buttons : got[r][b] # None =>
          b =< at[r] /\ best[b] =< got[r][b] /\ got[r][b] =< version[b]
    BY <1>1 DEF AgeInv
  <2>2. \A q \in Refreshes, b \in Buttons : got[q][b] # None /\ got[r][b] # None =>
          /\ Leads(q, r) => got[q][b] =< got[r][b]
          /\ Leads(r, q) => got[r][b] =< got[q][b]
    BY DEF AgeInv
  <2>. QED
    BY <1>2, <2>1, <2>2 DEF ValuesFit
<1>4. ValuesFit(r, [got[r] EXCEPT ![at[r]] = None])
  <2> DEFINE values == [got[r] EXCEPT ![at[r]] = None]
  <2>1. values \in Values /\ \A b \in Buttons : values[b] # None => values[b] = got[r][b]
    BY <1>1, <1>2 DEF Values
  <2>. QED
    BY <1>3, <2>1 DEF ValuesFit
<1>5. ASSUME step[r] = "sent"
      PROVE  ValuesFit(r, [got[r] EXCEPT ![at[r]] = version[at[r]]])
  <2> DEFINE values == [got[r] EXCEPT ![at[r]] = version[at[r]]]
  <2>1. /\ values \in Values /\ values[at[r]] = version[at[r]]
        /\ \A b \in Buttons : b # at[r] => values[b] = got[r][b]
    BY <1>1, <1>2 DEF Values
  <2>2. ASSUME NEW q \in Refreshes, q # r, got[q][at[r]] # None
        PROVE  got[q][at[r]] =< version[at[r]] /\ ~Leads(r, q)
    <3>1. q \in Tasks /\ at[q] \in Int /\ at[r] \in Int
      BY <1>1 DEF TypeOK
    <3>2. /\ got[q][at[r]] =< version[at[r]]
          /\ at[r] < at[q] \/ (at[r] = at[q] /\ step[q] = "cloud")
      BY <1>1, <2>2 DEF AgeInv
    <3>3. step[q] = "cloud" => ahead[q] = {}
      BY <3>1 DEF LockInv
    <3>. QED
      BY <3>1, <3>2, <3>3 DEF Leads
  <2>3. best[at[r]] =< version[at[r]]
    BY <1>1 DEF AgeInv
  <2>4. values[at[r]] =< version[at[r]]
    BY <1>1, <1>2, <2>1
  <2>5. ASSUME NEW b \in Buttons, values[b] # None
        PROVE  /\ b =< at[r] /\ best[b] =< values[b] /\ values[b] =< version[b]
               /\ \A q \in Refreshes : q # r /\ got[q][b] # None =>
                    /\ Leads(q, r) => got[q][b] =< values[b]
                    /\ Leads(r, q) => values[b] =< got[q][b]
    <3>1. CASE b = at[r]
      BY <1>1, <2>1, <2>2, <2>3, <2>4, <3>1
    <3>2. CASE b # at[r]
      BY <1>3, <2>1, <2>5, <3>2 DEF ValuesFit
    <3>. QED
      BY <3>1, <3>2
  <2>. QED
    BY <2>1, <2>5 DEF ValuesFit
<1>. QED
  BY <1>3, <1>4, <1>5

\* The button has answered child.update(); its cloud request is next.
LEMMA CloudKeepsAge ==
  ASSUME TypeOK, LockInv, AgeInv, NEW r \in Refreshes, NEW values, ValuesFit(r, values),
         step[r] = "sent", step' = [step EXCEPT ![r] = "cloud"],
         got' = [got EXCEPT ![r] = values], UNCHANGED <<shared, at, ahead, hub, shown>>
  PROVE  AgeInv' /\ got' \in [Refreshes -> Values]
<1>1. /\ got'[r] = values /\ step'[r] = "cloud" /\ got' \in [Refreshes -> Values]
      /\ \A q \in Refreshes : q # r => got'[q] = got[q] /\ step'[q] = step[q]
  BY DEF TypeOK, ValuesFit
<1>2. ASSUME NEW q \in Refreshes, NEW b \in Buttons, got'[q][b] # None
      PROVE  /\ b < at'[q] \/ (b = at'[q] /\ step'[q] = "cloud")
             /\ best'[b] =< got'[q][b] /\ got'[q][b] =< version'[b]
  <2>1. at[q] \in Int
    BY DEF TypeOK
  <2>. QED
    BY <1>1, <1>2, <2>1 DEF AgeInv, ValuesFit
<1>3. ASSUME NEW q \in Refreshes, NEW s \in Refreshes, NEW b \in Buttons,
             Leads(q, s)', got'[q][b] # None, got'[s][b] # None
      PROVE  got'[q][b] =< got'[s][b]
  <2>1. Leads(q, s)
    BY <1>3 DEF Leads
  <2>2. q = s => got'[q][b] \in Versions
    BY <1>1, <1>3 DEF Values
  <2>. QED
    BY <1>1, <1>3, <2>1, <2>2 DEF AgeInv, ValuesFit
<1>. QED
  BY <1>1, <1>2, <1>3 DEF AgeInv

Inv == TypeOK /\ LockInv /\ AgeInv

\* What changes outside: buttons and device objects only go on.
Later == /\ version' \in [Buttons -> Versions] /\ cached' \in [Buttons -> Versions]
         /\ \A b \in Buttons : /\ version[b] =< version'[b] /\ cached'[b] =< version'[b]
                               /\ shared => cached[b] =< cached'[b]

LEMMA HubLater == ASSUME Inv, External PROVE Later /\ official' \in BOOLEAN
<1>1. /\ version \in [Buttons -> Versions] /\ cached \in [Buttons -> Versions]
      /\ official \in BOOLEAN /\ \A b \in Buttons : cached[b] =< version[b]
  BY DEF Inv, TypeOK, AgeInv
<1>2. ASSUME NEW b \in Buttons, ButtonChanges(b) PROVE Later /\ official' = official
  <2>1. /\ version[b] + 1 \in Versions /\ cached' = cached /\ official' = official
        /\ version' = [version EXCEPT ![b] = @ + 1]
    BY <1>1, <1>2 DEF ButtonChanges
  <2>. QED
    BY <1>1, <2>1 DEF Later
<1>3. ASSUME NEW b \in Buttons, OfficialReads(b) PROVE Later /\ official' = official
  BY <1>1, <1>3 DEF OfficialReads, Later
<1>4. CASE OfficialReloads
  BY <1>1, <1>4 DEF OfficialReloads, Later
<1>. QED
  BY <1>1, <1>2, <1>3, <1>4 DEF External

LEMMA StepHub ==
  ASSUME Inv, [Next]_vars
  PROVE  /\ version' \in [Buttons -> Versions] /\ cached' \in [Buttons -> Versions]
         /\ paired' \subseteq Buttons /\ official' \in BOOLEAN /\ open' \in BOOLEAN
<1>1. /\ version \in [Buttons -> Versions] /\ cached \in [Buttons -> Versions]
      /\ paired \subseteq Buttons /\ official \in BOOLEAN /\ open \in BOOLEAN
  BY DEF Inv, TypeOK
<1>2. CASE External
  <2>1. paired' = paired /\ open' = open
    BY <1>2 DEF External, ButtonChanges, OfficialReads, OfficialReloads
  <2>. QED
    BY <1>1, <1>2, <2>1, HubLater DEF Later
<1>3. CASE Unload \/ RefreshShared \/ UNCHANGED vars
  BY <1>1, <1>3 DEF Unload, RefreshShared, vars
<1>4. ASSUME NEW t \in Tasks, NEW b \in Buttons, Start(t, b)
      PROVE  UNCHANGED <<hub, open>>
  BY <1>4 DEF Start
<1>5. ASSUME NEW t \in Tasks, Cancel(t) PROVE UNCHANGED <<hub, open>>
  BY <1>5 DEF Cancel
<1>6. ASSUME NEW t \in Tasks, TaskStep(t)
      PROVE  UNCHANGED <<version, cached, official, open>> /\ paired' \subseteq paired
  BY <1>6 DEF TaskStep, Send, PageReturns, Pressed, PressRaises, Updated, CloudReturns,
              ReadRaises
<1>7. 1 \in Buttons
  OBVIOUS
<1>. QED
  BY <1>1, <1>2, <1>3, <1>4, <1>5, <1>6, <1>7 DEF Next, RefreshStarts, PollAsks, PressStarts

\* Every step keeps what refreshes have read in order, and what is shown new.
LEMMA StepAge ==
  ASSUME Inv, ShownInv, [Next]_vars
  PROVE  AgeInv' /\ ShownInv' /\ got' \in [Refreshes -> Values]
<1> USE DEF Inv
<1>1. /\ got \in [Refreshes -> Values] /\ at \in [Tasks -> 0..Last]
      /\ step \in [Tasks -> {"idle", "queued", "sent", "cloud"}]
  BY DEF TypeOK
<1>2. ASSUME UNCHANGED shown PROVE ShownInv'
  BY <1>2 DEF ShownInv, NeverOlder, Shown, Snapshot
<1>3. CASE UNCHANGED vars \/ Unload
  BY <1>1, <1>2, <1>3 DEF vars, Unload, AgeInv, Leads
<1>4. CASE External
  <2>1. UNCHANGED <<shared, tasks, got, shown>>
    BY <1>4 DEF External, ButtonChanges, OfficialReads, OfficialReloads
  <2>2. Later
    BY <1>4, HubLater
  <2>3. \A b \in Buttons : /\ version[b] =< version'[b] /\ cached'[b] =< version'[b]
                           /\ shared => cached[b] =< cached'[b]
                           /\ {version[b], version'[b], cached[b], cached'[b], best[b]} \subseteq Nat
    BY <2>2 DEF Later, TypeOK
  <2>4. ASSUME NEW r \in Refreshes, NEW b \in Buttons, got[r][b] # None
        PROVE  got[r][b] =< version'[b]
    <3>1. got[r][b] \in Nat /\ got[r][b] =< version[b]
      BY <1>1, <2>4 DEF Values, AgeInv
    <3>. QED
      BY <2>3, <3>1
  <2>5. \A b \in Buttons : best[b] =< version'[b] /\ (shared => best[b] =< cached'[b])
    BY <2>3 DEF AgeInv
  <2>6. AgeInv'
    BY <2>1, <2>3, <2>4, <2>5 DEF AgeInv, Leads
  <2>. QED
    BY <1>1, <1>2, <2>1, <2>6
<1>5. CASE RefreshShared
  <2>1. PICK values \in Values : /\ Publish(values)
                                 /\ \A b \in Buttons : values[b] \in {None, cached[b]}
    <3>1. [b \in Buttons |-> IF b \in paired THEN cached[b] ELSE None] \in Values
      BY DEF TypeOK, Values
    <3>2. Nothing \in Values
      BY DEF Nothing, Values
    <3>. QED
      BY <1>5, <3>1, <3>2 DEF RefreshShared, Nothing
  <2>2. shared /\ UNCHANGED <<shared, hub, tasks, got>>
    BY <1>5 DEF RefreshShared
  <2>3. \A b \in Buttons : values[b] # None => best[b] =< values[b]
    BY <2>1, <2>2 DEF AgeInv
  <2>4. /\ ShownInv'
        /\ \A b \in Buttons : best'[b] = best[b] \/ (values[b] # None /\ best'[b] = values[b])
    BY <1>1, <2>1, <2>3, PublishKeepsShown
  <2>5. \A b \in Buttons : best'[b] =< cached[b] /\ best'[b] =< version[b]
    <3>1. \A b \in Buttons : /\ best[b] =< cached[b] /\ cached[b] =< version[b]
                             /\ {best[b], cached[b], version[b]} \subseteq Nat
      BY <2>2 DEF AgeInv, TypeOK
    <3>2. \A b \in Buttons : best'[b] = best[b] \/ best'[b] = cached[b]
      BY <2>1, <2>4
    <3>. QED
      BY <3>1, <3>2
  <2>6. \A r \in Refreshes, b \in Buttons : got[r][b] = None
    BY <2>2 DEF LockInv, AgeInv, Nothing
  <2>7. AgeInv'
    BY <2>2, <2>5, <2>6 DEF AgeInv, Leads
  <2>. QED
    BY <1>1, <2>2, <2>4, <2>7
<1>6. ASSUME NEW t \in Tasks, Send(t) PROVE AgeInv' /\ ShownInv' /\ got' = got
  <2>1. /\ step[t] = "queued" /\ step'[t] = "sent" /\ UNCHANGED <<shared, hub, at, ahead, got, shown>>
        /\ \A u \in Tasks : u # t => step'[u] = step[u]
    BY <1>1, <1>6 DEF Send
  <2>2. \A r \in Refreshes : /\ step'[r] = "idle" => step[r] = "idle"
                             /\ step[r] = "cloud" => step'[r] = "cloud"
    BY <2>1
  <2>3. AgeInv'
    BY <2>1, <2>2 DEF AgeInv, Leads
  <2>. QED
    BY <1>2, <2>1, <2>3
<1>7. ASSUME NEW t \in Tasks, Leave(t) \/ \E b \in Buttons : Again(t, b),
             UNCHANGED <<shared, version, cached, shown>>, got' \in [Refreshes -> Values],
             \A r \in Refreshes : got'[r] = IF r = t THEN Nothing ELSE got[r]
      PROVE  AgeInv' /\ ShownInv'
  <2>1. \A u \in Tasks : u # t => /\ step'[u] = step[u] /\ at'[u] = at[u]
                                  /\ ahead'[u] = ahead[u] \ {t}
    BY <1>1, <1>7 DEF Leave, Again
  <2>. QED
    BY <1>2, <1>7, <2>1, MoveKeepsAge
<1>8. ASSUME NEW t \in Tasks, Cancel(t)
      PROVE  AgeInv' /\ ShownInv' /\ got' \in [Refreshes -> Values]
  <2>1. Nothing \in Values
    BY DEF Nothing, Values
  <2>2. got' \in [Refreshes -> Values]
    BY <1>1, <1>8, <2>1 DEF Cancel
  <2>. QED
    BY <1>7, <1>8, <2>2 DEF Cancel
<1>9. ASSUME NEW t \in Tasks, t \notin Refreshes,
             PageReturns(t) \/ Pressed(t) \/ PressRaises(t)
      PROVE  AgeInv' /\ ShownInv' /\ got' = got
  <2>1. 1 \in Buttons
    OBVIOUS
  <2>. QED
    BY <1>1, <1>7, <1>9, <2>1 DEF PageReturns, Pressed, PressRaises
<1>10. ASSUME NEW t \in Tasks, NEW b \in Buttons, Start(t, b)
       PROVE  AgeInv' /\ ShownInv' /\ got' = got
  <2>1. t \in Refreshes => got[t] = Nothing
    BY <1>10 DEF Start, AgeInv
  <2>. QED
    BY <1>1, <1>7, <1>10, <2>1 DEF Start
<1>11. ASSUME NEW r \in Refreshes, Updated(r) \/ CloudReturns(r) \/ ReadRaises(r)
       PROVE  AgeInv' /\ ShownInv' /\ got' \in [Refreshes -> Values]
  <2>1. step[r] \in Proceeds /\ UNCHANGED <<shared, hub>>
    BY <1>11 DEF Updated, CloudReturns, ReadRaises, Answers, Raises, Proceeds
  <2>2. /\ step[r] = "sent" => ValuesFit(r, [got[r] EXCEPT ![at[r]] = version[at[r]]])
        /\ ValuesFit(r, got[r])
        /\ ValuesFit(r, [got[r] EXCEPT ![at[r]] = None])
    BY <2>1, ReadFits
  <2>3. ASSUME NEW values, ValuesFit(r, values), Proceed(r, values)
        PROVE  AgeInv' /\ ShownInv' /\ got' \in [Refreshes -> Values]
    BY <2>1, <2>3, ProceedKeepsAge
  <2>4. CASE Updated(r)
    <3> DEFINE values == [got[r] EXCEPT ![at[r]] = version[at[r]]]
    <3>1. step[r] = "sent" /\ ValuesFit(r, values)
      BY <2>2, <2>4 DEF Updated, Answers
    <3>2. CASE at[r] \in Cloud
      <4>1. /\ step' = [step EXCEPT ![r] = "cloud"] /\ got' = [got EXCEPT ![r] = values]
            /\ UNCHANGED <<at, ahead, shown>>
        BY <2>4, <3>2 DEF Updated
      <4>. QED
        BY <1>2, <2>1, <3>1, <4>1, CloudKeepsAge
    <3>3. CASE at[r] \notin Cloud
      BY <2>3, <2>4, <3>1, <3>3 DEF Updated
    <3>. QED
      BY <3>2, <3>3
  <2>5. CASE CloudReturns(r)
    BY <2>2, <2>3, <2>5 DEF CloudReturns
  <2>6. CASE ReadRaises(r)
    BY <2>2, <2>3, <2>6 DEF ReadRaises
  <2>. QED
    BY <1>11, <2>4, <2>5, <2>6
<1>12. ASSUME NEW t \in Tasks, TaskStep(t)
       PROVE  AgeInv' /\ ShownInv' /\ got' \in [Refreshes -> Values]
  <2>1. \A p \in Polls \union Presses : p \notin Refreshes
    OBVIOUS
  <2>. QED
    BY <1>1, <1>6, <1>9, <1>11, <1>12, <2>1 DEF TaskStep
<1>13. 1 \in Buttons
  OBVIOUS
<1>14. ASSUME \/ \E p \in Polls : Start(p, 1)
              \/ \E b \in Presses, c \in Buttons : Start(b, c)
              \/ \E r \in Refreshes : RefreshStarts(r)
       PROVE  AgeInv' /\ ShownInv' /\ got' \in [Refreshes -> Values]
  BY <1>1, <1>10, <1>13, <1>14 DEF RefreshStarts
<1>. QED
  BY <1>3, <1>4, <1>5, <1>8, <1>12, <1>14 DEF Next, PollAsks, PressStarts

-----------------------------------------------------------------------------
(***************************************************************************)
(* The theorems.                                                           *)
(***************************************************************************)
LEMMA InitInv == Init => Inv
  <1>1. Init => LockInv
    BY DEF Init, LockInv
  <1>2. Init => AgeInv
    BY DEF Init, AgeInv, Nothing
  <1>. QED
    BY <1>1, <1>2, InitType DEF Inv

LEMMA InvShown == Inv /\ NeverOlder => ShownInv
  BY DEF Inv, TypeOK, ShownInv

LEMMA StepInv == Inv /\ NeverOlder /\ [Next]_vars => Inv' /\ NeverOlder'
<1> SUFFICES ASSUME Inv, NeverOlder, [Next]_vars PROVE Inv' /\ NeverOlder'
  OBVIOUS
<1>1. AgeInv' /\ ShownInv' /\ got' \in [Refreshes -> Values]
  BY StepAge, InvShown
<1>2. TasksOK' /\ LockInv'
  BY StepLock DEF Inv
<1>3. TypeOK'
  BY <1>1, <1>2, StepHub DEF Inv, TypeOK, TasksOK, ShownInv
<1>. QED
  BY <1>1, <1>2, <1>3 DEF Inv, ShownInv

THEOREM InvHolds == Spec => [](Inv /\ NeverOlder)
<1>1. Init => NeverOlder
  BY DEF Init, NeverOlder, Shown, Snapshot, Nothing
<1>. QED
  BY <1>1, InitInv, StepInv, PTL DEF Spec

\* Types; a task has a button exactly while it waits; data that is shown has something
\* in it.
THEOREM TypeCorrect == Spec => []TypeOK
<1>1. Inv => TypeOK
  BY DEF Inv
<1>. QED
  BY <1>1, InvHolds, PTL

\* An own session has one request on its way, however many polls, refreshes and presses
\* there are and whichever of them are cancelled.
THEOREM RequestsAreSerialized == Spec => []OneRequestAtATime
<1>1. Inv => OneRequestAtATime
  BY DEF Inv, LockInv, OneRequestAtATime
<1>. QED
  BY <1>1, InvHolds, PTL

\* No entity goes back to values older than some it has shown, however many refreshes
\* overlap.
THEOREM NothingOlderIsShown == Spec => []NeverOlder
  BY InvHolds, PTL

=============================================================================
