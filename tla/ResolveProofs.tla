--------------------------- MODULE ResolveProofs ---------------------------
(***************************************************************************)
(* Proofs about Resolve, for any number of answers and any identities.     *)
(***************************************************************************)
EXTENDS Resolve, FiniteSetTheorems, TLAPS

USE ResolveAssumption

-----------------------------------------------------------------------------
(***************************************************************************)
(* The inductive invariant: matches and contradiction are functions of the *)
(* set of devices considered so far.                                       *)
(***************************************************************************)
Agreeing == {d \in Answered : Concerned(d) /\ ~Contradicts(d)}

MatchesOfTheSet ==
  /\ matches = [h \in DOMAIN matches |-> matches[h]]
  /\ IsFiniteSet(DOMAIN matches) /\ Answered \subseteq Devices
  /\ DOMAIN matches = {d.ip : d \in Agreeing}
  /\ \A h \in DOMAIN matches :
       \E d \in Agreeing : d.ip = h /\ matches[h] = [id |-> d.id, mac |-> d.mac]
  /\ contradiction <=> \E d \in Answered : Concerned(d) /\ Contradicts(d)

Inv == TypeOK /\ MatchesOfTheSet

\* One more device has answered.
LEMMA OneMoreAnswer ==
  ASSUME devices \in Seq(Devices), NEW d \in Devices, devices' = Append(devices, d)
  PROVE  devices' \in Seq(Devices) /\ Answered' = Answered \union {d}
<1>1. devices' \in Seq(Devices) /\ Len(devices') = Len(devices) + 1 /\ Len(devices) \in Nat
  OBVIOUS
<1>2. /\ \A k \in 1..Len(devices) : devices'[k] = devices[k]
      /\ devices'[Len(devices) + 1] = d
  OBVIOUS
<1>3. 1..Len(devices') = (1..Len(devices)) \union {Len(devices) + 1}
  BY <1>1
<1>4. Answered' = {devices'[k] : k \in 1..Len(devices')}
  BY DEF Answered
<1>5. {devices'[k] : k \in 1..Len(devices')} = {devices[k] : k \in 1..Len(devices)} \union {d}
  BY <1>2, <1>3
<1>. QED
  BY <1>1, <1>4, <1>5 DEF Answered

LEMMA InitInv == Init => Inv
<1> SUFFICES ASSUME Init PROVE Inv
  OBVIOUS
<1>1. /\ devices = << >> /\ contradiction = FALSE
      /\ matches = [h \in {} |-> None] /\ DOMAIN matches = {}
  BY DEF Init
<1>2. Answered = {} /\ Agreeing = {}
  BY <1>1 DEF Answered, Agreeing
<1>3. TypeOK
  <2>1. devices \in Seq(Devices) /\ contradiction \in BOOLEAN
    <3>1. << >> \in Seq(Devices)
      OBVIOUS
    <3>. QED
      BY <1>1, <3>1
  <2>2. expectedId \in DeviceIds \union {None} /\ expectedMac \in Macs \union {None}
    BY DEF Init
  <2>3. DOMAIN matches \subseteq Hosts
        /\ \A h \in DOMAIN matches :
             matches[h] \in [id : DeviceIds \union {None}, mac : Macs \union {None}]
    BY <1>1
  <2>. QED
    BY <2>1, <2>2, <2>3 DEF TypeOK
<1>4. IsFiniteSet(DOMAIN matches)
  BY <1>1, FS_EmptySet
<1>5. MatchesOfTheSet
  BY <1>1, <1>2, <1>4 DEF MatchesOfTheSet
<1>. QED
  BY <1>3, <1>5 DEF Inv

\* What a step adds: the device's host if it agrees, a contradiction if it does not.
LEMMA StepAdds ==
  ASSUME NEW d \in Devices, Consider(d), UNCHANGED <<expectedId, expectedMac>>
  PROVE  LET agrees == Concerned(d) /\ ~Contradicts(d)
         IN  /\ DOMAIN matches' = DOMAIN matches \union (IF agrees THEN {d.ip} ELSE {})
             /\ \A h \in DOMAIN matches' :
                  matches'[h] = IF agrees /\ h = d.ip
                                THEN [id |-> d.id, mac |-> d.mac] ELSE matches[h]
             /\ contradiction' = (contradiction \/ (Concerned(d) /\ Contradicts(d)))
             /\ matches' = matches \/ matches' = [h \in DOMAIN matches' |-> matches'[h]]
  BY DEF Consider, Matched

LEMMA NextInv == Inv /\ [Next]_vars => Inv'
<1> SUFFICES ASSUME Inv, [Next]_vars PROVE Inv'
  OBVIOUS
<1> USE DEF Inv
<1>1. CASE UNCHANGED vars
  <2>1. UNCHANGED <<expectedId, expectedMac, devices, matches, contradiction>>
    BY <1>1 DEF vars
  <2>2. TypeOK'
    BY <2>1 DEF TypeOK
  <2>3. Answered' = Answered /\ Agreeing' = Agreeing
    BY <2>1 DEF Answered, Agreeing, Concerned, Contradicts, Supported, IdMatches, MacMatches
  <2>4. \A e : Concerned(e)' = Concerned(e) /\ Contradicts(e)' = Contradicts(e)
    BY <2>1 DEF Concerned, Contradicts, Supported, IdMatches, MacMatches
  <2>5. MatchesOfTheSet'
    <3>1. /\ (matches = [h \in DOMAIN matches |-> matches[h]])'
          /\ IsFiniteSet(DOMAIN matches') /\ Answered' \subseteq Devices
      BY <2>1, <2>3 DEF MatchesOfTheSet
    <3>2. DOMAIN matches' = {d.ip : d \in Agreeing'}
      BY <2>1, <2>3 DEF MatchesOfTheSet
    <3>3. \A h \in DOMAIN matches' :
            \E d \in Agreeing' : d.ip = h /\ matches'[h] = [id |-> d.id, mac |-> d.mac]
      <4> SUFFICES ASSUME NEW h \in DOMAIN matches
                   PROVE  \E d \in Agreeing : /\ d.ip = h
                                              /\ matches[h] = [id |-> d.id, mac |-> d.mac]
        BY <2>1, <2>3
      <4>. QED
        BY DEF MatchesOfTheSet
    <3>4. contradiction' <=> \E d \in Answered' : Concerned(d)' /\ Contradicts(d)'
      BY <2>1, <2>3, <2>4 DEF MatchesOfTheSet
    <3>. QED
      BY <3>1, <3>2, <3>3, <3>4 DEF MatchesOfTheSet
  <2>. QED
    BY <2>2, <2>5
<1>2. ASSUME NEW d \in Devices, devices' = Append(devices, d), Consider(d),
             UNCHANGED <<expectedId, expectedMac>>
      PROVE  Inv'
  <2> DEFINE agrees == Concerned(d) /\ ~Contradicts(d)
  <2>1. /\ DOMAIN matches' = DOMAIN matches \union (IF agrees THEN {d.ip} ELSE {})
        /\ \A h \in DOMAIN matches' :
             matches'[h] = IF agrees /\ h = d.ip
                           THEN [id |-> d.id, mac |-> d.mac] ELSE matches[h]
        /\ contradiction' = (contradiction \/ (Concerned(d) /\ Contradicts(d)))
        /\ matches' = matches \/ matches' = [h \in DOMAIN matches' |-> matches'[h]]
    BY <1>2, StepAdds
  <2>2. devices' \in Seq(Devices) /\ Answered' = Answered \union {d}
    BY <1>2, OneMoreAnswer DEF TypeOK
  <2>3. \A e : Concerned(e)' = Concerned(e) /\ Contradicts(e)' = Contradicts(e)
    BY <1>2 DEF Concerned, Contradicts, Supported, IdMatches, MacMatches
  <2>4. Agreeing' = Agreeing \union (IF agrees THEN {d} ELSE {})
    BY <2>2, <2>3 DEF Agreeing
  <2>5. d.ip \in Hosts /\ d.id \in DeviceIds \union {None} /\ d.mac \in Macs \union {None}
    BY DEF Devices
  <2>6. TypeOK'
    <3>1. DOMAIN matches' \subseteq Hosts
      BY <2>1, <2>5 DEF TypeOK
    <3>2. ASSUME NEW h \in DOMAIN matches'
          PROVE  matches'[h] \in [id : DeviceIds \union {None}, mac : Macs \union {None}]
      BY <2>1, <2>5 DEF TypeOK
    <3>3. contradiction' \in BOOLEAN
      BY <2>1 DEF TypeOK
    <3>. QED
      BY <1>2, <2>2, <3>1, <3>2, <3>3 DEF TypeOK
  <2>7. IsFiniteSet(DOMAIN matches')
    <3>1. IsFiniteSet(DOMAIN matches)
      BY DEF MatchesOfTheSet
    <3>2. IsFiniteSet(DOMAIN matches \union {d.ip})
      BY <3>1, FS_AddElement
    <3>. QED
      BY <2>1, <3>1, <3>2
  <2>8. DOMAIN matches' = {e.ip : e \in Agreeing'}
    BY <2>1, <2>4 DEF MatchesOfTheSet
  <2>9. ASSUME NEW h \in DOMAIN matches'
        PROVE  \E e \in Agreeing' : e.ip = h /\ matches'[h] = [id |-> e.id, mac |-> e.mac]
    <3>1. CASE agrees /\ h = d.ip
      <4>1. d \in Agreeing' /\ matches'[h] = [id |-> d.id, mac |-> d.mac]
        BY <2>1, <2>4, <2>9, <3>1
      <4>. QED
        BY <3>1, <4>1
    <3>2. CASE ~(agrees /\ h = d.ip)
      <4>1. h \in DOMAIN matches /\ matches'[h] = matches[h]
        BY <2>1, <2>9, <3>2
      <4>2. PICK e \in Agreeing : e.ip = h /\ matches[h] = [id |-> e.id, mac |-> e.mac]
        BY <4>1 DEF MatchesOfTheSet
      <4>3. e \in Agreeing'
        BY <2>4
      <4>. QED
        BY <4>1, <4>2, <4>3
    <3>. QED
      BY <3>1, <3>2
  <2>10. contradiction' <=> \E e \in Answered' : Concerned(e)' /\ Contradicts(e)'
    BY <2>1, <2>2, <2>3 DEF MatchesOfTheSet
  <2>11. Answered' \subseteq Devices
    BY <2>2 DEF MatchesOfTheSet
  <2>12. matches' = [h \in DOMAIN matches' |-> matches'[h]]
    BY <2>1 DEF MatchesOfTheSet
  <2>13. MatchesOfTheSet'
    BY <2>7, <2>8, <2>9, <2>10, <2>11, <2>12 DEF MatchesOfTheSet
  <2>. QED
    BY <2>6, <2>13
<1>. QED
  BY <1>1, <1>2 DEF Next

THEOREM InvHolds == Spec => []Inv
  BY InitInv, NextInv, PTL DEF Spec

-----------------------------------------------------------------------------
(***************************************************************************)
(* What is chosen.                                                         *)
(***************************************************************************)
\* A host is chosen exactly if it is the only one matched and nothing contradicts.
LEMMA ChosenIsTheOnlyMatch ==
  ASSUME Inv, NEW h \in Hosts
  PROVE  Chosen = h <=> ~contradiction /\ DOMAIN matches = {h}
<1>1. IsFiniteSet(DOMAIN matches) /\ Cardinality(DOMAIN matches) \in Nat
  BY FS_CardinalityType DEF Inv, MatchesOfTheSet
<1>2. Cardinality(DOMAIN matches) = 0 <=> DOMAIN matches = {}
  BY <1>1, FS_EmptySet
<1>3. Cardinality(DOMAIN matches) = 1 <=> \E x : DOMAIN matches = {x}
  BY <1>1, FS_Singleton
<1>4. matches = [x \in {} |-> None] <=> DOMAIN matches = {}
  <2>1. matches = [x \in DOMAIN matches |-> matches[x]]
    BY DEF Inv, MatchesOfTheSet
  <2>2. ASSUME DOMAIN matches = {} PROVE matches = [x \in {} |-> None]
    BY <2>1, <2>2
  <2>. QED
    BY <2>2
<1>5. h # None
  OBVIOUS
<1>6. ASSUME Chosen = h PROVE ~contradiction /\ DOMAIN matches = {h}
  <2>1. ~contradiction /\ ~(Cardinality(DOMAIN matches) > 1) /\ DOMAIN matches # {}
        /\ h = CHOOSE x \in DOMAIN matches : TRUE
    BY <1>4, <1>5, <1>6 DEF Chosen, Ambiguous, NotFound
  <2>2. PICK x : DOMAIN matches = {x}
    <3>1. Cardinality(DOMAIN matches) = 1
      BY <1>1, <1>2, <2>1
    <3>. QED
      BY <1>3, <3>1
  <2>3. h \in DOMAIN matches
    BY <2>1
  <2>. QED
    BY <2>1, <2>2, <2>3
<1>7. ASSUME ~contradiction, DOMAIN matches = {h} PROVE Chosen = h
  <2>1. Cardinality(DOMAIN matches) = 1 /\ DOMAIN matches # {}
    BY <1>3, <1>7
  <2>2. ~Ambiguous /\ ~NotFound
    BY <1>4, <1>7, <2>1 DEF Ambiguous, NotFound
  <2>3. Chosen = CHOOSE x \in DOMAIN matches : TRUE
    BY <2>2 DEF Chosen
  <2>. QED
    BY <1>7, <2>1, <2>3
<1>. QED
  BY <1>6, <1>7

\* What is chosen is a host.
LEMMA ChosenIsAHost ==
  ASSUME Inv, Chosen # None
  PROVE  Chosen \in DOMAIN matches /\ Chosen \in Hosts
<1>1. DOMAIN matches # {} /\ Chosen = CHOOSE x \in DOMAIN matches : TRUE
  <2>1. matches = [x \in DOMAIN matches |-> matches[x]]
    BY DEF Inv, MatchesOfTheSet
  <2>2. ~Ambiguous /\ ~NotFound
    BY DEF Chosen
  <2>. QED
    BY <2>1, <2>2 DEF Chosen, NotFound
<1>. QED
  BY <1>1 DEF Inv, TypeOK

-----------------------------------------------------------------------------
(***************************************************************************)
(* The theorems.                                                           *)
(***************************************************************************)
\* Resolve's type invariant.
THEOREM TypeCorrect == Spec => []TypeOK
<1>1. Inv => TypeOK
  BY DEF Inv
<1>. QED
  BY <1>1, InvHolds, PTL

\* The outcome is a function of the set of devices that answered.
THEOREM OrderIsIrrelevant == Spec => []OutcomeOfTheSet
<1>1. Inv => OutcomeOfTheSet
  <2> SUFFICES ASSUME Inv, NEW h \in Hosts
               PROVE  Chosen = h <=>
                        /\ {d.ip : d \in {x \in Answered : Concerned(x)}} = {h}
                        /\ \A d \in Answered : Supported(d) /\ IdMatches(d) =>
                             expectedMac = None \/ d.mac \in {None, expectedMac}
    BY DEF OutcomeOfTheSet
  <2>1. Chosen = h <=> ~contradiction /\ DOMAIN matches = {h}
    BY ChosenIsTheOnlyMatch
  <2>2. ~contradiction <=> \A d \in Answered : ~(Concerned(d) /\ Contradicts(d))
    BY DEF Inv, MatchesOfTheSet
  <2>3. (\A d \in Answered : ~(Concerned(d) /\ Contradicts(d)))
          <=> \A d \in Answered : Supported(d) /\ IdMatches(d) =>
                expectedMac = None \/ d.mac \in {None, expectedMac}
    BY DEF Concerned, Contradicts
  <2>4. ~contradiction => Agreeing = {x \in Answered : Concerned(x)}
    BY <2>2 DEF Agreeing
  <2>5. DOMAIN matches = {d.ip : d \in Agreeing}
    BY DEF Inv, MatchesOfTheSet
  <2>. QED
    BY <2>1, <2>2, <2>3, <2>4, <2>5
<1>. QED
  BY <1>1, InvHolds, PTL

\* A chosen host gave the expected MAC, or the expected id and no MAC that differs.
THEOREM ChosenHostAgrees == Spec => []ChosenAgrees
<1>1. Inv => ChosenAgrees
  <2> SUFFICES ASSUME Inv, Chosen # None
               PROVE  LET m == matches[Chosen]
                      IN  \/ expectedMac # None /\ m.mac = expectedMac
                          \/ /\ expectedId # None /\ m.id = expectedId
                             /\ (expectedMac = None \/ m.mac = None)
    BY DEF ChosenAgrees
  <2>1. PICK d \in Agreeing : matches[Chosen] = [id |-> d.id, mac |-> d.mac]
    BY ChosenIsAHost DEF Inv, MatchesOfTheSet
  <2>2. Concerned(d) /\ ~Contradicts(d)
    BY <2>1 DEF Agreeing
  <2>. QED
    BY <2>1, <2>2 DEF Concerned, Contradicts, IdMatches, MacMatches
<1>. QED
  BY <1>1, InvHolds, PTL

\* A later answer never turns one chosen host into another, nor settles an
\* ambiguity.
THEOREM LateAnswersDoNotRedirect == Spec => NeverRedirected
<1>1. Inv /\ Inv' /\ [Next]_vars =>
        [(Chosen # None => Ambiguous' \/ Chosen' = Chosen) /\ (Ambiguous => Ambiguous')]_vars
  <2> SUFFICES ASSUME Inv, Inv', Next
               PROVE  /\ Chosen # None => Ambiguous' \/ Chosen' = Chosen
                      /\ Ambiguous => Ambiguous'
    OBVIOUS
  <2>1. PICK d \in Devices : Consider(d) /\ UNCHANGED <<expectedId, expectedMac>>
    BY DEF Next
  <2>2. /\ DOMAIN matches \subseteq DOMAIN matches'
        /\ contradiction => contradiction'
    BY <2>1, StepAdds
  <2>3. /\ IsFiniteSet(DOMAIN matches') /\ Cardinality(DOMAIN matches') \in Nat
        /\ Cardinality(DOMAIN matches) \in Nat
        /\ Cardinality(DOMAIN matches) =< Cardinality(DOMAIN matches')
    <3>1. IsFiniteSet(DOMAIN matches') /\ IsFiniteSet(DOMAIN matches)
      BY DEF Inv, MatchesOfTheSet
    <3>2. DOMAIN matches \in SUBSET (DOMAIN matches')
      BY <2>2
    <3>. QED
      BY <3>1, <3>2, FS_CardinalityType, FS_Subset
  <2>4. Ambiguous => Ambiguous'
    BY <2>2, <2>3 DEF Ambiguous
  <2>5. ASSUME Chosen # None, ~Ambiguous' PROVE Chosen' = Chosen
    <3> DEFINE h == Chosen
    <3>1. h \in Hosts /\ DOMAIN matches = {h}
      BY <2>5, ChosenIsAHost, ChosenIsTheOnlyMatch
    <3>2. h \in DOMAIN matches' /\ ~(Cardinality(DOMAIN matches') > 1)
          /\ ~contradiction'
      BY <2>2, <2>5, <3>1 DEF Ambiguous
    <3>3. Cardinality(DOMAIN matches') = 1
      BY <2>3, <3>1, <3>2, FS_Singleton
    <3>4. DOMAIN matches' = {h}
      <4>1. PICK x : DOMAIN matches' = {x}
        BY <2>3, <3>3, FS_Singleton
      <4>. QED
        BY <3>2, <4>1
    <3>5. h = CHOOSE x \in {h} : TRUE
      OBVIOUS
    <3>6. ~NotFound'
      BY <3>4 DEF NotFound
    <3>. QED
      BY <2>5, <3>4, <3>5, <3>6 DEF Chosen
  <2>. QED
    BY <2>4, <2>5
<1>. QED
  BY <1>1, InvHolds, PTL DEF Spec, NeverRedirected

=============================================================================
