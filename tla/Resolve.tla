------------------------------ MODULE Resolve ------------------------------
(***************************************************************************)
(* discovery.py, async_resolve_hub: which of the devices that answered a   *)
(* scan is the configured hub.  The answers are UDP datagrams: in any      *)
(* order, repeated, or missing.  A device that answers is a record         *)
(*    [model, id, mac, ip]                                                 *)
(* after normalize_model and normalize_mac: a model with or without        *)
(* support, an id or None, a MAC or None where it is missing or malformed. *)
(***************************************************************************)
EXTENDS Integers, Sequences, FiniteSets

CONSTANTS Models, SupportedModels,  \* SUPPORTED_HUB_MODELS
          DeviceIds, Macs, Hosts,
          MaxAnswers,               \* bound: devices in one scan
          None

ASSUME ResolveAssumption ==
  /\ SupportedModels \subseteq Models /\ MaxAnswers \in Nat
  /\ None \notin DeviceIds \union Macs \union Hosts

VARIABLES
  expectedId,     \* expected_device_id, or None
  expectedMac,    \* expected_mac, or None
  devices,        \* the devices considered so far
  matches,        \* the hosts in matches, each with the identity it gave
  contradiction

vars == <<expectedId, expectedMac, devices, matches, contradiction>>

Devices == [model : Models, id : DeviceIds \union {None},
            mac : Macs \union {None}, ip : Hosts]

\* At least one of the two is known: otherwise ValueError.
Init ==
  /\ expectedId \in DeviceIds \union {None} /\ expectedMac \in Macs \union {None}
  /\ expectedId # None \/ expectedMac # None
  /\ devices = << >> /\ matches = [h \in {} |-> None] /\ contradiction = FALSE

-----------------------------------------------------------------------------
Supported(d)  == d.model \in SupportedModels
IdMatches(d)  == expectedId # None /\ d.id = expectedId
MacMatches(d) == expectedMac # None /\ d.mac = expectedMac
Concerned(d)  == Supported(d) /\ (IdMatches(d) \/ MacMatches(d))

\* Slip: a device whose MAC is another's does not count as a contradiction.
ContradictsNever(d) == FALSE

Contradicts(d) == /\ IdMatches(d)
                  /\ expectedMac # None /\ d.mac # None /\ d.mac # expectedMac

\* Slip: matches by id instead of by host.
MatchedById(d) == [h \in DOMAIN matches \union {d.id} |->
                     IF h = d.id THEN [id |-> d.id, mac |-> d.mac] ELSE matches[h]]

Matched(d) == [h \in DOMAIN matches \union {d.ip} |->
                 IF h = d.ip THEN [id |-> d.id, mac |-> d.mac] ELSE matches[h]]

\* Slips: matches after the first are ignored; contradiction is assigned anew for
\* each device.
ConsiderUntilFound(d) ==
  /\ contradiction' = (contradiction \/ (Concerned(d) /\ Contradicts(d)))
  /\ matches' = IF Concerned(d) /\ ~Contradicts(d) /\ matches = [h \in {} |-> None]
                THEN Matched(d) ELSE matches
ConsiderForgiving(d) ==
  /\ contradiction' = IF Concerned(d) THEN Contradicts(d) ELSE contradiction
  /\ matches' = IF Concerned(d) /\ ~Contradicts(d) THEN Matched(d) ELSE matches

\* The body of the loop.
Consider(d) ==
  /\ contradiction' = (contradiction \/ (Concerned(d) /\ Contradicts(d)))
  /\ matches' = IF Concerned(d) /\ ~Contradicts(d) THEN Matched(d) ELSE matches

Next ==
  \E d \in Devices :
    /\ Len(devices) < MaxAnswers
    /\ devices' = Append(devices, d)
    /\ Consider(d)
    /\ UNCHANGED <<expectedId, expectedMac>>

Spec == Init /\ [][Next]_vars

\* What follows the loop: an AmbiguousHubError, a HubNotFoundError or the host.
Ambiguous == contradiction \/ Cardinality(DOMAIN matches) > 1
NotFound  == ~Ambiguous /\ matches = [h \in {} |-> None]
Chosen    == IF Ambiguous \/ NotFound THEN None ELSE CHOOSE h \in DOMAIN matches : TRUE

-----------------------------------------------------------------------------
(***************************************************************************)
(* Properties.                                                             *)
(***************************************************************************)
Answered == {devices[k] : k \in 1..Len(devices)}

\* The variables' types.
TypeOK ==
  /\ expectedId \in DeviceIds \union {None} /\ expectedMac \in Macs \union {None}
  /\ devices \in Seq(Devices) /\ contradiction \in BOOLEAN
  /\ DOMAIN matches \subseteq Hosts
  /\ \A h \in DOMAIN matches :
       matches[h] \in [id : DeviceIds \union {None}, mac : Macs \union {None}]

\* "Resolve exactly one supported hub": the outcome depends on the set of devices
\* that answered and neither on the order nor on repetitions.  A host is chosen
\* exactly if it is the only one a supported device with the expected identity
\* answered from, and none that gives the expected id gives another MAC.
OutcomeOfTheSet ==
  \A h \in Hosts :
    Chosen = h <=>
      /\ {d.ip : d \in {x \in Answered : Concerned(x)}} = {h}
      /\ \A d \in Answered : Supported(d) /\ IdMatches(d) =>
           expectedMac = None \/ d.mac \in {None, expectedMac}

\* An answer that comes late can make the outcome ambiguous but never turns one
\* host into another, nor takes an ambiguity away.
NeverRedirected ==
  [][(Chosen # None => Ambiguous' \/ Chosen' = Chosen) /\ (Ambiguous => Ambiguous')]_vars

\* The chosen identity never disagrees with a known MAC: what is left for
\* _verify_connection_identity to refuse is a device whose id differs (it may be
\* hashed) or that gave no MAC.
ChosenAgrees ==
  Chosen # None =>
    LET m == matches[Chosen]
    IN  \/ expectedMac # None /\ m.mac = expectedMac
        \/ expectedId # None /\ m.id = expectedId /\ (expectedMac = None \/ m.mac = None)

=============================================================================
