------------------------- MODULE ConfigEntryProofs -------------------------
(***************************************************************************)
(* Proofs about ConfigEntry, for any hubs, addresses and bounds.  EntryInv *)
(* is inductive: beside the types it says who holds an own session, which  *)
(* hub a connection in use leads to, that the snapshot a setup will save   *)
(* fits its connection, and that the hub behind it has answered by then.   *)
(***************************************************************************)
EXTENDS ConfigEntry, TLAPS

LEMMA Repassworded ==
  ASSUME NEW d \in Data, NEW p \in 0..MaxPassword
  PROVE  /\ [d EXCEPT !.password = p] \in Data
         /\ [d EXCEPT !.password = p].mac = d.mac
         /\ [d EXCEPT !.password = p].host = d.host
  BY DEF Data

LEMMA NoFormIsForm == NoForm \in Forms /\ NoForm.step = "none" /\ NoForm.hub = None
  BY DEF NoForm, Forms

LEMMA InitInv == Init => EntryInv
<1> SUFFICES ASSUME Init PROVE EntryInv
  OBVIOUS
<1>1. official \in [Hubs -> Officials]
  BY DEF Init, Officials
<1>2. data \in Data /\ data.mac \in {None, Mine} /\ registry \in {data.mac, Mine}
  BY ConfigEntryAssumption DEF Init, Data
<1>3. TypeOK
  <2>1. at \in [Hubs -> Hosts \union {None}] /\ moves = 0 /\ password = 0 /\ accepted = 0
    BY DEF Init
  <2>2. /\ ask = FALSE /\ reload = FALSE /\ phase = "idle" /\ conn = None
        /\ outcome = None /\ answered = None
        /\ form = NoForm /\ open = 0
    BY DEF Init
  <2>3. WorldOK
    BY ConfigEntryAssumption, <1>1, <2>1 DEF WorldOK
  <2>4. EntryOK
    <3>1. ask \in BOOLEAN /\ reload \in BOOLEAN
      BY <2>2
    <3>2. data \in Data /\ registry \in Hubs \union {None} /\ accepted \in 0..MaxPassword
      BY ConfigEntryAssumption, <1>2, <2>1
    <3> QED
      BY <3>1, <3>2 DEF EntryOK
  <2>5. SetupOK
    BY ConfigEntryAssumption, <2>2 DEF SetupOK, Unconnected, Connection
  <2>6. FormOK
    BY ConfigEntryAssumption, NoFormIsForm, <2>2 DEF FormOK
  <2> QED
    BY <2>3, <2>4, <2>5, <2>6 DEF TypeOK
<1>4. SessionsAccounted /\ VerifiedBeforeUse /\ SnapshotFits /\ AnswerFits
  BY ConfigEntryAssumption, NoFormIsForm, <1>2
  DEF Init, SessionsAccounted, VerifiedBeforeUse, SnapshotFits, AnswerFits, Holds, FormHolds
<1> QED
  BY <1>3, <1>4 DEF EntryInv

LEMMA WorldKeeps == EntryInv /\ World => EntryInv'
<1> SUFFICES ASSUME EntryInv, World PROVE EntryInv'
  OBVIOUS
<1> USE ConfigEntryAssumption DEF EntryInv, TypeOK, WorldOK, EntryOK, SetupOK, FormOK, SessionsAccounted, VerifiedBeforeUse,
      SnapshotFits, AnswerFits, Holds, FormHolds, Unconnected, Connection,
      world, entry, setup, WorldOnly
<1>1. ASSUME NEW b \in Hubs, Official(b) PROVE EntryInv'
  <2>1. official' \in [Hubs -> Officials]
    BY <1>1 DEF Official, Officials
  <2> QED
    BY <1>1, <2>1 DEF Official
<1>2. ASSUME NEW b \in Hubs, NEW h \in Hosts \union {None}, HubMoves(b, h) PROVE EntryInv'
  BY <1>2 DEF HubMoves
<1>3. CASE PasswordChanges
  BY <1>3 DEF PasswordChanges
<1>4. CASE UserReloads
  BY <1>4 DEF UserReloads
<1>5. CASE Restart
  <2>1. official' \in [Hubs -> Officials]
    BY <1>5 DEF Restart, Entries, Officials
  <2>2. /\ ask' = FALSE /\ reload' = FALSE /\ phase' = "idle" /\ conn' = None
        /\ outcome' = None /\ answered' = None
        /\ form' = NoForm /\ open' = 0
        /\ UNCHANGED <<at, moves, password, data, registry, accepted>>
    BY <1>5 DEF Restart
  <2>3. WorldOK' /\ EntryOK'
    BY <2>1, <2>2
  <2>4. SetupOK'
    BY <2>2
  <2>5. FormOK'
    BY <2>2, NoFormIsForm
  <2>6. SessionsAccounted' /\ VerifiedBeforeUse' /\ SnapshotFits' /\ AnswerFits'
    BY <2>2, NoFormIsForm
  <2> QED
    BY <2>3, <2>4, <2>5, <2>6
<1> QED
  BY <1>1, <1>2, <1>3, <1>4, <1>5 DEF World

\* What async_get_connection returns, or closes at once, and its snapshot.
LEMMA Identified ==
  ASSUME EntryInv, NEW b \in Hubs, host' \in Hosts, NEW shared \in BOOLEAN,
         conn' = [hub |-> b, shared |-> shared],
         IF IsExpected(b) THEN Built(b) ELSE Refused,
         data' = data, form' = form,
         at' = at, moves' = moves, password' = password, official' = official,
         accepted' = accepted, reload' = reload,
         phase # "close",
         open' \in 0..2,
         open' = (IF shared THEN 0 ELSE 1) + FormHolds
  PROVE  EntryInv'
<1> USE ConfigEntryAssumption DEF EntryInv
<1>1. WorldOK' /\ EntryOK'
  BY DEF TypeOK, WorldOK, EntryOK, Built, Refused
<1>2. FormOK'
  BY DEF TypeOK, FormOK
<1>3. conn' # None /\ conn'.hub = b /\ conn'.shared = shared
  OBVIOUS
<1>4. conn' \in [hub : Hubs, shared : BOOLEAN]
  OBVIOUS
<1>5. CASE IsExpected(b) /\ Built(b)
  <2>1. phase' = "load" /\ updated' = [data EXCEPT !.host = host', !.mac = b]
    BY <1>5 DEF Built, Update
  <2>2. outcome' = None /\ answered' = answered
    BY <1>5 DEF Built, TypeOK, SetupOK
  <2>3. data \in Data /\ data.mac \in {None, registry} /\ answered \in Hosts \union {None}
    BY DEF TypeOK, EntryOK, SetupOK, VerifiedBeforeUse
  <2>4. b \in Namesakes /\ registry' = b /\ data.mac \in {None, b}
    BY <1>5, <2>3 DEF IsExpected, EntryMac, Built
  <2>5. updated' \in Data /\ updated'.host = host' /\ updated'.mac = b
    BY <2>1, <2>3 DEF Data
  <2>6. SetupOK'
    BY <2>1, <2>2, <2>3, <2>5, <1>3, <1>4 DEF SetupOK, Unconnected, Connection
  <2>7. SessionsAccounted'
    BY <2>1, <1>3 DEF SessionsAccounted, Holds, FormHolds
  <2>8. VerifiedBeforeUse' /\ SnapshotFits' /\ AnswerFits'
    BY <2>1, <2>5, <2>4, <1>3 DEF VerifiedBeforeUse, SnapshotFits, AnswerFits
  <2> QED
    BY <2>6, <2>7, <2>8, <1>1, <1>2 DEF TypeOK
<1>6. CASE ~IsExpected(b) /\ Refused
  <2>1. phase' = "close" /\ outcome' = "retry" /\ answered' = answered /\ registry' = registry
    BY <1>6 DEF Refused
  <2>2. SetupOK'
    BY <2>1, <1>3, <1>4 DEF TypeOK, SetupOK, Unconnected, Connection
  <2>3. SessionsAccounted'
    BY <2>1, <1>3 DEF SessionsAccounted, Holds, FormHolds
  <2>4. VerifiedBeforeUse' /\ SnapshotFits' /\ AnswerFits'
    BY <2>1 DEF VerifiedBeforeUse, SnapshotFits, AnswerFits
  <2> QED
    BY <2>2, <2>3, <2>4, <1>1, <1>2 DEF TypeOK
<1> QED
  BY <1>5, <1>6

LEMMA SetupKeeps == EntryInv /\ Setup => EntryInv'
<1> SUFFICES ASSUME EntryInv, Setup PROVE EntryInv'
  OBVIOUS
<1> USE ConfigEntryAssumption DEF EntryInv, TypeOK, WorldOK, EntryOK, SetupOK, FormOK, SessionsAccounted, VerifiedBeforeUse,
      SnapshotFits, AnswerFits, Holds, FormHolds, Unconnected, Connection,
      world, entry, setup, End
<1>1. CASE BeginSetup
  <2>1. data.host \in Hosts
    BY DEF Data
  <2> QED
    BY <1>1, <2>1 DEF BeginSetup
<1>2. CASE ResolveRaises
  BY <1>2 DEF ResolveRaises
<1>3. ASSUME NEW h \in Hosts, Resolved(h) PROVE EntryInv'
  <2>1. CASE LoadedAt(h) # {} /\ phase' \in {"load", "close"}
    <3>1. PICK b \in LoadedAt(h) : /\ conn' = [hub |-> b, shared |-> TRUE]
                                   /\ IF IsExpected(b) THEN Built(b) ELSE Refused
      BY <1>3, <2>1 DEF Resolved
    <3>2. b \in Hubs
      BY DEF LoadedAt, Enabled, Entries
    <3>3. /\ host' = h /\ open' = open /\ phase = "resolve" /\ conn = None
          /\ UNCHANGED <<data, form, at, moves, password, official, accepted, reload>>
      BY <1>3, <2>1 DEF Resolved
    <3> QED
      BY <3>1, <3>2, <3>3, Identified
  <2>2. CASE LoadedAt(h) = {} /\ Enabled(h) # {}
    BY <1>3, <2>2 DEF Resolved
  <2>3. CASE Enabled(h) = {}
    <3>1. LoadedAt(h) = {}
      BY <2>3 DEF LoadedAt
    <3> QED
      BY <1>3, <2>3, <3>1 DEF Resolved
  <2>4. LoadedAt(h) # {} => phase' \in {"load", "close"}
    BY <1>3 DEF Resolved, Built, Refused, LoadedAt
  <2> QED
    BY <2>1, <2>2, <2>3, <2>4
<1>4. ASSUME NEW after \in {"retry", "reauth"}, ConnectRaises(after) PROVE EntryInv'
  BY <1>4 DEF ConnectRaises
<1>5. ASSUME NEW b \in Hubs, Connected(b) PROVE EntryInv'
  <2>1. /\ phase = "connect" /\ host' = host /\ host \in Hosts
        /\ conn' = [hub |-> b, shared |-> FALSE]
        /\ IF IsExpected(b) THEN Built(b) ELSE Refused
        /\ UNCHANGED <<data, form, open, at, moves, password, official, accepted, reload>>
    BY <1>5 DEF Connected
  <2> QED
    BY <2>1, Identified
<1>6. CASE CursorsLoaded
  BY <1>6 DEF CursorsLoaded
<1>7. CASE FirstRefreshReturns
  <2>1. updated \in Data /\ updated.mac = registry
    BY <1>7 DEF FirstRefreshReturns
  <2> QED
    BY <1>7, <2>1 DEF FirstRefreshReturns
<1>8. CASE Forwarded
  BY <1>8 DEF Forwarded
<1>9. ASSUME NEW after \in {"retry", "reauth", "error"}, SetupRaises(after) PROVE EntryInv'
  BY <1>9 DEF SetupRaises, Fail
<1>10. CASE HubAnswers
  <2>1. conn \in [hub : Hubs, shared : BOOLEAN] /\ conn.hub \in Hubs /\ host \in Hosts
    BY <1>10 DEF HubAnswers
  <2>2. at[conn.hub] \in Hosts /\ (~conn.shared => at[conn.hub] = host)
    BY <1>10, <2>1 DEF HubAnswers, Answers, Officials
  <2> QED
    BY <1>10, <2>2 DEF HubAnswers
<1> QED
  BY <1>1, <1>2, <1>3, <1>4, <1>5, <1>6, <1>7, <1>8, <1>9, <1>10 DEF Setup

LEMMA LifeKeeps == EntryInv /\ Life => EntryInv'
<1> SUFFICES ASSUME EntryInv, Life PROVE EntryInv'
  OBVIOUS
<1> USE ConfigEntryAssumption DEF EntryInv, TypeOK, WorldOK, EntryOK, SetupOK, FormOK, SessionsAccounted, VerifiedBeforeUse,
      SnapshotFits, AnswerFits, Holds, FormHolds, Unconnected, Connection,
      world, entry, setup, End
<1>1. CASE PollRefused
  BY <1>1 DEF PollRefused
<1>2. CASE BeginReload
  BY <1>2 DEF BeginReload
<1>3. CASE PlatformsUnloaded
  BY <1>3 DEF PlatformsUnloaded
<1>4. CASE PlatformsRemain
  BY <1>4 DEF PlatformsRemain
<1>5. CASE CloseReturns
  BY <1>5 DEF CloseReturns
<1>6. CASE CloseRaises
  BY <1>6 DEF CloseRaises
<1> QED
  BY <1>1, <1>2, <1>3, <1>4, <1>5, <1>6 DEF Life

LEMMA ValidatedKeeps ==
  ASSUME EntryInv, NEW hub \in Hubs, NEW typed \in 0..MaxPassword, Validated(hub, typed)
  PROVE  /\ data' \in Data /\ data'.mac = data.mac /\ accepted' \in 0..MaxPassword
         /\ ask' \in BOOLEAN /\ reload' \in BOOLEAN /\ registry' = registry
<1>1. data \in Data /\ accepted \in 0..MaxPassword
      /\ ask \in BOOLEAN /\ reload \in BOOLEAN
  BY DEF EntryInv, TypeOK, WorldOK, EntryOK, SetupOK, FormOK, VerifiedBeforeUse
<1>2. CASE hub \in Namesakes
  BY <1>1, <1>2, Repassworded DEF Validated
<1>3. CASE hub \notin Namesakes
  BY <1>1, <1>3 DEF Validated, entry
<1> QED
  BY <1>2, <1>3

LEMMA FormKeeps == EntryInv /\ Form => EntryInv'
<1> SUFFICES ASSUME EntryInv, Form PROVE EntryInv'
  OBVIOUS
<1> USE ConfigEntryAssumption, NoFormIsForm
    DEF EntryInv, TypeOK, WorldOK, EntryOK, SetupOK, FormOK, SessionsAccounted, VerifiedBeforeUse, SnapshotFits, AnswerFits, Holds, FormHolds,
      Unconnected, Connection, world, entry, setup, FormOnly
<1>1. ASSUME NEW typed \in 0..password, Submit(typed) PROVE EntryInv'
  <2>1. typed \in 0..MaxPassword
    OBVIOUS
  <2>2. form' \in Forms /\ form'.step = "connect" /\ form'.hub = None /\ form'.typed = typed
    BY <1>1, <2>1 DEF Submit, NoForm, Forms, Data
  <2> QED
    BY <1>1, <2>1, <2>2 DEF Submit
<1>2. ASSUME NEW typed \in 0..password, SubmitShared(typed) PROVE EntryInv'
  <2>1. typed \in 0..MaxPassword
    OBVIOUS
  <2>2. PICK b \in LoadedAt(data.host) : Validated(b, typed)
    BY <1>2 DEF SubmitShared
  <2>3. b \in Hubs
    BY DEF LoadedAt, Enabled, Entries
  <2>4. /\ data' \in Data /\ data'.mac = data.mac /\ accepted' \in 0..MaxPassword
        /\ ask' \in BOOLEAN /\ reload' \in BOOLEAN /\ registry' = registry
    BY <2>1, <2>2, <2>3, ValidatedKeeps
  <2> QED
    BY <1>2, <2>4 DEF SubmitShared
<1>3. CASE FormConnectRaises
  BY <1>3 DEF FormConnectRaises
<1>4. ASSUME NEW b \in Hubs, FormConnected(b) PROVE EntryInv'
  <2>1. form' \in Forms /\ form'.step = "close" /\ form'.hub = b /\ form'.typed = form.typed
    BY <1>4 DEF FormConnected, Forms
  <2> QED
    BY <1>4, <2>1 DEF FormConnected
<1>5. CASE FormCloses
  <2>1. form.hub \in Hubs /\ form.typed \in 0..MaxPassword
    BY <1>5 DEF FormCloses, Forms
  <2>2. /\ data' \in Data /\ data'.mac = data.mac /\ accepted' \in 0..MaxPassword
        /\ ask' \in BOOLEAN /\ reload' \in BOOLEAN /\ registry' = registry
    BY <1>5, <2>1, ValidatedKeeps DEF FormCloses
  <2> QED
    BY <1>5, <2>2 DEF FormCloses
<1>6. CASE FormCloseRaises
  BY <1>6 DEF FormCloseRaises
<1> QED
  BY <1>1, <1>2, <1>3, <1>4, <1>5, <1>6 DEF Form

LEMMA StepKeeps == EntryInv /\ [Next]_vars => EntryInv'
<1>1. EntryInv /\ UNCHANGED vars => EntryInv'
  BY DEF EntryInv, TypeOK, WorldOK, EntryOK, SetupOK, FormOK, SessionsAccounted, VerifiedBeforeUse, SnapshotFits, AnswerFits, Holds, FormHolds,
     vars, world, entry, setup
<1> QED
  BY <1>1, WorldKeeps, SetupKeeps, LifeKeeps, FormKeeps DEF Next

\* The inductive invariant, for any hubs, addresses and bounds.
THEOREM EntryCorrect == Spec => []EntryInv
  BY InitInv, StepKeeps, PTL DEF Spec

\* Types, and what each phase of a setup, an unload or a form holds.
THEOREM TypeCorrect == Spec => []TypeOK
  BY EntryCorrect, PTL DEF EntryInv

\* No step of a setup, an unload or a reauthentication loses an own session or closes
\* it twice (async_connect_hub, async_get_connection, async_setup_entry).
THEOREM SessionsKept == Spec => []SessionsAccounted
  BY EntryCorrect, PTL DEF EntryInv

\* The hub in use reports the entry's device ID and is always the one that was used
\* first (_verify_connection_identity, _entry_mac).
THEOREM Verified == Spec => []VerifiedBeforeUse
  BY EntryCorrect, PTL DEF EntryInv

\* A repaired address is saved only after the verified hub has answered the first
\* refresh of the same setup there, and stored data changes only for a connection to
\* a hub with the entry's device ID (async_setup_entry).
THEOREM SavedProved == Spec => SavedWhenProved
<1> DEFINE Proved == /\ data'.host # data.host => /\ conn # None /\ data'.host = host
                                                  /\ answered # None
                                                  /\ ~conn.shared => answered = data'.host
                     /\ data' # data =>
                          \/ conn # None /\ conn.hub = registry /\ answered # None
                          \/ ({form.hub} \union LoadedAt(data.host)) \cap Namesakes # {}
<1>1. EntryInv /\ [Next]_vars => [Proved]_vars
  <2> SUFFICES ASSUME EntryInv, Next, data' # data PROVE Proved
    BY DEF vars, world, entry
  <2>1. CASE FirstRefreshReturns
    BY <2>1 DEF FirstRefreshReturns, EntryInv, SnapshotFits, AnswerFits, TypeOK, SetupOK, VerifiedBeforeUse, Connection
  <2>2. ASSUME NEW typed \in 0..password, SubmitShared(typed) PROVE Proved
    <3>1. PICK b \in LoadedAt(data.host) : Validated(b, typed)
      BY <2>2 DEF SubmitShared
    <3>2. b \in Namesakes
      BY <3>1 DEF Validated, entry
    <3>3. data' = [data EXCEPT !.password = typed] /\ data'.host = data.host
      BY <3>1, <3>2 DEF Validated, EntryInv, TypeOK, EntryOK, Data
    <3> QED
      BY <3>1, <3>2, <3>3
  <2>3. CASE FormCloses
    <3>1. form.hub \in Namesakes
      BY <2>3 DEF FormCloses, Validated, entry
    <3>2. data'.host = data.host
      BY <2>3, <3>1 DEF FormCloses, Validated, EntryInv, TypeOK, EntryOK, Data
    <3> QED
      BY <3>1, <3>2
  <2> QED
    BY <2>1, <2>2, <2>3
    DEF Next, World, Setup, Life, Form, WorldOnly, FormOnly, entry, setup,
        Official, HubMoves, PasswordChanges, UserReloads, Restart, BeginSetup, ResolveRaises,
        Resolved, ConnectRaises, Connected, CursorsLoaded, HubAnswers, Forwarded, SetupRaises,
        PollRefused, BeginReload, PlatformsUnloaded, PlatformsRemain, CloseReturns, CloseRaises,
        Submit, FormConnectRaises, FormConnected, FormCloseRaises
<1>2. SavedWhenProved <=> [][Proved]_vars
  BY PTL DEF SavedWhenProved
<1> QED
  BY <1>1, <1>2, EntryCorrect, PTL DEF Spec

=============================================================================
