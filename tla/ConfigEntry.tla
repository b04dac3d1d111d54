---------------------------- MODULE ConfigEntry ----------------------------
(***************************************************************************)
(* __init__.py, connection.py and the reauthentication step of             *)
(* config_flow.py: how the entry of one hub gets a connection, keeps it    *)
(* and gives it back, while the hub changes its address, the account its   *)
(* password, and the official TP-Link integration comes and goes.          *)
(*                                                                         *)
(* phase is Home Assistant's state of the entry and, while a setup or an   *)
(* unload is under way, the await it has reached.  A hub stands for its    *)
(* MAC.  Passwords are numbered in the order the account had them.         *)
(***************************************************************************)
EXTENDS Integers, FiniteSets

CONSTANTS Hubs, Mine,      \* Mine: the hub the entry was made for
          Namesakes,       \* the hubs that report the entry's unique_id as device ID
          Hosts,           \* private IPv4 addresses
          Home,            \* the address the entry was made with
          MaxMoves,        \* bound: changes of address
          MaxPassword,     \* bound: changes of the account's password
          MaxOfficial,     \* bound: official entries at a time
          None

ASSUME ConfigEntryAssumption ==
  /\ Mine \in Namesakes /\ Namesakes \subseteq Hubs /\ Home \in Hosts
  /\ None \notin Hubs \union Hosts \union Nat \union {"idle", "retry", "error", "reauth"}
  /\ None \notin [hub : Hubs, shared : BOOLEAN]
  /\ MaxMoves \in Nat /\ MaxPassword \in Nat /\ MaxOfficial \in Nat

VARIABLES
  at,        \* the address of each hub, or None
  moves,     \* number of changes of address so far
  password,  \* the account's password
  official,  \* the TP-Link entry of each hub: its state and stored host
  data,      \* entry.data: host, MAC and password
  registry,  \* the MAC of the entry's hub in the device registry, or None
  ask,       \* a reauthentication form is open
  reload,    \* a reload of the entry is due
  phase,
  host,      \* resolved_host
  sent,      \* the password a setup or a form passes on
  conn,      \* HubConnection: the hub and whether the session is shared, or None
  updated,   \* updated_data, or None
  outcome,   \* where phase goes after the connection is closed
  form,      \* the form's own connection attempt
  open,      \* own sessions that were neither detached nor given to client.close()
  accepted,  \* history: the password the user had accepted last
  answered   \* history: where the hub was as it answered a setup's first log read

world    == <<at, moves, password, official>>
entry    == <<data, registry, ask, reload>>
setup    == <<phase, host, sent, conn, updated, outcome, answered>>
vars     == <<world, entry, setup, form, open, accepted>>

NoForm == [step |-> "none", host |-> None, typed |-> None, hub |-> None]

Init ==
  /\ at \in [Hubs -> Hosts \union {None}]
  /\ \A b, c \in Hubs : b # c /\ at[b] # None => at[b] # at[c]
  /\ at[Mine] = Home
  /\ moves = 0 /\ password = 0
  /\ official = [b \in Hubs |-> [state |-> "off", host |-> None]]
  /\ data \in [host : {Home}, mac : {None, Mine}, password : {0}]
  /\ registry \in {data.mac, Mine}
  /\ ask = FALSE /\ reload = FALSE
  /\ phase = "idle" /\ host = None /\ sent = None /\ conn = None
  /\ updated = None /\ outcome = None /\ form = NoForm
  /\ open = 0 /\ accepted = 0 /\ answered = None

-----------------------------------------------------------------------------
(***************************************************************************)
(* The world: hubs, the account, the official integration, the user.       *)
(***************************************************************************)
WorldOnly == UNCHANGED <<entry, setup, form, open, accepted>>

HubMoves(b, h) ==
  /\ moves < MaxMoves /\ h # at[b]
  /\ h # None => \A c \in Hubs : at[c] # h
  /\ at' = [at EXCEPT ![b] = h] /\ moves' = moves + 1
  /\ UNCHANGED <<password, official>> /\ WorldOnly

PasswordChanges ==
  /\ password < MaxPassword /\ password' = password + 1
  /\ UNCHANGED <<at, moves, official>> /\ WorldOnly

Entries == {b \in Hubs : official[b].state # "off"}

\* An official entry is enabled or disabled, finishes loading, is reloaded, or
\* follows its hub to a new address.
Official(b) ==
  /\ \/ \E h \in Hosts : /\ b \notin Entries /\ Cardinality(Entries) < MaxOfficial
                         /\ official' = [official EXCEPT ![b] = [state |-> "loading", host |-> h]]
     \/ /\ official[b].state = "loading" /\ at[b] = official[b].host
        /\ official' = [official EXCEPT ![b].state = "loaded"]
     \/ /\ official[b].state = "loaded"
        /\ official' = [official EXCEPT ![b].state = "loading"]
     \/ /\ official[b].state = "loading" /\ at[b] \notin {None, official[b].host}
        /\ official' = [official EXCEPT ![b].host = at[b]]
     \/ /\ b \in Entries
        /\ official' = [official EXCEPT ![b] = [state |-> "off", host |-> None]]
  /\ UNCHANGED <<at, moves, password>> /\ WorldOnly

UserReloads ==
  /\ phase # "failed" /\ reload' = TRUE
  /\ UNCHANGED <<world, data, registry, ask, setup, form, open, accepted>>

Restart ==
  /\ official' = [b \in Hubs |-> IF b \in Entries
                                 THEN [official[b] EXCEPT !.state = "loading"] ELSE official[b]]
  /\ ask' = FALSE /\ reload' = FALSE
  /\ phase' = "idle" /\ host' = None /\ sent' = None /\ conn' = None
  /\ updated' = None /\ outcome' = None /\ answered' = None /\ form' = NoForm
  /\ open' = 0
  /\ UNCHANGED <<at, moves, password, data, registry, accepted>>

-----------------------------------------------------------------------------
(***************************************************************************)
(* Choosing and opening a connection.                                      *)
(***************************************************************************)
Enabled(h)  == {b \in Entries : official[b].host = h}
LoadedAt(h) == {b \in Enabled(h) : official[b].state = "loaded"}

\* Slip: a MAC that only the registry knows is not asked for.
EntryMacStored == data.mac

EntryMac == IF data.mac # None THEN data.mac ELSE registry   \* _entry_mac

\* _verify_connection_identity, as the setup calls it; the form expects nothing.
IsExpected(b) == b \in Namesakes /\ (EntryMac # None => b = EntryMac)

\* Every await of a setup may also raise: the caller goes to its handler.
End(after) ==
  /\ phase' = after /\ ask' = (ask \/ after = "reauth")
  /\ host' = None /\ sent' = None /\ conn' = None /\ updated' = None /\ outcome' = None
  /\ answered' = None

BeginSetup ==
  /\ phase = "idle" \/ (phase = "retry" /\ ~reload)
  /\ phase' = "resolve" /\ host' = data.host /\ sent' = data.password
  /\ UNCHANGED <<world, entry, conn, updated, outcome, answered, form, open, accepted>>

\* An ambiguous answer, no network to scan, or any other error.
ResolveRaises ==
  /\ phase = "resolve" /\ End("retry")
  /\ UNCHANGED <<world, data, registry, reload, form, open, accepted>>

\* With the hub's identity known and verified: from async_get_connection's return
\* to the first await of async_setup_entry.
\* Slip: the new address is forgotten.
UpdateMac(hub) == [data EXCEPT !.mac = hub]

Update(hub) == [data EXCEPT !.host = host', !.mac = hub]

\* async_get_or_create adds the MAC to the device that has the entry's device ID.
Built(hub) ==
  /\ phase' = "load" /\ updated' = Update(hub)
  /\ registry' = (IF registry = None THEN hub ELSE registry)
  /\ UNCHANGED <<ask, sent, outcome, answered>>

Refused == /\ phase' = "close" /\ outcome' = "retry"
           /\ UNCHANGED <<registry, ask, sent, updated, answered>>

\* HubNotFoundError keeps the stored address.  An answer may be as old as the cache
\* of the scans and give any address the hub has had (module Resolve says which
\* answers are accepted), so h is any address.
Resolved(h) ==
  /\ phase = "resolve"
  /\ \/ /\ LoadedAt(h) # {}
        /\ host' = h
        /\ \E b \in LoadedAt(h) : /\ conn' = [hub |-> b, shared |-> TRUE]
                                  /\ IF IsExpected(b) THEN Built(b) ELSE Refused
        /\ UNCHANGED open
     \/ /\ LoadedAt(h) = {} /\ Enabled(h) # {}          \* SharedIntegrationNotReady
        /\ End("retry") /\ UNCHANGED <<open, registry>>
     \/ /\ Enabled(h) = {}
        /\ host' = h /\ phase' = "connect" /\ open' = open + 1
        /\ UNCHANGED <<registry, ask, sent, conn, updated, outcome, answered>>
  /\ UNCHANGED <<world, data, reload, form, accepted>>

\* Slip: the session is not detached.
ConnectRaisesAttached(after) ==
  /\ phase = "connect"
  /\ after = "reauth" => sent # password /\ \E b \in Hubs : at[b] = host
  /\ End(after)
  /\ UNCHANGED <<world, data, registry, reload, form, open, accepted>>

\* connect() or update() raises, or the device is no supported hub with buttons.
ConnectRaises(after) ==
  /\ phase = "connect"
  /\ after = "reauth" => sent # password /\ \E b \in Hubs : at[b] = host
  /\ open' = open - 1 /\ End(after)
  /\ UNCHANGED <<world, data, registry, reload, form, accepted>>

Connected(b) ==
  /\ phase = "connect" /\ at[b] = host /\ sent = password
  /\ host' = host /\ conn' = [hub |-> b, shared |-> FALSE]
  /\ IF IsExpected(b) THEN Built(b) ELSE Refused
  /\ UNCHANGED <<world, data, reload, form, open, accepted>>

-----------------------------------------------------------------------------
(***************************************************************************)
(* The rest of the setup.                                                  *)
(***************************************************************************)
\* Slip: no handler around the rest of the setup.
FailForgetting(after) == End(after) /\ UNCHANGED open

\* except BaseException: the connection is closed, then the error goes on.
Fail(after) ==
  /\ phase' = "close" /\ outcome' = after /\ answered' = None
  /\ UNCHANGED <<ask, host, sent, conn, updated, open>>

\* Slip: the address is saved as soon as the hub is known.
CursorsLoadedSaving ==
  /\ phase = "load" /\ phase' = "refresh" /\ data' = updated
  /\ UNCHANGED <<world, registry, ask, reload, host, sent, conn, updated, outcome, answered>>
  /\ UNCHANGED <<form, open, accepted>>

CursorsLoaded ==
  /\ phase = "load" /\ phase' = "refresh"
  /\ UNCHANGED <<world, entry, host, sent, conn, updated, outcome, answered, form, open, accepted>>

\* The hub is where the session looks for it; a shared request goes through whatever
\* device the official entry has by then (current_child).
Answers == IF conn.shared
           THEN official[conn.hub].state = "loaded" /\ at[conn.hub] = official[conn.hub].host
           ELSE at[conn.hub] = host

\* The log of one child is read.  Other reads, which may fail, and the saves of the
\* cursors follow; meanwhile the hub may move on.
HubAnswers ==
  /\ phase = "refresh" /\ Answers
  /\ phase' = "saving" /\ answered' = at[conn.hub]
  /\ UNCHANGED <<world, entry, host, sent, conn, updated, outcome, form, open, accepted>>

FirstRefreshReturns ==
  /\ phase = "saving" /\ phase' = "forward" /\ data' = updated /\ answered' = None
  /\ UNCHANGED <<world, registry, ask, reload, host, sent, conn, updated, outcome>>
  /\ UNCHANGED <<form, open, accepted>>

\* Raw errors are not retried by Home Assistant; those of the first refresh are.
SetupRaises(after) ==
  /\ \/ phase \in {"load", "forward"} /\ after = "error"
     \/ phase \in {"refresh", "saving"} /\ after = "retry"
     \/ phase \in {"refresh", "saving"} /\ after = "reauth" /\ ~conn.shared /\ sent # password
  /\ Fail(after)
  /\ UNCHANGED <<world, data, registry, reload, form, accepted>>

Forwarded ==
  /\ phase = "forward" /\ phase' = "loaded" /\ updated' = None
  /\ UNCHANGED <<world, entry, host, sent, conn, outcome, answered, form, open, accepted>>

-----------------------------------------------------------------------------
(***************************************************************************)
(* Polls, reload, unload and close.                                        *)
(***************************************************************************)
PollRefused ==
  /\ phase = "loaded" /\ ~conn.shared /\ sent # password
  /\ ~ask /\ ask' = TRUE
  /\ UNCHANGED <<world, data, registry, reload, setup, form, open, accepted>>

\* Home Assistant may take back a form that waits for the user.
BeginReload ==
  /\ reload /\ reload' = FALSE /\ ask' \in {ask, FALSE}
  /\ \/ phase = "loaded" /\ phase' = "platforms"
     \/ phase \in {"retry", "error", "reauth"} /\ phase' = "idle"
  /\ UNCHANGED <<world, data, registry, host, sent, conn, updated, outcome, answered>>
  /\ UNCHANGED <<form, open, accepted>>

PlatformsUnloaded ==
  /\ phase = "platforms" /\ phase' = "close" /\ outcome' = "idle"
  /\ UNCHANGED <<world, entry, host, sent, conn, updated, answered, form, open, accepted>>

PlatformsRemain ==
  /\ phase = "platforms" /\ phase' = "failed"
  /\ UNCHANGED <<world, entry, host, sent, conn, updated, outcome, answered, form, open, accepted>>

\* A shared connection's close does nothing.
CloseReturns ==
  /\ phase = "close" /\ End(outcome)
  /\ open' = open - (IF conn.shared THEN 0 ELSE 1)
  /\ UNCHANGED <<world, data, registry, reload, form, accepted>>

\* client.close() raises and the session is not detached.  Its error replaces the
\* one being handled: async_setup_entry retries after those of async_get_connection.
CloseRaises ==
  /\ phase = "close" /\ ~conn.shared
  /\ End(CASE outcome = "idle" -> "failed" [] outcome # "idle" /\ updated = None -> "retry"
           [] OTHER -> "error")
  /\ open' = open - 1
  /\ UNCHANGED <<world, data, registry, reload, form, accepted>>

-----------------------------------------------------------------------------
(***************************************************************************)
(* async_step_reauth_confirm: the form validates the password typed with a *)
(* connection of its own to the stored address.                            *)
(***************************************************************************)
FormOnly == UNCHANGED <<world, setup>>

\* The hub must report the entry's device ID; the update reloads the entry.
Validated(hub, typed) ==
  IF hub \in Namesakes
  THEN /\ data' = [data EXCEPT !.password = typed] /\ accepted' = typed
       /\ ask' = FALSE /\ reload' = TRUE /\ UNCHANGED registry
  ELSE UNCHANGED <<entry, accepted>>

\* With a shared connection nothing suspends: the password is not tried at all.
SubmitShared(typed) ==
  /\ ask /\ form = NoForm
  /\ \E b \in LoadedAt(data.host) : Validated(b, typed)
  /\ UNCHANGED <<form, open>> /\ FormOnly

Submit(typed) ==
  /\ ask /\ form = NoForm /\ Enabled(data.host) = {}
  /\ form' = [NoForm EXCEPT !.step = "connect", !.host = data.host, !.typed = typed]
  /\ open' = open + 1
  /\ UNCHANGED <<entry, accepted>> /\ FormOnly

FormConnectRaises ==
  /\ form.step = "connect" /\ form' = NoForm /\ open' = open - 1
  /\ UNCHANGED <<entry, accepted>> /\ FormOnly

FormConnected(b) ==
  /\ form.step = "connect" /\ at[b] = form.host /\ form.typed = password
  /\ form' = [form EXCEPT !.step = "close", !.hub = b]
  /\ UNCHANGED <<entry, open, accepted>> /\ FormOnly

\* finally: the connection is closed whatever the hub.
FormCloses ==
  /\ form.step = "close" /\ form' = NoForm /\ open' = open - 1
  /\ Validated(form.hub, form.typed) /\ FormOnly

FormCloseRaises ==
  /\ form.step = "close" /\ form' = NoForm /\ open' = open - 1
  /\ UNCHANGED <<entry, accepted>> /\ FormOnly

-----------------------------------------------------------------------------
World == \/ \E b \in Hubs : Official(b) \/ \E h \in Hosts \union {None} : HubMoves(b, h)
         \/ PasswordChanges \/ UserReloads \/ Restart

Setup == \/ BeginSetup \/ ResolveRaises \/ \E h \in Hosts : Resolved(h)
         \/ \E after \in {"retry", "reauth"} : ConnectRaises(after)
         \/ \E b \in Hubs : Connected(b)
         \/ CursorsLoaded \/ HubAnswers \/ FirstRefreshReturns \/ Forwarded
         \/ \E after \in {"retry", "reauth", "error"} : SetupRaises(after)

Life == \/ PollRefused \/ BeginReload \/ PlatformsUnloaded \/ PlatformsRemain
        \/ CloseReturns \/ CloseRaises

Form == \/ \E typed \in 0..password : Submit(typed) \/ SubmitShared(typed)
        \/ FormConnectRaises \/ \E b \in Hubs : FormConnected(b)
        \/ FormCloses \/ FormCloseRaises

Next == World \/ Setup \/ Life \/ Form

Spec == Init /\ [][Next]_vars

\* The hub a setup looks for: the one whose MAC is known, or the entry's own.
Wanted == IF EntryMac # None THEN EntryMac ELSE Mine

\* Every await of a setup ends, Home Assistant repeats a setup that asks for it, and is
\* not restarted for ever.  Of the attempts, some get an answer of the scan from the hub
\* itself, one of the connection and of the first read when nothing stands against it,
\* and get over the rest of the first refresh.  A raw error needs no fairness: it ends
\* the attempts.
Fairness ==
  /\ WF_vars(Setup \/ BeginReload \/ CloseReturns \/ CloseRaises) /\ <>[][~Restart]_vars
  /\ SF_vars(\E h \in Hosts : h = at[Wanted] /\ Resolved(h))
  /\ SF_vars(Connected(Wanted)) /\ SF_vars(HubAnswers) /\ SF_vars(FirstRefreshReturns)

FairSpec == Spec /\ Fairness

-----------------------------------------------------------------------------
(***************************************************************************)
(* Properties.                                                             *)
(***************************************************************************)
Unconnected == {"idle", "resolve", "connect", "retry", "error", "reauth"}
Connection  == {"load", "refresh", "saving", "forward", "loaded", "platforms", "close"}
Data        == [host : Hosts, mac : {None} \union Hubs, password : 0..MaxPassword]
Officials   == {o \in [state : {"off", "loading", "loaded"}, host : Hosts \union {None}] :
                  o.state = "off" <=> o.host = None}
Forms       == [step : {"none", "connect", "close"}, host : {None} \union Hosts,
                hub : {None} \union Hubs, typed : {None} \union (0..MaxPassword)]

WorldOK ==
  /\ at \in [Hubs -> Hosts \union {None}] /\ moves \in 0..MaxMoves
  /\ password \in 0..MaxPassword /\ official \in [Hubs -> Officials]

EntryOK ==
  /\ data \in Data /\ registry \in Hubs \union {None}
  /\ ask \in BOOLEAN /\ reload \in BOOLEAN /\ accepted \in 0..MaxPassword

SetupOK ==
  /\ phase \in Unconnected \union Connection \union {"failed"}
  /\ conn \in [hub : Hubs, shared : BOOLEAN] \union {None}
  /\ phase \in Unconnected => conn = None
  /\ phase \in Connection => conn # None
  /\ phase \in Connection \union {"connect"} => host \in Hosts
  /\ phase \in {"load", "refresh", "saving", "forward"} => updated \in Data
  /\ answered \in Hosts \union {None}
  /\ outcome \in {None, "idle", "retry", "error", "reauth"}
  /\ phase = "close" <=> outcome # None

FormOK ==
  /\ form \in Forms /\ (form.step # "none" => form.typed # None)
  /\ form.step = "close" <=> form.hub # None
  /\ open \in 0..2

\* Types, and which phases hold a connection, an address and a snapshot.
TypeOK == WorldOK /\ EntryOK /\ SetupOK /\ FormOK

Holds == IF phase = "connect" \/ (conn # None /\ ~conn.shared) THEN 1 ELSE 0
FormHolds == IF form.step # "none" THEN 1 ELSE 0

\* Whichever step of a setup, an unload or a form fails, an own session is open exactly
\* as long as someone holds it, and is closed or detached once; what a client.close()
\* that raises leaves of it is nobody's any more (async_close_owned, the handlers of
\* async_connect_hub, async_get_connection, async_setup_entry).
SessionsAccounted == open = Holds + FormHolds

\* Whatever moved while the scan, the connection or the official entry took their
\* time, and whatever became of earlier setups: the hub in use reports the entry's
\* device ID, and it is always the one that was used first, also while its MAC is only
\* in the device registry (_verify_connection_identity, _entry_mac).
VerifiedBeforeUse ==
  /\ conn # None /\ phase # "close" => conn.hub \in Namesakes /\ conn.hub = registry
  /\ data.mac \in {None, registry}

\* What an update would save belongs to the connection at hand (async_setup_entry).
SnapshotFits ==
  phase \in {"load", "refresh", "saving"} => updated.host = host /\ updated.mac = conn.hub

\* The rest of a first refresh is awaited only after its hub has answered, an own
\* session's where it was opened (async_config_entry_first_refresh).
AnswerFits == phase = "saving" => answered # None /\ (~conn.shared => answered = host)

EntryInv == TypeOK /\ SessionsAccounted /\ VerifiedBeforeUse /\ SnapshotFits /\ AnswerFits

\* Comment in async_setup_entry, "Save a repaired address only after the authenticated
\* hub has returned its first event-log update": since this setup began, the hub of
\* the connection has answered, at this address unless a shared device led there; it
\* may have moved on since.  Stored data changes on behalf of such a setup, or of a
\* form that reached a hub with the entry's device ID.
SavedWhenProved ==
  [][/\ data'.host # data.host => /\ conn # None /\ data'.host = host /\ answered # None
                                  /\ ~conn.shared => answered = data'.host
     /\ data' # data => \/ conn # None /\ conn.hub = registry /\ answered # None
                        \/ ({form.hub} \union LoadedAt(data.host)) \cap Namesakes # {}]_vars

\* README, "If the saved address changes, the integration uses plugp100's
\* credential-free local discovery to find the same hub": once all hubs stay where they
\* are, the stored password is right and no official entry is in the way, retries end
\* with the hub polled, and saved, at its address, whatever the stored address, earlier
\* restarts, reloads and answers of another hub; only a raw error ends them otherwise.
Undisturbed == /\ moves = MaxMoves /\ at[Wanted] # None /\ data.password = password
               /\ Entries = {}

FollowsItsHub ==
  []Undisturbed /\ phase \in {"idle", "retry"}
    ~> phase = "error" \/ (phase = "loaded" /\ data.host = at[conn.hub])

\* README: "Use the integration's reauthentication flow after changing the account
\* password": the password stored is the one accepted last.
AcceptedPasswordKept == data.password = accepted

=============================================================================
