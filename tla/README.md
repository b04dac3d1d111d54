# Verification of the Tapo S200B/S200D integration

TLA+ models, model-checking configurations and machine-checked proofs for the
Home Assistant integration in `src/custom_components/tapo_s200b`. It polls the
trigger logs that a Tapo H100/H110/H200 hub keeps for its buttons and dials, and
turns new records into events, each at most once, over restarts and failures.

## 1. The system

| Component | Source | State | Operations | Talks to |
|---|---|---|---|---|
| Event processor | `processor.py`, `models.py`, `const.py` | none; `ChildCursor` (newest record ID, recent event IDs) in and out | `parse_record`, `plan_batch`, `_merge_recent_ids` | called by the coordinator |
| Page walk | `api.py` | local: records, `start_id`, page number | `async_fetch_page`, `async_fetch_since` | one hub request per page |
| Polling coordinator | `coordinator.py` | `_cursors` in memory, the Store on disk, child listeners, context filtering | load, poll (`_async_update_data`), listen, publish | page walk, processor, Store, entities; scheduled by Home Assistant |
| Event entities | `event.py` | subscription | add, remove, hand over emissions | coordinator's listeners and contexts |
| Setup and unload | `__init__.py` | the entry's runtime data, stored host and MAC | set up, unload, reload on update | connection, coordinator, platforms |
| Discovery | `discovery.py` | shared scan task, cached answer and its expiry | resolve a hub, share a scan | UDP scan; setups and config flows |
| Connection | `connection.py` | shared or own session, request lock | connect, verify identity, request, close | official TP-Link entry or plugp100 |
| Diagnostics | `diagnostic_coordinator.py`, `sensor.py`, `binary_sensor.py`, `button.py`, `entity.py` | last values | poll diagnostics, reboot, unpair | connection |
| Config flow | `config_flow.py` | the flow's input | user, reauth, options | connection, discovery |
| Diagnostics page, probe, metadata | `diagnostics.py`, `tools/`, JSON | none | print | none |

What is hard about it: a poll awaits the hub once per page and the disk once per
child with events, and everything else may happen in between: the hub writes and
drops records, an entity is removed, the entry is reloaded, Home Assistant dies.
The cursor is in four places (on disk, in memory, in the poll's `next_cursors`,
in the page being walked) and the promise of at-most-once delivery is about the
order in which they move. Below that, the walk pages backward through a log that
shifts, and the processor must not depend on how the hub cuts and orders pages.
Discovery shares one task among callers that may be cancelled. A setup looks for
a hub that may move, opens a connection it must give back whatever fails, and
stores a snapshot of data that a form may have changed in the meantime. And
polls, refreshes of the diagnostics and presses of maintenance buttons share a
connection that takes one request at a time.

`PROJECT.json` lists the hazards line by line with the properties aimed at them.

## 2. Modules

| Module | Models | Notes |
|---|---|---|
| `Processor` | `parse_record`, `plan_batch`, `_merge_recent_ids` as operators; one child polled again and again | a record is `[id, eid, ts, event, deg]`, event IDs are numbers; see below |
| `Fetch` | `async_fetch_since`, one action per page; the hub's log | entries are positions; a kind says whether an entry is a record, lacks an integer ID, or is no object |
| `Coordinator` | `_async_update_data`, `async_load_cursors`, listeners, setup, unload, crash | every await ends a step |
| `Feed` | abstract: each record handed over at most once, in order | `Coordinator` implements it |
| `Discovery` | `_async_discover_devices`, `_async_scan` | callers, cancellation, clock |
| `Resolve` | `async_resolve_hub`, one action per device considered | answers as a growing sequence |
| `ConfigEntry` | `async_setup_entry`, `async_unload_entry`, `async_get_connection`, `async_connect_hub`, the reauthentication form | an entry, its connection, the hubs, the account and the official entries around it |
| `HubRequests` | the requests of `_plugp100_button` and `_shared_button`, `request_lock`, the diagnostic coordinator and its entities, maintenance buttons | tasks that queue for a lock |
| `OrderProofs` | lemmas on sorting by keys, picking, merging | used by `ProcessorProofs` only |
| `ProcessorProofs`, `CoordinatorProofs`, `FetchProofs`, `DiscoveryProofs`, `ResolveProofs`, `ConfigEntryProofs`, `HubRequestsProofs` | proofs | section 5 |
| `MCProcessor`, `MCFetch`, `MCCoordinator`, `MCDiscovery`, `MCResolve`, `MCConfigEntry`, `MCHubRequests` | instances for TLC | section 4 |

Definitions marked *Slip* in a module are wrong variants of the definition that
follows them (a dropped guard, a swapped order). No specification uses them: they
are what each property was tried against, to see that it fails.

### Processor and the code

| Code | Definitions |
|---|---|
| `parse_record`, `_rotation_emissions` | `ParseRecord`, `RotationEmissions`; the guards that raise are `Wellformed`, `Rotatable` |
| `_record_identity`, the loop that collects identities | `IdentifiedAt` |
| `sorted(identities_for_recent_ids)` | `Identity`, `ObservedIds`; `Raises` is the `TypeError` it may end in |
| `_merge_recent_ids` | `MergeRecent` |
| the loop over `seen_ids` | `Duplicate`, `CandidatesAt` |
| `candidates.sort`, the loop that extends `emissions` | `Slot`, `Emissions` |
| `plan_batch` as a whole | `PlanBatch` |

Nothing in the module is recursive, so that it can be proved about. A sort gives
each member a key (a triple; the last part is the position, as Python's sort is
stable) and a member's place is its rank, the number of keys before its own
(`InOrder`). A list filtered or cut is `Pick`: the members at a set of positions, in
their order. The flattened emissions are one sort of the pairs (record, step). The
dict that `_merge_recent_ids` pops from and adds to holds each ID at its last
position, and the slice `[-limit:]` the last `limit` of those.

Abstractions: a field the code refuses, for whatever reason, is `NoValue`; an
emission says which record it is from instead of carrying the degrees. `since` is
history: for each event ID published, the other IDs observed after it.

### Coordinator and the code

A record of child `c` is its position in `log[c]`, and its value the number of
emissions it expands to (`Processor`). A walk's outcome is `Fetch`'s result: all
records from the newest down to some position (`WalkStarts`); `Fetch` shows the
walks do that (`NothingSkipped`).

| Code | Actions |
|---|---|
| `async_setup_entry` to the first refresh; `async_load_cursors` | `Setup(listed, unreadable)`; the setup waits in mode `first` |
| forwarding to `event.py` | `AddEntities` |
| top of `_async_update_data` | `BeginPoll` (`next` copies `memory`) |
| the first page of a child | `FetchFirstPage(c)` |
| the rest of the walk and `plan_batch` | `FetchNothing`, `FetchBootstraps`, `FetchReturns` |
| `except InvalidAuthentication`, `except Exception` | `AuthFails`, `FetchFails` |
| `async_save` of a child with events | `SaveLands`, `SaveRaises` |
| `self._cursors = ...` and `_publish_child_events` (no await between) | `Publish` |
| end of the poll | `EndWithoutReads`, `EndUnchanged`, `EndChanged`, `FinalSaveLands`, `FinalSaveReturns` |
| `async_unload_entry` | `UnloadPlatforms`, `Close` |
| Home Assistant dies, or cancels the poll | `Crash` |

`pc` says where a poll waits, `child`, `top`, `floor` and `emit` what it holds
there. `count` and `fate` are history: how often each record was handed over, and
what else became of it (given up at bootstrap, as unknown, by the storm limit or
a gap; offered while nobody listened; a listener raised; found lost at a setup).

Abstractions: children are read in any order (the code's order is the hub's);
the recent event IDs are `Processor`'s and not kept here; the two ways in which a
storm or an unknown record discards are one `Discard`. A save that returns has
landed: Home Assistant's Store is outside this repository. A cancelled poll ends
with the entry, as Home Assistant cancels it. There is one poll at a time, as Home
Assistant runs one refresh of a coordinator at a time; a walk therefore compares
with the position in `memory`, which is what the poll copied before it began.

### ConfigEntry and the code

`phase` is Home Assistant's state of the entry, or the await a setup or an unload
has reached; what runs between two awaits is one action.

| Code | `phase` | Actions |
|---|---|---|
| `async_resolve_hub`, then the choice of the connection | `resolve` | `Resolved`, `ResolveRaises` |
| `connect`, `device.update` | `connect` | `Connected`, `ConnectRaises` |
| `async_load_cursors` | `load` | `CursorsLoaded`, `SetupRaises` |
| `async_config_entry_first_refresh` until a child's log is read | `refresh` | `HubAnswers`, `SetupRaises` |
| its other reads and the saves of the cursors, then `async_update_entry` | `saving` | `FirstRefreshReturns`, `SetupRaises` |
| `async_forward_entry_setups` | `forward` | `Forwarded`, `SetupRaises` |
| entry loaded | `loaded` | `PollRefused`, `BeginReload` |
| `async_unload_platforms` | `platforms` | `PlatformsUnloaded`, `PlatformsRemain` |
| `connection.async_close` | `close` | `CloseReturns`, `CloseRaises` |
| no setup: not loaded, or `ConfigEntryNotReady`, a raw error, `ConfigEntryAuthFailed`, a failed unload | `idle`, `retry`, `error`, `reauth`, `failed` | `BeginSetup`, `BeginReload` |

The form runs beside it: `Submit`, `FormConnected`, `FormCloses` and their
failures, or `SubmitShared` in one step, as nothing suspends there. `open` counts
own sessions; the code has no such counter, each session is a closure's variable.
A session counts until it is detached or given to `client.close()`; one whose close
raises is never detached, and nobody's any more. `accepted` and `answered` (where the
hub was as it answered this setup's first log read) are history.

Abstractions: a hub stands for its MAC; `Namesakes` are the hubs that report the
entry's `unique_id` as their device ID, so that device ID and MAC can each be what a
hub is refused for. `registry` is the MAC that `_entry_mac` finds in the device
registry: setups put it there before they store it. Any address may
be what discovery answers: which answers are accepted is `Resolve`'s question, and
an accepted one may be out of date. A restart drops every session. `close` of a
shared connection is a step of its own although it does not suspend. The entry's
e-mail address goes with its password. One form at a time is open; it keeps the
address it was submitted with, and a reload may take back one that still waits for
the user. Home Assistant's setup lock keeps the setups and unloads of an entry in sequence.

### HubRequests and the code

A task is an event poll, a refresh of the diagnostics or a press. `step` says
whether it waits for `request_lock` (`queued`), for its request (`sent`) or for
the second request of a diagnostics read (`cloud`).

| Code | Actions |
|---|---|
| a poll asks for a page; the page, or an error | `PollAsks`; `PageReturns` |
| `_async_update_data` of the diagnostics: interval or `async_added_to_hass` | `RefreshStarts`, or `RefreshShared` in one step |
| `async with request_lock` entered | `Send` |
| `child.update()`; `get_connect_cloud_state`; `except Exception` | `Updated`; `CloudReturns`; `ReadRaises` |
| the loop goes on, or returns, or raises `UpdateFailed` | `Proceed`, `Publish` |
| `async_press` to `async_reboot`, `async_unpair` | `PressStarts`, `Pressed`, `PressRaises` |
| `current_child` raises | no `Again` while `shared /\ ~official` |
| `async_unload_entry`; its tasks are cancelled | `Unload`; `Cancel` |

`ahead[t]` holds the tasks that get the lock before `t`: asyncio's lock is fair, so
a task joins behind all that wait or hold it and moves up as they leave. `best` is
history: the newest values a button's entities have shown.

Abstractions: the values of a button are one version number; every button has
diagnostics to read. A poll's page is always about the first button, and the
pause between two pages of different polls is a new request. Shared reads take no
time, as they only look at the official entry's device; shared requests queue in
the official integration, outside this repository.

## 3. Properties

- **Processor**: `EveryRecordAccountedFor`, `OldestFirst`, `PageOrderIrrelevant`,
  `RereadingIsSilent`, `CuttingIntoPollsIrrelevant`, `NeverRepublished`. They are
  about every batch in every reachable cursor.
- **Fetch**: `NothingSkipped` (no hole that is not reported), `NoRecordReadTwice`,
  `Bounded`, `GapMeansGone` (a reported gap is a real one).
- **Coordinator**: `AtMostOnce`, `PersistBeforePublish`, `DiskNotBehindMemory`,
  `NothingSkippedSilently`, `OneBatchLostPerRestart`, `ImplementsFeed`,
  `HealthyChildServed`.
- **Discovery**: `SharedUntilDeserted`, `TaskHasWaiter`, `AnswersFresh`,
  `NewestKept`.
- **Resolve**: `OutcomeOfTheSet`, `NeverRedirected`, `ChosenAgrees`.
- **ConfigEntry**: `SessionsAccounted` (no session is left open or closed twice,
  whichever step fails), `VerifiedBeforeUse` (the hub in use reports the entry's
  device ID and is always the one that was used first), `SavedWhenProved` (a new
  address is stored only after the hub has answered there, data only for a hub that
  proved its identity), `FollowsItsHub` (liveness: an entry whose hub has moved ends
  up polled and stored at the new address).
- **HubRequests**: `OneRequestAtATime`, `NeverOlder` (no entity goes back to older
  values), `PressesEnd` (liveness: no press waits for ever).

## 4. Runs

| Run | Bounds | Shows |
|---|---|---|
| `ProcessorBatches` | batches of up to 3 of 8 kinds of record, limit 3, cache 3 | the batch properties, and deduplication over polls; a click and a turn are exactly at the storm limit, two turns above it; the cache overflows |
| `FetchWalk` | 6 positions of 3 kinds, pages of 1 then 2, 2 pages | every exit of the walk, with unusable entries, appends and evictions between pages |
| `CoordinatorOne` | 1 child, 3 records of 0, 1 or 3 emissions, walk of 2, limit 3 | the proofs' invariants, save before publish, refinement of `Feed` with storms and truncated walks |
| `CoordinatorTwo` | 2 children, 2 records each | interplay of two children in one poll |
| `CoordinatorLive` | 2 children, one healthy, one session | liveness |
| `DiscoverySharing` | 3 callers, 3 scans, clock to 4, cache 2 | sharing and cache |
| `ResolveHub` | 3 answers of 36 kinds | choice of the hub |
| `ConfigEntrySessions` | 3 hubs, of which 2 share a device ID, 2 addresses, 1 move, 1 change of password, 1 official entry at a time | sessions through setups, reloads, restarts and reauthentication; which hub is used, what is stored and when; the way to a hub that has moved |
| `HubRequests` | 1 poll, 2 refreshes, 1 press, 2 buttons of which one has a cloud state, values 0 and 1 | the lock, what the entities show, the end of every press |

`CoordinatorTwo` is needed as well as `CoordinatorOne`: with one child an old
position on disk goes unnoticed, because the first refresh after a restart reads
the same records again while nobody listens. With two children the other one may
use up that poll, and a record would be handed over twice. `HubRequests` needs two
refreshes and two buttons: one refresh can then be a button ahead of the other,
which is where it would be overtaken without the lock. Recent versions of Home
Assistant do not overlap refreshes of one coordinator; the property holds even so.

`CoordinatorTwo` and `DiscoverySharing` use symmetry over children and callers;
neither has a liveness property. Deadlock checking is on except where the system
stops: `CoordinatorLive` (after refused credentials polling stops until the user
logs in), `DiscoverySharing` and `ResolveHub` (the bounds on scans and answers),
`HubRequests` (the life of one connection, which ends with its entry).

In `ConfigEntrySessions` one hub is a stranger and one a twin: the check of the
device ID refuses the first, only that of the MAC the second. They may be anywhere at
first, so one move is enough for the hub to leave its address, for another to come to
it, or for an official entry to keep an old address; an answer of the scan may always
be out of date. Official entries of two hubs come one after the other there. The proofs
cover any number of each.

**Fairness** (`CoordinatorLive`). Weak fairness on the poll's own steps: Home
Assistant starts the next poll after its interval, and every request and save
ends, one way or another. Strong fairness on the successful outcome of saves,
and of the reads of the children in `Healthy`: those do not fail for ever. No
fairness for the other children's reads, the buttons, the user or the entry.

**Fairness** (`ConfigEntrySessions`). Weak fairness on the setup as a whole, its
close and a reload that is due: every await ends, and Home Assistant repeats a
setup that asked for it. Restarts come to an end. Strong fairness on one good outcome
each of the scan (an answer from the hub itself), the connection, the first read and
the rest of the first refresh: none of them fails for ever while nothing is in its
way. `FollowsItsHub` asks that hubs stay, the stored password be right and no
official entry interfere from some point on; user and form are free.

**Fairness** (`HubRequests`). Weak fairness on the steps of each task: whoever gets
the lock sends, and a request ends, with an answer or by its client's timeout. No
fairness for who asks: polls and refreshes may ask again and again.

**Runs that find a violation.** Each is what the code does against a sentence of
its documentation; `PROJECT.json` quotes both.

| Run | What happens |
|---|---|
| `ProcessorClash` | two records with one ID, one of them without an event ID: `sorted` raises, and the child's poll fails every time from then on |
| `CoordinatorFirstRefresh` | the first refresh of a setup uses up events before any entity listens |
| `ConfigEntryReauth` | a setup is loading cursors when the user answers the reauthentication form; after the first refresh it stores its copy of the entry's data, with the old password |

More behaviours came up that no run states as a property:

- `seen_ids` is the cursor's cache and is not extended inside a batch, so one
  event ID under two record IDs of the same read is published twice.
  `NeverRepublished` is therefore about later polls.
- `async_fetch_since` counts the objects of a page, not its entries, so a full
  page with one entry that is no object counts as short. The walk then reports a
  gap while the hub still keeps unread records; `GapMeansGone` is conditioned on
  a log of numbered records.
- A cancelled waiter clears the shared task while its scan goes on, so the next
  caller starts a second scan beside the first. `NewestKept` says that the
  overtaken scan does no harm.
- The reauthentication form connects to the stored address without discovery. If
  the hub has moved and the password has changed, no password is accepted, and
  no setup repairs the address because the old password is refused.
- A first poll of an empty log records no position, so the first record ever
  written is taken for old history (`FetchNothing`, then `FetchBootstraps`).
- Between the hub's first answer and the storing of its new address the other
  children are read, which may fail, and cursors are saved. The hub may move on in
  the meantime, so an address may be stored that it has just left; the next setup
  looks for it again. With a shared session the answer comes by way of the official
  entry's device, whatever address that one has by then. `SavedWhenProved` promises
  no more than that the hub has answered this setup, an own session at the address
  that is stored.
- The address is looked for in setups only. A loaded entry whose hub moves fails
  its polls until it is reloaded; `FollowsItsHub` is about entries that are being
  set up.
- A press waits behind whatever has the lock, and nothing cancels it: it may be
  carried out, or fail, after its entry was unloaded.

## 5. Proofs

All theorems hold for every value of the constants; the assumptions are
named in the modules that declare the constants (`ConstantsAssumption`,
`SizesAssumption`, `DiscoveryAssumption`, `ResolveAssumption`,
`ConfigEntryAssumption`, `TasksAssumption`, `LimitsAssumption`,
`BatchesAssumption`), and the runs evaluate them.

**Processor.** The theorems are about any limits, any rotation step, and batches of
any length with any records in any order, malformed ones included
(`BatchesAssumption` only says what a field can be).

*Order.* `OrderProofs` shows that ranks of distinct keys are the numbers below the
size of the set (by counting, not by induction: two members' ranks differ, so there
are as many ranks as members), so that `InOrder` is a bijection that follows the keys,
and the only one that does. Everything about order uses that uniqueness. Two sorts
agree when one arrangement follows both keys; a set of which one part precedes the
other is sorted as the one part and then the other (`InOrderByParts`).

*Types and accounts.* `TypeCorrect`, from the bound and the distinctness of what
`MergeRecent` picks. `RecordsAccountedFor` counts the pairs (record, step) and
`PublishedOldestFirst` compares their keys.

*Deduplication.* `NeverRepublished` is not inductive: it says nothing of the cache.
`Remembered` does: a published event ID is in the cache, followed there only by IDs
observed after it, or `RecentLimit` others have been observed. `Inv` is the types
and `Remembered`; it is inductive (`InvStep`), as merging keeps an ID whose
followers are fewer than the cache holds. `PublishedRemembered` and
`NothingRepublished` follow. `RereadingIsHarmless` needs that all IDs of a batch that
are older than the cursor's position are not observed again.

*Page order and polls.* For records with distinct IDs, a batch in any other order
has the same sorted IDs, the same emissions and the same counters (`AnyOrder`);
`PageOrder` is that for the reverse, which is what the run checks.
`PollsDoNotShow` splits the batch at a position (`CutAt`): the observed IDs and the
emissions of the whole are those of the older part followed by those of the newer,
and merging twice is merging once (`MergeInParts`). That last lemma is where the
bound on the cache could have shown: what the first merge drops, the second would
have dropped too.

**Coordinator.** `TypeCorrect` comes first: beside types, `TypeOK` couples `pc`
with `child` and `emit` and bounds what a poll left behind can be.

*At most once.* `AtMostOnce` is not inductive: it does not say why the next batch
is new. `DeliveryInv` adds that every position kept anywhere covers what was
handed over (`CursorsCover`, `FirstPageCovers`), that a poll only moves forward
(`NextNotBehindMemory`), that the batch waiting for its save lies beyond the
position in memory (`BatchIsNew`), and that after the save the disk holds
`next_cursors` (`SavedIsNext`). A batch beyond a covering position is new; the
position saved with it covers it afterwards, also for a session that starts after
a crash. Theorems: `DeliveryCorrect`, `DeliveredAtMostOnce`, `DiskLeads`,
`SavedBeforePublished`.

*Nothing skipped silently.* `AccountInv` says that the positions of `next_cursors`
have passed only settled records, but for the batch of the one child whose save
is awaited (`NextSettled`), and that only one child's position on disk can be
ahead of what is settled (`DiskAheadForOne`). Theorems: `AccountCorrect`,
`NothingSkipped`, `OneBatchLost`.

*Refinement.* `FeedImplemented`: `HubRecord` is a `Write`, `Publish` a `Deliver`
of what reached the entity, everything else stutters. It rests on `DeliveryInv`.

**Discovery.** `Shared` is inductive with the types. `CacheInv` adds that the scan
under way is younger than the cached one (`TaskIsNewer`) and that whoever waits
for a scan that is over comes back before time passes (`Punctual`); `Fresh`,
`NoTaskLeftBehind` and `Newest` follow.

**ConfigEntry.** `EntryInv` joins `TypeOK` (which phases hold a connection, an
address, a snapshot), `SessionsAccounted`, `VerifiedBeforeUse`, `SnapshotFits` (until
the first refresh is over, the snapshot to be stored has the address and the MAC of
the connection at hand) and `AnswerFits` (while the rest of the first refresh is
awaited, the hub has answered, at that address if the session is an own one). It is
inductive only as a whole: that a close returns the session needs the types to know
there is a connection, and that the stored MAC is the registry's needs the
snapshot's. `EntryCorrect` proves it, one lemma per group of actions; `TypeCorrect`,
`SessionsKept` and `Verified` are its parts. `SavedProved` follows from `SnapshotFits`
and `AnswerFits` at the one step that stores an address. That step is not guarded by
where the hub is: the answer is a step of its own, and the hub may move in between.

**Fetch.** `PageIsTop` is the lemma about the hub's pages: a page holds the newest
entries from `start_id` down, and one that is not full holds all there are. `Inv`
adds two facts to the types. `Kept`: a record offered to the walk is still in the
log or older than all that is, however the log moves. `Walking`: between two pages
the walk has everything offered above `start` and nothing at or below it, and full
pages have brought what it counts. From those, `PageFacts` gives what one more page
does: it holds nothing read before, and what is still unread is older than all that
was read. `NothingIsSkipped`, `PagesAreDisjoint`, `WalksAreBounded` and `GapsAreReal`
follow, for any page sizes, budget and log.

**Resolve.** `MatchesOfTheSet` says that `matches` and `contradiction` are functions
of the set of devices considered so far; it is inductive. `OrderIsIrrelevant` and
`ChosenHostAgrees` are read off it, and `LateAnswersDoNotRedirect` from the growth
of both.

**HubRequests.** `LockInv` describes the queue: whoever sends has nobody ahead, and
of two tasks that wait one is ahead of the other. That is `RequestsAreSerialized`.
`NothingOlderIsShown` needs `AgeInv` too: a refresh leads another if it is at a later
button, or ahead of it in the queue for the same one; what the leader has read of a
button is not newer than what the other has read of it, and neither is older than
what was shown. No refresh can take the lead from another without the lock.

**Only model-checked**: the liveness properties (`HealthyChildServed`,
`FollowsItsHub`, `PressesEnd`), as liveness under fairness is out of the prover's
reach. Every other property of a passing run is a theorem. The three runs
that find a violation are TLC's alone.

## 6. Not modelled, and the plan

Not modelled for good: `diagnostics.py`, the probe, metadata, the entities' names,
icons and attributes, latency counters, the conversion of diagnostics values.

Left for later:

1. The user step of the config flow (two flows that add one hub, unique IDs) and
   the options step. Both rely on checks of Home Assistant's flow manager.
2. `Fetch` inside `Coordinator`: the walk of `Fetch` shown to give what
   `WalkStarts` allows. Today the two meet in `NothingSkipped`.
3. A form that finds the hub's new address: the code has none (section 4).
4. An official entry that is loaded while an own session to its hub is open. What
   the hub does with two sessions is outside this repository.
