# A TLA+ development of cf-calls-matrix

cf-calls-matrix is a Matrix homeserver on Cloudflare Workers. Requests are handled by
Workers that share nothing but D1 (SQL, one statement at a time), KV (whole values, reads may
be stale), R2 and Durable Objects (one object per user, room or remote server; single-threaded
between awaits). Nothing holds two D1 statements together: any handler may stop, or be
overtaken, between any two of its awaits. This directory models those handlers as concurrent,
interruptible processes over the tables they share, checks them with TLC on small instances and
proves the central facts with TLAPS for every instance.

Source paths are relative to the repository (`src/api/...` is the file the repository has there).

Contents: 1 inventory, 2 plan, 3 modules, 4 runs, 5 fairness, 6 proofs, 7 what the models leave
out, 8 where code and comments disagree.

## 1. Inventory

| Component | State | Operations | Interacts with | Hard part | Correct when | Modelled in |
|---|---|---|---|---|---|---|
| Event stream, long-poll `/sync` (`services/database.ts`, `api/sync.ts`, `SyncDurableObject.ts`) | `events`, client tokens, waiters of a user's object | storeEvent, notifyUsersOfEvent, `GET /sync`, wait, notify, timeout | every writer of events | position read and row written in two statements; token read before the pages; wake-up racing the registration | a token never passes an event its client was not given; every event arrives | SyncStream |
| Outbound federation (`FederationDurableObject.ts`) | items per destination, server record, alarm | `/send`, `/send-edu`, `/receive`, alarm, processFederationQueue, scheduleRetry | remote servers, key uploads | the fetch opens the input gate; restart between two storage operations | nothing leaves the queue unsent; a failure is retried | FederationQueue, OutboundQueue |
| To-device messages (`api/to-device.ts`) | `to_device_messages`, `transaction_ids`, `stream_positions` | `PUT /sendToDevice`, reading and acknowledging in `/sync`, admin notice, clean-up | `/sync`, admin API | position taken before the row is inserted; retries | at least once, and once per transaction | ToDevice |
| Event authorization (`services/event-auth.ts`) | none (a function of the room state) | checkEventAuth, checkMemberEvent, checkPowerLevelChange | PUT state, federation, state resolution | sequences of allowed events | no escalation; bans end only by moderators | EventAuth, AuthRoom |
| Room membership (`api/rooms.ts`, `services/rooms.ts`) | `events`, `room_state`, `room_memberships`, `room_knocks` | join, leave, knock, invite, kick, ban, unban, forget, PUT state | EventAuth, event stream | one fact in two tables written by three statements | tables agree; endpoints as strict as the rules; bans hold | RoomMembership |
| One-time and fallback keys (`api/keys.ts`, `api/federation.ts`) | a KV value, `one_time_keys`, `fallback_keys` | upload, claim by clients and servers, counts | `/sync` | read-modify-write of a KV value, two stores | a key goes to one claim; none is lost; the device learns of use | OneTimeKeys |
| Device keys, signatures, changes (`api/keys.ts`, `UserKeysDurableObject.ts`) | the object's keys, `cross_signing_signatures`, `device_key_changes` | upload, signatures upload, query, device_lists | `/sync`, FederationQueue | read and write of the object in two requests; a second stream | signatures survive; changes are recorded and told | DeviceKeys |
| Room creation, messages, upgrade, history (`api/rooms.ts`) | as membership, aliases, transactions | createRoom, upgrade, send, redact, `/messages`, `/context`, timestamp_to_event | event stream, aliases | sequences of statements that may stop half-way; pages of a table that grows | what was answered is done; an upgrade leaves a usable room; a reader gets all | RoomUpgrade, RoomHistory |
| Join workflow (`RoomJoinWorkflow.ts`) | workflow steps, events | make_join, send_join, persist, notify | remote servers | steps are repeated as a whole | a join the client was told of appears | RoomJoin |
| Inbound federation (`api/federation.ts`, `federation-keys.ts`, `federation-auth.ts`) | events, processed PDUs, key cache | `PUT /send`, make and send join, leave, knock, invite, exchange of third-party invitations, backfill, missing events, state, directory | event stream, EventAuth | duplicates, out-of-order events, three statements per membership | the answer given for an event agrees with the room; replaced state does not come back; tables agree | InboundEvents, FederatedMembership, RoomHistory, RoomDirectory |
| State resolution (`state-resolution.ts`, `-v1.ts`, `room-versions.ts`) | none | resolveState of v1 and v2 | inbound federation | conflicts, order, re-authorization | a resolved state is one the rules allow, and current state is not lost | StateResolution, InboundEvents |
| Sliding sync (`api/sliding-sync.ts`) | connection state in the user's object | both `POST /sync` handlers | event stream, receipts, typing | the state is stored before the answer goes out; overlapping and abandoned requests | no row is passed by silently; a client left alone catches up | SlidingSync |
| Push (`api/push.ts`, rule evaluator, `PushNotificationWorkflow.ts`, `PushDurableObject.ts`) | `push_rules`, `pushers`, `notifications` | rules, pushers, evaluation, batches of the workflow | send, remote gateways | a batch whose result is lost runs again; DELETE and INSERT of a pusher | rules as asked; every pusher notified, twice only for a repeated batch | PushRules, PushDelivery |
| Key backups (`api/key-backups.ts`) | versions, keys, count, etag | create, update, put, get, delete | – | count and etag kept beside the rows, deletion in two statements | an unchanged etag means unchanged keys; count equals rows; deleted versions are empty | KeyBackups |
| Cross-signing (`api/keys.ts`, `api/oauth.ts`, `api/oidc-auth.ts`, `UserKeysDurableObject.ts`) | the object's keys, `cross_signing_keys`, sessions of consent in KV | upload, redirect, callback, approval, cancellation, identity reset | change rows | a session is read and written back by all of them; object and rows in turn | an identity is replaced with consent only; stores agree; others are told | CrossSigning |
| Receipts, typing, presence (`RoomDurableObject.ts`, `api/receipts.ts`, `typing.ts`, `presence.ts`) | object storage and memory, D1, KV | set and read | both syncs | eviction of the object, two stores, a lagging KV | what is shown is what was set last | RoomEphemeral |
| Accounts and sessions (`api/login.ts`, `account.ts`, `devices.ts`, `admin.ts`, `middleware/auth.ts`) | `users`, `devices`, `access_tokens`, refresh and login tokens in KV | register, login, refresh, logout, password, deactivation, deletion | every endpoint | tokens in KV, rows in D1, one after the other | a token serves once; a client is not logged out behind its back | Accounts |
| OAuth and identity providers (`api/oauth.ts`, `oidc-auth.ts`) | codes, states and refresh tokens in KV, `idp_user_links` | authorize, token, revoke, login, callback | accounts | an entry of KV is read, used and then deleted | a grant serves once; revocation holds; a subject is one user | OAuth |
| E-mail addresses (`api/account.ts`, `services/email.ts`) | `user_threepids`, `email_verification_sessions` | request, submit, add, delete | a mail service | a session is replaced while its mail is on the way | an address is its prover's until given up | Threepids |
| Account data and tags (`api/account-data.ts`, `tags.ts`) | the object, KV, D1, a stream of changes | put, delete, get | `/sync` | three stores written in turn; read, change, write back | what was put last is there, in every store | AccountData |
| Media (`api/media.ts`, `federation.ts`, `admin.ts`, `MediaCleanupWorkflow.ts`) | R2 objects, `media` | upload, create, fill, download, thumbnail, delete | – | object and row in turn | a file stays as uploaded, and deleted it is gone | Media |
| Aliases, directory, spaces, relations (`aliases.ts`, `index.ts`, `spaces.ts`, `relations.ts`) | `room_aliases`, `rooms`, `room_state` | publish, list, walk | federation | pages by offset of lists that change | nothing that stays in a list is missed | RoomDirectory, RoomHistory, RoomUpgrade |
| Federation consumer (`federation-consumer.ts`) | queue batches | consume, retry, give up | – | – | – | not modelled: nothing sends to that queue |
| Rate limiting (`RateLimitDurableObject.ts`) | window, count | check | every endpoint | window borders, fails open | – | not modelled: one counter whose limits are configuration |
| Room cache (`room-cache.ts`) | KV entries | get, invalidate | – | – | – | not modelled: getRoomMetadata has no caller |
| Calls (`call-room.ts`, VoIP services) | participants | join, leave, relay | external media services | – | – | not modelled: clients of external services |
| Compaction and catch-up workflows | – | steps | remote servers | – | – | not modelled: nothing reads what they return |
| Profiles, search, identity, app services, reports, other admin rows | single rows | read or write one row | – | none beyond the statement | – | not modelled |
| Dashboard, discovery, formatting, web client, deployment | – | – | – | – | – | not modelled |

`PROJECT.json` lists every component with its status and, under `hazards`, each thing in this
code that a test would hardly reach, at its line, with the property that covers it.

## 2. Plan

Order: what a user would notice first comes first.

1. **The core**, done: SyncStream; FederationQueue with OutboundQueue; ToDevice; EventAuth, AuthRoom;
   RoomMembership; OneTimeKeys; DeviceKeys; KeyBackups; StateResolution and InboundEvents; the proofs
   of SyncStream, FederationQueue, AuthRoom, OneTimeKeys, DeviceKeys, KeyBackups, ToDevice and
   RoomMembership.
2. **Rooms**, done: RoomUpgrade, RoomJoin, FederatedMembership, RoomHistory, RoomDirectory.
3. **Sliding sync**, done, with waiting and abandoned requests.
4. **Users**, done: Accounts, OAuth, Threepids, CrossSigning, AccountData, RoomEphemeral, PushRules,
   PushDelivery, Media.
5. **Proofs of the parts**, done: FederatedMembership, RoomUpgrade, PushRules, PushDelivery, AccountData,
   RoomEphemeral, Threepids, Media, CrossSigning, Accounts, OAuth, RoomHistory, RoomDirectory, and the
   reuse of one-time keys.
6. **Left**: the EDUs of `/send`; membership changes during a `/sync`, and the invite and leave
   sections; the to-device and account-data extensions of sliding sync over ToDevice and AccountData;
   QR login; the participants of a call; an abstract room whose members change by allowed events
   only, which RoomMembership and FederatedMembership should implement where they do.

The project keeps a dozen runs, so that a full check stays within minutes. Modules that share no
state are checked in one run by a module that composes them (section 3), and a disagreement
(section 8) is an explicit exception (`late`, `met`, `torn`, ...) of a property of a passing run
rather than a run of its own.

Theorems still worth proving: SkipsExplained of SlidingSync, and AcceptedIsApplied and NoReverts of
InboundEvents.

## 3. Modules

Conventions. A request, event, key or item is a model value or a small number; a history
variable (marked so) only records what properties speak about. An action is the code between two awaits
that other actors can observe. Operators named "Faulty variant" are plausible bugs, used only to
show that a property would notice them; no behaviour of a specification uses one. Bounds are
constants named `Max...`.

**SyncStream** – storeEvent is `ReadOrdering` (SELECT MAX) and `InsertEvent`; afterwards
`notify[e]` holds the users whose object is still to be told, `NotifyUser` wakes a waiting client,
`NotifyFails` is a failed or never made call, `WriterStops` a Worker that ends between the two
statements. A client's request is `SyncStart` (read `currentPosition`), `ReadRoom` (one page per
joined room, at most `PageLimit` rows), `Decide` (reply, or wait when all pages are
empty), `RegisterWaiter`, `WaitTimeout`, then `Reply` with `currentPosition` as next token, or
`SyncLost`. `late` and `cut` record events inserted at or below a taken position and events
beyond a LIMIT.

**FederationQueue** – `Send` is `/send` and `/send-edu`, which store the item and start a run; a run
lists, sends (its fetch lets others in), and ends with `RunSucceeds` (removals, then nextRetry
cleared) or `RunFails` (items stored again, nextRetry and alarm set). `Crash`,
`CrashInSuccess`, `CrashInRetry` restart the object at a fetch or between storage operations;
`Orphan` is a request that still arrives although nobody waits for it. `RetryFallsDue` is time. The
retry counter only chooses how long nextRetry is ahead, so it is left out. **OutboundQueue** is what the
queue promises: items leave it only once received. `AtLeastOnce` is the refinement.

**ToDevice** – `CheckTxn`, `Allocate` (UPDATE ... RETURNING), `InsertMessage` per device, `StoreTxn`
are `PUT /sendToDevice`; `BumpPosition`, `ReadPosition`, `InsertNotice` the admin notice, which takes
its position in two statements. `SelectPage`, `Acknowledge` (rows up to the presented position
become delivered), `ReadMax` (only for an empty page), `Reply`/`SyncLost` are getToDeviceMessages and
the answer of `/sync`; `Cleanup` deletes delivered rows. `ForeignTxn` is another endpoint storing
the same transaction id.

**EventAuth, AuthRoom** – EventAuth translates checkEventAuth rule by rule into operators over a room
state (members, join rule, power levels with absent entries as `NoLevel` and the code's
defaults). AuthRoom starts as createInitialRoomEvents leaves a room and applies any event the
rules allow. Levels are integers, negative ones included.

**RoomMembership** – one process per request. A handler is a list of `reads`, an order-preserving set
of refusals (`JoinStops`, `KickStops`, ... are its early returns), then `StoreEvent`, `SetState`,
`UpdateRow` (and `AddKnock`, or only `DeleteRow` for forget). PUT state reads room_state and runs
checkEventAuth. `StopRequest` ends a Worker anywhere. `stray` records events that the
authorization rules reject where they were stored.

**OneTimeKeys** – the KV value and the D1 rows as functions from keys to absent/free/claimed; a KV read
may return any earlier value (`MaxStale`). An upload is `UploadGet`, `UploadInsert` per key,
`UploadPut`, `UploadFallback`; a claim is `ClaimGet`, then `ClaimPut` and `ClaimMark` when the KV
value has an unclaimed key, else `ClaimSelect` from D1, else `ClaimFallback` and
`ClaimUseFallback`. Claims by remote servers run the same code.

**DeviceKeys** – the owner's durable object (`PutKeys`, `ReadKeys`, `PutMerged`), the signature rows,
recordKeyChange (`Bump`, `ReadPosition`, `RecordChange`), and a client that syncs (`SyncStart`,
`ListChanges`) and queries (`QueryKeys`, `QuerySignatures`).

**KeyBackups** – a version is a row with count and etag (`CreateVersion`, `DeleteVersion`, which marks it,
then `EmptyVersion`) and its session keys. An upload is `CheckVersion`, `StoreSession` per
session, `CountRows`, `UpdateVersion`; a deletion is `DeleteKeys` (then counted in the same way) or
`DeleteAllKeys` (whose count is known). The endpoints for a backup, a room and a session differ in
the sessions they name. The client downloads (`ReadVersion`, `AskKeys`, `ReadKeys`) when
the etag is not the one it has. An etag is random in the code; here it is the request that drew it,
which is as unique. `stale` and `under` record changes between COUNT and UPDATE, and uploads
under way when their version was deleted.

**StateResolution** – resolveStateV1 and resolveStateV2 with separateState, the sort and the repeated
checkEventAuth of EventAuth, over numbered events and states that are functions from keys to numbers.

**InboundEvents** – an attempt is one `PUT /send/{txnId}`: `Begin` (unless the response is stored), and for
each event `CheckProcessed`, `Authorize` on the room state, `Accept` or `Reject` (the row of
processed_pdus), `Store`, then for state `Apply`, or with several predecessors `Resolve` and
`WriteResolved` key by key; at the end `Answer`. A failed statement takes the path of the try
block it is in: `AuthorizeFails` accepts all the same, `Refuse` rejects, `RefuseUnread` too when the row of
processed_pdus itself cannot be read, and then over an accepted row; `StoreFails` goes on with the next
event, `ResolveFails` falls back to `Apply`. `Stop` ends the Worker. Attempts of one
transaction are retries. `twice`, `lost`, `reverted` record overlaps, broken-off attempts and
state written from an old read.

**SlidingSync** – a request of either handler is `Post` (or `StateUnavailable`, the 503), `GetState` (the
connection's), `ListRooms` (getUserRooms), then one list or subscribed room after the other (`ReadRoom`, `ReadInvite`, with `SincePosition` and
`Timeline` for what the page holds), `EphemeralRooms`, `Save` of the connection state (or
`SaveFails`), a wait when nothing is new (`EndWait`), and `Reply`. `Abandon` and `Discard` are a client
that gives up and posts again while the first request still runs; `Reconnect` starts without a
position. Other users send, and other devices read and join (`StoreMessage`, `MarkRead`, and `StoreJoin`,
the event, before `Join`, the membership row). `missed` records rooms that were read as invitations by a
request that began between the two.

**RoomUpgrade** – a creation or an upgrade is the list of events it has still to store (`Creation`,
`Upgrade`), begun after `CheckAlias` or `CheckUpgrade` and `ReadState`; `Restrict` writes the old room's levels
back, `MoveAlias` comes last. A send or redaction looks for its transaction (`CheckTxn`), reads levels
(`CheckSend`), stores, and notes it (`MarkRedacted` before the transaction). `ChangePower` is a client's change of a
level: `wished` is the level each member was given last, `raced` who was given it while an upgrade was
between its reading and its writing.

**RoomJoin** – `make_join`, the event, `send_join`, persist and notify as steps that the engine repeats,
with a step that had its effect although its result was lost.

**FederatedMembership** – a knock or an exchange of a third-party invitation is a check and three
writes: event, room_state (`SetState`), room_memberships (`SetRow`); members and moderators here
change memberships between them in one step each.

**RoomHistory, RoomDirectory** – readers that run SELECT after SELECT while events are stored and
rooms come, go, are published and hidden; a reader's record holds what it was to find (`base`) and
what it found (`seen`). In RoomHistory storeEvent is `ReadOrdering` and `StoreEvent`, so that two events may have
one position; `cuts` has the positions of the last events of pages. In RoomDirectory a room is made by its row
(`CreateRoom`) and then its events (`CreateEvents`), and deleted in the opposite order (`PurgeEvents`, `PurgeRoom`);
what a page says of a room is read in several SELECTs (`ReadInfo`, `PublicInfo`), and `busy` has the rooms whose
creation or deletion was unfinished meanwhile.

**PushRules** – rows over defaults of the code, `PUT .../actions` in two statements, and the three
evaluations (notification counts, `Evaluate`, and the workflow's own). **PushDelivery** – the workflow with batches that
are repeated, and requests that set pushers by DELETE and INSERT. A member is three SELECTs (`EvaluatePushRules`,
`GetUnreadCount`, `GetUserPushers`), of which each may fail (`FailMember`: the batch goes on, `silent` has the
user), the posts, and the row of the history.

**AccountData, RoomEphemeral** – a request is what it has still to write, in order, to the object, KV and
D1; it may stop or overlap another request. A read of KV gives the value or one that was there before
(`earlier`, `lagging`), until `SettleKv`, `SettleEntry`. `Evict` takes the object out of memory, `Tick` is the clock.

**Accounts, OAuth, CrossSigning, Threepids, Media** – a request is the list of statements it has still to
run (`Refreshing`, `Rotation`, `Storing`, `Filling`, ... are those lists, from the code in its order); a
statement is an action, other requests' statements may come between, `Stop` ends one half-way, `Lapse` and
`Expire` are lifetimes that end. What a request makes (token, code, session, content) is named for
it. KV may still give what was there before the last change of an entry. History variables record who was logged out, which grants were
read twice (`raced`), which writers overlapped (`met`), and what downloads gave (`given`).

The `MC...` modules name the model values and give the constants that are functions.
**RoomServices** (AuthRoom, RoomUpgrade, FederatedMembership, RoomHistory, RoomDirectory), **UserServices**
(PushRules, PushDelivery, AccountData, RoomEphemeral, OAuth, Threepids, Media) and **DeviceServices**
(DeviceKeys, Accounts, CrossSigning) compose modules whose state is disjoint in
these models into one specification each: the first state chooses a `part`, that part runs, and the
variables of the others keep one fixed value. Each part is an INSTANCE of its module, which
gives its variables the names that tell them apart here. A behaviour is one of a single part, the states are
the sum of the parts' and not the product, and a property of a part says nothing of the others.
Where the real parts do touch one table, the module that changes it has the others' writes as
actions of its own (the local changes of FederatedMembership, the readers' stored events).

## 4. Runs

Expected to pass:

| Run | Distinct states | Instance, and why it is enough | Shows |
|---|---|---|---|
| SyncStream | 176 737 | 3 events in 2 rooms, a client of both, page limit 1, one lost response; three calls are the fewest where one is overtaken by two, a limit of 1 cuts with two events | a skipped event is `late` or `cut` (GapsExplained); events that entered on top arrive whatever happens to wake-ups (EventuallyReceived) |
| SlidingSync | 906 995 | both handlers in 7 profiles (lists, a subscription, an invitation, typing), 2 overlapping requests, pages of one row, 1 fault; with a page of one row two rows are enough to be cut, and the profile of one room lets two rows come between two requests | a row is passed by only for named reasons (SkipsExplained); a client left alone has every row, and shows counts and typing unless a response was lost (CatchesUp) |
| ToDevice | 497 980 | a send, its retry and a notice to one device, LIMIT 1, any one fault | losses have three named causes (LossesExplained), an answered request has stored its messages (AnsweredIsStored), a stored message is seen (EventuallySeen) |
| FederationQueue | 39 581 | an event and an EDU (their keys and removals differ), 2 overlapping runs, 2 restarts, 1 request of the remote server | nothing is dropped unsent (AtLeastOnce), an undisturbed queue has its retry armed (RetryArmed) and is emptied (EventuallyReceived) |
| RoomMembership | 1 904 846 | 2 users, all 11 operations: 4 requests in sequence, or 3 with two at a time and one stop | rows have their events in every interleaving and agree with the state when requests do not overlap (RowsSound), endpoints allow only what the rules allow but for two named exceptions (HandlersAuthorize), bans hold (BansHold) |
| RoomServices | 942 151 | AuthRoom: 3 users, 20 power-level contents, of which one has everybody below 0 and one is empty; RoomUpgrade: 2 members, 1 alias, 2 requests at a time, 1 change of levels, 1 stop; FederatedMembership: 1 guest with 2 calls, 2 local changes, 1 failure; RoomHistory: 5 events with a branch, limits 1 and 2; RoomDirectory: 5 rooms, limits 1 and 2, 2 changes | nobody's power rises above everyone's (PowerNeverRises), bans end by moderators or the banned user's own join (BansLiftedByModerators) and not by a knock (BansOutlastKnocks); what was answered is done (AnswersHold) and levels given to members outlast upgrades, but for those given while one was between reading and writing them (UpgradeKeepsLevels); a guest's tables agree and an invitation serves once (GuestsSound); pages and walks miss nothing but ties at a page's end and what moves under an offset, and only rooms in the making or in deletion lack their data (ReadersComplete, ListsComplete) |
| InboundEvents | 639 363 | 3 attempts (interchangeable) of 3 transactions that share an event; a join, a message, new join rules with several predecessors, a ban; both resolutions; 1 fault anywhere | an accepted event is stored and applied unless its attempt broke off (AcceptedIsApplied), replaced state comes back only by named races (NoReverts) |
| OneTimeKeys | 1 442 802 | 2 uploads that share a key and the fallback key, 3 interchangeable claims (symmetric: nothing names one), 1 stop, 1 stale read | a key goes to two claims only after an overlap, a stale read or a re-upload (ReuseExplained); no key of an answered upload is out of reach (FallbackIsLast) |
| DeviceServices | 1 404 930 | DeviceKeys: 2 uploads, 1 signature, 1 client, 2 events, 1 stop; Accounts: 3 requests of any kind, 2 devices, 1 fault; CrossSigning: 3 requests, 1 fault; three requests are two that overlap and one that made, or finds, what they change | signatures survive (SignaturesSurvive), keys never change behind the change rows (ChangesRecorded), a client gets older keys only after a crossing (KnownNeverGoesBack); tokens serve once, sessions have devices, clients stay logged in (AccountSound); stores of an identity agree, the last change is told, consent is asked and a session serves one upload (IdentitySound) |
| KeyBackups | 2 939 484 | 2 uploads of any sets of 2 sessions in 2 rooms, 1 deletion of keys and 1 of a version, 2 versions, 1 client, 1 stop; two writers are the fewest that overlap, and the client may download before, between and after them (uploads and rooms are interchangeable: nothing names one) | an unchanged etag means unchanged keys once requests have ended (EtagTells), counts are right but for one named race (CountIsRows), deleted versions are empty but for one (DeletedVersionsEmpty) |
| UserServices | 1 178 705 | PushRules: 2 writers, 4 calls; PushDelivery: 2 members in a batch each, 2 apps, 1 repetition, 1 fault; AccountData: 3 requests, 2 tags, and, as in OAuth and Threepids, 2 requests under way at a time (one may overlap the end of another and the beginning of a third; the proofs bound none of this); RoomEphemeral: 2 requests, 2 events, a clock past both lifetimes; OAuth: 3 requests, 2 clients, 1 subject, 2 names, 1 fault; Threepids: 3 requests of 2 users, 2 attempts, 1 fault; Media: 4 requests (a file needs one to be made, then two that overlap and one that looks), 1 fault | rules are as asked and the master rule silences (RulesAsAsked); every pusher is notified unless a SELECT for its user failed, twice only with a repeated batch (DeliverySound); what was put last is given and, once KV has settled, by every store (DataKept), and what was set last is shown in the same sense (EphemeralSound); a grant serves once, lasts, can be revoked, and a subject is one user (GrantsSound); an address is its prover's until given up (AddressesSound); a file stays as uploaded, is gone when deleted, and downloads agree (MediaSound) |

Deadlock is checked in SyncStream, ToDevice and DeviceServices: a client always can sync again, and in the
other parts of DeviceServices only a behaviour whose requests have all ended comes to rest. The other
instances end: a queue that is empty, a room its last member left, requests that were all answered.

Expected to be violated, a disagreement of section 8: RoomJoin_appears (2 joiners, 3 attempts of a step, 1 error).

Every property of a passing run has a mutant in `PROJECT.json`: a faulty variant of a mapped definition
under which TLC finds that property violated.

## 5. Fairness

* SyncStream: weak fairness of every client step and of the time-out of a wait. A client polls for
  ever (each answer leads to the next request) and SyncDurableObject arms its timer when it
  registers a waiter. Nothing is assumed of writers or notifications: a storeEvent call may stop and
  a notification be lost, and EventuallyReceived holds by the time-out alone.
* FederationQueue: time passes and a fetch ends (weak fairness); the alarm fires although other
  runs may take its turn (strong fairness: Durable Object alarms are durable and retried); a remote server
  that is asked again and again is reached, and answers ok, in the end (strong fairness of arrival and
  success). Restarts and `/receive` are never fair.
* ToDevice: weak fairness of the steps of devices that sync; none of senders.
* SlidingSync: weak fairness of the steps of requests and of the client: a handler that was begun runs
  on, a wait has a timer, and a client posts again after each answer. Saves that fail, abandoned
  requests and new connections are never fair; CatchesUp holds of behaviours in which rooms fall
  quiet, as they must with a bound on rows.
* RoomJoin: weak fairness of the workflow's steps, which its engine promises (a workflow that was
  created is run and its steps are repeated until their limit).

Other modules state safety only.

## 6. Proofs

All proofs are checked by tlapm 1.4.5 with SMT, Zenon and LS4, from nothing but the named
assumptions on constants, which TLC evaluates in the runs.

* **SyncStreamProofs** – `TypeCorrect`, `Contiguous`, `NoUnexplainedGap`, for any events, rooms,
  clients, page limit. GapsExplained speaks of tokens; a request in progress has a future token,
  so the invariant adds: every row at or below `current` is received, late, cut, in the page,
  dropped, or in a room still to be read (RequestInv). That needs a captured
  ordering to be at most MAX + 1 (CapturedInv), which needs the table to be 1..MAX (TableInv).
* **FederationQueueProofs** – `Implements` (the refinement of OutboundQueue), `RetryIsArmed`,
  `RemovedEdusStayRemoved`, `TypeCorrect`, for any items, overlapping runs and restarts. What a
  run carries is queued or received (RunInv); without disturbance there is one run and it carries the
  whole queue (SerialInv), so the success that cancels the retry also empties the queue.
* **RoomServicesProofs**, part AuthRoom – `NoEscalation`, `ListedAreProtected`, `BansHold`, `TypeCorrect`, for any
  users, any integers as levels and any contents. The central lemma, ChangeBounds, bounds what one allowed
  m.room.power_levels event does to one user, by listed entry or default; a default of 0 rises above
  the sender's own level only where that is negative, and then every user's was.
* **RoomServicesProofs**, part FederatedMembership – `GuestsAreSound`, `KnocksEndNoBan` (an action property), for any
  guests, calls and numbers of failures (MemberInv). Each table is right up to the write the guest's one
  writing call has still to make: the event is stored before room_state names it, the row is right unless a call
  is at its row (TableInv, WriteInv). A knock saw no ban and what it saw still holds unless a ban came
  in between, which is `late` (KnockInv). Two exchanges that found the same invitation overlapped or
  one failed before consuming it (FoundInv, UsedInv).
* **RoomServicesProofs**, part RoomUpgrade – `AnswersAreTrue`, `LevelsSurviveUpgrades`, for any
  members, requests, aliases, changes of levels and stops (UpgradeInv). The steps of a creation or upgrade are in order
  (StepOps, CreationOrder), and at each of them everything earlier is in the new room (NewRoomInv), the levels
  read are levels the old room had (LevelInv) and, but for who is `raced`, those given last (WishInv), and the aliases not yet moved are in `todo`
  (AliasInv); a transaction names a request with the same transaction whose message is stored (SentInv).
* **RoomServicesProofs**, part RoomHistory – `ReadersAreComplete`, for any event graph, depths, timestamps and limits, and
  events stored between any two SELECTs (HistoryInv). A page `ORDER BY key LIMIT n` takes the elements by
  their rank, the number of elements before each, and ranks in a finite order are 0 .. n - 1 (RankTaken, RankOrder); so
  what is not in a page is not before its last row (AscendingPage, DescendingPage). What was there when paging began is
  in a page, beyond the token, or at a position where a page was cut (PagingInv), an event that is stored moves no
  other one, and what backfill has not
  sent is below the target or at a depth that was sent (BackfillInv). What a walk's answer refers to is
  answered, among the earliest, or in the queue (WalkInv).
* Part RoomDirectory – `ListsAreComplete`, for any rooms, limits and changes between SELECT, answer and next page
  (ListInv). An offset counts the rows before a page: while no room leaves, the rank of a room only grows, so what was
  not answered is behind the offset (NothingLost); while none comes it only shrinks, so what was answered is
  before it and no room comes twice (NothingTwice). The rows of a space only grow, since a removed child keeps its
  row (SpaceInv); a room found without its data is in `busy` since the list was opened; a client's one page has every room when they are at most the limit (ClientInv).
* **OneTimeKeysProofs** – `NoKeyOutOfReach`, `UseIsTold`, `TypeCorrect`, for any uploads and claims.
  A claimed D1 row belongs to a taken key, an answered upload has all its rows, and what a claim is
  owed has a row (RowInv, InsertedInv); so an empty SELECT means everything owed was taken.
  `ReuseHasACause`: a claim that met no other request, without stale reads, writes back the value it
  read (FreshInv), so what it handed out is unclaimed nowhere, neither in KV nor in D1 nor in a copy some request
  holds (SpentInv), and no second such claim can choose it (OnceInv).
* The same module, part OAuth of UserServices – `GrantsAreSound`, for any requests, clients, subjects and stops (GrantInd).
  What nothing raced is in one place: an entry of KV, the hands of one request, or a session (HoldInv). A refresh
  token is of one session and new until its request answered (TokenInv, AnswerInv). What a client was given last
  is there, or the refresh that deleted it goes on (GoInv); a session that nothing raced has one token or
  one request that renews it, and none once it was given back (SessionInv); who enters as a subject has the link to
  that user (LinkInv). These proofs stand here because this module and UserServices share no name, and
  the proofs of UserServicesProofs are long already.
* **DeviceServicesProofs**, DeviceKeys – `SignaturesAreKept`, `NoSilentChange`, `NoOldKeys`, `TypeCorrect`, for any
  uploads, signatures and clients (finitely many uploads). A started signature upload has its row, so a
  query that starts after its answer finds it in D1 (SignInv, AskedInv). Without a crossing
  a pending write-back holds the object's own keys, so nobody knows keys newer than the object's
  (RankInv, LatestInv).
* Part CrossSigning – `IdentityIsSound`, for any requests, payloads and faults (IdentityInd). What a request has
  still to run is one of the ends of its list (CrossTodo), so the store it writes first and the rows it still
  has to write are known (RowsLeft). Object and rows agree but for those rows (RowsInv), because a request
  that no other overlapped finds in the object what it wrote and read there (WritersInv, ObjectInv); a change
  not told has a request that is about to tell it (ToldInv); an upload that asked for no consent finds an empty
  object (ConsentInv). A session that is not `raced` has one holder, and that holder knows what was done
  with it (HolderInv); the id of a session is new until its request puts it (NewSessionInv).
* Part Accounts – `AccountIsSound`, for any requests and devices (AccountInd). A token is named for the request that issued
  it, so session, device and origin of a token follow from that request (TokenOf, RefreshOf). An access
  token of a session no two refreshes raced for is the one its client was given last or the one that
  replaces it, and a refresh past the DELETE leaves no trace of the old one (ChainInv); what the client was given last is
  there, or an open refresh has begun to replace it (ClientInv). Before the DELETE of a device its tokens are
  gone, but those issued late (DeviceInv).
* **UserServicesProofs**, KeyBackups – `EtagIsSound`, `CountIsExact`, `DeletionIsComplete`, `TypeCorrect`, for any
  requests, clients and finitely many sessions. A request draws its etag when it ends, so a client that
  has the etag of a version with nothing open downloaded after every change of its rows (EtagInv);
  a count that is held, or in the row, equals the number of rows unless the version is stale
  (CountInv); an upload still open on a deleted version was open when that was deleted (DeletionInv).
* **UserServicesProofs**, part PushRules – `RulesAreAsAsked`. The two statements of `PUT .../actions` never leave a row that
  is on although it was asked to be off, because a rule without a row is off (RulesInv).
* Part PushDelivery – `NotificationsAreDelivered`, for any members, apps, batch size, repetitions and
  faults (DeliveryInv). The members before the batch are served, those behind it untouched (PastInv,
  WaitingInv); within it a member has fewer notifications than attempts from whatever this attempt has
  still to send (BatchInv), and one whose SELECT failed in this attempt is `silent`; so a second notification needs a second attempt. Two rows for one pushkey need two
  setters that overlap, which makes the key `loose` (SetterInv). Members are finite: they come from one SELECT.
* Part AccountData – `WhatWasPutIsThere`, for any requests and tags (DataInvariant). The last request, if no other
  overlapped it, has written each store it is past, and what KV may still give is in `earlier` (SecretInv); for tags, what another request read and will
  write back agrees with the last one on every tag but its own (TagInv).
* Part RoomEphemeral – `WhatWasSetIsShown`, for any messages, requests and clock (EphemeralInv). The memory of the object and
  its storage give the same receipts (ReceiptInv); the last request of a kind, if alone, has written what
  it was asked or still owes it (MarkerInv, PresenceInv).
* Part Threepids – `AddressesAreProved`, for any users, requests and faults (AddressInv). The ids of sessions are new until
  their request inserts them (NewIdInv), so a session is one user's (OwnInv), is validated only for
  who proved the address, and a request adds or ends only what it found (BindInv, MailInv).
* Part Media – `FilesAreSound`, for any requests (FileInv). While writers do not overlap there is one content that is not
  a placeholder, of the request that answered or is about to (ContentInv), and object, row and thumbnail
  are of it at each step of upload, filling and deletion (FillInv, FirstInv, UploadInv, ReadInv).
* **ToDeviceProofs** – `LossesAreExplained`, `AnsweredTransactionsStored`, `PositionsAreUnique`,
  `TypeCorrect`, for any devices, requests, notices, page limit and faults. A row
  never moves and what explains a loss stays true, so it is enough that a row is explained when a sync passes
  it over: below an acknowledged position (SinceInv), below the end of the chosen page or anywhere when
  the page is empty (PageInv), and below the position of the answer (BatchInv). That a page cut by
  the LIMIT has a last row follows from the positions being allocated ones (HighestRow).
* **RoomMembershipProofs** – `RowsAreSound`, `BansAreKept`, `HandlersAreStrict`, `TypeCorrect`, for any
  users, levels, contents, bounds. A request stores its own event once, before its row (EventInv), which gives
  RowsHaveEvents in every interleaving. While no two requests have met, whatever a handler has read
  is still so (AloneInv: Checked), the row of a user is the entry of room_state or its request is
  between the two writes (Mirrored, Between), and bans are in the rows (BanInv); so the refusals
  of each endpoint, on rows and levels, imply the rule of checkEventAuth for its event
  (AllowedAlone, one case per endpoint). `HandlersAreStrict` assumes a room version that supports
  knocking, as `/knock` itself does not look at the version.

Each strengthening is inductive as stated and was an invariant of the run before it was proved; `Inv`,
`Everything` or `...Inv` of a part is their conjunction, and the theorems about a part speak of every
behaviour of the composing specification. Some proved properties belong to no run: type correctness,
OrderingsContiguous, EdusNotRequeued, ListedKeepPower, FallbackUseTold and PutPositionsUnique. Their proofs
hold for every instance, so the runs keep to properties that need them more.

What is assumed of constants. Finite sets where the code has them (the rows of one SELECT, the keys of one
request); positive limits and batch sizes; ids of requests that are not the value for absence (`None`, `NoContent`,
`NoSession`, `NoId`, 0), because ids are drawn anew; messages and requests as positive numbers, where their order
is that of arrival, and requests that may put a session of consent as numbers above 1, which names the session
that is there before; tag names that are not the two account-data types (the code keeps tags under
a type of their own); `NoName`, the claim a provider leaves out, that is no name; timestamps, in milliseconds,
above every stream position of a room, and rooms numbered in the order of created_at. Each is a named ASSUME of the module that declares the constants, and TLC evaluates it in the run.
Bounds (`Max...`) are not assumed to be anything but what the type invariants need.

Only model-checked, and why:
* liveness (SyncStream, SlidingSync, FederationQueue, ToDevice), ENABLED, and recursion over data are beyond the
  installed provers;
* SkipsExplained of SlidingSync, AcceptedIsApplied and NoReverts of InboundEvents: not proved yet. The first needs what each of
  the seven profiles' pages hold, the others the folds of the state resolution.

## 7. What the models leave out

* SyncStream: filters, full_state, invite and leave sections, ephemeral and account data (no
  effect on which token is answered); the WebSocket endpoint; membership changes during a sync.
* FederationQueue: `received:` records, key endpoints and `/status`, which do not touch the queue.
  An item stored before a restart and before its run has nothing armed for it: EventuallyReceived
  exempts disturbed queues for that reason.
* ToDevice: message contents and wake-ups (see SyncStream).
* EventAuth: contents with non-integer levels (levels are any integers), a second m.room.create.
* RoomMembership: the event graph, notifications, display names, knock and join through an alias
  (they resolve the alias and then do what knock and join do; the knock reads the
  rule before the membership), writers of room_memberships in other files (inbound federation,
  account deactivation, server notices; login's auto-join is joinUserToRoom).
* OneTimeKeys: other algorithms (independent), the order of keys within the KV array (left open),
  deletion of a user by the admin API (which clears D1 only).
* DeviceKeys: the KV copy only an export reads, EDUs (see FederationQueue), `GET /keys/changes`, which reads
  as device_lists does.
* KeyBackups: auth_data and algorithm (`PUT /room_keys/version/:version` replaces the former and
  touches nothing else), key contents.
* StateResolution: state of types authorization does not read, which v2 resolves after the others in the
  same way; numbers of events stand for their ids and order like them.
* InboundEvents: EDUs, content hashes, malformed events, rooms this server does not have (the event is only
  recorded), users of this server, whose requests RoomMembership has. A signature counts only
  through a failing key fetch, which rejects an event another server relays (`Refuse`).

* SlidingSync: filters and the sorting of lists, the to-device, e2ee and account-data extensions (they
  read streams that ToDevice, DeviceKeys and AccountData have); storing an event is one step.
* RoomUpgrade: checks of other state contents, summaries and member lists, which only read; storing an
  event is one step (RoomMembership has its statements).
* RoomJoin: rooms this server has (RoomMembership), the contents of the state send_join returns.
* FederatedMembership: signatures, which only refuse; local changes are one step each.
* RoomHistory, RoomDirectory: contents, search, filters; one reader, since readers change nothing. A
  creation's events, and the DELETEs before that of a room's row, are each one step: from the first to the last of
  them a reader may find any part missing, which is what the step's flag (`making`, `purging`) says. Rows with one
  key come in the order of their numbers, where SQL promises none.
* PushRules: conditions and patterns, of which none of the two rules of the user has any.
* PushDelivery: formats of notifications and the count in them; PushDurableObject, which only a function nothing calls
  reaches.
* AccountData, RoomEphemeral: KV settles everywhere at once. AccountData: contents, types other than one secret and one plain one, which are independent.
* RoomEphemeral: the WebSockets of the object, presence of others, threads beyond two.
* Accounts: passwords and their hashes, a second account, password reset by e-mail or phone (endpoints
  that refuse); other tables a purge empties.
* OAuth: PKCE, client secrets and redirect URIs, which only refuse; userinfo, introspection and
  discovery, which only read; QR login.
* CrossSigning: a copy in KV nothing reads; signatures and the numbers of changes (DeviceKeys).
* Threepids: addresses and codes that are wrong, which only refuse; phone numbers, which the code refuses.
* Media: URL previews, quarantine (one flag), sizes and names; MediaCleanupWorkflow, which fails at
  its first statement (section 8).

## 8. Where code and comments disagree

With a run that exhibits it: RoomJoin_appears, the persist step of a join of a room of another server fails
every time, because nothing writes that room's row of `rooms`; the client was told that the join
is in progress, the other server has the join, and the user never becomes a member here
(`RoomJoinWorkflow.ts:105`).

Without a run of its own (`findings` has each with the sentence it disagrees with); the exceptions of
passing properties that need it in parentheses.

Sync and delivery
* two overlapping storeEvent calls (`database.ts:258`) put an event at a position a client has
  passed; the client never gets it (`late`), and a page's LIMIT loses events, because the token
  moves past all of them (`sync.ts:588`, `database.ts:608`; `cut`);
* the success of one run of the outbound queue clears the retry another run scheduled
  (`FederationDurableObject.ts:297`; RetryArmed excepts a disturbed queue), and a failing run that ends late
  stores confirmed events again (`:330`), not EDUs;
* a retry of `PUT /sendToDevice` that overlaps the first attempt sends twice (`to-device.ts:134`); a
  row inserted at or below an answered position, or between a sync's empty page and its
  MAX, is marked delivered unfetched (`to-device.ts:195`, `:251`; `late`, `raced`); the transaction table is
  shared by all endpoints (`:77`; `foreign`);
* device changes (`sync.ts:325`) and account data (`sync.ts:343`) are numbered by streams of their own and compared
  with the position of events; tags and read markers record no change;
* sliding sync: a room in a list and subscribed to is read twice and the first page lost
  (`sliding-sync.ts:1684`); pos in the query is not seen by the e2ee extension (`:1782`); a pending
  invitation keeps a connection from ever waiting (`:1540`); the end of typing in a quiet room is not
  told (`:1223`; TypingShown); a request that begins between a join's event and its membership row sends the room
  as an invitation and passes the join, so that the simplified handler does not show the room until something
  happens in it (`:1544`; `missed`);
* the badge of a push is always 1 (`PushNotificationWorkflow.ts:317`), the workflow looks at the master rule
  only (`:300`), a member for whom a SELECT fails is left out and not tried again (`:265`; `silent`), and a content rule is stored without its pattern (`push.ts:569`);
* receipts of one event in several threads are written to one key of the answer (`RoomDurableObject.ts:197`).

Rooms
* checkEventAuth lets a banned user join a public room (`event-auth.ts:192`), and forget removes the row
  a ban is looked up in (`rooms.ts:1439`; BansHold and HandlersAuthorize except who forgot a ban);
  `/invite` invites a banned user (`rooms.ts:1143`), which the rules reject; a power-levels event
  that leaves out a peer's entry lowers the peer (`event-auth.ts:405`; ListedKeepPower speaks of listed users),
  and where all levels are negative one that leaves them out gives everybody 0 (`:58`; PowerNeverRises excepts it);
* room_state and room_memberships diverge when requests overlap (`database.ts:288`);
* the upgrade takes back changes of levels made meanwhile (`rooms.ts:2261`; `raced`), and createRoom answers
  success although it stopped half-way (`:345`);
* a page of `/messages` that ends between two events of one stream ordering passes the other
  (`database.ts:349`; `cuts`); `/messages` without a token starts at the beginning's token (`rooms.ts:979`), and the tokens of
  `/context` are times (`:1626`); the query of relations names columns events does not have
  (`relations.ts:57`);
* `POST /publicRooms` is always empty (`index.ts:316`); the next page of a hierarchy is the first again
  (`spaces.ts:132`), and for servers it names the wrong room (`federation.ts:3062`).

Federation
* the v2 resolution of an inbound event starts from nothing and applies nothing but m.room.create: a state
  event with several predecessors never becomes current (`federation.ts:673`; AcceptedIsApplied
  speaks of events with one); inbound events have no stream_ordering, so no incremental sync gives
  them (`:635`); an event is recorded as processed before it is stored, and is lost when the Worker stops in
  between (`:626`; `lost`); when the SELECT of that record fails the event is recorded as rejected, also if it was
  accepted before (`:701`); two attempts that handle an event at once may disagree (`:513`; `twice`), and a
  resolution writes back what it read before (`:660`; `reverted`); without a readable state an event is
  accepted without authorization (`:618`);
* send_join, send_leave and invite store nothing (`federation.ts:1443`, `:1626`, `:1708`); a knock whose
  statement fails is answered as stored (`:2529`; `torn`); event_auth is one level of the chain (`:948`).

Keys, accounts and files
* the count of a backup is wrong after an overlap (`key-backups.ts:307`; `stale`), and an upload stores keys of
  a version that was deleted meanwhile (`:265`; `under`);
* a one-time key is handed out twice after an overlap, a stale KV read or a re-upload (`keys.ts:435`); a
  signature upload that crosses a key upload restores the old keys (`keys.ts:931`);
* a login with a device_id that was used before fails, and its login token is spent (`login.ts:132`);
* a session validated in time adds its e-mail address at any later time (`email.ts:249`);
* the media clean-up selects a column that does not exist and so never removes anything
  (`MediaCleanupWorkflow.ts:30`), and thumbnails are looked for in a table nothing inserts into, so they outlive
  their file (`admin.ts:609`; MediaSound speaks of contents).

## 9. Running

`tlc -config X.cfg M` for the module and configuration of each run in `PROJECT.json`;
`tlapm M.tla` for the `...Proofs` modules.
