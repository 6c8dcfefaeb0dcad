----------------------------- MODULE KeyBackups -----------------------------
(***************************************************************************)
(* The key backups of one user (api/key-backups.ts): versions, which are   *)
(* created and softly deleted, the session keys in them, and the count and *)
(* the etag every version keeps beside its rows.                           *)
(*                                                                         *)
(* Uploads and deletions of keys exist for the whole backup, one room and  *)
(* one session; they differ in the sessions they name.  Every D1 statement *)
(* is a step, and requests overlap.  The algorithm and auth_data of a      *)
(* version, which nothing reads but its owner, are left out.               *)
(***************************************************************************)
EXTENDS Naturals, FiniteSets

CONSTANTS
  Rooms, SessionIds,  \* a session key is backed up under its room and id
  Puts,               \* uploads of session keys; the data of a key is its upload's
  Deletes,            \* deletions of session keys
  Removals,           \* deletions of a version
  Clients,            \* clients that keep a copy of the newest backup
  NoData,             \* no session key
  Fresh,              \* the etag a version is created with
  MaxVersions,        \* bound: versions created
  MaxStops            \* bound: requests whose worker stops half-way

ASSUME ConstantsAssumption ==
  /\ Puts \cap Deletes = {} /\ Removals \cap (Puts \cup Deletes) = {}
  /\ NoData \notin Puts /\ Fresh \notin Puts \cup Deletes
  /\ IsFiniteSet(Rooms \X SessionIds)
  /\ MaxVersions \in Nat /\ MaxStops \in Nat

Sessions == Rooms \X SessionIds
Versions == 1..MaxVersions
Writers == Puts \cup Deletes
Requests == Writers \cup Removals

VARIABLES
  created,   \* the last version
  deleted,   \* versions whose row has deleted = 1
  etag,      \* the request that generated a version's etag
  count,     \* the count in a version's row
  rows,      \* key_backup_keys: the data of every session of a version
  phase,     \* where every request is
  version,   \* the version it names
  todo,      \* sessions an upload has still to store
  tally,     \* the count it is to write
  client,    \* where every client is
  backup,    \* the version a client copies, 0 at first
  seen,      \* the etag it read
  copy,      \* the keys it downloaded
  stale,     \* versions whose sessions changed between a COUNT and its UPDATE (history)
  under      \* uploads under way when their version was deleted (history)

tableVars == <<created, deleted, etag, count, rows>>
requestVars == <<phase, version, todo, tally>>
clientVars == <<client, backup, seen, copy>>
vars == <<tableVars, requestVars, clientVars, stale, under>>

Live == (1..created) \ deleted
Stored(v) == {s \in Sessions : rows[v][s] # NoData}
NoRows == [s \in Sessions |-> NoData]

(* Requests that hold a count for the version. *)
Updating(v) == {r \in Requests : version[r] = v /\ phase[r] = "updating"}

(* The sessions of a version become those with data in new. *)
ChangeRows(v, new) ==
  /\ rows' = [rows EXCEPT ![v] = new]
  /\ stale' = IF Updating(v) # {} /\ Stored(v) # {s \in Sessions : new[s] # NoData}
              THEN stale \cup {v} ELSE stale

-----------------------------------------------------------------------------
(* POST /room_keys/version *)
CreateVersion ==
  /\ created < MaxVersions
  /\ created' = created + 1
  /\ etag' = [etag EXCEPT ![created + 1] = Fresh]
  /\ count' = [count EXCEPT ![created + 1] = 0]
  /\ UNCHANGED <<deleted, rows, requestVars, clientVars, stale, under>>

(* Faulty variant: the keys are deleted by nobody. *)
DeleteVersionOnly(r, v) ==
  /\ phase[r] = "new" /\ v \in Live
  /\ deleted' = deleted \cup {v}
  /\ under' = under \cup {p \in Puts : version[p] = v /\ phase[p] = "storing"}
  /\ phase' = [phase EXCEPT ![r] = "answered"]
  /\ version' = [version EXCEPT ![r] = v]
  /\ UNCHANGED <<created, etag, count, rows, todo, tally, clientVars, stale>>

(* DELETE /room_keys/version/:version: the row is marked first; a version that is
   not live is answered with 404. *)
DeleteVersion(r, v) ==
  /\ phase[r] = "new" /\ v \in Live
  /\ deleted' = deleted \cup {v}
  /\ under' = under \cup {p \in Puts : version[p] = v /\ phase[p] = "storing"}
  /\ phase' = [phase EXCEPT ![r] = "emptying"]
  /\ version' = [version EXCEPT ![r] = v]
  /\ UNCHANGED <<created, etag, count, rows, todo, tally, clientVars, stale>>

(* Then its keys are deleted. *)
EmptyVersion(r) ==
  /\ phase[r] = "emptying"
  /\ ChangeRows(version[r], NoRows)
  /\ phase' = [phase EXCEPT ![r] = "answered"]
  /\ UNCHANGED <<created, deleted, etag, count, version, todo, tally, clientVars, under>>

-----------------------------------------------------------------------------
(* PUT /room_keys/keys, /keys/:roomId and /keys/:roomId/:sessionId *)

(* Faulty variant: the version is not looked up. *)
CheckNothing(p, v, batch) ==
  /\ phase[p] = "new"
  /\ phase' = [phase EXCEPT ![p] = "storing"]
  /\ version' = [version EXCEPT ![p] = v]
  /\ todo' = [todo EXCEPT ![p] = batch]
  /\ UNCHANGED <<tableVars, tally, clientVars, stale, under>>

(* The version has to be live. *)
CheckVersion(p, v, batch) ==
  /\ phase[p] = "new" /\ v \in Live
  /\ phase' = [phase EXCEPT ![p] = "storing"]
  /\ version' = [version EXCEPT ![p] = v]
  /\ todo' = [todo EXCEPT ![p] = batch]
  /\ UNCHANGED <<tableVars, tally, clientVars, stale, under>>

(* INSERT ... ON CONFLICT DO UPDATE, session after session. *)
StoreSession(p, s) ==
  /\ phase[p] = "storing" /\ s \in todo[p]
  /\ ChangeRows(version[p], [rows[version[p]] EXCEPT ![s] = p])
  /\ todo' = [todo EXCEPT ![p] = @ \ {s}]
  /\ UNCHANGED <<created, deleted, etag, count, phase, version, tally, clientVars, under>>

(* SELECT COUNT, when all are stored. *)
CountRows(r) ==
  /\ phase[r] = "counting" \/ (phase[r] = "storing" /\ todo[r] = {})
  /\ tally' = [tally EXCEPT ![r] = Cardinality(Stored(version[r]))]
  /\ phase' = [phase EXCEPT ![r] = "updating"]
  /\ UNCHANGED <<tableVars, version, todo, clientVars, stale, under>>

(* Faulty variant: the etag changes with the count. *)
UpdateVersionIfCounted(r) ==
  /\ phase[r] = "updating"
  /\ count' = [count EXCEPT ![version[r]] = tally[r]]
  /\ etag' = IF count[version[r]] = tally[r] THEN etag ELSE [etag EXCEPT ![version[r]] = r]
  /\ tally' = [tally EXCEPT ![r] = 0]
  /\ phase' = [phase EXCEPT ![r] = "answered"]
  /\ UNCHANGED <<created, deleted, rows, version, todo, clientVars, stale, under>>

(* UPDATE of count and etag, of a deleted version too, and the answer. *)
UpdateVersion(r) ==
  /\ phase[r] = "updating"
  /\ count' = [count EXCEPT ![version[r]] = tally[r]]
  /\ etag' = [etag EXCEPT ![version[r]] = r]
  /\ tally' = [tally EXCEPT ![r] = 0]
  /\ phase' = [phase EXCEPT ![r] = "answered"]
  /\ UNCHANGED <<created, deleted, rows, version, todo, clientVars, stale, under>>

-----------------------------------------------------------------------------
(* DELETE /room_keys/keys, /keys/:roomId and /keys/:roomId/:sessionId *)

(* All sessions of a version, live or not; the count is known to be 0. *)
DeleteAllKeys(d, v) ==
  /\ phase[d] = "new" /\ v \in 1..created
  /\ ChangeRows(v, NoRows)
  /\ phase' = [phase EXCEPT ![d] = "updating"]
  /\ version' = [version EXCEPT ![d] = v]
  /\ UNCHANGED <<created, deleted, etag, count, todo, tally, clientVars, under>>

(* Faulty variant: written like the deletion of all. *)
DeleteKeysUncounted(d, v, batch) ==
  /\ phase[d] = "new" /\ v \in 1..created
  /\ ChangeRows(v, [s \in Sessions |-> IF s \in batch THEN NoData ELSE rows[v][s]])
  /\ phase' = [phase EXCEPT ![d] = "updating"]
  /\ version' = [version EXCEPT ![d] = v]
  /\ UNCHANGED <<created, deleted, etag, count, todo, tally, clientVars, under>>

(* The sessions of a room, or one. *)
DeleteKeys(d, v, batch) ==
  /\ phase[d] = "new" /\ v \in 1..created
  /\ ChangeRows(v, [s \in Sessions |-> IF s \in batch THEN NoData ELSE rows[v][s]])
  /\ phase' = [phase EXCEPT ![d] = "counting"]
  /\ version' = [version EXCEPT ![d] = v]
  /\ UNCHANGED <<created, deleted, etag, count, todo, tally, clientVars, under>>

(* The worker stops between two steps, or at a session D1 refuses: the bodies are
   not validated. *)
Stop(r) ==
  /\ phase[r] \in {"storing", "counting", "updating", "emptying"}
  /\ Cardinality({q \in Requests : phase[q] = "stopped"}) < MaxStops
  /\ phase' = [phase EXCEPT ![r] = "stopped"]
  /\ todo' = [todo EXCEPT ![r] = {}] /\ tally' = [tally EXCEPT ![r] = 0]
  /\ UNCHANGED <<tableVars, version, clientVars, stale, under>>

-----------------------------------------------------------------------------
(* A client, which downloads the keys when the etag is not the one it has *)

(* GET /room_keys/version: the newest live version. *)
ReadVersion(c, v) ==
  /\ client[c] = "idle" /\ v \in Live /\ \A w \in Live : w <= v
  /\ <<backup[c], seen[c]>> # <<v, etag[v]>>
  /\ backup' = [backup EXCEPT ![c] = v]
  /\ seen' = [seen EXCEPT ![c] = etag[v]]
  /\ client' = [client EXCEPT ![c] = "asking"]
  /\ UNCHANGED <<tableVars, requestVars, copy, stale, under>>

(* GET /room_keys/keys: the version has to be live, or the client starts again. *)
AskKeys(c) ==
  /\ client[c] = "asking"
  /\ IF backup[c] \in Live
     THEN client' = [client EXCEPT ![c] = "reading"] /\ UNCHANGED backup
     ELSE client' = [client EXCEPT ![c] = "idle"] /\ backup' = [backup EXCEPT ![c] = 0]
  /\ UNCHANGED <<tableVars, requestVars, seen, copy, stale, under>>

(* Then its rows are read. *)
ReadKeys(c) ==
  /\ client[c] = "reading"
  /\ copy' = [copy EXCEPT ![c] = rows[backup[c]]]
  /\ client' = [client EXCEPT ![c] = "idle"]
  /\ UNCHANGED <<tableVars, requestVars, backup, seen, stale, under>>

-----------------------------------------------------------------------------
Init ==
  /\ created = 0 /\ deleted = {}
  /\ etag = [v \in Versions |-> Fresh]
  /\ count = [v \in Versions |-> 0]
  /\ rows = [v \in Versions |-> NoRows]
  /\ phase = [r \in Requests |-> "new"]
  /\ version = [r \in Requests |-> 0]
  /\ todo = [r \in Requests |-> {}]
  /\ tally = [r \in Requests |-> 0]
  /\ client = [c \in Clients |-> "idle"]
  /\ backup = [c \in Clients |-> 0]
  /\ seen = [c \in Clients |-> Fresh]
  /\ copy = [c \in Clients |-> NoRows]
  /\ stale = {} /\ under = {}

RoomSessions(room) == {s \in Sessions : s[1] = room}

PutStep(p) ==
  \/ \E v \in Versions, batch \in SUBSET Sessions : CheckVersion(p, v, batch)
  \/ \E s \in Sessions : StoreSession(p, s)

DeleteStep(d) ==
  \/ \E v \in Versions : DeleteAllKeys(d, v)
  \/ \E v \in Versions, room \in Rooms : DeleteKeys(d, v, RoomSessions(room))
  \/ \E v \in Versions, s \in Sessions : DeleteKeys(d, v, {s})

ClientStep(c) == (\E v \in Versions : ReadVersion(c, v)) \/ AskKeys(c) \/ ReadKeys(c)

Next ==
  \/ CreateVersion
  \/ \E r \in Removals : (\E v \in Versions : DeleteVersion(r, v)) \/ EmptyVersion(r)
  \/ \E p \in Puts : PutStep(p)
  \/ \E d \in Deletes : DeleteStep(d)
  \/ \E r \in Writers : CountRows(r) \/ UpdateVersion(r)
  \/ \E r \in Requests : Stop(r)
  \/ \E c \in Clients : ClientStep(c)

Spec == Init /\ [][Next]_vars

-----------------------------------------------------------------------------
(* Properties *)

Backups == [Sessions -> Puts \cup {NoData}]

(* Every variable holds a value of its type. *)
TypeOK ==
  /\ created \in 0..MaxVersions /\ deleted \subseteq 1..created
  /\ etag \in [Versions -> Writers \cup {Fresh}]
  /\ count \in [Versions -> Nat]
  /\ rows \in [Versions -> Backups]
  /\ phase \in [Requests -> {"new", "storing", "counting", "updating", "emptying", "answered",
                             "stopped"}]
  /\ version \in [Requests -> 0..created]
  /\ todo \in [Requests -> SUBSET Sessions]
  /\ tally \in [Requests -> Nat]
  /\ client \in [Clients -> {"idle", "asking", "reading"}]
  /\ backup \in [Clients -> 0..created]
  /\ seen \in [Clients -> Writers \cup {Fresh}]
  /\ copy \in [Clients -> Backups]
  /\ stale \subseteq Versions /\ under \subseteq Puts

(* Requests on the version that are under way, or stopped half-way. *)
Open(v) == {r \in Requests : version[r] = v /\ phase[r] \notin {"new", "answered"}}

(* "etag -- For conflict detection" (the table's comment): when no request on a
   live version is open, a client whose etag is the version's has the version's
   keys, however requests overlapped. *)
EtagTells ==
  \A c \in Clients :
    LET v == backup[c]
    IN  (client[c] = "idle" /\ v \in Live /\ Open(v) = {} /\ seen[c] = etag[v]) => copy[c] = rows[v]

(* "count -- Number of keys in backup": so it is when no request on the version is
   open, unless the sessions changed between a request's COUNT and its UPDATE. *)
CountIsRows ==
  \A v \in Live : Open(v) = {} /\ v \notin stale => count[v] = Cardinality(Stored(v))

(* A deleted version keeps no keys ("Also delete all keys for this version") but
   those of uploads that were under way, unless a request on it is open. *)
DeletedVersionsEmpty ==
  \A v \in deleted :
    (\A r \in Open(v) : r \notin Removals) => \A s \in Stored(v) : rows[v][s] \in under
=============================================================================
