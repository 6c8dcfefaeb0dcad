----------------------------- MODULE DeviceKeys -----------------------------
(***************************************************************************)
(* The keys of one device of a user and how others learn of them: POST     *)
(* /keys/upload and /keys/signatures/upload (api/keys.ts), the owner's     *)
(* UserKeysDurableObject, the change rows, device_lists of GET /sync       *)
(* (api/sync.ts) and POST /keys/query.                                     *)
(*                                                                         *)
(* The durable object answers one request at a time, but an upload of      *)
(* signatures reads the keys with one request and writes them with         *)
(* another.  Every request to it and every D1 statement is a step.  The KV *)
(* copy, which only an admin export reads, and the EDUs of an upload (see  *)
(* FederationQueue) are left out.                                          *)
(***************************************************************************)
EXTENDS Naturals, FiniteSets

CONSTANTS
  Uploads,    \* uploads of the device's keys; each uploads keys of its own
  Signs,      \* uploads of one signature of the device's keys
  NoKeys,     \* no keys uploaded
  Clients,    \* clients of other users that share a room with the owner
  MaxEvents,  \* bound: events stored
  MaxStops    \* bound: requests whose worker stops half-way

ASSUME ConstantsAssumption ==
  /\ Uploads \cap Signs = {}
  /\ NoKeys \notin Uploads /\ IsFiniteSet(Uploads)
  /\ MaxEvents \in Nat /\ MaxStops \in Nat

Requests == Uploads \cup Signs

VARIABLES
  keys,        \* the durable object's device keys: whose upload, and the signatures in them
  signatures,  \* rows of cross_signing_signatures
  position,    \* stream_positions.position of 'device_keys'
  changes,     \* stream positions of the rows of device_key_changes
  phase,       \* where every request is
  copy,        \* the keys a signature upload has read
  at,          \* the position a request is to record
  latest,      \* MAX(stream_ordering) of the events table
  client,      \* where every client is
  since,       \* the events position of its token
  current,     \* the events position its sync will answer with
  known,       \* the keys it queried last
  rank,        \* the order in which uploads reached the durable object (history)
  crossed,     \* keys were uploaded between a signature upload's read and write (history)
  asked,       \* signatures whose upload was answered when a query began (history)
  unseen,      \* clients for which a change was recorded since they queried (history)
  stops

keyVars == <<keys, signatures, rank, crossed>>
changeVars == <<position, changes, unseen>>
requestVars == <<phase, copy, at>>
clientVars == <<latest, client, since, current, known, asked>>
vars == <<keyVars, changeVars, requestVars, clientVars, stops>>

Empty == [upload |-> NoKeys, signed |-> {}]

-----------------------------------------------------------------------------
(* POST /keys/upload *)

(* Faulty variant: the keys are written when the change was already recorded. *)
PutKeysLast(u) ==
  /\ \/ phase[u] = "new" /\ phase' = [phase EXCEPT ![u] = "changed"] /\ UNCHANGED keys
     \/ phase[u] = "answered" /\ keys = Empty /\ keys' = [Empty EXCEPT !.upload = u]
        /\ UNCHANGED phase
  /\ UNCHANGED <<signatures, rank, crossed, changeVars, copy, at, clientVars, stops>>

(* The durable object's put, which replaces keys and signatures. *)
PutKeys(u) ==
  /\ phase[u] = "new"
  /\ keys' = [Empty EXCEPT !.upload = u]
  /\ rank' = [rank EXCEPT ![u] = Cardinality({v \in Uploads : rank[v] > 0}) + 1]
  /\ crossed' = (crossed \/ \E s \in Signs : phase[s] = "merging")
  /\ phase' = [phase EXCEPT ![u] = "changed"]
  /\ UNCHANGED <<signatures, changeVars, copy, at, clientVars, stops>>

-----------------------------------------------------------------------------
(* POST /keys/signatures/upload *)

(* Faulty variant: signatures are kept in the keys alone. *)
StoreSignatureNowhere(s) ==
  /\ phase[s] = "new"
  /\ phase' = [phase EXCEPT ![s] = "stored"]
  /\ UNCHANGED <<keyVars, changeVars, copy, at, clientVars, stops>>

(* INSERT INTO cross_signing_signatures. *)
StoreSignature(s) ==
  /\ phase[s] = "new"
  /\ signatures' = signatures \cup {s}
  /\ phase' = [phase EXCEPT ![s] = "stored"]
  /\ UNCHANGED <<keys, rank, crossed, changeVars, copy, at, clientVars, stops>>

(* Faulty variant: missing keys are merged into as well. *)
ReadAnyKeys(s) ==
  /\ phase[s] = "stored"
  /\ copy' = [copy EXCEPT ![s] = keys]
  /\ phase' = [phase EXCEPT ![s] = "merging"]
  /\ UNCHANGED <<keyVars, changeVars, at, clientVars, stops>>

(* The keys are read; without keys there is nothing to merge into. *)
ReadKeys(s) ==
  /\ phase[s] = "stored"
  /\ copy' = [copy EXCEPT ![s] = keys]
  /\ phase' = [phase EXCEPT ![s] = IF keys = Empty THEN "changed" ELSE "merging"]
  /\ UNCHANGED <<keyVars, changeVars, at, clientVars, stops>>

(* Faulty variant: the keys the signer sent are written, of whatever age. *)
PutSent(s) ==
  /\ phase[s] = "merging"
  /\ \E u \in {v \in Uploads : rank[v] > 0} : keys' = [upload |-> u, signed |-> {s}]
  /\ phase' = [phase EXCEPT ![s] = "changed"]
  /\ copy' = [copy EXCEPT ![s] = Empty]
  /\ UNCHANGED <<signatures, rank, crossed, changeVars, at, clientVars, stops>>

(* What was read is written back with the signature. *)
PutMerged(s) ==
  /\ phase[s] = "merging"
  /\ keys' = [copy[s] EXCEPT !.signed = @ \cup {s}]
  /\ phase' = [phase EXCEPT ![s] = "changed"]
  /\ copy' = [copy EXCEPT ![s] = Empty]
  /\ UNCHANGED <<signatures, rank, crossed, changeVars, at, clientVars, stops>>

-----------------------------------------------------------------------------
(* recordKeyChange, with which both end *)

(* UPDATE stream_positions. *)
Bump(r) ==
  /\ phase[r] = "changed"
  /\ position' = position + 1
  /\ phase' = [phase EXCEPT ![r] = "bumped"]
  /\ UNCHANGED <<keyVars, changes, unseen, copy, at, clientVars, stops>>

(* SELECT position: possibly that of a later bump. *)
ReadPosition(r) ==
  /\ phase[r] = "bumped"
  /\ at' = [at EXCEPT ![r] = position]
  /\ phase' = [phase EXCEPT ![r] = "recording"]
  /\ UNCHANGED <<keyVars, changeVars, copy, clientVars, stops>>

(* INSERT INTO device_key_changes, and the answer. *)
RecordChange(r) ==
  /\ phase[r] = "recording"
  /\ changes' = changes \cup {at[r]}
  /\ at' = [at EXCEPT ![r] = 0]
  /\ unseen' = Clients
  /\ phase' = [phase EXCEPT ![r] = "answered"]
  /\ UNCHANGED <<keyVars, position, copy, clientVars, stops>>

(* The worker stops between two steps. *)
Stop(r) ==
  /\ phase[r] \notin {"new", "answered", "stopped"} /\ stops < MaxStops
  /\ stops' = stops + 1
  /\ phase' = [phase EXCEPT ![r] = "stopped"]
  /\ copy' = [copy EXCEPT ![r] = Empty] /\ at' = [at EXCEPT ![r] = 0]
  /\ UNCHANGED <<keyVars, changeVars, clientVars>>

-----------------------------------------------------------------------------
(* GET /sync and POST /keys/query *)

(* storeEvent, of any room. *)
StoreEvent ==
  /\ latest < MaxEvents
  /\ latest' = latest + 1
  /\ UNCHANGED <<keyVars, changeVars, requestVars, client, since, current, known, asked, stops>>

(* getLatestStreamPosition: of the events. *)
SyncStart(c) ==
  /\ client[c] = "idle"
  /\ current' = [current EXCEPT ![c] = latest]
  /\ client' = [client EXCEPT ![c] = "listing"]
  /\ UNCHANGED <<keyVars, changeVars, requestVars, latest, since, known, asked, stops>>

(* getDeviceListChanges: rows above the token's events position.  After a sync
   without a token, which lists no other user, a client queries them all. *)
ListChanges(c) ==
  LET told == since[c] = 0 \/ \E p \in changes : p > since[c]
  IN  /\ client[c] = "listing"
      /\ client' = [client EXCEPT ![c] = IF told THEN "told" ELSE "idle"]
      /\ since' = [since EXCEPT ![c] = current[c]]
      /\ UNCHANGED <<keyVars, position, changes, unseen, requestVars, latest, current, known,
                     asked, stops>>

(* The query reads the durable object. *)
QueryKeys(c) ==
  /\ client[c] = "told"
  /\ known' = [known EXCEPT ![c] = keys]
  /\ asked' = [asked EXCEPT ![c] = {s \in Signs : phase[s] = "answered"}]
  /\ unseen' = unseen \ {c}
  /\ client' = [client EXCEPT ![c] = "merging"]
  /\ UNCHANGED <<keyVars, position, changes, requestVars, latest, since, current, stops>>

(* mergeSignaturesForDevice: signatures D1 has are added to the keys it found. *)
QuerySignatures(c) ==
  /\ client[c] = "merging"
  /\ known' = IF known[c] = Empty THEN known
              ELSE [known EXCEPT ![c].signed = @ \cup signatures]
  /\ client' = [client EXCEPT ![c] = "idle"]
  /\ UNCHANGED <<keyVars, changeVars, requestVars, latest, since, current, asked, stops>>

-----------------------------------------------------------------------------
Init ==
  /\ keys = Empty /\ signatures = {}
  /\ rank = [u \in Uploads |-> 0] /\ crossed = FALSE
  /\ position = 0 /\ changes = {}
  /\ unseen = {}
  /\ phase = [r \in Requests |-> "new"]
  /\ copy = [s \in Requests |-> Empty]
  /\ at = [r \in Requests |-> 0]
  /\ latest = 0
  /\ client = [c \in Clients |-> "idle"]
  /\ since = [c \in Clients |-> 0]
  /\ current = [c \in Clients |-> 0]
  /\ known = [c \in Clients |-> Empty]
  /\ asked = [c \in Clients |-> {}]
  /\ stops = 0

RequestStep ==
  \/ \E u \in Uploads : PutKeys(u)
  \/ \E s \in Signs : StoreSignature(s) \/ ReadKeys(s) \/ PutMerged(s)
  \/ \E r \in Requests : Bump(r) \/ ReadPosition(r) \/ RecordChange(r) \/ Stop(r)

ClientStep(c) ==
  \/ SyncStart(c)
  \/ ListChanges(c)
  \/ QueryKeys(c)
  \/ QuerySignatures(c)

Next ==
  \/ RequestStep
  \/ StoreEvent
  \/ \E c \in Clients : ClientStep(c)

Spec == Init /\ [][Next]_vars

-----------------------------------------------------------------------------
(* Properties *)

DeviceKeys == [upload : Uploads \cup {NoKeys}, signed : SUBSET Signs]

(* Every variable holds a value of its type; there are no signatures of keys
   that were not uploaded. *)
TypeOK ==
  /\ keys \in DeviceKeys /\ (keys.upload = NoKeys => keys = Empty)
  /\ signatures \subseteq Signs
  /\ rank \in [Uploads -> Nat] /\ crossed \in BOOLEAN
  /\ position \in Nat /\ changes \subseteq Nat
  /\ unseen \subseteq Clients
  /\ phase \in [Requests -> {"new", "stored", "merging", "changed", "bumped", "recording",
                             "answered", "stopped"}]
  /\ copy \in [Requests -> DeviceKeys]
  /\ at \in [Requests -> Nat]
  /\ latest \in Nat /\ since \in [Clients -> Nat] /\ current \in [Clients -> Nat]
  /\ client \in [Clients -> {"idle", "listing", "told", "merging"}]
  /\ known \in [Clients -> DeviceKeys]
  /\ asked \in [Clients -> SUBSET Signs]
  /\ stops \in Nat

(* Whatever overlaps or stops, a query returns every signature whose upload was
   answered before: D1 keeps those that overlapping writes of the durable
   object lose, and those that arrived before the keys. *)
SignaturesSurvive ==
  \A c \in Clients :
    (client[c] # "merging" /\ known[c] # Empty) => asked[c] \subseteq known[c].signed

(* A client that holds other keys than the durable object has a change recorded
   since it queried, or a request about to record one, unless a worker stopped:
   keys never change behind the change rows. *)
ChangesRecorded ==
  \A c \in Clients :
    (known[c].upload # keys.upload /\ stops = 0)
      => c \in unseen \/ \E r \in Requests : phase[r] \in {"changed", "bumped", "recording"}

Rank(k) == IF k.upload = NoKeys THEN 0 ELSE rank[k.upload]

(* The keys a client knows are never replaced by an older upload, unless keys were
   uploaded between the read and the write of a signature upload. *)
KnownNeverGoesBack ==
  [][\A c \in Clients : Rank(known'[c]) >= Rank(known[c]) \/ crossed]_vars
=============================================================================
