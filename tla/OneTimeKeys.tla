----------------------------- MODULE OneTimeKeys -----------------------------
(***************************************************************************)
(* The one-time keys and the fallback key of one device, of one algorithm: *)
(* POST /keys/upload and /keys/claim (api/keys.ts) and the claim of remote *)
(* servers (api/federation.ts), which is the same code.                    *)
(*                                                                         *)
(* The keys are kept twice: as one KV value that requests read, change and *)
(* write back, and as rows in D1.  Claims are served from the KV value     *)
(* first and from D1 when it has no unclaimed key.  Every KV operation and *)
(* every D1 statement is a step of its own.  A KV read may still return an *)
(* earlier value.  Which of several unclaimed keys comes first in the KV   *)
(* array or the table is left open.                                        *)
(***************************************************************************)
EXTENDS Naturals, FiniteSets

CONSTANTS
  Keys,         \* one-time keys
  Fallbacks,    \* fallback keys
  None,         \* no key
  Uploads,      \* POST /keys/upload requests, retries included
  KeysOf,       \* the one-time keys of every upload
  FallbackOf,   \* its fallback key, or None
  Claims,       \* claims of a key of this device, local and remote
  MaxStops,     \* bound: requests whose worker stops half-way
  MaxStale      \* bound: KV reads that return an earlier value

ASSUME ConstantsAssumption ==
  /\ Keys \cap Fallbacks = {}
  /\ None \notin Keys \cup Fallbacks
  /\ Uploads \cap Claims = {}
  /\ KeysOf \in [Uploads -> SUBSET Keys]
  /\ FallbackOf \in [Uploads -> Fallbacks \cup {None}]
  /\ MaxStops \in Nat /\ MaxStale \in Nat

Requests == Uploads \cup Claims

VARIABLES
  kv,        \* otk:<user>:<device>: absent, free (unclaimed) or claimed, of every key
  old,       \* earlier values of kv
  d1,        \* the rows of one_time_keys, likewise
  fallback,  \* fallback_keys: the row's key (None before) and whether it is used
  phase,     \* where every request is
  copy,      \* the KV value it read, with its own changes
  todo,      \* keys an upload has still to insert
  chosen,    \* the key a claim takes
  taken,     \* keys some claim chose (history)
  again,     \* keys uploaded again after some claim chose them (history)
  owed,      \* per claim: keys of answered uploads that no claim had chosen when it began (history)
  met,       \* requests that overlapped another (history)
  refreshed, \* claims whose fallback row was uploaded since they read it (history)
  stops, stale

storeVars == <<kv, old, d1, fallback>>
requestVars == <<phase, copy, todo, chosen>>
historyVars == <<taken, again, owed, met, refreshed>>
vars == <<storeVars, requestVars, historyVars, stops, stale>>

-----------------------------------------------------------------------------
Free(store) == {k \in Keys : store[k] = "free"}

Active == {r \in Requests : phase[r] \notin {"new", "answered", "stopped"}}

(* A request arrives, and meets those in progress. *)
Begin(r) ==
  /\ phase[r] = "new"
  /\ met' = IF Active = {} THEN met ELSE met \cup Active \cup {r}

(* ONE_TIME_KEYS.get *)
Get(r) ==
  \/ copy' = [copy EXCEPT ![r] = kv] /\ UNCHANGED stale
  \/ /\ stale < MaxStale /\ old \ {kv} # {}
     /\ stale' = stale + 1
     /\ \E value \in old \ {kv} : copy' = [copy EXCEPT ![r] = value]

(* ONE_TIME_KEYS.put *)
Put(value) == kv' = value /\ old' = old \cup {kv}

NoCopy == [k \in Keys |-> "absent"]

(* A request has used its copy for the last time. *)
Forget(r) == copy' = [copy EXCEPT ![r] = NoCopy]

-----------------------------------------------------------------------------
(* POST /keys/upload *)

UploadGet(u) ==
  /\ Begin(u)
  /\ Get(u)
  /\ phase' = [phase EXCEPT ![u] = "inserting"]
  /\ todo' = [todo EXCEPT ![u] = KeysOf[u]]
  /\ UNCHANGED <<storeVars, chosen, taken, again, owed, refreshed, stops>>

(* Faulty variant: the key goes to the KV value alone. *)
UploadInsertKvOnly(u, k) ==
  /\ phase[u] = "inserting" /\ k \in todo[u]
  /\ todo' = [todo EXCEPT ![u] = @ \ {k}]
  /\ copy' = [copy EXCEPT ![u][k] = "free"]
  /\ UNCHANGED d1
  /\ again' = IF k \in taken THEN again \cup {k} ELSE again
  /\ UNCHANGED <<kv, old, fallback, phase, chosen, taken, owed, met, refreshed, stops, stale>>

(* One key: unclaimed in the copy, also when it was claimed; a row in D1 keeps
   its claimed flag. *)
UploadInsert(u, k) ==
  /\ phase[u] = "inserting" /\ k \in todo[u]
  /\ todo' = [todo EXCEPT ![u] = @ \ {k}]
  /\ copy' = [copy EXCEPT ![u][k] = "free"]
  /\ d1' = IF d1[k] = "absent" THEN [d1 EXCEPT ![k] = "free"] ELSE d1
  /\ again' = IF k \in taken THEN again \cup {k} ELSE again
  /\ UNCHANGED <<kv, old, fallback, phase, chosen, taken, owed, met, refreshed, stops, stale>>

(* The whole KV value is written back; the response counts its free keys. *)
UploadPut(u) ==
  /\ phase[u] = "inserting" /\ todo[u] = {}
  /\ Put(copy[u])
  /\ again' = again \cup (KeysOf[u] \cap taken)
  /\ phase' = [phase EXCEPT ![u] = IF FallbackOf[u] = None THEN "answered" ELSE "fallback"]
  /\ Forget(u)
  /\ UNCHANGED <<d1, fallback, todo, chosen, taken, owed, met, refreshed, stops, stale>>

(* The fallback key replaces the row and is unused. *)
UploadFallback(u) ==
  /\ phase[u] = "fallback"
  /\ fallback' = [key |-> FallbackOf[u], used |-> FALSE]
  /\ refreshed' = refreshed \cup {c \in Claims : chosen[c] = FallbackOf[u]}
  /\ phase' = [phase EXCEPT ![u] = "answered"]
  /\ UNCHANGED <<kv, old, d1, copy, todo, chosen, taken, again, owed, met, stops, stale>>

-----------------------------------------------------------------------------
(* POST /keys/claim, of clients and of remote servers *)

(* Keys of answered uploads that no claim has chosen. *)
Untaken == UNION {KeysOf[u] : u \in {v \in Uploads : phase[v] = "answered"}} \ taken

ClaimGet(c) ==
  /\ Begin(c)
  /\ Get(c)
  /\ owed' = [owed EXCEPT ![c] = Untaken]
  /\ phase' = [phase EXCEPT ![c] = "choosing"]
  /\ UNCHANGED <<storeVars, todo, chosen, taken, again, refreshed, stops>>

(* Faulty variant: the KV value is not written back. *)
ClaimWithoutPut(c) ==
  /\ phase[c] = "choosing"
  /\ \E k \in Free(copy[c]) :
       /\ chosen' = [chosen EXCEPT ![c] = k]
       /\ taken' = taken \cup {k}
  /\ UNCHANGED <<kv, old>>
  /\ phase' = [phase EXCEPT ![c] = "marking"]
  /\ Forget(c)
  /\ UNCHANGED <<d1, fallback, todo, again, owed, met, refreshed, stops, stale>>

(* An unclaimed key of the KV value is claimed there. *)
ClaimPut(c) ==
  /\ phase[c] = "choosing"
  /\ \E k \in Free(copy[c]) :
       /\ chosen' = [chosen EXCEPT ![c] = k]
       /\ taken' = taken \cup {k}
       /\ Put([copy[c] EXCEPT ![k] = "claimed"])
  /\ phase' = [phase EXCEPT ![c] = "marking"]
  /\ Forget(c)
  /\ UNCHANGED <<d1, fallback, todo, again, owed, met, refreshed, stops, stale>>

(* The chosen key's row is marked, and the key handed out. *)
ClaimMark(c) ==
  /\ phase[c] = "marking"
  /\ d1' = IF d1[chosen[c]] = "absent" THEN d1 ELSE [d1 EXCEPT ![chosen[c]] = "claimed"]
  /\ phase' = [phase EXCEPT ![c] = "answered"]
  /\ UNCHANGED <<kv, old, fallback, copy, todo, chosen, historyVars, stops, stale>>

(* No unclaimed key in the KV value: one of D1's. *)
ClaimSelect(c) ==
  /\ phase[c] = "choosing" /\ Free(copy[c]) = {}
  /\ IF Free(d1) = {}
       THEN /\ phase' = [phase EXCEPT ![c] = "exhausted"]
            /\ UNCHANGED <<chosen, taken>>
       ELSE /\ phase' = [phase EXCEPT ![c] = "marking"]
            /\ \E k \in Free(d1) :
                 chosen' = [chosen EXCEPT ![c] = k] /\ taken' = taken \cup {k}
  /\ Forget(c)
  /\ UNCHANGED <<storeVars, todo, again, owed, met, refreshed, stops, stale>>

(* Faulty variant: the fallback row is not checked for being there. *)
ClaimAnyFallback(c) ==
  /\ phase[c] = "exhausted"
  /\ chosen' = [chosen EXCEPT ![c] = fallback.key]
  /\ phase' = [phase EXCEPT ![c] = "using"]
  /\ UNCHANGED <<storeVars, copy, todo, historyVars, stops, stale>>

(* No one-time key at all: the fallback key, or no key. *)
ClaimFallback(c) ==
  /\ phase[c] = "exhausted"
  /\ chosen' = [chosen EXCEPT ![c] = fallback.key]
  /\ phase' = [phase EXCEPT ![c] = IF fallback.key = None THEN "answered" ELSE "using"]
  /\ UNCHANGED <<storeVars, copy, todo, historyVars, stops, stale>>

(* Faulty variant: the fallback key is handed out unmarked. *)
ClaimFallbackUnmarked(c) ==
  /\ phase[c] = "using"
  /\ phase' = [phase EXCEPT ![c] = "answered"]
  /\ UNCHANGED <<storeVars, copy, todo, chosen, historyVars, stops, stale>>

(* UPDATE fallback_keys SET used = 1, whichever key the row now holds. *)
ClaimUseFallback(c) ==
  /\ phase[c] = "using"
  /\ fallback' = [fallback EXCEPT !.used = TRUE]
  /\ phase' = [phase EXCEPT ![c] = "answered"]
  /\ UNCHANGED <<kv, old, d1, copy, todo, chosen, historyVars, stops, stale>>

(* The worker stops: the request is not answered. *)
Stop(r) ==
  /\ r \in Active /\ stops < MaxStops
  /\ stops' = stops + 1
  /\ phase' = [phase EXCEPT ![r] = "stopped"]
  /\ Forget(r)
  /\ todo' = [u \in Uploads |-> IF u = r THEN {} ELSE todo[u]]
  /\ UNCHANGED <<storeVars, chosen, historyVars, stale>>

-----------------------------------------------------------------------------
Init ==
  /\ kv = NoCopy /\ old = {}
  /\ d1 = NoCopy
  /\ fallback = [key |-> None, used |-> FALSE]
  /\ phase = [r \in Requests |-> "new"]
  /\ copy = [r \in Requests |-> NoCopy]
  /\ todo = [u \in Uploads |-> {}]
  /\ chosen = [c \in Claims |-> None]
  /\ taken = {} /\ again = {}
  /\ owed = [c \in Claims |-> {}]
  /\ met = {} /\ refreshed = {}
  /\ stops = 0 /\ stale = 0

UploadStep(u) ==
  \/ UploadGet(u)
  \/ \E k \in Keys : UploadInsert(u, k)
  \/ UploadPut(u)
  \/ UploadFallback(u)
  \/ Stop(u)

ClaimStep(c) ==
  \/ ClaimGet(c)
  \/ ClaimPut(c)
  \/ ClaimMark(c)
  \/ ClaimSelect(c)
  \/ ClaimFallback(c)
  \/ ClaimUseFallback(c)
  \/ Stop(c)

Next ==
  \/ \E u \in Uploads : UploadStep(u)
  \/ \E c \in Claims : ClaimStep(c)

Spec == Init /\ [][Next]_vars

-----------------------------------------------------------------------------
(* Properties *)

Stores == [Keys -> {"absent", "free", "claimed"}]

(* Every variable holds a value of its type. *)
TypeOK ==
  /\ kv \in Stores /\ d1 \in Stores /\ old \subseteq Stores
  /\ fallback \in [key : Fallbacks \cup {None}, used : BOOLEAN]
  /\ fallback.used => fallback.key # None
  /\ phase \in [Requests -> {"new", "inserting", "fallback", "choosing", "marking", "exhausted",
                             "using", "answered", "stopped"}]
  /\ copy \in [Requests -> Stores]
  /\ todo \in [Uploads -> SUBSET Keys]
  /\ chosen \in [Claims -> Keys \cup Fallbacks \cup {None}]
  /\ taken \subseteq Keys /\ again \subseteq Keys
  /\ owed \in [Claims -> SUBSET Keys]
  /\ met \subseteq Requests /\ refreshed \subseteq Claims
  /\ stops \in Nat /\ stale \in Nat

HandedOut(c, k) == phase[c] = "answered" /\ chosen[c] = k

(* Two claims are given the same one-time key only when one of them overlapped
   another request, a KV read was stale, or the device uploaded the key again
   after it was taken: stopped workers and the change from KV to D1 do not
   hand a key out twice. *)
ReuseExplained ==
  \A c, d \in Claims, k \in Keys :
    (c # d /\ HandedOut(c, k) /\ HandedOut(d, k))
      => {c, d} \cap met # {} \/ stale > 0 \/ k \in again

(* In every interleaving, with stale reads and stopped workers, a claim is
   answered with the fallback key, or without a key, only after every one-time
   key that answered uploads had left for it was taken: D1 keeps the keys that
   overlapping writes of the KV value lose. *)
FallbackIsLast ==
  \A c \in Claims :
    (phase[c] \in {"exhausted", "using", "answered"} /\ chosen[c] \notin Keys)
      => owed[c] \subseteq taken

(* /sync tells the device that its fallback key was used, once a claim was
   given it and the device did not upload it since. *)
FallbackUseTold ==
  \A c \in Claims \ refreshed :
    (phase[c] = "answered" /\ chosen[c] \in Fallbacks /\ fallback.key = chosen[c])
      => fallback.used

(* The count of one-time keys /sync gives, which is D1's, covers the keys that
   claims are served from, which are KV's, while requests do not overlap, KV is
   not stale and taken keys are not uploaded again, whichever worker stops. *)
SyncCountCoversKv ==
  (met = {} /\ stale = 0 /\ again = {} /\ Active = {}) => Free(kv) \subseteq Free(d1)
=============================================================================
