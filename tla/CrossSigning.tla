---------------------------- MODULE CrossSigning ----------------------------
(***************************************************************************)
(* A user's cross-signing keys: their upload, which asks for consent when  *)
(* keys are there (api/keys.ts), the sessions in KV by which the consent   *)
(* is given (api/keys.ts, api/oauth.ts), and the identity reset            *)
(* (api/oidc-auth.ts).                                                     *)
(*                                                                         *)
(* The keys are kept twice: in the user's object, which other users are    *)
(* given, and in D1, which tells the next upload whether keys are there.   *)
(* The copy in KV, which nothing reads, and the signatures and the number  *)
(* of a change, which DeviceKeys has, are left out.  A key is named for    *)
(* the request that uploaded it; 0 is no key.                              *)
(***************************************************************************)
EXTENDS Naturals, Sequences

CONSTANTS
  Requests,    \* numbers above 1, in the order they arrive
  Payloads,    \* sets of key types that one upload may hold
  MaxFaults    \* bound: requests that end half-way, sessions that lapse, stale reads of KV

VARIABLES
  object,      \* the keys in UserKeysDurableObject
  rows,        \* cross_signing_keys in D1
  told,        \* the master key at the time of the last row of device_key_changes
  sessions,    \* uia_session:... in KV: "none", "open" or "approved"
  before,      \* what a session was before its last change, which KV may still give
  req,
  served,      \* the uploads each session let through (history)
  cancelled, agreed,                  \* sessions that were cancelled, and approved (history)
  raced,       \* sessions held by two requests at once, or read as they had been (history)
  met, metReset, stale, stopped, unasked,     \* what has happened to the keys (history)
  faults

crossVars == <<object, rows, told, sessions, before, req, served, cancelled, agreed, raced, met, metReset, stale,
               stopped, unasked, faults>>

KeyTypes == {"master", "self_signing", "user_signing"}
NoneUploaded == [k \in KeyTypes |-> 0]

(* Session 1 is there in the beginning, if any is. *)
Sessions == {1} \cup Requests
NoSession == 0

Idle == [op |-> "none", todo |-> <<>>, keys |-> {}, seen |-> NoneUploaded, session |-> NoSession,
         stage |-> "none"]
Done == [Idle EXCEPT !.op = "done"]                     \* it answers with its last statement

(* The handler after the user has agreed: the object is read and written, then the rows, by type; the change is
   recorded with the master key only. *)
RowsOf(keys) ==
  (IF "master" \in keys THEN <<"master", "record">> ELSE <<>>) \o
  (IF "self_signing" \in keys THEN <<"self_signing">> ELSE <<>>) \o
  (IF "user_signing" \in keys THEN <<"user_signing">> ELSE <<>>)
Storing(keys) == <<"getObject", "putObject">> \o RowsOf(keys)

(* Faulty variant: the others are told first. *)
ResetToldFirst == <<"record", "deleteObject", "deleteRows">>

Reset == <<"deleteObject", "deleteRows", "record">>

-----------------------------------------------------------------------------
Begun(q) == req[q].op # "none"
IsOpen(q) == req[q].todo # <<>>
Writes(q) == IsOpen(q) /\ req[q].op \in {"upload", "reset"}

Open(q, r) ==
  /\ ~Begun(q) /\ \A p \in Requests : p < q => Begun(p)
  /\ req' = [req EXCEPT ![q] = r]
  /\ LET others == {p \in Requests : Writes(p)} writes == r.op \in {"upload", "reset"} IN
     /\ met' = (met \/ (writes /\ others # {}))
     /\ metReset' = (metReset \/ (writes /\ \E p \in others : "reset" \in {r.op, req[p].op}))
  /\ UNCHANGED <<object, rows, told, sessions, before, served, cancelled, agreed, raced, stale, stopped, unasked,
                 faults>>

(* The upload counts the user's rows.  With none there is nothing to agree to ... *)
OpenFirst(q, keys) ==
  /\ rows = NoneUploaded
  /\ Open(q, [Idle EXCEPT !.op = "upload", !.todo = Storing(keys), !.keys = keys, !.stage = "first"])

(* ... else an upload without auth gets a session to agree in, one with the password goes on, and one with a
   session goes on if that was approved. *)
OpenChallenge(q) ==
  /\ rows # NoneUploaded
  /\ Open(q, [Idle EXCEPT !.op = "challenge", !.todo = <<"putSession">>])

OpenWithPassword(q, keys) ==
  /\ rows # NoneUploaded
  /\ Open(q, [Idle EXCEPT !.op = "upload", !.todo = Storing(keys), !.keys = keys, !.stage = "password"])

OpenWithSession(q, keys, s) ==
  /\ rows # NoneUploaded
  /\ Open(q, [Idle EXCEPT !.op = "upload", !.todo = <<"getSession", "useSession">> \o Storing(keys), !.keys = keys,
                          !.session = s])

(* Requests about a session, which read it and write it back: the redirect to the identity provider, the ways to
   approve, and the cancellation. *)
SsoRedirect(q, s) ==
  Open(q, [Idle EXCEPT !.op = "redirect", !.todo = <<"getSession", "writeSession">>, !.session = s])
Approve(q, s) ==
  Open(q, [Idle EXCEPT !.op = "approve", !.todo = <<"getSession", "writeSession">>, !.session = s])
SsoCallback(q, s) == Approve(q, s)
SubmitToken(q, s) == Approve(q, s)
Cancel(q, s) ==
  Open(q, [Idle EXCEPT !.op = "cancel", !.todo = <<"getSession", "dropSession">>, !.session = s])

OpenReset(q) == Open(q, [Idle EXCEPT !.op = "reset", !.todo = Reset])

-----------------------------------------------------------------------------
At(q, statement) == IsOpen(q) /\ Head(req[q].todo) = statement
Goes(q, r) == req' = [req EXCEPT ![q] = IF Len(r.todo) = 1 THEN Done ELSE [r EXCEPT !.todo = Tail(@)]]
Ran(q) == Goes(q, req[q])

KeepKeys == UNCHANGED <<object, rows, told, met, metReset, stale, stopped, unasked>>
KeepSessions == UNCHANGED <<sessions, before, served, cancelled, agreed, raced>>

SetSession(s, stage) ==
  /\ sessions' = [sessions EXCEPT ![s] = stage]
  /\ before' = [before EXCEPT ![s] = IF sessions[s] = stage THEN @ ELSE sessions[s]]

(* The 401 with the flows and the new session. *)
PutSession(q) ==
  /\ At(q, "putSession") /\ Ran(q)
  /\ SetSession(q, "open")
  /\ KeepKeys /\ UNCHANGED <<served, cancelled, agreed, raced, faults>>

Holds(q, s) == IsOpen(q) /\ req[q].session = s /\ req[q].stage # "none"

(* A session that is not there, or not approved for an upload, ends the request; KV may give what it was. *)
GetSession(q) ==
  LET s == req[q].session IN
  /\ At(q, "getSession")
  /\ \E stage \in {sessions[s], before[s]} :
       LET refused == IF req[q].op = "upload" THEN stage # "approved" ELSE stage = "none"
           late == stage # sessions[s] IN
       /\ late => faults < MaxFaults
       /\ faults' = IF late THEN faults + 1 ELSE faults
       /\ IF refused THEN req' = [req EXCEPT ![q] = Done] ELSE Goes(q, [req[q] EXCEPT !.stage = stage])
       /\ raced' = IF ~refused /\ (late \/ \E p \in Requests \ {q} : Holds(p, s)) THEN raced \cup {s} ELSE raced
  /\ KeepKeys /\ UNCHANGED <<sessions, before, served, cancelled, agreed>>

(* The approved session has served. *)
UseSession(q) ==
  /\ At(q, "useSession") /\ Ran(q)
  /\ SetSession(req[q].session, "none")
  /\ served' = [served EXCEPT ![req[q].session] = @ \cup {q}]
  /\ KeepKeys /\ UNCHANGED <<cancelled, agreed, raced, faults>>

(* The session is put back as it was read, with the stage that was completed. *)
WriteSession(q) ==
  LET s == req[q].session approves == req[q].op = "approve" IN
  /\ At(q, "writeSession") /\ Ran(q)
  /\ SetSession(s, IF approves THEN "approved" ELSE req[q].stage)
  /\ agreed' = IF approves THEN agreed \cup {s} ELSE agreed
  /\ KeepKeys /\ UNCHANGED <<served, cancelled, raced, faults>>

DropSession(q) ==
  /\ At(q, "dropSession") /\ Ran(q)
  /\ SetSession(req[q].session, "none")
  /\ cancelled' = cancelled \cup {req[q].session}
  /\ KeepKeys /\ UNCHANGED <<served, agreed, raced, faults>>

-----------------------------------------------------------------------------
GetObject(q) ==
  /\ At(q, "getObject")
  /\ Goes(q, [req[q] EXCEPT !.seen = object])
  /\ KeepKeys /\ KeepSessions /\ UNCHANGED faults

(* The new keys over those read, and in the object those over what is there. *)
Merged(q) ==
  [k \in KeyTypes |-> IF k \in req[q].keys THEN q ELSE IF req[q].seen[k] # 0 THEN req[q].seen[k] ELSE object[k]]

PutObject(q) ==
  /\ At(q, "putObject") /\ Ran(q)
  /\ object' = Merged(q)
  /\ stale' = (stale \/ \E k \in KeyTypes \ req[q].keys : object'[k] # object[k])
  /\ unasked' = (unasked \/ (req[q].stage = "first" /\ \E k \in req[q].keys : object[k] # 0))
  /\ KeepSessions /\ UNCHANGED <<rows, told, met, metReset, stopped, faults>>

PutRow(q, k) ==
  /\ At(q, k) /\ Ran(q)
  /\ rows' = [rows EXCEPT ![k] = q]
  /\ KeepSessions /\ UNCHANGED <<object, told, met, metReset, stale, stopped, unasked, faults>>

(* recordKeyChange: the others are told, and ask for the keys. *)
RecordChange(q) ==
  /\ At(q, "record") /\ Ran(q)
  /\ told' = object["master"]
  /\ KeepSessions /\ UNCHANGED <<object, rows, met, metReset, stale, stopped, unasked, faults>>

DeleteObject(q) ==
  /\ At(q, "deleteObject") /\ Ran(q)
  /\ object' = NoneUploaded
  /\ KeepSessions /\ UNCHANGED <<rows, told, met, metReset, stale, stopped, unasked, faults>>

DeleteRows(q) ==
  /\ At(q, "deleteRows") /\ Ran(q)
  /\ rows' = NoneUploaded
  /\ KeepSessions /\ UNCHANGED <<object, told, met, metReset, stale, stopped, unasked, faults>>

(* A statement fails or the Worker stops: what was done stays. *)
Stop(q) ==
  /\ IsOpen(q) /\ faults < MaxFaults
  /\ req' = [req EXCEPT ![q] = Done]
  /\ stopped' = (stopped \/ Writes(q)) /\ faults' = faults + 1
  /\ KeepSessions /\ UNCHANGED <<object, rows, told, met, metReset, stale, unasked>>

(* A session's five minutes are over. *)
Lapse ==
  /\ faults < MaxFaults /\ faults' = faults + 1
  /\ \E s \in Sessions : sessions[s] # "none" /\ SetSession(s, "none")
  /\ KeepKeys /\ UNCHANGED <<req, served, cancelled, agreed, raced>>

CrossInit ==
  /\ \E there \in BOOLEAN :
       /\ rows = [k \in KeyTypes |-> IF there THEN 1 ELSE 0]
       /\ sessions = [s \in Sessions |-> IF there /\ s = 1 THEN "open" ELSE "none"]
  /\ object = rows /\ told = rows["master"]
  /\ before = [s \in Sessions |-> "none"] /\ req = [q \in Requests |-> Idle]
  /\ served = [s \in Sessions |-> {}] /\ cancelled = {} /\ agreed = {} /\ raced = {}
  /\ met = FALSE /\ metReset = FALSE /\ stale = FALSE /\ stopped = FALSE /\ unasked = FALSE /\ faults = 0

Arrive(q) ==
  \/ OpenChallenge(q) \/ OpenReset(q)
  \/ \E keys \in Payloads : OpenFirst(q, keys) \/ OpenWithPassword(q, keys)
  \/ \E s \in {t \in Sessions : "none" # sessions[t] \/ before[t] # "none"} :
       \/ SsoRedirect(q, s) \/ SsoCallback(q, s) \/ SubmitToken(q, s) \/ Cancel(q, s)
       \/ \E keys \in Payloads : OpenWithSession(q, keys, s)

CrossNext ==
  \/ Lapse
  \/ \E q \in Requests :
       \/ Arrive(q) \/ Stop(q)
       \/ PutSession(q) \/ GetSession(q) \/ UseSession(q) \/ WriteSession(q) \/ DropSession(q)
       \/ GetObject(q) \/ PutObject(q) \/ RecordChange(q) \/ DeleteObject(q) \/ DeleteRows(q)
       \/ \E k \in KeyTypes : PutRow(q, k)

CrossSpec == CrossInit /\ [][CrossNext]_crossVars

-----------------------------------------------------------------------------
(* Properties *)

Settled == \A q \in Requests : ~IsOpen(q)

(* When nothing is under way and nothing stopped half-way, the object and D1 have keys of the same types, unless
   a reset overlapped another request, and the same keys, unless requests overlapped. *)
StoresAgree ==
  Settled /\ ~stopped =>
    /\ metReset \/ \A k \in KeyTypes : object[k] = 0 <=> rows[k] = 0
    /\ met \/ object = rows

(* Whoever follows the change rows has the object's master key in the end, however uploads and resets overlap,
   unless an upload wrote back a key of others that it had read before. *)
LastChangeTold == Settled /\ ~stopped /\ ~stale => told = object["master"]

(* No upload replaces keys without consent, which it skips when D1 has none: they were written by a request that
   it overlapped, or after one that stopped half-way. *)
ReplacedWithConsent == unasked => met \/ stopped

(* A session serves one upload, ends with it or when it is cancelled, and stays approved until then, unless two
   requests held it at once or KV gave it as it had been. *)
SessionsSound ==
  \A s \in Sessions \ raced :
    /\ \A p, q \in served[s] : p = q
    /\ served[s] # {} \/ s \in cancelled => sessions[s] = "none"
    /\ s \in agreed => sessions[s] # "open"

(* The cross-signing identity is one in all its stores, told to others and replaced by its user only. *)
IdentitySound == StoresAgree /\ LastChangeTold /\ ReplacedWithConsent /\ SessionsSound
=============================================================================
