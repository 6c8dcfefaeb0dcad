------------------------------ MODULE Accounts ------------------------------
(***************************************************************************)
(* An account and its sessions: registration, login with a password or a   *)
(* one-time login token, refresh and logout (api/login.ts), password and   *)
(* deactivation (api/account.ts), deletion of devices (api/devices.ts) and *)
(* what an administrator does to a user (api/admin.ts).                    *)
(*                                                                         *)
(* A session is the login that began it.  It has a row of access_tokens, a *)
(* row of devices and a refresh token in KV, written one after the other;  *)
(* a refresh replaces both tokens.  A request is the list of the           *)
(* statements it has still to run; it may end between any two of them, and *)
(* those of other requests may come between.                               *)
(*                                                                         *)
(* One account, whose owner knows its password.  A token is named for the  *)
(* request that made it.                                                   *)
(***************************************************************************)
EXTENDS Naturals, FiniteSets, Sequences

CONSTANTS
  Requests,    \* positive numbers, in the order they arrive
  Devices,
  FirstDevice, \* the device of the session that is there in the beginning
  MaxFaults    \* bound: requests that end half-way, stale reads of KV and tokens that lapse

VARIABLES
  user,        \* users: "absent", "active" or "deactivated"
  devices,     \* devices
  access,      \* access_tokens
  refreshes,   \* the refresh tokens in KV
  deleted,     \* refresh tokens that are deleted, but perhaps still read elsewhere
  loginTokens, \* the login tokens in KV
  req,
  has,         \* the tokens each session's client was given last
  ended,       \* sessions one of whose tokens a request has deleted to end it (history)
  troubled,    \* sessions that lost a refresh or an answer, or whose refresh token lapsed (history)
  raced,       \* sessions and login tokens of which one token was read twice (history)
  late,        \* tokens issued when their device was gone or going (history)
  faults

accountVars == <<user, devices, access, refreshes, deleted, loginTokens, req, has, ended, troubled, raced, late, faults>>

(* Session 0 is there in the beginning. *)
Sessions == {0} \cup Requests
NoToken == 100

Idle == [op |-> "none", phase |-> "new", todo |-> <<>>, session |-> NoToken, device |-> "none",
         token |-> NoToken, via |-> NoToken]

-----------------------------------------------------------------------------
(* What requests do, after they have been let in. *)

Registration == <<"newUser", "newDevice", "newToken", "newRefresh">>
Uninhibited  == <<"newUser">>                                   \* with inhibit_login
PasswordLogin == <<"checkUser", "newDevice", "newToken", "newRefresh">>
TokenLogin   == <<"useToken">> \o PasswordLogin
Refreshing   == <<"useRefresh", "dropAccess", "newToken", "newRefresh">>
PasswordChange == <<"endAll">>                                  \* with logout_devices
Deactivation == <<"deactivate", "endAll">>

(* Faulty variant: the device goes first. *)
DeviceDeletionReversed == <<"dropDevice", "endDevice">>

(* The tokens, the keys (not modelled) and the row. *)
DeviceDeletion == <<"endDevice", "dropDevice">>
DevicesDeletion(ds) == IF ds = {} THEN <<>> ELSE DeviceDeletion      \* of several, each one in turn

(* The administrator's. *)
AdminDeactivation == <<"deactivate", "endAll">>
AdminUpdate == <<"deactivate">>                                 \* PUT with "deactivated", which leaves the tokens
AdminReset == <<"endAll">>
AdminSessions == <<"endAll">>
Reactivation == <<"reactivate">>
AdminCreation == <<"newUser">>
Purge == <<"endAll", "dropDevices", "dropUser">>
BulkDelete(us) == IF us = {} THEN <<>> ELSE Purge               \* of several, each one in turn
Cleanup == Purge

-----------------------------------------------------------------------------
Begun(q) == req[q].phase # "new"
DeviceOf(s) == IF s = 0 THEN FirstDevice ELSE req[s].device

Open(q, r) ==
  /\ ~Begun(q) /\ \A p \in Requests : p < q => Begun(p)
  /\ req' = [req EXCEPT ![q] = [r EXCEPT !.phase = "open"]]
  /\ UNCHANGED <<user, devices, access, refreshes, deleted, loginTokens, has, ended, troubled, late>>

Keeps == UNCHANGED <<raced, faults>>

(* validateAccessToken and requireAuth: the request comes with a session's access token. *)
Auth(s) == has[s] \in {t.id : t \in access}

(* A client registers, with a free name ... *)
OpenRegister(q, d) ==
  /\ user = "absent" /\ Keeps
  /\ \E plan \in {Registration, Uninhibited} :
       Open(q, [Idle EXCEPT !.op = "register", !.todo = plan, !.session = q, !.device = d])

(* ... or logs in, on a new device or one it names. *)
OpenPasswordLogin(q, d) ==
  /\ user # "absent" /\ Keeps
  /\ Open(q, [Idle EXCEPT !.op = "login", !.todo = PasswordLogin, !.session = q, !.device = d])

OpenTokenLogin(q, t, d) ==
  /\ t \in loginTokens
  /\ raced' = IF \E p \in Requests : req[p].via = t THEN raced \cup {t} ELSE raced
  /\ Open(q, [Idle EXCEPT !.op = "login", !.todo = TokenLogin, !.session = q, !.device = d, !.via = t])
  /\ UNCHANGED faults

(* get_token, and the administrator's login-token, for a user that is active. *)
GetLoginToken(q) ==
  /\ user = "active" /\ Keeps
  /\ Open(q, [Idle EXCEPT !.todo = <<"putToken">>])

(* refresh: the token is looked up in KV, which may still have it after its deletion. *)
OpenRefresh(q, f) ==
  /\ has[f.session] = f.id
  /\ \/ f \in refreshes /\ faults' = faults
     \/ f \in deleted /\ faults < MaxFaults /\ faults' = faults + 1
  /\ raced' = IF f \in deleted \/ \E p \in Requests : req[p].op = "refresh" /\ req[p].via = f.id
              THEN raced \cup {f.session} ELSE raced
  /\ Open(q, [Idle EXCEPT !.op = "refresh", !.todo = Refreshing, !.session = f.session, !.device = f.device,
                          !.token = f.access, !.via = f.id])

OpenLogout(q, s) ==
  /\ Auth(s) /\ Keeps
  /\ Open(q, [Idle EXCEPT !.todo = <<"endOne">>, !.session = s, !.token = has[s]])

(* The administrator ends one session, by a token of the list. *)
OpenRevoke(q, t) ==
  /\ t \in access /\ Keeps
  /\ Open(q, [Idle EXCEPT !.todo = <<"endOne">>, !.session = t.session, !.token = t.id])

(* logout/all, password, deactivate: of the whole account. *)
OpenUserEnd(q, s) ==
  /\ Auth(s) /\ Keeps
  /\ \E plan \in {PasswordChange, Deactivation} : Open(q, [Idle EXCEPT !.todo = plan])

OpenDeleteDevice(q, s, d) ==
  /\ Auth(s) /\ d \in devices /\ Keeps
  /\ \E plan \in {DeviceDeletion, DevicesDeletion({d})} :
       Open(q, [Idle EXCEPT !.todo = plan, !.device = d])

OpenAdmin(q) ==
  /\ Keeps
  /\ \E plan \in {AdminDeactivation, AdminUpdate, AdminReset, AdminSessions, Reactivation, AdminCreation,
                  Purge, BulkDelete({user}), Cleanup} :
       /\ (plan = AdminCreation) = (user = "absent")
       /\ Open(q, [Idle EXCEPT !.todo = plan])

-----------------------------------------------------------------------------
At(q, statement) == req[q].phase = "open" /\ req[q].todo # <<>> /\ Head(req[q].todo) = statement
Ran(q) == req' = [req EXCEPT ![q].todo = Tail(@)]

(* A refresh that does not come to its end has cost its session the refresh token. *)
Lost(q) == troubled' = IF req[q].op = "refresh" THEN troubled \cup {req[q].session} ELSE troubled

(* An exception: the client gets 500, and what was done stays. *)
Throws(q) == req' = [req EXCEPT ![q].phase = "done", ![q].todo = <<>>] /\ Lost(q)

Unless(q, failing) == IF failing THEN Throws(q) ELSE Ran(q) /\ UNCHANGED troubled

(* createUser: the primary key lets one of two registrations through. *)
NewUser(q) ==
  /\ At(q, "newUser") /\ Unless(q, user # "absent")
  /\ user' = IF user = "absent" THEN "active" ELSE user
  /\ UNCHANGED <<devices, access, refreshes, deleted, loginTokens, has, ended, raced, late, faults>>

(* The one-time login token is deleted after it was read. *)
UseToken(q) ==
  /\ At(q, "useToken") /\ Ran(q)
  /\ loginTokens' = loginTokens \ {req[q].via}
  /\ UNCHANGED <<user, devices, access, refreshes, deleted, has, ended, troubled, raced, late, faults>>

PutToken(q) ==
  /\ At(q, "putToken") /\ Ran(q)
  /\ loginTokens' = loginTokens \cup {q}
  /\ UNCHANGED <<user, devices, access, refreshes, deleted, has, ended, troubled, raced, late, faults>>

CheckUser(q) ==
  /\ At(q, "checkUser") /\ Unless(q, user # "active")
  /\ UNCHANGED <<user, devices, access, refreshes, deleted, loginTokens, has, ended, raced, late, faults>>

(* createDevice: an INSERT, so that a device that is there cannot log in again. *)
NewDevice(q) ==
  /\ At(q, "newDevice") /\ Unless(q, req[q].device \in devices \/ user = "absent")
  /\ devices' = IF user = "absent" THEN devices ELSE devices \cup {req[q].device}
  /\ UNCHANGED <<user, access, refreshes, deleted, loginTokens, has, ended, raced, late, faults>>

(* The device's row is gone, or a request is about to delete it. *)
Going(d) ==
  \/ d \notin devices
  \/ \E p \in Requests : At(p, "dropDevices") \/ (At(p, "dropDevice") /\ req[p].device = d)

(* createAccessToken: it needs the user's row, and not that of the device. *)
NewToken(q) ==
  /\ At(q, "newToken") /\ Unless(q, user = "absent")
  /\ access' = IF user = "absent" THEN access
               ELSE access \cup {[id |-> q, session |-> req[q].session, device |-> req[q].device,
                                  via |-> IF req[q].op = "login" THEN req[q].via ELSE NoToken]}
  /\ late' = IF Going(req[q].device) THEN late \cup {q} ELSE late
  /\ UNCHANGED <<user, devices, refreshes, deleted, loginTokens, has, ended, raced, faults>>

(* Faulty variant: the refresh token names the access token that was replaced. *)
NewRefreshOld(q) ==
  /\ At(q, "newRefresh") /\ Ran(q)
  /\ refreshes' = refreshes \cup {[id |-> q, session |-> req[q].session, device |-> req[q].device,
                                   access |-> IF req[q].op = "refresh" THEN req[q].token ELSE q]}
  /\ UNCHANGED <<user, devices, access, deleted, loginTokens, has, ended, troubled, raced, late, faults>>

NewRefresh(q) ==
  /\ At(q, "newRefresh") /\ Ran(q)
  /\ refreshes' = refreshes \cup {[id |-> q, session |-> req[q].session, device |-> req[q].device, access |-> q]}
  /\ UNCHANGED <<user, devices, access, deleted, loginTokens, has, ended, troubled, raced, late, faults>>

(* Token rotation: the refresh token is deleted, and then the access token it came with. *)
UseRefresh(q) ==
  /\ At(q, "useRefresh") /\ Ran(q)
  /\ refreshes' = {f \in refreshes : f.id # req[q].via}
  /\ deleted' = deleted \cup {f \in refreshes : f.id = req[q].via}
  /\ UNCHANGED <<user, devices, access, loginTokens, has, ended, troubled, raced, late, faults>>

DropAccess(q) ==
  /\ At(q, "dropAccess") /\ Ran(q)
  /\ access' = {t \in access : t.id # req[q].token}
  /\ UNCHANGED <<user, devices, refreshes, deleted, loginTokens, has, ended, troubled, raced, late, faults>>

(* The statements that delete rows of access_tokens, and end their sessions; the
   refresh tokens stay. *)
Ends(q, rows, statement) ==
  /\ At(q, statement) /\ Ran(q)
  /\ ended' = ended \cup {t.session : t \in rows}
  /\ UNCHANGED <<refreshes, deleted, loginTokens, has, troubled, raced, late, faults>>

(* Faulty variant: every session of the user. *)
EndOneOfAll(q) ==
  /\ Ends(q, {t \in access : t.id = req[q].token}, "endOne") /\ access' = {}
  /\ UNCHANGED <<user, devices>>

(* deleteAccessToken, of a token that a refresh may have replaced meanwhile. *)
EndOne(q) ==
  /\ Ends(q, {t \in access : t.id = req[q].token}, "endOne")
  /\ access' = {t \in access : t.id # req[q].token}
  /\ UNCHANGED <<user, devices>>

(* deleteAllUserTokens, and the same DELETE of the administrator: a session
   whose token is being made or replaced is not ended. *)
EndAll(q) ==
  /\ Ends(q, access, "endAll") /\ access' = {}
  /\ UNCHANGED <<user, devices>>

EndDevice(q) ==
  /\ Ends(q, {t \in access : t.device = req[q].device}, "endDevice")
  /\ access' = {t \in access : t.device # req[q].device}
  /\ UNCHANGED <<user, devices>>

DropDevice(q) ==
  /\ At(q, "dropDevice") /\ Ran(q) /\ devices' = devices \ {req[q].device}
  /\ UNCHANGED <<user, access, refreshes, deleted, loginTokens, has, ended, troubled, raced, late, faults>>

DropDevices(q) ==
  /\ At(q, "dropDevices") /\ Ran(q) /\ devices' = {}
  /\ UNCHANGED <<user, access, refreshes, deleted, loginTokens, has, ended, troubled, raced, late, faults>>

(* DELETE FROM users, and with it what refers to the user. *)
DropUser(q) ==
  /\ Ends(q, access, "dropUser")
  /\ user' = "absent" /\ access' = {} /\ devices' = {}

(* UPDATE users SET is_deactivated *)
SetActive(q, statement, to) ==
  /\ At(q, statement) /\ Ran(q) /\ user' = IF user = "absent" THEN user ELSE to
  /\ UNCHANGED <<devices, access, refreshes, deleted, loginTokens, has, ended, troubled, raced, late, faults>>

(* The answer: the client of a login or a refresh goes on with the new tokens. *)
Answer(q) ==
  /\ req[q].phase = "open" /\ req[q].todo = <<>>
  /\ req' = [req EXCEPT ![q].phase = "done"]
  /\ has' = IF \E f \in refreshes \cup deleted : f.id = q THEN [has EXCEPT ![req[q].session] = q] ELSE has
  /\ UNCHANGED <<user, devices, access, refreshes, deleted, loginTokens, ended, troubled, raced, late, faults>>

(* The Worker stops, or the answer is lost. *)
Stop(q) ==
  /\ req[q].phase = "open" /\ faults < MaxFaults
  /\ faults' = faults + 1 /\ Throws(q)
  /\ UNCHANGED <<user, devices, access, refreshes, deleted, loginTokens, has, ended, raced, late>>

(* A token reaches the end of its lifetime in KV. *)
Lapse ==
  /\ faults < MaxFaults /\ faults' = faults + 1
  /\ \/ \E t \in loginTokens : loginTokens' = loginTokens \ {t} /\ UNCHANGED <<refreshes, troubled>>
     \/ \E f \in refreshes : /\ refreshes' = refreshes \ {f} /\ troubled' = troubled \cup {f.session}
                             /\ UNCHANGED loginTokens
  /\ UNCHANGED <<user, devices, access, deleted, req, has, ended, raced, late>>

AccountInit ==
  /\ user \in {"absent", "active"}
  /\ LET there == user = "active" IN
     /\ devices = IF there THEN {FirstDevice} ELSE {}
     /\ access = IF there THEN {[id |-> 0, session |-> 0, device |-> FirstDevice, via |-> NoToken]} ELSE {}
     /\ refreshes = IF there THEN {[id |-> 0, session |-> 0, device |-> FirstDevice, access |-> 0]} ELSE {}
     /\ has = [s \in Sessions |-> IF there /\ s = 0 THEN 0 ELSE NoToken]
  /\ deleted = {} /\ loginTokens = {} /\ req = [q \in Requests |-> Idle]
  /\ ended = {} /\ troubled = {} /\ raced = {} /\ late = {} /\ faults = 0

Arrive(q) ==
  \/ GetLoginToken(q) \/ OpenAdmin(q)
  \/ \E f \in refreshes \cup deleted : OpenRefresh(q, f)
  \/ \E t \in access : OpenRevoke(q, t)
  \/ \E s \in Sessions : OpenLogout(q, s) \/ OpenUserEnd(q, s) \/ \E d \in Devices : OpenDeleteDevice(q, s, d)
  \/ \E d \in Devices : OpenRegister(q, d) \/ OpenPasswordLogin(q, d) \/ \E t \in loginTokens : OpenTokenLogin(q, t, d)

AccountNext ==
  \/ Lapse
  \/ \E q \in Requests :
       \/ Arrive(q) \/ Answer(q) \/ Stop(q)
       \/ NewUser(q) \/ UseToken(q) \/ PutToken(q) \/ CheckUser(q) \/ NewDevice(q) \/ NewToken(q) \/ NewRefresh(q)
       \/ UseRefresh(q) \/ DropAccess(q)
       \/ EndOne(q) \/ EndAll(q) \/ EndDevice(q) \/ DropDevice(q) \/ DropDevices(q) \/ DropUser(q)
       \/ SetActive(q, "deactivate", "deactivated") \/ SetActive(q, "reactivate", "active")

AccountSpec == AccountInit /\ [][AccountNext]_accountVars

-----------------------------------------------------------------------------
(* Properties *)

(* A refresh token and a login token serve once: a session has one access token, and a login token begins one
   session, unless a token was read twice, by requests that overlapped or from a KV that still had it. *)
TokensServeOnce ==
  \A t, u \in access : t # u =>
    /\ t.session = u.session => t.session \in raced
    /\ t.via = u.via /\ t.via # NoToken => t.via \in raced

(* A client that was not logged out, and whose refreshes were answered, goes on: the tokens it was given last
   are both there, whatever other requests of the account overlap with it. *)
ClientsStayLoggedIn ==
  \A s \in Sessions \ (ended \cup troubled) :
    has[s] # NoToken /\ (\A q \in Requests : req[q].op = "refresh" /\ req[q].session = s => req[q].phase # "open") =>
      has[s] \in {t.id : t \in access} \cap {f.id : f \in refreshes}

(* A session is one of a device: whatever stops half-way, an access token's device is there, unless it was gone
   or about to be deleted when the token was issued (a refresh does not look at the device). *)
SessionsHaveDevices == \A t \in access : t.device \in devices \/ t.id \in late

(* The rows of access_tokens are those they should be: none twice for a token, none without a device. *)
TokensSound == TokensServeOnce /\ SessionsHaveDevices

(* The sessions of an account are those its clients logged in to, and stay so. *)
AccountSound == TokensSound /\ ClientsStayLoggedIn
=============================================================================
