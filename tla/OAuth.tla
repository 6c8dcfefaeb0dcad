------------------------------- MODULE OAuth -------------------------------
(***************************************************************************)
(* Logins by OAuth, where this server issues codes and tokens to clients   *)
(* (api/oauth.ts), and by OpenID Connect, where an identity provider       *)
(* vouches for a user (api/oidc-auth.ts).                                  *)
(*                                                                         *)
(* Authorization requests, codes, refresh tokens and the states of logins  *)
(* are in KV, and serve by being read and then deleted; users, links,      *)
(* devices and access tokens are rows of D1.  A request is the list of the *)
(* statements it has still to run; it may end between any two of them, and *)
(* those of other requests may come between.  What a request makes is      *)
(* named for it.  Passwords, secrets and PKCE only refuse and are left out *)
(* but for the password, whose refusal makes a new authorization request;  *)
(* userinfo and introspection only read.                                   *)
(***************************************************************************)
EXTENDS Naturals, Sequences, FiniteSets

CONSTANTS
  Requests,     \* positive numbers, in the order they arrive
  Clients,      \* OAuth clients
  Identities,   \* the subjects of an identity provider
  Names,        \* users; NoName is none of them
  NoName,
  MaxOpen,      \* bound: requests under way at a time
  MaxFaults     \* bound: requests that end half-way, entries of KV that lapse, stale reads

VARIABLES
  clients,      \* registered clients
  asks, codes, states, refreshes,   \* entries of KV: records with id, root and what they are about
  deleted,      \* entries that are deleted, but perhaps still read elsewhere
  access,       \* access_tokens
  devices,      \* devices of the OAuth user
  users, links, \* users; idp_user_links, one user for an identity
  req,
  has,          \* the refresh token each OAuth session's client was given last
  revoked, spent, raced, moved,     \* what has happened to sessions, roots and identities (history)
  faults

oauthVars == <<clients, asks, codes, states, refreshes, deleted, access, devices, users, links, req, has, revoked,
               spent, raced, moved, faults>>

(* 0 is what is there in the beginning, and the device a client names in its scope. *)
Ids == {0} \cup Requests
NoId == 100

Idle == [op |-> "none", todo |-> <<>>, item |-> NoId, root |-> NoId, session |-> NoId, client |-> "none",
         device |-> NoId, subject |-> "none", name |-> NoName]
Done == [Idle EXCEPT !.op = "done"]

(* An entry of KV. *)
Entry(kind, id, r) == [kind |-> kind, id |-> id, root |-> r.root, session |-> r.session, client |-> r.client,
                       device |-> r.device]

-----------------------------------------------------------------------------
Begun(q) == req[q].op # "none"
IsOpen(q) == req[q].todo # <<>>

Open(q, r) ==
  /\ ~Begun(q) /\ \A p \in Requests : p < q => Begun(p)
  /\ Cardinality({p \in Requests : IsOpen(p)}) < MaxOpen
  /\ req' = [req EXCEPT ![q] = r]
  /\ UNCHANGED <<clients, asks, codes, states, refreshes, deleted, access, devices, users, links, has, revoked, spent,
                 moved>>

(* A request that begins with the reading of an entry, which KV may still have after its deletion. *)
Read(q, entries, e, r) ==
  /\ \/ e \in entries /\ faults' = faults
     \/ e \in deleted \ entries /\ faults < MaxFaults /\ faults' = faults + 1
  /\ raced' = IF e \notin entries \/ \E p \in Requests : IsOpen(p) /\ req[p].item = e.id
              THEN raced \cup {e.root} ELSE raced
  /\ Open(q, [r EXCEPT !.item = e.id, !.root = e.root])

Keeps == UNCHANGED <<raced, faults>>

(* Registration, in one entry of KV. *)
Register(c) ==
  /\ clients' = clients \cup {c}
  /\ UNCHANGED <<asks, codes, states, refreshes, deleted, access, devices, users, links, req, has, revoked, spent, moved>>
  /\ Keeps

(* The page of the login, with the authorization request that belongs to it. *)
GetAuthorize(q, c, d) ==
  /\ c \in clients /\ Keeps
  /\ Open(q, [Idle EXCEPT !.op = "authorize", !.todo = <<"putAsk">>, !.root = q, !.client = c, !.device = d])

(* The form: it serves once, and a wrong password makes a new page with a new authorization request. *)
PostAuthorize(q, e) ==
  \E next \in {"putCode", "putAsk"} :
    Read(q, asks, e, [Idle EXCEPT !.op = "submit", !.todo = <<"dropItem", next>>, !.client = e.client,
                                  !.device = e.device])

(* The code is deleted before it is looked at, so another client's attempt ends it. *)
CodeGrant(q, e, c) ==
  /\ c \in clients
  /\ Read(q, codes, e, [Idle EXCEPT
       !.op = "grant", !.client = c, !.session = q, !.device = IF e.device = 0 THEN 0 ELSE q,
       !.todo = IF e.client = c THEN <<"dropItem", "newDevice", "newToken", "newRefresh", "answer">>
                ELSE <<"dropItem">>])

(* Faulty variant: the old refresh token goes first. *)
RotationDroppedFirst == <<"dropItem", "newToken", "newRefresh", "answer">>

(* The access token that is replaced stays until it expires. *)
Rotation == <<"newToken", "dropItem", "newRefresh", "answer">>

RefreshGrant(q, e) ==
  /\ e.client \in clients /\ has[e.session] = e.id
  /\ Read(q, refreshes, e, [Idle EXCEPT !.op = "refresh", !.todo = Rotation, !.session = e.session,
                                        !.client = e.client, !.device = e.device])

(* A client gives back a token, of either kind; the refresh token is deleted unread. *)
Revoke(q, s) ==
  /\ has[s] # NoId /\ Keeps
  /\ \E statement \in {"revokeRefresh", "revokeAccess"} :
       Open(q, [Idle EXCEPT !.op = "revoke", !.todo = <<statement>>, !.session = s, !.item = has[s]])

(* A login at the identity provider, and the user's return from it: the provider names the subject, and the claim
   from which the name of a new user is derived. *)
OidcLogin(q) ==
  Keeps /\ Open(q, [Idle EXCEPT !.op = "login", !.todo = <<"putState">>, !.root = q])

OidcCallback(q, e, x, n) ==
  Read(q, states, e, [Idle EXCEPT !.op = "callback", !.todo = <<"dropItem", "findLink">>, !.session = q,
                                  !.device = q, !.subject = x, !.name = n])

-----------------------------------------------------------------------------
At(q, statement) == IsOpen(q) /\ Head(req[q].todo) = statement
Goes(q, r) == req' = [req EXCEPT ![q] = IF r.todo = <<>> THEN Done ELSE r]
Ran(q) == Goes(q, [req[q] EXCEPT !.todo = Tail(@)])
Throws(q) == req' = [req EXCEPT ![q] = Done]

KeepKv == UNCHANGED <<clients, asks, codes, states, refreshes, deleted>>
KeepRows == UNCHANGED <<access, devices, users, links>>
KeepHistory == UNCHANGED <<has, revoked, spent, raced, moved, faults>>

PutAsk(q) ==
  /\ At(q, "putAsk") /\ Ran(q)
  /\ asks' = asks \cup {Entry("ask", q, req[q])}
  /\ UNCHANGED <<clients, codes, states, refreshes, deleted>> /\ KeepRows /\ KeepHistory

PutCode(q) ==
  /\ At(q, "putCode") /\ Ran(q)
  /\ codes' = codes \cup {Entry("code", q, req[q])}
  /\ UNCHANGED <<clients, asks, states, refreshes, deleted>> /\ KeepRows /\ KeepHistory

PutState(q) ==
  /\ At(q, "putState") /\ Ran(q)
  /\ states' = states \cup {Entry("state", q, req[q])}
  /\ UNCHANGED <<clients, asks, codes, refreshes, deleted>> /\ KeepRows /\ KeepHistory

Dropped(entries, id) == {e \in entries : e.id # id}

(* The entry the request was opened with is deleted: it has served. *)
DropItem(q) ==
  LET of == req[q].op id == req[q].item IN
  /\ At(q, "dropItem") /\ Ran(q)
  /\ asks' = IF of = "submit" THEN Dropped(asks, id) ELSE asks
  /\ codes' = IF of = "grant" THEN Dropped(codes, id) ELSE codes
  /\ states' = IF of = "callback" THEN Dropped(states, id) ELSE states
  /\ refreshes' = IF of = "refresh" THEN Dropped(refreshes, id) ELSE refreshes
  /\ deleted' = deleted \cup ((asks \ asks') \cup (codes \ codes') \cup (states \ states') \cup
                              (refreshes \ refreshes'))
  /\ UNCHANGED clients /\ KeepRows /\ KeepHistory

(* createDevice is an INSERT: a client that names the device it had before gets 500, and its code has served. *)
NewDevice(q) ==
  /\ At(q, "newDevice")
  /\ IF req[q].device \in devices THEN Throws(q) ELSE Ran(q)
  /\ devices' = devices \cup {req[q].device}
  /\ UNCHANGED <<access, users, links>> /\ KeepKv /\ KeepHistory

NewToken(q) ==
  LET r == req[q] IN
  /\ At(q, "newToken") /\ Ran(q)
  /\ access' = access \cup {[id |-> q, session |-> r.session, root |-> r.root, subject |-> r.subject,
                             name |-> r.name]}
  /\ UNCHANGED <<devices, users, links>> /\ KeepKv /\ KeepHistory

NewRefresh(q) ==
  /\ At(q, "newRefresh") /\ Ran(q)
  /\ refreshes' = refreshes \cup {Entry("refresh", q, req[q])}
  /\ UNCHANGED <<clients, asks, codes, states, deleted>> /\ KeepRows /\ KeepHistory

Answer(q) ==
  /\ At(q, "answer") /\ Ran(q)
  /\ has' = [has EXCEPT ![req[q].session] = q]
  /\ KeepKv /\ KeepRows /\ UNCHANGED <<revoked, spent, raced, moved, faults>>

(* The grants a session came from. *)
RootsOf(s) == {e.root : e \in {f \in refreshes \cup deleted : f.session = s}}

(* A refresh that has read the token goes on with it. *)
RevokeRefresh(q) ==
  LET r == req[q]
      under == {p \in Requests : IsOpen(p) /\ req[p].op = "refresh" /\ req[p].session = r.session}
  IN
  /\ At(q, "revokeRefresh") /\ Ran(q)
  /\ refreshes' = Dropped(refreshes, r.item)
  /\ deleted' = deleted \cup (refreshes \ refreshes')
  /\ revoked' = revoked \cup {r.session}
  /\ raced' = raced \cup {req[p].root : p \in under} \cup
                 (IF r.item # has[r.session] THEN RootsOf(r.session) ELSE {})
  /\ UNCHANGED <<clients, asks, codes, states, has, spent, moved, faults>> /\ KeepRows

RevokeAccess(q) ==
  /\ At(q, "revokeAccess") /\ Ran(q)
  /\ access' = {t \in access : t.id # req[q].item}
  /\ UNCHANGED <<devices, users, links>> /\ KeepKv /\ KeepHistory

-----------------------------------------------------------------------------
(* The user of a subject: the one it is linked to, else the one with the derived name, who is created if need be
   and then linked. *)

Then(q, statements, r) == Goes(q, [r EXCEPT !.todo = statements])
Entering == <<"newDevice", "newToken">>

FindLink(q) ==
  LET user == links[req[q].subject] IN
  /\ At(q, "findLink")
  /\ IF user # NoName THEN Then(q, Entering, [req[q] EXCEPT !.name = user])
     ELSE Then(q, <<"findUser">>, req[q]) \/ Throws(q)      \* the provider may not create users
  /\ KeepKv /\ KeepRows /\ KeepHistory

(* Faulty variant: the user enters before the link is there. *)
LinkingAfterwards == Entering \o <<"insertLink">>

Linking == <<"insertLink">> \o Entering

FindUser(q) ==
  /\ At(q, "findUser")
  /\ Then(q, IF req[q].name \in users THEN Linking ELSE <<"createUser">> \o Linking, req[q])
  /\ KeepKv /\ KeepRows /\ KeepHistory

CreateUser(q) ==
  /\ At(q, "createUser")
  /\ IF req[q].name \in users THEN Throws(q) ELSE Ran(q)
  /\ users' = users \cup {req[q].name}
  /\ UNCHANGED <<access, devices, links>> /\ KeepKv /\ KeepHistory

(* UNIQUE (provider_id, external_id): the second of two links fails, and with it the login. *)
InsertLink(q) ==
  LET x == req[q].subject IN
  /\ At(q, "insertLink")
  /\ IF links[x] # NoName THEN Throws(q) /\ UNCHANGED links
     ELSE Ran(q) /\ links' = [links EXCEPT ![x] = req[q].name]
  /\ UNCHANGED <<access, devices, users>> /\ KeepKv /\ KeepHistory

(* An administrator takes a link away. *)
Unlink(x) ==
  /\ links[x] # NoName /\ faults < MaxFaults
  /\ links' = [links EXCEPT ![x] = NoName] /\ moved' = moved \cup {x} /\ faults' = faults + 1
  /\ UNCHANGED <<access, devices, users, req, has, revoked, spent, raced>> /\ KeepKv

-----------------------------------------------------------------------------
(* A statement fails, the Worker stops, or the answer is lost: a refresh that had deleted its token has cost the
   session that, and so has an answer that was lost. *)
Stop(q) ==
  /\ IsOpen(q) /\ faults < MaxFaults
  /\ Throws(q) /\ faults' = faults + 1
  /\ spent' = IF req[q].op = "refresh" /\ (At(q, "newRefresh") \/ At(q, "answer")) THEN spent \cup {req[q].session} ELSE spent
  /\ KeepKv /\ KeepRows /\ UNCHANGED <<has, revoked, raced, moved>>

(* An entry of KV has reached the end of its lifetime. *)
Lapse ==
  /\ faults < MaxFaults /\ faults' = faults + 1
  /\ \E e \in asks \cup codes \cup states \cup refreshes :
       /\ asks' = asks \ {e} /\ codes' = codes \ {e} /\ states' = states \ {e} /\ refreshes' = refreshes \ {e}
       /\ spent' = IF e.kind = "refresh" THEN spent \cup {e.session} ELSE spent
  /\ UNCHANGED <<clients, deleted, req, has, revoked, raced, moved>> /\ KeepRows

(* What may be there: an authorization request, a code, a session, a login under way. *)
OAuthInit ==
  /\ \E there \in {"nothing", "ask", "code", "session", "state"}, d \in {0, NoId} :
       LET first(kind) ==
             IF there # kind THEN {}
             ELSE {Entry(kind, 0, [Idle EXCEPT !.root = 0, !.session = 0, !.device = d,
                                               !.client = CHOOSE c \in Clients : TRUE])}
           session == there = "session"
       IN
       /\ there \in {"nothing", "state"} => d = NoId
       /\ asks = first("ask") /\ codes = first("code") /\ states = first("state")
       /\ refreshes = IF session THEN {[e EXCEPT !.kind = "refresh"] : e \in first("session")} ELSE {}
       /\ has = [s \in Ids |-> IF session /\ s = 0 THEN 0 ELSE NoId]
       /\ devices = IF session THEN {d} ELSE {}
       /\ access = IF session THEN {[id |-> 0, session |-> 0, root |-> 0, subject |-> "none", name |-> NoName]} ELSE {}
       /\ clients = IF there = "nothing" THEN {} ELSE Clients
  /\ users \in IF states = {} THEN {{}} ELSE {{}} \cup {{n} : n \in Names}
  /\ links = [x \in Identities |-> NoName]
  /\ deleted = {} /\ req = [q \in Requests |-> Idle]
  /\ revoked = {} /\ spent = {} /\ raced = {} /\ moved = {} /\ faults = 0

Arrive(q) ==
  \/ OidcLogin(q)
  \/ \E c \in Clients, d \in {0, NoId} : GetAuthorize(q, c, d)
  \/ \E e \in asks \cup deleted : e.kind = "ask" /\ PostAuthorize(q, e)
  \/ \E e \in codes \cup deleted, c \in Clients : e.kind = "code" /\ CodeGrant(q, e, c)
  \/ \E e \in refreshes \cup deleted : e.kind = "refresh" /\ RefreshGrant(q, e)
  \/ \E e \in states \cup deleted, x \in Identities, n \in Names : e.kind = "state" /\ OidcCallback(q, e, x, n)
  \/ \E s \in Ids : Revoke(q, s)

OAuthNext ==
  \/ Lapse
  \/ \E c \in Clients \ clients : Register(c)
  \/ \E x \in Identities : Unlink(x)
  \/ \E q \in Requests :
       \/ Arrive(q) \/ Stop(q) \/ Answer(q)
       \/ PutAsk(q) \/ PutCode(q) \/ PutState(q) \/ DropItem(q)
       \/ NewDevice(q) \/ NewToken(q) \/ NewRefresh(q) \/ RevokeRefresh(q) \/ RevokeAccess(q)
       \/ FindLink(q) \/ FindUser(q) \/ CreateUser(q) \/ InsertLink(q)

OAuthSpec == OAuthInit /\ [][OAuthNext]_oauthVars

-----------------------------------------------------------------------------
(* Properties *)

(* One passage through the login page, and one trip to the identity provider, begin one session, through all the
   entries of KV that stand for it, unless one of them was read twice before its deletion or after it. *)
GrantsServeOnce ==
  \A t, u \in access : t.session # u.session /\ t.root = u.root => t.root \in raced

(* A client that did not give back its refresh token can go on: requests that stop cost it the token only after
   the new access token is there and the old one is deleted; two refreshes at once leave it one. *)
ClientsGoOn ==
  \A s \in Ids \ (revoked \cup spent) :
    has[s] # NoId /\ (\A q \in Requests : req[q].session = s => ~IsOpen(q)) =>
      \E e \in refreshes : e.session = s /\ e.id = has[s]

(* A session whose refresh token was given back has none, unless a refresh was under way, or the answer that gave
   a newer one was lost. *)
RevocationHolds ==
  \A s \in revoked \ spent : {e \in refreshes : e.session = s} = {} \/ RootsOf(s) \cap raced # {}

(* A subject of the identity provider is one user, whatever name its claims give at each login and however first
   logins overlap or stop, unless an administrator took the link away. *)
SubjectsAreOneUser ==
  \A t \in access : t.subject # "none" /\ t.subject \notin moved => links[t.subject] = t.name

(* Grants of all kinds begin one session each, of the user they are for, that lasts until it is given back. *)
GrantsSound == GrantsServeOnce /\ ClientsGoOn /\ RevocationHolds /\ SubjectsAreOneUser
=============================================================================
