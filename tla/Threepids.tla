----------------------------- MODULE Threepids -----------------------------
(***************************************************************************)
(* The e-mail address of an account (api/account.ts): a client asks for a  *)
(* code to be mailed, submits it, and adds the address with the session so *)
(* validated (services/email.ts).                                          *)
(*                                                                         *)
(* One address, which several users claim.  A session is a row of          *)
(* email_verification_sessions, named for the request that made it, as is  *)
(* its code; a client secret stands for the user whose client chose it.    *)
(* Addresses and codes that are wrong only refuse and are left out, as is  *)
(* the removal of a user with all its rows (Accounts).                     *)
(***************************************************************************)
EXTENDS Naturals, FiniteSets

CONSTANTS
  Requests,    \* positive numbers, in the order they arrive
  Users,
  NoUser,
  MaxAttempt,  \* bound on send_attempt
  MaxOpen,     \* bound: requests under way at a time
  MaxFaults    \* bound: requests that end half-way, mails that fail, sessions that expire

VARIABLES
  bound,       \* user_threepids: the address's user
  rows,        \* email_verification_sessions
  expired,     \* sessions past expires_at
  mailed,      \* sessions whose code was mailed
  req,
  sid,         \* the session each user's client was answered last
  added,       \* users whose last answer about the address was that it is theirs (history)
  proved,      \* users who submitted a code (history)
  ended,       \* sessions that served, were replaced, or whose mail failed or was not reached (history)
  met,         \* a request to add the address overlapped one to add or delete it (history)
  faults

threepidVars == <<bound, rows, expired, mailed, req, sid, added, proved, ended, met, faults>>

(* What is there in the beginning is named for users: 101 is a session of the first, and so on. *)
NoSession == 0

Idle == [op |-> "none", at |-> "new", user |-> NoUser, attempt |-> 0, session |-> NoSession]
Done == [Idle EXCEPT !.op = "done", !.at = "done"]

Sessions(u) == {s \in rows : s.secret = u}
RowOf(id) == {s \in rows : s.id = id}

-----------------------------------------------------------------------------
Begun(q) == req[q].op # "none"
At(q, statement) == req[q].at = statement
Goes(q, statement) == req' = [req EXCEPT ![q].at = statement]
Ends(q) == req' = [req EXCEPT ![q] = Done]

Open(q, r) ==
  /\ ~Begun(q) /\ \A p \in Requests : p < q => Begun(p)
  /\ Cardinality({p \in Requests : Begun(p) /\ req[p].at # "done"}) < MaxOpen
  /\ req' = [req EXCEPT ![q] = r]
  /\ met' = (met \/ \E p \in Requests : "add" \in {r.op, req[p].op} /\ {r.op, req[p].op} \subseteq {"add", "delete"})
  /\ UNCHANGED <<bound, rows, expired, mailed, sid, added, proved, ended, faults>>

(* email/requestToken: an address that has a user is refused; a client may repeat its attempt, or make another. *)
RequestToken(q, u, n) ==
  /\ bound = NoUser
  /\ Open(q, [Idle EXCEPT !.op = "ask", !.at = "find", !.user = u, !.attempt = n])

(* submit_token, in both forms, with the code of the mail, for the session the client was answered. *)
SubmitToken(q, u) ==
  /\ sid[u] \in mailed
  /\ \E s \in RowOf(sid[u]) :
       /\ ~s.validated /\ s.id \notin expired
       /\ Open(q, [Idle EXCEPT !.op = "submit", !.at = "validate", !.user = u, !.session = s.id])

(* 3pid/add: the session must be validated; whether it has expired is not asked. *)
Add(q, u) ==
  \E s \in RowOf(sid[u]) :
    s.validated /\ Open(q, [Idle EXCEPT !.op = "add", !.at = "binding", !.user = u, !.session = s.id])

Delete(q, u) ==
  Open(q, [Idle EXCEPT !.op = "delete", !.at = "delete", !.user = u])

-----------------------------------------------------------------------------
(* createVerificationSession looks for the client's latest session: one that is validated is refused, one of this
   attempt or a later one is answered again without a mail, and an older one is replaced. A client has two sessions
   only when its requests overlapped; their times of creation tie or not, so either may be the latest. *)
FindSession(q) ==
  LET u == req[q].user IN
  /\ At(q, "find")
  /\ \/ Sessions(u) = {} /\ Goes(q, "insert")
     \/ \E s \in Sessions(u) :
          \/ s.validated /\ Ends(q)
          \/ ~s.validated /\ req[q].attempt <= s.attempt /\ req' = [req EXCEPT ![q].at = "answer", ![q].session = s.id]
          \/ ~s.validated /\ req[q].attempt > s.attempt /\ req' = [req EXCEPT ![q].at = "replace", ![q].session = s.id]
  /\ UNCHANGED <<bound, rows, expired, mailed, sid, added, proved, ended, met, faults>>

ReplaceSession(q) ==
  LET old == req[q].session IN
  /\ At(q, "replace") /\ Goes(q, "insert")
  /\ rows' = rows \ RowOf(old)
  /\ ended' = ended \cup {old}
  /\ UNCHANGED <<bound, expired, mailed, sid, added, proved, met, faults>>

InsertSession(q) ==
  /\ At(q, "insert")
  /\ req' = [req EXCEPT ![q].at = "mail", ![q].session = q]
  /\ rows' = rows \cup {[id |-> q, secret |-> req[q].user, attempt |-> req[q].attempt, validated |-> FALSE]}
  /\ UNCHANGED <<bound, expired, mailed, sid, added, proved, ended, met, faults>>

SendMail(q) ==
  /\ At(q, "mail") /\ Goes(q, "answer")
  /\ mailed' = mailed \cup {q}
  /\ UNCHANGED <<bound, rows, expired, sid, added, proved, ended, met, faults>>

(* The session of a mail that failed is deleted, though a retry may have been answered with it. *)
MailFails(q) ==
  /\ At(q, "mail") /\ faults < MaxFaults /\ faults' = faults + 1
  /\ Ends(q)
  /\ rows' = rows \ RowOf(q)
  /\ ended' = ended \cup {q}
  /\ UNCHANGED <<bound, expired, mailed, sid, added, proved, met>>

AnswerSid(q) ==
  /\ At(q, "answer") /\ Ends(q)
  /\ sid' = [sid EXCEPT ![req[q].user] = req[q].session]
  /\ UNCHANGED <<bound, rows, expired, mailed, added, proved, ended, met, faults>>

(* validateEmailToken's UPDATE, by the session's id. *)
Validate(q) ==
  LET s == req[q].session IN
  /\ At(q, "validate") /\ Ends(q)
  /\ rows' = {IF r.id = s THEN [r EXCEPT !.validated = TRUE] ELSE r : r \in rows}
  /\ proved' = proved \cup {req[q].user}
  /\ UNCHANGED <<bound, expired, mailed, sid, added, ended, met, faults>>

(* Faulty variant: that the address has another user is not asked. *)
CheckNoBinding(q) ==
  /\ At(q, "binding") /\ Goes(q, "bind")
  /\ UNCHANGED <<bound, rows, expired, mailed, sid, added, proved, ended, met, faults>>

CheckBinding(q) ==
  /\ At(q, "binding")
  /\ IF bound \in {NoUser, req[q].user} THEN Goes(q, "bind") ELSE Ends(q)
  /\ UNCHANGED <<bound, rows, expired, mailed, sid, added, proved, ended, met, faults>>

(* INSERT OR REPLACE, with the address as the key. *)
Bind(q) ==
  /\ At(q, "bind") /\ Goes(q, "finish")
  /\ bound' = req[q].user
  /\ UNCHANGED <<rows, expired, mailed, sid, added, proved, ended, met, faults>>

DropSession(q) ==
  LET u == req[q].user s == req[q].session IN
  /\ At(q, "finish") /\ Ends(q)
  /\ rows' = rows \ RowOf(s)
  /\ added' = added \cup {u} /\ ended' = ended \cup {s}
  /\ UNCHANGED <<bound, expired, mailed, sid, proved, met, faults>>

Unbind(q) ==
  LET u == req[q].user IN
  /\ At(q, "delete") /\ Ends(q)
  /\ bound' = IF bound = u THEN NoUser ELSE bound
  /\ added' = added \ {u}
  /\ UNCHANGED <<rows, expired, mailed, sid, proved, ended, met, faults>>

(* A statement fails, the Worker stops, or the answer is lost; the code of a session may then never be mailed. *)
Stop(q) ==
  LET r == req[q] IN
  /\ Begun(q) /\ r.at # "done" /\ faults < MaxFaults /\ faults' = faults + 1
  /\ Ends(q)
  /\ ended' = IF r.at = "mail" THEN ended \cup {q} ELSE ended
  /\ UNCHANGED <<bound, rows, expired, mailed, sid, added, proved, met>>

Expire ==
  /\ faults < MaxFaults /\ faults' = faults + 1
  /\ \E s \in rows : s.id \notin expired /\ expired' = expired \cup {s.id}
  /\ UNCHANGED <<bound, rows, mailed, req, sid, added, proved, ended, met>>

FirstSession ==
  CHOOSE name \in [Users -> {100 + n : n \in 1 .. Cardinality(Users)}] :
    \A u, v \in Users : name[u] = name[v] => u = v

(* Each user's client may have a session already, validated or not; a user without one may have the address. *)
ThreepidsInit ==
  \E had \in [Users -> {"nothing", "session", "validated"}] : LET name == FirstSession IN
    /\ bound \in {NoUser} \cup {u \in Users : had[u] = "nothing"}
    /\ rows = {[id |-> name[u], secret |-> u, attempt |-> 1, validated |-> had[u] = "validated"] :
                 u \in {v \in Users : had[v] # "nothing"}}
    /\ mailed = {s.id : s \in rows}
    /\ sid = [u \in Users |-> IF had[u] = "nothing" THEN NoSession ELSE name[u]]
    /\ proved = {u \in Users : had[u] = "validated" \/ u = bound}
    /\ added = {bound} \ {NoUser}
    /\ expired = {} /\ req = [q \in Requests |-> Idle]
    /\ ended = {} /\ met = FALSE /\ faults = 0

ThreepidsNext ==
  \/ Expire
  \/ \E q \in Requests :
       \/ \E u \in Users :
            \/ SubmitToken(q, u) \/ Add(q, u) \/ Delete(q, u)
            \/ \E n \in 1 .. MaxAttempt : RequestToken(q, u, n)
       \/ FindSession(q) \/ ReplaceSession(q) \/ InsertSession(q) \/ SendMail(q) \/ MailFails(q) \/ AnswerSid(q)
       \/ Validate(q) \/ CheckBinding(q) \/ Bind(q) \/ DropSession(q) \/ Unbind(q) \/ Stop(q)

ThreepidsSpec == ThreepidsInit /\ [][ThreepidsNext]_threepidVars

-----------------------------------------------------------------------------
(* Properties *)

(* A user who was answered that the address is theirs has it until they give it up: another takes it over only by
   a request to add it that overlapped. *)
AddressesKept == met \/ \A u \in added : bound = u

(* The address has a user who submitted the code of a mail. *)
AddressesProved == bound \in {NoUser} \cup proved

(* When its requests have ended, the session a client was answered last is there, and its code was mailed, unless
   a later attempt replaced it, it served, or its own mail failed or was not reached; so what a retry is answered is
   as good as the first answer. *)
SessionsUsable ==
  \A u \in Users :
    sid[u] \in ended \cup {NoSession} \/ (\E q \in Requests : req[q].user = u) \/ (RowOf(sid[u]) # {} /\ sid[u] \in mailed)

(* Addresses are verified, and kept by the user who verified them. *)
AddressesSound == AddressesKept /\ AddressesProved /\ SessionsUsable
=============================================================================
