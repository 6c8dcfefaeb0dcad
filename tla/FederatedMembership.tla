------------------------ MODULE FederatedMembership ------------------------
(***************************************************************************)
(* What other servers do to the memberships of a room of this one outside  *)
(* /send (api/federation.ts): make_join, send_join, send_leave and invite, *)
(* which store nothing, send_knock and exchange_third_party_invite, which  *)
(* write the event, room_state and room_memberships in three statements of *)
(* their own and not through storeEvent.                                   *)
(*                                                                         *)
(* A remote server repeats a request whose answer it did not get, so a     *)
(* user's knock keeps its event id.  Members and moderators of this server *)
(* change memberships meanwhile; RoomMembership has the steps of those     *)
(* handlers, here each is one step.                                        *)
(***************************************************************************)
EXTENDS Naturals

CONSTANTS
  Guests,       \* users of other servers
  Calls,        \* requests of their servers
  MaxLocal,     \* bound: changes by members and moderators
  MaxFailures   \* bound: failed statements

VARIABLES
  joinRule,    \* the room's join rule
  token,       \* guests an m.room.third_party_invite in room_state waits for
  stored,      \* member events in the events table, for every guest
  state,       \* room_state: the member event of every guest
  row,         \* room_memberships
  call,        \* the requests
  local, failures,
  torn,        \* guests with a write that stopped half-way or crossed another (history)
  late         \* guests written to on the strength of a row that had changed (history)

memberVars == <<joinRule, token, stored, state, row, call, local, failures, torn, late>>

(* "beside": the exchanges that were going on when this one found its invitation (history).
   A member event: the membership and a number that tells events apart. *)
NoEvent == [m |-> "leave", id |-> 0]
Knock == [m |-> "knock", id |-> 0]
Invite(c) == [m |-> "invite", id |-> c]

Operations == {"make_join", "send_join", "make_leave", "send_leave", "invite",
               "make_knock", "send_knock", "exchange"}
NewCall == [op |-> "none", who |-> "none", step |-> "new", saw |-> NoEvent, beside |-> {}]

Goto(c, step) == call' = [call EXCEPT ![c].step = step]
Refuse(c) == Goto(c, "refused")
Answer(c) == Goto(c, "ok")
EventOf(c) == IF call[c].op = "send_knock" THEN Knock ELSE Invite(c)
Who(c) == call[c].who
Writing(g) == {c \in Calls : Who(c) = g /\ call[c].step \in {"state", "row"}}
Exchanging(c) == {d \in Calls \ {c} : call[d].op = "exchange" /\ Who(d) = Who(c)
                                       /\ call[d].step \in {"event", "state", "row", "consume"}}

-----------------------------------------------------------------------------
Receive(c, op, g) ==
  /\ call[c].step = "new"
  /\ call' = [call EXCEPT ![c].op = op, ![c].who = g, ![c].step = "check"]
  /\ UNCHANGED <<joinRule, token, stored, state, row, local, failures, torn, late>>

(* make_join: a template from the current state, for whoever asks. *)
MakeJoin(c) ==
  /\ call[c].op = "make_join" /\ call[c].step = "check"
  /\ Answer(c)
  /\ UNCHANGED <<joinRule, token, stored, state, row, local, failures, torn, late>>

(* send_join answers with the state of the room and one step of its auth chain; the join event
   is sent back and not stored. *)
SendJoin(c) ==
  /\ call[c].op = "send_join" /\ call[c].step = "check"
  /\ Answer(c)
  /\ UNCHANGED <<joinRule, token, stored, state, row, local, failures, torn, late>>

(* make_leave: a template for a user with a member event, send_leave: an answer. *)
Leave(c) ==
  /\ call[c].op \in {"make_leave", "send_leave"} /\ call[c].step = "check"
  /\ IF call[c].op = "make_leave" /\ state[Who(c)] = NoEvent THEN Refuse(c) ELSE Answer(c)
  /\ UNCHANGED <<joinRule, token, stored, state, row, local, failures, torn, late>>

(* invite: the invitation of a user of this server is signed and sent back, and not stored. *)
SignInvite(c) ==
  /\ call[c].op = "invite" /\ call[c].step = "check"
  /\ Answer(c)
  /\ UNCHANGED <<joinRule, token, stored, state, row, local, failures, torn, late>>

(* make_knock and send_knock: the room must take knocks ... *)
CheckRule(c) ==
  /\ call[c].op \in {"make_knock", "send_knock"} /\ call[c].step = "check"
  /\ IF joinRule = "knock" THEN Goto(c, "member") ELSE Refuse(c)
  /\ UNCHANGED <<joinRule, token, stored, state, row, local, failures, torn, late>>

(* Faulty variant: only a member is refused. *)
CheckMemberNotBan(c) ==
  /\ call[c].step = "member"
  /\ IF row[Who(c)].m = "join" THEN Refuse(c)
     ELSE IF call[c].op = "make_knock" THEN Answer(c)
     ELSE call' = [call EXCEPT ![c].step = "event", ![c].saw = row[Who(c)]]
  /\ UNCHANGED <<joinRule, token, stored, state, row, local, failures, torn, late>>

(* ... and the user be neither banned nor a member. *)
CheckMember(c) ==
  /\ call[c].step = "member"
  /\ IF row[Who(c)].m \in {"ban", "join"} THEN Refuse(c)
     ELSE IF call[c].op = "make_knock" THEN Answer(c)
     ELSE call' = [call EXCEPT ![c].step = "event", ![c].saw = row[Who(c)]]
  /\ UNCHANGED <<joinRule, token, stored, state, row, local, failures, torn, late>>

(* Faulty variant: the invitation that is used up is not looked for. *)
FindNoToken(c) ==
  /\ call[c].op = "exchange" /\ call[c].step = "check"
  /\ call' = [call EXCEPT ![c].step = "event", ![c].saw = row[Who(c)], ![c].beside = Exchanging(c)]
  /\ UNCHANGED <<joinRule, token, stored, state, row, local, failures, torn, late>>

(* exchange_third_party_invite: the m.room.third_party_invite of the token; its signature
   is right.  The membership of the user is not looked at. *)
FindToken(c) ==
  /\ call[c].op = "exchange" /\ call[c].step = "check"
  /\ IF Who(c) \in token
     THEN call' = [call EXCEPT ![c].step = "event", ![c].saw = row[Who(c)], ![c].beside = Exchanging(c)]
     ELSE Refuse(c)
  /\ UNCHANGED <<joinRule, token, stored, state, row, local, failures, torn, late>>

(* INSERT OR IGNORE INTO events. *)
InsertEvent(c) ==
  /\ call[c].step = "event"
  /\ stored' = [stored EXCEPT ![Who(c)] = @ \cup {EventOf(c)}]
  /\ Goto(c, "state")
  /\ UNCHANGED <<joinRule, token, state, row, local, failures, torn, late>>

(* INSERT OR REPLACE INTO room_state. *)
SetState(c) ==
  LET g == Who(c) IN
  /\ call[c].step = "state"
  /\ state' = [state EXCEPT ![g] = EventOf(c)]
  /\ torn' = IF Writing(g) = {c} THEN torn ELSE torn \cup {g}
  /\ late' = IF row[g] = call[c].saw THEN late ELSE late \cup {g}
  /\ Goto(c, "row")
  /\ UNCHANGED <<joinRule, token, stored, row, local, failures>>

(* Faulty variant: a plain INSERT OR IGNORE, which keeps the row there is. *)
KeepRow(c) ==
  LET g == Who(c) IN
  /\ call[c].step = "row"
  /\ row' = IF row[g] = NoEvent THEN [row EXCEPT ![g] = EventOf(c)] ELSE row
  /\ Goto(c, IF call[c].op = "exchange" THEN "consume" ELSE "ok")
  /\ UNCHANGED <<joinRule, token, stored, state, local, failures, torn, late>>

(* INSERT OR REPLACE INTO room_memberships. *)
SetRow(c) ==
  LET g == Who(c) IN
  /\ call[c].step = "row"
  /\ row' = [row EXCEPT ![g] = EventOf(c)]
  /\ Goto(c, IF call[c].op = "exchange" THEN "consume" ELSE "ok")
  /\ UNCHANGED <<joinRule, token, stored, state, local, failures, torn, late>>

(* The invitation is used up: DELETE FROM room_state. *)
ConsumeToken(c) ==
  /\ call[c].step = "consume"
  /\ token' = token \ {Who(c)}
  /\ Answer(c)
  /\ UNCHANGED <<joinRule, stored, state, row, local, failures, torn, late>>

(* A failed statement is logged: send_knock answers as if it had succeeded, the exchange fails. *)
StatementFails(c) ==
  /\ call[c].step \in {"event", "state", "row", "consume"} /\ failures < MaxFailures
  /\ failures' = failures + 1
  /\ torn' = IF call[c].step = "row" THEN torn \cup {Who(c)} ELSE torn
  /\ Goto(c, IF call[c].op = "send_knock" THEN "ok" ELSE "failed")
  /\ UNCHANGED <<joinRule, token, stored, state, row, local, late>>

-----------------------------------------------------------------------------
(* A member or a moderator of this server, or the guest through /send: a membership the rules
   of event authorization allow. *)
LocalChange(g, m) ==
  LET e == [m |-> m, id |-> 10 + local] IN
  /\ local < MaxLocal /\ row[g].m # m
  /\ m = "join" => row[g].m = "invite"
  /\ m = "invite" => row[g].m # "ban" /\ row[g].m # "join"
  /\ local' = local + 1
  /\ stored' = [stored EXCEPT ![g] = @ \cup {e}]
  /\ state' = [state EXCEPT ![g] = e]
  /\ row' = [row EXCEPT ![g] = e]
  /\ torn' = IF Writing(g) = {} THEN torn ELSE torn \cup {g}
  /\ UNCHANGED <<joinRule, token, call, failures, late>>

(* A moderator changes the join rule. *)
ChangeRule(rule) ==
  /\ local < MaxLocal /\ joinRule # rule
  /\ local' = local + 1 /\ joinRule' = rule
  /\ UNCHANGED <<token, stored, state, row, call, failures, torn, late>>

-----------------------------------------------------------------------------
MemberInit ==
  /\ joinRule \in {"knock", "invite"}
  /\ token \in SUBSET Guests
  /\ stored = [g \in Guests |-> {NoEvent}]
  /\ state = [g \in Guests |-> NoEvent]
  /\ row = [g \in Guests |-> NoEvent]
  /\ call = [c \in Calls |-> NewCall]
  /\ local = 0 /\ failures = 0
  /\ torn = {} /\ late = {}

HandleCall(c) ==
  \/ MakeJoin(c) \/ SendJoin(c) \/ Leave(c) \/ SignInvite(c)
  \/ CheckRule(c) \/ CheckMember(c) \/ FindToken(c)
  \/ InsertEvent(c) \/ SetState(c) \/ SetRow(c) \/ ConsumeToken(c) \/ StatementFails(c)

MemberNext ==
  \/ \E c \in Calls, op \in Operations, g \in Guests : Receive(c, op, g)
  \/ \E c \in Calls : HandleCall(c)
  \/ \E g \in Guests, m \in {"join", "invite", "leave", "ban"} : LocalChange(g, m)
  \/ \E rule \in {"knock", "invite"} : ChangeRule(rule)

MemberSpec == MemberInit /\ [][MemberNext]_memberVars

-----------------------------------------------------------------------------
(* Properties *)

(* send_knock and the exchange keep the two tables in step: room_memberships has the event
   room_state has, and it is in the events table, unless a write for the guest failed or
   crossed another one. *)
TablesAgree ==
  \A g \in Guests \ torn :
    /\ state[g] \in stored[g]
    /\ Writing(g) = {} => row[g] = state[g]

(* A knock does not end a ban, unless it was checked before the ban and stored after it. *)
BansOutlastKnocks ==
  [][\A g \in Guests : row[g].m = "ban" /\ row'[g].m = "knock" => g \in late \cup torn]_memberVars

(* A third-party invitation invites once, even when its exchange is repeated, unless one
   of them began before the other had used the invitation up, or a statement failed. *)
InvitesOnce ==
  \A c, d \in Calls :
    /\ c # d /\ Who(c) = Who(d)
    /\ \A e \in {c, d} : call[e].op = "exchange" /\ call[e].step = "ok"
    => failures > 0 \/ d \in call[c].beside \/ c \in call[d].beside

(* The guests' memberships are those that other servers and the room agreed on. *)
GuestsSound == TablesAgree /\ InvitesOnce
=============================================================================
