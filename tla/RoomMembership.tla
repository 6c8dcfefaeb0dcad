--------------------------- MODULE RoomMembership ---------------------------
(***************************************************************************)
(* Membership of one local room (api/rooms.ts, services/rooms.ts): join,   *)
(* leave, knock, invite, kick, ban, unban, forget and PUT state, as        *)
(* concurrent requests over D1.                                            *)
(*                                                                         *)
(* A handler reads rows one statement after the other and refuses on what  *)
(* it read; then it stores the event, makes it the current state           *)
(* (room_state) and writes the membership row (room_memberships), three    *)
(* statements that other requests may come between and a stopped worker    *)
(* may leave unfinished.  The endpoints check the membership row; PUT      *)
(* state also runs checkEventAuth (EventAuth) on room_state.               *)
(*                                                                         *)
(* Requests are numbered in the order they arrive, and a request's number  *)
(* names the event it makes; 0 is the creator's own join.  Notifications,  *)
(* display names and the event graph are left out.                         *)
(***************************************************************************)
EXTENDS EventAuth, FiniteSets, Sequences

CONSTANTS
  Creator,
  InitialRule,     \* join rule the room starts with
  InitialPower,    \* its power levels
  PowerContents,   \* contents of m.room.power_levels PUT state sends
  Operations,      \* the kinds of request of the run
  MaxRequests,     \* bound: requests in all, when they run one after the other
  MaxOverlapping,  \* bound: requests in all, when some overlap or one stops half-way
  MaxActive,       \* bound: requests at the same time
  MaxStops         \* bound: requests whose worker stops half-way

Requests == 1 .. MaxRequests

PutOperations == {"put_member", "put_rule", "put_power"}
Endpoints == {"join", "leave", "knock", "invite", "kick", "ban", "unban", "forget"}

ASSUME RoomAssumption ==
  /\ Creator \in Users
  /\ InitialRule \in JoinRules
  /\ InitialPower \in PowerLevels /\ PowerContents \subseteq PowerLevels
  /\ Operations \subseteq Endpoints \cup PutOperations
  /\ MaxOverlapping <= MaxRequests
  /\ {MaxRequests, MaxOverlapping, MaxActive, MaxStops} \subseteq Nat

VARIABLES
  st,        \* room_state: members, join rule and power levels
  stEvent,   \* the event behind every member entry of room_state
  row,       \* room_memberships: [membership, event] of every user
  events,    \* member events stored so far: [target, membership] by number
  knocks,    \* room_knocks: users with a row
  req,       \* every request: what it asks, how far it is, what it has read
  arrived,   \* requests that have arrived
  overlap,   \* requests met, or one stopped half-way (history)
  banned,    \* users banned and not unbanned, kicked or invited since (history)
  forgot,    \* users who forgot the room while banned (history)
  stray,     \* events that checkEventAuth rejects where they were stored, with
             \* what room_state then said of their target (history)
  stops

roomVars == <<st, stEvent, row, events, knocks>>
historyVars == <<banned, forgot, stray>>
vars == <<roomVars, req, arrived, overlap, historyVars, stops>>

-----------------------------------------------------------------------------
(* Requests *)

NoRow == [membership |-> "none", event |-> 0]
NoView == [me |-> "none", target |-> "none", rule |-> "invite", power |-> InitialPower]
Idle == [op |-> "none", me |-> Creator, target |-> Creator, content |-> "none",
         done |-> 0, phase |-> "idle", view |-> NoView]

(* The handlers: what each reads before it decides, in its order, and the
   membership its event gives the target.  Reads that only fill auth_events
   and prev_events are left out.  A join reads the membership again in
   joinUserToRoom; PUT state reads room_state as a whole. *)
Join   == [reads |-> <<"me", "rule", "me">>, membership |-> "join"]
Leave  == [reads |-> <<"me">>, membership |-> "leave"]
Knock  == [reads |-> <<"me", "rule">>, membership |-> "knock"]
Invite == [reads |-> <<"me", "power", "target">>, membership |-> "invite"]
Kick   == [reads |-> <<"me", "target", "power">>, membership |-> "leave"]
Ban    == [reads |-> <<"me", "power">>, membership |-> "ban"]
Unban  == [reads |-> <<"me", "target", "power">>, membership |-> "leave"]
Forget == [reads |-> <<"me">>, membership |-> "none"]
PutState == [reads |-> <<"me", "state">>, membership |-> "none"]

Handler(op) ==
  IF op \in PutOperations THEN PutState
  ELSE [join |-> Join, leave |-> Leave, knock |-> Knock, invite |-> Invite, kick |-> Kick,
        ban |-> Ban, unban |-> Unban, forget |-> Forget][op]

(* The event a request stores. *)
EventOf(r) ==
  IF r.op \in {"put_rule", "put_power"}
    THEN [type |-> IF r.op = "put_rule" THEN "join_rules" ELSE "power_levels",
          sender |-> r.me, content |-> r.content]
    ELSE [type |-> "member", sender |-> r.me, target |-> r.target, authorised |-> Nobody,
          content |-> IF r.op = "put_member" THEN r.content ELSE Handler(r.op).membership]

(* After its n-th read a handler may stop: it refuses, or has nothing to do.
   Of r.view, "me" and "target" are the rows of the sender and the target. *)
Mine(r) == PowerOf(r.view.power, r.me)
Theirs(r) == PowerOf(r.view.power, r.target)

(* Faulty variant: a join without the check for a ban. *)
JoinStopsWithoutBan(r, n) ==
  \/ n = 2 /\ r.view.rule # "public" /\ r.view.me # "invite"
  \/ n = 3 /\ r.view.me = "join"

JoinStops(r, n) ==
  \/ n = 1 /\ r.view.me = "ban"
  \/ n = 2 /\ r.view.rule # "public" /\ r.view.me # "invite"
  \/ n = 3 /\ r.view.me = "join"

LeaveStops(r, n) == r.view.me # "join"

KnockStops(r, n) ==
  \/ r.view.me \in {"join", "ban"}
  \/ n = 2 /\ r.view.rule \notin {"knock", "knock_restricted"}

InviteStops(r, n) ==
  \/ r.view.me # "join"
  \/ n = 2 /\ Mine(r) < Or(r.view.power.invite, 50)
  \/ n = 3 /\ r.view.target \in {"join", "invite"}

(* Faulty variant: a kick with the kick level alone. *)
KickStopsByLevel(r, n) ==
  \/ r.view.me # "join"
  \/ n = 2 /\ r.view.target # "join"
  \/ n = 3 /\ Mine(r) < Or(r.view.power.kick, 50)

KickStops(r, n) ==
  \/ r.view.me # "join"
  \/ n = 2 /\ r.view.target # "join"
  \/ n = 3 /\ (Mine(r) < Or(r.view.power.kick, 50) \/ Mine(r) <= Theirs(r))

BanStops(r, n) ==
  \/ r.view.me # "join"
  \/ n = 2 /\ (Mine(r) < Or(r.view.power.ban, 50) \/ Mine(r) <= Theirs(r))

UnbanStops(r, n) ==
  \/ r.view.me # "join"
  \/ n = 2 /\ r.view.target # "ban"
  \/ n = 3 /\ Mine(r) < Or(r.view.power.ban, 50)

ForgetStops(r, n) == r.view.me = "join"

(* Faulty variant: PUT state without checkEventAuth. *)
PutStateStopsWithoutAuth(r, n) == r.view.me # "join"

PutStateStops(r, n) ==
  \/ r.view.me # "join"
  \/ n = 2 /\ ~ Allowed(EventOf(r), st)

Stops(r, n) ==
  \/ r.op = "join" /\ JoinStops(r, n)
  \/ r.op = "leave" /\ LeaveStops(r, n)
  \/ r.op = "knock" /\ KnockStops(r, n)
  \/ r.op = "invite" /\ InviteStops(r, n)
  \/ r.op = "kick" /\ KickStops(r, n)
  \/ r.op = "ban" /\ BanStops(r, n)
  \/ r.op = "unban" /\ UnbanStops(r, n)
  \/ r.op = "forget" /\ ForgetStops(r, n)
  \/ r.op \in PutOperations /\ PutStateStops(r, n)

Active == {q \in Requests : req[q].phase \notin {"idle", "done"}}

-----------------------------------------------------------------------------
(* Steps *)

(* The next request arrives. *)
Arrive(op, me, target, content) ==
  /\ arrived < IF overlap \/ Active # {} THEN MaxOverlapping ELSE MaxRequests
  /\ Cardinality(Active) < MaxActive
  /\ op \in {"join", "leave", "knock", "forget"} => target = me
  /\ arrived' = arrived + 1
  /\ req' = [req EXCEPT ![arrived + 1] =
               [op |-> op, me |-> me, target |-> target, content |-> content,
                done |-> 0, phase |-> "reading", view |-> NoView]]
  /\ overlap' = (overlap \/ Active # {})
  /\ UNCHANGED <<roomVars, historyVars, stops>>

(* One SELECT, and what the handler does on its result. *)
Read(q) ==
  LET r == req[q]
      n == r.done + 1
      what == Handler(r.op).reads[n]
      seen == CASE what = "me" -> [r.view EXCEPT !.me = row[r.me].membership]
                [] what = "target" -> [r.view EXCEPT !.target = row[r.target].membership]
                [] what = "rule" -> [r.view EXCEPT !.rule = st.rule]
                [] what = "power" -> [r.view EXCEPT !.power = st.power]
                [] what = "state" -> r.view
      after == [r EXCEPT !.done = n, !.view = seen]
  IN  /\ r.phase = "reading"
      /\ req' = [req EXCEPT ![q] =
                   IF Stops(after, n) THEN [Idle EXCEPT !.phase = "done"]
                   ELSE IF n = Len(Handler(r.op).reads) THEN [after EXCEPT !.phase = "writing"]
                   ELSE after]
      /\ UNCHANGED <<roomVars, arrived, overlap, historyVars, stops>>

(* storeEvent: INSERT INTO events. *)
StoreEvent(q) ==
  LET r == req[q] IN
  /\ r.phase = "writing" /\ r.op # "forget"
  /\ events' = IF EventOf(r).type = "member"
                 THEN [events EXCEPT ![q] = [target |-> r.target, membership |-> EventOf(r).content]]
                 ELSE events
  /\ stray' = IF Allowed(EventOf(r), st) THEN stray
              ELSE stray \cup {[event |-> q, was |-> st.member[r.target]]}
  /\ req' = [req EXCEPT ![q].phase = "stored"]
  /\ UNCHANGED <<st, stEvent, row, knocks, arrived, overlap, banned, forgot, stops>>

(* storeEvent: INSERT OR REPLACE INTO room_state. *)
SetState(q) ==
  LET r == req[q]
      member == EventOf(r).type = "member"
  IN
  /\ r.phase = "stored"
  /\ st' = After(EventOf(r), st)
  /\ stEvent' = IF member THEN [stEvent EXCEPT ![r.target] = q] ELSE stEvent
  /\ req' = [req EXCEPT ![q] = IF member THEN [r EXCEPT !.phase = "current"]
                               ELSE [Idle EXCEPT !.phase = "done"]]
  /\ UNCHANGED <<row, events, knocks, arrived, overlap, historyVars, stops>>

(* Faulty variant: the row of the sender is written, not the target's. *)
UpdateOwnRow(q) ==
  LET r == req[q] IN
  /\ r.phase = "current"
  /\ row' = [row EXCEPT ![r.me] = [membership |-> EventOf(r).content, event |-> q]]
  /\ req' = [req EXCEPT ![q] = [Idle EXCEPT !.phase = "done"]]
  /\ UNCHANGED <<st, stEvent, events, knocks, arrived, overlap, historyVars, stops>>

(* Faulty variant: the row is written before the event is stored. *)
UpdateRowFirst(q) ==
  LET r == req[q] IN
  /\ r.phase = "writing" /\ r.op # "forget" /\ EventOf(r).type = "member"
  /\ row' = [row EXCEPT ![r.target] = [membership |-> EventOf(r).content, event |-> q]]
  /\ UNCHANGED <<st, stEvent, events, knocks, req, arrived, overlap, historyVars, stops>>

(* updateMembership; a knock goes on to room_knocks. *)
UpdateRow(q) ==
  LET r == req[q] IN
  /\ r.phase = "current"
  /\ row' = [row EXCEPT ![r.target] = [membership |-> EventOf(r).content, event |-> q]]
  /\ banned' = CASE EventOf(r).content = "ban" -> banned \cup {r.target}
                 [] EventOf(r).content \in {"leave", "invite"} -> banned \ {r.target}
                 [] OTHER -> banned
  /\ req' = [req EXCEPT ![q] = IF r.op = "knock" THEN [r EXCEPT !.phase = "knocking"]
                               ELSE [Idle EXCEPT !.phase = "done"]]
  /\ UNCHANGED <<st, stEvent, events, knocks, arrived, overlap, forgot, stray, stops>>

(* knock: INSERT OR REPLACE INTO room_knocks, from which nothing is removed. *)
AddKnock(q) ==
  /\ req[q].phase = "knocking"
  /\ knocks' = knocks \cup {req[q].me}
  /\ req' = [req EXCEPT ![q] = [Idle EXCEPT !.phase = "done"]]
  /\ UNCHANGED <<st, stEvent, row, events, arrived, overlap, historyVars, stops>>

(* forget: DELETE FROM room_memberships. *)
DeleteRow(q) ==
  LET r == req[q] IN
  /\ r.phase = "writing" /\ r.op = "forget"
  /\ row' = [row EXCEPT ![r.me] = NoRow]
  /\ forgot' = IF r.me \in banned THEN forgot \cup {r.me} ELSE forgot
  /\ req' = [req EXCEPT ![q] = [Idle EXCEPT !.phase = "done"]]
  /\ UNCHANGED <<st, stEvent, events, knocks, arrived, overlap, banned, stray, stops>>

(* The worker stops between two statements. *)
StopRequest(q) ==
  /\ q \in Active /\ stops < MaxStops
  /\ stops' = stops + 1
  /\ overlap' = TRUE
  /\ req' = [req EXCEPT ![q] = [Idle EXCEPT !.phase = "done"]]
  /\ UNCHANGED <<roomVars, arrived, historyVars>>

-----------------------------------------------------------------------------
Init ==
  /\ st = [member |-> [u \in Users |-> IF u = Creator THEN "join" ELSE "none"],
           rule |-> InitialRule, power |-> InitialPower]
  /\ stEvent = [u \in Users |-> 0]
  /\ row = [u \in Users |-> [membership |-> IF u = Creator THEN "join" ELSE "none", event |-> 0]]
  /\ events = [q \in Requests |-> [target |-> Creator, membership |-> "none"]]
  /\ req = [q \in Requests |-> Idle]
  /\ knocks = {}
  /\ arrived = 0 /\ stops = 0
  /\ overlap = FALSE
  /\ banned = {} /\ forgot = {} /\ stray = {}

Contents(op) ==
  CASE op = "put_member" -> {"join", "invite", "leave", "ban", "knock", "other"}
    [] op = "put_rule" -> JoinRules
    [] op = "put_power" -> PowerContents
    [] OTHER -> {"none"}

NextRequest ==
  \E op \in Operations, me, target \in Users :
    \E content \in Contents(op) : Arrive(op, me, target, content)

RequestStep(q) ==
  \/ Read(q)
  \/ StoreEvent(q)
  \/ SetState(q)
  \/ UpdateRow(q)
  \/ AddKnock(q)
  \/ DeleteRow(q)
  \/ StopRequest(q)

Next == NextRequest \/ \E q \in Requests : RequestStep(q)

Spec == Init /\ [][Next]_vars

-----------------------------------------------------------------------------
(* Properties *)

(* Every variable holds a value of its type. *)
TypeOK ==
  /\ st \in RoomStates
  /\ stEvent \in [Users -> 0 .. MaxRequests]
  /\ \A u \in Users : row[u].membership \in Memberships /\ row[u].event \in 0 .. MaxRequests
  /\ knocks \subseteq Users
  /\ arrived \in 0 .. MaxRequests /\ stops \in 0 .. MaxStops
  /\ overlap \in BOOLEAN
  /\ banned \subseteq Users /\ forgot \subseteq Users
  /\ stray \subseteq [event : Requests, was : Memberships]

(* In every interleaving and whichever worker stops where, a membership row
   points to a stored event about that user with that membership, so that the
   auth_events a handler copies from it exist and say what it read. *)
RowsHaveEvents ==
  \A u \in Users : row[u].event # 0 =>
    events[row[u].event] = [target |-> u, membership |-> row[u].membership]

(* Requests that run one after the other leave room_memberships and room_state
   in agreement, but for users who forgot the room. *)
RowsMirrorState ==
  (~ overlap /\ Active = {}) =>
    \A u \in Users :
      \/ row[u] = [membership |-> st.member[u], event |-> stEvent[u]]
      \/ row[u] = NoRow /\ st.member[u] # "join"

(* A membership row has its event, always, and is that of the current state when requests do not overlap. *)
RowsSound == RowsHaveEvents /\ RowsMirrorState

(* Requests that run one after the other store only events checkEventAuth
   allows in the current state: the endpoints' own checks are as strict as the
   authorization rules, for users who did not forget a ban and are not invited
   while banned. *)
HandlersAuthorize ==
  \A s \in stray :
    overlap \/ forgot # {} \/ (events[s.event].membership = "invite" /\ s.was = "ban")

(* The endpoints and PUT state keep a banned user out until the ban is lifted,
   when requests do not overlap and the user did not forget the room. *)
BansHold ==
  ~ overlap => \A u \in banned \ forgot : row[u].membership # "join"
=============================================================================
