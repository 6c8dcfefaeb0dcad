----------------------------- MODULE EventAuth -----------------------------
(***************************************************************************)
(* checkEventAuth (services/event-auth.ts): which events the current state *)
(* of a room allows.  The room state is a record of every user's           *)
(* membership, the join rule and the content of m.room.power_levels; a     *)
(* field a content leaves out is NoLevel.  The create event is always      *)
(* there, and power levels are integers, perhaps below the default of 0.   *)
(***************************************************************************)
EXTENDS Integers

CONSTANTS
  Users,
  Levels,                \* power levels in use
  NoLevel,               \* a level that is not given
  Nobody,                \* no join_authorised_via_users_server
  KnockingSupported,     \* behaviour of the room's version
  RestrictedJoinsSupported

ASSUME AuthAssumption ==
  /\ Levels \subseteq Int
  /\ NoLevel \notin Int
  /\ {KnockingSupported, RestrictedJoinsSupported} \subseteq BOOLEAN
  /\ Nobody \notin Users

Memberships == {"none", "join", "invite", "leave", "ban", "knock"}
JoinRules == {"public", "invite", "knock", "restricted", "knock_restricted"}

Level == Levels \cup {NoLevel}

(* RoomPowerLevelsContent; events is its entry for m.room.power_levels. *)
PowerLevels ==
  [users : [Users -> Level], users_default : Level, events : Level, state_default : Level,
   events_default : Level, ban : Level, kick : Level, invite : Level, redact : Level]

RoomStates == [member : [Users -> Memberships], rule : JoinRules, power : PowerLevels]

(* a ?? b *)
Or(a, b) == IF a = NoLevel THEN b ELSE a

(* getUserPowerLevel *)
PowerOf(pl, u) == Or(pl.users[u], Or(pl.users_default, 0))

(* getEventPowerLevel *)
Required(pl, type, isState) ==
  IF type = "power_levels" /\ pl.events # NoLevel THEN pl.events
  ELSE IF isState THEN Or(pl.state_default, 50) ELSE Or(pl.events_default, 0)

-----------------------------------------------------------------------------
(* checkMemberEvent: one operator per membership *)

Joined(st, u) == st.member[u] = "join"

JoinAllowed(ev, st) ==
  /\ ev.sender = ev.target
  /\ \/ st.member[ev.sender] \in {"join", "invite"}
     \/ st.rule = "public"
     \/ /\ RestrictedJoinsSupported /\ st.rule \in {"restricted", "knock_restricted"}
        /\ ev.authorised # Nobody /\ Joined(st, ev.authorised)
        /\ PowerOf(st.power, ev.authorised) >= Or(st.power.invite, 0)

InviteAllowed(ev, st) ==
  /\ Joined(st, ev.sender)
  /\ st.member[ev.target] \notin {"ban", "join"}
  /\ PowerOf(st.power, ev.sender) >= Or(st.power.invite, 0)

OwnLeaveAllowed(ev, st) ==
  \/ st.member[ev.sender] \in {"join", "invite"}
  \/ KnockingSupported /\ st.member[ev.sender] = "knock"

(* A leave of another user: an unban of a banned one, else a kick. *)
KickAllowed(ev, st) ==
  /\ Joined(st, ev.sender)
  /\ IF st.member[ev.target] = "ban"
       THEN PowerOf(st.power, ev.sender) >= Or(st.power.ban, 50)
       ELSE /\ PowerOf(st.power, ev.sender) >= Or(st.power.kick, 50)
            /\ PowerOf(st.power, ev.sender) > PowerOf(st.power, ev.target)

(* Faulty variant: an unban needs the kick level only. *)
KickAllowedByKickLevel(ev, st) ==
  /\ Joined(st, ev.sender)
  /\ PowerOf(st.power, ev.sender) >= Or(st.power.kick, 50)
  /\ st.member[ev.target] # "ban" => PowerOf(st.power, ev.sender) > PowerOf(st.power, ev.target)

(* Faulty variant: the unban of LeaveAllowed takes the kick level. *)
LeaveAllowedByKickLevel(ev, st) ==
  IF ev.sender = ev.target THEN OwnLeaveAllowed(ev, st) ELSE KickAllowedByKickLevel(ev, st)

LeaveAllowed(ev, st) ==
  IF ev.sender = ev.target THEN OwnLeaveAllowed(ev, st) ELSE KickAllowed(ev, st)

BanAllowed(ev, st) ==
  /\ Joined(st, ev.sender)
  /\ PowerOf(st.power, ev.sender) >= Or(st.power.ban, 50)
  /\ PowerOf(st.power, ev.sender) > PowerOf(st.power, ev.target)

KnockAllowed(ev, st) ==
  /\ KnockingSupported
  /\ ev.sender = ev.target
  /\ st.rule \in {"knock", "knock_restricted"}
  /\ st.member[ev.sender] \notin {"ban", "join"}

(* Faulty variant: a membership the switch does not know is let through. *)
MemberAllowedByDefault(ev, st) ==
  \/ ev.content = "join" /\ JoinAllowed(ev, st)
  \/ ev.content = "leave" /\ LeaveAllowed(ev, st)
  \/ ev.content \notin {"join", "leave"}

MemberAllowed(ev, st) ==
  \/ ev.content = "join" /\ JoinAllowed(ev, st)
  \/ ev.content = "invite" /\ InviteAllowed(ev, st)
  \/ ev.content = "leave" /\ LeaveAllowed(ev, st)
  \/ ev.content = "ban" /\ BanAllowed(ev, st)
  \/ ev.content = "knock" /\ KnockAllowed(ev, st)

-----------------------------------------------------------------------------
(* checkPowerLevelChange *)

(* Faulty variant: only the other users' old levels are compared. *)
UserLevelsOldOnly(ev, st) ==
  \A u \in Users :
    (ev.content.users[u] # NoLevel /\ u # ev.sender /\ PowerOf(st.power, u) # ev.content.users[u])
      => PowerOf(st.power, ev.sender) > PowerOf(st.power, u)

(* Faulty variant: another user's level is only capped. *)
UserLevelsCapOnly(ev, st) ==
  \A u \in Users :
    ev.content.users[u] # NoLevel => ev.content.users[u] <= PowerOf(st.power, ev.sender)

(* No listed user above the sender; another user's level only from above it. *)
UserLevelsAllowed(ev, st) ==
  \A u \in Users :
    LET new == ev.content.users[u]
        old == PowerOf(st.power, u)
        own == PowerOf(st.power, ev.sender)
    IN  new # NoLevel => new <= own /\ (old # new /\ u # ev.sender => own > old)

FieldLevelsAllowed(ev, st) ==
  LET pl == ev.content
  IN  \A v \in {pl.ban, pl.events_default, pl.invite, pl.kick, pl.redact, pl.state_default,
                pl.users_default, pl.events} :
        v # NoLevel => v <= PowerOf(st.power, ev.sender)

PowerLevelChangeAllowed(ev, st) == UserLevelsAllowed(ev, st) /\ FieldLevelsAllowed(ev, st)

-----------------------------------------------------------------------------
(* checkEventAuth.  Events are records of type, sender and content, member
   events also of target (the state key) and authorised. *)
Allowed(ev, st) ==
  IF ev.type = "member" THEN MemberAllowed(ev, st)
  ELSE
    /\ Joined(st, ev.sender)
    /\ CASE ev.type = "third_party_invite" ->
              PowerOf(st.power, ev.sender) >= Or(st.power.invite, 0)
         [] ev.type \in {"join_rules", "power_levels"} ->
              /\ PowerOf(st.power, ev.sender) >= Required(st.power, ev.type, TRUE)
              /\ ev.type = "power_levels" => PowerLevelChangeAllowed(ev, st)
         [] ev.type \in {"message", "redaction"} ->
              /\ PowerOf(st.power, ev.sender) >= Required(st.power, ev.type, FALSE)
              /\ ev.type = "redaction"
                   => PowerOf(st.power, ev.sender) >= Or(st.power.redact, 50)

(* The state after an allowed event: its entry of the state map is replaced. *)
After(ev, st) ==
  CASE ev.type = "member" -> [st EXCEPT !.member[ev.target] = ev.content]
    [] ev.type = "join_rules" -> [st EXCEPT !.rule = ev.content]
    [] ev.type = "power_levels" -> [st EXCEPT !.power = ev.content]
    [] OTHER -> st
=============================================================================
