------------------------------ MODULE AuthRoom ------------------------------
(***************************************************************************)
(* A room whose state moves by the events checkEventAuth allows, one after *)
(* the other: what PUT /rooms/{roomId}/state, the inbound federation       *)
(* handler and state resolution all rely on.  It starts as                 *)
(* createInitialRoomEvents leaves it.                                      *)
(***************************************************************************)
EXTENDS EventAuth

CONSTANTS
  Creator,        \* the user who created the room
  Preset,         \* "public_chat" or "private_chat"
  PowerContents   \* contents of m.room.power_levels the run sends

ASSUME RoomAssumption ==
  /\ Creator \in Users
  /\ {0, 50, 100} \subseteq Levels
  /\ Preset \in {"public_chat", "private_chat"}
  /\ PowerContents \subseteq PowerLevels

VARIABLES
  st,    \* the room state
  last   \* the event applied last (history)

vars == <<st, last>>

(* Member events as clients send them; "other" is any membership the server
   does not know. *)
MemberEvents ==
  [type : {"member"}, sender : Users, target : Users, authorised : Users \cup {Nobody},
   content : {"join", "invite", "leave", "ban", "knock", "other"}]

RuleEvents == [type : {"join_rules"}, sender : Users, content : JoinRules]
PowerEvents == [type : {"power_levels"}, sender : Users, content : PowerContents]
Messages ==
  [type : {"message", "redaction", "third_party_invite"}, sender : Users, content : {"any"}]

InitialPower ==
  [users |-> [u \in Users |-> IF u = Creator THEN 100 ELSE NoLevel],
   users_default |-> 0, events |-> 100, state_default |-> 50, events_default |-> 0,
   ban |-> 50, kick |-> 50, redact |-> 50,
   invite |-> IF Preset = "public_chat" THEN 0 ELSE 50]

InitialState ==
  [member |-> [u \in Users |-> IF u = Creator THEN "join" ELSE "none"],
   rule |-> IF Preset = "public_chat" THEN "public" ELSE "invite",
   power |-> InitialPower]

Init ==
  /\ st = InitialState
  /\ last = [type |-> "create", sender |-> Creator]

Apply(ev) ==
  /\ Allowed(ev, st)
  /\ st' = After(ev, st)
  /\ last' = [type |-> ev.type, sender |-> ev.sender]

SendMember == \E ev \in MemberEvents : Apply(ev)
SendRule == \E ev \in RuleEvents : Apply(ev)
SendPower == \E ev \in PowerEvents : Apply(ev)
SendOther == \E ev \in Messages : Apply(ev)

Next == SendMember \/ SendRule \/ SendPower \/ SendOther

Spec == Init /\ [][Next]_vars

-----------------------------------------------------------------------------
(* Properties *)

Power(u) == PowerOf(st.power, u)

(* The room state and the record of the last event have their types. *)
TypeOK ==
  /\ st \in RoomStates
  /\ last.sender \in Users

(* A user whom the content neither lists nor gives a default has 0. *)
Defaulted(u) == st.power.users[u] = NoLevel /\ st.power.users_default = NoLevel

(* Escalation prevention: no sequence of allowed events, through entries,
   defaults or removals, gives any user more power than some user had.  Where all levels
   were negative, a content that leaves them out gives everybody the default of 0. *)
PowerNeverRises ==
  [][\A u \in Users : \/ \E v \in Users : Power(u)' <= Power(v)
                      \/ Defaulted(u)' /\ \A v \in Users : Power(v) < 0]_vars

(* A user the new content lists keeps its power unless it changed it itself or
   the sender was strictly above it. *)
ListedKeepPower ==
  [][\A u \in Users :
       (st'.power.users[u] # NoLevel /\ Power(u)' # Power(u))
         => u = last'.sender \/ Power(last'.sender) > Power(u)]_vars

(* A ban ends by a joined sender with the power to ban, or by the banned user's
   own join. *)
BansLiftedByModerators ==
  [][\A u \in Users :
       (st.member[u] = "ban" /\ st'.member[u] # "ban")
         => \/ /\ Joined(st, last'.sender)
               /\ Power(last'.sender) >= Or(st.power.ban, 50)
            \/ u = last'.sender /\ st'.member[u] = "join"]_vars
=============================================================================
