---------------------------- MODULE RoomServices ----------------------------
(***************************************************************************)
(* AuthRoom and four parts of the rooms' API, which share no state within  *)
(* these models, side by side: the first state chooses the part that then  *)
(* runs alone, and its properties are those of its module.                 *)
(***************************************************************************)
EXTENDS AuthRoom, FiniteSets

CONSTANTS
  Members, Owner, UpgradeRequests, OldRoom, Aliases, None, TxnOf,      \* RoomUpgrade
  MaxOpen, MaxPowerChanges, MaxStops,
  Guests, Calls, MaxLocal, MaxFailures,                                \* FederatedMembership
  Events, Prev, Auth, Depth, Ts, Unordered, PageLimits,                \* RoomHistory
  Rooms, ListLimits, ClientLimit, MaxListChanges                       \* RoomDirectory

(* Ids of rooms and requests are new, and None is the absence of a value. *)
ASSUME UpgradeAssumption ==
  /\ Owner \in Members
  /\ OldRoom \notin UpgradeRequests /\ None \notin UpgradeRequests \cup {OldRoom}
  /\ None \notin {"create", "upgrade", "unalias", "send", "redact", "check", "alias", "store",
                 "mark", "txn", "state", "row", "join", "member", "power", "rules", "rest",
                 "tombstone", "restrict", "select", "move", "authorize", "ok", "refused", "stopped",
                 "failed", "public", "invite"}

(* A request asks for at least one event, and a timestamp, in milliseconds, is above every stream position. *)
ASSUME HistoryAssumption ==
  /\ Events \subseteq Nat \ {0} /\ IsFiniteSet(Events) /\ PageLimits \subseteq Nat \ {0}
  /\ Prev \in [Events -> SUBSET Events] /\ Auth \in [Events -> SUBSET Events]
  /\ Depth \in [Events -> Nat] /\ Ts \in [Events -> Nat]
  /\ \A e \in Events : Ts[e] > Cardinality(Events)

ASSUME DirectoryAssumption ==
  Rooms \subseteq Nat /\ IsFiniteSet(Rooms) /\ ListLimits \subseteq Nat /\ ClientLimit \in Nat

VARIABLES
  part,
  rooms, alias, req, sent, hidden, txns, powerChanges, stops, muted, wished, raced,   \* RoomUpgrade
  joinRule, token, members, state, row, call, local, failures, torn, late,         \* FederatedMembership
  stored, position, reader,                                                        \* RoomHistory
  exists, public, making, purging, kids, changes, lister, busy                     \* RoomDirectory

upgradeVars == <<rooms, alias, req, sent, hidden, txns, powerChanges, stops, muted, wished, raced>>
memberVars == <<joinRule, token, members, state, row, call, local, failures, torn, late>>
historyVars == <<stored, position, reader>>
directoryVars == <<exists, public, making, purging, kids, changes, lister, busy>>

Upgrade == INSTANCE RoomUpgrade WITH
  Users <- Members, Creator <- Owner, Requests <- UpgradeRequests, Old <- OldRoom,
  MaxChanges <- MaxPowerChanges, changes <- powerChanges

Membership == INSTANCE FederatedMembership WITH stored <- members

History == INSTANCE RoomHistory WITH Limits <- PageLimits

Directory == INSTANCE RoomDirectory WITH Limits <- ListLimits, MaxChanges <- MaxListChanges

roomVars == <<upgradeVars, memberVars, historyVars, directoryVars>>
servicesVars == <<part, vars, roomVars>>

ServicesInit ==
  /\ part \in {"authorization", "upgrade", "membership", "history", "directory"}
  /\ Init
  /\ Upgrade!UpgradeInit /\ Membership!MemberInit /\ History!HistoryInit /\ Directory!DirectoryInit
  /\ part # "upgrade" =>                                             \* one first state of what does not run
       alias = [a \in Aliases |-> None] /\ rooms[OldRoom].power.tombstone = 50
  /\ part # "membership" => joinRule = "knock" /\ token = {}

ServicesNext ==
  \/ part = "authorization" /\ Next /\ UNCHANGED <<part, roomVars>>
  \/ /\ part = "upgrade" /\ Upgrade!UpgradeNext
     /\ UNCHANGED <<part, vars, memberVars, historyVars, directoryVars>>
  \/ /\ part = "membership" /\ Membership!MemberNext
     /\ UNCHANGED <<part, vars, upgradeVars, historyVars, directoryVars>>
  \/ /\ part = "history" /\ History!HistoryNext
     /\ UNCHANGED <<part, vars, upgradeVars, memberVars, directoryVars>>
  \/ /\ part = "directory" /\ Directory!DirectoryNext
     /\ UNCHANGED <<part, vars, upgradeVars, memberVars, historyVars>>

ServicesSpec == ServicesInit /\ [][ServicesNext]_servicesVars

-----------------------------------------------------------------------------
(* Properties *)

(* An upgrade, a message or a redaction that was answered is done, also after a retry (rooms.ts). *)
AnswersHold == part = "upgrade" => Upgrade!AnswersHold

(* Members keep the levels they were given through upgrades, but for changes that cross one (rooms.ts, upgrade). *)
UpgradeKeepsLevels == part = "upgrade" => Upgrade!UpgradeKeepsLevels

(* A guest's row and state are one event, and an invitation serves once (federation.ts, send_knock and the exchange). *)
GuestsSound == part = "membership" => Membership!GuestsSound

(* A ban is not ended by a knock (federation.ts, send_knock). *)
BansOutlastKnocks == Membership!BansOutlastKnocks

(* Pages and walks through a room's history miss nothing (rooms.ts, federation.ts). *)
ReadersComplete == part = "history" => History!ReadersComplete

(* The lists of rooms miss nothing (federation.ts, spaces.ts, index.ts). *)
ListsComplete == part = "directory" => Directory!ListsComplete
=============================================================================
