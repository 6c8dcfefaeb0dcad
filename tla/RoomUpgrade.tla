---------------------------- MODULE RoomUpgrade ----------------------------
(***************************************************************************)
(* Creating a room, upgrading one, and sending and redacting in it         *)
(* (api/rooms.ts): handlers that are long sequences of D1 statements which *)
(* nothing holds together.  A creation stores the initial events one by    *)
(* one; an upgrade reads the old room, builds a new one in the same way,   *)
(* and then closes the old one with a tombstone, with the power levels it  *)
(* read at its beginning, and by moving the aliases.                       *)
(*                                                                         *)
(* One old room; a new room has the name of the request that creates it.   *)
(* Messages and redactions are in the old room.  Storing one event is one  *)
(* step here (SyncStream and RoomMembership have its statements).          *)
(***************************************************************************)
EXTENDS Naturals, FiniteSets, Sequences

CONSTANTS
  Users, Creator,  \* members of the old room; who created it
  Requests,        \* requests, also the names of the rooms they create
  Old,             \* the room to upgrade
  Aliases, None,
  TxnOf,           \* the transaction id of every request that sends
  MaxOpen,         \* bound: requests at a time
  MaxChanges,      \* bound: changes of power levels by the creator
  MaxStops         \* bound: requests that end half-way

VARIABLES
  rooms,    \* the state of every room
  alias,    \* room_aliases
  req,      \* the requests
  sent,     \* messages and redactions stored in the old room, by request
  hidden,   \* redacted_because of every message
  txns,     \* transaction_ids
  changes, stops,
  muted,    \* upgrades that read the levels another upgrade had restricted (history)
  wished,   \* the level every member was last given by a client (history)
  raced     \* members whose last change came while an upgrade held levels it had read before (history)

upgradeVars == <<rooms, alias, req, sent, hidden, txns, changes, stops, muted, wished, raced>>

RoomIds == {Old} \cup Requests
First == None       \* the message that is there in the beginning, by a user other than the creator
Messages == {First} \cup Requests

(* Contents of m.room.power_levels: createRoom gives the creator 100; a tombstone takes 100,
   and an invitation a level that depends on the preset. *)
NewLevels(u, preset) ==
  [level |-> [v \in Users |-> IF v = u THEN 100 ELSE 0], eventsDefault |-> 0, tombstone |-> 100,
   invite |-> IF preset = "public" THEN 0 ELSE 50]

NoRoom == [exists |-> FALSE, created |-> FALSE, joined |-> {}, rows |-> {}, power |-> None,
           rule |-> None, rest |-> FALSE, tombstone |-> None]

Idle == [op |-> None, user |-> None, step |-> None, levels |-> None, rule |-> None,
         alias |-> None, todo |-> {}, result |-> None]

(* What a creation and an upgrade do, in this order. *)
Creation == <<"row", "create", "join", "member", "power", "rules", "rest", "alias">>
Upgrade == <<"row", "create", "join", "member", "power", "rules", "rest",
             "tombstone", "restrict", "select", "move">>
Plan(q) == IF req[q].op = "upgrade" THEN Upgrade ELSE Creation

After(q, step) ==
  LET i == CHOOSE n \in DOMAIN Plan(q) : Plan(q)[n] = step IN
  IF i = Len(Plan(q)) THEN "answer" ELSE Plan(q)[i + 1]

Goto(q, step) == req' = [req EXCEPT ![q].step = step]
Refuse(q) == req' = [req EXCEPT ![q] = [Idle EXCEPT !.result = "refused"]]
Answer(q) == req' = [req EXCEPT ![q].step = None, ![q].result = "ok"]
Open == {q \in Requests : req[q].step # None}

(* Upgrades that have read the levels and are going to write them. *)
Holding == {q \in Requests : req[q].op = "upgrade" /\ req[q].step \notin {None, "check", "select", "move"}}

-----------------------------------------------------------------------------
Begin(q, op, u) ==
  /\ req[q] = Idle /\ Cardinality(Open) < MaxOpen
  /\ req' = [req EXCEPT ![q].op = op, ![q].user = u, ![q].step = "check"]
  /\ UNCHANGED <<rooms, alias, sent, hidden, txns, changes, stops, muted, wished, raced>>

(* A Worker stops, or an exception of an upgrade ends it. *)
Stop(q) ==
  /\ req[q].step # None /\ stops < MaxStops
  /\ stops' = stops + 1
  /\ req' = [req EXCEPT ![q].step = None, ![q].result = "stopped"]
  /\ UNCHANGED <<rooms, alias, sent, hidden, txns, changes, muted, wished, raced>>

(* PUT state: the creator changes the level of another member. *)
ChangePower(u, level) ==
  /\ u # Creator /\ changes < MaxChanges /\ rooms[Old].power.level[u] # level
  /\ changes' = changes + 1
  /\ rooms' = [rooms EXCEPT ![Old].power.level[u] = level]
  /\ wished' = [wished EXCEPT ![u] = level]
  /\ raced' = IF Holding = {} THEN raced \ {u} ELSE raced \cup {u}
  /\ UNCHANGED <<alias, req, sent, hidden, txns, stops, muted>>

-----------------------------------------------------------------------------
(* createRoom and upgrade *)

(* POST createRoom: the alias asked for must be free. *)
CheckAlias(q) ==
  /\ req[q].op = "create" /\ req[q].step = "check"
  /\ \E a \in Aliases \cup {None}, preset \in {"public", "invite"} :
       IF a # None /\ alias[a] # None THEN Refuse(q)
       ELSE req' = [req EXCEPT ![q] = [@ EXCEPT !.step = "row", !.alias = a, !.rule = preset,
                                                !.levels = NewLevels(req[q].user, preset)]]
  /\ UNCHANGED <<rooms, alias, sent, hidden, txns, changes, stops, muted, wished, raced>>

(* POST upgrade: a member who may send the tombstone (its level is events' or state_default);
   the levels read here are those the new and in the end the old room gets. *)
CheckUpgrade(q) ==
  LET old == rooms[Old] IN
  /\ req[q].op = "upgrade" /\ req[q].step = "check"
  /\ IF req[q].user \notin old.rows \/ old.power.level[req[q].user] < old.power.tombstone
     THEN Refuse(q) /\ UNCHANGED muted
     ELSE /\ req' = [req EXCEPT ![q].step = "state", ![q].levels = old.power]
          /\ muted' = IF old.power.eventsDefault = 100 THEN muted \cup {q} ELSE muted
  /\ UNCHANGED <<rooms, alias, sent, hidden, txns, changes, stops, wished, raced>>

(* getRoomState of the old room: the state that is copied. *)
ReadState(q) ==
  /\ req[q].step = "state"
  /\ req' = [req EXCEPT ![q].step = "row", ![q].rule = rooms[Old].rule]
  /\ UNCHANGED <<rooms, alias, sent, hidden, txns, changes, stops, muted, wished, raced>>

(* The new room after one more statement. *)
Built(q, step) ==
  LET room == rooms[q] u == req[q].user IN
  [row |-> [room EXCEPT !.exists = TRUE],
   create |-> [room EXCEPT !.created = TRUE],
   join |-> [room EXCEPT !.joined = {u}],
   member |-> [room EXCEPT !.rows = {u}],
   power |-> [room EXCEPT !.power = req[q].levels],
   rules |-> [room EXCEPT !.rule = req[q].rule],
   rest |-> [room EXCEPT !.rest = TRUE]][step]

(* createRoom of database.ts and one event after the other; "rest" stands for the other state
   events, the invitations and the creator's m.fully_read. *)
BuildRoom(q) ==
  /\ req[q].step \in {"row", "create", "join", "member", "power", "rules", "rest"}
  /\ rooms' = [rooms EXCEPT ![q] = Built(q, req[q].step)]
  /\ Goto(q, After(q, req[q].step))
  /\ UNCHANGED <<alias, sent, hidden, txns, changes, stops, muted, wished, raced>>

(* An exception while createRoom stores the events is logged, and the creation goes on. *)
CreationFails(q) ==
  /\ req[q].op = "create" /\ req[q].step \in {"create", "join", "member", "power", "rules", "rest"}
  /\ stops < MaxStops
  /\ stops' = stops + 1
  /\ Goto(q, "alias")
  /\ UNCHANGED <<rooms, alias, sent, hidden, txns, changes, muted, wished, raced>>

(* createRoomAlias: an INSERT, which fails when the alias was taken meanwhile. *)
InsertAlias(q) ==
  LET a == req[q].alias IN
  /\ req[q].step = "alias"
  /\ IF a = None THEN Answer(q) /\ UNCHANGED alias
     ELSE IF alias[a] # None
     THEN req' = [req EXCEPT ![q].step = None, ![q].result = "failed"] /\ UNCHANGED alias
     ELSE Answer(q) /\ alias' = [alias EXCEPT ![a] = q]
  /\ UNCHANGED <<rooms, sent, hidden, txns, changes, stops, muted, wished, raced>>

(* The tombstone names the new room; nothing authorizes it any more. *)
StoreTombstone(q) ==
  /\ req[q].step = "tombstone"
  /\ rooms' = [rooms EXCEPT ![Old].tombstone = q]
  /\ Goto(q, "restrict")
  /\ UNCHANGED <<alias, sent, hidden, txns, changes, stops, muted, wished, raced>>

(* Faulty variant: the levels a room starts with. *)
RestrictDefaults(q) ==
  /\ req[q].step = "restrict"
  /\ rooms' = [rooms EXCEPT ![Old].power =
                 [NewLevels(req[q].user, "public") EXCEPT !.eventsDefault = 100, !.invite = 100]]
  /\ Goto(q, "select")
  /\ UNCHANGED <<alias, sent, hidden, txns, changes, stops, muted, wished, raced>>

(* The levels read in the beginning, with events_default and invite 100. *)
Restrict(q) ==
  /\ req[q].step = "restrict"
  /\ rooms' = [rooms EXCEPT ![Old].power = [req[q].levels EXCEPT !.eventsDefault = 100, !.invite = 100]]
  /\ Goto(q, "select")
  /\ UNCHANGED <<alias, sent, hidden, txns, changes, stops, muted, wished, raced>>

(* SELECT alias ... WHERE room_id = ? *)
SelectAliases(q) ==
  /\ req[q].step = "select"
  /\ req' = [req EXCEPT ![q].step = "move", ![q].todo = {a \in Aliases : alias[a] = Old}]
  /\ UNCHANGED <<rooms, alias, sent, hidden, txns, changes, stops, muted, wished, raced>>

(* Faulty variant: the handler answers without waiting for the updates. *)
MoveAliasNever(q) ==
  /\ req[q].step = "move"
  /\ Answer(q)
  /\ UNCHANGED <<rooms, alias, sent, hidden, txns, changes, stops, muted, wished, raced>>

(* UPDATE room_aliases ... WHERE alias = ?, one by one, whatever room the alias has by then. *)
MoveAlias(q) ==
  /\ req[q].step = "move"
  /\ IF req[q].todo = {} THEN Answer(q) /\ UNCHANGED alias
     ELSE \E a \in req[q].todo :
            /\ alias' = IF alias[a] = None THEN alias ELSE [alias EXCEPT ![a] = q]
            /\ req' = [req EXCEPT ![q].todo = @ \ {a}]
  /\ UNCHANGED <<rooms, sent, hidden, txns, changes, stops, muted, wished, raced>>

(* DELETE directory/room/:roomAlias *)
DeleteAlias(q) ==
  /\ req[q].op = "unalias" /\ req[q].step = "check"
  /\ \E a \in Aliases :
       IF alias[a] = None THEN Refuse(q) /\ UNCHANGED alias
       ELSE Answer(q) /\ alias' = [alias EXCEPT ![a] = None]
  /\ UNCHANGED <<rooms, sent, hidden, txns, changes, stops, muted, wished, raced>>

-----------------------------------------------------------------------------
(* send and redact *)

Sends(q) == req[q].op \in {"send", "redact"}

(* checkTransactionIdempotency *)
CheckTxn(q) ==
  /\ Sends(q) /\ req[q].step = "check"
  /\ IF txns[TxnOf[q]] # None THEN Answer(q) ELSE Goto(q, "authorize")
  /\ UNCHANGED <<rooms, alias, sent, hidden, txns, changes, stops, muted, wished, raced>>

(* The membership, which nothing changes here, and the levels: checkEventAuth wants
   events_default, a redaction the sender of the message or level 50. *)
CheckSend(q) ==
  LET u == req[q].user
      power == rooms[Old].power
      allowed == /\ u \in rooms[Old].rows
                 /\ IF req[q].op = "send" THEN power.level[u] >= power.eventsDefault
                    ELSE u # Creator \/ power.level[u] >= 50 IN
  /\ Sends(q) /\ req[q].step = "authorize"
  /\ IF allowed THEN Goto(q, "store") ELSE Refuse(q)
  /\ UNCHANGED <<rooms, alias, sent, hidden, txns, changes, stops, muted, wished, raced>>

(* storeEvent *)
StoreSent(q) ==
  /\ Sends(q) /\ req[q].step = "store"
  /\ sent' = sent \cup {q}
  /\ Goto(q, IF req[q].op = "redact" THEN "mark" ELSE "txn")
  /\ UNCHANGED <<rooms, alias, hidden, txns, changes, stops, muted, wished, raced>>

(* Faulty variant: the transaction is stored before the message is marked. *)
MarkAfterTxn(q) ==
  /\ req[q].step = "mark"
  /\ txns' = [txns EXCEPT ![TxnOf[q]] = q]
  /\ IF txns[TxnOf[q]] = q THEN hidden' = [hidden EXCEPT ![First] = q] /\ Answer(q)
     ELSE UNCHANGED <<req, hidden>>
  /\ UNCHANGED <<rooms, alias, sent, changes, stops, muted, wished, raced>>

(* UPDATE events SET redacted_because *)
MarkRedacted(q) ==
  /\ req[q].step = "mark"
  /\ hidden' = [hidden EXCEPT ![First] = q]
  /\ Goto(q, "txn")
  /\ UNCHANGED <<rooms, alias, sent, txns, changes, stops, muted, wished, raced>>

(* storeTransaction: a later request overwrites the row. *)
StoreTxn(q) ==
  /\ req[q].step = "txn"
  /\ txns' = [txns EXCEPT ![TxnOf[q]] = q]
  /\ Answer(q)
  /\ UNCHANGED <<rooms, alias, sent, hidden, changes, stops, muted, wished, raced>>

-----------------------------------------------------------------------------
(* A public room whose creator may have let moderators replace it. *)
PublicRoom(tombstone) ==
  [NoRoom EXCEPT !.exists = TRUE, !.created = TRUE, !.joined = Users, !.rows = Users, !.rule = "public",
                 !.power = [NewLevels(Creator, "public") EXCEPT !.tombstone = tombstone], !.rest = TRUE]

UpgradeInit ==
  /\ \E level \in {50, 100} : rooms = [r \in RoomIds |-> IF r = Old THEN PublicRoom(level) ELSE NoRoom]
  /\ alias \in [Aliases -> {Old, None}]
  /\ req = [q \in Requests |-> Idle]
  /\ sent = {}
  /\ hidden = [m \in Messages |-> None]
  /\ txns = [t \in {TxnOf[q] : q \in Requests} |-> None]
  /\ changes = 0 /\ stops = 0
  /\ muted = {} /\ raced = {} /\ wished = rooms[Old].power.level

UpgradeNext ==
  \/ \E q \in Requests :
       \/ \E op \in {"create", "upgrade", "unalias", "send", "redact"}, u \in Users : Begin(q, op, u)
       \/ Stop(q)
       \/ CheckAlias(q) \/ CheckUpgrade(q) \/ ReadState(q)
       \/ BuildRoom(q) \/ CreationFails(q) \/ InsertAlias(q)
       \/ StoreTombstone(q) \/ Restrict(q) \/ SelectAliases(q) \/ MoveAlias(q)
       \/ DeleteAlias(q)
       \/ CheckTxn(q) \/ CheckSend(q) \/ StoreSent(q) \/ MarkRedacted(q) \/ StoreTxn(q)
  \/ \E u \in Users, level \in {0, 50} : ChangePower(u, level)

UpgradeSpec == UpgradeInit /\ [][UpgradeNext]_upgradeVars

-----------------------------------------------------------------------------
(* Properties *)

Upgrades == {q \in Requests : req[q].op = "upgrade"}

(* An upgrade that was answered leaves a room its upgrader can use (joined, with power
   levels and join rules, as powerful as the old room asked of it, and with levels that let the
   members speak and invite, unless it copied the levels an earlier upgrade had restricted), and
   an old room that names a replacement and, when it was the only upgrade, has no alias left. *)
ReplacementReady ==
  \A q \in Upgrades : req[q].result = "ok" =>
    LET new == rooms[q] IN
    /\ req[q].user \in new.joined \cap new.rows
    /\ new.rule # None /\ new.rest
    /\ new.power.level[req[q].user] >= new.power.tombstone
    /\ q \in muted \/ (new.power.eventsDefault = 0 /\ new.power.invite = 0)
    /\ rooms[Old].tombstone \in Upgrades
    /\ Upgrades = {q} => rooms[Old].tombstone = q /\ \A a \in Aliases : alias[a] # Old

(* Whoever was given a level in the old room has it, however many upgrades read the levels, build
   a room and write them back, unless it was given while one of them was between the two. *)
UpgradeKeepsLevels == \A u \in Users \ raced : rooms[Old].power.level[u] = wished[u]

(* A request that was answered has its message in the room, or its redaction in the room
   and on the redacted message, also when it is a retry of one that stopped half-way. *)
AnsweredIsDone ==
  \A q \in Requests : Sends(q) /\ req[q].result = "ok" =>
    \E p \in sent : /\ TxnOf[p] = TxnOf[q]
                    /\ req[p].op = "redact" => hidden[First] # None

(* What a client was told is done: the room is replaced, the message or the redaction is there. *)
AnswersHold == ReplacementReady /\ AnsweredIsDone
=============================================================================
