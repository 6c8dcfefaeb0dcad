----------------------------- MODULE AccountData -----------------------------
(***************************************************************************)
(* A user's account data (api/account-data.ts, api/tags.ts and the account *)
(* data of UserKeysDurableObject.ts).  A row of D1 holds each type; a type *)
(* of end-to-end encryption is also held by the user's object, which is    *)
(* written first, and by KV, whose reads may for a while give what was     *)
(* there before a write.  A PUT writes one store after the other and may   *)
(* stop, or overlap another PUT, between any two of its writes.            *)
(* The tags of a room are one row that a request reads, changes and writes *)
(* back.  A change is numbered by a counter of its own.                    *)
(*                                                                         *)
(* A content is the request that wrote it.  One type of each kind, and one *)
(* room, stand for all.                                                    *)
(***************************************************************************)
EXTENDS Naturals, FiniteSets

CONSTANTS
  Requests,   \* the requests of the user's devices, numbers in the order they arrive
  Tags,       \* the tags of the room
  NoData,     \* a type without content
  MaxOpen     \* bound: requests under way at a time

Secret == "m.secret_storage"   \* isKVAccountData
Plain  == "m.direct"
Types  == {Secret, Plain}
Stores == {"object", "kv", "d1"}

VARIABLES
  held,       \* what each store holds of each type
  earlier,    \* what KV held of the secret type and a read of it may still give
  listed,     \* whether the object's account_data_types names the secret type
  tags,       \* the tags in the room's m.tag row
  changes,    \* account_data_changes: the positions of each type's changes
  counter,    \* stream_positions of account_data
  op,         \* what a request does
  at,         \* the next step of a request
  read,       \* what a request has read: the tags, or its position
  floor,      \* the positions that were taken by answered requests when a request began (history)
  last,       \* the request that came last for each type and tag (history)
  alone       \* requests that no other on the same row overlapped (history)

dataVars == <<held, earlier, listed, tags, changes, counter, op, at, read, floor, last, alone>>

Idle == [type |-> "none", tag |-> "none", add |-> FALSE]

Pending == {r \in Requests : at[r] \notin {"new", "done", "stopped"}}

(* Requests that write the same row: both tags are in one. *)
SameRow(o, p) == o.type = p.type

-----------------------------------------------------------------------------
DataInit ==
  /\ held = [s \in Stores |-> [t \in Types |-> NoData]]
  /\ earlier = {} /\ listed = FALSE /\ tags = {}
  /\ changes = [t \in Types |-> {}] /\ counter = 0
  /\ op = [r \in Requests |-> Idle] /\ at = [r \in Requests |-> "new"] /\ read = [r \in Requests |-> {}]
  /\ floor = [r \in Requests |-> {}] /\ last = [x \in Types \cup Tags |-> NoData] /\ alone = {}

Open(r, o, first) ==
  /\ at[r] = "new" /\ \A p \in Requests : p < r => at[p] # "new"
  /\ Cardinality(Pending) < MaxOpen
  /\ at' = [at EXCEPT ![r] = first] /\ op' = [op EXCEPT ![r] = o]
  /\ last' = [last EXCEPT ![IF o.type = "m.tag" THEN o.tag ELSE o.type] = r]
  /\ LET others == {p \in Pending : SameRow(op[p], o)} IN
     alone' = (alone \ others) \cup (IF others = {} THEN {r} ELSE {})
  /\ floor' = [floor EXCEPT ![r] = UNION {changes[t] : t \in Types}]
  /\ UNCHANGED <<held, earlier, listed, tags, changes, counter, read>>

(* PUT account_data of the user (and of a room the user is joined to, which runs the statements of a plain type). *)
PutSecret(r) == Open(r, [Idle EXCEPT !.type = Secret], "object")
PutPlain(r)  == Open(r, [Idle EXCEPT !.type = Plain], "d1")

(* PUT and DELETE of a tag. *)
PutTag(r, t)    == Open(r, [type |-> "m.tag", tag |-> t, add |-> TRUE], "readTags")
DeleteTag(r, t) == Open(r, [type |-> "m.tag", tag |-> t, add |-> FALSE], "readTags")

Goto(r, step) == at' = [at EXCEPT ![r] = step]

(* UserKeysDurableObject.putAccountData: the content, then the list of the types it holds. *)
WriteObject(r) ==
  /\ at[r] = "object" /\ Goto(r, "list")
  /\ held' = [held EXCEPT !["object"][Secret] = r]
  /\ UNCHANGED <<earlier, listed, tags, changes, counter, op, read, floor, last, alone>>

ListType(r) ==
  /\ at[r] = "list" /\ Goto(r, "kv") /\ listed' = TRUE
  /\ UNCHANGED <<held, earlier, tags, changes, counter, op, read, floor, last, alone>>

(* Faulty variant: the backup is written when there is none yet. *)
WriteKvIfAbsent(r) ==
  /\ at[r] = "kv" /\ Goto(r, "d1")
  /\ held' = [held EXCEPT !["kv"][Secret] = IF @ = NoData THEN r ELSE @]
  /\ earlier' = earlier \cup {held["kv"][Secret]}
  /\ UNCHANGED <<listed, tags, changes, counter, op, read, floor, last, alone>>

WriteKv(r) ==
  /\ at[r] = "kv" /\ Goto(r, "d1")
  /\ held' = [held EXCEPT !["kv"][Secret] = r]
  /\ earlier' = earlier \cup {held["kv"][Secret]}
  /\ UNCHANGED <<listed, tags, changes, counter, op, read, floor, last, alone>>

WriteRow(r) ==
  /\ at[r] = "d1" /\ Goto(r, "move")
  /\ held' = [held EXCEPT !["d1"][op[r].type] = r]
  /\ UNCHANGED <<earlier, listed, tags, changes, counter, op, read, floor, last, alone>>

(* getNextStreamPosition: two statements, so that two requests may read one position. *)
MoveCounter(r) ==
  /\ at[r] = "move" /\ Goto(r, "position") /\ counter' = counter + 1
  /\ UNCHANGED <<held, earlier, listed, tags, changes, op, read, floor, last, alone>>

ReadCounter(r) ==
  /\ at[r] = "position" /\ Goto(r, "insert") /\ read' = [read EXCEPT ![r] = {counter}]
  /\ UNCHANGED <<held, earlier, listed, tags, changes, counter, op, floor, last, alone>>

InsertChange(r) ==
  /\ at[r] = "insert" /\ Goto(r, "done")
  /\ changes' = [changes EXCEPT ![op[r].type] = @ \cup read[r]]
  /\ read' = [read EXCEPT ![r] = {}]
  /\ UNCHANGED <<held, earlier, listed, tags, counter, op, floor, last, alone>>

(* Faulty variant: the write starts from the tags it finds then, and so drops those of the read. *)
NewTagsOnly(r) == IF op[r].add THEN {op[r].tag} ELSE {}

(* The tags a request writes: those it read, with its own added or deleted. *)
NewTags(r) == IF op[r].add THEN read[r] \cup {op[r].tag} ELSE read[r] \ {op[r].tag}

(* DELETE answers at once when the room has no row; writing back no tags does not differ from that. *)
ReadTags(r) ==
  /\ at[r] = "readTags" /\ Goto(r, "writeTags") /\ read' = [read EXCEPT ![r] = tags]
  /\ UNCHANGED <<held, earlier, listed, tags, changes, counter, op, floor, last, alone>>

WriteTags(r) ==
  /\ at[r] = "writeTags" /\ Goto(r, "done")
  /\ tags' = NewTags(r) /\ read' = [read EXCEPT ![r] = {}]
  /\ UNCHANGED <<held, earlier, listed, changes, counter, op, floor, last, alone>>

(* A call fails or the worker ends: the rest is not done, and the device gets an error or no answer. *)
Stop(r) ==
  /\ r \in Pending
  /\ Goto(r, "stopped") /\ op' = [op EXCEPT ![r] = Idle]
  /\ read' = [read EXCEPT ![r] = {}] /\ alone' = alone \ {r}
  /\ UNCHANGED <<held, earlier, listed, tags, changes, counter, floor, last>>

(* KV has reached every place it is read from. *)
SettleKv ==
  /\ earlier # {} /\ earlier' = {}
  /\ UNCHANGED <<held, listed, tags, changes, counter, op, at, read, floor, last, alone>>

-----------------------------------------------------------------------------
(* GET account_data: the object, or KV and then D1 when it does not answer; the contents it may give. *)
Get(up, t) ==
  IF t = Secret /\ up /\ held["object"][t] # NoData THEN {held["object"][t]}
  ELSE IF t = Secret THEN {IF k = NoData THEN held["d1"][t] ELSE k : k \in earlier \cup {held["kv"][t]}}
  ELSE {held["d1"][t]}

(* The account data of sliding sync: the rows, over which goes all that the object lists. *)
Sliding(up, t) == IF t = Secret /\ up /\ listed THEN held["object"][t] ELSE held["d1"][t]

Step(r) ==
  \/ PutSecret(r) \/ PutPlain(r) \/ WriteObject(r) \/ ListType(r) \/ WriteKv(r) \/ WriteRow(r)
  \/ MoveCounter(r) \/ ReadCounter(r) \/ InsertChange(r) \/ ReadTags(r) \/ WriteTags(r) \/ Stop(r)
  \/ \E t \in Tags : PutTag(r, t) \/ DeleteTag(r, t)

DataNext == SettleKv \/ \E r \in Requests : Step(r)

DataSpec == DataInit /\ [][DataNext]_dataVars

-----------------------------------------------------------------------------
(* The content of the last PUT of a secret, once answered, is what GET and sliding sync give, unless another PUT
   overlapped it: what stopped before it leaves nothing behind.  When the object does not answer, sliding sync gives
   it all the same, and GET once KV has settled. *)
SecretsVisible ==
  LET r == last[Secret] IN
  r # NoData /\ r \in alone /\ at[r] = "done" =>
    /\ Get(TRUE, Secret) = {r} /\ \A up \in BOOLEAN : Sliding(up, Secret) = r
    /\ earlier = {} => Get(FALSE, Secret) = {r}

(* Only requests that overlap lose a tag: after the last one for a tag, if it ran alone and was answered, the tag is
   as it asked, whatever requests for other tags overlapped since. *)
TagsKept ==
  \A t \in Tags : LET r == last[t] IN
    r # NoData /\ r \in alone /\ at[r] = "done" => (t \in tags) = op[r].add

(* The change of a request that began after another was answered has a greater position, however the two
   statements of getNextStreamPosition come between those of other requests. *)
ChangesOrdered == \A r \in Requests : at[r] = "insert" => \A p \in floor[r] : \A n \in read[r] : n > p

(* What was last put, once answered, is what is there, of secrets in three stores and of tags in one row, and it
   is the newest change. *)
DataKept == SecretsVisible /\ TagsKept /\ ChangesOrdered
=============================================================================
