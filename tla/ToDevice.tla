------------------------------ MODULE ToDevice ------------------------------
(***************************************************************************)
(* To-device messages: PUT /sendToDevice and the transaction table that    *)
(* makes it idempotent (api/to-device.ts), the server notices of the admin *)
(* API (api/admin.ts), which enter the same table, and the reading, token  *)
(* and acknowledgement of getToDeviceMessages as GET /sync uses it.        *)
(*                                                                         *)
(* Every D1 statement is one step; nothing holds two of them together.  A  *)
(* row is named by the request that inserts it and the device it is for:   *)
(* its message_id has the time of the request in it, so attempts of one    *)
(* transaction store different rows.  Waking waiting syncs is the subject  *)
(* of SyncStream.                                                          *)
(***************************************************************************)
EXTENDS Naturals, FiniteSets

CONSTANTS
  Devices,      \* recipient devices
  Readers,      \* the devices that sync; the others stay offline
  Txns,         \* transaction ids of one sender
  Targets,      \* the devices every transaction's messages are for
  Puts,         \* PUT requests, retries included
  TxnOf,        \* the transaction of every request
  Notices,      \* POST /server-notice requests
  Recipients,   \* the devices of every notice's user
  Limit,        \* LIMIT of getToDeviceMessages
  MaxFaults     \* bound: stopped senders, lost responses, foreign transactions and
                \* clean-ups, together

ASSUME ConstantsAssumption ==
  /\ Readers \subseteq Devices
  /\ Targets \in [Txns -> SUBSET Devices]
  /\ TxnOf \in [Puts -> Txns]
  /\ Recipients \in [Notices -> SUBSET Devices]
  /\ Puts \cap Notices = {}
  /\ Limit \in Nat \ {0}
  /\ MaxFaults \in Nat

Senders == Puts \cup Notices
Rows == Senders \X Devices

VARIABLES
  position,   \* stream_positions.position of 'to_device'
  txns,       \* transaction_ids
  step,       \* where every request is
  todo,       \* devices a request has still to store a message for
  at,         \* the position a request holds for its next row (0 for none)
  rowAt,      \* stream_position of every row ever inserted (0 before)
  delivered,  \* rows with delivered = 1
  deleted,    \* rows cleaned up
  late,       \* rows inserted at or below a position already in the table (history)
  reader,     \* where every device's sync is
  since,      \* to-device position every device presents
  page,       \* rows its sync has selected
  nextBatch,  \* position its sync will answer with
  seen,       \* rows every device has received (history)
  raced,      \* rows inserted between a sync's empty page and its MAX (history)
  foreign,    \* transaction ids another endpoint stored (history)
  faults      \* faults so far (bounded by MaxFaults)

tableVars == <<position, rowAt, late, raced>>
sendVars == <<txns, step, todo, at>>
ackVars == <<delivered, deleted>>
readVars == <<reader, since, page, nextBatch, seen>>
boundVars == <<foreign, faults>>
vars == <<tableVars, sendVars, ackVars, readVars, boundVars>>

-----------------------------------------------------------------------------
(* Tables and queries *)

Inserted == {m \in Rows : rowAt[m] # 0}
Table == Inserted \ deleted

(* COALESCE(MAX(stream_position), 0) over a set of rows. *)
MaxAt(rows) ==
  IF rows = {} THEN 0
  ELSE rowAt[CHOOSE m \in rows : \A n \in rows : rowAt[n] <= rowAt[m]]

(* delivered = 0 AND stream_position > ? of one device. *)
Undelivered(d) == {m \in Table \ delivered : m[2] = d /\ rowAt[m] > since[d]}

(* ORDER BY stream_position ASC LIMIT ? *)
Pages(rows) ==
  {p \in SUBSET rows :
     /\ \A m \in p, n \in rows \ p : rowAt[m] <= rowAt[n]
     /\ \/ Cardinality(p) = Limit
        \/ p = rows /\ Cardinality(rows) < Limit}

(* INSERT INTO to_device_messages. *)
InsertRow(m, pos) ==
  /\ rowAt' = [rowAt EXCEPT ![m] = pos]
  /\ late' = IF pos <= MaxAt(Inserted) THEN late \cup {m} ELSE late
  /\ raced' = IF reader[m[2]] \in {"selected", "acked"} /\ page[m[2]] = {}
                THEN raced \cup {m} ELSE raced

(* One of the bounded faults happens. *)
Fault == faults < MaxFaults /\ faults' = faults + 1

-----------------------------------------------------------------------------
(* PUT /sendToDevice *)

(* Duplicate transactions get the stored response. *)
CheckTxn(s) ==
  /\ step[s] = "new"
  /\ IF TxnOf[s] \in txns
       THEN step' = [step EXCEPT ![s] = "answered"] /\ UNCHANGED todo
       ELSE /\ step' = [step EXCEPT ![s] = "sending"]
            /\ todo' = [todo EXCEPT ![s] = Targets[TxnOf[s]]]
  /\ UNCHANGED <<tableVars, txns, at, ackVars, readVars, boundVars>>

(* Faulty variant: the position is read and written back in two statements. *)
AllocateStale(s) ==
  /\ step[s] = "sending" /\ at[s] = 0 /\ todo[s] # {}
  /\ \E p \in {position, MaxAt(Inserted)} : at' = [at EXCEPT ![s] = p + 1]
  /\ position' = at'[s]
  /\ UNCHANGED <<rowAt, late, raced, txns, step, todo, ackVars, readVars, boundVars>>

(* Faulty variant: the position is counted downwards. *)
AllocateDownwards(s) ==
  /\ step[s] = "sending" /\ at[s] = 0 /\ todo[s] # {}
  /\ position' = position - 1
  /\ at' = [at EXCEPT ![s] = position - 1]
  /\ UNCHANGED <<rowAt, late, raced, txns, step, todo, ackVars, readVars, boundVars>>

(* getNextStreamPosition: UPDATE ... RETURNING in one statement. *)
Allocate(s) ==
  /\ step[s] = "sending" /\ at[s] = 0 /\ todo[s] # {}
  /\ position' = position + 1
  /\ at' = [at EXCEPT ![s] = position + 1]
  /\ UNCHANGED <<rowAt, late, raced, txns, step, todo, ackVars, readVars, boundVars>>

(* The row of the next target device. *)
InsertMessage(s, d) ==
  /\ step[s] = "sending" /\ at[s] # 0 /\ d \in todo[s]
  /\ InsertRow(<<s, d>>, at[s])
  /\ todo' = [todo EXCEPT ![s] = @ \ {d}]
  /\ at' = [at EXCEPT ![s] = 0]
  /\ UNCHANGED <<position, txns, step, ackVars, readVars, boundVars>>

(* Faulty variant: the transaction is stored before the messages. *)
StoreTxnFirst(s) ==
  /\ step[s] = "sending" /\ (TxnOf[s] \notin txns \/ todo[s] = {})
  /\ txns' = txns \cup {TxnOf[s]}
  /\ step' = [step EXCEPT ![s] = IF todo[s] = {} THEN "answered" ELSE "sending"]
  /\ UNCHANGED <<tableVars, todo, at, ackVars, readVars, boundVars>>

(* All messages stored: remember the transaction and answer. *)
StoreTxn(s) ==
  /\ step[s] = "sending" /\ todo[s] = {}
  /\ txns' = txns \cup {TxnOf[s]}
  /\ step' = [step EXCEPT ![s] = "answered"]
  /\ UNCHANGED <<tableVars, todo, at, ackVars, readVars, boundVars>>

(* The worker stops between two statements. *)
SenderStops(s) ==
  /\ step[s] \in {"sending", "bumped", "storing"}
  /\ Fault
  /\ step' = [step EXCEPT ![s] = "failed"]
  /\ todo' = [todo EXCEPT ![s] = {}] /\ at' = [at EXCEPT ![s] = 0]
  /\ UNCHANGED <<tableVars, txns, ackVars, readVars, foreign>>

(* PUT /send or /redact of the same user stores its own transaction: the
   table's key is the user and the transaction id alone. *)
ForeignTxn(t) ==
  /\ t \notin txns
  /\ Fault
  /\ foreign' = foreign \cup {t}
  /\ txns' = txns \cup {t}
  /\ UNCHANGED <<tableVars, step, todo, at, ackVars, readVars>>

-----------------------------------------------------------------------------
(* POST /admin/api/server-notice *)

(* UPDATE stream_positions. *)
BumpPosition(s) ==
  /\ step[s] = "new"
  /\ step' = [step EXCEPT ![s] = "bumped"]
  /\ position' = position + 1
  /\ UNCHANGED <<rowAt, late, raced, txns, todo, at, ackVars, readVars, boundVars>>

(* SELECT position: a later bump may have come in between. *)
ReadPosition(s) ==
  /\ step[s] = "bumped"
  /\ step' = [step EXCEPT ![s] = "storing"]
  /\ at' = [at EXCEPT ![s] = position]
  /\ todo' = [todo EXCEPT ![s] = Recipients[s]]
  /\ UNCHANGED <<tableVars, txns, ackVars, readVars, boundVars>>

(* One row per device, all at the same position. *)
InsertNotice(s, d) ==
  /\ step[s] = "storing" /\ d \in todo[s]
  /\ InsertRow(<<s, d>>, at[s])
  /\ todo' = [todo EXCEPT ![s] = @ \ {d}]
  /\ UNCHANGED <<position, txns, step, at, ackVars, readVars, boundVars>>

-----------------------------------------------------------------------------
(* getToDeviceMessages *)

(* STEP 1: one page of undelivered messages. *)
SelectPage(d) ==
  /\ reader[d] = "idle"
  /\ reader' = [reader EXCEPT ![d] = "selected"]
  /\ \E p \in Pages(Undelivered(d)) : page' = [page EXCEPT ![d] = p]
  /\ UNCHANGED <<tableVars, sendVars, ackVars, since, nextBatch, seen, boundVars>>

(* Faulty variant: what was just selected is acknowledged with the rest. *)
AckSelected(d) ==
  /\ reader[d] = "selected"
  /\ reader' = [reader EXCEPT ![d] = "acked"]
  /\ delivered' = delivered \cup page[d] \cup {m \in Table : m[2] = d /\ rowAt[m] <= since[d]}
  /\ UNCHANGED <<tableVars, sendVars, deleted, since, page, nextBatch, seen, boundVars>>

(* STEP 2: acknowledge everything at or below the position presented. *)
Acknowledge(d) ==
  /\ reader[d] = "selected"
  /\ reader' = [reader EXCEPT ![d] = "acked"]
  /\ delivered' = delivered \cup {m \in Table : m[2] = d /\ rowAt[m] <= since[d]}
  /\ UNCHANGED <<tableVars, sendVars, deleted, since, page, nextBatch, seen, boundVars>>

(* The position to answer with: of the page, or MAX over the whole table. *)
ReadMax(d) ==
  /\ reader[d] = "acked"
  /\ reader' = [reader EXCEPT ![d] = "replying"]
  /\ nextBatch' = [nextBatch EXCEPT ![d] = IF page[d] # {} THEN MaxAt(page[d]) ELSE MaxAt(Table)]
  /\ UNCHANGED <<tableVars, sendVars, ackVars, since, page, seen, boundVars>>

(* The response arrives; a next_batch of 0 leaves the old position. *)
Reply(d) ==
  /\ reader[d] = "replying"
  /\ reader' = [reader EXCEPT ![d] = "idle"]
  /\ since' = [since EXCEPT ![d] = IF nextBatch[d] = 0 THEN @ ELSE nextBatch[d]]
  /\ seen' = [seen EXCEPT ![d] = @ \cup page[d]]
  /\ page' = [page EXCEPT ![d] = {}] /\ nextBatch' = [nextBatch EXCEPT ![d] = 0]
  /\ UNCHANGED <<tableVars, sendVars, ackVars, boundVars>>

(* The request or its response is lost. *)
SyncLost(d) ==
  /\ reader[d] # "idle"
  /\ Fault
  /\ reader' = [reader EXCEPT ![d] = "idle"]
  /\ page' = [page EXCEPT ![d] = {}] /\ nextBatch' = [nextBatch EXCEPT ![d] = 0]
  /\ UNCHANGED <<tableVars, sendVars, ackVars, since, seen, foreign>>

(* cleanupOldToDeviceMessages: delivered rows older than some age. *)
Cleanup ==
  /\ Fault
  /\ \E old \in SUBSET (Table \cap delivered) :
       old # {} /\ deleted' = deleted \cup old
  /\ UNCHANGED <<tableVars, sendVars, delivered, readVars, foreign>>

-----------------------------------------------------------------------------
Init ==
  /\ position = 0
  /\ txns = {}
  /\ step = [s \in Senders |-> "new"]
  /\ todo = [s \in Senders |-> {}]
  /\ at = [s \in Senders |-> 0]
  /\ rowAt = [m \in Rows |-> 0]
  /\ delivered = {} /\ deleted = {} /\ late = {}
  /\ reader = [d \in Devices |-> "idle"]
  /\ since = [d \in Devices |-> 0]
  /\ page = [d \in Devices |-> {}]
  /\ nextBatch = [d \in Devices |-> 0]
  /\ seen = [d \in Devices |-> {}]
  /\ raced = {}
  /\ foreign = {} /\ faults = 0

PutStep(s) ==
  \/ CheckTxn(s)
  \/ Allocate(s)
  \/ \E d \in Devices : InsertMessage(s, d)
  \/ StoreTxn(s)
  \/ SenderStops(s)

NoticeStep(s) ==
  \/ BumpPosition(s)
  \/ ReadPosition(s)
  \/ \E d \in Devices : InsertNotice(s, d)
  \/ SenderStops(s)

SyncStep(d) == SelectPage(d) \/ Acknowledge(d) \/ ReadMax(d) \/ Reply(d)

Next ==
  \/ \E s \in Puts : PutStep(s)
  \/ \E s \in Notices : NoticeStep(s)
  \/ \E t \in Txns : ForeignTxn(t)
  \/ \E d \in Readers : SyncStep(d) \/ SyncLost(d)
  \/ Cleanup

(* The readers keep syncing and no sync stalls; nothing is assumed of senders. *)
Fairness == \A d \in Readers : WF_vars(SyncStep(d))

Spec == Init /\ [][Next]_vars
FairSpec == Spec /\ Fairness

-----------------------------------------------------------------------------
(* Properties *)

(* Every variable holds a value of its type. *)
TypeOK ==
  /\ position \in Nat
  /\ txns \subseteq Txns
  /\ step \in [Senders -> {"new", "sending", "bumped", "storing", "answered", "failed"}]
  /\ todo \in [Senders -> SUBSET Devices]
  /\ at \in [Senders -> Nat]
  /\ rowAt \in [Rows -> Nat]
  /\ delivered \subseteq Rows /\ deleted \subseteq Rows
  /\ late \subseteq Rows /\ raced \subseteq Rows
  /\ reader \in [Devices -> {"idle", "selected", "acked", "replying"}]
  /\ since \in [Devices -> Nat]
  /\ page \in [Devices -> SUBSET Rows]
  /\ nextBatch \in [Devices -> Nat]
  /\ seen \in [Devices -> SUBSET Rows]
  /\ foreign \subseteq Txns /\ faults \in Nat

(* However many sends overlap or stop half-way, no two messages sent with
   sendToDevice share a stream position, so a LIMIT never cuts between two of
   them.  (A server notice may share one.) *)
PutPositionsUnique ==
  \A m, n \in Inserted : (m[1] \in Puts /\ n[1] \in Puts /\ rowAt[m] = rowAt[n]) => m = n

(* Rows of one device at the same position: the LIMIT may cut between them. *)
Tied(m) == \E n \in Inserted \ {m} : n[2] = m[2] /\ rowAt[n] = rowAt[m]

(* A message is marked delivered only after its device received it, unless it
   was inserted at or below a position already taken, between a sync's empty
   page and its MAX, or shares its position.  Lost responses, failed senders
   and cleanups lose nothing. *)
LossesExplained ==
  \A m \in delivered : m \in seen[m[2]] \cup late \cup raced \/ Tied(m)

(* A request that was answered, for the first time or from the transaction
   table, has stored a message for every target device, unless the user has
   used its transaction id on another endpoint. *)
AnsweredIsStored ==
  \A s \in Puts : (step[s] = "answered" /\ TxnOf[s] \notin foreign) =>
    \A d \in Targets[TxnOf[s]] : \E q \in Puts : TxnOf[q] = TxnOf[s] /\ rowAt[<<q, d>>] # 0

(* A stored message reaches its device in the end, if that syncs, with the same exceptions. *)
EventuallySeen ==
  \A m \in {n \in Rows : n[2] \in Readers} :
    (m \in Inserted) ~> (m \in seen[m[2]] \cup late \cup raced \/ Tied(m))
=============================================================================
