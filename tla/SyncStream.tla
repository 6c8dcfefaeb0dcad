----------------------------- MODULE SyncStream -----------------------------
(***************************************************************************)
(* How an event travels from storeEvent (services/database.ts) to the      *)
(* clients that long-poll GET /sync (api/sync.ts), and the part the user's *)
(* SyncDurableObject plays in waking them.                                 *)
(*                                                                         *)
(* storeEvent is two D1 statements on the events table: SELECT             *)
(* MAX(stream_ordering), then INSERT with that value plus one.  Workers    *)
(* run concurrently and D1 gives no transaction around the two, so any     *)
(* number of calls may sit between them.  A sync request reads the         *)
(* position it will answer with first, then one page of every joined room, *)
(* and only when all pages were empty asks the SyncDurableObject to wait.  *)
(*                                                                         *)
(* An event identifier stands for the one storeEvent call that inserts it. *)
(***************************************************************************)
EXTENDS Naturals, FiniteSets

CONSTANTS
  Events,     \* the events of the run, one storeEvent call each
  Rooms,
  RoomOf,     \* the room every event is sent to
  Clients,    \* devices, each of a user of its own
  Joined,     \* the rooms every client's user is joined to
  PageLimit,  \* LIMIT of getEventsSince (100 in the code)
  MaxLost     \* bound: sync responses that never reach a client

ASSUME ConstantsAssumption ==
  /\ RoomOf \in [Events -> Rooms]
  /\ Joined \in [Clients -> SUBSET Rooms]
  /\ PageLimit \in Nat \ {0}
  /\ MaxLost \in Nat

VARIABLES
  writer,    \* progress of every event's storeEvent call
  ordering,  \* its stream_ordering, once read (0 before)
  notify,    \* per event: the users whose SyncDurableObject is still to be notified
  phase,     \* where every client's sync request is
  since,     \* the position the client presents
  current,   \* currentPosition of the request in progress
  toRead,    \* joined rooms the request has still to read
  page,      \* events the request has collected
  dropped,   \* events the request's LIMIT cut off
  received,  \* events the client has seen (history)
  cut,       \* events beyond a page whose token the client adopted (history)
  late,      \* events inserted at or below a position already taken (history)
  lost       \* responses lost so far (bounded by MaxLost)

storeVars  == <<writer, ordering, notify, late>>
clientVars == <<phase, since, current, toRead, page, dropped, received, cut, lost>>
vars == <<storeVars, clientVars>>

-----------------------------------------------------------------------------
(* Tables and queries *)

(* The rows of the events table. *)
Stored == {e \in Events : writer[e] = "stored"}

(* SELECT MAX(stream_ordering) FROM events, with null read as 0. *)
Orderings == {ordering[e] : e \in Stored} \cup {0}
LatestStreamPosition == CHOOSE n \in Orderings : \A m \in Orderings : m <= n

(* WHERE room_id = ? AND stream_ordering > ? *)
EventsSince(room, pos) == {e \in Stored : RoomOf[e] = room /\ ordering[e] > pos}

(* ORDER BY stream_ordering ASC LIMIT ?: rows with equal orderings come in any order. *)
Pages(rows) ==
  {p \in SUBSET rows :
     /\ \A e \in p, f \in rows \ p : ordering[e] <= ordering[f]
     /\ \/ Cardinality(p) = PageLimit
        \/ p = rows /\ Cardinality(rows) < PageLimit}

-----------------------------------------------------------------------------
(* storeEvent and notifyUsersOfEvent *)

(* Faulty variant: the next ordering is counted downwards. *)
ReadOrderingDownwards(e) ==
  /\ writer[e] = "new"
  /\ writer' = [writer EXCEPT ![e] = "ordered"]
  /\ ordering' = [ordering EXCEPT ![e] = LatestStreamPosition - 1]
  /\ UNCHANGED <<notify, late, clientVars>>

(* Faulty variant: the ordering comes from a counter bumped before the INSERT. *)
ReadOrderingFromCounter(e) ==
  /\ writer[e] = "new"
  /\ writer' = [writer EXCEPT ![e] = "ordered"]
  /\ ordering' = [ordering EXCEPT ![e] =
                    CHOOSE n \in 1 .. Cardinality(Events) :
                      \A f \in Events : ordering[f] < n /\ \E g \in Events : n = ordering[g] + 1]
  /\ UNCHANGED <<notify, late, clientVars>>

(* SELECT MAX(stream_ordering) FROM events. *)
ReadOrdering(e) ==
  /\ writer[e] = "new"
  /\ writer' = [writer EXCEPT ![e] = "ordered"]
  /\ ordering' = [ordering EXCEPT ![e] = LatestStreamPosition + 1]
  /\ UNCHANGED <<notify, late, clientVars>>

(* INSERT INTO events; notifyUsersOfEvent then selects the joined members. *)
InsertEvent(e) ==
  /\ writer[e] = "ordered"
  /\ writer' = [writer EXCEPT ![e] = "stored"]
  /\ late' = IF ordering[e] <= LatestStreamPosition THEN late \cup {e} ELSE late
  /\ notify' = [notify EXCEPT ![e] = {c \in Clients : RoomOf[e] \in Joined[c]}]
  /\ UNCHANGED <<ordering, clientVars>>

(* POST /notify to one member's SyncDurableObject: its waiting request resolves. *)
NotifyUser(e, c) ==
  /\ c \in notify[e]
  /\ notify' = [notify EXCEPT ![e] = @ \ {c}]
  /\ phase' = IF phase[c] = "waiting" THEN [phase EXCEPT ![c] = "replying"] ELSE phase
  /\ UNCHANGED <<writer, ordering, late, since, current, toRead, page, dropped,
                 received, cut, lost>>

(* The notification fails and is only logged. *)
NotifyFails(e, c) ==
  /\ c \in notify[e]
  /\ notify' = [notify EXCEPT ![e] = @ \ {c}]
  /\ UNCHANGED <<writer, ordering, late, clientVars>>

(* The worker stops between two statements: before the INSERT nothing is
   stored, after it the remaining notifications are never sent. *)
WriterStops(e) ==
  \/ /\ writer[e] = "ordered"
     /\ writer' = [writer EXCEPT ![e] = "failed"]
     /\ UNCHANGED <<notify, ordering, late, clientVars>>
  \/ /\ writer[e] = "stored" /\ notify[e] # {}
     /\ notify' = [notify EXCEPT ![e] = {}]
     /\ UNCHANGED <<writer, ordering, late, clientVars>>

-----------------------------------------------------------------------------
(* GET /sync *)

(* The request arrives and reads currentPosition. *)
SyncStart(c) ==
  /\ phase[c] = "idle"
  /\ phase' = [phase EXCEPT ![c] = "reading"]
  /\ current' = [current EXCEPT ![c] = LatestStreamPosition]
  /\ toRead' = [toRead EXCEPT ![c] = Joined[c]]
  /\ page' = [page EXCEPT ![c] = {}]
  /\ dropped' = [dropped EXCEPT ![c] = {}]
  /\ UNCHANGED <<storeVars, since, received, cut, lost>>

(* getEventsSince for one joined room. *)
ReadRoom(c, room) ==
  /\ phase[c] = "reading" /\ room \in toRead[c]
  /\ \E p \in Pages(EventsSince(room, since[c])) :
       /\ page' = [page EXCEPT ![c] = @ \cup p]
       /\ dropped' = [dropped EXCEPT ![c] = @ \cup (EventsSince(room, since[c]) \ p)]
  /\ toRead' = [toRead EXCEPT ![c] = @ \ {room}]
  /\ UNCHANGED <<storeVars, phase, since, current, received, cut, lost>>

(* All pages read: answer at once when there is an event to return, or other
   data, or no timeout, or no token; call /wait-for-events otherwise. *)
Decide(c) ==
  /\ phase[c] = "reading" /\ toRead[c] = {}
  /\ \E atOnce \in BOOLEAN :
       phase' = [phase EXCEPT ![c] =
                   IF page[c] = {} /\ since[c] > 0 /\ ~ atOnce THEN "calling" ELSE "replying"]
  /\ UNCHANGED <<storeVars, since, current, toRead, page, dropped, received, cut, lost>>

(* The SyncDurableObject pushes the request's resolver. *)
RegisterWaiter(c) ==
  /\ phase[c] = "calling"
  /\ phase' = [phase EXCEPT ![c] = "waiting"]
  /\ UNCHANGED <<storeVars, since, current, toRead, page, dropped, received, cut, lost>>

(* Faulty variant: /wait-for-events without its timer. *)
WaitForever(c) == phase[c] = "waiting" /\ FALSE /\ UNCHANGED vars

(* The timer of handleWaitForEvents wins the race and removes the resolver. *)
WaitTimeout(c) ==
  /\ phase[c] = "waiting"
  /\ phase' = [phase EXCEPT ![c] = "replying"]
  /\ UNCHANGED <<storeVars, since, current, toRead, page, dropped, received, cut, lost>>

(* Faulty variant: next_batch is read when the response is built. *)
ReplyWithLatest(c) ==
  /\ phase[c] = "replying"
  /\ phase' = [phase EXCEPT ![c] = "idle"]
  /\ since' = [since EXCEPT ![c] = LatestStreamPosition]
  /\ received' = [received EXCEPT ![c] = @ \cup page[c]]
  /\ cut' = [cut EXCEPT ![c] = @ \cup dropped[c]]
  /\ UNCHANGED <<storeVars, current, toRead, page, dropped, lost>>

(* The response reaches the client, which adopts next_batch = currentPosition:
   the position read before the pages, whether or not a wait came in between. *)
Reply(c) ==
  /\ phase[c] = "replying"
  /\ phase' = [phase EXCEPT ![c] = "idle"]
  /\ since' = [since EXCEPT ![c] = current[c]]
  /\ received' = [received EXCEPT ![c] = @ \cup page[c]]
  /\ cut' = [cut EXCEPT ![c] = @ \cup dropped[c]]
  /\ UNCHANGED <<storeVars, current, toRead, page, dropped, lost>>

(* The request fails or its response is lost: the client keeps its token. *)
SyncLost(c) ==
  /\ phase[c] # "idle" /\ lost < MaxLost
  /\ phase' = [phase EXCEPT ![c] = "idle"]
  /\ lost' = lost + 1
  /\ UNCHANGED <<storeVars, since, current, toRead, page, dropped, received, cut>>

-----------------------------------------------------------------------------
Init ==
  /\ writer = [e \in Events |-> "new"]
  /\ ordering = [e \in Events |-> 0]
  /\ notify = [e \in Events |-> {}]
  /\ late = {}
  /\ phase = [c \in Clients |-> "idle"]
  /\ since = [c \in Clients |-> 0]
  /\ current = [c \in Clients |-> 0]
  /\ toRead = [c \in Clients |-> {}]
  /\ page = [c \in Clients |-> {}]
  /\ dropped = [c \in Clients |-> {}]
  /\ received = [c \in Clients |-> {}]
  /\ cut = [c \in Clients |-> {}]
  /\ lost = 0

StoreStep(e) ==
  \/ ReadOrdering(e)
  \/ InsertEvent(e)
  \/ \E c \in Clients : NotifyUser(e, c) \/ NotifyFails(e, c)
  \/ WriterStops(e)

SyncStep(c) ==
  \/ SyncStart(c)
  \/ \E room \in Rooms : ReadRoom(c, room)
  \/ Decide(c)
  \/ RegisterWaiter(c)
  \/ WaitTimeout(c)
  \/ Reply(c)

Next ==
  \/ \E e \in Events : StoreStep(e)
  \/ \E c \in Clients : SyncStep(c) \/ SyncLost(c)

(* Clients keep polling and a poll's own steps do not stall: every statement
   of the handler returns, and the 25 second timer fires.  Nothing is assumed
   of the writers or of the notifications. *)
Fairness == \A c \in Clients : WF_vars(SyncStep(c))

Spec == Init /\ [][Next]_vars
FairSpec == Spec /\ Fairness

-----------------------------------------------------------------------------
(* Properties *)

(* Every variable holds a value of its type. *)
TypeOK ==
  /\ writer \in [Events -> {"new", "ordered", "stored", "failed"}]
  /\ ordering \in [Events -> Nat]
  /\ notify \in [Events -> SUBSET Clients]
  /\ late \in SUBSET Events
  /\ phase \in [Clients -> {"idle", "reading", "calling", "waiting", "replying"}]
  /\ since \in [Clients -> Nat]
  /\ current \in [Clients -> Nat]
  /\ toRead \in [Clients -> SUBSET Rooms]
  /\ page \in [Clients -> SUBSET Events]
  /\ dropped \in [Clients -> SUBSET Events]
  /\ received \in [Clients -> SUBSET Events]
  /\ cut \in [Clients -> SUBSET Events]
  /\ lost \in Nat

(* However many storeEvent calls overlap or die half-way, the orderings in the
   table are 1, 2, ..., MAX without a hole: a position a client is given always
   names a row, and paging by stream_ordering never waits for a missing one. *)
OrderingsContiguous ==
  \A n \in 1 .. LatestStreamPosition : \E e \in Stored : ordering[e] = n

(* An event at or below the token a client holds, in a room of that client, was
   received by it, unless two storeEvent calls overlapped so that the row
   appeared at or below a position already taken, or the LIMIT of
   getEventsSince cut it off.  Lost responses, timeouts, missed and failed
   wake-ups never make a client skip an event. *)
GapsExplained ==
  \A c \in Clients, e \in Stored :
    (RoomOf[e] \in Joined[c] /\ ordering[e] <= since[c])
      => e \in received[c] \cup late \cup cut[c]

(* An event that entered the table above every other one reaches every joined
   client, or was cut off by the LIMIT, even when its notification was lost or
   came before the client registered as a waiter. *)
EventuallyReceived ==
  \A c \in Clients, e \in Events :
    (e \in Stored \ late /\ RoomOf[e] \in Joined[c]) ~> (e \in received[c] \cup cut[c])
=============================================================================
