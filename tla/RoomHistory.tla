----------------------------- MODULE RoomHistory -----------------------------
(***************************************************************************)
(* Reading the history of a room while it grows: /messages, /context and   *)
(* timestamp_to_event for clients, backfill, get_missing_events, state and *)
(* event_auth for other servers.  Every one of these handlers is a         *)
(* sequence of SELECTs on the events table, and events are stored between  *)
(* them.  Events of other servers are stored in any order, so that the     *)
(* stream order, the depth and origin_server_ts are three different        *)
(* orders; an answer in pages is complete only in the order it is cut by.  *)
(* storeEvent reads the highest stream_ordering and inserts the next one   *)
(* in two statements, and no index keeps two events from having the same.  *)
(*                                                                         *)
(* Readers change nothing, so that one is enough.  The tokens a client has *)
(* are those of the pages it got.                                          *)
(***************************************************************************)
EXTENDS Naturals, FiniteSets, SequencesExt

CONSTANTS
  Events,       \* natural numbers
  Prev, Auth,   \* prev_events and auth_events of every event
  Depth, Ts,    \* depth and origin_server_ts; timestamps are above every stream position
  Unordered,    \* events stored without a stream_ordering (send_knock)
  Limits        \* values of the limit of a request

VARIABLES
  stored,     \* the events of the room that have been inserted
  position,   \* their stream_ordering, 0 for NULL; of the others, the one that storeEvent is going to insert, or 0
  reader      \* the request, or the paging, that is going on

historyVars == <<stored, position, reader>>

(* SELECT ... ORDER BY key LIMIT n: rows with the same key come in any order, here that of their numbers;
   NULL is below every number. *)
Lower(S, key, e) == {f \in S : key[f] < key[e] \/ (key[f] = key[e] /\ f < e)}
Higher(S, key, e) == {f \in S : key[f] > key[e] \/ (key[f] = key[e] /\ f < e)}
Cut(S, n) == 1 .. (IF Cardinality(S) < n THEN Cardinality(S) ELSE n)

Ascending(S, key, n) == [i \in Cut(S, n) |-> CHOOSE e \in S : Cardinality(Lower(S, key, e)) = i - 1]
Descending(S, key, n) == [i \in Cut(S, n) |-> CHOOSE e \in S : Cardinality(Higher(S, key, e)) = i - 1]

NoReader == [op |-> "none", step |-> "none", dir |-> "b", limit |-> 0, token |-> 0, target |-> 0,
             first |-> {}, earliest |-> {}, from |-> 0, todo |-> <<>>, visited |-> {}, seen |-> {}, base |-> {},
             again |-> FALSE, cuts |-> {}]

(* History: "base", what was stored when the request came; "again", a page repeated another one; "cuts", the
   positions of the last events of the pages. *)
Request(op, limit) == [NoReader EXCEPT !.op = op, !.step = "page", !.limit = limit, !.base = stored]

-----------------------------------------------------------------------------
(* storeEvent of another event, of this server or of another one and perhaps older: SELECT MAX(stream_ordering) ...
   A storeEvent that failed in between may be repeated. *)
ReadOrdering(e) ==
  /\ e \notin stored \cup Unordered
  /\ position' = [position EXCEPT ![e] = Max({position[f] : f \in stored} \cup {0}) + 1]
  /\ UNCHANGED <<stored, reader>>

(* ... and the INSERT with the next one, which others may have taken since; of an unordered event the INSERT alone. *)
StoreEvent(e) ==
  /\ e \notin stored /\ (e \in Unordered \/ position[e] # 0)
  /\ stored' = stored \cup {e}
  /\ UNCHANGED <<position, reader>>

(* GET messages without a token, from either end. *)
OpenMessages(dir, limit) ==
  /\ reader = NoReader
  /\ reader' = [Request("messages", limit) EXCEPT !.dir = dir]
  /\ UNCHANGED <<stored, position>>

(* Faulty variant: the page begins with the token's own event. *)
GetRoomEventsInclusive(dir, token, limit) ==
  IF dir = "b"
  THEN Descending({e \in stored : token # 0 => position[e] # 0 /\ position[e] <= token}, position, limit)
  ELSE Ascending({e \in stored : token # 0 => position[e] >= token}, position, limit)

(* getRoomEvents: a token of 0 is no token. *)
GetRoomEvents(dir, token, limit) ==
  IF dir = "b"
  THEN Descending({e \in stored : token # 0 => position[e] # 0 /\ position[e] < token}, position, limit)
  ELSE Ascending({e \in stored : token # 0 => position[e] > token}, position, limit)

(* A page of /messages; without "end" the client has reached the end. *)
Messages ==
  LET page == GetRoomEvents(reader.dir, reader.token, reader.limit) IN
  /\ reader.op = "messages" /\ reader.step = "page"
  /\ reader' = IF page = <<>> THEN [reader EXCEPT !.step = "done"]
               ELSE [reader EXCEPT !.token = position[Last(page)], !.seen = @ \cup ToSet(page),
                                   !.again = @ \/ ToSet(page) \cap reader.seen # {},
                                   !.cuts = @ \cup {position[Last(page)]}]
  /\ UNCHANGED <<stored, position>>

(* timestamp_to_event, of clients and of servers: the closest event at or after a time, or at or before it. *)
Closest(dir, ts) ==
  IF dir = "f" THEN Ascending({e \in stored : Ts[e] >= ts}, Ts, 1)
  ELSE Descending({e \in stored : Ts[e] <= ts}, Ts, 1)

(* A client jumps to a time: timestamp_to_event, and then /context of the event it found. *)
Jump(dir, ts, limit) ==
  /\ reader = NoReader
  /\ reader' = IF Closest(dir, ts) = <<>> THEN [Request("context", limit) EXCEPT !.step = "done"]
               ELSE [Request("context", limit) EXCEPT !.step = "before", !.target = Closest(dir, ts)[1]]
  /\ UNCHANGED <<stored, position>>

(* /context: half of the limit in each direction by time ... *)
ContextBefore ==
  LET page == Descending({e \in stored : Ts[e] < Ts[reader.target]}, Ts, reader.limit \div 2) IN
  /\ reader.op = "context" /\ reader.step = "before"
  /\ reader' = [reader EXCEPT !.step = "after", !.seen = {reader.target} \cup ToSet(page),
                              !.token = IF page = <<>> THEN 0 ELSE Ts[Last(page)]]
  /\ UNCHANGED <<stored, position>>

(* ... and then the client pages back from "start", the time of the first event, when there is one. *)
ContextAfter ==
  LET page == Ascending({e \in stored : Ts[e] > Ts[reader.target]}, Ts, reader.limit \div 2) IN
  /\ reader.op = "context" /\ reader.step = "after"
  /\ reader' = [reader EXCEPT !.step = "around", !.seen = @ \cup ToSet(page)]
  /\ UNCHANGED <<stored, position>>

PageFromContext ==
  /\ reader.step = "around" /\ reader.token # 0
  /\ reader' = [Request("messages", reader.limit) EXCEPT !.token = reader.token]
  /\ UNCHANGED <<stored, position>>

-----------------------------------------------------------------------------
(* backfill: a server asks for what is before an event, or for the newest events. *)
OpenBackfill(v, limit) ==
  /\ reader = NoReader /\ v \in stored \cup {0}
  /\ reader' = [Request("backfill", limit) EXCEPT !.target = v, !.from = v]
  /\ UNCHANGED <<stored, position>>

(* Faulty variant: the depth right below is left out. *)
BackfillPageShort(v, limit) ==
  Descending({e \in stored : v # 0 => Depth[e] + 1 < Depth[v]}, Depth, limit)

BackfillPage(v, limit) ==
  Descending({e \in stored : v # 0 => Depth[e] < Depth[v]}, Depth, limit)

(* The server asks again from the last event it got. *)
Backfill ==
  LET page == BackfillPage(reader.target, reader.limit) IN
  /\ reader.op = "backfill" /\ reader.step = "page"
  /\ reader' = IF page = <<>> THEN [reader EXCEPT !.step = "done"]
               ELSE [reader EXCEPT !.target = Last(page), !.seen = @ \cup ToSet(page)]
  /\ UNCHANGED <<stored, position>>

-----------------------------------------------------------------------------
(* The walks: a queue of event ids, one SELECT for each. *)

(* get_missing_events: from the latest events, not beyond the earliest ones. *)
OpenMissing(latest, earliest, limit) ==
  /\ reader = NoReader
  /\ reader' = [Request("missing", limit) EXCEPT !.step = "walk", !.first = latest, !.earliest = earliest,
                  !.todo = SetToSeq(latest), !.visited = earliest]
  /\ UNCHANGED <<stored, position>>

(* event_auth of an event that is stored. *)
OpenEventAuth(e) ==
  /\ reader = NoReader /\ e \in stored
  /\ reader' = [Request("auth", Cardinality(Events)) EXCEPT !.step = "walk", !.first = Auth[e],
                  !.todo = SetToSeq(Auth[e])]
  /\ UNCHANGED <<stored, position>>

(* state: the auth events of the state events, here those of one, and not theirs. *)
OpenState(e) ==
  /\ reader = NoReader /\ e \in stored
  /\ reader' = [Request("state", Cardinality(Events)) EXCEPT !.step = "walk", !.first = Auth[e],
                  !.todo = SetToSeq(Auth[e])]
  /\ UNCHANGED <<stored, position>>

(* state_ids: the same ids, without a SELECT for them. *)
OpenStateIds(e) ==
  /\ reader = NoReader /\ e \in stored
  /\ reader' = [Request("state_ids", 0) EXCEPT !.step = "done", !.seen = Auth[e]]
  /\ UNCHANGED <<stored, position>>

References(op, e) == CASE op = "missing" -> Prev[e] [] op = "auth" -> Auth[e] [] op = "state" -> {}

(* Faulty variant: an event that is not here ends the walk. *)
WalkUntilAbsent ==
  LET e == Head(reader.todo) rest == Tail(reader.todo) IN
  /\ reader.step = "walk" /\ reader.todo # <<>> /\ Cardinality(reader.seen) < reader.limit
  /\ reader' = IF e \in reader.visited THEN [reader EXCEPT !.todo = rest]
               ELSE IF e \notin stored THEN [reader EXCEPT !.todo = <<>>]
               ELSE [reader EXCEPT !.visited = @ \cup {e}, !.seen = @ \cup {e},
                       !.todo = rest \o SetToSeq(References(reader.op, e) \ (reader.visited \cup {e}))]
  /\ UNCHANGED <<stored, position>>

Walk ==
  LET e == Head(reader.todo) rest == Tail(reader.todo) IN
  /\ reader.step = "walk" /\ reader.todo # <<>> /\ Cardinality(reader.seen) < reader.limit
  /\ reader' = IF e \in reader.visited THEN [reader EXCEPT !.todo = rest]
               ELSE IF e \notin stored THEN [reader EXCEPT !.todo = rest, !.visited = @ \cup {e}]
               ELSE [reader EXCEPT !.visited = @ \cup {e}, !.seen = @ \cup {e},
                       !.todo = rest \o SetToSeq(References(reader.op, e) \ (reader.visited \cup {e}))]
  /\ UNCHANGED <<stored, position>>

EndWalk ==
  /\ reader.step = "walk" /\ (reader.todo = <<>> \/ Cardinality(reader.seen) >= reader.limit)
  /\ reader' = [reader EXCEPT !.step = "done"]
  /\ UNCHANGED <<stored, position>>

-----------------------------------------------------------------------------
(* relations: events has no column relates_to_event_id, and the SELECT throws. *)
Relations ==
  /\ reader = NoReader
  /\ reader' = [Request("relations", 0) EXCEPT !.step = "failed"]
  /\ UNCHANGED <<stored, position>>

(* The answer has been read; another request may come. *)
Close ==
  /\ reader.step \in {"done", "failed", "around"}
  /\ reader' = NoReader
  /\ UNCHANGED <<stored, position>>

HistoryInit ==
  /\ \E e \in Events \ Unordered : Prev[e] = {} /\ stored = {e} /\ position = [f \in Events |-> IF f = e THEN 1 ELSE 0]
  /\ reader = NoReader

HistoryNext ==
  \/ \E e \in Events : ReadOrdering(e) \/ StoreEvent(e) \/ OpenEventAuth(e) \/ OpenState(e) \/ OpenStateIds(e)
  \/ \E limit \in Limits :
       \/ \E dir \in {"b", "f"} :
            OpenMessages(dir, limit) \/ \E e \in Events : Jump(dir, Ts[e], limit)
       \/ \E v \in Events \cup {0} : OpenBackfill(v, limit)
       \/ \E e, f \in Events : OpenMissing({e}, {f}, limit)
  \/ Messages \/ ContextBefore \/ ContextAfter \/ PageFromContext
  \/ Backfill \/ Walk \/ EndWalk \/ Relations \/ Close

HistorySpec == HistoryInit /\ [][HistoryNext]_historyVars

-----------------------------------------------------------------------------
(* Properties *)

(* A client that pages through the room to its end has every event that was there when it
   began and has a stream position, except for those that share it with the last event of a page;
   and no page repeats another one, unless an event without a position ended a page (its token is
   that of the beginning).  That holds from the token of /context too, which is a time and so above
   every position: the pages begin with the newest event. *)
PagingComplete ==
  reader.op = "messages" =>
    /\ reader.step = "done" =>
         \A e \in reader.base \ Unordered : e \in reader.seen \/ position[e] \in reader.cuts
    /\ reader.again => reader.seen \cap Unordered # {}

(* A server that pages back with backfill gets every event below the one it began with, except
   for those at the depth of an event it did get (the last of a page). *)
BackfillComplete ==
  reader.op = "backfill" /\ reader.step = "done" =>
    \A e \in reader.base : (reader.from # 0 => Depth[e] < Depth[reader.from]) =>
      \E f \in reader.seen : Depth[f] = Depth[e]

(* A walk that was not cut off by its limit is closed: with an event it has every event it
   refers to that was here when the request came and is not one of the earliest; event_auth
   answers the whole auth chain. *)
WalksClosed ==
  reader.step = "done" /\ reader.op \in {"missing", "auth", "state"} /\ Cardinality(reader.seen) < reader.limit =>
    LET wanted == reader.first \cup UNION {References(reader.op, e) : e \in reader.seen} IN
    reader.base \cap wanted \subseteq reader.seen \cup reader.earliest

(* Who reads to the end has read everything: pages of a client, pages of a server, walks along the references. *)
ReadersComplete == PagingComplete /\ BackfillComplete /\ WalksClosed
=============================================================================
