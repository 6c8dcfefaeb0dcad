---------------------------- MODULE SlidingSync ----------------------------
(***************************************************************************)
(* POST /sync of sliding sync (api/sliding-sync.ts) for one connection of  *)
(* one user: the MSC3575 handler and the simplified one, which differ in   *)
(* where a room without a position starts and in whether a request without *)
(* news waits.                                                             *)
(*                                                                         *)
(* What was sent is remembered by the server: the user's SyncDurableObject *)
(* keeps a connection state with a position, a notification count and a    *)
(* read marker per room.  A request reads that state, works on a copy      *)
(* while it reads room after room, stores the copy, and only then answers. *)
(* A client that gives up on a request posts the next one while the first  *)
(* still runs.                                                             *)
(*                                                                         *)
(* Row n of the events table is the n-th element of log, so storing is     *)
(* atomic here (SyncStream has the storing in two statements).             *)
(***************************************************************************)
EXTENDS Integers, Sequences, FiniteSets, SequencesExt, FiniteSetsExt

CONSTANTS
  Rooms,
  MaxRequests,   \* bound: requests handled at a time
  Profiles,      \* how the client asks and how it begins: endpoint, subscriptions, memberships, first rows, ...
  RangeEnd,      \* rooms of the one list the client asks for
  TimelineLimit,
  MaxRows,       \* bound: rows of the events table
  ReadElsewhere, \* the rooms another device of the user reads
  MaxTrouble     \* bound: kinds of trouble in one behaviour

VARIABLES
  handler,  \* the endpoint the client uses: "msc3575" or "simplified"
  subs,     \* room_subscriptions of every request
  asks,     \* whether the requests ask for extensions
  log,      \* events: the room of every row, by stream_ordering
  member,   \* the user's membership row per room: "invite", "join" or "none"
  joining,  \* rooms whose join is stored and their membership row not yet
  readTo,   \* the row the user's receipt and m.fully_read marker point to, per room
  typing,   \* rooms in which someone else types
  conn,     \* the connection state in the durable object
  req,      \* the requests being handled
  live,     \* the request the client waits for, or NoRequest
  pos,      \* pos of the last response the client has
  got,      \* rows the client was given (history)
  shown,    \* notification count the client shows, per room
  typed,    \* rooms in which the client shows someone typing
  skipped,  \* rows a stored position passed for a known reason (history)
  missed,   \* rooms whose join a response's position passed while they were invitations (history)
  trouble   \* what went wrong so far: "lost", "fault", "reset", once each

clientVars == <<live, pos, got, shown, typed>>
roomVars == <<log, member, joining, readTo, typing>>
fixed == <<handler, subs, asks>>
historyVars == <<skipped, missed>>
vars == <<fixed, roomVars, conn, req, clientVars, historyVars, trouble>>

Requests == 1 .. MaxRequests
NoRequest == 0
NoCount == -1
Simplified == handler = "simplified"

-----------------------------------------------------------------------------
(* Tables and queries *)

RowsOf(room) == {n \in DOMAIN log : log[n] = room}

(* getCurrentStreamPosition: MAX(stream_ordering). *)
CurrentPosition == Len(log)

(* countNotificationsWithRules: the events after the receipt. *)
Count(room) == Cardinality({n \in RowsOf(room) : n > readTo[room]})

(* getUserRooms: joined and invited rooms, the latest activity first. *)
UserRooms == SetToSortSeq({r \in Rooms : member[r] # "none"}, LAMBDA a, b : Max(RowsOf(a)) > Max(RowsOf(b)))

(* A connection nothing was sent on. *)
FreshState ==
  [sent |-> {}, last |-> [r \in Rooms |-> 0], counts |-> [r \in Rooms |-> NoCount],
   markers |-> [r \in Rooms |-> 0], asRead |-> {}, list |-> <<>>, complete |-> FALSE]

NoState == [FreshState EXCEPT !.counts = [r \in Rooms |-> 0]]

EmptyResponse ==
  [rooms |-> {}, events |-> [r \in Rooms |-> {}], counts |-> [r \in Rooms |-> 0],
   ephemeral |-> {}, typing |-> {}]

Idle == [phase |-> "none", since |-> 0, current |-> 0, unsub |-> {}, st |-> FreshState,
         todo |-> <<>>, changes |-> FALSE, resp |-> EmptyResponse,
         skip |-> {}, dropped |-> {}, joining |-> {}]

(* The n first or last rows of a set. *)
FirstOf(rows, n) == {i \in rows : Cardinality({j \in rows : j < i}) < n}
LastOf(rows, n) == {i \in rows : Cardinality({j \in rows : j > i}) < n}

(* Where the rows of a room start: at the beginning for a room that was not
   sent, else after the last row sent; a room that was only sent as an
   invitation has none, and the handlers choose differently. *)
SincePosition(q, room) ==
  LET st == req[q].st IN
  IF room \notin st.sent THEN 0
  ELSE IF st.last[room] > 0 THEN st.last[room]
  ELSE IF Simplified THEN req[q].since ELSE 0

(* getRoomData: the first rows after a position, or the latest ones when there is no position. *)
Timeline(room, from) ==
  IF from > 0 THEN FirstOf({n \in RowsOf(room) : n > from}, TimelineLimit)
  ELSE LastOf(RowsOf(room), TimelineLimit)

(* Rows that the new position passes without being in the page. *)
PassedBy(room, from, page) ==
  IF from > 0 THEN {n \in RowsOf(room) : n <= from}
  ELSE {n \in RowsOf(room) : n < Max(page)} \ page

May(what) == what \notin trouble /\ Cardinality(trouble) < MaxTrouble

-----------------------------------------------------------------------------
(* Other actors *)

(* A message in a joined room. *)
StoreMessage(room) ==
  /\ Len(log) < MaxRows /\ member[room] = "join"
  /\ log' = Append(log, room)
  /\ missed' = missed \ {room}
  /\ UNCHANGED <<fixed, member, joining, readTo, typing, conn, req, clientVars, skipped, trouble>>

(* The user accepts an invitation: the event is stored first. *)
StoreJoin(room) ==
  /\ Len(log) < MaxRows /\ member[room] = "invite" /\ room \notin joining
  /\ log' = Append(log, room)
  /\ joining' = joining \cup {room}
  /\ UNCHANGED <<fixed, member, readTo, typing, conn, req, clientVars, historyVars, trouble>>

(* updateMembership. *)
Join(room) ==
  /\ room \in joining
  /\ joining' = joining \ {room}
  /\ member' = [member EXCEPT ![room] = "join"]
  /\ UNCHANGED <<fixed, log, readTo, typing, conn, req, clientVars, historyVars, trouble>>

(* Another device of the user reads the room. *)
MarkRead(room) ==
  /\ room \in ReadElsewhere /\ member[room] = "join" /\ readTo[room] < Max(RowsOf(room))
  /\ readTo' = [readTo EXCEPT ![room] = Max(RowsOf(room))]
  /\ UNCHANGED <<fixed, log, member, joining, typing, conn, req, clientVars, historyVars, trouble>>

(* Whoever types stops. *)
StopTyping(room) ==
  /\ room \in typing
  /\ typing' = typing \ {room}
  /\ UNCHANGED <<fixed, log, member, joining, readTo, conn, req, clientVars, historyVars, trouble>>

-----------------------------------------------------------------------------
(* The handler *)

(* The client posts a request; the handler parses it and reads the position.
   Only the MSC3575 handler looks at unsubscribe_rooms. *)
Post(q) ==
  /\ live = NoRequest /\ req[q].phase = "none" /\ \A p \in Requests : p < q => req[p].phase # "none"
  /\ live' = q
  /\ \E u \in {{}} \cup {{r} : r \in {s \in Rooms \ subs : ~ Simplified /\ May("reset")}} :
       /\ req' = [req EXCEPT ![q] = [Idle EXCEPT !.phase = "posted", !.since = pos,
                                                 !.current = CurrentPosition, !.unsub = u,
                                                 !.joining = joining]]
       /\ trouble' = IF u = {} THEN trouble ELSE trouble \cup {"reset"}
  /\ UNCHANGED <<fixed, roomVars, conn, pos, got, shown, typed, historyVars>>

(* The durable object does not answer: the client gets 503 and keeps its position. *)
StateUnavailable(q) ==
  /\ req[q].phase = "posted" /\ May("fault")
  /\ trouble' = trouble \cup {"fault"}
  /\ req' = [req EXCEPT ![q] = Idle]
  /\ live' = IF live = q THEN NoRequest ELSE live
  /\ UNCHANGED <<fixed, roomVars, conn, pos, got, shown, typed, historyVars>>

(* GET /sliding-sync/state.  Without a state a position of the past is taken as
   a reconnect; rows are never removed here, so no position is of the future. *)
GetState(q) ==
  /\ req[q].phase = "posted"
  /\ req' = [req EXCEPT ![q] = [@ EXCEPT !.phase = "list",
                                         !.st = IF conn = NoState THEN FreshState ELSE conn]]
  /\ UNCHANGED <<fixed, roomVars, conn, clientVars, historyVars, trouble>>

(* getUserRooms: the list is that of its rooms in range, with the memberships of
   that moment; what follows are the subscribed rooms, whose membership is read
   when their turn comes. *)
ListRooms(q) ==
  LET inRange == SubSeq(UserRooms, 1, Min({RangeEnd, Len(UserRooms)}))
      entry(r) == [room |-> r, kind |-> "list", member |-> member[r]]
      subscribed(r) == [room |-> r, kind |-> "sub", member |-> "row"] IN
  /\ req[q].phase = "list"
  /\ req' = [req EXCEPT ![q] = [@ EXCEPT
       !.phase = "rooms",
       !.changes = req[q].since = 0 \/ req[q].st.list # inRange,
       !.st.list = inRange,
       !.todo = [i \in DOMAIN inRange |-> entry(inRange[i])] \o SetToSeq({subscribed(r) : r \in subs})]]
  /\ UNCHANGED <<fixed, roomVars, conn, clientVars, historyVars, trouble>>

Entry(q) == Head(req[q].todo)
Invited(q) == IF Entry(q).member = "row" THEN member[Entry(q).room] = "invite"
              ELSE Entry(q).member = "invite"

(* getInviteRoomData: an invitation is sent with every response and leaves the
   room's position where it was. *)
ReadInvite(q) ==
  LET room == Entry(q).room IN
  /\ req[q].phase = "rooms" /\ req[q].todo # <<>> /\ Invited(q)
  /\ req' = [req EXCEPT ![q] = [@ EXCEPT
       !.todo = Tail(@), !.changes = TRUE, !.resp.rooms = @ \cup {room},
       !.skip = @ \cup {n \in RowsOf(room) : n <= SincePosition(q, room)},
       !.st.sent = @ \cup {room}, !.st.last[room] = SincePosition(q, room)]]
  /\ missed' = IF room \in req[q].joining /\ Max(RowsOf(room)) <= req[q].current
               THEN missed \cup {room} ELSE missed
  /\ UNCHANGED <<fixed, roomVars, conn, clientVars, skipped, trouble>>

(* Faulty variant: the end of the table. *)
LastOfTable(page, from) == CurrentPosition

(* maxStreamOrdering || roomSincePos *)
LastSent(page, from) == IF page = {} THEN from ELSE Max(page)

(* getRoomData and the tracking of counts and markers: the room
   is included when it is new, has a page, or its count, its marker or its being read
   is news; a room the simplified handler finds in room_subscriptions always is.  Its
   data replaces what the response has of the room.  (Page, count and marker are
   three queries; a row that comes between them is in the next page.) *)
ReadRoom(q) ==
  LET room == Entry(q).room
      st == req[q].st
      from == SincePosition(q, room)
      page == Timeline(room, from)
      count == Count(room)
      marker == readTo[room]
      news == \/ room \notin st.sent
              \/ page # {}
              \/ st.counts[room] \notin {NoCount, count}
              \/ marker \notin {0, st.markers[room]}
              \/ count = 0 /\ room \notin st.asRead
      included == news \/ (Simplified /\ Entry(q).kind = "sub")
      replaced == IF included THEN req[q].resp.events[room] \ page ELSE {}
      passed == IF st.last[room] > 0 THEN {} ELSE PassedBy(room, from, page)
      tracked == IF news
                 THEN [st EXCEPT !.counts[room] = count, !.markers[room] = marker,
                                 !.asRead = IF count = 0 THEN @ \cup {room} ELSE @ \ {room}]
                 ELSE st
  IN
  /\ req[q].phase = "rooms" /\ req[q].todo # <<>> /\ ~ Invited(q)
  /\ req' = [req EXCEPT ![q] = [@ EXCEPT
       !.todo = Tail(@),
       !.changes = @ \/ included,
       !.resp = IF included THEN [@ EXCEPT !.rooms = @ \cup {room}, !.events[room] = page,
                                           !.counts[room] = count]
                ELSE @,
       !.st = [tracked EXCEPT !.sent = @ \cup {room}, !.last[room] = LastSent(page, from)],
       !.dropped = @ \cup replaced, !.skip = @ \cup passed]]
  /\ UNCHANGED <<fixed, roomVars, conn, clientVars, historyVars, trouble>>

(* Faulty variant: only rooms that the response or the request names. *)
EphemeralRoomsNamed(q) == req[q].resp.rooms \cup subs

(* The rooms typing, receipts and the like are sent for: those of the response
   and the subscribed ones; the simplified handler takes all joined rooms when there
   are none, and once for a connection whose client asks for no extension. *)
EphemeralRooms(q) ==
  LET named == req[q].resp.rooms \cup subs
      joined == {r \in Rooms : member[r] = "join"}
      fallback == Simplified /\ ~ req[q].st.complete IN
  IF asks THEN IF Simplified /\ named = {} THEN joined ELSE named
  ELSE IF fallback THEN joined ELSE {}

Carried(q) == UNION {req[q].resp.events[r] : r \in Rooms}

(* What is stored: unsubscribed rooms lose their state. *)
StateToSave(q) ==
  [req[q].st EXCEPT !.sent = @ \ req[q].unsub,
                    !.last = [r \in Rooms |-> IF r \in req[q].unsub THEN 0 ELSE @[r]],
                    !.complete = Simplified]

(* After the extensions were read the request of the simplified handler waits
   when it has no changes; what it worked with is not looked at again. *)
Answering(q) ==
  [req[q] EXCEPT !.phase = IF Simplified /\ ~ req[q].changes THEN "waiting" ELSE "replying",
                 !.resp.ephemeral = EphemeralRooms(q), !.resp.typing = EphemeralRooms(q) \cap typing,
                 !.st = FreshState, !.since = 0, !.changes = FALSE, !.unsub = {},
                 !.skip = {}, !.dropped = {}, !.joining = {}]

(* The extensions are read and the state is put, always before the answer. *)
Save(q) ==
  /\ req[q].phase = "rooms" /\ req[q].todo = <<>>
  /\ conn' = StateToSave(q)
  /\ skipped' = skipped \cup req[q].skip \cup req[q].dropped \cup (IF live = q THEN {} ELSE Carried(q))
  /\ req' = [req EXCEPT ![q] = Answering(q)]
  /\ UNCHANGED <<fixed, roomVars, clientVars, missed, trouble>>

(* The state could not be stored: it is only logged, and the answer goes out. *)
SaveFails(q) ==
  /\ req[q].phase = "rooms" /\ req[q].todo = <<>> /\ May("fault")
  /\ trouble' = trouble \cup {"fault"}
  /\ req' = [req EXCEPT ![q] = Answering(q)]
  /\ UNCHANGED <<fixed, roomVars, conn, clientVars, historyVars>>

(* /wait-for-events returns, woken or timed out; the answer stays what it was. *)
EndWait(q) ==
  /\ req[q].phase = "waiting"
  /\ req' = [req EXCEPT ![q].phase = "replying"]
  /\ UNCHANGED <<fixed, roomVars, conn, clientVars, historyVars, trouble>>

(* The response arrives. *)
Reply(q) ==
  LET resp == req[q].resp IN
  /\ req[q].phase = "replying" /\ live = q
  /\ pos' = req[q].current
  /\ got' = got \cup Carried(q)
  /\ shown' = [r \in Rooms |-> IF r \in resp.rooms THEN resp.counts[r] ELSE shown[r]]
  /\ typed' = (typed \ resp.ephemeral) \cup resp.typing
  /\ live' = NoRequest
  /\ req' = [req EXCEPT ![q] = Idle]
  /\ UNCHANGED <<fixed, roomVars, conn, historyVars, trouble>>

(* The client gives up on its request, which the server goes on handling. *)
Abandon(q) ==
  /\ live = q /\ May("lost")
  /\ trouble' = trouble \cup {"lost"}
  /\ live' = NoRequest
  /\ skipped' = skipped \cup (IF req[q].phase \in {"waiting", "replying"} THEN Carried(q) ELSE {})
  /\ UNCHANGED <<fixed, roomVars, conn, req, pos, got, shown, typed, missed>>

(* The response of such a request goes nowhere. *)
Discard(q) ==
  /\ req[q].phase = "replying" /\ live # q
  /\ req' = [req EXCEPT ![q] = Idle]
  /\ UNCHANGED <<fixed, roomVars, conn, clientVars, historyVars, trouble>>

(* The client goes on under a conn_id the server does not know, with its old position. *)
Reconnect ==
  /\ May("reset") /\ conn # NoState /\ \A q \in Requests : req[q].phase = "none"
  /\ trouble' = trouble \cup {"reset"}
  /\ conn' = NoState
  /\ UNCHANGED <<fixed, roomVars, req, clientVars, historyVars>>

-----------------------------------------------------------------------------
Init ==
  /\ \E p \in Profiles :
       /\ handler = p.handler /\ subs = p.subs /\ asks = p.asks
       /\ member = p.member /\ typing = p.typing /\ log = p.rows
  /\ joining = {}
  /\ readTo = [r \in Rooms |-> 0]
  /\ conn = NoState
  /\ req = [q \in Requests |-> Idle]
  /\ live = NoRequest
  /\ pos = 0
  /\ got = {}
  /\ shown = [r \in Rooms |-> 0]
  /\ typed = {}
  /\ skipped = {} /\ missed = {}
  /\ trouble = {}

RequestStep(q) ==
  \/ Post(q)
  \/ GetState(q)
  \/ ListRooms(q)
  \/ ReadInvite(q)
  \/ ReadRoom(q)
  \/ Save(q)
  \/ EndWait(q)
  \/ Reply(q)
  \/ Discard(q)

Next ==
  \/ \E room \in Rooms : StoreMessage(room) \/ StoreJoin(room) \/ Join(room)
                            \/ MarkRead(room) \/ StopTyping(room)
  \/ \E q \in Requests : RequestStep(q) \/ StateUnavailable(q) \/ SaveFails(q) \/ Abandon(q)
  \/ Reconnect

(* A client keeps posting, and no await of a handler lasts forever.  (A handler
   the client gave up on has finitely many steps, so fairness of any request step is
   fairness of the live request's.) *)
Spec == Init /\ [][Next]_vars /\ WF_vars(\E q \in Requests : RequestStep(q))

-----------------------------------------------------------------------------
(* Properties *)

(* A row at or below the position that the connection state holds for a room was given
   to the client, is on its way, or was passed for a known reason: it is older than
   the page of a room that was new, or the room was an invitation then, a response that carried it came after
   the client had given up, or the room occurred twice in the request and the
   second page replaced the first.  Overlapping requests, failed saves and
   reconnects lose nothing. *)
SkipsExplained ==
  conn # NoState =>
    \A room \in conn.sent : \A n \in RowsOf(room) :
      n <= conn.last[room] =>
        \/ n \in got \cup skipped
        \/ \E q \in Requests : live = q /\ req[q].phase \in {"waiting", "replying"} /\ n \in Carried(q)

(* Every row of a joined room was given to the client or passed for one of these reasons. *)
RowsArrived ==
  \A room \in Rooms : member[room] = "join" => RowsOf(room) \subseteq got \cup skipped

(* The client shows the unread count of a joined room, unless the room was read
   as an invitation by a request that began when the join was stored and the
   membership row was not, and nothing was sent in it since. *)
UnreadShown ==
  \A room \in Rooms : member[room] = "join" => shown[room] = Count(room) \/ room \in missed

(* The client shows who types: with the simplified handler, when it asks for it, and unless an
   invitation is pending or rooms are subscribed, since these make every response
   name a room, and then the others are left out. *)
TypingShown ==
  \/ handler = "msc3575" \/ subs # {} \/ ~ asks
  \/ \E r \in Rooms : member[r] = "invite"
  \/ typed = typing

(* When the rooms have fallen quiet, a client that keeps syncing has every row of its
   joined rooms and, unless one of its responses was lost, shows the server's unread counts and who
   types, although a room without new rows is only included when its count,
   its marker or its being read is news.  Failed saves, 503s, new connections and
   overlapping requests do not stop it. *)
CatchesUp == <>[](RowsArrived /\ ("lost" \in trouble \/ (UnreadShown /\ TypingShown)))
=============================================================================
