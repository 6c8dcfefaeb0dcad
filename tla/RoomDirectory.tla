---------------------------- MODULE RoomDirectory ----------------------------
(***************************************************************************)
(* The lists of rooms: the room directory for clients (index.ts, api/      *)
(* aliases.ts) and for other servers (api/federation.ts), and the rooms of *)
(* a space (api/spaces.ts, api/federation.ts).  The pages for servers are  *)
(* cut with LIMIT and OFFSET out of lists that change between two          *)
(* requests, and what a page says of a room is read after the page was     *)
(* selected.  A room is listed from its row on, before its events are      *)
(* stored, and until its row is deleted, after its events were.            *)
(*                                                                         *)
(* Rooms are numbered in the order of created_at, which is also that of    *)
(* the keys of room_state.  Readers change nothing: one is enough.         *)
(***************************************************************************)
EXTENDS Naturals, FiniteSets, SequencesExt

CONSTANTS
  Rooms,       \* natural numbers
  ClientLimit, \* the fixed limit of the clients' directory (100)
  Limits,      \* limits a request asks for
  MaxChanges   \* bound: changes of rooms and of the space

VARIABLES
  exists,   \* the rooms table
  public,   \* rooms with is_public = 1
  making,   \* rooms with a row whose first events are not all stored
  purging,  \* rooms with a row whose state, events or members the administrator has deleted
  kids,     \* m.space.child of the space: "none", "via", or "emptied" for a removed child
  changes,
  lister,   \* the list that is read
  busy      \* history: rooms that were in "making" or "purging" at some time since the list was opened

directoryVars == <<exists, public, making, purging, kids, changes, lister, busy>>

Idle == [op |-> "none", step |-> "none", limit |-> 0, offset |-> 0, todo |-> <<>>, more |-> FALSE,
         seen |-> {}, twice |-> FALSE, ghosts |-> {}, base |-> {}, left |-> {}, came |-> {}]

Above(S, r) == {q \in S : q > r}
Below(S, r) == {q \in S : q < r}
Newest(S) == [i \in 1 .. Cardinality(S) |-> CHOOSE r \in S : Cardinality(Above(S, r)) = i - 1]
Oldest(S) == [i \in 1 .. Cardinality(S) |-> CHOOSE r \in S : Cardinality(Below(S, r)) = i - 1]
Page(s, offset, limit) == SubSeq(s, offset + 1, IF Len(s) < offset + limit THEN Len(s) ELSE offset + limit)

(* The rows of a space: also those of removed children, and of rooms that are not on this server. *)
ChildRows == {r \in Rooms : kids[r] # "none"}

(* Rooms with all of their state, events and members. *)
Known == exists \ (making \cup purging)

(* What happens to rooms while a list is read (history). *)
Leaves(r) == lister' = [lister EXCEPT !.left = IF lister = Idle THEN {} ELSE @ \cup {r}]
Comes(r) == lister' = [lister EXCEPT !.came = IF lister = Idle THEN {} ELSE @ \cup {r}]
Busy(r) == busy' = IF lister = Idle THEN {} ELSE busy \cup {r}

-----------------------------------------------------------------------------
Change == changes < MaxChanges /\ changes' = changes + 1

(* createRoom: the row, with is_public ... *)
CreateRoom(r, listed) ==
  /\ Change /\ r \notin exists /\ (\A q \in exists : q < r)
  /\ exists' = exists \cup {r} /\ making' = making \cup {r}
  /\ public' = IF listed THEN public \cup {r} ELSE public
  /\ Comes(r) /\ Busy(r)
  /\ UNCHANGED <<purging, kids>>

(* ... and then the first events; the handler may stop before the last of them. *)
CreateEvents(r) ==
  /\ r \in making
  /\ making' = making \ {r}
  /\ UNCHANGED <<exists, public, purging, kids, changes, lister, busy>>

(* The administrator deletes the aliases, members, state and events of a room ... *)
PurgeEvents(r) ==
  /\ Change /\ r \in exists \ purging
  /\ purging' = purging \cup {r} /\ making' = making \ {r}
  /\ Busy(r)
  /\ UNCHANGED <<exists, public, kids, lister>>

(* ... and then its row; the handler may stop before that. *)
PurgeRoom(r) ==
  /\ r \in purging
  /\ exists' = exists \ {r} /\ public' = public \ {r} /\ purging' = purging \ {r}
  /\ Leaves(r)
  /\ UNCHANGED <<making, kids, changes, busy>>

(* PUT directory/list/room by a moderator. *)
SetVisibility(r) ==
  /\ Change /\ r \in exists
  /\ \/ r \in public /\ public' = public \ {r} /\ Leaves(r)
     \/ r \notin public /\ public' = public \cup {r} /\ Comes(r)
  /\ UNCHANGED <<exists, making, purging, kids, busy>>

(* m.space.child: a child is added, or removed by an event without "via". *)
SetChild(r, v) ==
  /\ Change /\ kids[r] # v /\ (v = "emptied" => kids[r] = "via")
  /\ kids' = [kids EXCEPT ![r] = v]
  /\ IF v = "via" THEN Comes(r) ELSE Leaves(r)
  /\ UNCHANGED <<exists, public, making, purging, busy>>

-----------------------------------------------------------------------------
Open(op, limit) ==
  /\ lister = Idle
  /\ lister' = [Idle EXCEPT !.op = op, !.step = "select", !.limit = limit,
                  !.base = IF op \in {"directory", "client directory"} THEN public
                           ELSE {r \in Rooms : kids[r] = "via"}]
  /\ busy' = making \cup purging
  /\ UNCHANGED <<exists, public, making, purging, kids, changes>>

(* The page that was selected, and whether there is more. *)
Selected(rows, more) ==
  lister' = [lister EXCEPT !.step = "info", !.todo = rows, !.more = more]

(* Faulty variant: the offset is one row too far. *)
SelectDirectoryLate ==
  LET rows == Newest(public) IN
  /\ lister.op = "directory" /\ lister.step = "select"
  /\ Selected(Page(rows, lister.offset + 1, lister.limit), Len(rows) > lister.offset + lister.limit)
  /\ UNCHANGED <<exists, public, making, purging, kids, changes, busy>>

(* publicRooms for servers: one row more than the limit tells that there is more. *)
SelectDirectory ==
  LET rows == Newest(public) IN
  /\ lister.op = "directory" /\ lister.step = "select"
  /\ Selected(Page(rows, lister.offset, lister.limit), Len(rows) > lister.offset + lister.limit)
  /\ UNCHANGED <<exists, public, making, purging, kids, changes, busy>>

(* publicRooms for clients: LIMIT 100, and no way to the rest. *)
SelectForClient ==
  /\ lister.op = "client directory" /\ lister.step = "select"
  /\ Selected(Page(Oldest(public), 0, ClientLimit), FALSE)
  /\ UNCHANGED <<exists, public, making, purging, kids, changes, busy>>

(* publicRooms with POST, for clients: always empty. *)
SearchForClient ==
  /\ lister = Idle
  /\ lister' = [Idle EXCEPT !.op = "client search", !.step = "done"] /\ busy' = making \cup purging
  /\ UNCHANGED <<exists, public, making, purging, kids, changes>>

(* Faulty variant: the SELECT leaves out the rows of removed children. *)
SelectChildrenLive ==
  LET rows == Oldest({r \in Rooms : kids[r] = "via"}) IN
  /\ lister.op = "space" /\ lister.step = "select"
  /\ Selected(Page(rows, lister.offset, lister.limit), Len(rows) > lister.offset + lister.limit)
  /\ UNCHANGED <<exists, public, making, purging, kids, changes, busy>>

(* hierarchy for servers; a reader takes the answer's "room" and "children" together. *)
SelectChildren ==
  LET rows == Oldest(ChildRows) IN
  /\ lister.op = "space" /\ lister.step = "select"
  /\ Selected(Oldest({r \in ToSet(Page(rows, lister.offset, lister.limit)) : kids[r] = "via"}),
              Len(rows) > lister.offset + lister.limit)
  /\ UNCHANGED <<exists, public, making, purging, kids, changes, busy>>

(* hierarchy for clients: the whole space, of which the first limit rooms are answered.  There
   is a next_batch, but "from" is not read: the client stops here. *)
SelectSpace ==
  /\ lister.op = "client space" /\ lister.step = "select"
  /\ Selected(Oldest({r \in Rooms : kids[r] = "via"}), FALSE)
  /\ UNCHANGED <<exists, public, making, purging, kids, changes, busy>>

(* getRoomPublicInfo is a SELECT for each fact: of a room that is not here, or not all of it, it
   makes an entry without a name or members. *)
Unknown(r) == IF r \in Known THEN {} ELSE {r}

ReadInfo ==
  /\ lister.op # "client space" /\ lister.step = "info" /\ lister.todo # <<>>
  /\ lister' = [lister EXCEPT !.ghosts = @ \cup Unknown(Head(lister.todo))]
  /\ UNCHANGED <<exists, public, making, purging, kids, changes, busy>>

(* The last of the SELECTs, and the entry. *)
PublicInfo ==
  LET r == Head(lister.todo) IN
  /\ lister.op # "client space" /\ lister.step = "info" /\ lister.todo # <<>>
  /\ lister' = [lister EXCEPT !.todo = Tail(@), !.seen = @ \cup {r},
                  !.twice = @ \/ r \in lister.seen, !.ghosts = @ \cup Unknown(r)]
  /\ UNCHANGED <<exists, public, making, purging, kids, changes, busy>>

(* getRoomInfo of spaces.ts: a room that is not here is left out; the answer ends at the limit,
   the space itself included. *)
SpaceInfo ==
  LET r == Head(lister.todo) IN
  /\ lister.op = "client space" /\ lister.step = "info" /\ lister.todo # <<>>
  /\ lister' = [lister EXCEPT !.todo = Tail(@),
                  !.seen = IF r \in exists /\ Cardinality(lister.seen) + 1 < lister.limit THEN @ \cup {r} ELSE @,
                  !.more = @ \/ (r \in exists /\ Cardinality(lister.seen) + 1 >= lister.limit)]
  /\ UNCHANGED <<exists, public, making, purging, kids, changes, busy>>

(* next_batch = offset + limit; the reader asks for the next page, or is done. *)
AnswerPage ==
  /\ lister.step = "info" /\ lister.todo = <<>>
  /\ lister' = IF lister.more /\ lister.op # "client space"
               THEN [lister EXCEPT !.step = "select", !.offset = @ + lister.limit]
               ELSE [lister EXCEPT !.step = "done"]
  /\ UNCHANGED <<exists, public, making, purging, kids, changes, busy>>

Close ==
  /\ lister.step = "done"
  /\ lister' = Idle /\ busy' = {}
  /\ UNCHANGED <<exists, public, making, purging, kids, changes>>

DirectoryInit ==
  /\ exists = {r \in Rooms : r <= 3} /\ public = {r \in Rooms : r <= 3}
  /\ kids = [r \in Rooms |-> IF r = 2 \/ r = 3 THEN "via" ELSE "none"]
  /\ making = {} /\ purging = {} /\ busy = {}
  /\ changes = 0 /\ lister = Idle

DirectoryNext ==
  \/ \E r \in Rooms :
       \/ \E listed \in BOOLEAN : CreateRoom(r, listed)
       \/ CreateEvents(r) \/ PurgeEvents(r) \/ PurgeRoom(r) \/ SetVisibility(r)
       \/ \E v \in {"via", "emptied"} : SetChild(r, v)
  \/ \E op \in {"directory", "client directory", "space", "client space"}, limit \in Limits : Open(op, limit)
  \/ SelectDirectory \/ SelectForClient \/ SearchForClient \/ SelectChildren \/ SelectSpace
  \/ ReadInfo \/ PublicInfo \/ SpaceInfo \/ AnswerPage \/ Close

DirectorySpec == DirectoryInit /\ [][DirectoryNext]_directoryVars

-----------------------------------------------------------------------------
(* Properties *)

(* A server that reads the directory to its end has every room that was public all the time,
   unless another room left the directory meanwhile (the rooms below it moved up by one); it has
   a room twice only when one was added, and a room without its name or members only when the
   creation or the deletion of that room was unfinished at some time while it read, or still is.
   A client has those rooms when they are at most the fixed limit. *)
DirectoryComplete ==
  lister.step = "done" =>
    /\ lister.op = "directory" =>
         /\ lister.base \ lister.left \subseteq lister.seen \/ lister.left # {}
         /\ lister.twice => lister.came # {}
         /\ lister.ghosts \subseteq busy
    /\ lister.op = "client directory" /\ Cardinality(lister.base \cup lister.came) <= ClientLimit =>
         lister.base \ lister.left \subseteq lister.seen

(* A reader of a space has every room that was its child all the time: a server, since
   the row of a removed child stays and keeps the offsets right; a client, when the room is
   on this server and the list was not cut at the limit. *)
SpaceComplete ==
  lister.step = "done" =>
    /\ lister.op = "space" => lister.base \ lister.left \subseteq lister.seen
    /\ lister.op = "client space" /\ ~lister.more =>
         (lister.base \cap exists) \ (lister.left \cup lister.came) \subseteq lister.seen

(* The two lists of rooms that a server reads page by page while they change, the directory and a space. *)
ListsComplete == DirectoryComplete /\ SpaceComplete
=============================================================================
