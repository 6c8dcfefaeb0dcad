---------------------------- MODULE RoomEphemeral ----------------------------
(***************************************************************************)
(* What is said of a user besides events: receipts and the read marker     *)
(* (api/receipts.ts), typing (api/typing.ts) and presence                  *)
(* (api/presence.ts).  Receipts and typing are in a room's object          *)
(* (RoomDurableObject.ts), which keeps receipts in its storage, with a     *)
(* cache of them in memory, and typing in memory alone: the object may be  *)
(* put out of memory whenever it runs nothing.  The read marker is a row   *)
(* of account_data.  Presence is a row and an entry of KV that expires;    *)
(* a read of KV may for a while give the entry before.                     *)
(*                                                                         *)
(* A request is what it has still to write, in order; it may stop between  *)
(* any two writes, and other requests' writes may come between them.  A    *)
(* call of the object is one step: its storage holds back other calls.     *)
(* One user, a member when each request looks, sends; another also looks.  *)
(***************************************************************************)
EXTENDS Naturals, Sequences, FiniteSets

CONSTANTS
  Requests,   \* the user's requests, numbers in the order they arrive
  Events,     \* positive numbers
  MaxClock    \* bound: the clock

Threads == {"unthreaded", "main"}
ReceiptTypes == {"m.read", "m.read.private"}
Keys == ReceiptTypes \X Threads
TypingDefault == 1   \* DEFAULT_TYPING_TIMEOUT
TypingMax == 2       \* MAX_TYPING_TIMEOUT
PresenceTtl == 2     \* PRESENCE_TIMEOUT and the lifetime of the entry

VARIABLES
  stored,    \* receipts in the object's storage, 0 for none
  oldRow,    \* a receipt stored by an earlier version: m.read, its key without a thread and its value without a user
  cache,     \* receiptsCache
  loaded,    \* receiptsCacheLoaded
  marker,    \* the row m.fully_read
  typing,    \* typingUsers: when the user's entry expires, 0 for no entry
  row, entry,   \* presence in D1 and in KV
  lagging,   \* entries of KV that were replaced, and that a read may still give
  clock,
  at, todo,  \* a request's stage, and the writes it has still to make
  asked,     \* what a request wants (history)
  latest,    \* the event of the last receipt the object took for each key (history)
  typed,     \* when the object last took that the user types, and for how long at most (history)
  last, alone   \* the last request of each kind, and those no other of the kind overlapped (history)

ephemeralVars == <<stored, oldRow, cache, loaded, marker, typing, row, entry, lagging, clock, at, todo, asked,
                   latest, typed, last, alone>>

Kinds == {"read", "typing", "presence"}
NoPresence == [state |-> "offline", ts |-> 0, until |-> 0]
First == CHOOSE e \in Events : TRUE
Lesser(a, b) == IF a < b THEN a ELSE b
Pending == {r \in Requests : at[r] = "open"}

-----------------------------------------------------------------------------
EphemeralInit ==
  /\ oldRow \in {0, First}
  /\ stored = [k \in Keys |-> 0] /\ cache = [k \in Keys |-> 0] /\ loaded = FALSE
  /\ marker = 0 /\ typing = 0 /\ row = NoPresence /\ entry = NoPresence /\ lagging = {}
  /\ clock = 1
  /\ at = [r \in Requests |-> "new"] /\ todo = [r \in Requests |-> <<>>]
  /\ asked = [r \in Requests |-> <<>>]
  /\ latest = [k \in Keys |-> IF k = <<"m.read", "unthreaded">> THEN oldRow ELSE 0]
  /\ typed = [ends |-> 0] /\ last = [k \in Kinds |-> 0] /\ alone = {}

data == <<stored, oldRow, cache, loaded, marker, typing, row, entry, lagging>>

Open(r, kind, wish, writes) ==
  /\ at[r] = "new" /\ \A p \in Requests : p < r => at[p] # "new"
  /\ at' = [at EXCEPT ![r] = "open"] /\ todo' = [todo EXCEPT ![r] = writes]
  /\ asked' = [asked EXCEPT ![r] = <<kind, wish>>]
  /\ last' = [last EXCEPT ![kind] = r]
  /\ LET others == {p \in Pending : asked[p][1] = kind} IN
     alone' = (alone \ others) \cup (IF others = {} THEN {r} ELSE {})
  /\ UNCHANGED <<data, clock, latest, typed>>

Receipt(type, thread, e) == [to |-> "object", key |-> <<type, thread>>, event |-> e]
Marker(e) == [to |-> "marker", event |-> e]

(* POST receipt: m.fully_read is the marker, m.read is also the marker. *)
ReceiptWrites(type, thread, e) ==
  IF type = "m.fully_read" THEN <<Marker(e)>>
  ELSE <<Receipt(type, thread, e)>> \o (IF type = "m.read" THEN <<Marker(e)>> ELSE <<>>)

(* POST read_markers: each one the body names, of which there is one; m.read moves the marker when the body does not. *)
MarkersWrites(full, read, private) ==
  (IF full # 0 THEN <<Marker(full)>> ELSE <<>>)
  \o (IF read # 0 THEN <<Receipt("m.read", "unthreaded", read)>> ELSE <<>>)
  \o (IF read # 0 /\ full = 0 THEN <<Marker(read)>> ELSE <<>>)
  \o (IF private # 0 THEN <<Receipt("m.read.private", "unthreaded", private)>> ELSE <<>>)

PostReceipt(r) ==
  /\ \E type \in ReceiptTypes \cup {"m.fully_read"}, thread \in Threads, e \in Events :
       Open(r, "read", IF type = "m.read.private" THEN 0 ELSE e, ReceiptWrites(type, thread, e))

PostReadMarkers(r) ==
  /\ \E full, read \in {0} \cup Events, private \in {0, First} :
       /\ full + read + private > 0
       /\ Open(r, "read", IF full # 0 THEN full ELSE read, MarkersWrites(full, read, private))

(* PUT typing: the timeout asked for is capped; none, and 0, stand for the default. *)
PutTyping(r) ==
  /\ \E types \in BOOLEAN, timeout \in 0 .. TypingMax + 1 :
       LET for == IF types /\ timeout # 0 THEN Lesser(timeout, TypingMax) ELSE TypingDefault IN
       Open(r, "typing", 0, <<[to |-> "typing", types |-> types, for |-> for]>>)

(* PUT presence: the row, the entry and the servers, with the time it began. *)
PutPresence(r) ==
  \E state \in {"online", "offline"} :
    LET p == [state |-> state, ts |-> clock, until |-> 0] IN
    Open(r, "presence", p, <<[to |-> "row", presence |-> p], [to |-> "entry", presence |-> p],
                             [to |-> "servers", presence |-> p]>>)

(* A write leaves the rest; the last one answers. *)
Wrote(r) ==
  /\ todo' = [todo EXCEPT ![r] = Tail(@)]
  /\ at' = [at EXCEPT ![r] = IF Len(todo[r]) = 1 THEN "done" ELSE @]
  /\ UNCHANGED <<clock, asked, last, alone, oldRow>>

Writing(r, to) == at[r] = "open" /\ todo[r] # <<>> /\ Head(todo[r]).to = to

(* Faulty variant: the newest format is read first, so that a receipt of the old one covers it. *)
LoadedOldLast == [k \in Keys |-> IF k = <<"m.read", "unthreaded">> /\ oldRow # 0 THEN oldRow ELSE stored[k]]

(* loadReceiptsCache: storage lists the old key before the new one, which replaces it in the cache. *)
Loaded == [k \in Keys |-> IF k = <<"m.read", "unthreaded">> /\ stored[k] = 0 THEN oldRow ELSE stored[k]]
Cache == IF loaded THEN cache ELSE Loaded

(* handleSetReceipt: the storage, the cache loaded if it was not, and its entry. *)
SetReceipt(r) ==
  /\ Writing(r, "object")
  /\ LET w == Head(todo[r]) IN
     /\ stored' = [stored EXCEPT ![w.key] = w.event]
     /\ cache' = [Cache EXCEPT ![w.key] = w.event]
     /\ latest' = [latest EXCEPT ![w.key] = w.event]
  /\ loaded' = TRUE /\ Wrote(r)
  /\ UNCHANGED <<marker, typing, row, entry, lagging, typed>>

(* Faulty variant: the marker only moves to later events. *)
WriteMarkerForward(r) ==
  /\ Writing(r, "marker") /\ Wrote(r)
  /\ marker' = IF Head(todo[r]).event > marker THEN Head(todo[r]).event ELSE marker
  /\ UNCHANGED <<stored, cache, loaded, typing, row, entry, lagging, latest, typed>>

WriteMarker(r) ==
  /\ Writing(r, "marker") /\ Wrote(r)
  /\ marker' = Head(todo[r]).event
  /\ UNCHANGED <<stored, cache, loaded, typing, row, entry, lagging, latest, typed>>

(* handleSetTyping, which has a cap of its own. *)
SetTyping(r) ==
  /\ Writing(r, "typing") /\ Wrote(r)
  /\ LET w == Head(todo[r]) IN
     /\ typing' = IF w.types THEN clock + Lesser(w.for, TypingMax) ELSE 0
     /\ typed' = [ends |-> IF w.types THEN clock + TypingMax ELSE 0]
  /\ UNCHANGED <<stored, cache, loaded, marker, row, entry, lagging, latest>>

WritePresence(r) ==
  /\ Writing(r, "row") /\ Wrote(r) /\ row' = Head(todo[r]).presence
  /\ UNCHANGED <<stored, cache, loaded, marker, typing, entry, lagging, latest, typed>>

WriteEntry(r) ==
  /\ Writing(r, "entry") /\ Wrote(r)
  /\ entry' = [Head(todo[r]).presence EXCEPT !.until = clock + PresenceTtl]
  /\ lagging' = lagging \cup {entry}
  /\ UNCHANGED <<stored, cache, loaded, marker, typing, row, latest, typed>>

(* The EDUs of m.presence, queued for each server (module FederationQueue): a failure is logged, and the PUT answers. *)
TellServers(r) ==
  /\ Writing(r, "servers") /\ Wrote(r)
  /\ UNCHANGED <<stored, cache, loaded, marker, typing, row, entry, lagging, latest, typed>>

Stop(r) ==
  /\ at[r] = "open" /\ at' = [at EXCEPT ![r] = "stopped"] /\ todo' = [todo EXCEPT ![r] = <<>>]
  /\ asked' = [asked EXCEPT ![r] = <<>>] /\ alone' = alone \ {r}
  /\ UNCHANGED <<data, clock, latest, typed, last>>

-----------------------------------------------------------------------------
(* The object is put out of memory, and comes back with the next call. *)
Evict ==
  /\ (loaded \/ typing # 0) /\ loaded' = FALSE /\ cache' = [k \in Keys |-> 0] /\ typing' = 0
  /\ UNCHANGED <<stored, oldRow, marker, row, entry, lagging, clock, at, todo, asked, latest, typed, last, alone>>

Load ==
  /\ ~loaded /\ loaded' = TRUE /\ cache' = Loaded
  /\ UNCHANGED <<stored, oldRow, marker, typing, row, entry, lagging, clock, at, todo, asked, latest, typed, last,
                 alone>>

(* KV has reached every place it is read from. *)
SettleEntry ==
  /\ lagging # {} /\ lagging' = {}
  /\ UNCHANGED <<stored, oldRow, cache, loaded, marker, typing, row, entry, clock, at, todo, asked, latest, typed,
                 last, alone>>

Tick ==
  /\ clock < MaxClock /\ clock' = clock + 1
  /\ UNCHANGED <<data, at, todo, asked, latest, typed, last, alone>>

(* handleGetReceipts: by event and type, threads of one event and type in one. *)
GetReceipts == {<<Cache[k], k[1]>> : k \in {j \in Keys : Cache[j] # 0}}

(* getReceiptsForRoom: a private receipt only for its user. *)
ShownReceipts(toUser) == {x \in GetReceipts : toUser \/ x[2] # "m.read.private"}

(* Faulty variant: an expired entry is shown until it is removed. *)
TypingShownExpired == typing # 0

(* handleGetTyping: an entry that has expired is not shown (and removed). *)
TypingShown == typing > clock

Shown(p) == IF p.state = "online" /\ clock >= p.ts + PresenceTtl THEN "unavailable" ELSE p.state

(* Faulty variant: the time is looked at in the row only. *)
GetPresenceStale ==
  {IF p = row THEN Shown(p) ELSE p.state : p \in {IF clock < e.until THEN e ELSE row : e \in lagging \cup {entry}}}

(* GET presence (and getPresenceForUsers): KV, or the row when the entry has expired; what it may give. *)
GetPresence == {Shown(IF clock < e.until THEN e ELSE row) : e \in lagging \cup {entry}}

EphemeralNext ==
  \/ Evict \/ Load \/ Tick \/ SettleEntry
  \/ \E r \in Requests :
       \/ PostReceipt(r) \/ PostReadMarkers(r) \/ PutTyping(r) \/ PutPresence(r)
       \/ SetReceipt(r) \/ WriteMarker(r) \/ SetTyping(r) \/ WritePresence(r) \/ WriteEntry(r) \/ TellServers(r)
       \/ Stop(r)

EphemeralSpec == EphemeralInit /\ [][EphemeralNext]_ephemeralVars

-----------------------------------------------------------------------------
Answered(kind) == last[kind] # 0 /\ last[kind] \in alone /\ at[last[kind]] = "done"

(* Whenever the object is put out of memory, and whatever an earlier version stored, each user is shown exactly the
   events of the last receipts the object took, private ones to their user alone. *)
ReceiptsShown ==
  \A toUser \in BOOLEAN :
    ShownReceipts(toUser) = {<<latest[k], k[1]>> : k \in {j \in Keys :
                              latest[j] # 0 /\ (toUser \/ j[1] # "m.read.private")}}

(* "This keeps the read marker in sync with the read receipt" (api/receipts.ts): once answered, the last request that
   no other overlapped leaves the marker at the event it names, forward or back, unless it sent a private receipt alone. *)
MarkerFollows == Answered("read") => LET e == asked[last["read"]][2] IN e # 0 => marker = e

(* A user is not shown typing for longer than the cap after the last PUT that says so, nor after one that says
   otherwise, however the requests overlap. *)
TypingLapses == TypingShown => clock < typed.ends

(* Once answered, the last PUT that no other overlapped is the presence given when KV has settled, from KV and then
   from the row, and an online user becomes unavailable when the time is over. *)
PresenceSettles ==
  Answered("presence") /\ lagging = {} => LET p == asked[last["presence"]][2] IN
    GetPresence = {IF p.state = "online" /\ clock >= p.ts + PresenceTtl THEN "unavailable" ELSE p.state}

(* What is shown of a room's receipts and of who types is what was last set, through evictions and lapses. *)
ShownAsSet == ReceiptsShown /\ TypingLapses

(* What a request writes to two stores agrees in the end with the last one that ran alone. *)
StoresSettle == MarkerFollows /\ PresenceSettles

(* Both: what is shown is what was set last, and the stores agree on it in the end. *)
EphemeralSound == ShownAsSet /\ StoresSettle
=============================================================================
