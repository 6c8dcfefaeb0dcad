-------------------------- MODULE SyncStreamProofs --------------------------
(***************************************************************************)
(* SyncStream for any events, rooms, clients and page limit: the orderings *)
(* are contiguous and every gap in what a client received is explained.    *)
(*                                                                         *)
(* The argument.  Contiguity makes MAX(stream_ordering) well defined and   *)
(* shows that a call's captured ordering is at most MAX + 1, so a row is   *)
(* either inserted exactly above MAX or is late.  A sync in progress that  *)
(* read currentPosition = n therefore only has to account for the rows     *)
(* that existed then: later ones are late or above n.  Each of them is     *)
(* covered by the client's token, by a page already read, or by a room     *)
(* still to read.                                                          *)
(***************************************************************************)
EXTENDS SyncStream, TLAPS

Latest == LatestStreamPosition

(* The set of orderings in the table is 1 .. m. *)
Fills(m) ==
  /\ \A e \in Stored : ordering[e] \in 1 .. m
  /\ \A n \in 1 .. m : \E e \in Stored : ordering[e] = n

TableInv == \E m \in Nat : Fills(m)

(* A captured ordering is a position of the table or the one just above it. *)
CapturedInv ==
  \A e \in Events : writer[e] = "ordered" => ordering[e] \in 1 .. Latest + 1

PositionsInv ==
  \A c \in Clients : since[c] <= Latest /\ current[c] <= Latest

(* What a request in progress has still to show its client. *)
RequestInv ==
  \A c \in Clients : phase[c] # "idle" =>
    /\ phase[c] # "reading" => toRead[c] = {}
    /\ \A e \in Stored :
         (RoomOf[e] \in Joined[c] /\ ordering[e] <= current[c])
           => \/ e \in received[c] \cup late \cup cut[c]
              \/ e \in page[c] \cup dropped[c]
              \/ RoomOf[e] \in toRead[c]

Inv ==
  /\ TypeOK
  /\ TableInv
  /\ CapturedInv
  /\ PositionsInv
  /\ GapsExplained
  /\ RequestInv

-----------------------------------------------------------------------------
(* MAX(stream_ordering) of a table without holes is its size. *)
LEMMA LatestOfFilled == \A m \in Nat : Fills(m) => Latest = m
<1> SUFFICES ASSUME NEW m \in Nat, Fills(m) PROVE Latest = m
  OBVIOUS
<1>1. m \in Orderings
  <2>1. CASE m = 0
    BY <2>1 DEF Orderings
  <2>2. CASE m # 0
    <3>1. m \in 1 .. m
      BY <2>2
    <3>2. PICK e \in Stored : ordering[e] = m
      BY <3>1 DEF Fills
    <3>3. QED
      BY <3>2 DEF Orderings
  <2>3. QED
    BY <2>1, <2>2
<1>2. \A n \in Orderings : n \in Nat /\ n <= m
  BY DEF Fills, Orderings
<1>3. \A n \in Orderings : (\A k \in Orderings : k <= n) => n = m
  BY <1>1, <1>2
<1>4. QED
  BY <1>1, <1>2, <1>3 DEF Latest, LatestStreamPosition

(* The same of the table after a step. *)
LEMMA LatestOfFilledNext == (\A m \in Nat : Fills(m) => Latest = m)'
BY LatestOfFilled, PTL

LEMMA InitInv == ConstantsAssumption /\ Init => Inv
<1> SUFFICES ASSUME Init, ConstantsAssumption PROVE Inv
  OBVIOUS
<1>1. TypeOK
  BY DEF Init, TypeOK
<1>2. Stored = {}
  BY DEF Init, Stored
<1>3. Fills(0)
  BY <1>2 DEF Fills
<1>4. Latest = 0
  BY <1>1, <1>3, LatestOfFilled
<1>5. QED
  BY <1>1, <1>2, <1>3, <1>4
  DEF Init, Inv, TableInv, CapturedInv, PositionsInv, GapsExplained, RequestInv

-----------------------------------------------------------------------------
(* Every step keeps the types. *)
LEMMA NextTypeOK == ConstantsAssumption /\ Inv /\ [Next]_vars => TypeOK'
<1> SUFFICES ASSUME ConstantsAssumption, Inv, [Next]_vars PROVE TypeOK'
  OBVIOUS
<1> USE DEF TypeOK, storeVars, clientVars
<1>0. TypeOK /\ Latest \in Nat
  BY LatestOfFilled DEF Inv, TableInv
<1>1. ASSUME NEW e \in Events, ReadOrdering(e) PROVE TypeOK'
  BY <1>0, <1>1 DEF ReadOrdering, Latest
<1>2. ASSUME NEW e \in Events, InsertEvent(e) PROVE TypeOK'
  BY <1>0, <1>2 DEF InsertEvent
<1>3. ASSUME NEW e \in Events, NEW c \in Clients, NotifyUser(e, c) PROVE TypeOK'
  BY <1>0, <1>3 DEF NotifyUser
<1>4. ASSUME NEW e \in Events, NEW c \in Clients, NotifyFails(e, c) PROVE TypeOK'
  BY <1>0, <1>4 DEF NotifyFails
<1>5. ASSUME NEW e \in Events, WriterStops(e) PROVE TypeOK'
  BY <1>0, <1>5 DEF WriterStops
<1>6. ASSUME NEW c \in Clients, SyncStart(c) PROVE TypeOK'
  BY <1>0, <1>6 DEF SyncStart, Latest, ConstantsAssumption
<1>7. ASSUME NEW c \in Clients, NEW room \in Rooms, ReadRoom(c, room) PROVE TypeOK'
  <2>1. PICK p \in Pages(EventsSince(room, since[c])) :
          /\ page' = [page EXCEPT ![c] = @ \cup p]
          /\ dropped' = [dropped EXCEPT ![c] = @ \cup (EventsSince(room, since[c]) \ p)]
    BY <1>7 DEF ReadRoom
  <2>2. p \subseteq Events /\ EventsSince(room, since[c]) \subseteq Events
    BY DEF Pages, EventsSince, Stored
  <2>3. QED
    BY <1>0, <1>7, <2>1, <2>2 DEF ReadRoom
<1>8. ASSUME NEW c \in Clients, Decide(c) PROVE TypeOK'
  BY <1>0, <1>8 DEF Decide
<1>9. ASSUME NEW c \in Clients, RegisterWaiter(c) PROVE TypeOK'
  BY <1>0, <1>9 DEF RegisterWaiter
<1>10. ASSUME NEW c \in Clients, WaitTimeout(c) PROVE TypeOK'
  BY <1>0, <1>10 DEF WaitTimeout
<1>11. ASSUME NEW c \in Clients, Reply(c) PROVE TypeOK'
  BY <1>0, <1>11 DEF Reply
<1>12. ASSUME NEW c \in Clients, SyncLost(c) PROVE TypeOK'
  BY <1>0, <1>12 DEF SyncLost
<1>13. CASE UNCHANGED vars
  BY <1>0, <1>13 DEF vars
<1>14. QED
  BY <1>1, <1>2, <1>3, <1>4, <1>5, <1>6, <1>7, <1>8, <1>9, <1>10, <1>11, <1>12, <1>13
  DEF Next, StoreStep, SyncStep

(* Only InsertEvent changes the table: every other step keeps the rows, the
   orderings and MAX, and storeEvent never moves a row once inserted. *)
LEMMA OtherStepsKeepTable ==
  ASSUME Inv, Next, ~ \E e \in Events : InsertEvent(e)
  PROVE  /\ Stored' = Stored
         /\ \A e \in Stored : ordering'[e] = ordering[e]
         /\ late' = late
<1> USE DEF Inv, TypeOK, storeVars, clientVars, Stored
<1>1. CASE \E e \in Events : ReadOrdering(e)
  BY <1>1 DEF ReadOrdering
<1>2. CASE \E e \in Events, c \in Clients : NotifyUser(e, c) \/ NotifyFails(e, c)
  BY <1>2 DEF NotifyUser, NotifyFails
<1>3. CASE \E e \in Events : WriterStops(e)
  BY <1>3 DEF WriterStops
<1>4. CASE \E c \in Clients : SyncStep(c) \/ SyncLost(c)
  <2>1. UNCHANGED storeVars
    BY <1>4 DEF SyncStep, SyncLost, SyncStart, ReadRoom, Decide, RegisterWaiter,
                WaitTimeout, Reply
  <2>2. QED
    BY <2>1
<1>5. QED
  BY <1>1, <1>2, <1>3, <1>4 DEF Next, StoreStep

(* The INSERT of a captured ordering: at MAX + 1 it extends the table by one
   and is not late, at a lower value it is late and leaves MAX alone. *)
LEMMA InsertExtends ==
  ASSUME Inv, TypeOK', NEW e \in Events, InsertEvent(e)
  PROVE  /\ TableInv'
         /\ Latest \in Nat /\ Latest' \in Nat /\ Latest <= Latest'
         /\ Stored' = Stored \cup {e}
         /\ UNCHANGED ordering
         /\ \/ e \in late' /\ late \subseteq late'
            \/ ordering[e] = Latest + 1 /\ late' = late
<1>1. PICK m \in Nat : Fills(m)
  BY DEF Inv, TableInv
<1>2. Latest = m
  BY <1>1, LatestOfFilled DEF Inv
<1>3. /\ Stored' = Stored \cup {e}
      /\ ordering' = ordering
      /\ late' = IF ordering[e] <= Latest THEN late \cup {e} ELSE late
  BY DEF InsertEvent, Stored, Inv, TypeOK, Latest
<1>4. ordering[e] \in 1 .. m + 1
  BY <1>2 DEF Inv, CapturedInv, InsertEvent
<1>5. CASE ordering[e] <= m
  <2>1. Fills(m)'
    BY <1>1, <1>3, <1>4, <1>5 DEF Fills
  <2>2. Latest' = m
    BY <2>1, LatestOfFilledNext
  <2>3. QED
    BY <1>2, <1>3, <1>5, <2>1, <2>2 DEF TableInv
<1>6. CASE ordering[e] = m + 1
  <2>1. Fills(m + 1)'
    <3>1. \A f \in Stored' : ordering'[f] \in 1 .. m + 1
      BY <1>1, <1>3, <1>4 DEF Fills
    <3>2. ASSUME NEW n \in 1 .. m + 1 PROVE \E f \in Stored' : ordering'[f] = n
      <4>1. CASE n = m + 1
        BY <1>3, <1>6, <4>1
      <4>2. CASE n \in 1 .. m
        BY <1>1, <1>3, <4>2 DEF Fills
      <4>3. QED
        BY <4>1, <4>2
    <3>3. QED
      BY <3>1, <3>2 DEF Fills
  <2>2. Latest' = m + 1
    BY <2>1, LatestOfFilledNext
  <2>3. QED
    BY <1>2, <1>3, <1>6, <2>1, <2>2 DEF TableInv
<1>7. QED
  BY <1>4, <1>5, <1>6

-----------------------------------------------------------------------------
(* What every step does to the table, in one statement. *)
LEMMA TableGrows ==
  ASSUME Inv, TypeOK', Next
  PROVE  /\ TableInv'
         /\ Latest \in Nat /\ Latest' \in Nat /\ Latest <= Latest'
         /\ late \subseteq late'
         /\ \A e \in Stored : e \in Stored' /\ ordering'[e] = ordering[e]
         /\ \A e \in Stored' \ Stored :
              InsertEvent(e) /\ (e \in late' \/ ordering'[e] = Latest + 1)
<1>1. CASE \E e \in Events : InsertEvent(e)
  <2>1. PICK e \in Events : InsertEvent(e)
    BY <1>1
  <2>2. QED
    BY <2>1, InsertExtends
<1>2. CASE ~ \E e \in Events : InsertEvent(e)
  <2>1. /\ Stored' = Stored
        /\ \A e \in Stored : ordering'[e] = ordering[e]
        /\ late' = late
    BY <1>2, OtherStepsKeepTable
  <2>2. PICK m \in Nat : Fills(m)
    BY DEF Inv, TableInv
  <2>3. Fills(m)'
    BY <2>1, <2>2 DEF Fills
  <2>4. Latest = m /\ Latest' = m
    BY <2>2, <2>3, LatestOfFilled, LatestOfFilledNext
  <2>5. QED
    BY <2>1, <2>3, <2>4 DEF TableInv
<1>3. QED
  BY <1>1, <1>2

LEMMA NextCaptured == ASSUME Inv, TypeOK', Next PROVE CapturedInv'
<1>1. Latest \in Nat /\ Latest' \in Nat /\ Latest <= Latest'
  BY TableGrows
<1>2. SUFFICES ASSUME NEW e \in Events, writer'[e] = "ordered"
               PROVE  ordering'[e] \in 1 .. Latest' + 1
  BY DEF CapturedInv
<1> USE DEF Inv, TypeOK, storeVars, clientVars
<1>3. CASE ReadOrdering(e)
  <2>1. ordering'[e] = Latest + 1
    BY <1>3 DEF ReadOrdering, Latest
  <2>2. \A n, m, k \in Nat : n <= m /\ k = n + 1 => k \in 1 .. m + 1
    OBVIOUS
  <2>3. ordering'[e] \in Nat
    BY <1>1, <2>1
  <2>4. QED
    BY <1>1, <2>1, <2>2, <2>3
<1>4. CASE ~ ReadOrdering(e)
  <2>1. writer[e] = "ordered" /\ ordering'[e] = ordering[e]
    <3>1. ASSUME NEW f \in Events, StoreStep(f)
          PROVE  writer[e] = "ordered" /\ ordering'[e] = ordering[e]
      BY <1>2, <1>4, <3>1
      DEF StoreStep, ReadOrdering, InsertEvent, NotifyUser, NotifyFails, WriterStops
    <3>2. ASSUME NEW c \in Clients, SyncStep(c) \/ SyncLost(c) PROVE UNCHANGED storeVars
      BY <3>2 DEF SyncStep, SyncLost, SyncStart, ReadRoom, Decide, RegisterWaiter,
                  WaitTimeout, Reply
    <3>3. QED
      BY <1>2, <3>1, <3>2 DEF Next
  <2>2. QED
    BY <1>1, <2>1 DEF CapturedInv
<1>5. QED
  BY <1>3, <1>4

LEMMA NextPositions == ASSUME Inv, TypeOK', Next PROVE PositionsInv'
<1>1. Latest \in Nat /\ Latest' \in Nat /\ Latest <= Latest'
  BY TableGrows
<1>2. SUFFICES ASSUME NEW c \in Clients
               PROVE  since'[c] <= Latest' /\ current'[c] <= Latest'
  BY DEF PositionsInv
<1> USE DEF Inv, TypeOK, PositionsInv, storeVars, clientVars
<1>3. CASE \E e \in Events : StoreStep(e)
  <2>1. since' = since /\ current' = current
    BY <1>3 DEF StoreStep, ReadOrdering, InsertEvent, NotifyUser, NotifyFails, WriterStops
  <2>2. QED
    BY <1>1, <2>1
<1>4. CASE \E d \in Clients : SyncStep(d) \/ SyncLost(d)
  <2>1. PICK d \in Clients : SyncStep(d) \/ SyncLost(d)
    BY <1>4
  <2>2. CASE SyncStart(d)
    BY <1>1, <2>2 DEF SyncStart, Latest
  <2>3. CASE Reply(d)
    BY <1>1, <2>3 DEF Reply
  <2>4. CASE ~ SyncStart(d) /\ ~ Reply(d)
    <3>1. since' = since /\ current' = current
      BY <2>1, <2>4 DEF SyncStep, SyncLost, ReadRoom, Decide, RegisterWaiter, WaitTimeout
    <3>2. QED
      BY <1>1, <3>1
  <2>5. QED
    BY <2>2, <2>3, <2>4
<1>5. QED
  BY <1>3, <1>4 DEF Next

-----------------------------------------------------------------------------
(* What a step does to one client's token and history: only Reply moves the
   token, and what was received or cut stays so. *)
LEMMA StepOfClient ==
  ASSUME Inv, Next, NEW c \in Clients
  PROVE  /\ Reply(c) \/ since'[c] = since[c]
         /\ received[c] \subseteq received'[c]
         /\ cut[c] \subseteq cut'[c]
<1> USE DEF Inv, TypeOK, storeVars, clientVars
<1>1. CASE \E e \in Events : StoreStep(e)
  BY <1>1 DEF StoreStep, ReadOrdering, InsertEvent, NotifyUser, NotifyFails, WriterStops
<1>2. CASE \E d \in Clients : SyncStep(d) \/ SyncLost(d)
  <2>1. PICK d \in Clients : SyncStep(d) \/ SyncLost(d)
    BY <1>2
  <2>2. CASE Reply(d)
    BY <2>2 DEF Reply
  <2>3. CASE ~ Reply(d)
    BY <2>1, <2>3
    DEF SyncStep, SyncLost, SyncStart, ReadRoom, Decide, RegisterWaiter, WaitTimeout
  <2>4. QED
    BY <2>2, <2>3
<1>3. QED
  BY <1>1, <1>2 DEF Next

(* What a step does to one client's request: it starts it, reads a room for it,
   or leaves what the request has read and has to read as it was. *)
LEMMA StepOfRequest ==
  ASSUME Inv, Next, NEW c \in Clients
  PROVE  \/ SyncStart(c)
         \/ \E room \in Rooms : ReadRoom(c, room)
         \/ /\ current'[c] = current[c] /\ toRead'[c] = toRead[c]
            /\ page'[c] = page[c] /\ dropped'[c] = dropped[c]
            /\ phase'[c] # "idle" => phase[c] # "idle"
            /\ (phase'[c] # "reading" /\ phase[c] = "reading" /\ phase'[c] # "idle")
                 => toRead[c] = {}
<1> USE DEF Inv, TypeOK, storeVars, clientVars
<1>1. CASE \E e \in Events : StoreStep(e)
  BY <1>1 DEF StoreStep, ReadOrdering, InsertEvent, NotifyUser, NotifyFails, WriterStops
<1>2. CASE \E d \in Clients : SyncStep(d) \/ SyncLost(d)
  <2>1. PICK d \in Clients : SyncStep(d) \/ SyncLost(d)
    BY <1>2
  <2>2. CASE SyncStart(d)
    BY <2>2 DEF SyncStart
  <2>3. CASE \E room \in Rooms : ReadRoom(d, room)
    BY <2>3 DEF ReadRoom
  <2>4. CASE Decide(d) \/ RegisterWaiter(d) \/ WaitTimeout(d)
    BY <2>4 DEF Decide, RegisterWaiter, WaitTimeout
  <2>5. CASE Reply(d) \/ SyncLost(d)
    BY <2>5 DEF Reply, SyncLost
  <2>6. QED
    BY <2>1, <2>2, <2>3, <2>4, <2>5 DEF SyncStep
<1>3. QED
  BY <1>1, <1>2 DEF Next

(* A row inserted by this step is late, or above every position a client holds
   or answers with. *)
LEMMA NewRows ==
  ASSUME Inv, TypeOK', Next, NEW c \in Clients, NEW e \in Stored' \ Stored
  PROVE  \/ e \in late'
         \/ ~ (ordering'[e] <= since'[c]) /\ ~ (ordering'[e] <= current'[c])
<1>1. /\ InsertEvent(e)
      /\ e \in late' \/ ordering'[e] = Latest + 1
      /\ Latest \in Nat
  BY TableGrows
<1>2. since' = since /\ current' = current
  BY <1>1 DEF InsertEvent, clientVars
<1>3. /\ since[c] \in Nat /\ since[c] <= Latest
      /\ current[c] \in Nat /\ current[c] <= Latest
  BY DEF Inv, TypeOK, PositionsInv
<1>4. QED
  BY <1>1, <1>2, <1>3

LEMMA NextGaps == ASSUME Inv, TypeOK', Next PROVE GapsExplained'
<1>1. SUFFICES ASSUME NEW c \in Clients, NEW e \in Stored',
                      RoomOf[e] \in Joined[c], ordering'[e] <= since'[c]
               PROVE  e \in received'[c] \cup late' \cup cut'[c]
  BY DEF GapsExplained
<1>2. CASE e \notin Stored
  BY <1>1, <1>2, NewRows
<1>3. CASE e \in Stored
  <2>1. ordering'[e] = ordering[e] /\ late \subseteq late'
    BY <1>3, TableGrows
  <2>2. CASE Reply(c)
    <3>1. since'[c] = current[c] /\ phase[c] = "replying"
      BY <2>2 DEF Reply, Inv, TypeOK
    <3>2. e \in received[c] \cup late \cup cut[c] \/ e \in page[c] \cup dropped[c]
      BY <1>1, <1>3, <2>1, <3>1 DEF Inv, RequestInv
    <3>3. /\ received'[c] = received[c] \cup page[c]
          /\ cut'[c] = cut[c] \cup dropped[c]
      BY <2>2 DEF Reply, Inv, TypeOK
    <3>4. QED
      BY <2>1, <3>2, <3>3
  <2>3. CASE ~ Reply(c)
    BY <1>1, <1>3, <2>1, <2>3, StepOfClient DEF Inv, GapsExplained
  <2>4. QED
    BY <2>2, <2>3
<1>4. QED
  BY <1>2, <1>3

LEMMA NextRequest == ASSUME Inv, TypeOK', Next PROVE RequestInv'
<1>1. SUFFICES ASSUME NEW c \in Clients, phase'[c] # "idle"
               PROVE  /\ phase'[c] # "reading" => toRead'[c] = {}
                      /\ \A e \in Stored' :
                           (RoomOf[e] \in Joined[c] /\ ordering'[e] <= current'[c])
                             => \/ e \in received'[c] \cup late' \cup cut'[c]
                                \/ e \in page'[c] \cup dropped'[c]
                                \/ RoomOf[e] \in toRead'[c]
  BY DEF RequestInv
<1>2. phase'[c] # "reading" => toRead'[c] = {}
  <2>1. CASE SyncStart(c) \/ \E room \in Rooms : ReadRoom(c, room)
    BY <2>1 DEF SyncStart, ReadRoom, Inv, TypeOK
  <2>2. CASE ~ (SyncStart(c) \/ \E room \in Rooms : ReadRoom(c, room))
    BY <1>1, <2>2, StepOfRequest DEF Inv, RequestInv
  <2>3. QED
    BY <2>1, <2>2
<1>3. SUFFICES ASSUME NEW e \in Stored',
                      RoomOf[e] \in Joined[c], ordering'[e] <= current'[c]
               PROVE  \/ e \in received'[c] \cup late' \cup cut'[c]
                      \/ e \in page'[c] \cup dropped'[c]
                      \/ RoomOf[e] \in toRead'[c]
  BY <1>2
<1>4. CASE e \notin Stored
  BY <1>3, <1>4, NewRows
<1>5. CASE e \in Stored
  <2>1. /\ ordering'[e] = ordering[e]
        /\ late \subseteq late'
        /\ received[c] \subseteq received'[c] /\ cut[c] \subseteq cut'[c]
    BY <1>5, TableGrows, StepOfClient
  <2>2. CASE SyncStart(c)
    BY <1>3, <2>2 DEF SyncStart, Inv, TypeOK
  <2>3. CASE \E room \in Rooms : ReadRoom(c, room)
    <3>1. PICK room \in Rooms : ReadRoom(c, room)
      BY <2>3
    <3>2. PICK p \in Pages(EventsSince(room, since[c])) :
            /\ page'[c] = page[c] \cup p
            /\ dropped'[c] = dropped[c] \cup (EventsSince(room, since[c]) \ p)
      BY <3>1 DEF ReadRoom, Inv, TypeOK
    <3>3. /\ current'[c] = current[c] /\ phase[c] = "reading"
          /\ toRead'[c] = toRead[c] \ {room}
      BY <3>1 DEF ReadRoom, Inv, TypeOK
    <3>4. CASE RoomOf[e] = room
      <4>1. CASE ordering[e] > since[c]
        <5>1. e \in EventsSince(room, since[c])
          BY <1>5, <3>4, <4>1 DEF EventsSince
        <5>2. QED
          BY <3>2, <5>1
      <4>2. CASE ~ (ordering[e] > since[c])
        <5>1. ordering[e] <= since[c]
          BY <4>2, <1>5 DEF Inv, TypeOK, Stored
        <5>2. QED
          BY <1>3, <1>5, <2>1, <5>1 DEF Inv, GapsExplained
      <4>3. QED
        BY <4>1, <4>2
    <3>5. CASE RoomOf[e] # room
      BY <1>3, <1>5, <2>1, <3>2, <3>3, <3>5 DEF Inv, RequestInv
    <3>6. QED
      BY <3>4, <3>5
  <2>4. CASE ~ (SyncStart(c) \/ \E room \in Rooms : ReadRoom(c, room))
    <3>1. /\ current'[c] = current[c] /\ toRead'[c] = toRead[c]
          /\ page'[c] = page[c] /\ dropped'[c] = dropped[c]
          /\ phase[c] # "idle"
      BY <1>1, <2>4, StepOfRequest
    <3>2. QED
      BY <1>3, <1>5, <2>1, <3>1 DEF Inv, RequestInv
  <2>5. QED
    BY <2>2, <2>3, <2>4
<1>6. QED
  BY <1>4, <1>5

LEMMA Inductive == ConstantsAssumption /\ Inv /\ [Next]_vars => Inv'
<1> SUFFICES ASSUME ConstantsAssumption, Inv, [Next]_vars PROVE Inv'
  OBVIOUS
<1>1. TypeOK'
  BY NextTypeOK
<1>2. CASE Next
  BY <1>1, <1>2, TableGrows, NextCaptured, NextPositions, NextGaps, NextRequest DEF Inv
<1>3. CASE UNCHANGED vars
  <2> USE <1>3 DEF vars, storeVars, clientVars
  <2>1. Stored' = Stored
    BY DEF Stored
  <2>2. Latest' = Latest
    BY <2>1 DEF Latest, LatestStreamPosition, Orderings
  <2>3. TableInv'
    BY <2>1 DEF Inv, TableInv, Fills
  <2>4. CapturedInv' /\ PositionsInv'
    BY <2>2 DEF Inv, CapturedInv, PositionsInv
  <2>5. GapsExplained' /\ RequestInv'
    BY <2>1 DEF Inv, GapsExplained, RequestInv
  <2>6. QED
    BY <1>1, <2>3, <2>4, <2>5 DEF Inv
<1>4. QED
  BY <1>2, <1>3

(* The inductive invariant holds in every reachable state. *)
THEOREM Invariance == Spec => []Inv
BY InitInv, Inductive, ConstantsAssumption, PTL DEF Spec

-----------------------------------------------------------------------------
(* Every variable of the storeEvent and sync handlers keeps its type. *)
THEOREM TypeCorrect == Spec => []TypeOK
<1>1. Inv => TypeOK
  BY DEF Inv
<1>2. QED
  BY <1>1, Invariance, PTL

(* storeEvent's SELECT MAX and INSERT, however they overlap or die, leave no
   hole in stream_ordering. *)
THEOREM Contiguous == Spec => []OrderingsContiguous
<1>1. Inv => OrderingsContiguous
  <2> SUFFICES ASSUME Inv PROVE OrderingsContiguous
    OBVIOUS
  <2>1. PICK m \in Nat : Fills(m)
    BY DEF Inv, TableInv
  <2>2. LatestStreamPosition = m
    BY <2>1, LatestOfFilled DEF Latest
  <2>3. QED
    BY <2>1, <2>2 DEF OrderingsContiguous, Fills
<1>2. QED
  BY <1>1, Invariance, PTL

(* A client that holds a token has every event of its rooms up to it, but for
   rows inserted late and rows cut off by the LIMIT of getEventsSince. *)
THEOREM NoUnexplainedGap == Spec => []GapsExplained
<1>1. Inv => GapsExplained
  BY DEF Inv
<1>2. QED
  BY <1>1, Invariance, PTL
=============================================================================
