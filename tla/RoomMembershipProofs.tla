------------------------ MODULE RoomMembershipProofs ------------------------
(* Proofs of RoomMembership's properties, for any users, power levels,      *)
(* contents, room version and bounds.  A membership row has its event in    *)
(* every interleaving, because a request stores its own event once, before  *)
(* its row.  Requests that run one after the other decide on the state      *)
(* there is: what they read has not changed when they write.                *)
EXTENDS RoomMembership, TLAPS

Phases == {"idle", "reading", "writing", "stored", "current", "knocking", "done"}
MemberContents == {"join", "invite", "leave", "ban", "knock", "other"}

(* Requests, and the variables TypeOK says less about. *)
Views == [me : Memberships, target : Memberships, rule : JoinRules, power : PowerLevels]
RequestType ==
  [op : Endpoints \cup PutOperations \cup {"none"}, me : Users, target : Users,
   content : MemberContents \cup {"none"} \cup JoinRules \cup PowerLevels,
   done : Nat, phase : Phases, view : Views]

ReqType ==
  /\ req \in [Requests -> RequestType]
  /\ row \in [Users -> [membership : Memberships, event : 0 .. MaxRequests]]
  /\ events \in [Requests -> [target : Users, membership : Memberships]]

(* What a request asks fits its operation, and its phase what it has done. *)
WellFormed(r) ==
  /\ r.op \in Endpoints \cup PutOperations
  /\ r.op \in {"join", "leave", "knock", "forget"} => r.target = r.me
  /\ r.op = "put_member" => r.content \in MemberContents
  /\ r.op = "put_rule" => r.content \in JoinRules
  /\ r.op = "put_power" => r.content \in PowerContents
  /\ r.phase = "reading" => r.done < Len(Handler(r.op).reads)
  /\ r.phase = "writing" => r.done = Len(Handler(r.op).reads)
  /\ r.phase \in {"writing", "stored", "current"} /\ r.op = "put_member" => r.content \in Memberships
  /\ r.phase \in {"stored", "current"} => r.op # "forget"
  /\ r.phase = "current" => EventOf(r).type = "member"
  /\ r.phase = "knocking" => r.op = "knock"

RequestInv ==
  /\ \A q \in Active : WellFormed(req[q])
  /\ \A q \in Requests : q > arrived => req[q].phase = "idle"

Inv == TypeOK /\ ReqType /\ RequestInv

(* A row is written after its event, which is not written again. *)
EventInv ==
  /\ RowsHaveEvents
  /\ \A u \in Users : row[u].event # 0 => req[row[u].event].phase \in {"knocking", "done"}
  /\ \A q \in Requests :
       req[q].phase \in {"stored", "current"} /\ EventOf(req[q]).type = "member" =>
         events[q] = [target |-> req[q].target, membership |-> EventOf(req[q]).content]

(* The row of u is its entry of room_state, but for a user who left and forgot the room. *)
Mirrored(u) ==
  \/ row[u] = [membership |-> st.member[u], event |-> stEvent[u]]
  \/ row[u] = NoRow /\ st.member[u] # "join"

(* A request has written room_state and not yet the row of u. *)
Between(u) == \E q \in Active : req[q].phase = "current" /\ req[q].target = u

(* What the reads of a request have found holds of the state there is. *)
MyLevel(r) == PowerOf(st.power, r.me)
Outranks(r) == ~(MyLevel(r) <= PowerOf(st.power, r.target))
AtLeast(r, level) == ~(MyLevel(r) < level)
Checked(r) ==
  LET mine == row[r.me].membership
      theirs == row[r.target].membership
  IN
  /\ r.done >= 1 => r.view.me = mine
  /\ r.op = "join" =>
       /\ r.done >= 1 => mine # "ban"
       /\ r.done >= 2 => st.rule = "public" \/ mine = "invite"
       /\ r.done >= 3 => mine # "join"
  /\ r.op = "knock" =>
       /\ r.done >= 1 => mine \notin {"join", "ban"}
       /\ r.done >= 2 => st.rule \in {"knock", "knock_restricted"}
  /\ r.op = "forget" /\ r.done >= 1 => mine # "join"
  /\ r.op \in {"leave", "invite", "kick", "ban", "unban"} \cup PutOperations /\ r.done >= 1 => mine = "join"
  /\ r.op \in {"invite", "ban"} /\ r.done >= 2 => r.view.power = st.power
  /\ r.op \in {"kick", "unban"} /\ r.done >= 2 => r.view.target = theirs
  /\ r.op = "invite" =>
       /\ r.done >= 2 => AtLeast(r, Or(st.power.invite, 50))
       /\ r.done >= 3 => theirs \notin {"join", "invite"}
  /\ r.op = "kick" =>
       /\ r.done >= 2 => theirs = "join"
       /\ r.done >= 3 => AtLeast(r, Or(st.power.kick, 50)) /\ Outranks(r)
  /\ r.op = "ban" /\ r.done >= 2 => AtLeast(r, Or(st.power.ban, 50)) /\ Outranks(r)
  /\ r.op = "unban" =>
       /\ r.done >= 2 => theirs = "ban"
       /\ r.done >= 3 => AtLeast(r, Or(st.power.ban, 50))
  /\ r.op \in PutOperations /\ r.done >= 2 => Allowed(EventOf(r), st)

(* One request at a time. *)
AloneInv ==
  /\ \A p, q \in Active : p = q
  /\ \A q \in Active : req[q].phase \in {"reading", "writing"} => Checked(req[q])
  /\ \A q \in Active : req[q].phase = "current" =>
       /\ st.member[req[q].target] = EventOf(req[q]).content
       /\ stEvent[req[q].target] = q
  /\ \A u \in Users : Mirrored(u) \/ Between(u)

(* A ban is in the row, and nothing that would take it away is going on. *)
BanInv ==
  /\ \A u \in banned \ forgot : row[u].membership = "ban"
  /\ \A q \in Active : req[q].phase \in {"stored", "current"} /\ EventOf(req[q]).type = "member" =>
       EventOf(req[q]).content \in {"ban", "leave", "invite"} \/ req[q].target \notin banned \ forgot
  /\ \A u \in Users : st.member[u] = "ban" => u \in banned \/ Between(u)

SequentialInv == ~ overlap => AloneInv /\ BanInv

(* The event of a stray is stored. *)
StrayInv ==
  /\ \A s \in stray : req[s.event].phase \notin {"idle", "reading", "writing"}
  /\ HandlersAuthorize

-----------------------------------------------------------------------------
(* The handlers, one by one *)

LEMMA Handlers ==
  /\ Handler("join") = Join /\ Handler("leave") = Leave /\ Handler("knock") = Knock
  /\ Handler("invite") = Invite /\ Handler("kick") = Kick /\ Handler("ban") = Ban
  /\ Handler("unban") = Unban /\ Handler("forget") = Forget
  /\ \A op \in PutOperations : Handler(op) = PutState
  BY DEF Handler, PutOperations

LEMMA Reads ==
  /\ Join.reads[1] = "me" /\ Join.reads[2] = "rule" /\ Join.reads[3] = "me" /\ Len(Join.reads) = 3
  /\ Leave.reads[1] = "me" /\ Len(Leave.reads) = 1
  /\ Knock.reads[1] = "me" /\ Knock.reads[2] = "rule" /\ Len(Knock.reads) = 2
  /\ Invite.reads[1] = "me" /\ Invite.reads[2] = "power" /\ Invite.reads[3] = "target" /\ Len(Invite.reads) = 3
  /\ Kick.reads[1] = "me" /\ Kick.reads[2] = "target" /\ Kick.reads[3] = "power" /\ Len(Kick.reads) = 3
  /\ Ban.reads[1] = "me" /\ Ban.reads[2] = "power" /\ Len(Ban.reads) = 2
  /\ Unban.reads[1] = "me" /\ Unban.reads[2] = "target" /\ Unban.reads[3] = "power" /\ Len(Unban.reads) = 3
  /\ Forget.reads[1] = "me" /\ Len(Forget.reads) = 1
  /\ PutState.reads[1] = "me" /\ PutState.reads[2] = "state" /\ Len(PutState.reads) = 2
  BY DEF Join, Leave, Knock, Invite, Kick, Ban, Unban, Forget, PutState

(* What a handler reads n-th. *)
LEMMA ReadOf ==
  ASSUME NEW op \in Endpoints \cup PutOperations
  PROVE  /\ Len(Handler(op).reads) \in 1 .. 3
         /\ \A n \in 1 .. Len(Handler(op).reads) :
              Handler(op).reads[n] \in {"me", "target", "rule", "power", "state"}
  BY Handlers, Reads DEF Endpoints, PutOperations

(* The membership of an endpoint's event. *)
LEMMA ContentOf ==
  ASSUME NEW r, r.op \in Endpoints
  PROVE  /\ EventOf(r).type = "member" /\ EventOf(r).sender = r.me /\ EventOf(r).target = r.target
         /\ r.op = "join" => EventOf(r).content = "join"
         /\ r.op \in {"leave", "kick", "unban"} => EventOf(r).content = "leave"
         /\ r.op = "knock" => EventOf(r).content = "knock"
         /\ r.op = "invite" => EventOf(r).content = "invite"
         /\ r.op = "ban" => EventOf(r).content = "ban"
         /\ r.op = "forget" => EventOf(r).content = "none"
<1>1. r.op \notin {"put_rule", "put_power", "put_member"}
  BY DEF Endpoints
<1>2. /\ EventOf(r).type = "member" /\ EventOf(r).sender = r.me /\ EventOf(r).target = r.target
      /\ EventOf(r).content = Handler(r.op).membership
  BY <1>1 DEF EventOf
<1> QED BY <1>2, Handlers DEF Join, Leave, Knock, Invite, Kick, Ban, Unban, Forget

(* Stops and Handler do not look at a request's phase. *)
LEMMA StopsNoPhase ==
  ASSUME NEW r \in RequestType, NEW r2 \in RequestType, NEW n,
         r2 = [r EXCEPT !.phase = "writing"], Stops(r2, n)
  PROVE  Stops(r, n)
<1>1. /\ r2.op = r.op /\ r2.me = r.me /\ r2.target = r.target /\ r2.content = r.content
      /\ r2.view = r.view
  BY DEF RequestType
<1>2. EventOf(r2) = EventOf(r)
  BY <1>1 DEF EventOf
<1> QED
  BY <1>1, <1>2
    DEF Stops, JoinStops, LeaveStops, KnockStops, InviteStops, KickStops, BanStops, UnbanStops,
        ForgetStops, PutStateStops, Mine, Theirs

(* A read ends the request or adds what was read to its view. *)
LEMMA ReadResult ==
  ASSUME RoomAssumption, Inv, NEW q \in Requests, Read(q)
  PROVE  LET r == req[q]
             new == req'[q]
             n == r.done + 1
             what == Handler(r.op).reads[n]
         IN  /\ \A p \in Requests : p # q => req'[p] = req[p]
             /\ r.phase = "reading" /\ q \in Active
             /\ n \in 1 .. Len(Handler(r.op).reads)
             /\ \/ new = [Idle EXCEPT !.phase = "done"]
                \/ /\ new.op = r.op /\ new.me = r.me /\ new.target = r.target
                   /\ new.content = r.content /\ new.done = n
                   /\ new.phase = IF n = Len(Handler(r.op).reads) THEN "writing" ELSE "reading"
                   /\ ~Stops(new, n)
                   /\ new.view = CASE what = "me" -> [r.view EXCEPT !.me = row[r.me].membership]
                                   [] what = "target" -> [r.view EXCEPT !.target = row[r.target].membership]
                                   [] what = "rule" -> [r.view EXCEPT !.rule = st.rule]
                                   [] what = "power" -> [r.view EXCEPT !.power = st.power]
                                   [] what = "state" -> r.view
                   /\ new \in RequestType
<1> DEFINE r == req[q]
           n == r.done + 1
           what == Handler(r.op).reads[n]
           seen == CASE what = "me" -> [r.view EXCEPT !.me = row[r.me].membership]
                     [] what = "target" -> [r.view EXCEPT !.target = row[r.target].membership]
                     [] what = "rule" -> [r.view EXCEPT !.rule = st.rule]
                     [] what = "power" -> [r.view EXCEPT !.power = st.power]
                     [] what = "state" -> r.view
           after == [r EXCEPT !.done = n, !.view = seen]
<1>1. /\ r.phase = "reading" /\ r \in RequestType /\ q \in Active
  BY DEF Read, Inv, ReqType, Active
<1>2. WellFormed(r) /\ r.done \in Nat
  BY <1>1 DEF Inv, RequestInv, RequestType
<1>3. /\ Len(Handler(r.op).reads) \in 1 .. 3 /\ n \in 1 .. Len(Handler(r.op).reads)
      /\ what \in {"me", "target", "rule", "power", "state"}
  BY <1>1, <1>2, ReadOf DEF WellFormed
<1>4. seen \in Views
  <2>1. /\ row[r.me].membership \in Memberships /\ row[r.target].membership \in Memberships
        /\ st.rule \in JoinRules /\ st.power \in PowerLevels /\ r.view \in Views
    BY <1>1 DEF Inv, TypeOK, RequestType, RoomStates
  <2> QED BY <1>3, <2>1 DEF Views
<1>5. req' = [req EXCEPT ![q] =
                IF Stops(after, n) THEN [Idle EXCEPT !.phase = "done"]
                ELSE IF n = Len(Handler(r.op).reads) THEN [after EXCEPT !.phase = "writing"]
                ELSE after]
  BY DEF Read
<1> HIDE DEF seen, what
<1>6. after \in RequestType /\ after.phase = "reading" /\ after.done = n /\ after.view = seen
      /\ after.op = r.op /\ after.me = r.me /\ after.target = r.target /\ after.content = r.content
  <2>1. n \in Nat
    BY <1>2
  <2> HIDE DEF r, n
  <2>2. after \in RequestType
    BY <1>1, <1>4, <2>1 DEF RequestType
  <2> QED BY <1>1, <2>2 DEF RequestType
<1> HIDE DEF after
<1>7. [after EXCEPT !.phase = "writing"] \in RequestType
  BY <1>6 DEF RequestType, Phases
<1>8. \A p \in Requests : p # q => req'[p] = req[p]
  BY <1>5 DEF Inv, ReqType
<1>9. CASE Stops(after, n)
  BY <1>1, <1>3, <1>5, <1>8, <1>9 DEF Inv, ReqType
<1>10. CASE ~Stops(after, n) /\ n = Len(Handler(r.op).reads)
  <2>1. req'[q] = [after EXCEPT !.phase = "writing"]
    BY <1>5, <1>10 DEF Inv, ReqType
  <2>2. ~Stops(req'[q], n)
    BY <1>6, <1>7, <1>10, <2>1, StopsNoPhase
  <2>3. /\ req'[q].op = r.op /\ req'[q].me = r.me /\ req'[q].target = r.target
        /\ req'[q].content = r.content /\ req'[q].done = n /\ req'[q].phase = "writing"
        /\ req'[q].view = seen /\ req'[q] \in RequestType
    BY <1>6, <1>7, <2>1 DEF RequestType
  <2> QED BY <1>1, <1>3, <1>8, <1>10, <2>2, <2>3 DEF seen, what
<1>11. CASE ~Stops(after, n) /\ n # Len(Handler(r.op).reads)
  <2>1. req'[q] = after
    BY <1>5, <1>11 DEF Inv, ReqType
  <2> QED BY <1>1, <1>3, <1>6, <1>8, <1>11, <2>1 DEF seen, what
<1> QED BY <1>9, <1>10, <1>11

(* The event of a request that writes is of its type. *)
LEMMA EventTyped ==
  ASSUME RoomAssumption, Inv, NEW q \in Active, req[q].phase \in {"writing", "stored", "current"}
  PROVE  /\ EventOf(req[q]).type \in {"member", "join_rules", "power_levels"}
         /\ EventOf(req[q]).type = "member" =>
              /\ EventOf(req[q]).content \in Memberships
              /\ EventOf(req[q]).target = req[q].target
              /\ EventOf(req[q]).sender = req[q].me
         /\ EventOf(req[q]).type = "join_rules" => EventOf(req[q]).content \in JoinRules
         /\ EventOf(req[q]).type = "power_levels" => EventOf(req[q]).content \in PowerLevels
<1> DEFINE r == req[q]
<1>1. WellFormed(r)
  BY DEF Inv, RequestInv
<1>2. CASE r.op \in Endpoints
  BY <1>1, <1>2, ContentOf DEF Endpoints, Memberships
<1>3. CASE r.op = "put_member"
  <2>1. r.content \in Memberships
    BY <1>1, <1>3 DEF WellFormed
  <2> QED BY <1>3, <2>1 DEF EventOf
<1>4. CASE r.op = "put_rule"
  <2>1. r.content \in JoinRules
    BY <1>1, <1>4 DEF WellFormed
  <2> QED BY <1>4, <2>1 DEF EventOf
<1>5. CASE r.op = "put_power"
  <2>1. r.content \in PowerLevels
    BY <1>1, <1>5 DEF WellFormed, RoomAssumption
  <2> QED BY <1>5, <2>1 DEF EventOf
<1> QED BY <1>1, <1>2, <1>3, <1>4, <1>5 DEF WellFormed, PutOperations

-----------------------------------------------------------------------------
(* Types and the form of requests *)

Ended == [Idle EXCEPT !.phase = "done"]

LEMMA EndedType ==
  ASSUME RoomAssumption
  PROVE  Idle \in RequestType /\ Ended \in RequestType /\ Ended.phase = "done" /\ Idle.phase = "idle"
  BY DEF Idle, Ended, NoView, RequestType, Views, Phases, RoomAssumption, Memberships, JoinRules

(* A request that goes on to another phase keeps what it asks. *)
LEMMA PhaseKeeps ==
  ASSUME Inv, NEW q \in Requests, NEW phase \in Phases, req' = [req EXCEPT ![q].phase = phase]
  PROVE  /\ \A p \in Requests : p # q => req'[p] = req[p]
         /\ req'[q].phase = phase /\ req'[q] \in RequestType
         /\ req'[q].op = req[q].op /\ req'[q].me = req[q].me /\ req'[q].target = req[q].target
         /\ req'[q].content = req[q].content /\ req'[q].done = req[q].done
         /\ EventOf(req'[q]) = EventOf(req[q])
<1>1. /\ req'[q] = [req[q] EXCEPT !.phase = phase] /\ req[q] \in RequestType
      /\ \A p \in Requests : p # q => req'[p] = req[p]
  BY DEF Inv, ReqType
<1>2. /\ req'[q].phase = phase /\ req'[q] \in RequestType
      /\ req'[q].op = req[q].op /\ req'[q].me = req[q].me /\ req'[q].target = req[q].target
      /\ req'[q].content = req[q].content /\ req'[q].done = req[q].done
  BY <1>1 DEF RequestType
<1> QED BY <1>1, <1>2 DEF EventOf

(* One request changed. *)
LEMMA OneChanged ==
  ASSUME Inv, NEW q \in Active, arrived' = arrived,
         req' = [req EXCEPT ![q] = req'[q]], req'[q] \in RequestType,
         req'[q].phase # "done" => WellFormed(req'[q])
  PROVE  RequestInv' /\ req' \in [Requests -> RequestType]
<1>1. q \in Requests /\ req' \in [Requests -> RequestType]
  BY DEF Inv, ReqType, Active
<1>2. \A p \in Requests : p # q => req'[p] = req[p]
  BY DEF Inv, ReqType
<1>3. \A p \in Active' : WellFormed(req[p])'
  <2>1. \A p \in Requests : WellFormed(req'[p]) => WellFormed(req[p])'
    BY DEF WellFormed, EventOf, Handler
  <2> QED BY <1>1, <1>2, <2>1 DEF Active, Inv, RequestInv
<1>4. req[q].phase # "idle"
  BY DEF Active
<1> QED BY <1>1, <1>2, <1>3, <1>4 DEF RequestInv, Inv

Request(op, me, target, content) ==
  [op |-> op, me |-> me, target |-> target, content |-> content,
   done |-> 0, phase |-> "reading", view |-> NoView]

(* A request that arrives takes the next number. *)
LEMMA ArriveResult ==
  ASSUME RoomAssumption, Inv, NEW op \in Operations, NEW me \in Users, NEW target \in Users,
         NEW content \in Contents(op), Arrive(op, me, target, content)
  PROVE  /\ arrived + 1 \in Requests /\ arrived' = arrived + 1
         /\ req'[arrived + 1] = Request(op, me, target, content)
         /\ req' \in [Requests -> RequestType]
         /\ WellFormed(Request(op, me, target, content))
         /\ req[arrived + 1].phase = "idle"
         /\ \A p \in Requests : p # arrived + 1 => req'[p] = req[p]
<1> DEFINE new == Request(op, me, target, content)
<1>1. arrived + 1 \in Requests
  <2>1. arrived \in Nat /\ MaxRequests \in Nat /\ MaxOverlapping \in Nat /\ MaxOverlapping <= MaxRequests
    BY DEF Inv, TypeOK, RoomAssumption
  <2>2. arrived < MaxOverlapping \/ arrived < MaxRequests
    BY DEF Arrive
  <2> QED BY <2>1, <2>2 DEF Requests
<1>2. content \in MemberContents \cup {"none"} \cup JoinRules \cup PowerLevels
  BY DEF Contents, MemberContents, RoomAssumption
<1>3. new \in RequestType
  BY <1>2, EndedType DEF Request, RequestType, Idle, Phases, RoomAssumption
<1>4. WellFormed(new)
  <2>1. op \in Endpoints \cup PutOperations
    BY DEF RoomAssumption
  <2>2. op \in {"join", "leave", "knock", "forget"} => target = me
    BY DEF Arrive
  <2>3. 0 < Len(Handler(op).reads)
    BY <2>1, ReadOf
  <2>4. /\ op = "put_member" => content \in MemberContents
        /\ op = "put_rule" => content \in JoinRules
        /\ op = "put_power" => content \in PowerContents
    BY DEF Contents, MemberContents
  <2> QED BY <2>1, <2>2, <2>3, <2>4 DEF WellFormed, Request
<1>5. req' = [req EXCEPT ![arrived + 1] = new] /\ arrived' = arrived + 1
  BY DEF Arrive, Request
<1>6. req[arrived + 1].phase = "idle"
  BY <1>1 DEF Inv, RequestInv, TypeOK
<1> QED BY <1>1, <1>3, <1>4, <1>5, <1>6 DEF Inv, ReqType

LEMMA ArriveInv ==
  ASSUME RoomAssumption, Inv, NextRequest
  PROVE  Inv'
<1>1. PICK op \in Operations, me \in Users, target \in Users :
        \E content \in Contents(op) : Arrive(op, me, target, content)
  BY DEF NextRequest
<1>2. PICK content \in Contents(op) : Arrive(op, me, target, content)
  BY <1>1
<1> DEFINE new == Request(op, me, target, content)
<1>3. /\ arrived + 1 \in Requests /\ arrived' = arrived + 1
      /\ req'[arrived + 1] = new /\ WellFormed(new) /\ req' \in [Requests -> RequestType]
      /\ \A p \in Requests : p # arrived + 1 => req'[p] = req[p]
  BY <1>2, ArriveResult
<1> HIDE DEF new
<1>4. UNCHANGED <<roomVars, historyVars, stops>> /\ overlap' \in BOOLEAN
  BY <1>2 DEF Arrive
<1>5. TypeOK'
  <2>1. arrived' \in 0 .. MaxRequests
    BY <1>3 DEF Requests
  <2> QED BY <1>4, <2>1 DEF Inv, TypeOK, roomVars, historyVars
<1>6. ReqType'
  BY <1>3, <1>4 DEF Inv, ReqType, roomVars
<1>7. RequestInv'
  <2>1. \A p \in Requests : WellFormed(req'[p]) => WellFormed(req[p])'
    BY DEF WellFormed, EventOf, Handler
  <2>2. \A p \in Active' : WellFormed(req[p])'
    BY <1>3, <2>1 DEF Active, Inv, RequestInv
  <2>3. \A p \in Requests : p > arrived' => req'[p].phase = "idle"
    <3>1. arrived \in Nat /\ \A p \in Requests : p \in Nat
      BY DEF Inv, TypeOK, Requests
    <3> QED BY <1>3, <3>1 DEF Inv, RequestInv
  <2> QED BY <2>2, <2>3 DEF RequestInv
<1> QED BY <1>5, <1>6, <1>7 DEF Inv

(* The handler that read still fits its request. *)
LEMMA ReadWellFormed ==
  ASSUME RoomAssumption, Inv, NEW q \in Requests, Read(q), req'[q].phase # "done"
  PROVE  WellFormed(req'[q]) /\ q \in Active
<1> DEFINE r == req[q]
           new == req'[q]
           n == r.done + 1
<1>1. /\ r.phase = "reading" /\ q \in Active /\ n \in 1 .. Len(Handler(r.op).reads)
      /\ new.op = r.op /\ new.me = r.me /\ new.target = r.target
      /\ new.content = r.content /\ new.done = n
      /\ new.phase = IF n = Len(Handler(r.op).reads) THEN "writing" ELSE "reading"
      /\ ~Stops(new, n)
  BY ReadResult, EndedType DEF Ended
<1>2. WellFormed(r)
  BY <1>1 DEF Inv, RequestInv
<1>3. Len(Handler(r.op).reads) \in 1 .. 3
  BY <1>2, ReadOf DEF WellFormed
<1>4. ASSUME new.phase = "writing", new.op = "put_member" PROVE new.content \in Memberships
  <2>0. Handler(r.op) = PutState /\ Len(PutState.reads) = 2
    BY <1>1, <1>4, Handlers, Reads DEF PutOperations
  <2>1. n = 2
    BY <1>1, <1>4, <2>0
  <2>2. Allowed(EventOf(new), st)
    BY <1>1, <1>4, <2>1 DEF Stops, PutStateStops, PutOperations
  <2>3. EventOf(new).type = "member" /\ EventOf(new).content = new.content
    BY <1>4 DEF EventOf
  <2> QED BY <2>2, <2>3 DEF Allowed, MemberAllowed, Memberships
<1> HIDE DEF new
<1>5. new.phase = "reading" => new.done < Len(Handler(new.op).reads)
  BY <1>1, <1>3
<1>6. new.phase = "writing" => new.done = Len(Handler(new.op).reads)
  BY <1>1
<1> QED BY <1>1, <1>2, <1>4, <1>5, <1>6 DEF WellFormed, new

LEMMA ReadInv ==
  ASSUME RoomAssumption, Inv, NEW q \in Requests, Read(q)
  PROVE  Inv'
<1>1. req' = [req EXCEPT ![q] = req'[q]] /\ req'[q] \in RequestType /\ q \in Active
  <2>1. req'[q] \in RequestType /\ q \in Active
    BY ReadResult, EndedType DEF Ended
  <2>2. req' = [req EXCEPT ![q] = req'[q]]
    <3>1. \E x : req' = [req EXCEPT ![q] = x]
      BY DEF Read
    <3>2. PICK x : req' = [req EXCEPT ![q] = x]
      BY <3>1
    <3> QED BY <3>2 DEF Inv, ReqType
  <2> QED BY <2>1, <2>2
<1>2. UNCHANGED <<roomVars, arrived, overlap, historyVars, stops>>
  BY DEF Read
<1>3. RequestInv' /\ req' \in [Requests -> RequestType]
  BY <1>1, <1>2, ReadWellFormed, OneChanged
<1> QED BY <1>2, <1>3 DEF Inv, TypeOK, ReqType, roomVars, historyVars

(* A request goes on to its next phase, or ends. *)
GoesOn(q, phase) == req' = [req EXCEPT ![q].phase = phase] \/ req' = [req EXCEPT ![q] = Ended]

LEMMA GoesOnInv ==
  ASSUME RoomAssumption, Inv, NEW q \in Active, NEW phase \in {"stored", "current", "knocking"},
         GoesOn(q, phase), arrived' = arrived,
         phase = "stored" => req[q].op # "forget" /\ req[q].phase = "writing",
         phase = "current" => req[q].phase = "stored" /\ EventOf(req[q]).type = "member",
         phase = "knocking" => req[q].op = "knock" \/ req' = [req EXCEPT ![q] = Ended]
  PROVE  RequestInv' /\ req' \in [Requests -> RequestType]
<1>0. q \in Requests /\ phase \in Phases
  BY DEF Active, Phases
<1>1. CASE req' = [req EXCEPT ![q] = Ended]
  <2>1. req'[q] = Ended
    BY <1>0, <1>1 DEF Inv, ReqType
  <2> QED BY <1>1, <2>1, EndedType, OneChanged
<1>2. CASE req' = [req EXCEPT ![q].phase = phase] /\ req' # [req EXCEPT ![q] = Ended]
  <2>1. /\ req'[q].phase = phase /\ req'[q] \in RequestType
        /\ req'[q].op = req[q].op /\ req'[q].me = req[q].me /\ req'[q].target = req[q].target
        /\ req'[q].content = req[q].content /\ req'[q].done = req[q].done
        /\ EventOf(req'[q]) = EventOf(req[q])
    BY <1>0, <1>2, PhaseKeeps
  <2>2. WellFormed(req[q])
    BY DEF Inv, RequestInv
  <2>3. WellFormed(req'[q])
    BY <1>2, <2>1, <2>2 DEF WellFormed
  <2>4. req' = [req EXCEPT ![q] = req'[q]]
    BY <1>0, <1>2 DEF Inv, ReqType
  <2> QED BY <2>1, <2>3, <2>4, OneChanged
<1> QED BY <1>1, <1>2 DEF GoesOn

(* The writes of a request. *)
LEMMA StoreInv ==
  ASSUME RoomAssumption, Inv, NEW q \in Requests, StoreEvent(q)
  PROVE  Inv'
<1> DEFINE r == req[q]
<1>1. q \in Active /\ r \in RequestType /\ r.phase = "writing"
  BY DEF StoreEvent, Active, Inv, ReqType
<1>2. RequestInv' /\ req' \in [Requests -> RequestType]
  BY <1>1, GoesOnInv DEF StoreEvent, GoesOn
<1>3. events' \in [Requests -> [target : Users, membership : Memberships]]
  <2>1. CASE EventOf(r).type = "member"
    <3>1. r.target \in Users /\ EventOf(r).content \in Memberships
      BY <1>1, <2>1, EventTyped DEF RequestType
    <3> QED BY <2>1, <3>1 DEF StoreEvent, Inv, ReqType
  <2>2. CASE EventOf(r).type # "member"
    BY <2>2 DEF StoreEvent, Inv, ReqType
  <2> QED BY <2>1, <2>2
<1>4. stray' \subseteq [event : Requests, was : Memberships]
  <2>1. st.member[r.target] \in Memberships
    BY <1>1 DEF Inv, TypeOK, RoomStates, RequestType
  <2> QED BY <2>1 DEF StoreEvent, Inv, TypeOK
<1>5. UNCHANGED <<st, stEvent, row, knocks, arrived, overlap, banned, forgot, stops>>
  BY DEF StoreEvent
<1> QED BY <1>2, <1>3, <1>4, <1>5 DEF Inv, TypeOK, ReqType

LEMMA SetStateInv ==
  ASSUME RoomAssumption, Inv, NEW q \in Requests, SetState(q)
  PROVE  Inv'
<1> DEFINE r == req[q]
           ev == EventOf(r)
<1>1. q \in Active /\ r \in RequestType /\ r.phase = "stored"
  BY DEF SetState, Active, Inv, ReqType
<1>2. RequestInv' /\ req' \in [Requests -> RequestType]
  <2>1. CASE ev.type = "member"
    <3>1. req' = [req EXCEPT ![q].phase = "current"]
      BY <2>1 DEF SetState
    <3> QED BY <1>1, <2>1, <3>1, GoesOnInv DEF SetState, GoesOn
  <2>2. CASE ev.type # "member"
    <3>1. req' = [req EXCEPT ![q] = Ended]
      BY <2>2 DEF SetState, Ended
    <3> QED BY <1>1, <3>1, GoesOnInv DEF SetState, GoesOn
  <2> QED BY <2>1, <2>2
<1>3. /\ ev.type \in {"member", "join_rules", "power_levels"}
      /\ ev.type = "member" => ev.content \in Memberships /\ ev.target = r.target
      /\ ev.type = "join_rules" => ev.content \in JoinRules
      /\ ev.type = "power_levels" => ev.content \in PowerLevels
  BY <1>1, EventTyped
<1>4. r.target \in Users /\ st \in RoomStates
  BY <1>1 DEF RequestType, Inv, TypeOK
<1>5. st' = After(ev, st)
  BY DEF SetState
<1> HIDE DEF ev
<1>6. st' \in RoomStates
  BY <1>3, <1>4, <1>5 DEF After, RoomStates
<1>7. stEvent' \in [Users -> 0 .. MaxRequests]
  <2>1. q \in 0 .. MaxRequests
    BY DEF Requests
  <2> QED BY <1>4, <2>1 DEF SetState, Inv, TypeOK
<1>8. UNCHANGED <<row, events, knocks, arrived, overlap, historyVars, stops>>
  BY DEF SetState
<1> QED BY <1>2, <1>6, <1>7, <1>8 DEF Inv, TypeOK, ReqType, historyVars

LEMMA UpdateRowInv ==
  ASSUME RoomAssumption, Inv, NEW q \in Requests, UpdateRow(q)
  PROVE  Inv'
<1> DEFINE r == req[q]
<1>1. q \in Active /\ r \in RequestType /\ r.phase = "current"
  BY DEF UpdateRow, Active, Inv, ReqType
<1>2. WellFormed(r)
  BY <1>1 DEF Inv, RequestInv
<1>3. RequestInv' /\ req' \in [Requests -> RequestType]
  <2>1. CASE r.op = "knock"
    <3>1. req' = [req EXCEPT ![q].phase = "knocking"]
      BY <2>1 DEF UpdateRow
    <3> QED BY <1>1, <2>1, <3>1, GoesOnInv DEF UpdateRow, GoesOn
  <2>2. CASE r.op # "knock"
    <3>1. req' = [req EXCEPT ![q] = Ended]
      BY <2>2 DEF UpdateRow, Ended
    <3> QED BY <1>1, <3>1, GoesOnInv DEF UpdateRow, GoesOn
  <2> QED BY <2>1, <2>2
<1>4. r.target \in Users /\ EventOf(r).content \in Memberships
  BY <1>1, <1>2, EventTyped DEF RequestType, WellFormed
<1>5. row' \in [Users -> [membership : Memberships, event : 0 .. MaxRequests]]
  <2>1. q \in 0 .. MaxRequests
    BY DEF Requests
  <2> QED BY <1>4, <2>1 DEF UpdateRow, Inv, ReqType
<1>6. banned' \subseteq Users
  BY <1>4 DEF UpdateRow, Inv, TypeOK
<1>7. UNCHANGED <<st, stEvent, events, knocks, arrived, overlap, forgot, stray, stops>>
  BY DEF UpdateRow
<1> QED BY <1>3, <1>5, <1>6, <1>7 DEF Inv, TypeOK, ReqType

LEMMA EndInv ==
  ASSUME RoomAssumption, Inv, NEW q \in Requests, AddKnock(q) \/ DeleteRow(q) \/ StopRequest(q)
  PROVE  Inv'
<1>1. q \in Active /\ req[q] \in RequestType
  BY DEF AddKnock, DeleteRow, StopRequest, Active, Inv, ReqType
<1>2. req' = [req EXCEPT ![q] = Ended] /\ arrived' = arrived
  BY DEF AddKnock, DeleteRow, StopRequest, Ended
<1>3. RequestInv' /\ req' \in [Requests -> RequestType]
  <2>1. GoesOn(q, "knocking")
    BY <1>2 DEF GoesOn
  <2> QED BY <1>1, <1>2, <2>1, GoesOnInv
<1>4. req[q].me \in Users
  BY <1>1 DEF RequestType
<1>5. CASE AddKnock(q)
  BY <1>3, <1>4, <1>5 DEF AddKnock, Inv, TypeOK, ReqType, historyVars
<1>6. CASE DeleteRow(q)
  <2>1. row' \in [Users -> [membership : Memberships, event : 0 .. MaxRequests]]
    <3>1. NoRow \in [membership : Memberships, event : 0 .. MaxRequests]
      BY DEF NoRow, Memberships, RoomAssumption
    <3> QED BY <1>4, <1>6, <3>1 DEF DeleteRow, Inv, ReqType
  <2>2. forgot' \subseteq Users
    BY <1>4, <1>6 DEF DeleteRow, Inv, TypeOK
  <2> QED BY <1>3, <1>6, <2>1, <2>2 DEF DeleteRow, Inv, TypeOK, ReqType
<1>7. CASE StopRequest(q)
  <2>1. stops' \in 0 .. MaxStops
    BY <1>7 DEF StopRequest, Inv, TypeOK, RoomAssumption
  <2> QED BY <1>3, <1>7, <2>1 DEF StopRequest, Inv, TypeOK, ReqType, roomVars, historyVars
<1> QED BY <1>5, <1>6, <1>7

LEMMA StepInv ==
  ASSUME RoomAssumption, Inv, Next
  PROVE  Inv'
  BY ArriveInv, ReadInv, StoreInv, SetStateInv, UpdateRowInv, EndInv DEF Next, RequestStep

-----------------------------------------------------------------------------
(* A row has its event. *)

(* Steps of request q that write no row and store no event, and after which q is not
   in a phase that claims a stored event it did not claim before. *)
LEMMA QuietEvents ==
  ASSUME Inv, EventInv, NEW q \in Requests, UNCHANGED <<row, events>>,
         \A p \in Requests : p # q => req'[p] = req[p],
         \A u \in Users : row[u].event = q => req'[q].phase \in {"knocking", "done"},
         req'[q].phase \in {"stored", "current"} =>
           req[q].phase \in {"stored", "current"} /\ EventOf(req'[q]) = EventOf(req[q])
                                                  /\ req'[q].target = req[q].target
  PROVE  EventInv'
<1>1. RowsHaveEvents'
  BY DEF EventInv, RowsHaveEvents
<1>2. \A u \in Users : row'[u].event # 0 => req'[row'[u].event].phase \in {"knocking", "done"}
  <2>1. \A u \in Users : row[u].event # 0 => row[u].event \in Requests
    BY DEF Inv, ReqType, Requests
  <2> QED BY <2>1 DEF EventInv
<1>3. \A p \in Requests :
        req'[p].phase \in {"stored", "current"} /\ EventOf(req'[p]).type = "member" =>
          events'[p] = [target |-> req'[p].target, membership |-> EventOf(req'[p]).content]
  BY DEF EventInv
<1>4. \A p \in Requests : EventOf(req'[p]) = EventOf(req[p])'
  BY DEF EventOf, Handler
<1> QED BY <1>1, <1>2, <1>3, <1>4 DEF EventInv

LEMMA StepEvents ==
  ASSUME RoomAssumption, Inv, EventInv, Next
  PROVE  EventInv'
<1> USE DEF roomVars, historyVars
<1>1. ASSUME NextRequest PROVE EventInv'
  <2>1. PICK op \in Operations, me \in Users, target \in Users :
          \E content \in Contents(op) : Arrive(op, me, target, content)
    BY <1>1 DEF NextRequest
  <2>2. PICK content \in Contents(op) : Arrive(op, me, target, content)
    BY <2>1
  <2>3. /\ arrived + 1 \in Requests /\ req'[arrived + 1].phase = "reading"
        /\ req[arrived + 1].phase = "idle"
        /\ \A p \in Requests : p # arrived + 1 => req'[p] = req[p]
    <3>1. Request(op, me, target, content).phase = "reading"
      BY DEF Request
    <3> QED BY <2>2, <3>1, ArriveResult
  <2>4. UNCHANGED <<row, events>>
    BY <2>2 DEF Arrive
  <2>5. \A u \in Users : row[u].event # arrived + 1
    BY <2>3 DEF EventInv, Requests
  <2> QED BY <2>3, <2>4, <2>5, QuietEvents
<1>2. ASSUME NEW q \in Requests, Read(q) PROVE EventInv'
  <2>1. /\ \A p \in Requests : p # q => req'[p] = req[p]
        /\ req[q].phase = "reading" /\ req'[q].phase \in {"reading", "writing", "done"}
    BY <1>2, ReadResult, EndedType DEF Ended
  <2>2. UNCHANGED <<row, events>>
    BY <1>2 DEF Read
  <2>3. \A u \in Users : row[u].event # q
    BY <2>1 DEF EventInv, Requests
  <2> QED BY <2>1, <2>2, <2>3, QuietEvents
<1>3. ASSUME NEW q \in Requests, StoreEvent(q) PROVE EventInv'
  <2> DEFINE r == req[q]
             ev == EventOf(r)
  <2>1. q \in Active /\ r.phase = "writing" /\ req' = [req EXCEPT ![q].phase = "stored"] /\ row' = row
    BY <1>3 DEF StoreEvent, Active
  <2>2. /\ \A p \in Requests : p # q => req'[p] = req[p]
        /\ req'[q].phase = "stored" /\ req'[q].target = r.target /\ EventOf(req'[q]) = ev
    BY <2>1, PhaseKeeps DEF Phases
  <2>3. \A u \in Users : row[u].event # 0 => row[u].event \in Requests \ {q}
    <3>1. \A u \in Users : row[u].event # 0 => row[u].event \in Requests
      BY DEF Inv, ReqType, Requests
    <3> QED BY <2>1, <3>1 DEF EventInv
  <2>4. /\ \A p \in Requests : p # q => events'[p] = events[p]
        /\ ev.type = "member" => events'[q] = [target |-> r.target, membership |-> ev.content]
    BY <1>3 DEF StoreEvent, Inv, ReqType
  <2> HIDE DEF r, ev
  <2>5. \A p \in Requests : EventOf(req'[p]) = EventOf(req[p])'
    BY DEF EventOf, Handler
  <2>6. RowsHaveEvents'
    BY <2>1, <2>3, <2>4 DEF EventInv, RowsHaveEvents
  <2>7. \A u \in Users : row'[u].event # 0 => req'[row'[u].event].phase \in {"knocking", "done"}
    BY <2>1, <2>2, <2>3 DEF EventInv
  <2>8. \A p \in Requests :
          req'[p].phase \in {"stored", "current"} /\ EventOf(req'[p]).type = "member" =>
            events'[p] = [target |-> req'[p].target, membership |-> EventOf(req'[p]).content]
    BY <2>2, <2>4 DEF EventInv
  <2> QED BY <2>5, <2>6, <2>7, <2>8 DEF EventInv
<1>4. ASSUME NEW q \in Requests, SetState(q) PROVE EventInv'
  <2>1. req[q].phase = "stored" /\ UNCHANGED <<row, events>>
    BY <1>4 DEF SetState
  <2>2. \A u \in Users : row[u].event # q
    BY <2>1 DEF EventInv, Requests
  <2>3. CASE EventOf(req[q]).type = "member"
    <3>1. req' = [req EXCEPT ![q].phase = "current"]
      BY <1>4, <2>3 DEF SetState
    <3>2. /\ \A p \in Requests : p # q => req'[p] = req[p]
          /\ req'[q].target = req[q].target /\ EventOf(req'[q]) = EventOf(req[q])
      BY <3>1, PhaseKeeps DEF Phases
    <3> QED BY <2>1, <2>2, <3>2, QuietEvents
  <2>4. CASE EventOf(req[q]).type # "member"
    <3>1. req' = [req EXCEPT ![q] = Ended]
      BY <1>4, <2>4 DEF SetState, Ended
    <3>2. req'[q] = Ended /\ \A p \in Requests : p # q => req'[p] = req[p]
      BY <3>1 DEF Inv, ReqType
    <3> QED BY <2>1, <2>2, <3>2, EndedType, QuietEvents
  <2> QED BY <2>3, <2>4
<1>5. ASSUME NEW q \in Requests, UpdateRow(q) PROVE EventInv'
  <2> DEFINE r == req[q]
  <2>1. /\ q \in Active /\ r \in RequestType /\ r.phase = "current" /\ events' = events
        /\ row' = [row EXCEPT ![r.target] = [membership |-> EventOf(r).content, event |-> q]]
    BY <1>5 DEF UpdateRow, Active, Inv, ReqType
  <2>2. WellFormed(r) /\ r.target \in Users
    BY <2>1 DEF Inv, RequestInv, RequestType
  <2>3. events[q] = [target |-> r.target, membership |-> EventOf(r).content]
    BY <2>1, <2>2 DEF EventInv, WellFormed
  <2>4. /\ \A p \in Requests : p # q => req'[p] = req[p]
        /\ req'[q].phase \in {"knocking", "done"}
    <3>1. CASE r.op = "knock"
      <4>1. req' = [req EXCEPT ![q].phase = "knocking"]
        BY <1>5, <3>1 DEF UpdateRow
      <4> QED BY <4>1, PhaseKeeps DEF Phases
    <3>2. CASE r.op # "knock"
      <4>1. req' = [req EXCEPT ![q] = Ended]
        BY <1>5, <3>2 DEF UpdateRow, Ended
      <4> QED BY <4>1, EndedType DEF Inv, ReqType
    <3> QED BY <3>1, <3>2
  <2>5. /\ row'[r.target] = [membership |-> EventOf(r).content, event |-> q]
        /\ \A u \in Users : u # r.target => row'[u] = row[u]
    BY <2>1, <2>2 DEF Inv, ReqType
  <2> HIDE DEF r
  <2>6. RowsHaveEvents'
    BY <2>1, <2>2, <2>3, <2>5 DEF EventInv, RowsHaveEvents
  <2>7. \A u \in Users : row'[u].event # 0 => req'[row'[u].event].phase \in {"knocking", "done"}
    <3>1. \A u \in Users : row[u].event # 0 => row[u].event \in Requests
      BY DEF Inv, ReqType, Requests
    <3> QED BY <2>4, <2>5, <3>1 DEF EventInv
  <2>8. \A p \in Requests :
          req'[p].phase \in {"stored", "current"} /\ EventOf(req'[p]).type = "member" =>
            events'[p] = [target |-> req'[p].target, membership |-> EventOf(req'[p]).content]
    BY <2>1, <2>4 DEF EventInv
  <2>9. \A p \in Requests : EventOf(req'[p]) = EventOf(req[p])'
    BY DEF EventOf, Handler
  <2> QED BY <2>6, <2>7, <2>8, <2>9 DEF EventInv
<1>6. ASSUME NEW q \in Requests, DeleteRow(q) PROVE EventInv'
  <2>1. req' = [req EXCEPT ![q] = Ended] /\ events' = events /\ req[q] \in RequestType
    BY <1>6 DEF DeleteRow, Ended, Inv, ReqType
  <2>2. req'[q] = Ended /\ \A p \in Requests : p # q => req'[p] = req[p]
    BY <2>1 DEF Inv, ReqType
  <2>3. \A u \in Users : row'[u] = row[u] \/ row'[u].event = 0
    BY <1>6 DEF DeleteRow, NoRow, Inv, ReqType
  <2>4. RowsHaveEvents'
    BY <2>1, <2>3 DEF EventInv, RowsHaveEvents
  <2>5. \A u \in Users : row'[u].event # 0 => req'[row'[u].event].phase \in {"knocking", "done"}
    <3>1. \A u \in Users : row[u].event # 0 => row[u].event \in Requests
      BY DEF Inv, ReqType, Requests
    <3> QED BY <2>2, <2>3, <3>1, EndedType DEF EventInv
  <2>6. \A p \in Requests : EventOf(req'[p]) = EventOf(req[p])'
    BY DEF EventOf, Handler
  <2> QED BY <2>1, <2>2, <2>4, <2>5, <2>6, EndedType DEF EventInv
<1>7. ASSUME NEW q \in Requests, AddKnock(q) \/ StopRequest(q) PROVE EventInv'
  <2>1. req' = [req EXCEPT ![q] = Ended] /\ UNCHANGED <<row, events>>
    BY <1>7 DEF AddKnock, StopRequest, Ended
  <2>2. req'[q] = Ended /\ \A p \in Requests : p # q => req'[p] = req[p]
    BY <2>1 DEF Inv, ReqType
  <2> QED BY <2>1, <2>2, EndedType, QuietEvents
<1> QED BY <1>1, <1>2, <1>3, <1>4, <1>5, <1>6, <1>7 DEF Next, RequestStep

-----------------------------------------------------------------------------
(* Requests that run one after the other *)

(* A handler alone in the room has checked the state there is. *)
LEMMA ReadChecked ==
  ASSUME RoomAssumption, Inv, NEW q \in Requests, Read(q), Checked(req[q]), req'[q].phase # "done"
  PROVE  Checked(req'[q])
<1> DEFINE r == req[q]
           new == req'[q]
           n == r.done + 1
           what == Handler(r.op).reads[n]
<1>1. /\ r.phase = "reading" /\ q \in Active /\ n \in 1 .. Len(Handler(r.op).reads)
      /\ new.op = r.op /\ new.me = r.me /\ new.target = r.target
      /\ new.content = r.content /\ new.done = n
      /\ ~Stops(new, n)
  BY ReadResult, EndedType DEF Ended
<1>2. /\ what = "me" => /\ new.view.me = row[r.me].membership
                       /\ new.view.power = r.view.power /\ new.view.target = r.view.target
      /\ what = "target" => /\ new.view.target = row[r.target].membership
                           /\ new.view.me = r.view.me /\ new.view.power = r.view.power
      /\ what = "rule" => /\ new.view.rule = st.rule /\ new.view.me = r.view.me
      /\ what = "power" => /\ new.view.power = st.power
                          /\ new.view.me = r.view.me /\ new.view.target = r.view.target
      /\ what = "state" => new.view = r.view
  <2>1. r \in RequestType /\ r.view \in Views
    BY DEF Inv, ReqType, RequestType
  <2>2. new # [Idle EXCEPT !.phase = "done"]
    BY EndedType DEF Ended
  <2>3. new.view = CASE what = "me" -> [r.view EXCEPT !.me = row[r.me].membership]
                     [] what = "target" -> [r.view EXCEPT !.target = row[r.target].membership]
                     [] what = "rule" -> [r.view EXCEPT !.rule = st.rule]
                     [] what = "power" -> [r.view EXCEPT !.power = st.power]
                     [] what = "state" -> r.view
    BY <2>2, ReadResult
  <2> HIDE DEF new, r, what
  <2>4. /\ what = "me" => new.view = [r.view EXCEPT !.me = row[r.me].membership]
        /\ what = "target" => new.view = [r.view EXCEPT !.target = row[r.target].membership]
        /\ what = "rule" => new.view = [r.view EXCEPT !.rule = st.rule]
        /\ what = "power" => new.view = [r.view EXCEPT !.power = st.power]
        /\ what = "state" => new.view = r.view
    BY <2>3
  <2> QED BY <2>1, <2>4 DEF Views
<1>3. Checked(r) /\ r.done \in Nat
  BY DEF Inv, ReqType, RequestType
<1>4. EventOf(new) = EventOf(r) /\ WellFormed(r)
  BY <1>1 DEF EventOf, Inv, RequestInv
<1> SUFFICES Checked(new)
  OBVIOUS
<1>n. n = r.done + 1
  OBVIOUS
<1>w. what = Handler(r.op).reads[n]
  OBVIOUS
<1> HIDE DEF new, r, n, what
<1> USE DEF Mine, Theirs, MyLevel, AtLeast, Outranks
<1>5. CASE r.op = "join"
  <2>1. Handler(r.op) = Join /\ n \in 1 .. Len(Join.reads)
    BY <1>1, <1>5, Handlers
  <2>2. (n = 1 /\ what = "me") \/ (n = 2 /\ what = "rule") \/ (n = 3 /\ what = "me")
    BY <1>w, <2>1, Reads
  <2>3. ~JoinStops(new, n)
    BY <1>1, <1>5 DEF Stops, PutOperations
  <2>4. new.op = "join" /\ new.op \notin PutOperations /\ r.op \notin PutOperations
    BY <1>1, <1>5 DEF PutOperations
  <2>5. CASE n = 1
    BY <1>1, <1>2, <1>3, <1>n, <1>5, <2>2, <2>3, <2>4, <2>5 DEF Checked, JoinStops
  <2>6. CASE n = 2
    BY <1>1, <1>2, <1>3, <1>n, <1>5, <2>2, <2>3, <2>4, <2>6 DEF Checked, JoinStops
  <2>7. CASE n = 3
    BY <1>1, <1>2, <1>3, <1>n, <1>5, <2>2, <2>3, <2>4, <2>7 DEF Checked, JoinStops
  <2> QED BY <2>2, <2>5, <2>6, <2>7
<1>6. CASE r.op = "leave"
  <2>1. Handler(r.op) = Leave /\ n \in 1 .. Len(Leave.reads)
    BY <1>1, <1>6, Handlers
  <2>2. n = 1 /\ what = "me"
    BY <1>w, <2>1, Reads
  <2>3. ~LeaveStops(new, n)
    BY <1>1, <1>6 DEF Stops, PutOperations
  <2>4. new.op = "leave" /\ new.op \notin PutOperations /\ r.op \notin PutOperations
    BY <1>1, <1>6 DEF PutOperations
  <2>5. CASE n = 1
    BY <1>1, <1>2, <1>3, <1>n, <1>6, <2>2, <2>3, <2>4, <2>5 DEF Checked, LeaveStops
  <2> QED BY <2>2, <2>5
<1>7. CASE r.op = "knock"
  <2>1. Handler(r.op) = Knock /\ n \in 1 .. Len(Knock.reads)
    BY <1>1, <1>7, Handlers
  <2>2. (n = 1 /\ what = "me") \/ (n = 2 /\ what = "rule")
    BY <1>w, <2>1, Reads
  <2>3. ~KnockStops(new, n)
    BY <1>1, <1>7 DEF Stops, PutOperations
  <2>4. new.op = "knock" /\ new.op \notin PutOperations /\ r.op \notin PutOperations
    BY <1>1, <1>7 DEF PutOperations
  <2>5. CASE n = 1
    BY <1>1, <1>2, <1>3, <1>n, <1>7, <2>2, <2>3, <2>4, <2>5 DEF Checked, KnockStops
  <2>6. CASE n = 2
    BY <1>1, <1>2, <1>3, <1>n, <1>7, <2>2, <2>3, <2>4, <2>6 DEF Checked, KnockStops
  <2> QED BY <2>2, <2>5, <2>6
<1>8. CASE r.op = "invite"
  <2>1. Handler(r.op) = Invite /\ n \in 1 .. Len(Invite.reads)
    BY <1>1, <1>8, Handlers
  <2>2. (n = 1 /\ what = "me") \/ (n = 2 /\ what = "power") \/ (n = 3 /\ what = "target")
    BY <1>w, <2>1, Reads
  <2>3. ~InviteStops(new, n)
    BY <1>1, <1>8 DEF Stops, PutOperations
  <2>4. new.op = "invite" /\ new.op \notin PutOperations /\ r.op \notin PutOperations
    BY <1>1, <1>8 DEF PutOperations
  <2>5. CASE n = 1
    BY <1>1, <1>2, <1>3, <1>n, <1>8, <2>2, <2>3, <2>4, <2>5 DEF Checked, InviteStops
  <2>6. CASE n = 2
    BY <1>1, <1>2, <1>3, <1>n, <1>8, <2>2, <2>3, <2>4, <2>6 DEF Checked, InviteStops
  <2>7. CASE n = 3
    BY <1>1, <1>2, <1>3, <1>n, <1>8, <2>2, <2>3, <2>4, <2>7 DEF Checked, InviteStops
  <2> QED BY <2>2, <2>5, <2>6, <2>7
<1>9. CASE r.op = "kick"
  <2>1. Handler(r.op) = Kick /\ n \in 1 .. Len(Kick.reads)
    BY <1>1, <1>9, Handlers
  <2>2. (n = 1 /\ what = "me") \/ (n = 2 /\ what = "target") \/ (n = 3 /\ what = "power")
    BY <1>w, <2>1, Reads
  <2>3. ~KickStops(new, n)
    BY <1>1, <1>9 DEF Stops, PutOperations
  <2>4. new.op = "kick" /\ new.op \notin PutOperations /\ r.op \notin PutOperations
    BY <1>1, <1>9 DEF PutOperations
  <2>5. CASE n = 1
    BY <1>1, <1>2, <1>3, <1>n, <1>9, <2>2, <2>3, <2>4, <2>5 DEF Checked, KickStops
  <2>6. CASE n = 2
    BY <1>1, <1>2, <1>3, <1>n, <1>9, <2>2, <2>3, <2>4, <2>6 DEF Checked, KickStops
  <2>7. CASE n = 3
    BY <1>1, <1>2, <1>3, <1>n, <1>9, <2>2, <2>3, <2>4, <2>7 DEF Checked, KickStops
  <2> QED BY <2>2, <2>5, <2>6, <2>7
<1>10. CASE r.op = "ban"
  <2>1. Handler(r.op) = Ban /\ n \in 1 .. Len(Ban.reads)
    BY <1>1, <1>10, Handlers
  <2>2. (n = 1 /\ what = "me") \/ (n = 2 /\ what = "power")
    BY <1>w, <2>1, Reads
  <2>3. ~BanStops(new, n)
    BY <1>1, <1>10 DEF Stops, PutOperations
  <2>4. new.op = "ban" /\ new.op \notin PutOperations /\ r.op \notin PutOperations
    BY <1>1, <1>10 DEF PutOperations
  <2>5. CASE n = 1
    BY <1>1, <1>2, <1>3, <1>n, <1>10, <2>2, <2>3, <2>4, <2>5 DEF Checked, BanStops
  <2>6. CASE n = 2
    BY <1>1, <1>2, <1>3, <1>n, <1>10, <2>2, <2>3, <2>4, <2>6 DEF Checked, BanStops
  <2> QED BY <2>2, <2>5, <2>6
<1>11. CASE r.op = "unban"
  <2>1. Handler(r.op) = Unban /\ n \in 1 .. Len(Unban.reads)
    BY <1>1, <1>11, Handlers
  <2>2. (n = 1 /\ what = "me") \/ (n = 2 /\ what = "target") \/ (n = 3 /\ what = "power")
    BY <1>w, <2>1, Reads
  <2>3. ~UnbanStops(new, n)
    BY <1>1, <1>11 DEF Stops, PutOperations
  <2>4. new.op = "unban" /\ new.op \notin PutOperations /\ r.op \notin PutOperations
    BY <1>1, <1>11 DEF PutOperations
  <2>5. CASE n = 1
    BY <1>1, <1>2, <1>3, <1>n, <1>11, <2>2, <2>3, <2>4, <2>5 DEF Checked, UnbanStops
  <2>6. CASE n = 2
    BY <1>1, <1>2, <1>3, <1>n, <1>11, <2>2, <2>3, <2>4, <2>6 DEF Checked, UnbanStops
  <2>7. CASE n = 3
    BY <1>1, <1>2, <1>3, <1>n, <1>11, <2>2, <2>3, <2>4, <2>7 DEF Checked, UnbanStops
  <2> QED BY <2>2, <2>5, <2>6, <2>7
<1>12. CASE r.op = "forget"
  <2>1. Handler(r.op) = Forget /\ n \in 1 .. Len(Forget.reads)
    BY <1>1, <1>12, Handlers
  <2>2. n = 1 /\ what = "me"
    BY <1>w, <2>1, Reads
  <2>3. ~ForgetStops(new, n)
    BY <1>1, <1>12 DEF Stops, PutOperations
  <2>4. new.op = "forget" /\ new.op \notin PutOperations /\ r.op \notin PutOperations
    BY <1>1, <1>12 DEF PutOperations
  <2>5. CASE n = 1
    BY <1>1, <1>2, <1>3, <1>n, <1>12, <2>2, <2>3, <2>4, <2>5 DEF Checked, ForgetStops
  <2> QED BY <2>2, <2>5
<1>13. CASE r.op \in PutOperations
  <2>1. Handler(r.op) = PutState /\ n \in 1 .. Len(PutState.reads)
    BY <1>1, <1>13, Handlers
  <2>2. (n = 1 /\ what = "me") \/ (n = 2 /\ what = "state")
    BY <1>w, <2>1, Reads
  <2>3. ~PutStateStops(new, n)
    BY <1>1, <1>13 DEF Stops
  <2> QED BY <1>1, <1>2, <1>3, <1>4, <1>n, <1>13, <2>2, <2>3 DEF Checked, PutStateStops, PutOperations
<1> QED
  BY <1>4, <1>5, <1>6, <1>7, <1>8, <1>9, <1>10, <1>11, <1>12, <1>13 DEF WellFormed, Endpoints, new

(* The one request that runs may have no row to write yet, or ends. *)
LEMMA StillMirrored ==
  ASSUME AloneInv, NEW q \in Active, req[q].phase # "current", UNCHANGED <<st, stEvent, row>>
  PROVE  \A u \in Users : Mirrored(u) /\ Mirrored(u)'
<1>1. \A u \in Users : ~Between(u)
  BY DEF AloneInv, Between
<1> QED BY <1>1 DEF AloneInv, Mirrored

(* The request alone in the room went on or ended. *)
LEMMA AloneActive ==
  ASSUME Inv, AloneInv, NEW q \in Active, \A p \in Requests : p # q => req'[p] = req[p]
  PROVE  \A p \in Active' : p = q
  BY DEF AloneInv, Active

LEMMA StepAlone ==
  ASSUME RoomAssumption, Inv, AloneInv, BanInv, Next, ~overlap, ~overlap'
  PROVE  AloneInv'
<1> USE DEF roomVars, historyVars
<1>1. ASSUME NextRequest PROVE AloneInv'
  <2>1. PICK op \in Operations, me \in Users, target \in Users :
          \E content \in Contents(op) : Arrive(op, me, target, content)
    BY <1>1 DEF NextRequest
  <2>2. PICK content \in Contents(op) : Arrive(op, me, target, content)
    BY <2>1
  <2>3. Active = {} /\ UNCHANGED <<st, stEvent, row>>
    BY <2>2 DEF Arrive
  <2>4. /\ req'[arrived + 1].phase = "reading" /\ req'[arrived + 1].done = 0
        /\ \A p \in Requests : p # arrived + 1 => req'[p] = req[p]
    <3>1. Request(op, me, target, content).phase = "reading" /\ Request(op, me, target, content).done = 0
      BY DEF Request
    <3> QED BY <2>2, <3>1, ArriveResult
  <2>5. \A p \in Active' : p = arrived + 1
    BY <2>3, <2>4 DEF Active
  <2>6. \A u \in Users : Mirrored(u)'
    BY <2>3 DEF AloneInv, Between, Mirrored
  <2>7. \A p \in Active' : Checked(req[p])'
    BY <2>4, <2>5 DEF Checked
  <2> QED BY <2>4, <2>5, <2>6, <2>7 DEF AloneInv
<1>2. ASSUME NEW q \in Requests, Read(q) PROVE AloneInv'
  <2>1. /\ req[q].phase = "reading" /\ q \in Active /\ \A p \in Requests : p # q => req'[p] = req[p]
        /\ req'[q].phase \in {"reading", "writing", "done"}
    BY <1>2, ReadResult, EndedType DEF Ended
  <2>2. UNCHANGED <<st, stEvent, row>>
    BY <1>2 DEF Read
  <2>3. \A p \in Active' : p = q
    BY <2>1, AloneActive
  <2>4. \A u \in Users : Mirrored(u)'
    BY <2>1, <2>2, StillMirrored
  <2>5. req'[q].phase # "done" => Checked(req'[q])
    BY <1>2, <2>1, ReadChecked DEF AloneInv
  <2>6. Checked(req'[q]) => Checked(req[q])'
    BY <2>2 DEF Checked, MyLevel, Outranks, AtLeast, EventOf
  <2> QED BY <2>1, <2>3, <2>4, <2>5, <2>6 DEF AloneInv, Active
<1>3. ASSUME NEW q \in Requests, StoreEvent(q) PROVE AloneInv'
  <2>1. q \in Active /\ req[q].phase = "writing" /\ req' = [req EXCEPT ![q].phase = "stored"]
        /\ UNCHANGED <<st, stEvent, row>>
    BY <1>3 DEF StoreEvent, Active
  <2>2. req'[q].phase = "stored" /\ \A p \in Requests : p # q => req'[p] = req[p]
    BY <2>1, PhaseKeeps DEF Phases
  <2>3. \A p \in Active' : p = q
    BY <2>1, <2>2, AloneActive
  <2>4. \A u \in Users : Mirrored(u)'
    BY <2>1, StillMirrored
  <2> QED BY <2>2, <2>3, <2>4 DEF AloneInv
<1>4. ASSUME NEW q \in Requests, SetState(q) PROVE AloneInv'
  <2> DEFINE r == req[q]
             ev == EventOf(r)
  <2>1. /\ q \in Active /\ r.phase = "stored" /\ row' = row /\ st' = After(ev, st)
        /\ stEvent' = IF ev.type = "member" THEN [stEvent EXCEPT ![r.target] = q] ELSE stEvent
    BY <1>4 DEF SetState, Active
  <2>2. /\ ev.type \in {"member", "join_rules", "power_levels"}
        /\ ev.type = "member" => ev.content \in Memberships /\ ev.target = r.target
    BY <2>1, EventTyped
  <2>3. r.target \in Users /\ st \in RoomStates /\ stEvent \in [Users -> 0 .. MaxRequests]
    BY DEF Inv, TypeOK, ReqType, RequestType
  <2>4. \A u \in Users : Mirrored(u)
    BY <2>1 DEF AloneInv, Between
  <2>5. CASE ev.type = "member"
    <3>1. /\ \A p \in Requests : p # q => req'[p] = req[p]
          /\ req'[q].phase = "current" /\ req'[q].target = r.target /\ EventOf(req'[q]) = ev
      <4>1. req' = [req EXCEPT ![q].phase = "current"]
        BY <1>4, <2>5 DEF SetState
      <4> QED BY <4>1, PhaseKeeps DEF Phases
    <3> HIDE DEF ev
    <3>2. /\ st'.member[r.target] = ev.content /\ stEvent'[r.target] = q
          /\ \A u \in Users : u # r.target => st'.member[u] = st.member[u] /\ stEvent'[u] = stEvent[u]
      BY <2>1, <2>2, <2>3, <2>5 DEF After, RoomStates
    <3>3. \A p \in Active' : p = q
      BY <2>1, <3>1, AloneActive
    <3>4. q \in Active'
      BY <3>1 DEF Active
    <3>5. \A u \in Users : u # r.target => Mirrored(u)'
      BY <2>1, <2>4, <3>2 DEF Mirrored
    <3>6. Between(r.target)'
      BY <3>1, <3>4 DEF Between
    <3>7. EventOf(req[q])' = ev /\ (req[q].target)' = r.target
      <4>1. EventOf(req[q])' = EventOf(req'[q])
        BY DEF EventOf, Handler
      <4> QED BY <3>1, <4>1
    <3>8. \A u \in Users : Mirrored(u)' \/ Between(u)'
      <4>1. ASSUME NEW u \in Users, u = r.target PROVE Between(u)'
        BY <3>1, <3>4, <4>1 DEF Between
      <4> QED BY <3>5, <4>1
    <3> QED BY <3>1, <3>2, <3>3, <3>7, <3>8 DEF AloneInv
  <2>6. CASE ev.type # "member"
    <3>1. req' = [req EXCEPT ![q] = Ended]
      BY <1>4, <2>6 DEF SetState, Ended
    <3>2. req'[q] = Ended /\ \A p \in Requests : p # q => req'[p] = req[p]
      BY <3>1 DEF Inv, ReqType
    <3>3. Active' = {}
      BY <2>1, <3>2, EndedType, AloneActive DEF Active
    <3> HIDE DEF ev
    <3>4. \A u \in Users : st'.member[u] = st.member[u] /\ stEvent'[u] = stEvent[u]
      BY <2>1, <2>2, <2>3, <2>6 DEF After, RoomStates
    <3>5. \A u \in Users : Mirrored(u)'
      BY <2>1, <2>4, <3>4 DEF Mirrored
    <3> QED BY <3>3, <3>5 DEF AloneInv
  <2> QED BY <2>5, <2>6
<1>5. ASSUME NEW q \in Requests, UpdateRow(q) PROVE AloneInv'
  <2> DEFINE r == req[q]
  <2>1. /\ q \in Active /\ r.phase = "current" /\ st' = st /\ stEvent' = stEvent
        /\ row' = [row EXCEPT ![r.target] = [membership |-> EventOf(r).content, event |-> q]]
    BY <1>5 DEF UpdateRow, Active
  <2>2. r.target \in Users
    BY DEF Inv, ReqType, RequestType
  <2>3. /\ \A p \in Requests : p # q => req'[p] = req[p]
        /\ req'[q].phase \in {"knocking", "done"}
    <3>1. CASE r.op = "knock"
      <4>1. req' = [req EXCEPT ![q].phase = "knocking"]
        BY <1>5, <3>1 DEF UpdateRow
      <4> QED BY <4>1, PhaseKeeps DEF Phases
    <3>2. CASE r.op # "knock"
      <4>1. req' = [req EXCEPT ![q] = Ended]
        BY <1>5, <3>2 DEF UpdateRow, Ended
      <4> QED BY <4>1, EndedType DEF Inv, ReqType
    <3> QED BY <3>1, <3>2
  <2>4. st.member[r.target] = EventOf(r).content /\ stEvent[r.target] = q
    BY <2>1 DEF AloneInv
  <2>5. row'[r.target] = [membership |-> st.member[r.target], event |-> stEvent[r.target]]
        /\ \A u \in Users : u # r.target => row'[u] = row[u]
    BY <2>1, <2>2, <2>4 DEF Inv, ReqType
  <2>6. \A u \in Users : u # r.target => Mirrored(u)
    BY <2>1 DEF AloneInv, Between
  <2> HIDE DEF r
  <2>7. \A u \in Users : Mirrored(u)'
    BY <2>1, <2>5, <2>6 DEF Mirrored
  <2>8. \A p \in Active' : p = q
    BY <2>1, <2>3, AloneActive
  <2> QED BY <2>3, <2>7, <2>8 DEF AloneInv
<1>6. ASSUME NEW q \in Requests, DeleteRow(q) PROVE AloneInv'
  <2>1. /\ q \in Active /\ req[q].phase = "writing" /\ req[q].op = "forget"
        /\ st' = st /\ stEvent' = stEvent /\ row' = [row EXCEPT ![req[q].me] = NoRow]
        /\ req' = [req EXCEPT ![q] = Ended]
    BY <1>6 DEF DeleteRow, Active, Ended
  <2>2. req'[q] = Ended /\ \A p \in Requests : p # q => req'[p] = req[p]
    BY <2>1 DEF Inv, ReqType
  <2>3. Active' = {}
    BY <2>1, <2>2, EndedType, AloneActive DEF Active
  <2>4. req[q].me \in Users /\ WellFormed(req[q]) /\ Checked(req[q])
    BY <2>1 DEF Inv, ReqType, RequestInv, RequestType, AloneInv
  <2>5. row[req[q].me].membership # "join"
    <3>1. Handler(req[q].op) = Forget
      BY <2>1, Handlers
    <3>2. req[q].done = 1
      BY <2>1, <2>4, <3>1, Reads DEF WellFormed
    <3> QED BY <2>1, <2>4, <3>2 DEF Checked
  <2>6. \A u \in Users : Mirrored(u)
    BY <2>1 DEF AloneInv, Between
  <2>7. st.member[req[q].me] # "join"
    <3>1. Mirrored(req[q].me)
      BY <2>4, <2>6
    <3>2. CASE row[req[q].me] = [membership |-> st.member[req[q].me], event |-> stEvent[req[q].me]]
      <4>1. row[req[q].me].membership = st.member[req[q].me]
        BY <3>2
      <4> QED BY <2>5, <4>1
    <3> QED BY <3>1, <3>2 DEF Mirrored
  <2>8. row'[req[q].me] = NoRow /\ \A u \in Users : u # req[q].me => row'[u] = row[u]
    BY <2>1, <2>4 DEF Inv, ReqType
  <2>9. \A u \in Users : Mirrored(u)'
    BY <2>1, <2>6, <2>7, <2>8 DEF Mirrored
  <2> QED BY <2>3, <2>9 DEF AloneInv
<1>7. ASSUME NEW q \in Requests, AddKnock(q) PROVE AloneInv'
  <2>1. /\ q \in Active /\ req[q].phase = "knocking" /\ req' = [req EXCEPT ![q] = Ended]
        /\ UNCHANGED <<st, stEvent, row>>
    BY <1>7 DEF AddKnock, Active, Ended
  <2>2. req'[q] = Ended /\ \A p \in Requests : p # q => req'[p] = req[p]
    BY <2>1 DEF Inv, ReqType
  <2>3. Active' = {}
    BY <2>1, <2>2, EndedType, AloneActive DEF Active
  <2>4. \A u \in Users : Mirrored(u)'
    BY <2>1, StillMirrored
  <2> QED BY <2>3, <2>4 DEF AloneInv
<1>8. ASSUME NEW q \in Requests, StopRequest(q) PROVE FALSE
  BY <1>8 DEF StopRequest
<1> QED BY <1>1, <1>2, <1>3, <1>4, <1>5, <1>6, <1>7, <1>8 DEF Next, RequestStep

(* A row says what room_state says, or is gone. *)
LEMMA MirrorSays ==
  ASSUME NEW u \in Users, Mirrored(u)
  PROVE  \/ row[u].membership = st.member[u]
         \/ row[u].membership = "none" /\ st.member[u] # "join"
<1>1. CASE row[u] = [membership |-> st.member[u], event |-> stEvent[u]]
  BY <1>1
<1>2. CASE row[u] = NoRow /\ st.member[u] # "join"
  BY <1>2 DEF NoRow
<1> QED BY <1>1, <1>2 DEF Mirrored

(* What a request that starts to write has checked, when it is alone. *)
LEMMA WriterChecked ==
  ASSUME RoomAssumption, Inv, AloneInv, NEW q \in Active, req[q].phase = "writing"
  PROVE  /\ Checked(req[q]) /\ WellFormed(req[q])
         /\ req[q].op \in {"join", "invite", "kick", "unban"} => req[q].done = 3
         /\ req[q].op \in {"knock", "ban"} \cup PutOperations => req[q].done = 2
         /\ req[q].op \in {"leave", "forget"} => req[q].done = 1
         /\ req[q].me \in Users /\ req[q].target \in Users
         /\ \A u \in Users : Mirrored(u)
<1> DEFINE r == req[q]
<1>1. Checked(r) /\ WellFormed(r) /\ r.me \in Users /\ r.target \in Users
  BY DEF AloneInv, Inv, RequestInv, ReqType, RequestType, Active
<1>2. r.done = Len(Handler(r.op).reads)
  BY <1>1 DEF WellFormed
<1>3. \A u \in Users : Mirrored(u)
  <2>1. \A p \in Active : p = q
    BY DEF AloneInv
  <2>2. \A u \in Users : ~Between(u)
    BY <2>1 DEF Between
  <2> QED BY <2>2 DEF AloneInv
<1>4. /\ r.op = "join" => r.done = 3
      /\ r.op = "invite" => r.done = 3
      /\ r.op = "kick" => r.done = 3
      /\ r.op = "unban" => r.done = 3
  BY <1>2, Handlers, Reads
<1>5. /\ r.op = "knock" => r.done = 2
      /\ r.op = "ban" => r.done = 2
      /\ r.op \in PutOperations => r.done = 2
  BY <1>2, Handlers, Reads
<1>6. /\ r.op = "leave" => r.done = 1
      /\ r.op = "forget" => r.done = 1
  BY <1>2, Handlers, Reads
<1> QED BY <1>1, <1>3, <1>4, <1>5, <1>6

(* No event that would leave a ban behind is about a banned user. *)
LEMMA WriterBan ==
  ASSUME RoomAssumption, Inv, AloneInv, BanInv, NEW q \in Active, req[q].phase = "writing",
         req[q].op # "forget", EventOf(req[q]).type = "member"
  PROVE  EventOf(req[q]).content \in {"ban", "leave", "invite"} \/ req[q].target \notin banned \ forgot
<1> DEFINE r == req[q]
<1>1. Checked(r) /\ WellFormed(r) /\ r.me \in Users
  BY WriterChecked
<1>2. row[r.me].membership # "ban" => r.me \notin banned \ forgot
  BY DEF BanInv
<1>3. CASE r.op = "join"
  <2>1. r.done = 3 /\ r.target = r.me
    BY <1>1, <1>3, WriterChecked DEF WellFormed
  <2> QED BY <1>1, <1>2, <1>3, <2>1 DEF Checked
<1>4. CASE r.op = "knock"
  <2>1. r.done = 2 /\ r.target = r.me
    BY <1>1, <1>4, WriterChecked DEF WellFormed
  <2> QED BY <1>1, <1>2, <1>4, <2>1 DEF Checked
<1>5. CASE r.op \in PutOperations
  <2>1. r.done = 2
    BY <1>5, WriterChecked
  <2>2. row[r.me].membership = "join" /\ Allowed(EventOf(r), st)
    BY <1>1, <1>5, <2>1 DEF Checked, PutOperations
  <2>3. EventOf(r).sender = r.me /\ EventOf(r).target = r.target
    BY EventTyped
  <2>4. MemberAllowed(EventOf(r), st)
    BY <2>2 DEF Allowed
  <2>5. EventOf(r).content \in {"ban", "leave", "invite"} \/ r.target = r.me
    BY <2>3, <2>4 DEF MemberAllowed, JoinAllowed, KnockAllowed
  <2> QED BY <1>2, <2>2, <2>5
<1>6. CASE r.op \in {"leave", "invite", "kick", "ban", "unban"}
  BY <1>6, ContentOf DEF Endpoints
<1> QED BY <1>1, <1>3, <1>4, <1>5, <1>6 DEF WellFormed, Endpoints

LEMMA StepBan ==
  ASSUME RoomAssumption, Inv, AloneInv, BanInv, Next, ~overlap, ~overlap'
  PROVE  BanInv'
<1> USE DEF roomVars, historyVars
(* Steps that leave the room as it is, after which no request is about to write a row. *)
<1>1. ASSUME UNCHANGED <<st, row, banned, forgot>>, \A u \in Users : ~Between(u),
             \A p \in Active' : req'[p].phase \notin {"stored", "current"}
      PROVE  BanInv'
  BY <1>1 DEF BanInv
<1>2. ASSUME NextRequest PROVE BanInv'
  <2>1. PICK op \in Operations, me \in Users, target \in Users :
          \E content \in Contents(op) : Arrive(op, me, target, content)
    BY <1>2 DEF NextRequest
  <2>2. PICK content \in Contents(op) : Arrive(op, me, target, content)
    BY <2>1
  <2>3. Active = {} /\ UNCHANGED <<st, row, banned, forgot>>
    BY <2>2 DEF Arrive
  <2>4. /\ req'[arrived + 1].phase = "reading"
        /\ \A p \in Requests : p # arrived + 1 => req'[p] = req[p]
    <3>1. Request(op, me, target, content).phase = "reading"
      BY DEF Request
    <3> QED BY <2>2, <3>1, ArriveResult
  <2>5. \A p \in Active' : req'[p].phase = "reading"
    BY <2>3, <2>4 DEF Active
  <2> QED BY <1>1, <2>3, <2>5 DEF Between
<1>3. ASSUME NEW q \in Requests, Read(q) PROVE BanInv'
  <2>1. /\ req[q].phase = "reading" /\ q \in Active /\ \A p \in Requests : p # q => req'[p] = req[p]
        /\ req'[q].phase \in {"reading", "writing", "done"}
    BY <1>3, ReadResult, EndedType DEF Ended
  <2>2. \A p \in Active' : p = q
    BY <2>1, AloneActive
  <2>3. UNCHANGED <<st, row, banned, forgot>>
    BY <1>3 DEF Read
  <2> QED BY <1>1, <2>1, <2>2, <2>3 DEF Between, AloneInv
<1>4. ASSUME NEW q \in Requests, StoreEvent(q) PROVE BanInv'
  <2>1. q \in Active /\ req[q].phase = "writing" /\ req[q].op # "forget"
        /\ req' = [req EXCEPT ![q].phase = "stored"] /\ UNCHANGED <<st, row, banned, forgot>>
    BY <1>4 DEF StoreEvent, Active
  <2>2. /\ \A p \in Requests : p # q => req'[p] = req[p]
        /\ req'[q].target = req[q].target /\ EventOf(req'[q]) = EventOf(req[q])
    BY <2>1, PhaseKeeps DEF Phases
  <2>3. \A p \in Active' : p = q
    BY <2>1, <2>2, AloneActive
  <2>4. EventOf(req[q])' = EventOf(req'[q])
    BY DEF EventOf, Handler
  <2>5. EventOf(req[q]).type = "member" =>
          EventOf(req[q]).content \in {"ban", "leave", "invite"} \/ req[q].target \notin banned \ forgot
    BY <2>1, WriterBan
  <2>6. \A u \in Users : ~Between(u)
    BY <2>1 DEF Between, AloneInv
  <2> QED BY <2>1, <2>2, <2>3, <2>4, <2>5, <2>6 DEF BanInv
<1>5. ASSUME NEW q \in Requests, SetState(q) PROVE BanInv'
  <2> DEFINE r == req[q]
             ev == EventOf(r)
  <2>1. /\ q \in Active /\ r.phase = "stored" /\ UNCHANGED <<row, banned, forgot>>
        /\ st' = After(ev, st)
    BY <1>5 DEF SetState, Active
  <2>2. /\ ev.type \in {"member", "join_rules", "power_levels"}
        /\ ev.type = "member" => ev.content \in Memberships /\ ev.target = r.target
    BY <2>1, EventTyped
  <2>3. r.target \in Users /\ st \in RoomStates
    BY DEF Inv, TypeOK, ReqType, RequestType
  <2>4. \A u \in Users : ~Between(u)
    BY <2>1 DEF Between, AloneInv
  <2>5. CASE ev.type = "member"
    <3>1. /\ \A p \in Requests : p # q => req'[p] = req[p]
          /\ req'[q].phase = "current" /\ req'[q].target = r.target /\ EventOf(req'[q]) = ev
      <4>1. req' = [req EXCEPT ![q].phase = "current"]
        BY <1>5, <2>5 DEF SetState
      <4> QED BY <4>1, PhaseKeeps DEF Phases
    <3>2. \A p \in Active' : p = q
      BY <2>1, <3>1, AloneActive
    <3>3. EventOf(req[q])' = EventOf(req'[q])
      BY DEF EventOf, Handler
    <3>4. ev.content \in {"ban", "leave", "invite"} \/ r.target \notin banned \ forgot
      BY <2>1, <2>5 DEF BanInv
    <3>5. Between(r.target)'
      BY <3>1 DEF Between, Active
    <3>6. ASSUME NEW u \in Users, u = r.target PROVE Between(u)'
      BY <3>1, <3>6 DEF Between, Active
    <3> HIDE DEF ev, r
    <3>7. \A u \in Users : u # r.target => st'.member[u] = st.member[u]
      BY <2>1, <2>2, <2>3, <2>5 DEF After, RoomStates
    <3>8. \A u \in Users : st'.member[u] = "ban" => u \in banned' \/ Between(u)'
      BY <2>1, <2>4, <3>6, <3>7 DEF BanInv
    <3> QED BY <2>1, <3>1, <3>2, <3>3, <3>4, <3>8 DEF BanInv
  <2>6. CASE ev.type # "member"
    <3>1. req' = [req EXCEPT ![q] = Ended]
      BY <1>5, <2>6 DEF SetState, Ended
    <3>2. req'[q] = Ended /\ \A p \in Requests : p # q => req'[p] = req[p]
      BY <3>1 DEF Inv, ReqType
    <3>3. Active' = {}
      BY <2>1, <3>2, EndedType, AloneActive DEF Active
    <3> HIDE DEF ev, r
    <3>4. st'.member = st.member
      BY <2>1, <2>2, <2>3, <2>6 DEF After, RoomStates
    <3> QED BY <2>1, <2>4, <3>3, <3>4 DEF BanInv
  <2> QED BY <2>5, <2>6
<1>6. ASSUME NEW q \in Requests, UpdateRow(q) PROVE BanInv'
  <2> DEFINE r == req[q]
             content == EventOf(r).content
  <2>1. /\ q \in Active /\ r.phase = "current" /\ UNCHANGED <<st, forgot>>
        /\ row' = [row EXCEPT ![r.target] = [membership |-> content, event |-> q]]
        /\ banned' = CASE content = "ban" -> banned \cup {r.target}
                       [] content \in {"leave", "invite"} -> banned \ {r.target}
                       [] OTHER -> banned
    BY <1>6 DEF UpdateRow, Active
  <2>2. r.target \in Users /\ WellFormed(r)
    BY <2>1 DEF Inv, ReqType, RequestType, RequestInv
  <2>3. /\ Active' = {q} \/ Active' = {}
        /\ \A p \in Requests : p # q => req'[p] = req[p]
    <3>1. \A p \in Requests : p # q => req'[p] = req[p]
      BY <1>6 DEF UpdateRow, Inv, ReqType
    <3> QED BY <2>1, <3>1, AloneActive
  <2>4. req'[q].phase \in {"knocking", "done"}
    <3>1. CASE r.op = "knock"
      <4>1. req' = [req EXCEPT ![q].phase = "knocking"]
        BY <1>6, <3>1 DEF UpdateRow
      <4> QED BY <4>1, PhaseKeeps DEF Phases
    <3>2. CASE r.op # "knock"
      <4>1. req' = [req EXCEPT ![q] = Ended]
        BY <1>6, <3>2 DEF UpdateRow, Ended
      <4> QED BY <4>1, EndedType DEF Inv, ReqType
    <3> QED BY <3>1, <3>2
  <2>5. EventOf(r).type = "member" /\ st.member[r.target] = content
    BY <2>1, <2>2 DEF WellFormed, AloneInv
  <2>6. content \in {"ban", "leave", "invite"} \/ r.target \notin banned \ forgot
    BY <2>1, <2>5 DEF BanInv
  <2>7. \A u \in Users : u # r.target => ~Between(u)
    BY <2>1 DEF Between, AloneInv
  <2>8. row'[r.target].membership = content /\ \A u \in Users : u # r.target => row'[u] = row[u]
    BY <2>1, <2>2 DEF Inv, ReqType
  <2>9. banned \subseteq Users
    BY DEF Inv, TypeOK
  <2> HIDE DEF r, content
  <2>10. \A u \in banned' \ forgot' : row'[u].membership = "ban"
    BY <2>1, <2>6, <2>8, <2>9 DEF BanInv
  <2>11. \A u \in Users : st'.member[u] = "ban" => u \in banned'
    BY <2>1, <2>5, <2>7 DEF BanInv
  <2> QED BY <2>3, <2>4, <2>10, <2>11 DEF BanInv
<1>7. ASSUME NEW q \in Requests, DeleteRow(q) PROVE BanInv'
  <2>1. /\ q \in Active /\ req[q].phase = "writing" /\ UNCHANGED <<st, banned>>
        /\ row' = [row EXCEPT ![req[q].me] = NoRow]
        /\ forgot' = IF req[q].me \in banned THEN forgot \cup {req[q].me} ELSE forgot
        /\ req' = [req EXCEPT ![q] = Ended]
    BY <1>7 DEF DeleteRow, Active, Ended
  <2>2. req'[q] = Ended /\ \A p \in Requests : p # q => req'[p] = req[p]
    BY <2>1 DEF Inv, ReqType
  <2>3. Active' = {}
    BY <2>1, <2>2, EndedType, AloneActive DEF Active
  <2>4. \A u \in Users : ~Between(u)
    BY <2>1 DEF Between, AloneInv
  <2>5. \A u \in Users : u # req[q].me => row'[u] = row[u]
    BY <2>1 DEF Inv, ReqType
  <2>6. banned \subseteq Users
    BY DEF Inv, TypeOK
  <2> QED BY <2>1, <2>3, <2>4, <2>5, <2>6 DEF BanInv
<1>8. ASSUME NEW q \in Requests, AddKnock(q) PROVE BanInv'
  <2>1. /\ q \in Active /\ req[q].phase = "knocking" /\ req' = [req EXCEPT ![q] = Ended]
        /\ UNCHANGED <<st, row, banned, forgot>>
    BY <1>8 DEF AddKnock, Active, Ended
  <2>2. req'[q] = Ended /\ \A p \in Requests : p # q => req'[p] = req[p]
    BY <2>1 DEF Inv, ReqType
  <2>3. Active' = {}
    BY <2>1, <2>2, EndedType, AloneActive DEF Active
  <2> QED BY <1>1, <2>1, <2>3 DEF Between, AloneInv
<1>9. ASSUME NEW q \in Requests, StopRequest(q) PROVE FALSE
  BY <1>9 DEF StopRequest
<1> QED BY <1>2, <1>3, <1>4, <1>5, <1>6, <1>7, <1>8, <1>9 DEF Next, RequestStep

-----------------------------------------------------------------------------
(* The handlers are as strict as checkEventAuth. *)

LEMMA PowerType ==
  ASSUME AuthAssumption, NEW pl \in PowerLevels, NEW u \in Users
  PROVE  PowerOf(pl, u) \in Int
<1>1. \A l \in Level : l = NoLevel \/ (l # NoLevel /\ l \in Int)
  BY DEF AuthAssumption, Level
<1>2. pl.users[u] \in Level /\ pl.users_default \in Level
  BY DEF PowerLevels
<1>3. Or(pl.users_default, 0) \in Int
  BY <1>1, <1>2 DEF Or
<1>4. QED
  BY <1>1, <1>2, <1>3 DEF PowerOf, Or

LEMMA LevelType ==
  ASSUME AuthAssumption, NEW pl \in PowerLevels
  PROVE  /\ Or(pl.invite, 50) \in Int /\ Or(pl.invite, 0) \in Int /\ Or(pl.invite, 0) <= Or(pl.invite, 50)
         /\ Or(pl.kick, 50) \in Int /\ Or(pl.ban, 50) \in Int
<1>1. \A l \in Level : Or(l, 50) \in Int /\ Or(l, 0) \in Int /\ Or(l, 0) <= Or(l, 50)
  <2>1. \A l \in Level : l = NoLevel \/ (l # NoLevel /\ l \in Int)
    BY DEF AuthAssumption, Level
  <2> QED BY <2>1 DEF Or
<1>2. pl.invite \in Level /\ pl.kick \in Level /\ pl.ban \in Level
  BY DEF PowerLevels
<1> QED BY <1>1, <1>2

(* An endpoint that writes alone passed checks that imply checkEventAuth's. *)
LEMMA AllowedAlone ==
  ASSUME AuthAssumption, RoomAssumption, KnockingSupported, Inv, AloneInv, BanInv, forgot = {},
         NEW q \in Active, req[q].phase = "writing", req[q].op # "forget"
  PROVE  \/ Allowed(EventOf(req[q]), st)
         \/ /\ EventOf(req[q]).type = "member" /\ EventOf(req[q]).content = "invite"
            /\ st.member[req[q].target] = "ban"
<1> DEFINE r == req[q]
           ev == EventOf(r)
           mine == row[r.me].membership
           theirs == row[r.target].membership
<1>1. /\ Checked(r) /\ WellFormed(r) /\ r.me \in Users /\ r.target \in Users
      /\ r.op \in {"join", "invite", "kick", "unban"} => r.done = 3
      /\ r.op \in {"knock", "ban"} \cup PutOperations => r.done = 2
      /\ r.op = "leave" => r.done = 1
  BY WriterChecked
<1>2. \A u \in Users :
        \/ row[u].membership = st.member[u]
        \/ row[u].membership = "none" /\ st.member[u] # "join" /\ st.member[u] # "ban"
  <2>1. \A p \in Active : p = q
    BY DEF AloneInv
  <2>2. \A u \in Users : ~Between(u)
    BY <2>1 DEF Between
  <2>3. \A u \in Users : st.member[u] = "ban" => row[u].membership = "ban"
    BY <2>2 DEF BanInv
  <2> QED BY <2>3, WriterChecked, MirrorSays
<1>3. /\ PowerOf(st.power, r.me) \in Int /\ PowerOf(st.power, r.target) \in Int
      /\ Or(st.power.invite, 50) \in Int /\ Or(st.power.invite, 0) \in Int
      /\ Or(st.power.invite, 0) <= Or(st.power.invite, 50)
      /\ Or(st.power.kick, 50) \in Int /\ Or(st.power.ban, 50) \in Int
  BY <1>1, PowerType, LevelType DEF Inv, TypeOK, RoomStates
<1>4. CASE r.op \in PutOperations
  BY <1>1, <1>4 DEF Checked
<1>5. ASSUME r.op \in Endpoints
      PROVE  /\ ev.type = "member" /\ ev.sender = r.me /\ ev.target = r.target
             /\ r.op = "join" => ev.content = "join"
             /\ r.op \in {"leave", "kick", "unban"} => ev.content = "leave"
             /\ r.op = "knock" => ev.content = "knock"
             /\ r.op = "invite" => ev.content = "invite"
             /\ r.op = "ban" => ev.content = "ban"
  BY <1>5, ContentOf
<1>6. /\ r.op \in {"join", "knock", "leave"} => r.target = r.me
      /\ r.op \in Endpoints \cup PutOperations /\ r.op # "forget"
  BY <1>1 DEF WellFormed
<1>7. r.op \in {"leave", "invite", "kick", "ban", "unban"} => mine = "join"
  BY <1>1 DEF Checked
<1>8. r.op \in {"leave", "invite", "kick", "ban", "unban"} => Joined(st, r.me)
  BY <1>1, <1>2, <1>7 DEF Joined
<1> SUFFICES Allowed(ev, st)
             \/ (ev.type = "member" /\ ev.content = "invite" /\ st.member[r.target] = "ban")
  OBVIOUS
<1>9. CASE r.op = "join"
  <2>1. (st.rule = "public" \/ mine = "invite") /\ mine # "join"
    BY <1>1, <1>9 DEF Checked
  <2>2. ev.type = "member" /\ ev.sender = r.me /\ ev.target = r.me /\ ev.content = "join"
    BY <1>5, <1>6, <1>9 DEF Endpoints
  <2>3. st.rule = "public" \/ st.member[r.me] = "invite"
    BY <1>1, <1>2, <2>1
  <2> HIDE DEF ev, r
  <2> QED BY <2>2, <2>3 DEF Allowed, MemberAllowed, JoinAllowed
<1>10. CASE r.op = "leave"
  <2>1. ev.type = "member" /\ ev.sender = r.me /\ ev.target = r.me /\ ev.content = "leave"
    BY <1>5, <1>6, <1>10 DEF Endpoints
  <2>2. st.member[r.me] = "join"
    BY <1>8, <1>10 DEF Joined
  <2> HIDE DEF ev, r
  <2> QED BY <2>1, <2>2 DEF Allowed, MemberAllowed, LeaveAllowed, OwnLeaveAllowed
<1>11. CASE r.op = "knock"
  <2>1. st.rule \in {"knock", "knock_restricted"} /\ mine \notin {"join", "ban"}
    BY <1>1, <1>11 DEF Checked
  <2>2. ev.type = "member" /\ ev.sender = r.me /\ ev.target = r.me /\ ev.content = "knock"
    BY <1>5, <1>6, <1>11 DEF Endpoints
  <2>3. st.member[r.me] \notin {"join", "ban"}
    BY <1>1, <1>2, <2>1
  <2> HIDE DEF ev, r
  <2> QED BY <2>1, <2>2, <2>3 DEF Allowed, MemberAllowed, KnockAllowed
<1>12. CASE r.op = "invite"
  <2>1. ~(PowerOf(st.power, r.me) < Or(st.power.invite, 50)) /\ theirs # "join"
    BY <1>1, <1>12 DEF Checked, AtLeast, MyLevel
  <2>2. ev.type = "member" /\ ev.sender = r.me /\ ev.target = r.target /\ ev.content = "invite"
    BY <1>5, <1>12 DEF Endpoints
  <2>3. st.member[r.target] # "join"
    BY <1>1, <1>2, <2>1
  <2>4. PowerOf(st.power, r.me) >= Or(st.power.invite, 0)
    BY <1>3, <2>1
  <2> HIDE DEF ev, r
  <2> QED BY <1>8, <1>12, <2>2, <2>3, <2>4 DEF Allowed, MemberAllowed, InviteAllowed
<1>13. CASE r.op = "kick"
  <2>1. /\ ~(PowerOf(st.power, r.me) < Or(st.power.kick, 50)) /\ theirs = "join"
        /\ ~(PowerOf(st.power, r.me) <= PowerOf(st.power, r.target))
    BY <1>1, <1>13 DEF Checked, AtLeast, MyLevel, Outranks
  <2>2. ev.type = "member" /\ ev.sender = r.me /\ ev.target = r.target /\ ev.content = "leave"
    BY <1>5, <1>13 DEF Endpoints
  <2>3. st.member[r.target] = "join"
    BY <1>1, <1>2, <2>1
  <2>4. /\ PowerOf(st.power, r.me) >= Or(st.power.kick, 50)
        /\ PowerOf(st.power, r.me) > PowerOf(st.power, r.target)
    BY <1>3, <2>1
  <2> HIDE DEF ev, r
  <2> QED BY <1>8, <1>13, <2>2, <2>3, <2>4
        DEF Allowed, MemberAllowed, LeaveAllowed, OwnLeaveAllowed, KickAllowed
<1>14. CASE r.op = "ban"
  <2>1. /\ ~(PowerOf(st.power, r.me) < Or(st.power.ban, 50))
        /\ ~(PowerOf(st.power, r.me) <= PowerOf(st.power, r.target))
    BY <1>1, <1>14 DEF Checked, AtLeast, MyLevel, Outranks
  <2>2. ev.type = "member" /\ ev.sender = r.me /\ ev.target = r.target /\ ev.content = "ban"
    BY <1>5, <1>14 DEF Endpoints
  <2>3. /\ PowerOf(st.power, r.me) >= Or(st.power.ban, 50)
        /\ PowerOf(st.power, r.me) > PowerOf(st.power, r.target)
    BY <1>3, <2>1
  <2> HIDE DEF ev, r
  <2> QED BY <1>8, <1>14, <2>2, <2>3 DEF Allowed, MemberAllowed, BanAllowed
<1>15. CASE r.op = "unban"
  <2>1. ~(PowerOf(st.power, r.me) < Or(st.power.ban, 50)) /\ theirs = "ban"
    BY <1>1, <1>15 DEF Checked, AtLeast, MyLevel
  <2>2. ev.type = "member" /\ ev.sender = r.me /\ ev.target = r.target /\ ev.content = "leave"
    BY <1>5, <1>15 DEF Endpoints
  <2>3. st.member[r.target] = "ban"
    BY <1>1, <1>2, <2>1
  <2>4. PowerOf(st.power, r.me) >= Or(st.power.ban, 50)
    BY <1>3, <2>1
  <2>5. st.member[r.me] = "join"
    BY <1>8, <1>15 DEF Joined
  <2> HIDE DEF ev, r
  <2> QED BY <2>2, <2>3, <2>4, <2>5 DEF Allowed, MemberAllowed, LeaveAllowed, KickAllowed, Joined
<1> QED BY <1>4, <1>6, <1>9, <1>10, <1>11, <1>12, <1>13, <1>14, <1>15 DEF Endpoints

(* Requests that have met, and users who forgot a ban, stay so. *)
LEMMA HistoryGrows ==
  ASSUME Next
  PROVE  (overlap => overlap') /\ (forgot # {} => forgot' # {})
<1> USE DEF historyVars
<1>1. CASE NextRequest
  BY <1>1 DEF NextRequest, Arrive
<1>2. ASSUME NEW q \in Requests, Read(q) \/ SetState(q) \/ AddKnock(q) \/ StopRequest(q)
      PROVE  (overlap => overlap') /\ forgot' = forgot
  BY <1>2 DEF Read, SetState, AddKnock, StopRequest
<1>3. ASSUME NEW q \in Requests, StoreEvent(q) \/ UpdateRow(q)
      PROVE  overlap' = overlap /\ forgot' = forgot
  BY <1>3 DEF StoreEvent, UpdateRow
<1>4. ASSUME NEW q \in Requests, DeleteRow(q)
      PROVE  overlap' = overlap /\ forgot \subseteq forgot'
  BY <1>4 DEF DeleteRow
<1> QED BY <1>1, <1>2, <1>3, <1>4 DEF Next, RequestStep

(* Steps that store no event. *)
LEMMA QuietStray ==
  ASSUME StrayInv, Next, UNCHANGED <<stray, events>>,
         \A p \in Requests : req[p].phase \notin {"idle", "reading", "writing"} =>
                               req'[p].phase \notin {"idle", "reading", "writing"},
         stray \subseteq [event : Requests, was : Memberships]
  PROVE  StrayInv'
<1>1. \A s \in stray : s.event \in Requests
  OBVIOUS
<1>2. HandlersAuthorize'
  BY HistoryGrows DEF StrayInv, HandlersAuthorize
<1>3. \A s \in stray' : req'[s.event].phase \notin {"idle", "reading", "writing"}
  BY <1>1 DEF StrayInv
<1> QED BY <1>2, <1>3 DEF StrayInv

LEMMA StepStray ==
  ASSUME AuthAssumption, RoomAssumption, KnockingSupported, Inv, SequentialInv, StrayInv, Next
  PROVE  StrayInv'
<1> USE DEF roomVars, historyVars
<1>0. stray \subseteq [event : Requests, was : Memberships]
  BY DEF Inv, TypeOK
<1>1. ASSUME NextRequest PROVE StrayInv'
  <2>1. PICK op \in Operations, me \in Users, target \in Users :
          \E content \in Contents(op) : Arrive(op, me, target, content)
    BY <1>1 DEF NextRequest
  <2>2. PICK content \in Contents(op) : Arrive(op, me, target, content)
    BY <2>1
  <2>3. req[arrived + 1].phase = "idle" /\ \A p \in Requests : p # arrived + 1 => req'[p] = req[p]
    BY <2>2, ArriveResult
  <2>4. UNCHANGED <<stray, events>>
    BY <2>2 DEF Arrive
  <2> QED BY <1>0, <2>3, <2>4, QuietStray
<1>2. ASSUME NEW q \in Requests, Read(q) PROVE StrayInv'
  <2>1. req[q].phase = "reading" /\ \A p \in Requests : p # q => req'[p] = req[p]
    BY <1>2, ReadResult
  <2>2. UNCHANGED <<stray, events>>
    BY <1>2 DEF Read
  <2> QED BY <1>0, <2>1, <2>2, QuietStray
<1>3. ASSUME NEW q \in Requests, SetState(q) \/ UpdateRow(q) PROVE StrayInv'
  <2>1. \/ req' = [req EXCEPT ![q] = Ended]
        \/ req' = [req EXCEPT ![q].phase = "current"]
        \/ req' = [req EXCEPT ![q].phase = "knocking"]
    BY <1>3 DEF SetState, UpdateRow, Ended
  <2>2. \A p \in Requests : req'[p] = req[p] \/ req'[p].phase \in {"done", "current", "knocking"}
    BY <2>1, EndedType DEF Inv, ReqType, RequestType
  <2>3. UNCHANGED <<stray, events>>
    BY <1>3 DEF SetState, UpdateRow
  <2> QED BY <1>0, <2>2, <2>3, QuietStray
<1>4. ASSUME NEW q \in Requests, DeleteRow(q) \/ AddKnock(q) \/ StopRequest(q) PROVE StrayInv'
  <2>1. req' = [req EXCEPT ![q] = Ended] /\ UNCHANGED <<stray, events>>
    BY <1>4 DEF DeleteRow, AddKnock, StopRequest, Ended
  <2>2. \A p \in Requests : req'[p] = req[p] \/ req'[p].phase = "done"
    BY <2>1, EndedType DEF Inv, ReqType
  <2> QED BY <1>0, <2>1, <2>2, QuietStray
<1>5. ASSUME NEW q \in Requests, StoreEvent(q) PROVE StrayInv'
  <2> DEFINE r == req[q]
             ev == EventOf(r)
  <2>1. /\ q \in Active /\ r.phase = "writing" /\ r.op # "forget"
        /\ req' = [req EXCEPT ![q].phase = "stored"]
        /\ UNCHANGED <<st, overlap, forgot>>
        /\ stray' = IF Allowed(ev, st) THEN stray ELSE stray \cup {[event |-> q, was |-> st.member[r.target]]}
        /\ events' = IF ev.type = "member"
                       THEN [events EXCEPT ![q] = [target |-> r.target, membership |-> ev.content]]
                       ELSE events
    BY <1>5 DEF StoreEvent, Active
  <2>2. /\ req'[q].phase = "stored" /\ \A p \in Requests : p # q => req'[p] = req[p]
    BY <2>1, PhaseKeeps DEF Phases
  <2>3. \A p \in Requests : p # q => events'[p] = events[p]
    BY <2>1 DEF Inv, ReqType
  <2>4. \A s \in stray : s.event \in Requests /\ s.event # q
    BY <1>0, <2>1 DEF StrayInv
  <2>5. ASSUME ~Allowed(ev, st), ~overlap, forgot = {}
        PROVE  events'[q].membership = "invite" /\ st.member[r.target] = "ban"
    <3>1. AloneInv /\ BanInv
      BY <2>5 DEF SequentialInv
    <3>2. ev.type = "member" /\ ev.content = "invite" /\ st.member[r.target] = "ban"
      BY <2>1, <2>5, <3>1, AllowedAlone
    <3>3. events'[q] = [target |-> r.target, membership |-> ev.content]
      BY <2>1, <3>2 DEF Inv, ReqType
    <3> QED BY <3>2, <3>3
  <2> HIDE DEF r, ev
  <2>6. HandlersAuthorize'
    BY <2>1, <2>3, <2>4, <2>5 DEF StrayInv, HandlersAuthorize
  <2>7. \A s \in stray' : req'[s.event].phase \notin {"idle", "reading", "writing"}
    BY <2>1, <2>2, <2>4 DEF StrayInv
  <2> QED BY <2>6, <2>7 DEF StrayInv
<1> QED BY <1>1, <1>2, <1>3, <1>4, <1>5 DEF Next, RequestStep

-----------------------------------------------------------------------------
(* The theorems *)

Everything == Inv /\ EventInv /\ SequentialInv

LEMMA InitEverything ==
  ASSUME RoomAssumption, Init
  PROVE  Everything /\ StrayInv
<1>1. TypeOK
  <2>1. st \in RoomStates
    BY DEF Init, RoomStates, Memberships, RoomAssumption
  <2>2. 0 \in 0 .. MaxRequests /\ 0 \in 0 .. MaxStops
    BY DEF RoomAssumption
  <2>3. \A u \in Users : row[u].membership \in Memberships /\ row[u].event = 0
    BY DEF Init, Memberships
  <2> QED BY <2>1, <2>2, <2>3 DEF Init, TypeOK
<1>2. \A q \in Requests : req[q].phase = "idle"
  BY EndedType DEF Init
<1>3. Active = {}
  BY <1>2 DEF Active
<1>4. ReqType
  <2>1. req \in [Requests -> RequestType]
    BY EndedType DEF Init
  <2>2. row \in [Users -> [membership : Memberships, event : 0 .. MaxRequests]]
    BY DEF Init, RoomAssumption, Memberships
  <2>3. events \in [Requests -> [target : Users, membership : Memberships]]
    BY DEF Init, RoomAssumption, Memberships
  <2> QED BY <2>1, <2>2, <2>3 DEF ReqType
<1>5. RequestInv
  BY <1>2, <1>3 DEF RequestInv
<1>6. EventInv
  BY <1>2 DEF Init, EventInv, RowsHaveEvents
<1>7. AloneInv /\ BanInv
  <2>1. \A u \in Users : Mirrored(u)
    BY DEF Init, Mirrored
  <2>2. \A u \in Users : st.member[u] # "ban"
    BY DEF Init
  <2>3. banned = {}
    BY DEF Init
  <2> QED BY <1>3, <2>1, <2>2, <2>3 DEF AloneInv, BanInv
<1>8. StrayInv
  BY DEF Init, StrayInv, HandlersAuthorize
<1> QED BY <1>1, <1>4, <1>5, <1>6, <1>7, <1>8 DEF Everything, Inv, SequentialInv

(* A step keeps the invariants; requests that have met never become sequential again. *)
LEMMA StepEverything ==
  ASSUME RoomAssumption, Everything, [Next]_vars
  PROVE  Everything'
<1>1. CASE Next
  <2>1. Inv' /\ EventInv'
    BY <1>1, StepInv, StepEvents DEF Everything
  <2>2. SequentialInv'
    BY <1>1, HistoryGrows, StepAlone, StepBan DEF Everything, SequentialInv
  <2> QED BY <2>1, <2>2 DEF Everything
<1>2. CASE UNCHANGED vars
  <2> USE <1>2 DEF vars, roomVars, historyVars
  <2>1. Active' = Active
    BY DEF Active
  <2>2. \A p : EventOf(req[p])' = EventOf(req[p])
    BY DEF EventOf, Handler
  <2>3. Inv'
    <3>1. \A p : WellFormed(req[p])' <=> WellFormed(req[p])
      BY DEF WellFormed, EventOf, Handler
    <3> QED BY <2>1, <3>1 DEF Everything, Inv, TypeOK, ReqType, RequestInv
  <2>4. EventInv'
    BY <2>2 DEF Everything, EventInv, RowsHaveEvents
  <2>5. SequentialInv'
    <3>1. \A u : (Mirrored(u)' <=> Mirrored(u)) /\ (Between(u)' <=> Between(u))
      BY <2>1 DEF Mirrored, Between
    <3>2. \A p : Checked(req[p])' <=> Checked(req[p])
      BY <2>2 DEF Checked, AtLeast, Outranks, MyLevel
    <3> QED BY <2>1, <2>2, <3>1, <3>2 DEF Everything, SequentialInv, AloneInv, BanInv
  <2> QED BY <2>3, <2>4, <2>5 DEF Everything
<1> QED BY <1>1, <1>2

LEMMA SpecEverything == Spec => []Everything
<1>1. RoomAssumption
  BY RoomAssumption
<1>2. Init => Everything
  BY <1>1, InitEverything
<1>3. Everything /\ [Next]_vars => Everything'
  BY <1>1, StepEverything
<1> QED BY <1>2, <1>3, PTL DEF Spec

(* Every variable keeps its type (rooms.ts, the tables of the room). *)
THEOREM TypeCorrect == Spec => []TypeOK
<1>1. Everything => TypeOK
  BY DEF Everything, Inv
<1> QED BY <1>1, SpecEverything, PTL

(* A membership row points to a stored event that says what it says, in every interleaving
   and whichever worker stops; after requests that did not overlap it is the row of the
   current state (storeEvent before updateMembership in api/rooms.ts). *)
THEOREM RowsAreSound == Spec => []RowsSound
<1>1. Everything => RowsHaveEvents
  BY DEF Everything, EventInv
<1>2. Everything => RowsMirrorState
  <2> SUFFICES ASSUME Everything, ~overlap, Active = {}, NEW u \in Users
               PROVE  \/ row[u] = [membership |-> st.member[u], event |-> stEvent[u]]
                      \/ row[u] = NoRow /\ st.member[u] # "join"
    BY DEF RowsMirrorState
  <2>1. ~Between(u)
    BY DEF Between
  <2> QED BY <2>1 DEF Everything, SequentialInv, AloneInv, Mirrored
<1>3. Everything => RowsSound
  BY <1>1, <1>2 DEF RowsSound
<1> QED BY <1>3, SpecEverything, PTL

(* A banned user does not get back in before the ban is lifted, when requests do not overlap
   and the user did not forget the room (the ban checks of join and knock in api/rooms.ts). *)
THEOREM BansAreKept == Spec => []BansHold
<1>1. Everything => BansHold
  BY DEF Everything, SequentialInv, BanInv, BansHold
<1> QED BY <1>1, SpecEverything, PTL

(* In a room whose version supports knocking, requests that do not overlap store only events
   checkEventAuth allows, but for a forgotten ban and an invite of a banned user: the checks of
   the endpoints in api/rooms.ts imply those of services/event-auth.ts. *)
THEOREM HandlersAreStrict ==
  ASSUME KnockingSupported
  PROVE  Spec => []HandlersAuthorize
<1>1. AuthAssumption /\ RoomAssumption
  BY AuthAssumption, RoomAssumption
<1>2. Init => StrayInv
  BY <1>1, InitEverything
<1>3. Everything /\ StrayInv /\ [Next]_vars => StrayInv'
  <2> SUFFICES ASSUME Everything, StrayInv, [Next]_vars PROVE StrayInv'
    OBVIOUS
  <2>1. CASE Next
    BY <1>1, <2>1, StepStray DEF Everything
  <2>2. CASE UNCHANGED vars
    BY <2>2 DEF vars, roomVars, historyVars, StrayInv, HandlersAuthorize
  <2> QED BY <2>1, <2>2
<1>4. StrayInv => HandlersAuthorize
  BY DEF StrayInv
<1> QED BY <1>2, <1>3, <1>4, SpecEverything, PTL DEF Spec
=============================================================================
