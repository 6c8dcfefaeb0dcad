------------------------------ MODULE RoomJoin ------------------------------
(***************************************************************************)
(* Joining a room of another server: POST rooms/{roomId}/join (api/        *)
(* rooms.ts) starts a RoomJoinWorkflow, whose steps the workflow engine    *)
(* records and repeats: make_join, create the event, send_join, store it   *)
(* here, notify the members.  A step whose result was not recorded runs    *)
(* again, also when it had its effect.                                     *)
(*                                                                         *)
(* Every user has one workflow; all join the same room.                    *)
(***************************************************************************)
EXTENDS Naturals

CONSTANTS
  Joiners,
  DefaultRetries, \* how often the engine repeats a step without a limit of its own
  MaxErrors    \* bound: calls that fail and results that are not recorded

VARIABLES
  at,        \* the step a workflow is at, or how it ended
  tries,     \* failed attempts of that step
  resident,  \* users the room's own server let join
  roomRow,   \* the rooms table has the room
  member,    \* users with a member event and a row in room_memberships here
  told,      \* what the client was answered
  notified,  \* workflows that told the members' sync objects
  errors

joinVars == <<at, tries, resident, roomRow, member, told, notified, errors>>

Ended == {"complete", "failed"}
Steps == {"make-join", "create-event", "send-join", "persist", "get-members", "notify"}
Following == [s \in Steps |->
  CASE s = "make-join" -> "create-event" [] s = "create-event" -> "send-join"
    [] s = "send-join" -> "persist" [] s = "persist" -> "get-members"
    [] s = "get-members" -> "notify" [] s = "notify" -> "complete"]

(* The requests to the other server name their limit. *)
RetriesOf == [s \in Steps |-> IF s \in {"make-join", "send-join"} THEN 3 ELSE DefaultRetries]

(* The step's result is recorded and the workflow goes on. *)
Done(u) ==
  /\ at' = [at EXCEPT ![u] = Following[@]]
  /\ tries' = [tries EXCEPT ![u] = 0]

(* An exception: the engine repeats the step, and in the end run() catches it. *)
Thrown(u) ==
  IF tries[u] < RetriesOf[at[u]]
  THEN tries' = [tries EXCEPT ![u] = @ + 1] /\ UNCHANGED at
  ELSE at' = [at EXCEPT ![u] = "failed"] /\ tries' = [tries EXCEPT ![u] = 0]

(* The handler: a room that is not known here is joined by a workflow. *)
StartJoin(u) ==
  /\ at[u] = "none" /\ ~roomRow
  /\ at' = [at EXCEPT ![u] = "make-join"]
  /\ UNCHANGED <<tries, resident, roomRow, member, told, notified, errors>>

(* instance.status(): a workflow that is still running is answered as success. *)
AnswerClient(u) ==
  /\ at[u] # "none" /\ told[u] = "none"
  /\ told' = [told EXCEPT ![u] = IF at[u] = "failed" THEN "error" ELSE "ok"]
  /\ UNCHANGED <<at, tries, resident, roomRow, member, notified, errors>>

(* Steps that change nothing outside the workflow. *)
Read(u) ==
  /\ at[u] \in {"make-join", "create-event", "get-members"}
  /\ Done(u)
  /\ UNCHANGED <<resident, roomRow, member, told, notified, errors>>

(* sendJoinRequest: the other server accepts the join. *)
SendToResident(u) ==
  /\ at[u] = "send-join"
  /\ resident' = resident \cup {u}
  /\ Done(u)
  /\ UNCHANGED <<roomRow, member, told, notified, errors>>

(* storeEvent and updateMembership: the INSERT INTO events needs the room's row, which
   no statement of this path writes. *)
Persist(u) ==
  /\ at[u] = "persist"
  /\ IF roomRow THEN member' = member \cup {u} /\ Done(u)
     ELSE Thrown(u) /\ UNCHANGED member
  /\ UNCHANGED <<resident, roomRow, told, notified, errors>>

(* notifyMemberBatch catches what goes wrong. *)
Notify(u) ==
  /\ at[u] = "notify"
  /\ notified' = notified \cup {u}
  /\ Done(u)
  /\ UNCHANGED <<resident, roomRow, member, told, errors>>

(* A call fails, or its answer is lost: the other server may have let the user in. *)
StepFails(u) ==
  /\ at[u] \in Steps /\ errors < MaxErrors
  /\ errors' = errors + 1
  /\ \/ UNCHANGED resident
     \/ at[u] = "send-join" /\ resident' = resident \cup {u}
  /\ Thrown(u)
  /\ UNCHANGED <<roomRow, member, told, notified>>

-----------------------------------------------------------------------------
JoinInit ==
  /\ at = [u \in Joiners |-> "none"]
  /\ tries = [u \in Joiners |-> 0]
  /\ resident = {} /\ roomRow = FALSE /\ member = {}
  /\ told = [u \in Joiners |-> "none"]
  /\ notified = {} /\ errors = 0

Advance(u) == Read(u) \/ SendToResident(u) \/ Persist(u) \/ Notify(u)

JoinNext == \E u \in Joiners : StartJoin(u) \/ AnswerClient(u) \/ Advance(u) \/ StepFails(u)

(* The engine goes on with every workflow it holds. *)
JoinSpec == JoinInit /\ [][JoinNext]_joinVars /\ WF_joinVars(\E u \in Joiners : Advance(u))

-----------------------------------------------------------------------------
(* A user who was told that the join is in progress, and whom the other server has let in, is in the
   end a member here (rooms.ts:413: the room appears in sync when the join is complete). *)
JoinAppears ==
  \A u \in Joiners : (told[u] = "ok" /\ u \in resident) ~> u \in member
=============================================================================
