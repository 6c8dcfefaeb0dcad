---------------------------- MODULE PushDelivery ----------------------------
(***************************************************************************)
(* Push notifications for one message: PUT send creates a                  *)
(* PushNotificationWorkflow (and forgets it), which reads the members and  *)
(* notifies them in batches; a batch is one step of the workflow, which    *)
(* the engine repeats when it runs out of time or its result is lost.      *)
(* Meanwhile the members set and remove pushers (api/push.ts), with a      *)
(* DELETE and an INSERT that nothing holds together.                       *)
(***************************************************************************)
EXTENDS Naturals, FiniteSets, Sequences

CONSTANTS
  Members,     \* the members of the room but for the sender, in the order of the SELECT
  Keys, Apps,  \* pushkeys and app ids
  BatchSize,   \* 50 in the code
  Retries,     \* how often a batch is repeated (2)
  Setters,     \* requests that set pushers or mute
  MaxErrors    \* bound: failed D1 statements and lost attempts

Users == {Members[i] : i \in DOMAIN Members}
Pushers == Users \X Keys \X Apps

VARIABLES
  at,        \* where the workflow is
  from,      \* the first member of the current batch
  work,      \* how far each member's notification is in this attempt
  todo,      \* pushers it still sends to
  attempts,  \* attempts of every member's batch
  pushers,   \* the rows of pushers
  muted,     \* users with the master rule on
  posts,     \* notifications posted to the gateway, by pusher
  history,   \* rows of notification_queue, by user
  setter,
  errors,
  steady,    \* pushers that have been there, unmuted, since the workflow began (history)
  broken,    \* users with a failed INSERT into the history (history)
  silent,    \* users whose SELECTs failed in the last attempt of their batch (history)
  loose      \* keys set with append or by two requests at a time (history)

deliveryVars == <<at, from, work, todo, attempts, pushers, muted, posts, history, setter, errors, steady,
                  broken, silent, loose>>

Batch == {Members[i] : i \in {j \in DOMAIN Members : from <= j /\ j < from + BatchSize}}
OfUser(u) == {p \in pushers : p[1] = u}
Fresh == [u \in Users |-> "rules"]
NoSetter == [step |-> "none", pusher |-> <<>>, append |-> FALSE]
Fails == errors < MaxErrors /\ errors' = errors + 1

-----------------------------------------------------------------------------
(* PUT send: the workflow is created without waiting for it; a failure is logged. *)
CreateWorkflow ==
  /\ at = "none"
  /\ \/ at' = "members" /\ UNCHANGED errors
     \/ at' = "lost" /\ Fails
  /\ steady' = {p \in pushers : p[1] \notin muted}
  /\ UNCHANGED <<from, work, todo, attempts, pushers, muted, posts, history, setter, broken, silent, loose>>

(* get-members and get-room-context; without members the workflow is done. *)
GetMembers ==
  /\ at = "members"
  /\ at' = IF Members = <<>> THEN "done" ELSE "batch"
  /\ attempts' = [u \in Users |-> IF u \in Batch THEN 1 ELSE 0]
  /\ UNCHANGED <<from, work, todo, pushers, muted, posts, history, setter, errors, steady, broken, silent, loose>>

(* evaluatePushRules: the master rule; the event is a message, which nothing else silences. *)
EvaluatePushRules(u) ==
  /\ at = "batch" /\ u \in Batch /\ work[u] = "rules"
  /\ work' = [work EXCEPT ![u] = IF u \in muted THEN "end" ELSE "unread"]
  /\ UNCHANGED <<at, from, todo, attempts, pushers, muted, posts, history, setter, errors, steady, broken, silent, loose>>

(* getUnreadCount: a number for the notification. *)
GetUnreadCount(u) ==
  /\ at = "batch" /\ u \in Batch /\ work[u] = "unread"
  /\ work' = [work EXCEPT ![u] = "pushers"]
  /\ UNCHANGED <<at, from, todo, attempts, pushers, muted, posts, history, setter, errors, steady, broken, silent, loose>>

(* getUserPushers *)
GetUserPushers(u) ==
  /\ at = "batch" /\ u \in Batch /\ work[u] = "pushers"
  /\ work' = [work EXCEPT ![u] = IF OfUser(u) = {} THEN "end" ELSE "send"]
  /\ todo' = [todo EXCEPT ![u] = OfUser(u)]
  /\ UNCHANGED <<at, from, attempts, pushers, muted, posts, history, setter, errors, steady, broken, silent, loose>>

(* One of these three SELECTs fails: that is the member's result, and fails nothing else. *)
FailMember(u) ==
  /\ at = "batch" /\ u \in Batch /\ work[u] \in {"rules", "unread", "pushers"} /\ Fails
  /\ work' = [work EXCEPT ![u] = "end"]
  /\ silent' = silent \cup {u}
  /\ UNCHANGED <<at, from, todo, attempts, pushers, muted, posts, history, setter, steady, broken, loose>>

(* Faulty variant: a pusher that fails ends the member's notification. *)
SendToPusherOrStop(u, p) ==
  /\ at = "batch" /\ work[u] = "send" /\ p \in todo[u]
  /\ posts' = [posts EXCEPT ![p] = @ + 1]
  /\ \/ todo' = [todo EXCEPT ![u] = @ \ {p}] /\ work' = work
     \/ todo' = [todo EXCEPT ![u] = {}] /\ work' = [work EXCEPT ![u] = "end"]
  /\ UNCHANGED <<at, from, attempts, pushers, muted, history, setter, errors, steady, broken, silent, loose>>

(* sendToPusher: whatever the gateway answers, and also when the UPDATE of the pusher's row
   fails, the loop goes on with the next one. *)
SendToPusher(u, p) ==
  /\ at = "batch" /\ work[u] = "send" /\ p \in todo[u]
  /\ posts' = [posts EXCEPT ![p] = @ + 1]
  /\ todo' = [todo EXCEPT ![u] = @ \ {p}]
  /\ UNCHANGED <<at, from, work, attempts, pushers, muted, history, setter, errors, steady, broken, silent, loose>>

(* queueNotification; a failure is the member's result and fails nothing else. *)
QueueNotification(u) ==
  /\ at = "batch" /\ work[u] = "send" /\ todo[u] = {}
  /\ work' = [work EXCEPT ![u] = "end"]
  /\ \/ history' = [history EXCEPT ![u] = @ + 1] /\ UNCHANGED <<errors, broken>>
     \/ Fails /\ broken' = broken \cup {u} /\ UNCHANGED history
  /\ UNCHANGED <<at, from, todo, attempts, pushers, muted, posts, setter, steady, silent, loose>>

(* Faulty variant: the next batch begins one member further. *)
EndBatchFurther ==
  /\ at = "batch" /\ (\A u \in Batch : work[u] = "end")
  /\ IF from + BatchSize > Len(Members) THEN at' = "done" /\ UNCHANGED <<from, attempts>>
     ELSE /\ from' = from + BatchSize + 1
          /\ attempts' = [u \in Users |-> IF u \in Batch' THEN 1 ELSE attempts[u]]
          /\ UNCHANGED at
  /\ UNCHANGED <<work, todo, pushers, muted, posts, history, setter, errors, steady, broken, silent, loose>>

(* The batch's result is recorded: the next batch, or the end. *)
EndBatch ==
  /\ at = "batch" /\ (\A u \in Batch : work[u] = "end")
  /\ IF from + BatchSize > Len(Members) THEN at' = "done" /\ UNCHANGED <<from, attempts>>
     ELSE /\ from' = from + BatchSize
          /\ attempts' = [u \in Users |-> IF u \in Batch' THEN 1 ELSE attempts[u]]
          /\ UNCHANGED at
  /\ UNCHANGED <<work, todo, pushers, muted, posts, history, setter, errors, steady, broken, silent, loose>>

(* Faulty variant: the batches that were done begin anew, too. *)
LoseAttemptFromStart ==
  /\ at = "batch" /\ Fails
  /\ work' = Fresh /\ todo' = [u \in Users |-> {}] /\ from' = 1
  /\ UNCHANGED <<at, attempts, pushers, muted, posts, history, setter, steady, broken, silent, loose>>

(* The attempt runs out of time, or ends without its result being recorded: the batch begins anew,
   and in the end the workflow answers that it failed. *)
LoseAttempt ==
  /\ at = "batch" /\ Fails
  /\ IF \A u \in Batch : attempts[u] <= Retries
     THEN /\ work' = [u \in Users |-> IF u \in Batch THEN "rules" ELSE work[u]]
          /\ todo' = [u \in Users |-> IF u \in Batch THEN {} ELSE todo[u]]
          /\ attempts' = [u \in Users |-> IF u \in Batch THEN attempts[u] + 1 ELSE attempts[u]]
          /\ silent' = silent \ Batch
          /\ UNCHANGED at
     ELSE at' = "failed" /\ UNCHANGED <<work, todo, attempts, silent>>
  /\ UNCHANGED <<from, pushers, muted, posts, history, setter, steady, broken, loose>>

-----------------------------------------------------------------------------
(* POST pushers/set: without "append" the rows with the same pushkey are deleted first ... *)
OpenSetter(s, p, append) ==
  /\ setter[s].step = "none"
  /\ setter' = [setter EXCEPT ![s] = [step |-> IF append THEN "insert" ELSE "delete", pusher |-> p, append |-> append]]
  /\ loose' = IF append \/ \E t \in Setters \ {s} : /\ setter[t].step \in {"delete", "insert"}
                                                    /\ setter[t].pusher[1] = p[1] /\ setter[t].pusher[2] = p[2]
              THEN loose \cup {<<p[1], p[2]>>} ELSE loose
  /\ UNCHANGED <<at, from, work, todo, attempts, pushers, muted, posts, history, errors, steady, broken, silent>>

(* Faulty variant: only the row of the same app is deleted. *)
DeleteOldSameApp(s) ==
  /\ setter[s].step = "delete"
  /\ pushers' = pushers \ {setter[s].pusher}
  /\ steady' = steady \cap pushers'
  /\ setter' = [setter EXCEPT ![s].step = "insert"]
  /\ UNCHANGED <<at, from, work, todo, attempts, muted, posts, history, errors, broken, silent, loose>>

DeleteOld(s) ==
  LET new == setter[s].pusher IN
  /\ setter[s].step = "delete"
  /\ pushers' = {p \in pushers : p[1] # new[1] \/ p[2] # new[2]}
  /\ steady' = steady \cap pushers'
  /\ setter' = [setter EXCEPT ![s].step = "insert"]
  /\ UNCHANGED <<at, from, work, todo, attempts, muted, posts, history, errors, broken, silent, loose>>

(* ... and the new row is inserted, or the same one updated. *)
InsertPusher(s) ==
  /\ setter[s].step = "insert"
  /\ pushers' = pushers \cup {setter[s].pusher}
  /\ setter' = [setter EXCEPT ![s] = [NoSetter EXCEPT !.step = "done"]]
  /\ UNCHANGED <<at, from, work, todo, attempts, muted, posts, history, errors, steady, broken, silent, loose>>

(* kind null. *)
RemovePusher(s, p) ==
  /\ setter[s].step = "none"
  /\ pushers' = pushers \ {p}
  /\ steady' = steady \ {p}
  /\ setter' = [setter EXCEPT ![s].step = "done"]
  /\ UNCHANGED <<at, from, work, todo, attempts, muted, posts, history, errors, broken, silent, loose>>

(* PUT pushrules/.../.m.rule.master/enabled *)
Mute(s, u) ==
  /\ setter[s].step = "none"
  /\ setter' = [setter EXCEPT ![s].step = "done"]
  /\ muted' = muted \cup {u}
  /\ steady' = {p \in steady : p[1] # u}
  /\ UNCHANGED <<at, from, work, todo, attempts, pushers, posts, history, errors, broken, silent, loose>>

DeliveryInit ==
  /\ at = "none" /\ from = 1
  /\ work = Fresh /\ todo = [u \in Users |-> {}]
  /\ attempts = [u \in Users |-> 0]
  /\ pushers \in {{p \in Pushers : p[3] = a} : a \in Apps}
  /\ muted = {}
  /\ posts = [p \in Pushers |-> 0]
  /\ history = [u \in Users |-> 0]
  /\ setter = [s \in Setters |-> NoSetter]
  /\ errors = 0 /\ steady = {} /\ broken = {} /\ silent = {} /\ loose = {}

DeliveryNext ==
  \/ CreateWorkflow \/ GetMembers \/ EndBatch \/ LoseAttempt
  \/ \E u \in Users :
       \/ EvaluatePushRules(u) \/ GetUnreadCount(u) \/ GetUserPushers(u) \/ FailMember(u)
       \/ QueueNotification(u) \/ \E s \in Setters : Mute(s, u)
       \/ \E p \in Pushers : SendToPusher(u, p)
  \/ \E s \in Setters :
       \/ \E p \in Pushers : RemovePusher(s, p) \/ \E append \in BOOLEAN : OpenSetter(s, p, append)
       \/ DeleteOld(s) \/ InsertPusher(s)

DeliverySpec == DeliveryInit /\ [][DeliveryNext]_deliveryVars

-----------------------------------------------------------------------------
(* Properties *)

(* When the workflow is done no pusher has been left out: every one that was there the whole time, and
   whose user did not mute, had the notification, and its user has a row in the history unless that
   INSERT failed; but a user for whom a SELECT failed, when its batch was tried last, may have neither.
   A failing gateway or pusher does not keep it from the others, nor a failing member. *)
NoneSkipped ==
  at = "done" => \A p \in steady :
    \/ p[1] \in silent
    \/ posts[p] > 0 /\ (history[p[1]] > 0 \/ p[1] \in broken)

(* A device gets the same notification again only when the batch of its user was repeated;
   so do the rows of the history. *)
DuplicatesExplained ==
  /\ \A p \in Pushers : posts[p] <= attempts[p[1]]
  /\ \A u \in Users : history[u] <= attempts[u]

(* One pusher for a pushkey, unless a request asked to append or two overlapped. *)
OnePusherPerKey ==
  \A p, q \in pushers :
    p[1] = q[1] /\ p[2] = q[2] /\ p # q => <<p[1], p[2]>> \in loose

(* Every pusher has the notification, none has it twice without a reason, and there is one for a pushkey. *)
DeliverySound == NoneSkipped /\ DuplicatesExplained /\ OnePusherPerKey
=============================================================================
