--------------------------- MODULE FederationQueue ---------------------------
(***************************************************************************)
(* The outbound queue of FederationDurableObject: one object for every     *)
(* remote server, holding the events and EDUs still to be sent to it.      *)
(*                                                                         *)
(* A call of processFederationQueue (a run) lists everything queued, sends *)
(* it in one transaction and removes it when the answer is ok.  Storage    *)
(* operations keep the object's input gate closed, so the code before the  *)
(* fetch is one step, and so is the code after it; the fetch itself lets   *)
(* other requests and runs in.  A crash may cut the code after the fetch   *)
(* between any two of its storage operations.                              *)
(*                                                                         *)
(* The retry counter only chooses how far ahead nextRetry lies, and time   *)
(* is abstract here, so it is left out.                                    *)
(***************************************************************************)
EXTENDS Naturals, FiniteSets

CONSTANTS
  Pdus,         \* events given to /send
  Edus,         \* EDUs given to /send-edu
  Runs,         \* slots for runs in progress; bounds how many overlap
  MaxCrashes,   \* bound: restarts of the object
  MaxReceives   \* bound: /receive requests of the remote server

ASSUME ConstantsAssumption ==
  /\ Pdus \cap Edus = {}
  /\ MaxCrashes \in Nat
  /\ MaxReceives \in Nat

Items == Pdus \cup Edus

VARIABLES
  queued,      \* items under queue:<destination>: and edu:<destination>:
  nextRetry,   \* of server:<destination>: null, still ahead, or due
  alarm,       \* the object's alarm: none, set for nextRetry, or for some earlier time
  run,         \* every run's phase, transaction, and whether an alarm started it
  received,    \* items the remote server has received
  confirmed,   \* items of a transaction that was answered ok (history)
  failed,      \* items whose latest finished run failed (history)
  disturbed,   \* runs overlapped, the object restarted, or /receive came in (history)
  crashes, receives  \* bounded counters

serverVars == <<nextRetry, alarm>>
historyVars == <<confirmed, failed, disturbed>>
vars == <<queued, serverVars, run, received, historyVars, crashes, receives>>

-----------------------------------------------------------------------------
NoRun == [phase |-> "idle", items |-> {}, byAlarm |-> FALSE, arrived |-> FALSE]

(* Runs that wait for the answer to their fetch. *)
Active == {r \in Runs : run[r].phase = "sent"}

(* processFederationQueue up to its fetch, when anything is listed. *)
StartRun(r, items, byAlarm) ==
  /\ run[r].phase = "idle"
  /\ run' = [run EXCEPT ![r] =
               [phase |-> "sent", items |-> items, byAlarm |-> byAlarm, arrived |-> FALSE]]
  /\ disturbed' = (disturbed \/ Active # {})

(* A new nextRetry, or none, leaves an alarm set for the old one behind it. *)
AlarmFallsBehind == alarm' = IF alarm = "retry" THEN "earlier" ELSE alarm

(* POST /send and /send-edu: store the item, then send all that is queued. *)
Send(i, r) ==
  /\ i \notin queued \cup received
  /\ queued' = queued \cup {i}
  /\ StartRun(r, queued \cup {i}, FALSE)
  /\ UNCHANGED <<serverVars, received, confirmed, failed, crashes, receives>>

(* Faulty variant: the comparison of nextRetry with the clock is turned round. *)
AlarmBeforeDue(r) ==
  /\ alarm # "none" /\ (alarm = "retry" => nextRetry = "due")
  /\ ~ \E q \in Active : run[q].byAlarm
  /\ alarm' = "none"
  /\ IF nextRetry = "ahead" /\ queued # {}
       THEN StartRun(r, queued, TRUE)
       ELSE UNCHANGED <<run, disturbed>>
  /\ UNCHANGED <<queued, nextRetry, received, confirmed, failed, crashes, receives>>

(* alarm(): a run when the server's nextRetry is due and anything is queued. *)
AlarmFires(r) ==
  /\ alarm # "none" /\ (alarm = "retry" => nextRetry = "due")
  /\ ~ \E q \in Active : run[q].byAlarm
  /\ alarm' = "none"
  /\ IF nextRetry = "due" /\ queued # {}
       THEN StartRun(r, queued, TRUE)
       ELSE UNCHANGED <<run, disturbed>>
  /\ UNCHANGED <<queued, nextRetry, received, confirmed, failed, crashes, receives>>

(* The clock reaches nextRetry. *)
RetryFallsDue ==
  /\ nextRetry = "ahead"
  /\ nextRetry' = "due"
  /\ UNCHANGED <<queued, alarm, run, received, historyVars, crashes, receives>>

(* The remote server receives a run's transaction, even one whose sender has
   given up on it. *)
Arrive(r) ==
  /\ run[r].phase # "idle" /\ ~ run[r].arrived
  /\ run' = [run EXCEPT ![r].arrived = TRUE]
  /\ received' = received \cup run[r].items
  /\ UNCHANGED <<queued, serverVars, historyVars, crashes, receives>>

(* Faulty variant: everything queued is removed, not what the run listed. *)
RunSucceedsClearing(r) ==
  /\ run[r].phase = "sent" /\ run[r].arrived
  /\ queued' = {}
  /\ confirmed' = confirmed \cup run[r].items
  /\ failed' = failed \ run[r].items
  /\ nextRetry' = "none" /\ AlarmFallsBehind
  /\ run' = [run EXCEPT ![r] = NoRun]
  /\ UNCHANGED <<received, disturbed, crashes, receives>>

(* response.ok: what the run listed is removed and the retry cancelled. *)
RunSucceeds(r) ==
  /\ run[r].phase = "sent" /\ run[r].arrived
  /\ queued' = queued \ run[r].items
  /\ confirmed' = confirmed \cup run[r].items
  /\ failed' = failed \ run[r].items
  /\ nextRetry' = "none" /\ AlarmFallsBehind
  /\ run' = [run EXCEPT ![r] = NoRun]
  /\ UNCHANGED <<received, disturbed, crashes, receives>>

(* A run nobody waits for any more: its transaction may still arrive. *)
Orphan(q) == IF q.phase = "sent" /\ ~ q.arrived THEN [q EXCEPT !.phase = "orphan"]
             ELSE IF q.phase = "sent" THEN NoRun ELSE q

(* Faulty variant: scheduleRetry stores the EDUs of the run again too. *)
RunFailsRestoring(r) ==
  /\ run[r].phase = "sent"
  /\ queued' = queued \cup run[r].items
  /\ failed' = failed \cup run[r].items
  /\ nextRetry' = "ahead" /\ alarm' = "retry"
  /\ run' = [run EXCEPT ![r] = Orphan(@)]
  /\ UNCHANGED <<received, confirmed, disturbed, crashes, receives>>

(* Faulty variant: the backoff grows without its maximum, to a time that never comes. *)
RunFailsUncapped(r) ==
  /\ run[r].phase = "sent"
  /\ queued' = queued \cup (run[r].items \cap Pdus)
  /\ failed' = failed \cup run[r].items
  /\ nextRetry' = "never" /\ alarm' = "retry"
  /\ run' = [run EXCEPT ![r] = Orphan(@)]
  /\ UNCHANGED <<received, confirmed, disturbed, crashes, receives>>

(* Another answer, or none: scheduleRetry moves nextRetry and the alarm ahead
   and stores the run's events again, also those removed in the meantime. *)
RunFails(r) ==
  /\ run[r].phase = "sent"
  /\ queued' = queued \cup (run[r].items \cap Pdus)
  /\ failed' = failed \cup run[r].items
  /\ nextRetry' = "ahead" /\ alarm' = "retry"
  /\ run' = [run EXCEPT ![r] = Orphan(@)]
  /\ UNCHANGED <<received, confirmed, disturbed, crashes, receives>>

(* An orphaned transaction has arrived or been lost. *)
OrphanEnds(r) ==
  /\ run[r].phase = "orphan"
  /\ run' = [run EXCEPT ![r] = NoRun]
  /\ UNCHANGED <<queued, serverVars, received, historyVars, crashes, receives>>

-----------------------------------------------------------------------------
(* Restarts *)

(* Every run is gone; an alarm whose handler had not returned fires again. *)
Restart ==
  /\ crashes < MaxCrashes
  /\ crashes' = crashes + 1
  /\ disturbed' = TRUE
  /\ run' = [r \in Runs |-> Orphan(run[r])]
  /\ UNCHANGED <<received, receives>>

AlarmAgain ==
  IF alarm = "none" /\ \E r \in Active : run[r].byAlarm THEN "earlier" ELSE alarm

Crash ==
  /\ Restart
  /\ alarm' = AlarmAgain
  /\ UNCHANGED <<queued, nextRetry, confirmed, failed>>

(* The crash cuts the removals of a successful run: events go first. *)
CrashInSuccess(r) ==
  /\ run[r].phase = "sent" /\ run[r].arrived
  /\ Restart
  /\ \E gone \in SUBSET run[r].items :
       /\ gone \cap Edus # {} => run[r].items \cap Pdus \subseteq gone
       /\ queued' = queued \ gone
       /\ confirmed' = confirmed \cup gone
       /\ failed' = failed \ gone
  /\ alarm' = AlarmAgain
  /\ UNCHANGED nextRetry

(* The crash cuts scheduleRetry after the server record: no alarm is set. *)
CrashInRetry(r) ==
  /\ run[r].phase = "sent"
  /\ Restart
  /\ \E back \in SUBSET (run[r].items \cap Pdus) : queued' = queued \cup back
  /\ failed' = failed \cup run[r].items
  /\ nextRetry' = "ahead"
  /\ alarm' = IF AlarmAgain = "retry" THEN "earlier" ELSE AlarmAgain
  /\ UNCHANGED confirmed

(* POST /receive of the remote server: its record is reset. *)
Receive ==
  /\ receives < MaxReceives
  /\ receives' = receives + 1
  /\ disturbed' = TRUE
  /\ nextRetry' = "none" /\ AlarmFallsBehind
  /\ UNCHANGED <<queued, run, received, confirmed, failed, crashes>>

-----------------------------------------------------------------------------
Init ==
  /\ queued = {}
  /\ nextRetry = "none" /\ alarm = "none"
  /\ run = [r \in Runs |-> NoRun]
  /\ received = {} /\ confirmed = {} /\ failed = {}
  /\ disturbed = FALSE
  /\ crashes = 0 /\ receives = 0

RunStep(r) ==
  \/ \E i \in Items : Send(i, r)
  \/ AlarmFires(r)
  \/ Arrive(r)
  \/ RunSucceeds(r)
  \/ RunFails(r)
  \/ OrphanEnds(r)
  \/ CrashInSuccess(r)
  \/ CrashInRetry(r)

Next ==
  \/ \E r \in Runs : RunStep(r)
  \/ RetryFallsDue
  \/ Crash
  \/ Receive

(* Time passes and due alarms fire; every fetch ends; and a remote server that
   is contacted again and again answers ok at some point. *)
Fairness ==
  /\ WF_vars(RetryFallsDue)
  /\ SF_vars(\E r \in Runs : AlarmFires(r))
  /\ \A r \in Runs : WF_vars(RunSucceeds(r) \/ RunFails(r))
  /\ \A r \in Runs : WF_vars(OrphanEnds(r))
  /\ \A r \in Runs : SF_vars(Arrive(r)) /\ SF_vars(RunSucceeds(r))

Spec == Init /\ [][Next]_vars
FairSpec == Spec /\ Fairness

-----------------------------------------------------------------------------
(* Properties *)

(* Every variable holds a value of its type. *)
TypeOK ==
  /\ queued \subseteq Items
  /\ nextRetry \in {"none", "ahead", "due"}
  /\ alarm \in {"none", "retry", "earlier"}
  /\ run \in [Runs -> [phase : {"idle", "sent", "orphan"}, items : SUBSET Items,
                       byAlarm : BOOLEAN, arrived : BOOLEAN]]
  /\ received \subseteq Items
  /\ confirmed \subseteq Items
  /\ failed \subseteq Items
  /\ disturbed \in BOOLEAN
  /\ crashes \in Nat /\ receives \in Nat

(* Overlapping runs, lost answers and restarts in the middle of removals or of
   scheduleRetry never drop an item unsent: the queue implements the abstract
   one, from which only received items leave. *)
Abstract == INSTANCE OutboundQueue WITH pending <- queued
AtLeastOnce == Abstract!Spec

(* An EDU that a confirmed transaction removed is not queued again: it is not
   sent once more by a run that starts later, whatever older runs do. *)
EdusNotRequeued == [][(queued' \ queued) \cap confirmed \cap Edus = {}]_vars

(* The alarm serves the retry of a queue that is sent from one run at a time:
   an item whose run failed and that is still queued has its retry ahead and an
   alarm for it, or a run in progress. *)
RetryArmed ==
  (failed \cap queued # {} /\ ~ disturbed)
    => Active # {} \/ (nextRetry # "none" /\ alarm = "retry")

(* Everything queued is received in the end, as long as runs do not overlap and
   the object is not restarted. *)
EventuallyReceived == \A i \in Items : (i \in queued) ~> (i \in received \/ disturbed)
=============================================================================
