------------------------ MODULE FederationQueueProofs ------------------------
(***************************************************************************)
(* FederationQueue for any items, any number of overlapping runs, restarts *)
(* and /receive requests: it implements OutboundQueue, removed EDUs stay   *)
(* removed, and a queue that is sent serially always has its retry armed.  *)
(*                                                                         *)
(* The argument.  A run lists items that are queued; an item leaves the    *)
(* queue only when it was received.  So what a run carries is at any time  *)
(* queued or received, which is all the refinement needs.  While only one  *)
(* run is active nothing is queued behind its back, so the success that    *)
(* cancels the retry also empties the queue.                               *)
(***************************************************************************)
EXTENDS FederationQueue, TLAPS

(* Runs carry what is queued or was received; what arrived was received. *)
RunInv ==
  /\ confirmed \subseteq received
  /\ \A r \in Runs :
       /\ run[r].items \subseteq queued \cup received
       /\ run[r].arrived => run[r].items \subseteq received

(* Without overlap, restarts and /receive there is one active run, and it
   carries everything that is queued. *)
SerialInv ==
  ~ disturbed =>
    /\ \A r, q \in Active : r = q
    /\ \A r \in Active : queued \subseteq run[r].items

Inv == TypeOK /\ RunInv /\ SerialInv /\ RetryArmed

LEMMA InitInv == ConstantsAssumption /\ Init => Inv
<1> SUFFICES ASSUME ConstantsAssumption, Init PROVE Inv
  OBVIOUS
<1> USE DEF Init, NoRun
<1>1. TypeOK
  BY DEF TypeOK
<1>2. RunInv /\ SerialInv /\ RetryArmed
  BY DEF RunInv, SerialInv, RetryArmed, Active
<1>3. QED
  BY <1>1, <1>2 DEF Inv

-----------------------------------------------------------------------------
(* The record a run becomes when nobody waits for it. *)
LEMMA OrphanFacts ==
  ASSUME TypeOK, NEW r \in Runs
  PROVE  /\ Orphan(run[r]) \in [phase : {"idle", "orphan"}, items : SUBSET Items,
                                byAlarm : BOOLEAN, arrived : BOOLEAN]
         /\ Orphan(run[r]).phase # "sent"
         /\ Orphan(run[r]).items \subseteq run[r].items
         /\ Orphan(run[r]).arrived => run[r].arrived
BY DEF TypeOK, Orphan, NoRun

LEMMA NextTypeOK == ConstantsAssumption /\ Inv /\ Next => TypeOK'
<1> SUFFICES ASSUME ConstantsAssumption, Inv, Next PROVE TypeOK'
  OBVIOUS
<1> USE DEF ConstantsAssumption, TypeOK, Items, NoRun
<1>0. TypeOK
  BY DEF Inv
<1>1. ASSUME NEW r \in Runs, NEW i \in Items, Send(i, r) PROVE TypeOK'
  BY <1>0, <1>1 DEF Send, StartRun, serverVars
<1>2. ASSUME NEW r \in Runs, AlarmFires(r) PROVE TypeOK'
  <2>1. CASE StartRun(r, queued, TRUE)
    BY <1>0, <1>2, <2>1 DEF AlarmFires, StartRun
  <2>2. CASE UNCHANGED <<run, disturbed>>
    BY <1>0, <1>2, <2>2 DEF AlarmFires
  <2>3. QED
    BY <1>2, <2>1, <2>2 DEF AlarmFires
<1>3. ASSUME NEW r \in Runs, Arrive(r) PROVE TypeOK'
  BY <1>0, <1>3 DEF Arrive, serverVars, historyVars
<1>4. ASSUME NEW r \in Runs, RunSucceeds(r) PROVE TypeOK'
  BY <1>0, <1>4 DEF RunSucceeds, AlarmFallsBehind
<1>5. ASSUME NEW r \in Runs, RunFails(r) PROVE TypeOK'
  BY <1>0, <1>5, OrphanFacts DEF RunFails
<1>6. ASSUME NEW r \in Runs, OrphanEnds(r) PROVE TypeOK'
  BY <1>0, <1>6 DEF OrphanEnds, serverVars, historyVars
<1>7. ASSUME NEW r \in Runs, CrashInSuccess(r) PROVE TypeOK'
  BY <1>0, <1>7, OrphanFacts DEF CrashInSuccess, Restart, AlarmAgain
<1>8. ASSUME NEW r \in Runs, CrashInRetry(r) PROVE TypeOK'
  BY <1>0, <1>8, OrphanFacts DEF CrashInRetry, Restart, AlarmAgain
<1>9. ASSUME Crash PROVE TypeOK'
  BY <1>0, <1>9, OrphanFacts DEF Crash, Restart, AlarmAgain
<1>10. ASSUME RetryFallsDue PROVE TypeOK'
  BY <1>0, <1>10 DEF RetryFallsDue, historyVars
<1>11. ASSUME Receive PROVE TypeOK'
  BY <1>0, <1>11 DEF Receive, AlarmFallsBehind
<1> HIDE DEF TypeOK
<1>12. QED
  BY <1>1, <1>2, <1>3, <1>4, <1>5, <1>6, <1>7, <1>8, <1>9, <1>10, <1>11 DEF Next, RunStep

(* What a step does to the queue: it takes in a new item, removes items that
   were received, or stores received ones again. *)
LEMMA QueueStep ==
  ASSUME ConstantsAssumption, Inv, Next
  PROVE  /\ received \subseteq received'
         /\ queued \ queued' \subseteq received
         /\ \/ queued' \ queued \subseteq received
            \/ \E i \in Items : i \notin queued \cup received /\ queued' = queued \cup {i}
                                /\ received' = received
<1> USE DEF Inv, TypeOK, RunInv
<1>1. CASE \E r \in Runs, i \in Items : Send(i, r)
  BY <1>1 DEF Send
<1>2. CASE \E r \in Runs : RunSucceeds(r) \/ RunFails(r)
  BY <1>2 DEF RunSucceeds, RunFails
<1>3. CASE \E r \in Runs : CrashInSuccess(r) \/ CrashInRetry(r)
  BY <1>3 DEF CrashInSuccess, CrashInRetry, Restart
<1>4. CASE \E r \in Runs : AlarmFires(r) \/ Arrive(r) \/ OrphanEnds(r)
  BY <1>4 DEF AlarmFires, Arrive, OrphanEnds
<1>5. CASE RetryFallsDue \/ Crash \/ Receive
  BY <1>5 DEF RetryFallsDue, Crash, Restart, Receive
<1>6. QED
  BY <1>1, <1>2, <1>3, <1>4, <1>5 DEF Next, RunStep

(* What a step does to one run: its transaction is what is queued now, or no
   more than it was. *)
LEMMA RunStepFacts ==
  ASSUME ConstantsAssumption, Inv, Next, NEW q \in Runs
  PROVE  \/ run'[q].items \subseteq queued' /\ ~ run'[q].arrived
         \/ /\ run'[q].items \subseteq run[q].items
            /\ run'[q].arrived => run[q].arrived \/ run[q].items \subseteq received'
<1> USE DEF Inv, TypeOK, RunInv
<1>1. CASE \E r \in Runs, i \in Items : Send(i, r)
  BY <1>1 DEF Send, StartRun
<1>2. CASE \E r \in Runs : AlarmFires(r)
  BY <1>2 DEF AlarmFires, StartRun
<1>3. CASE \E r \in Runs : Arrive(r)
  BY <1>3 DEF Arrive
<1>4. CASE \E r \in Runs : RunSucceeds(r) \/ OrphanEnds(r)
  BY <1>4 DEF RunSucceeds, OrphanEnds, NoRun
<1>5. CASE \E r \in Runs : RunFails(r)
  BY <1>5, OrphanFacts DEF RunFails
<1>6. CASE Crash \/ \E r \in Runs : CrashInSuccess(r) \/ CrashInRetry(r)
  BY <1>6, OrphanFacts DEF Crash, CrashInSuccess, CrashInRetry, Restart
<1>7. CASE RetryFallsDue \/ Receive
  BY <1>7 DEF RetryFallsDue, Receive
<1>8. QED
  BY <1>1, <1>2, <1>3, <1>4, <1>5, <1>6, <1>7 DEF Next, RunStep

LEMMA NextRunInv == ConstantsAssumption /\ Inv /\ Next => RunInv'
<1> SUFFICES ASSUME ConstantsAssumption, Inv, Next PROVE RunInv'
  OBVIOUS
<1>1. confirmed' \subseteq received'
  <2> USE DEF Inv, TypeOK, RunInv
  <2>1. CASE \E r \in Runs : RunSucceeds(r) \/ CrashInSuccess(r)
    BY <2>1 DEF RunSucceeds, CrashInSuccess, Restart
  <2>2. CASE ~ \E r \in Runs : RunSucceeds(r) \/ CrashInSuccess(r)
    <3>1. confirmed' = confirmed
      BY <2>2 DEF Next, RunStep, Send, AlarmFires, Arrive, RunFails, OrphanEnds, CrashInRetry,
                  RetryFallsDue, Crash, Receive, historyVars
    <3>2. QED
      BY <3>1, QueueStep
  <2>3. QED
    BY <2>1, <2>2
<1>2. ASSUME NEW q \in Runs
      PROVE  /\ run'[q].items \subseteq queued' \cup received'
             /\ run'[q].arrived => run'[q].items \subseteq received'
  BY QueueStep, RunStepFacts DEF Inv, RunInv
<1>3. QED
  BY <1>1, <1>2 DEF RunInv

-----------------------------------------------------------------------------
LEMMA NextSerial == ConstantsAssumption /\ Inv /\ Next => SerialInv'
<1> SUFFICES ASSUME ConstantsAssumption, Inv, Next, ~ disturbed'
             PROVE  /\ \A r, q \in Active' : r = q
                    /\ \A r \in Active' : queued' \subseteq run'[r].items
  BY DEF SerialInv
<1>0. ASSUME NEW r \in Runs, NEW items, NEW b, StartRun(r, items, b)
      PROVE  /\ \A q \in Active' : q = r
             /\ run'[r].items = items
  BY <1>0 DEF StartRun, Inv, TypeOK, Active
<1> USE DEF Inv, TypeOK, SerialInv
<1>1. CASE \E r \in Runs, i \in Items : Send(i, r)
  <2>1. PICK r \in Runs, i \in Items : Send(i, r)
    BY <1>1
  <2>2. StartRun(r, queued \cup {i}, FALSE) /\ queued' = queued \cup {i}
    BY <2>1 DEF Send
  <2>3. (\A q \in Active' : q = r) /\ run'[r].items = queued'
    BY <1>0, <2>2
  <2>4. QED
    BY <2>3
<1>2. CASE \E r \in Runs : AlarmFires(r)
  <2>1. PICK r \in Runs : AlarmFires(r)
    BY <1>2
  <2>2. CASE StartRun(r, queued, TRUE)
    <3>1. (\A q \in Active' : q = r) /\ run'[r].items = queued'
      BY <1>0, <2>1, <2>2 DEF AlarmFires
    <3>2. QED
      BY <3>1
  <2>3. CASE UNCHANGED <<run, disturbed>>
    BY <2>1, <2>3 DEF AlarmFires, Active
  <2>4. QED
    BY <2>1, <2>2, <2>3 DEF AlarmFires
<1> USE DEF Active
<1>3. CASE \E r \in Runs : Arrive(r)
  BY <1>3 DEF Arrive, historyVars
<1>4. CASE \E r \in Runs : RunSucceeds(r)
  BY <1>4 DEF RunSucceeds, NoRun
<1>5. CASE \E r \in Runs : RunFails(r)
  BY <1>5, OrphanFacts DEF RunFails
<1>6. CASE \E r \in Runs : OrphanEnds(r)
  BY <1>6 DEF OrphanEnds, NoRun, historyVars
<1>7. CASE Crash \/ Receive \/ \E r \in Runs : CrashInSuccess(r) \/ CrashInRetry(r)
  BY <1>7 DEF Crash, CrashInSuccess, CrashInRetry, Restart, Receive
<1>8. CASE RetryFallsDue
  BY <1>8 DEF RetryFallsDue, historyVars
<1>9. QED
  BY <1>1, <1>2, <1>3, <1>4, <1>5, <1>6, <1>7, <1>8 DEF Next, RunStep

LEMMA NextRetryArmed == ConstantsAssumption /\ Inv /\ Next => RetryArmed'
<1> SUFFICES ASSUME ConstantsAssumption, Inv, Next,
                    failed' \cap queued' # {}, ~ disturbed', Active' = {}
             PROVE  nextRetry' # "none" /\ alarm' = "retry"
  BY DEF RetryArmed
<1> USE DEF Inv, TypeOK, SerialInv, RetryArmed, Active
<1>1. CASE \E r \in Runs, i \in Items : Send(i, r)
  BY <1>1 DEF Send, StartRun
<1>2. CASE \E r \in Runs : AlarmFires(r)
  BY <1>2 DEF AlarmFires, StartRun
<1>3. CASE \E r \in Runs : Arrive(r)
  BY <1>3 DEF Arrive, historyVars, serverVars
<1>4. CASE \E r \in Runs : RunSucceeds(r)
  BY <1>4 DEF RunSucceeds, NoRun
<1>5. CASE \E r \in Runs : RunFails(r)
  BY <1>5 DEF RunFails
<1>6. CASE \E r \in Runs : OrphanEnds(r)
  BY <1>6 DEF OrphanEnds, NoRun, historyVars, serverVars
<1>7. CASE Crash \/ Receive \/ \E r \in Runs : CrashInSuccess(r) \/ CrashInRetry(r)
  BY <1>7 DEF Crash, CrashInSuccess, CrashInRetry, Restart, Receive
<1>8. CASE RetryFallsDue
  BY <1>8 DEF RetryFallsDue, historyVars
<1>9. QED
  BY <1>1, <1>2, <1>3, <1>4, <1>5, <1>6, <1>7, <1>8 DEF Next, RunStep

LEMMA Inductive == ConstantsAssumption /\ Inv /\ [Next]_vars => Inv'
<1>1. ConstantsAssumption /\ Inv /\ Next => Inv'
  BY NextTypeOK, NextRunInv, NextSerial, NextRetryArmed DEF Inv
<1>2. Inv /\ UNCHANGED vars => Inv'
  BY DEF Inv, TypeOK, RunInv, SerialInv, RetryArmed, Active, vars, serverVars, historyVars
<1>3. QED
  BY <1>1, <1>2

(* The inductive invariant holds in every reachable state. *)
THEOREM Invariance == Spec => []Inv
BY InitInv, Inductive, ConstantsAssumption, PTL DEF Spec

-----------------------------------------------------------------------------
(* Every variable of the federation queue keeps its type. *)
THEOREM TypeCorrect == Spec => []TypeOK
<1>1. Inv => TypeOK
  BY DEF Inv
<1>2. QED
  BY <1>1, Invariance, PTL

(* While a queue is sent from one run at a time, scheduleRetry and the alarm
   leave no failed item behind without a retry. *)
THEOREM RetryIsArmed == Spec => []RetryArmed
<1>1. Inv => RetryArmed
  BY DEF Inv
<1>2. QED
  BY <1>1, Invariance, PTL

(* An EDU removed after an ok answer never enters the queue again, although
   scheduleRetry of an older run stores that run's events again. *)
THEOREM RemovedEdusStayRemoved == Spec => EdusNotRequeued
<1>1. ConstantsAssumption /\ Inv /\ [Next]_vars
        => [(queued' \ queued) \cap confirmed \cap Edus = {}]_vars
  <2> SUFFICES ASSUME ConstantsAssumption, Inv, Next
               PROVE  (queued' \ queued) \cap confirmed \cap Edus = {}
    OBVIOUS
  <2> USE DEF Inv, TypeOK, RunInv, ConstantsAssumption
  <2>1. CASE \E r \in Runs, i \in Items : Send(i, r)
    BY <2>1 DEF Send
  <2>2. CASE \E r \in Runs : RunFails(r) \/ CrashInRetry(r)
    BY <2>2 DEF RunFails, CrashInRetry
  <2>3. CASE ~ \E r \in Runs : \/ \E i \in Items : Send(i, r)
                              \/ RunFails(r) \/ CrashInRetry(r)
    BY <2>3 DEF Next, RunStep, AlarmFires, Arrive, RunSucceeds, OrphanEnds, CrashInSuccess,
                RetryFallsDue, Crash, Receive
  <2>4. QED
    BY <2>1, <2>2, <2>3
<1>2. QED
  BY <1>1, Invariance, ConstantsAssumption, PTL DEF EdusNotRequeued, Spec

(* The federation queue implements the abstract outbound queue: no item is
   dropped before the remote server received it. *)
THEOREM Implements == Spec => AtLeastOnce
<1>1. Init => Abstract!Init
  BY DEF Init, Abstract!Init
<1>2. ConstantsAssumption /\ Inv /\ [Next]_vars => [Abstract!Next]_Abstract!vars
  <2> SUFFICES ASSUME ConstantsAssumption, Inv, [Next]_vars
               PROVE  [Abstract!Next]_Abstract!vars
    OBVIOUS
  <2> USE DEF Abstract!Next, Abstract!vars
  <2>1. CASE Next /\ received' = received
    <3>1. CASE queued' \ queued \subseteq received
      <4>1. /\ queued \ queued' \in SUBSET received
            /\ queued' \ queued \in SUBSET received
            /\ queued' = (queued \ (queued \ queued')) \cup (queued' \ queued)
        BY <2>1, <3>1, QueueStep
      <4>2. QED
        BY <2>1, <4>1 DEF Abstract!Settle
    <3>2. CASE ~ (queued' \ queued \subseteq received)
      BY <2>1, <3>2, QueueStep DEF Abstract!Accept
    <3>3. QED
      BY <3>1, <3>2
  <2>2. CASE Next /\ received' # received
    <3>1. PICK r \in Runs : Arrive(r)
      BY <2>2 DEF Next, RunStep, Send, AlarmFires, RunSucceeds, RunFails, OrphanEnds,
                  CrashInSuccess, CrashInRetry, Restart, RetryFallsDue, Crash, Receive
    <3>2. /\ run[r].items \cap queued \in SUBSET queued
          /\ received' = received \cup (run[r].items \cap queued)
          /\ queued' = queued
      BY <3>1 DEF Arrive, Inv, RunInv
    <3>3. QED
      BY <3>2 DEF Abstract!Receive
  <2>3. CASE UNCHANGED vars
    BY <2>3 DEF vars
  <2>4. QED
    BY <2>1, <2>2, <2>3
<1>3. QED
  BY <1>1, <1>2, Invariance, ConstantsAssumption, PTL DEF Spec, AtLeastOnce, Abstract!Spec
=============================================================================
