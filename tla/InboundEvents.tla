--------------------------- MODULE InboundEvents ---------------------------
(***************************************************************************)
(* Events other servers send to a room of this one: PUT                    *)
(* /_matrix/federation/v1/send/{txnId} (api/federation.ts), which checks   *)
(* them with checkEventAuth and, for an event with several predecessors,   *)
(* resolves the state.                                                     *)
(*                                                                         *)
(* A transaction arrives in attempts: its sender repeats it until it is    *)
(* answered, and attempts of any transactions overlap.  Every D1 statement *)
(* is a step.  An error in one is caught at a place that depends on the    *)
(* statement.  Events are well-formed and their hashes are right; EDUs,    *)
(* whose rows no other handler of the room reads, are left out.            *)
(***************************************************************************)
EXTENDS StateResolution

CONSTANTS
  Initial,     \* events of the room when the first transaction arrives
  Algorithms,  \* the algorithms of the room versions considered
  Txns,        \* transactions: the numbers of their events, in order
  Relayed,     \* pairs of a transaction and an event of another server in it
  Attempts,    \* PUT requests
  MaxFaults    \* bound: failed statements, failed key fetches and stopped workers

ASSUME InboundAssumption ==
  /\ Initial \subseteq Ids /\ 0 \notin Ids
  /\ \A e \in Initial : IsState(e)
  /\ \A e, f \in Initial : KeyOf(e) = KeyOf(f) => e = f
  /\ \A t \in DOMAIN Txns : Txns[t] \in Seq(Ids \ Initial)
  /\ MaxFaults \in Nat

VARIABLES
  algorithm,  \* the state resolution of the room's version
  processed,  \* processed_pdus: "none", "accepted" or "rejected"
  stored,     \* rows of events
  current,    \* room_state
  responses,  \* transactions with a stored response
  phase,      \* where every attempt is
  txn,        \* its transaction
  next,       \* the index of the event it is at
  view,       \* the room state it resolves with
  todo,       \* keys it has still to write, with what it resolved
  been,       \* events that were current under a key (history)
  twice,      \* events two attempts were at, at the same time (history)
  lost,       \* accepted events whose attempt stopped or failed (history)
  reverted,   \* events written over others that came after they were read, or
              \* once more when a resolution failed (history)
  faults

tableVars == <<processed, stored, current, responses>>
attemptVars == <<phase, txn, next, view, todo>>
historyVars == <<been, twice, lost, reverted>>
vars == <<algorithm, tableVars, attemptVars, historyVars, faults>>

(* The event an attempt is at. *)
At(a) == Txns[txn[a]][next[a]]

(* An attempt is at an event that it did not find processed. *)
Handling == {"checked", "accepting", "rejecting", "storing", "applying", "resolving", "writing"}
HandledBy(e) == {a \in Attempts : phase[a] \in Handling /\ At(a) = e}

NoState == [k \in StateKeys |-> 0]

(* The attempt goes on with its next event. *)
Advance(a) ==
  /\ phase' = [phase EXCEPT ![a] = "next"]
  /\ next' = [next EXCEPT ![a] = @ + 1]

(* INSERT OR REPLACE INTO room_state. *)
SetCurrent(k, e) ==
  /\ current' = [current EXCEPT ![k] = e]
  /\ been' = [been EXCEPT ![k] = @ \cup {e}]

-----------------------------------------------------------------------------
(* A transaction without a stored response is processed. *)
Begin(a, t) ==
  /\ phase[a] = "new" /\ t \notin responses
  /\ phase' = [phase EXCEPT ![a] = "next"]
  /\ txn' = [txn EXCEPT ![a] = t]
  /\ UNCHANGED <<algorithm, tableVars, next, view, todo, historyVars, faults>>

(* Faulty variant: what was processed before is processed again. *)
CheckNothing(a) ==
  /\ phase[a] = "next" /\ next[a] <= Len(Txns[txn[a]])
  /\ phase' = [phase EXCEPT ![a] = "checked"]
  /\ twice' = IF HandledBy(At(a)) = {} THEN twice ELSE twice \cup {At(a)}
  /\ UNCHANGED <<algorithm, tableVars, txn, next, view, todo, been, lost, reverted, faults>>

(* An event with a row in processed_pdus is answered from it. *)
CheckProcessed(a) ==
  /\ phase[a] = "next" /\ next[a] <= Len(Txns[txn[a]])
  /\ IF processed[At(a)] = "none"
     THEN /\ phase' = [phase EXCEPT ![a] = "checked"]
          /\ twice' = IF HandledBy(At(a)) = {} THEN twice ELSE twice \cup {At(a)}
          /\ UNCHANGED next
     ELSE Advance(a) /\ UNCHANGED twice
  /\ UNCHANGED <<algorithm, tableVars, txn, view, todo, been, lost, reverted, faults>>

(* checkEventAuth on the room state. *)
Authorize(a) ==
  /\ phase[a] = "checked"
  /\ phase' = [phase EXCEPT ![a] = IF AllowedIn(At(a), current) THEN "accepting" ELSE "rejecting"]
  /\ UNCHANGED <<algorithm, tableVars, txn, next, view, todo, historyVars, faults>>

(* The room state cannot be read: the event is accepted all the same. *)
AuthorizeFails(a) ==
  /\ phase[a] = "checked" /\ faults < MaxFaults
  /\ faults' = faults + 1
  /\ phase' = [phase EXCEPT ![a] = "accepting"]
  /\ UNCHANGED <<algorithm, tableVars, txn, next, view, todo, historyVars>>

(* The keys of another server cannot be fetched, or a statement fails that no
   other clause covers: the event is rejected. *)
Refuse(a) ==
  /\ \/ phase[a] = "checked" /\ <<txn[a], At(a)>> \in Relayed
     \/ phase[a] \in {"checked", "accepting"}
  /\ faults < MaxFaults
  /\ faults' = faults + 1
  /\ phase' = [phase EXCEPT ![a] = "rejecting"]
  /\ UNCHANGED <<algorithm, tableVars, txn, next, view, todo, historyVars>>

(* The row of processed_pdus itself cannot be read: the event is rejected, also
   one that was accepted before. *)
RefuseUnread(a) ==
  /\ phase[a] = "next" /\ next[a] <= Len(Txns[txn[a]]) /\ faults < MaxFaults
  /\ faults' = faults + 1
  /\ phase' = [phase EXCEPT ![a] = "rejecting"]
  /\ twice' = IF HandledBy(At(a)) = {} THEN twice ELSE twice \cup {At(a)}
  /\ UNCHANGED <<algorithm, tableVars, txn, next, view, todo, been, lost, reverted>>

(* INSERT OR REPLACE INTO processed_pdus, also of an event another attempt has
   accepted. *)
Reject(a) ==
  /\ phase[a] = "rejecting"
  /\ processed' = [processed EXCEPT ![At(a)] = "rejected"]
  /\ Advance(a)
  /\ UNCHANGED <<algorithm, stored, current, responses, txn, view, todo, historyVars, faults>>

(* The row comes before the event. *)
Accept(a) ==
  /\ phase[a] = "accepting"
  /\ processed' = [processed EXCEPT ![At(a)] = "accepted"]
  /\ phase' = [phase EXCEPT ![a] = "storing"]
  /\ UNCHANGED <<algorithm, stored, current, responses, txn, next, view, todo, historyVars, faults>>

(* Faulty variant: only messages have rows of their own. *)
StoreMessagesOnly(a) ==
  LET e == At(a)
  IN  /\ phase[a] = "storing"
      /\ stored' = IF IsState(e) THEN stored ELSE stored \cup {e}
      /\ IF IsState(e)
         THEN /\ phase' = [phase EXCEPT ![a] = IF Events[e].several THEN "resolving" ELSE "applying"]
              /\ UNCHANGED next
         ELSE Advance(a)
      /\ UNCHANGED <<algorithm, processed, current, responses, txn, view, todo, historyVars, faults>>

(* Faulty variant: the state is resolved for every event, by whatever algorithm. *)
StoreAndResolve(a) ==
  /\ phase[a] = "storing"
  /\ stored' = stored \cup {At(a)}
  /\ IF IsState(At(a)) THEN phase' = [phase EXCEPT ![a] = "resolving"] /\ UNCHANGED next
     ELSE Advance(a)
  /\ UNCHANGED <<algorithm, processed, current, responses, txn, view, todo, historyVars, faults>>

(* INSERT OR IGNORE INTO events; then the state, unless it is no state event. *)
Store(a) ==
  LET e == At(a)
  IN  /\ phase[a] = "storing"
      /\ stored' = stored \cup {e}
      /\ IF IsState(e)
         THEN /\ phase' = [phase EXCEPT ![a] = IF Events[e].several THEN "resolving" ELSE "applying"]
              /\ UNCHANGED next
         ELSE Advance(a)
      /\ UNCHANGED <<algorithm, processed, current, responses, txn, view, todo, historyVars, faults>>

(* With one predecessor the event is the new state. *)
Apply(a) ==
  /\ phase[a] = "applying"
  /\ SetCurrent(KeyOf(At(a)), At(a))
  /\ Advance(a)
  /\ UNCHANGED <<algorithm, processed, stored, responses, txn, view, todo, twice, lost, reverted, faults>>

(* With several the room state is read and resolved with the event. *)
Resolve(a) ==
  /\ phase[a] = "resolving"
  /\ view' = [view EXCEPT ![a] = current]
  /\ todo' = [todo EXCEPT ![a] = ResolveState(algorithm, <<current, Only(At(a))>>)]
  /\ phase' = [phase EXCEPT ![a] = "writing"]
  /\ UNCHANGED <<algorithm, tableVars, txn, next, historyVars, faults>>

(* Every key of the result is written, also those that did not change. *)
WriteResolved(a, k) ==
  /\ phase[a] = "writing" /\ todo[a][k] # 0
  /\ SetCurrent(k, todo[a][k])
  /\ reverted' = IF current[k] # view[a][k] THEN reverted \cup {todo[a][k]} ELSE reverted
  /\ todo' = [todo EXCEPT ![a][k] = 0]
  /\ UNCHANGED <<algorithm, processed, stored, responses, phase, txn, next, view, twice, lost, faults>>

EndWriting(a) ==
  /\ phase[a] = "writing" /\ todo[a] = NoState
  /\ Advance(a)
  /\ view' = [view EXCEPT ![a] = NoState]
  /\ UNCHANGED <<algorithm, tableVars, txn, todo, historyVars, faults>>

(* Resolution fails, perhaps after the event was written: it is written as with
   one predecessor. *)
ResolveFails(a) ==
  /\ phase[a] \in {"resolving", "writing"} /\ faults < MaxFaults
  /\ faults' = faults + 1
  /\ phase' = [phase EXCEPT ![a] = "applying"]
  /\ view' = [view EXCEPT ![a] = NoState] /\ todo' = [todo EXCEPT ![a] = NoState]
  /\ reverted' = IF phase[a] = "writing" /\ todo[a][KeyOf(At(a))] = 0
                 THEN reverted \cup {At(a)} ELSE reverted
  /\ UNCHANGED <<algorithm, tableVars, txn, next, been, twice, lost>>

(* Storing fails, which is logged, and the next event is processed. *)
StoreFails(a) ==
  /\ phase[a] \in {"storing", "applying"} /\ faults < MaxFaults
  /\ faults' = faults + 1
  /\ lost' = lost \cup {At(a)}
  /\ Advance(a)
  /\ UNCHANGED <<algorithm, tableVars, txn, view, todo, been, twice, reverted>>

(* The response is stored, and the attempt answered. *)
Answer(a) ==
  /\ phase[a] = "next" /\ next[a] > Len(Txns[txn[a]])
  /\ responses' = responses \cup {txn[a]}
  /\ phase' = [phase EXCEPT ![a] = "answered"]
  /\ UNCHANGED <<algorithm, processed, stored, current, txn, next, view, todo, historyVars, faults>>

(* The worker stops. *)
Stop(a) ==
  /\ phase[a] \in Handling \cup {"next"} /\ faults < MaxFaults
  /\ faults' = faults + 1
  /\ lost' = IF phase[a] \in {"storing", "applying", "resolving", "writing"}
             THEN lost \cup {At(a)} ELSE lost
  /\ phase' = [phase EXCEPT ![a] = "stopped"]
  /\ view' = [view EXCEPT ![a] = NoState] /\ todo' = [todo EXCEPT ![a] = NoState]
  /\ UNCHANGED <<algorithm, tableVars, txn, next, been, twice, reverted>>

-----------------------------------------------------------------------------
InitialState ==
  [k \in StateKeys |-> IF \E e \in Initial : KeyOf(e) = k
                       THEN CHOOSE e \in Initial : KeyOf(e) = k ELSE 0]

Init ==
  /\ algorithm \in Algorithms
  /\ processed = [e \in Ids |-> "none"]
  /\ stored = Initial
  /\ current = InitialState
  /\ responses = {}
  /\ phase = [a \in Attempts |-> "new"]
  /\ txn = [a \in Attempts |-> 0]
  /\ next = [a \in Attempts |-> 1]
  /\ view = [a \in Attempts |-> NoState]
  /\ todo = [a \in Attempts |-> NoState]
  /\ been = [k \in StateKeys |-> {InitialState[k]} \ {0}]
  /\ twice = {} /\ lost = {} /\ reverted = {}
  /\ faults = 0

Decide(a) == Authorize(a) \/ AuthorizeFails(a) \/ Refuse(a) \/ RefuseUnread(a) \/ Reject(a) \/ Accept(a)

Write(a) ==
  \/ Store(a)
  \/ Apply(a)
  \/ Resolve(a)
  \/ \E k \in StateKeys : WriteResolved(a, k)
  \/ EndWriting(a)
  \/ ResolveFails(a)
  \/ StoreFails(a)

Next ==
  \E a \in Attempts :
    \/ \E t \in DOMAIN Txns : Begin(a, t)
    \/ CheckProcessed(a)
    \/ Decide(a)
    \/ Write(a)
    \/ Answer(a)
    \/ Stop(a)

Spec == Init /\ [][Next]_vars

-----------------------------------------------------------------------------
(* Properties *)

(* Every variable holds a value of its type, and current state is stored. *)
TypeOK ==
  /\ algorithm \in {"v1", "v2"}
  /\ processed \in [Ids -> {"none", "accepted", "rejected"}]
  /\ stored \subseteq Ids
  /\ current \in [StateKeys -> stored \cup {0}]
  /\ responses \subseteq DOMAIN Txns
  /\ phase \in [Attempts -> Handling \cup {"new", "next", "answered", "stopped"}]
  /\ txn \in [Attempts -> DOMAIN Txns \cup {0}] /\ next \in [Attempts -> Nat]
  /\ view \in [Attempts -> States] /\ todo \in [Attempts -> States]
  /\ been \in [StateKeys -> SUBSET Ids]
  /\ twice \cup lost \cup reverted \subseteq Ids
  /\ faults \in 0..MaxFaults

(* An event recorded as accepted is stored and, with one predecessor, has been
   the room's state, when no attempt is at it, unless the attempt that accepted
   it stopped or failed: repeating the transaction finds it processed. *)
AcceptedIsApplied ==
  \A e \in Ids :
    (processed[e] = "accepted" /\ HandledBy(e) = {} /\ e \notin lost)
      => /\ e \in stored
         /\ (IsState(e) /\ ~ Events[e].several) => e \in been[KeyOf(e)]

(* State that was replaced does not come back, unless two attempts were at
   the event or a resolution wrote what it had read before another event came. *)
NoReverts ==
  [][\A k \in StateKeys :
       (current'[k] # current[k] /\ current'[k] \in been[k]) => current'[k] \in twice \cup reverted']_vars
=============================================================================
