--------------------------- MODULE ToDeviceProofs ---------------------------
(* Proofs of ToDevice's safety properties, for any devices, transactions,  *)
(* requests, notices, page limit and number of faults.  A row is inserted  *)
(* once and never moves, so what explains a loss stays true; a row a sync  *)
(* passes over without sending it is explained when it is passed over.     *)
EXTENDS ToDevice, FiniteSetTheorems, TLAPS

(* Positions in use are allocated ones, and a row is only stored at one. *)
PositionInv ==
  /\ \A m \in Rows : rowAt[m] <= position
  /\ \A s \in Senders : at[s] <= position
  /\ \A s \in Senders : step[s] = "bumped" => position # 0
  /\ \A s \in Senders : step[s] = "storing" => at[s] # 0

(* A request has no row before it stores one. *)
TodoInv ==
  /\ \A s \in Senders, d \in Devices : d \in todo[s] => rowAt[<<s, d>>] = 0
  /\ \A s \in Senders, d \in Devices : step[s] \in {"new", "bumped"} => rowAt[<<s, d>>] = 0

(* The position a PUT holds is of no other PUT's row and held by no other PUT. *)
HeldInv ==
  \A s \in Puts : at[s] # 0 =>
    /\ \A m \in Inserted : m[1] \in Puts => rowAt[m] # at[s]
    /\ \A q \in Puts : at[q] = at[s] => q = s

(* A message of transaction t for device d is stored. *)
StoredFor(t, d) == \E q \in Puts : TxnOf[q] = t /\ rowAt[<<q, d>>] # 0

(* A stored transaction has all its messages, one being sent has those not in todo. *)
TxnInv ==
  /\ \A t \in txns \ foreign : \A d \in Targets[t] : StoredFor(t, d)
  /\ \A s \in Puts : step[s] = "sending" =>
       \A d \in Targets[TxnOf[s]] : d \in todo[s] \/ StoredFor(TxnOf[s], d)
  /\ \A s \in Puts : step[s] = "answered" => TxnOf[s] \in txns

(* What LossesExplained says of a row, and what it may be lost by. *)
Explained(m) == m \in seen[m[2]] \cup late \cup raced \/ Tied(m)

(* Some row has reached position p. *)
Reached(p) == p = 0 \/ \E n \in Inserted : p <= rowAt[n]

(* What a device has passed over. *)
SinceInv ==
  \A d \in Devices :
    /\ Reached(since[d]) /\ Reached(nextBatch[d])
    /\ \A m \in Inserted : m[2] = d /\ rowAt[m] <= since[d] => Explained(m)

(* What a sync's answer passes over, once the page is chosen ... *)
PageInv ==
  \A d \in Devices : reader[d] \in {"selected", "acked"} =>
    /\ page[d] \subseteq Inserted
    /\ \A n \in page[d], m \in Inserted :
         m[2] = d /\ rowAt[m] <= rowAt[n] => m \in page[d] \/ Explained(m)
    /\ page[d] = {} => \A m \in Inserted : m[2] = d => Explained(m)

(* ... and once its position is. *)
BatchInv ==
  \A d \in Devices : reader[d] = "replying" =>
    \A m \in Inserted : m[2] = d /\ rowAt[m] <= nextBatch[d] => m \in page[d] \/ Explained(m)

ReadInv == SinceInv /\ PageInv /\ BatchInv /\ LossesExplained /\ deleted \subseteq delivered

Inv == TypeOK /\ PositionInv /\ TodoInv

-----------------------------------------------------------------------------
(* The disjuncts of Next without their grouping. *)
Step ==
  \/ \E s \in Puts : CheckTxn(s)
  \/ \E s \in Puts : Allocate(s)
  \/ \E s \in Puts, d \in Devices : InsertMessage(s, d)
  \/ \E s \in Puts : StoreTxn(s)
  \/ \E s \in Senders : SenderStops(s)
  \/ \E t \in Txns : ForeignTxn(t)
  \/ \E s \in Notices : BumpPosition(s)
  \/ \E s \in Notices : ReadPosition(s)
  \/ \E s \in Notices, d \in Devices : InsertNotice(s, d)
  \/ \E d \in Devices : SelectPage(d)
  \/ \E d \in Devices : Acknowledge(d)
  \/ \E d \in Devices : ReadMax(d)
  \/ \E d \in Devices : Reply(d)
  \/ \E d \in Devices : SyncLost(d)
  \/ Cleanup

LEMMA NextIsStep == ConstantsAssumption /\ Next => Step
  BY DEF ConstantsAssumption, Next, PutStep, NoticeStep, SyncStep, Step, Senders

(* A step that inserts a row, and one that does not. *)
Inserting(s, d) == InsertRow(<<s, d>>, at[s]) /\ d \in todo[s]
NotInserting == UNCHANGED <<rowAt, late, raced>>

LEMMA InsertsOrNot ==
  ASSUME Step
  PROVE  NotInserting \/ \E s \in Senders, d \in Devices : Inserting(s, d)
<1> USE DEF NotInserting, Inserting, Senders, tableVars
<1>1. ASSUME NEW s \in Puts, NEW d \in Devices, InsertMessage(s, d)
      PROVE  Inserting(s, d)
  BY <1>1 DEF InsertMessage
<1>2. ASSUME NEW s \in Notices, NEW d \in Devices, InsertNotice(s, d)
      PROVE  Inserting(s, d)
  BY <1>2 DEF InsertNotice
<1>3. ASSUME NEW s \in Senders, CheckTxn(s) \/ Allocate(s) \/ StoreTxn(s) \/ SenderStops(s)
                                \/ BumpPosition(s) \/ ReadPosition(s)
      PROVE  NotInserting
  BY <1>3 DEF CheckTxn, Allocate, StoreTxn, SenderStops, BumpPosition, ReadPosition
<1>4. ASSUME NEW d \in Devices, SelectPage(d) \/ Acknowledge(d) \/ ReadMax(d) \/ Reply(d) \/ SyncLost(d)
      PROVE  NotInserting
  BY <1>4 DEF SelectPage, Acknowledge, ReadMax, Reply, SyncLost
<1>5. ASSUME NEW t \in Txns, ForeignTxn(t) PROVE NotInserting
  BY <1>5 DEF ForeignTxn
<1>6. CASE Cleanup
  BY <1>6 DEF Cleanup
<1> QED BY <1>1, <1>2, <1>3, <1>4, <1>5, <1>6 DEF Step

-----------------------------------------------------------------------------
(* Positions *)

(* A non-empty set of rows has one with the highest position: the positions
   allocated above a row are a finite set, and a smallest one is of such a row. *)
LEMMA HighestRow ==
  ASSUME TypeOK, PositionInv, NEW rows \in SUBSET Rows, rows # {}
  PROVE  \E m \in rows : \A n \in rows : rowAt[n] <= rowAt[m]
<1> DEFINE Above(m) == (rowAt[m] + 1)..position
           All == {Above(m) : m \in rows}
<1>1. position \in Nat /\ \A m \in rows : rowAt[m] \in Nat /\ rowAt[m] <= position
  BY DEF TypeOK, PositionInv
<1>2. ASSUME NEW m \in rows PROVE Above(m) \in FiniteSubsetsOf(Nat)
  <2>1. IsFiniteSet(Above(m))
    BY <1>1, FS_Interval
  <2>2. Above(m) \subseteq Nat
    BY <1>1
  <2> QED BY <2>1, <2>2 DEF FiniteSubsetsOf
<1>3. \E x \in All : \A y \in All : ~(<<y, x>> \in StrictSubsetOrdering(Nat))
  <2>1. All \subseteq FiniteSubsetsOf(Nat) /\ All # {}
    BY <1>2
  <2> HIDE DEF All
  <2> QED BY <2>1, FS_StrictSubsetOrderingWellFounded, WFMin
<1>4. PICK m \in rows : \A y \in All : ~(<<y, Above(m)>> \in StrictSubsetOrdering(Nat))
  BY <1>3
<1>5. ASSUME NEW n \in rows, rowAt[m] < rowAt[n] PROVE FALSE
  <2>1. Above(n) \subseteq Above(m) /\ Above(m) \subseteq Nat
    BY <1>1, <1>5
  <2>2. rowAt[n] \in Above(m) /\ rowAt[n] \notin Above(n)
    BY <1>1, <1>5
  <2>3. <<Above(n), Above(m)>> \in StrictSubsetOrdering(Nat)
    BY <2>1, <2>2 DEF StrictSubsetOrdering
  <2> QED BY <1>4, <2>3
<1> QED BY <1>1, <1>5

(* MaxAt is the highest position of its rows. *)
LEMMA MaxAtIsHighest ==
  ASSUME TypeOK, PositionInv, NEW rows \in SUBSET Rows, rows # {}
  PROVE  /\ \E m \in rows : MaxAt(rows) = rowAt[m]
         /\ \A n \in rows : rowAt[n] <= MaxAt(rows)
  BY HighestRow DEF MaxAt

(* What an insertion changes: one row, which is late, or above all the others. *)
LEMMA InsertChanges ==
  ASSUME TypeOK, PositionInv, TodoInv, NEW s \in Senders, NEW d \in Devices,
         Inserting(s, d), at[s] # 0
  PROVE  /\ <<s, d>> \in Rows /\ rowAt[<<s, d>>] = 0 /\ rowAt'[<<s, d>>] = at[s]
         /\ \A m \in Rows : m # <<s, d>> => rowAt'[m] = rowAt[m]
         /\ Inserted' = Inserted \cup {<<s, d>>}
         /\ <<s, d>> \in late' \/ \A n \in Inserted : rowAt[n] < at[s]
         /\ late \subseteq late' /\ raced \subseteq raced'
<1>1. /\ <<s, d>> \in Rows /\ rowAt[<<s, d>>] = 0 /\ at[s] \in Nat
      /\ rowAt' = [rowAt EXCEPT ![<<s, d>>] = at[s]]
  BY DEF Inserting, InsertRow, TodoInv, TypeOK, Rows
<1>2. rowAt'[<<s, d>>] = at[s] /\ \A m \in Rows : m # <<s, d>> => rowAt'[m] = rowAt[m]
  BY <1>1 DEF TypeOK
<1>3. Inserted' = Inserted \cup {<<s, d>>}
  BY <1>1, <1>2 DEF Inserted
<1>4. ASSUME <<s, d>> \notin late', NEW n \in Inserted PROVE rowAt[n] < at[s]
  <2>1. ~(at[s] <= MaxAt(Inserted))
    BY <1>4 DEF Inserting, InsertRow
  <2>2. Inserted \in SUBSET Rows /\ Inserted # {}
    BY <1>4 DEF Inserted
  <2>3. PICK k \in Inserted : MaxAt(Inserted) = rowAt[k]
    BY <2>2, MaxAtIsHighest
  <2>4. rowAt[n] <= MaxAt(Inserted)
    BY <2>2, <1>4, MaxAtIsHighest
  <2>5. rowAt[n] \in Nat /\ rowAt[k] \in Nat
    BY <2>2, <1>4 DEF TypeOK
  <2> QED BY <1>1, <2>1, <2>3, <2>4, <2>5
<1>5. late \subseteq late' /\ raced \subseteq raced'
  BY DEF Inserting, InsertRow
<1> QED BY <1>1, <1>2, <1>3, <1>4, <1>5

-----------------------------------------------------------------------------
(* Types *)

LEMMA InitType == ConstantsAssumption /\ Init => TypeOK
  BY DEF Init, TypeOK, Rows

LEMMA InsertType ==
  ASSUME TypeOK, NEW s \in Senders, NEW d \in Devices, InsertRow(<<s, d>>, at[s])
  PROVE  rowAt' \in [Rows -> Nat] /\ late' \subseteq Rows /\ raced' \subseteq Rows
<1>1. <<s, d>> \in Rows /\ at[s] \in Nat
  BY DEF TypeOK, Rows
<1>2. rowAt' \in [Rows -> Nat]
  BY <1>1 DEF InsertRow, TypeOK
<1>3. late' \subseteq Rows /\ raced' \subseteq Rows
  BY <1>1 DEF InsertRow, TypeOK
<1> QED BY <1>2, <1>3

LEMMA StepType ==
  ASSUME ConstantsAssumption, TypeOK, PositionInv, Step
  PROVE  TypeOK'
<1> USE DEF tableVars, sendVars, ackVars, readVars, boundVars
<1>0. Puts \subseteq Senders /\ Notices \subseteq Senders
  BY DEF Senders
<1>1. ASSUME NEW s \in Puts, CheckTxn(s) PROVE TypeOK'
  <2>1. Targets[TxnOf[s]] \in SUBSET Devices
    BY DEF ConstantsAssumption
  <2>2. step' \in [Senders -> {"new", "sending", "bumped", "storing", "answered", "failed"}]
    BY <1>0, <1>1 DEF CheckTxn, TypeOK
  <2>3. todo' \in [Senders -> SUBSET Devices]
    BY <1>0, <1>1, <2>1 DEF CheckTxn, TypeOK
  <2> QED BY <1>1, <2>2, <2>3 DEF CheckTxn, TypeOK
<1>2. ASSUME NEW s \in Puts, Allocate(s) PROVE TypeOK'
  BY <1>0, <1>2 DEF Allocate, TypeOK
<1>3. ASSUME NEW s \in Puts, NEW d \in Devices, InsertMessage(s, d) PROVE TypeOK'
  <2>1. rowAt' \in [Rows -> Nat] /\ late' \subseteq Rows /\ raced' \subseteq Rows
    BY <1>0, <1>3, InsertType DEF InsertMessage
  <2>2. todo' \in [Senders -> SUBSET Devices] /\ at' \in [Senders -> Nat]
    BY <1>0, <1>3 DEF InsertMessage, TypeOK
  <2> QED BY <1>3, <2>1, <2>2 DEF InsertMessage, TypeOK
<1>4. ASSUME NEW s \in Puts, StoreTxn(s) PROVE TypeOK'
  <2>1. TxnOf[s] \in Txns
    BY DEF ConstantsAssumption
  <2> QED BY <1>0, <1>4, <2>1 DEF StoreTxn, TypeOK
<1>5. ASSUME NEW s \in Senders, SenderStops(s) PROVE TypeOK'
  BY <1>5 DEF SenderStops, Fault, TypeOK
<1>6. ASSUME NEW t \in Txns, ForeignTxn(t) PROVE TypeOK'
  BY <1>6 DEF ForeignTxn, Fault, TypeOK
<1>7. ASSUME NEW s \in Notices, BumpPosition(s) PROVE TypeOK'
  BY <1>0, <1>7 DEF BumpPosition, TypeOK
<1>8. ASSUME NEW s \in Notices, ReadPosition(s) PROVE TypeOK'
  <2>1. Recipients[s] \in SUBSET Devices
    BY DEF ConstantsAssumption
  <2> QED BY <1>0, <1>8, <2>1 DEF ReadPosition, TypeOK
<1>9. ASSUME NEW s \in Notices, NEW d \in Devices, InsertNotice(s, d) PROVE TypeOK'
  <2>1. rowAt' \in [Rows -> Nat] /\ late' \subseteq Rows /\ raced' \subseteq Rows
    BY <1>0, <1>9, InsertType DEF InsertNotice
  <2>2. todo' \in [Senders -> SUBSET Devices]
    BY <1>0, <1>9 DEF InsertNotice, TypeOK
  <2> QED BY <1>9, <2>1, <2>2 DEF InsertNotice, TypeOK
<1>10. ASSUME NEW d \in Devices, SelectPage(d) PROVE TypeOK'
  <2>1. PICK p \in Pages(Undelivered(d)) : page' = [page EXCEPT ![d] = p]
    BY <1>10 DEF SelectPage
  <2>2. p \in SUBSET Rows
    BY <2>1 DEF Pages, Undelivered, Table, Inserted
  <2> QED BY <1>10, <2>1, <2>2 DEF SelectPage, TypeOK
<1>11. ASSUME NEW d \in Devices, Acknowledge(d) PROVE TypeOK'
  BY <1>11 DEF Acknowledge, Table, Inserted, TypeOK
<1>12. ASSUME NEW d \in Devices, ReadMax(d) PROVE TypeOK'
  <2>1. Table \in SUBSET Rows /\ page[d] \in SUBSET Rows
    BY DEF Table, Inserted, TypeOK
  <2>2. MaxAt(Table) \in Nat /\ MaxAt(page[d]) \in Nat
    <3>1. ASSUME NEW rows \in SUBSET Rows PROVE MaxAt(rows) \in Nat
      <4>1. CASE rows = {}
        BY <4>1 DEF MaxAt
      <4>2. CASE rows # {}
        <5>1. \E m \in rows : MaxAt(rows) = rowAt[m]
          BY <4>2, MaxAtIsHighest
        <5> QED BY <5>1 DEF TypeOK
      <4> QED BY <4>1, <4>2
    <3> QED BY <2>1, <3>1
  <2> QED BY <1>12, <2>2 DEF ReadMax, TypeOK
<1>13. ASSUME NEW d \in Devices, Reply(d) PROVE TypeOK'
  BY <1>13 DEF Reply, TypeOK
<1>14. ASSUME NEW d \in Devices, SyncLost(d) PROVE TypeOK'
  BY <1>14 DEF SyncLost, Fault, TypeOK
<1>15. CASE Cleanup
  BY <1>15 DEF Cleanup, Fault, Table, Inserted, TypeOK
<1> QED
  BY <1>1, <1>2, <1>3, <1>4, <1>5, <1>6, <1>7, <1>8, <1>9, <1>10, <1>11, <1>12, <1>13, <1>14, <1>15
    DEF Step

-----------------------------------------------------------------------------
(* Positions in use were allocated. *)

LEMMA StepPosition ==
  ASSUME ConstantsAssumption, TypeOK, PositionInv, Step
  PROVE  PositionInv'
<1> USE DEF tableVars, sendVars, ackVars, readVars, boundVars
<1>0. /\ Puts \subseteq Senders /\ Notices \subseteq Senders
      /\ \A s \in Senders, d \in Devices : <<s, d>> \in Rows
  BY DEF Senders, Rows
<1>1. ASSUME NEW s \in Puts, CheckTxn(s) PROVE PositionInv'
  BY <1>0, <1>1 DEF CheckTxn, PositionInv, TypeOK
<1>2. ASSUME NEW s \in Puts, Allocate(s) PROVE PositionInv'
  BY <1>0, <1>2 DEF Allocate, PositionInv, TypeOK
<1>3. ASSUME NEW s \in Puts, NEW d \in Devices, InsertMessage(s, d) PROVE PositionInv'
  BY <1>0, <1>3 DEF InsertMessage, InsertRow, PositionInv, TypeOK
<1>4. ASSUME NEW s \in Puts, StoreTxn(s) PROVE PositionInv'
  BY <1>0, <1>4 DEF StoreTxn, PositionInv, TypeOK
<1>5. ASSUME NEW s \in Senders, SenderStops(s) PROVE PositionInv'
  BY <1>5 DEF SenderStops, PositionInv, TypeOK
<1>6. ASSUME NEW s \in Notices, BumpPosition(s) PROVE PositionInv'
  BY <1>0, <1>6 DEF BumpPosition, PositionInv, TypeOK
<1>7. ASSUME NEW s \in Notices, ReadPosition(s) PROVE PositionInv'
  BY <1>0, <1>7 DEF ReadPosition, PositionInv, TypeOK
<1>8. ASSUME NEW s \in Notices, NEW d \in Devices, InsertNotice(s, d) PROVE PositionInv'
  BY <1>0, <1>8 DEF InsertNotice, InsertRow, PositionInv, TypeOK
<1>9. ASSUME \/ \E t \in Txns : ForeignTxn(t)
             \/ \E d \in Devices : SelectPage(d) \/ Acknowledge(d) \/ ReadMax(d) \/ Reply(d) \/ SyncLost(d)
             \/ Cleanup
      PROVE  PositionInv'
  <2>1. UNCHANGED <<position, rowAt, at, step>>
    BY <1>9 DEF ForeignTxn, SelectPage, Acknowledge, ReadMax, Reply, SyncLost, Cleanup
  <2> QED BY <2>1 DEF PositionInv
<1> QED BY <1>1, <1>2, <1>3, <1>4, <1>5, <1>6, <1>7, <1>8, <1>9 DEF Step

-----------------------------------------------------------------------------
(* No row is stored twice. *)

LEMMA StepTodo ==
  ASSUME ConstantsAssumption, TypeOK, TodoInv, Step
  PROVE  TodoInv'
<1> USE DEF tableVars, sendVars, ackVars, readVars, boundVars
<1>0. /\ Puts \subseteq Senders /\ Notices \subseteq Senders
      /\ \A s \in Senders, d \in Devices : <<s, d>> \in Rows
  BY DEF Senders, Rows
<1>1. ASSUME NEW s \in Puts, CheckTxn(s) PROVE TodoInv'
  BY <1>0, <1>1 DEF CheckTxn, TodoInv, TypeOK
<1>2. ASSUME NEW s \in Puts, Allocate(s) PROVE TodoInv'
  BY <1>2 DEF Allocate, TodoInv
<1>3. ASSUME NEW s \in Puts, NEW d \in Devices, InsertMessage(s, d) PROVE TodoInv'
  BY <1>0, <1>3 DEF InsertMessage, InsertRow, TodoInv, TypeOK
<1>4. ASSUME NEW s \in Puts, StoreTxn(s) PROVE TodoInv'
  BY <1>0, <1>4 DEF StoreTxn, TodoInv, TypeOK
<1>5. ASSUME NEW s \in Senders, SenderStops(s) PROVE TodoInv'
  BY <1>5 DEF SenderStops, TodoInv, TypeOK
<1>6. ASSUME NEW s \in Notices, BumpPosition(s) PROVE TodoInv'
  BY <1>0, <1>6 DEF BumpPosition, TodoInv, TypeOK
<1>7. ASSUME NEW s \in Notices, ReadPosition(s) PROVE TodoInv'
  BY <1>0, <1>7 DEF ReadPosition, TodoInv, TypeOK
<1>8. ASSUME NEW s \in Notices, NEW d \in Devices, InsertNotice(s, d) PROVE TodoInv'
  BY <1>0, <1>8 DEF InsertNotice, InsertRow, TodoInv, TypeOK
<1>9. ASSUME \/ \E t \in Txns : ForeignTxn(t)
             \/ \E d \in Devices : SelectPage(d) \/ Acknowledge(d) \/ ReadMax(d) \/ Reply(d) \/ SyncLost(d)
             \/ Cleanup
      PROVE  TodoInv'
  <2>1. UNCHANGED <<rowAt, step, todo>>
    BY <1>9 DEF ForeignTxn, SelectPage, Acknowledge, ReadMax, Reply, SyncLost, Cleanup
  <2> QED BY <2>1 DEF TodoInv
<1> QED BY <1>1, <1>2, <1>3, <1>4, <1>5, <1>6, <1>7, <1>8, <1>9 DEF Step

-----------------------------------------------------------------------------
(* Positions of sends are unique. *)

LEMMA StepHeld ==
  ASSUME ConstantsAssumption, Inv, HeldInv, PutPositionsUnique, Step
  PROVE  HeldInv' /\ PutPositionsUnique'
<1> USE DEF Inv, tableVars, sendVars, ackVars, readVars, boundVars
<1>0. /\ Puts \subseteq Senders /\ Notices \subseteq Senders /\ Puts \cap Notices = {}
      /\ \A s \in Senders, d \in Devices : <<s, d>> \in Rows
      /\ Inserted \subseteq Rows
  BY DEF ConstantsAssumption, Senders, Rows, Inserted
<1>1. ASSUME rowAt' = rowAt, \A s \in Puts : at'[s] = at[s] \/ at'[s] = 0
      PROVE  HeldInv' /\ PutPositionsUnique'
  <2>1. Inserted' = Inserted
    BY <1>1 DEF Inserted
  <2> QED BY <1>1, <2>1 DEF HeldInv, PutPositionsUnique
<1>2. ASSUME NEW s \in Puts, Allocate(s) PROVE HeldInv' /\ PutPositionsUnique'
  <2>1. Inserted' = Inserted /\ rowAt' = rowAt
    BY <1>2 DEF Allocate, Inserted
  <2>2. at'[s] = position + 1 /\ \A q \in Puts : q # s => at'[q] = at[q]
    BY <1>0, <1>2 DEF Allocate, TypeOK
  <2>3. \A m \in Inserted : rowAt[m] # position + 1
    BY <1>0 DEF PositionInv, TypeOK
  <2>4. \A q \in Puts : at[q] # position + 1
    BY <1>0 DEF PositionInv, TypeOK
  <2> QED BY <2>1, <2>2, <2>3, <2>4 DEF HeldInv, PutPositionsUnique
<1>3. ASSUME NEW s \in Puts, NEW d \in Devices, InsertMessage(s, d)
      PROVE  HeldInv' /\ PutPositionsUnique'
  <2>1. Inserting(s, d) /\ at[s] # 0 /\ s \in Senders
    BY <1>0, <1>3 DEF InsertMessage, Inserting
  <2>2. /\ rowAt'[<<s, d>>] = at[s] /\ \A m \in Rows : m # <<s, d>> => rowAt'[m] = rowAt[m]
        /\ Inserted' = Inserted \cup {<<s, d>>}
    BY <2>1, InsertChanges
  <2>3. at'[s] = 0 /\ \A q \in Puts : q # s => at'[q] = at[q]
    BY <1>0, <1>3 DEF InsertMessage, TypeOK
  <2>4. \A m \in Inserted : m[1] \in Puts => rowAt[m] # at[s]
    BY <2>1 DEF HeldInv
  <2>5. \A m \in Inserted : m # <<s, d>> => rowAt'[m] = rowAt[m]
    BY <1>0, <2>2
  <2>6. PutPositionsUnique'
    BY <2>2, <2>4, <2>5 DEF PutPositionsUnique
  <2>7. ASSUME NEW q \in Puts, at'[q] # 0
        PROVE  /\ \A m \in Inserted' : m[1] \in Puts => rowAt'[m] # at'[q]
               /\ \A r \in Puts : at'[r] = at'[q] => r = q
    <3>1. q # s /\ at'[q] = at[q]
      BY <2>3, <2>7
    <3>2. at[q] # at[s]
      BY <2>1, <3>1 DEF HeldInv
    <3> QED BY <2>2, <2>3, <2>5, <2>7, <3>1, <3>2 DEF HeldInv
  <2> QED BY <2>6, <2>7 DEF HeldInv
<1>4. ASSUME NEW s \in Notices, NEW d \in Devices, InsertNotice(s, d)
      PROVE  HeldInv' /\ PutPositionsUnique'
  <2>1. Inserting(s, d) /\ at[s] # 0 /\ s \in Senders /\ s \notin Puts
    BY <1>0, <1>4 DEF InsertNotice, Inserting, PositionInv
  <2>2. /\ \A m \in Rows : m # <<s, d>> => rowAt'[m] = rowAt[m]
        /\ Inserted' = Inserted \cup {<<s, d>>}
    BY <2>1, InsertChanges
  <2>3. at' = at
    BY <1>4 DEF InsertNotice
  <2>4. \A m \in Inserted' : m[1] \in Puts => m \in Inserted /\ rowAt'[m] = rowAt[m]
    BY <1>0, <2>1, <2>2
  <2> QED BY <2>3, <2>4 DEF HeldInv, PutPositionsUnique
<1>5. ASSUME NEW s \in Notices, ReadPosition(s) PROVE HeldInv' /\ PutPositionsUnique'
  <2>1. rowAt' = rowAt /\ \A q \in Puts : at'[q] = at[q]
    BY <1>0, <1>5 DEF ReadPosition, TypeOK
  <2> QED BY <1>1, <2>1
<1>6. ASSUME NEW s \in Senders, SenderStops(s) PROVE HeldInv' /\ PutPositionsUnique'
  <2>1. rowAt' = rowAt /\ \A q \in Puts : at'[q] = at[q] \/ at'[q] = 0
    BY <1>0, <1>6 DEF SenderStops, TypeOK
  <2> QED BY <1>1, <2>1
<1>7. ASSUME \/ \E s \in Puts : CheckTxn(s) \/ StoreTxn(s)
             \/ \E s \in Notices : BumpPosition(s)
             \/ \E t \in Txns : ForeignTxn(t)
             \/ \E d \in Devices : SelectPage(d) \/ Acknowledge(d) \/ ReadMax(d) \/ Reply(d) \/ SyncLost(d)
             \/ Cleanup
      PROVE  HeldInv' /\ PutPositionsUnique'
  <2>1. rowAt' = rowAt /\ at' = at
    BY <1>7
      DEF CheckTxn, StoreTxn, BumpPosition, ForeignTxn, SelectPage, Acknowledge, ReadMax, Reply, SyncLost, Cleanup
  <2> QED BY <1>1, <2>1
<1> QED BY <1>2, <1>3, <1>4, <1>5, <1>6, <1>7 DEF Step

-----------------------------------------------------------------------------
(* An answered transaction has its messages. *)

LEMMA RowsKept ==
  ASSUME Inv, Step, NEW m \in Rows, rowAt[m] # 0
  PROVE  rowAt'[m] = rowAt[m]
<1>1. CASE NotInserting
  BY <1>1 DEF NotInserting
<1>2. ASSUME NEW s \in Senders, NEW d \in Devices, Inserting(s, d) PROVE rowAt'[m] = rowAt[m]
  <2>1. <<s, d>> \in Rows /\ rowAt[<<s, d>>] = 0
    BY <1>2 DEF Inserting, Inv, TodoInv, Rows
  <2> QED BY <1>2, <2>1 DEF Inserting, InsertRow, Inv, TypeOK
<1> QED BY <1>1, <1>2, InsertsOrNot

LEMMA StoredForKept ==
  ASSUME Inv, Step, NEW t \in Txns, NEW d \in Devices, StoredFor(t, d)
  PROVE  StoredFor(t, d)'
<1>1. PICK q \in Puts : TxnOf[q] = t /\ rowAt[<<q, d>>] # 0
  BY DEF StoredFor
<1>2. <<q, d>> \in Rows
  BY DEF Rows, Senders
<1> QED BY <1>1, <1>2, RowsKept DEF StoredFor

LEMMA StepTxn ==
  ASSUME ConstantsAssumption, Inv, TxnInv, Step
  PROVE  TxnInv'
<1> USE DEF tableVars, sendVars, ackVars, readVars, boundVars
<1>0. /\ Puts \subseteq Senders /\ Notices \subseteq Senders /\ Puts \cap Notices = {}
      /\ \A s \in Senders, d \in Devices : <<s, d>> \in Rows
      /\ \A s \in Puts : TxnOf[s] \in Txns
      /\ \A t \in Txns : Targets[t] \subseteq Devices
      /\ txns \subseteq Txns
  BY DEF ConstantsAssumption, Senders, Rows, Inv, TypeOK
<1>1. \A t \in Txns : \A d \in Targets[t] : StoredFor(t, d) => StoredFor(t, d)'
  BY <1>0, StoredForKept
<1>2. ASSUME UNCHANGED <<txns, foreign>>,
             \A s \in Puts : /\ step'[s] = step[s] \/ step'[s] = "failed"
                             /\ step[s] = "sending" => todo[s] \subseteq todo'[s] \/ step'[s] = "failed"
      PROVE  TxnInv'
  <2>1. \A t \in txns' \ foreign' : \A d \in Targets[t] : StoredFor(t, d)'
    BY <1>0, <1>1, <1>2 DEF TxnInv
  <2>2. ASSUME NEW s \in Puts, step'[s] = "sending", NEW d \in Targets[TxnOf[s]]
        PROVE  d \in todo'[s] \/ StoredFor(TxnOf[s], d)'
    <3>1. step[s] = "sending" /\ todo[s] \subseteq todo'[s]
      BY <1>2, <2>2
    <3> QED BY <1>0, <1>1, <3>1 DEF TxnInv
  <2>3. \A s \in Puts : step'[s] = "answered" => TxnOf[s] \in txns'
    BY <1>2 DEF TxnInv
  <2> QED BY <2>1, <2>2, <2>3 DEF TxnInv
<1>3. ASSUME NEW s \in Puts, CheckTxn(s) PROVE TxnInv'
  <2>1. \A q \in Puts : q # s => step'[q] = step[q] /\ todo'[q] = todo[q]
    BY <1>0, <1>3 DEF CheckTxn, Inv, TypeOK
  <2>2. \/ step'[s] = "answered" /\ TxnOf[s] \in txns
        \/ step'[s] = "sending" /\ todo'[s] = Targets[TxnOf[s]]
    BY <1>0, <1>3 DEF CheckTxn, Inv, TypeOK
  <2>3. txns' = txns /\ foreign' = foreign
    BY <1>3 DEF CheckTxn
  <2> QED BY <1>0, <1>1, <2>1, <2>2, <2>3 DEF TxnInv
<1>4. ASSUME NEW s \in Puts, NEW d \in Devices, InsertMessage(s, d) PROVE TxnInv'
  <2>1. StoredFor(TxnOf[s], d)'
    <3>1. rowAt'[<<s, d>>] = at[s] /\ at[s] # 0
      BY <1>0, <1>4 DEF InsertMessage, InsertRow, Inv, TypeOK
    <3> QED BY <3>1 DEF StoredFor
  <2>2. /\ todo'[s] = todo[s] \ {d} /\ \A q \in Puts : q # s => todo'[q] = todo[q]
        /\ UNCHANGED <<txns, foreign, step>>
    BY <1>0, <1>4 DEF InsertMessage, Inv, TypeOK
  <2> QED BY <1>0, <1>1, <2>1, <2>2 DEF TxnInv
<1>5. ASSUME NEW s \in Puts, StoreTxn(s) PROVE TxnInv'
  <2>1. \A d \in Targets[TxnOf[s]] : StoredFor(TxnOf[s], d)
    BY <1>5 DEF StoreTxn, TxnInv
  <2>2. /\ txns' = txns \cup {TxnOf[s]} /\ foreign' = foreign /\ todo' = todo
        /\ step'[s] = "answered" /\ \A q \in Puts : q # s => step'[q] = step[q]
    BY <1>0, <1>5 DEF StoreTxn, Inv, TypeOK
  <2> QED BY <1>0, <1>1, <2>1, <2>2 DEF TxnInv
<1>6. ASSUME NEW s \in Senders, SenderStops(s) PROVE TxnInv'
  BY <1>0, <1>2, <1>6 DEF SenderStops, Inv, TypeOK
<1>7. ASSUME NEW t \in Txns, ForeignTxn(t) PROVE TxnInv'
  BY <1>0, <1>1, <1>7 DEF ForeignTxn, TxnInv
<1>8. ASSUME NEW s \in Notices, BumpPosition(s) \/ ReadPosition(s) \/ \E d \in Devices : InsertNotice(s, d)
      PROVE  TxnInv'
  <2>1. UNCHANGED <<txns, foreign>> /\ \A q \in Puts : step'[q] = step[q] /\ todo'[q] = todo[q]
    BY <1>0, <1>8 DEF BumpPosition, ReadPosition, InsertNotice, Inv, TypeOK
  <2> QED BY <1>2, <2>1
<1>9. ASSUME \/ \E s \in Puts : Allocate(s)
             \/ \E d \in Devices : SelectPage(d) \/ Acknowledge(d) \/ ReadMax(d) \/ Reply(d) \/ SyncLost(d)
             \/ Cleanup
      PROVE  TxnInv'
  <2>1. UNCHANGED <<txns, foreign, step, todo>>
    BY <1>9 DEF Allocate, SelectPage, Acknowledge, ReadMax, Reply, SyncLost, Cleanup
  <2> QED BY <1>2, <2>1
<1> QED BY <1>3, <1>4, <1>5, <1>6, <1>7, <1>8, <1>9 DEF Step

-----------------------------------------------------------------------------
(* Nothing is passed over unexplained. *)

(* What is received, late or tied stays so. *)
LEMMA ExplainedKept ==
  ASSUME Inv, Step, seen \in [Devices -> SUBSET Rows],
         \A d \in Devices : seen[d] \subseteq seen'[d],
         late \subseteq late', raced \subseteq raced',
         NEW m \in Rows, Explained(m)
  PROVE  Explained(m)'
<1>1. m[2] \in Devices
  BY DEF Rows
<1>2. CASE Tied(m)
  <2>1. PICK n \in Inserted \ {m} : n[2] = m[2] /\ rowAt[n] = rowAt[m]
    BY <1>2 DEF Tied
  <2>2. n \in Rows /\ rowAt[n] # 0 /\ rowAt[m] # 0
    BY <2>1 DEF Inserted
  <2>3. rowAt'[n] = rowAt[n] /\ rowAt'[m] = rowAt[m]
    BY <2>2, RowsKept
  <2>4. n \in Inserted' \ {m}
    BY <2>1, <2>2, <2>3 DEF Inserted
  <2>5. Tied(m)'
    BY <2>1, <2>3, <2>4 DEF Tied
  <2> QED BY <2>5 DEF Explained
<1>3. CASE m \in seen[m[2]] \cup late \cup raced
  BY <1>1, <1>3 DEF Explained
<1> QED BY <1>2, <1>3 DEF Explained

(* Steps that neither insert a row nor read. *)
LEMMA QuietRead ==
  ASSUME ReadInv, UNCHANGED <<rowAt, late, raced, delivered, deleted, readVars>>
  PROVE  ReadInv'
<1>1. Inserted' = Inserted
  BY DEF Inserted
<1>2. \A m : Tied(m)' <=> Tied(m)
  BY <1>1 DEF Tied
<1>3. \A m : Explained(m)' <=> Explained(m)
  BY <1>2 DEF Explained, readVars
<1>4. \A p : Reached(p)' <=> Reached(p)
  BY <1>1 DEF Reached
<1>5. SinceInv'
  BY <1>1, <1>3, <1>4 DEF ReadInv, SinceInv, readVars
<1>6. PageInv'
  BY <1>1, <1>3 DEF ReadInv, PageInv, readVars
<1>7. BatchInv'
  BY <1>1, <1>3 DEF ReadInv, BatchInv, readVars
<1>8. LossesExplained'
  BY <1>2 DEF ReadInv, LossesExplained, readVars
<1> QED BY <1>5, <1>6, <1>7, <1>8 DEF ReadInv

(* A new row is late, or above all that was reached, or inserted behind an empty page. *)
LEMMA InsertRead ==
  ASSUME Inv, ReadInv, Step, NEW s \in Senders, NEW d \in Devices,
         Inserting(s, d), at[s] # 0, UNCHANGED <<ackVars, readVars>>
  PROVE  ReadInv'
<1> DEFINE new == <<s, d>>
<1> USE DEF Inv, readVars, ackVars
<1>1. /\ new \in Rows /\ rowAt'[new] = at[s] /\ at[s] \in Nat
      /\ \A m \in Rows : m # new => rowAt'[m] = rowAt[m]
      /\ Inserted' = Inserted \cup {new}
      /\ new \in late' \/ \A n \in Inserted : rowAt[n] < at[s]
      /\ late \subseteq late' /\ raced \subseteq raced'
  BY InsertChanges DEF TypeOK
<1>2. \A m \in Rows : Explained(m) => Explained(m)'
  BY <1>1, ExplainedKept DEF TypeOK
<1>3. /\ Inserted \subseteq Rows /\ \A m \in Inserted : rowAt'[m] = rowAt[m] /\ rowAt[m] \in Nat /\ m # new
      /\ new[2] = d
  BY <1>1, InsertChanges DEF Inserted, TypeOK
<1>4. \A p : Reached(p) => Reached(p)'
  BY <1>1, <1>3 DEF Reached
<1>5. ASSUME NEW p \in Nat, Reached(p), at[s] <= p PROVE new \in late'
  <2>1. PICK n \in Inserted : p <= rowAt[n]
    BY <1>1, <1>5 DEF Reached
  <2> QED BY <1>1, <1>3, <1>5, <2>1
<1>6. new \in late' \/ new \in raced' => Explained(new)'
  BY DEF Explained
<1> HIDE DEF new
<1>7. SinceInv'
  <2>1. ASSUME NEW e \in Devices, NEW m \in Inserted', m[2] = e, rowAt'[m] <= since[e]
        PROVE  Explained(m)'
    <3>1. CASE m = new
      <4>1. Reached(since[e]) /\ since[e] \in Nat
        BY DEF ReadInv, SinceInv, TypeOK
      <4> QED BY <1>1, <1>5, <1>6, <2>1, <3>1, <4>1
    <3>2. CASE m \in Inserted
      <4>1. Explained(m)
        BY <1>3, <2>1, <3>2 DEF ReadInv, SinceInv
      <4> QED BY <1>2, <1>3, <3>2, <4>1
    <3> QED BY <1>1, <3>1, <3>2
  <2>2. \A e \in Devices : Reached(since[e])' /\ Reached(nextBatch[e])'
    BY <1>4 DEF ReadInv, SinceInv, Reached
  <2> QED BY <2>1, <2>2 DEF SinceInv
<1>8. PageInv'
  <2> SUFFICES ASSUME NEW e \in Devices, reader[e] \in {"selected", "acked"}
               PROVE  /\ page[e] \subseteq Inserted'
                      /\ \A n \in page[e], m \in Inserted' :
                           m[2] = e /\ rowAt'[m] <= rowAt'[n] => m \in page[e] \/ Explained(m)'
                      /\ page[e] = {} => \A m \in Inserted' : m[2] = e => Explained(m)'
    BY DEF PageInv
  <2>1. /\ page[e] \subseteq Inserted
        /\ \A n \in page[e], m \in Inserted :
             m[2] = e /\ rowAt[m] <= rowAt[n] => m \in page[e] \/ Explained(m)
        /\ page[e] = {} => \A m \in Inserted : m[2] = e => Explained(m)
    BY DEF ReadInv, PageInv
  <2>2. ASSUME NEW n \in page[e], NEW m \in Inserted', m[2] = e, rowAt'[m] <= rowAt'[n]
        PROVE  m \in page[e] \/ Explained(m)'
    <3>1. n \in Inserted /\ rowAt'[n] = rowAt[n]
      BY <1>3, <2>1
    <3>2. CASE m = new
      BY <1>1, <1>3, <1>6, <2>2, <3>1, <3>2
    <3>3. CASE m \in Inserted
      <4>1. m \in page[e] \/ Explained(m)
        BY <1>3, <2>1, <2>2, <3>1, <3>3
      <4> QED BY <1>2, <1>3, <3>3, <4>1
    <3> QED BY <1>1, <3>2, <3>3
  <2>3. ASSUME page[e] = {}, NEW m \in Inserted', m[2] = e PROVE Explained(m)'
    <3>1. CASE m = new
      <4>1. m = <<s, d>> /\ m[2] = d
        BY <3>1, <1>3 DEF new
      <4>2. m \in raced'
        BY <2>3, <4>1 DEF Inserting, InsertRow
      <4> QED BY <1>6, <3>1, <4>2
    <3>2. CASE m \in Inserted
      <4>1. Explained(m)
        BY <2>1, <2>3, <3>2
      <4> QED BY <1>2, <1>3, <3>2, <4>1
    <3> QED BY <1>1, <3>1, <3>2
  <2> QED BY <1>1, <2>1, <2>2, <2>3
<1>9. BatchInv'
  <2> SUFFICES ASSUME NEW e \in Devices, reader[e] = "replying",
                      NEW m \in Inserted', m[2] = e, rowAt'[m] <= nextBatch[e]
               PROVE  m \in page[e] \/ Explained(m)'
    BY DEF BatchInv
  <2>1. CASE m = new
    <3>1. Reached(nextBatch[e]) /\ nextBatch[e] \in Nat
      BY DEF ReadInv, SinceInv, TypeOK
    <3> QED BY <1>1, <1>5, <1>6, <2>1, <3>1
  <2>2. CASE m \in Inserted
    <3>1. m \in page[e] \/ Explained(m)
      BY <1>3, <2>2 DEF ReadInv, BatchInv
    <3> QED BY <1>2, <1>3, <2>2, <3>1
  <2> QED BY <1>1, <2>1, <2>2
<1>10. LossesExplained'
  <2>1. \A m \in delivered : m \in Rows /\ Explained(m)
    BY DEF ReadInv, LossesExplained, Explained, TypeOK
  <2>2. \A m \in delivered : Explained(m)'
    BY <1>2, <2>1
  <2> QED BY <2>2 DEF LossesExplained, Explained
<1> QED BY <1>7, <1>8, <1>9, <1>10 DEF ReadInv

(* Steps of a sync that leave the rows and what was received alone: only the part
   about the device that syncs is left to show. *)
LEMMA SyncRead ==
  ASSUME Inv, ReadInv, Step, NEW d \in Devices,
         UNCHANGED <<rowAt, late, raced, deleted, since, seen>>,
         delivered \subseteq delivered', \A m \in delivered' : Explained(m),
         \A e \in Devices : e # d =>
           reader'[e] = reader[e] /\ page'[e] = page[e] /\ nextBatch'[e] = nextBatch[e],
         Reached(nextBatch'[d]),
         reader'[d] \in {"selected", "acked"} =>
           /\ page'[d] \subseteq Inserted
           /\ \A n \in page'[d], m \in Inserted :
                m[2] = d /\ rowAt[m] <= rowAt[n] => m \in page'[d] \/ Explained(m)
           /\ page'[d] = {} => \A m \in Inserted : m[2] = d => Explained(m),
         reader'[d] = "replying" =>
           \A m \in Inserted : m[2] = d /\ rowAt[m] <= nextBatch'[d] => m \in page'[d] \/ Explained(m)
  PROVE  ReadInv'
<1>1. Inserted' = Inserted
  BY DEF Inserted
<1>2. \A m : Explained(m)' <=> Explained(m)
  BY <1>1 DEF Explained, Tied
<1>3. \A p : (p = 0 \/ \E n \in Inserted' : p <= rowAt'[n]) <=> Reached(p)
  BY <1>1 DEF Reached
<1>4. SinceInv'
  <2>1. \A e \in Devices : Reached(since[e])' /\ Reached(nextBatch[e])'
    BY <1>3 DEF ReadInv, SinceInv, Reached
  <2> QED BY <1>1, <1>2, <2>1 DEF ReadInv, SinceInv
<1>5. PageInv'
  <2>1. ASSUME NEW e \in Devices, reader'[e] \in {"selected", "acked"}
        PROVE  /\ page'[e] \subseteq Inserted
               /\ \A n \in page'[e], m \in Inserted :
                    m[2] = e /\ rowAt[m] <= rowAt[n] => m \in page'[e] \/ Explained(m)
               /\ page'[e] = {} => \A m \in Inserted : m[2] = e => Explained(m)
    <3>1. CASE e = d
      BY <2>1, <3>1
    <3>2. CASE e # d
      BY <2>1, <3>2 DEF ReadInv, PageInv
    <3> QED BY <3>1, <3>2
  <2> QED BY <1>1, <1>2, <2>1 DEF PageInv
<1>6. BatchInv'
  <2>1. ASSUME NEW e \in Devices, reader'[e] = "replying"
        PROVE  \A m \in Inserted :
                 m[2] = e /\ rowAt[m] <= nextBatch'[e] => m \in page'[e] \/ Explained(m)
    <3>1. CASE e = d
      BY <2>1, <3>1
    <3>2. CASE e # d
      BY <2>1, <3>2 DEF ReadInv, BatchInv
    <3> QED BY <3>1, <3>2
  <2> QED BY <1>1, <1>2, <2>1 DEF BatchInv
<1>7. LossesExplained'
  <2>1. \A m \in delivered' : Explained(m)'
    BY <1>2
  <2> QED BY <2>1 DEF LossesExplained, Explained
<1> QED BY <1>4, <1>5, <1>6, <1>7 DEF ReadInv

LEMMA DeliveredExplained ==
  ASSUME ReadInv
  PROVE  \A m \in delivered : Explained(m)
  BY DEF ReadInv, LossesExplained, Explained

(* A page leaves out what was marked delivered, what the device has acknowledged, and
   rows above or tied with its own. *)
LEMMA SelectRead ==
  ASSUME ConstantsAssumption, Inv, ReadInv, Step, NEW d \in Devices, SelectPage(d)
  PROVE  ReadInv'
<1> USE DEF Inv
<1>1. PICK p \in Pages(Undelivered(d)) : page' = [page EXCEPT ![d] = p]
  BY DEF SelectPage
<1>2. /\ p \subseteq Undelivered(d)
      /\ \A n \in p, m \in Undelivered(d) \ p : rowAt[n] <= rowAt[m]
      /\ p = {} => Undelivered(d) = {}
  <2>1. /\ p \in SUBSET Undelivered(d)
        /\ \A n \in p, m \in Undelivered(d) \ p : rowAt[n] <= rowAt[m]
        /\ (Cardinality(p) = Limit \/ p = Undelivered(d))
    BY <1>1 DEF Pages
  <2>2. Cardinality({}) # Limit
    BY FS_EmptySet DEF ConstantsAssumption
  <2> QED BY <2>1, <2>2
<1>3. /\ p \subseteq Inserted /\ Inserted \subseteq Rows
      /\ \A m \in p : m[2] = d
      /\ \A m \in Inserted : rowAt[m] \in Nat
  BY <1>2 DEF Undelivered, Table, Inserted, TypeOK
<1>4. ASSUME NEW m \in Inserted, m[2] = d PROVE m \in Undelivered(d) \/ Explained(m)
  <2>1. CASE m \in delivered
    BY <2>1, DeliveredExplained
  <2>2. CASE m \in deleted
    BY <2>2, DeliveredExplained DEF ReadInv
  <2>3. CASE rowAt[m] <= since[d]
    BY <1>4, <2>3 DEF ReadInv, SinceInv
  <2>4. since[d] \in Nat /\ rowAt[m] \in Nat
    BY <1>3 DEF TypeOK
  <2> QED BY <1>4, <2>1, <2>2, <2>3, <2>4 DEF Undelivered, Table
<1>5. ASSUME NEW n \in p, NEW m \in Inserted, m[2] = d, rowAt[m] <= rowAt[n], m \notin p
      PROVE  Explained(m)
  <2>1. CASE m \in Undelivered(d)
    <3>1. rowAt[m] = rowAt[n]
      BY <1>2, <1>3, <1>5, <2>1
    <3>2. Tied(m)
      BY <1>3, <1>5, <3>1 DEF Tied
    <3> QED BY <3>2 DEF Explained
  <2> QED BY <1>4, <1>5, <2>1
<1>6. page'[d] = p /\ \A e \in Devices : e # d => page'[e] = page[e]
  BY <1>1 DEF TypeOK
<1>7. reader'[d] = "selected" /\ \A e \in Devices : e # d => reader'[e] = reader[e]
  BY DEF SelectPage, TypeOK
<1>8. UNCHANGED <<rowAt, late, raced, delivered, deleted, since, seen, nextBatch>>
  BY DEF SelectPage, tableVars, ackVars
<1>9. Reached(nextBatch'[d])
  BY <1>8 DEF ReadInv, SinceInv
<1> QED BY <1>2, <1>3, <1>4, <1>5, <1>6, <1>7, <1>8, <1>9, SyncRead, DeliveredExplained

LEMMA AcknowledgeRead ==
  ASSUME Inv, ReadInv, Step, NEW d \in Devices, Acknowledge(d)
  PROVE  ReadInv'
<1> USE DEF Inv
<1>1. \A m \in delivered' : Explained(m)
  BY DeliveredExplained DEF Acknowledge, Table, ReadInv, SinceInv
<1>2. reader'[d] = "acked" /\ \A e \in Devices : e # d => reader'[e] = reader[e]
  BY DEF Acknowledge, TypeOK
<1>3. /\ UNCHANGED <<rowAt, late, raced, deleted, since, seen, page, nextBatch>>
      /\ delivered \subseteq delivered' /\ reader[d] = "selected"
  BY DEF Acknowledge, tableVars
<1>4. Reached(nextBatch'[d])
  BY <1>3 DEF ReadInv, SinceInv
<1>5. /\ page'[d] \subseteq Inserted
      /\ \A n \in page'[d], m \in Inserted :
           m[2] = d /\ rowAt[m] <= rowAt[n] => m \in page'[d] \/ Explained(m)
      /\ page'[d] = {} => \A m \in Inserted : m[2] = d => Explained(m)
  BY <1>3 DEF ReadInv, PageInv
<1> QED BY <1>1, <1>2, <1>3, <1>4, <1>5, SyncRead

LEMMA ReadMaxRead ==
  ASSUME Inv, ReadInv, Step, NEW d \in Devices, ReadMax(d)
  PROVE  ReadInv'
<1> USE DEF Inv
<1>1. reader'[d] = "replying" /\ \A e \in Devices : e # d => reader'[e] = reader[e]
  BY DEF ReadMax, TypeOK
<1>2. /\ UNCHANGED <<rowAt, late, raced, delivered, deleted, since, seen, page>>
      /\ reader[d] = "acked"
  BY DEF ReadMax, tableVars, ackVars
<1>3. /\ nextBatch'[d] = IF page[d] # {} THEN MaxAt(page[d]) ELSE MaxAt(Table)
      /\ \A e \in Devices : e # d => nextBatch'[e] = nextBatch[e]
  BY DEF ReadMax, TypeOK
<1>4. /\ page[d] \subseteq Inserted
      /\ \A n \in page[d], m \in Inserted :
           m[2] = d /\ rowAt[m] <= rowAt[n] => m \in page[d] \/ Explained(m)
      /\ page[d] = {} => \A m \in Inserted : m[2] = d => Explained(m)
  BY <1>2 DEF ReadInv, PageInv
<1>5. Inserted \subseteq Rows /\ Table \subseteq Inserted /\ \A m \in Rows : rowAt[m] \in Nat
  BY DEF Inserted, Table, TypeOK
<1>6. Reached(nextBatch'[d])
  /\ \A m \in Inserted : m[2] = d /\ rowAt[m] <= nextBatch'[d] => m \in page[d] \/ Explained(m)
  <2>1. CASE page[d] # {}
    <3>1. PICK n \in page[d] : nextBatch'[d] = rowAt[n]
      BY <1>3, <1>4, <1>5, <2>1, MaxAtIsHighest
    <3>2. n \in Inserted /\ rowAt[n] <= rowAt[n]
      BY <1>4, <1>5
    <3>3. Reached(nextBatch'[d])
      BY <3>1, <3>2 DEF Reached
    <3> QED BY <1>4, <3>1, <3>3
  <2>2. CASE page[d] = {}
    <3>1. Reached(nextBatch'[d])
      <4>1. CASE Table = {}
        BY <1>3, <2>2, <4>1 DEF MaxAt, Reached
      <4>2. CASE Table # {}
        <5>1. PICK n \in Table : MaxAt(Table) = rowAt[n]
          BY <1>5, <4>2, MaxAtIsHighest
        <5>2. n \in Inserted /\ rowAt[n] <= rowAt[n]
          BY <1>5
        <5> QED BY <1>3, <2>2, <5>1, <5>2 DEF Reached
      <4> QED BY <4>1, <4>2
    <3> QED BY <1>4, <2>2, <3>1
  <2> QED BY <2>1, <2>2
<1> QED BY <1>1, <1>2, <1>3, <1>6, SyncRead, DeliveredExplained

LEMMA LostRead ==
  ASSUME Inv, ReadInv, Step, NEW d \in Devices, SyncLost(d)
  PROVE  ReadInv'
<1> USE DEF Inv
<1>1. reader'[d] = "idle" /\ \A e \in Devices : e # d => reader'[e] = reader[e]
  BY DEF SyncLost, TypeOK
<1>2. UNCHANGED <<rowAt, late, raced, delivered, deleted, since, seen>>
  BY DEF SyncLost, tableVars, ackVars
<1>3. nextBatch'[d] = 0 /\ \A e \in Devices : e # d => page'[e] = page[e] /\ nextBatch'[e] = nextBatch[e]
  BY DEF SyncLost, TypeOK
<1>4. Reached(nextBatch'[d])
  BY <1>3 DEF Reached
<1> QED BY <1>1, <1>2, <1>3, <1>4, SyncRead, DeliveredExplained

(* The answer arrives: its page is received, all else below its position explained. *)
LEMMA ReplyRead ==
  ASSUME Inv, ReadInv, Step, NEW d \in Devices, Reply(d)
  PROVE  ReadInv'
<1> USE DEF Inv
<1>1. /\ reader[d] = "replying" /\ reader'[d] = "idle"
      /\ \A e \in Devices : e # d => reader'[e] = reader[e]
  BY DEF Reply, TypeOK
<1>2. UNCHANGED <<rowAt, late, raced, delivered, deleted>>
  BY DEF Reply, tableVars, ackVars
<1>3. /\ nextBatch'[d] = 0
      /\ since'[d] = IF nextBatch[d] = 0 THEN since[d] ELSE nextBatch[d]
      /\ seen'[d] = seen[d] \cup page[d]
      /\ \A e \in Devices : e # d =>
           page'[e] = page[e] /\ nextBatch'[e] = nextBatch[e] /\ since'[e] = since[e] /\ seen'[e] = seen[e]
  BY DEF Reply, TypeOK
<1>4. Inserted' = Inserted /\ Inserted \subseteq Rows
  BY <1>2 DEF Inserted
<1>5. \A m \in Rows : Explained(m) => Explained(m)'
  BY <1>2, <1>3, ExplainedKept DEF TypeOK
<1>6. \A m \in Rows : m[2] = d /\ m \in page[d] => Explained(m)'
  BY <1>3 DEF Explained
<1>7. SinceInv'
  <2>1. \A e \in Devices : Reached(since[e])' /\ Reached(nextBatch[e])'
    BY <1>2, <1>3, <1>4 DEF ReadInv, SinceInv, Reached
  <2>2. ASSUME NEW e \in Devices, NEW m \in Inserted, m[2] = e, rowAt[m] <= since'[e]
        PROVE  Explained(m)'
    <3>1. CASE rowAt[m] <= since[e]
      BY <1>4, <1>5, <2>2, <3>1 DEF ReadInv, SinceInv
    <3>2. CASE e = d /\ since'[d] = nextBatch[d]
      BY <1>1, <1>4, <1>5, <1>6, <2>2, <3>2 DEF ReadInv, BatchInv
    <3> QED BY <1>3, <2>2, <3>1, <3>2
  <2> QED BY <1>2, <1>4, <2>1, <2>2 DEF SinceInv
<1>8. PageInv'
  <2> SUFFICES ASSUME NEW e \in Devices, reader'[e] \in {"selected", "acked"}
               PROVE  /\ page'[e] \subseteq Inserted'
                      /\ \A n \in page'[e], m \in Inserted' :
                           m[2] = e /\ rowAt'[m] <= rowAt'[n] => m \in page'[e] \/ Explained(m)'
                      /\ page'[e] = {} => \A m \in Inserted' : m[2] = e => Explained(m)'
    BY DEF PageInv
  <2>1. e # d /\ page'[e] = page[e] /\ reader[e] \in {"selected", "acked"}
    BY <1>1, <1>3
  <2>2. /\ page[e] \subseteq Inserted
        /\ \A n \in page[e], m \in Inserted :
             m[2] = e /\ rowAt[m] <= rowAt[n] => m \in page[e] \/ Explained(m)
        /\ page[e] = {} => \A m \in Inserted : m[2] = e => Explained(m)
    BY <2>1 DEF ReadInv, PageInv
  <2> QED BY <1>2, <1>4, <1>5, <2>1, <2>2
<1>9. BatchInv'
  <2> SUFFICES ASSUME NEW e \in Devices, reader'[e] = "replying",
                      NEW m \in Inserted, m[2] = e, rowAt[m] <= nextBatch'[e]
               PROVE  m \in page'[e] \/ Explained(m)'
    BY <1>2, <1>4 DEF BatchInv
  <2>1. e # d /\ page'[e] = page[e] /\ reader[e] = "replying" /\ nextBatch'[e] = nextBatch[e]
    BY <1>1, <1>3
  <2>2. m \in page[e] \/ Explained(m)
    BY <2>1 DEF ReadInv, BatchInv
  <2> QED BY <1>4, <1>5, <2>1, <2>2
<1>10. LossesExplained'
  <2>1. \A m \in delivered' : Explained(m)'
    BY <1>2, <1>5, DeliveredExplained DEF TypeOK
  <2> QED BY <2>1 DEF LossesExplained, Explained
<1> QED BY <1>2, <1>7, <1>8, <1>9, <1>10 DEF ReadInv

LEMMA CleanupRead ==
  ASSUME Inv, ReadInv, Cleanup
  PROVE  ReadInv'
<1>1. UNCHANGED <<rowAt, late, raced, delivered, readVars>> /\ deleted' \subseteq delivered
  BY DEF Cleanup, tableVars, ReadInv
<1>2. Inserted' = Inserted
  BY <1>1 DEF Inserted
<1>3. \A m : Explained(m)' <=> Explained(m)
  BY <1>1, <1>2 DEF Explained, Tied, readVars
<1>4. SinceInv' /\ PageInv' /\ BatchInv'
  BY <1>1, <1>2, <1>3 DEF ReadInv, SinceInv, PageInv, BatchInv, Reached, readVars
<1>5. LossesExplained'
  BY <1>1, <1>2 DEF ReadInv, LossesExplained, Tied, readVars
<1> QED BY <1>1, <1>4, <1>5 DEF ReadInv

LEMMA StepRead ==
  ASSUME ConstantsAssumption, Inv, ReadInv, Step
  PROVE  ReadInv'
<1> USE DEF tableVars, sendVars, ackVars, boundVars
<1>0. Puts \subseteq Senders /\ Notices \subseteq Senders
  BY DEF Senders
<1>1. ASSUME NEW s \in Puts, NEW d \in Devices, InsertMessage(s, d) PROVE ReadInv'
  <2>1. Inserting(s, d) /\ at[s] # 0 /\ UNCHANGED <<ackVars, readVars>>
    BY <1>1 DEF InsertMessage, Inserting
  <2> QED BY <1>0, <2>1, InsertRead
<1>2. ASSUME NEW s \in Notices, NEW d \in Devices, InsertNotice(s, d) PROVE ReadInv'
  <2>1. Inserting(s, d) /\ at[s] # 0 /\ UNCHANGED <<ackVars, readVars>>
    BY <1>0, <1>2 DEF InsertNotice, Inserting, Inv, PositionInv
  <2> QED BY <1>0, <2>1, InsertRead
<1>3. ASSUME \/ \E s \in Puts : CheckTxn(s) \/ Allocate(s) \/ StoreTxn(s)
             \/ \E s \in Senders : SenderStops(s)
             \/ \E t \in Txns : ForeignTxn(t)
             \/ \E s \in Notices : BumpPosition(s) \/ ReadPosition(s)
      PROVE  ReadInv'
  <2>1. UNCHANGED <<rowAt, late, raced, delivered, deleted, readVars>>
    BY <1>3
      DEF CheckTxn, Allocate, StoreTxn, SenderStops, ForeignTxn, BumpPosition, ReadPosition
  <2> QED BY <2>1, QuietRead
<1> QED
  BY <1>1, <1>2, <1>3, SelectRead, AcknowledgeRead, ReadMaxRead, ReplyRead, LostRead, CleanupRead
    DEF Step

-----------------------------------------------------------------------------
(* The theorems *)

Everything ==
  Inv /\ HeldInv /\ PutPositionsUnique /\ TxnInv /\ ReadInv

LEMMA InitEverything == ConstantsAssumption /\ Init => Everything
<1> SUFFICES ASSUME ConstantsAssumption, Init PROVE Everything
  OBVIOUS
<1>1. TypeOK
  BY InitType
<1>2. Inserted = {} /\ \A s \in Senders, d \in Devices : rowAt[<<s, d>>] = 0
  BY DEF Init, Inserted, Rows
<1>3. PositionInv /\ TodoInv
  BY <1>2 DEF Init, PositionInv, TodoInv
<1>4. HeldInv /\ PutPositionsUnique /\ TxnInv
  BY <1>2 DEF Init, HeldInv, PutPositionsUnique, TxnInv, Senders
<1>5. ReadInv
  BY <1>2 DEF Init, ReadInv, SinceInv, PageInv, BatchInv, LossesExplained, Reached
<1> QED BY <1>1, <1>3, <1>4, <1>5 DEF Everything, Inv

LEMMA StepEverything ==
  ASSUME ConstantsAssumption, Everything, [Next]_vars
  PROVE  Everything'
<1>1. CASE UNCHANGED vars
  <2>1. Inserted' = Inserted
    BY <1>1 DEF Inserted, vars, tableVars
  <2>2. Inv'
    BY <1>1
      DEF Everything, Inv, TypeOK, PositionInv, TodoInv, vars, tableVars, sendVars, ackVars, readVars, boundVars
  <2>3. HeldInv' /\ PutPositionsUnique'
    BY <1>1, <2>1 DEF Everything, HeldInv, PutPositionsUnique, vars, tableVars, sendVars
  <2>4. TxnInv'
    <3>1. \A t, d : StoredFor(t, d)' <=> StoredFor(t, d)
      BY <1>1 DEF StoredFor, vars, tableVars
    <3> QED BY <1>1, <3>1 DEF Everything, TxnInv, vars, sendVars, boundVars
  <2>5. ReadInv'
    BY <1>1, QuietRead DEF Everything, vars, tableVars, ackVars
  <2> QED BY <2>2, <2>3, <2>4, <2>5 DEF Everything
<1>2. CASE Next
  <2>1. Step
    BY <1>2, NextIsStep
  <2>2. Inv'
    BY <2>1, StepType, StepPosition, StepTodo DEF Everything, Inv
  <2> QED BY <2>1, <2>2, StepHeld, StepTxn, StepRead DEF Everything
<1> QED BY <1>1, <1>2

LEMMA SpecEverything == Spec => []Everything
<1>1. ConstantsAssumption
  BY ConstantsAssumption
<1>2. Init => Everything
  BY <1>1, InitEverything
<1>3. Everything /\ [Next]_vars => Everything'
  BY <1>1, StepEverything
<1> QED BY <1>2, <1>3, PTL DEF Spec

(* Every variable keeps its type. *)
THEOREM TypeCorrect == Spec => []TypeOK
<1>1. Everything => TypeOK
  BY DEF Everything, Inv
<1> QED BY <1>1, SpecEverything, PTL

(* However many sends overlap or stop half-way, no two messages of PUT /sendToDevice
   have one stream position (to-device.ts, getNextStreamPosition). *)
THEOREM PositionsAreUnique == Spec => []PutPositionsUnique
<1>1. Everything => PutPositionsUnique
  BY DEF Everything
<1> QED BY <1>1, SpecEverything, PTL

(* A request that was answered has stored a message for each of its devices, whatever its
   retries did (to-device.ts, the transaction table). *)
THEOREM AnsweredTransactionsStored == Spec => []AnsweredIsStored
<1>1. Everything => AnsweredIsStored
  BY DEF Everything, TxnInv, StoredFor, AnsweredIsStored
<1> QED BY <1>1, SpecEverything, PTL

(* A message marked delivered was received, or was late, raced with an empty page or
   shares its position: nothing else loses one (to-device.ts, getToDeviceMessages). *)
THEOREM LossesAreExplained == Spec => []LossesExplained
<1>1. Everything => LossesExplained
  BY DEF Everything, ReadInv
<1> QED BY <1>1, SpecEverything, PTL
=============================================================================
