-------------------------- MODULE UserServicesProofs --------------------------
(***************************************************************************)
(* What the runs of KeyBackups and UserServices check, for any requests,   *)
(* users, sessions and clocks: an unchanged etag means unchanged keys and  *)
(* counts are exact; push rules are as asked (RulesInv), every pusher is   *)
(* notified (DeliveryInv), account data and what is ephemeral are what was *)
(* set last (DataInvariant, EphemeralInv), addresses are their provers'    *)
(* (AddressInv) and files stay as uploaded (FileInv).                      *)
(*                                                                         *)
(* Each part has its inductive invariant, lemmas that say how a statement  *)
(* moves the request that runs it, and one lemma per conjunct that a step  *)
(* may disturb.  Parts share no variable, so a step of one leaves the      *)
(* invariants of the others alone.                                         *)
(***************************************************************************)
EXTENDS KeyBackups, UserServices, FiniteSetTheorems, TLAPS

-----------------------------------------------------------------------------
(* Key backups.  An etag is new until its request has ended, which is what *)
(* makes a changed backup have a changed etag.                             *)

(* Nobody has seen the etag of a request that has not written it. *)
EtagInv ==
  \A r \in Writers : phase[r] # "answered" =>
    (\A v \in Versions : etag[v] # r) /\ (\A c \in Clients : seen[c] # r)

(* Uploads still storing into a deleted version were under way at its deletion;
   a version is emptied when it is deleted. *)
DeletionInv ==
  /\ \A p \in Puts : phase[p] = "storing" /\ version[p] \in deleted => p \in under
  /\ \A r \in Requests : phase[r] = "emptying" => r \in Removals /\ version[r] \in deleted
  /\ \A r \in Removals : phase[r] \notin {"storing", "counting", "updating"}
  /\ \A r \in Deletes : phase[r] # "storing"

(* A count that is held or kept is the number of rows, unless it became stale. *)
CountInv ==
  \A v \in Live : v \notin stale =>
    /\ \A r \in Updating(v) : tally[r] = Cardinality(Stored(v))
    /\ Open(v) = {} => count[v] = Cardinality(Stored(v))

(* A request that has begun, and a client's download, name a version that exists. *)
StartedInv ==
  /\ \A r \in Requests : phase[r] # "new" => version[r] \in 1..created
  /\ \A c \in Clients : client[c] # "idle" => backup[c] \in 1..created

(* A version that is still to be created is empty. *)
FreshInv ==
  /\ \A v \in Versions : v > created => rows[v] = NoRows
  /\ \A r \in Requests : phase[r] = "new" => tally[r] = 0

Inv == TypeOK /\ StartedInv /\ EtagInv /\ DeletionInv /\ FreshInv

-----------------------------------------------------------------------------
(* The disjuncts of Next without their grouping. *)
Step ==
  \/ CreateVersion
  \/ \E r \in Removals, v \in Versions : DeleteVersion(r, v)
  \/ \E r \in Removals : EmptyVersion(r)
  \/ \E p \in Puts, v \in Versions, batch \in SUBSET Sessions : CheckVersion(p, v, batch)
  \/ \E p \in Puts, s \in Sessions : StoreSession(p, s)
  \/ \E d \in Deletes, v \in Versions : DeleteAllKeys(d, v)
  \/ \E d \in Deletes, v \in Versions, batch \in SUBSET Sessions : DeleteKeys(d, v, batch)
  \/ \E r \in Writers : CountRows(r)
  \/ \E r \in Writers : UpdateVersion(r)
  \/ \E r \in Requests : Stop(r)
  \/ \E c \in Clients, v \in Versions : ReadVersion(c, v)
  \/ \E c \in Clients : AskKeys(c)
  \/ \E c \in Clients : ReadKeys(c)

LEMMA NextIsStep == Next => Step
<1> SUFFICES ASSUME Next PROVE Step
  OBVIOUS
<1>1. ASSUME NEW d \in Deletes, NEW v \in Versions, NEW room \in Rooms,
             DeleteKeys(d, v, RoomSessions(room))
      PROVE  Step
  <2>1. RoomSessions(room) \in SUBSET Sessions
    BY DEF RoomSessions
  <2> QED BY <1>1, <2>1 DEF Step
<1>2. ASSUME NEW d \in Deletes, NEW v \in Versions, NEW s \in Sessions, DeleteKeys(d, v, {s})
      PROVE  Step
  <2>1. {s} \in SUBSET Sessions
    OBVIOUS
  <2> QED BY <1>2, <2>1 DEF Step
<1>3. ASSUME NEW d \in Deletes, DeleteStep(d) PROVE Step
  BY <1>1, <1>2, <1>3 DEF DeleteStep, Step
<1>4. ASSUME NEW p \in Puts, PutStep(p) PROVE Step
  BY <1>4 DEF PutStep, Step
<1>5. ASSUME NEW c \in Clients, ClientStep(c) PROVE Step
  BY <1>5 DEF ClientStep, Step
<1> QED BY <1>3, <1>4, <1>5 DEF Next, Step

LEMMA CountIsNat ==
  ASSUME ConstantsAssumption, NEW v
  PROVE  Cardinality(Stored(v)) \in Nat
<1>1. Stored(v) \subseteq Rooms \X SessionIds
  BY DEF Stored, Sessions
<1>2. IsFiniteSet(Stored(v))
  BY <1>1, FS_Subset DEF ConstantsAssumption
<1> QED BY <1>2, FS_CardinalityType

-----------------------------------------------------------------------------
(* Types *)

LEMMA InitType == ConstantsAssumption /\ Init => TypeOK
  BY DEF Init, TypeOK, Backups, NoRows

LEMMA RowsType ==
  ASSUME TypeOK, NEW v \in Versions, NEW new \in Backups, ChangeRows(v, new)
  PROVE  rows' \in [Versions -> Backups] /\ stale' \subseteq Versions
  BY DEF TypeOK, ChangeRows

LEMMA NoRowsType == NoRows \in Backups
  BY DEF NoRows, Backups

LEMMA StartedVersion ==
  ASSUME ConstantsAssumption, TypeOK, StartedInv, NEW r \in Requests, phase[r] # "new"
  PROVE  version[r] \in Versions /\ version[r] \in 1..created
  BY DEF TypeOK, StartedInv, Versions

LEMMA StepType ==
  ASSUME ConstantsAssumption, TypeOK, StartedInv, Step
  PROVE  TypeOK'
<1> USE DEF Requests, Writers, tableVars, requestVars, clientVars
<1>1. CASE CreateVersion
  BY <1>1 DEF CreateVersion, TypeOK, Versions
<1>2. ASSUME NEW r \in Removals, NEW v \in Versions, DeleteVersion(r, v) PROVE TypeOK'
  BY <1>2 DEF DeleteVersion, TypeOK, Live
<1>3. ASSUME NEW r \in Removals, EmptyVersion(r) PROVE TypeOK'
  <2>1. version[r] \in Versions
    BY <1>3, StartedVersion DEF EmptyVersion
  <2>2. rows' \in [Versions -> Backups] /\ stale' \subseteq Versions
    BY <1>3, <2>1, NoRowsType, RowsType DEF EmptyVersion
  <2> QED BY <1>3, <2>2 DEF EmptyVersion, TypeOK
<1>4. ASSUME NEW p \in Puts, NEW v \in Versions, NEW batch \in SUBSET Sessions,
             CheckVersion(p, v, batch)
      PROVE  TypeOK'
  BY <1>4 DEF CheckVersion, TypeOK, Live
<1>5. ASSUME NEW p \in Puts, NEW s \in Sessions, StoreSession(p, s) PROVE TypeOK'
  <2>1. version[p] \in Versions
    BY <1>5, StartedVersion DEF StoreSession
  <2>2. [rows[version[p]] EXCEPT ![s] = p] \in Backups
    BY <2>1 DEF TypeOK, Backups
  <2>3. rows' \in [Versions -> Backups] /\ stale' \subseteq Versions
    BY <1>5, <2>1, <2>2, RowsType DEF StoreSession
  <2>4. todo' \in [Requests -> SUBSET Sessions]
    BY <1>5 DEF StoreSession, TypeOK
  <2> QED BY <1>5, <2>3, <2>4 DEF StoreSession, TypeOK
<1>6. ASSUME NEW d \in Deletes, NEW v \in Versions, DeleteAllKeys(d, v) PROVE TypeOK'
  <2>1. rows' \in [Versions -> Backups] /\ stale' \subseteq Versions
    BY <1>6, NoRowsType, RowsType DEF DeleteAllKeys
  <2> QED BY <1>6, <2>1 DEF DeleteAllKeys, TypeOK
<1>7. ASSUME NEW d \in Deletes, NEW v \in Versions, NEW batch \in SUBSET Sessions,
             DeleteKeys(d, v, batch)
      PROVE  TypeOK'
  <2>1. [s \in Sessions |-> IF s \in batch THEN NoData ELSE rows[v][s]] \in Backups
    BY DEF TypeOK, Backups
  <2>2. rows' \in [Versions -> Backups] /\ stale' \subseteq Versions
    BY <1>7, <2>1, RowsType DEF DeleteKeys
  <2> QED BY <1>7, <2>2 DEF DeleteKeys, TypeOK
<1>8. ASSUME NEW r \in Writers, CountRows(r) PROVE TypeOK'
  BY <1>8, CountIsNat DEF CountRows, TypeOK
<1>9. ASSUME NEW r \in Writers, UpdateVersion(r) PROVE TypeOK'
  BY <1>9 DEF UpdateVersion, TypeOK
<1>10. ASSUME NEW r \in Requests, Stop(r) PROVE TypeOK'
  BY <1>10 DEF Stop, TypeOK
<1>11. ASSUME NEW c \in Clients, NEW v \in Versions, ReadVersion(c, v) PROVE TypeOK'
  <2>1. v \in 0..created /\ etag[v] \in Writers \cup {Fresh}
    BY <1>11 DEF ReadVersion, TypeOK, Live
  <2> QED BY <1>11, <2>1 DEF ReadVersion, TypeOK
<1>12. ASSUME NEW c \in Clients, AskKeys(c) PROVE TypeOK'
  BY <1>12 DEF AskKeys, TypeOK
<1>13. ASSUME NEW c \in Clients, ReadKeys(c) PROVE TypeOK'
  <2>1. rows[backup[c]] \in Backups
    <3>1. backup[c] \in Versions
      BY <1>13 DEF ReadKeys, StartedInv, TypeOK, Versions
    <3> QED BY <3>1 DEF TypeOK
  <2> QED BY <1>13, <2>1 DEF ReadKeys, TypeOK
<1> QED
  BY <1>1, <1>2, <1>3, <1>4, <1>5, <1>6, <1>7, <1>8, <1>9, <1>10, <1>11, <1>12, <1>13 DEF Step
-----------------------------------------------------------------------------
(* The strengthening *)

LEMMA StepStarted ==
  ASSUME ConstantsAssumption, TypeOK, StartedInv, Step
  PROVE  StartedInv'
<1> USE DEF Requests, Writers, tableVars, requestVars, clientVars
<1>1. CASE CreateVersion
  BY <1>1 DEF CreateVersion, StartedInv, TypeOK
<1>2. ASSUME NEW r \in Removals, NEW v \in Versions, DeleteVersion(r, v) PROVE StartedInv'
  BY <1>2 DEF DeleteVersion, StartedInv, TypeOK, Live
<1>3. ASSUME NEW r \in Removals, EmptyVersion(r) PROVE StartedInv'
  BY <1>3 DEF EmptyVersion, StartedInv
<1>4. ASSUME NEW p \in Puts, NEW v \in Versions, NEW batch \in SUBSET Sessions,
             CheckVersion(p, v, batch)
      PROVE  StartedInv'
  BY <1>4 DEF CheckVersion, StartedInv, TypeOK, Live
<1>5. ASSUME NEW p \in Puts, NEW s \in Sessions, StoreSession(p, s) PROVE StartedInv'
  BY <1>5 DEF StoreSession, StartedInv
<1>6. ASSUME NEW d \in Deletes, NEW v \in Versions, DeleteAllKeys(d, v) PROVE StartedInv'
  BY <1>6 DEF DeleteAllKeys, StartedInv, TypeOK
<1>7. ASSUME NEW d \in Deletes, NEW v \in Versions, NEW batch \in SUBSET Sessions,
             DeleteKeys(d, v, batch)
      PROVE  StartedInv'
  BY <1>7 DEF DeleteKeys, StartedInv, TypeOK
<1>8. ASSUME NEW r \in Writers, CountRows(r) PROVE StartedInv'
  BY <1>8 DEF CountRows, StartedInv
<1>9. ASSUME NEW r \in Writers, UpdateVersion(r) PROVE StartedInv'
  BY <1>9 DEF UpdateVersion, StartedInv
<1>10. ASSUME NEW r \in Requests, Stop(r) PROVE StartedInv'
  BY <1>10 DEF Stop, StartedInv
<1>11. ASSUME NEW c \in Clients, NEW v \in Versions, ReadVersion(c, v) PROVE StartedInv'
  BY <1>11 DEF ReadVersion, StartedInv, TypeOK, Live
<1>12. ASSUME NEW c \in Clients, AskKeys(c) PROVE StartedInv'
  BY <1>12 DEF AskKeys, StartedInv, TypeOK
<1>13. ASSUME NEW c \in Clients, ReadKeys(c) PROVE StartedInv'
  BY <1>13 DEF ReadKeys, StartedInv
<1> QED
  BY <1>1, <1>2, <1>3, <1>4, <1>5, <1>6, <1>7, <1>8, <1>9, <1>10, <1>11, <1>12, <1>13 DEF Step

LEMMA StepFresh ==
  ASSUME ConstantsAssumption, TypeOK, StartedInv, FreshInv, Step
  PROVE  FreshInv'
<1> USE DEF Requests, Writers, tableVars, requestVars, clientVars
<1>1. CASE CreateVersion
  BY <1>1 DEF CreateVersion, FreshInv, TypeOK, Versions
<1>2. ASSUME NEW r \in Removals, NEW v \in Versions, DeleteVersion(r, v) PROVE FreshInv'
  BY <1>2 DEF DeleteVersion, FreshInv
<1>3. ASSUME NEW r \in Removals, EmptyVersion(r) PROVE FreshInv'
  BY <1>3 DEF EmptyVersion, FreshInv, ChangeRows
<1>4. ASSUME NEW p \in Puts, NEW v \in Versions, NEW batch \in SUBSET Sessions,
             CheckVersion(p, v, batch)
      PROVE  FreshInv'
  BY <1>4 DEF CheckVersion, FreshInv
<1>5. ASSUME NEW p \in Puts, NEW s \in Sessions, StoreSession(p, s) PROVE FreshInv'
  BY <1>5 DEF StoreSession, FreshInv, TypeOK, ChangeRows
<1>6. ASSUME NEW d \in Deletes, NEW v \in Versions, DeleteAllKeys(d, v) PROVE FreshInv'
  BY <1>6 DEF DeleteAllKeys, FreshInv, ChangeRows
<1>7. ASSUME NEW d \in Deletes, NEW v \in Versions, NEW batch \in SUBSET Sessions,
             DeleteKeys(d, v, batch)
      PROVE  FreshInv'
  BY <1>7 DEF DeleteKeys, FreshInv, TypeOK, ChangeRows
<1>8. ASSUME NEW r \in Writers, CountRows(r) PROVE FreshInv'
  BY <1>8 DEF CountRows, FreshInv
<1>9. ASSUME NEW r \in Writers, UpdateVersion(r) PROVE FreshInv'
  BY <1>9 DEF UpdateVersion, FreshInv
<1>10. ASSUME NEW r \in Requests, Stop(r) PROVE FreshInv'
  BY <1>10 DEF Stop, FreshInv
<1>11. ASSUME NEW c \in Clients, NEW v \in Versions, ReadVersion(c, v) PROVE FreshInv'
  BY <1>11 DEF ReadVersion, FreshInv
<1>12. ASSUME NEW c \in Clients, AskKeys(c) PROVE FreshInv'
  BY <1>12 DEF AskKeys, FreshInv
<1>13. ASSUME NEW c \in Clients, ReadKeys(c) PROVE FreshInv'
  BY <1>13 DEF ReadKeys, FreshInv
<1> QED
  BY <1>1, <1>2, <1>3, <1>4, <1>5, <1>6, <1>7, <1>8, <1>9, <1>10, <1>11, <1>12, <1>13 DEF Step

LEMMA StepEtag ==
  ASSUME ConstantsAssumption, TypeOK, EtagInv, Step
  PROVE  EtagInv'
<1> USE DEF Requests, Writers, tableVars, requestVars, clientVars
<1>1. CASE CreateVersion
  BY <1>1 DEF CreateVersion, EtagInv
<1>2. ASSUME NEW r \in Removals, NEW v \in Versions, DeleteVersion(r, v) PROVE EtagInv'
  BY <1>2 DEF DeleteVersion, EtagInv
<1>3. ASSUME NEW r \in Removals, EmptyVersion(r) PROVE EtagInv'
  BY <1>3 DEF EmptyVersion, EtagInv
<1>4. ASSUME NEW p \in Puts, NEW v \in Versions, NEW batch \in SUBSET Sessions,
             CheckVersion(p, v, batch)
      PROVE  EtagInv'
  BY <1>4 DEF CheckVersion, EtagInv
<1>5. ASSUME NEW p \in Puts, NEW s \in Sessions, StoreSession(p, s) PROVE EtagInv'
  BY <1>5 DEF StoreSession, EtagInv
<1>6. ASSUME NEW d \in Deletes, NEW v \in Versions, DeleteAllKeys(d, v) PROVE EtagInv'
  BY <1>6 DEF DeleteAllKeys, EtagInv
<1>7. ASSUME NEW d \in Deletes, NEW v \in Versions, NEW batch \in SUBSET Sessions,
             DeleteKeys(d, v, batch)
      PROVE  EtagInv'
  BY <1>7 DEF DeleteKeys, EtagInv
<1>8. ASSUME NEW r \in Writers, CountRows(r) PROVE EtagInv'
  BY <1>8 DEF CountRows, EtagInv
<1>9. ASSUME NEW r \in Writers, UpdateVersion(r) PROVE EtagInv'
  BY <1>9 DEF UpdateVersion, EtagInv, TypeOK
<1>10. ASSUME NEW r \in Requests, Stop(r) PROVE EtagInv'
  BY <1>10 DEF Stop, EtagInv
<1>11. ASSUME NEW c \in Clients, NEW v \in Versions, ReadVersion(c, v) PROVE EtagInv'
  BY <1>11 DEF ReadVersion, EtagInv
<1>12. ASSUME NEW c \in Clients, AskKeys(c) PROVE EtagInv'
  BY <1>12 DEF AskKeys, EtagInv
<1>13. ASSUME NEW c \in Clients, ReadKeys(c) PROVE EtagInv'
  BY <1>13 DEF ReadKeys, EtagInv
<1> QED
  BY <1>1, <1>2, <1>3, <1>4, <1>5, <1>6, <1>7, <1>8, <1>9, <1>10, <1>11, <1>12, <1>13 DEF Step

LEMMA StepDeletion ==
  ASSUME ConstantsAssumption, TypeOK, StartedInv, DeletionInv, Step
  PROVE  DeletionInv'
<1> USE DEF Requests, Writers, tableVars, requestVars, clientVars
<1>1. CASE CreateVersion
  BY <1>1 DEF CreateVersion, DeletionInv
<1>2. ASSUME NEW r \in Removals, NEW v \in Versions, DeleteVersion(r, v) PROVE DeletionInv'
  BY <1>2 DEF DeleteVersion, DeletionInv, TypeOK
<1>3. ASSUME NEW r \in Removals, EmptyVersion(r) PROVE DeletionInv'
  BY <1>3 DEF EmptyVersion, DeletionInv
<1>4. ASSUME NEW p \in Puts, NEW v \in Versions, NEW batch \in SUBSET Sessions,
             CheckVersion(p, v, batch)
      PROVE  DeletionInv'
  BY <1>4 DEF CheckVersion, DeletionInv, TypeOK, Live
<1>5. ASSUME NEW p \in Puts, NEW s \in Sessions, StoreSession(p, s) PROVE DeletionInv'
  BY <1>5 DEF StoreSession, DeletionInv
<1>6. ASSUME NEW d \in Deletes, NEW v \in Versions, DeleteAllKeys(d, v) PROVE DeletionInv'
  BY <1>6 DEF DeleteAllKeys, DeletionInv
<1>7. ASSUME NEW d \in Deletes, NEW v \in Versions, NEW batch \in SUBSET Sessions,
             DeleteKeys(d, v, batch)
      PROVE  DeletionInv'
  BY <1>7 DEF DeleteKeys, DeletionInv
<1>8. ASSUME NEW r \in Writers, CountRows(r) PROVE DeletionInv'
  BY <1>8 DEF CountRows, DeletionInv
<1>9. ASSUME NEW r \in Writers, UpdateVersion(r) PROVE DeletionInv'
  BY <1>9 DEF UpdateVersion, DeletionInv
<1>10. ASSUME NEW r \in Requests, Stop(r) PROVE DeletionInv'
  BY <1>10 DEF Stop, DeletionInv
<1>11. ASSUME NEW c \in Clients, NEW v \in Versions, ReadVersion(c, v) PROVE DeletionInv'
  BY <1>11 DEF ReadVersion, DeletionInv
<1>12. ASSUME NEW c \in Clients, AskKeys(c) PROVE DeletionInv'
  BY <1>12 DEF AskKeys, DeletionInv
<1>13. ASSUME NEW c \in Clients, ReadKeys(c) PROVE DeletionInv'
  BY <1>13 DEF ReadKeys, DeletionInv
<1> QED
  BY <1>1, <1>2, <1>3, <1>4, <1>5, <1>6, <1>7, <1>8, <1>9, <1>10, <1>11, <1>12, <1>13 DEF Step

-----------------------------------------------------------------------------
(* The properties *)

LEMMA StepTells ==
  ASSUME ConstantsAssumption, Inv, EtagTells, Step
  PROVE  EtagTells'
<1> USE DEF Requests, Writers, tableVars, requestVars, clientVars
<1>1. CASE CreateVersion
  BY <1>1 DEF CreateVersion, EtagTells, Open, Inv, TypeOK, Live
<1>2. ASSUME NEW r \in Removals, NEW v \in Versions, DeleteVersion(r, v) PROVE EtagTells'
  BY <1>2 DEF DeleteVersion, EtagTells, Open, Live
<1>3. ASSUME NEW r \in Removals, EmptyVersion(r) PROVE EtagTells'
  BY <1>3 DEF EmptyVersion, EtagTells, Open, Inv, Live, ChangeRows, DeletionInv
<1>4. ASSUME NEW p \in Puts, NEW v \in Versions, NEW batch \in SUBSET Sessions,
             CheckVersion(p, v, batch)
      PROVE  EtagTells'
  BY <1>4 DEF CheckVersion, EtagTells, Open, Live
<1>5. ASSUME NEW p \in Puts, NEW s \in Sessions, StoreSession(p, s) PROVE EtagTells'
  BY <1>5 DEF StoreSession, EtagTells, Open, Live, ChangeRows
<1>6. ASSUME NEW d \in Deletes, NEW v \in Versions, DeleteAllKeys(d, v) PROVE EtagTells'
  BY <1>6 DEF DeleteAllKeys, EtagTells, Open, Inv, TypeOK, Live, ChangeRows
<1>7. ASSUME NEW d \in Deletes, NEW v \in Versions, NEW batch \in SUBSET Sessions,
             DeleteKeys(d, v, batch)
      PROVE  EtagTells'
  BY <1>7 DEF DeleteKeys, EtagTells, Open, Inv, TypeOK, Live, ChangeRows
<1>8. ASSUME NEW r \in Writers, CountRows(r) PROVE EtagTells'
  BY <1>8 DEF CountRows, EtagTells, Open, Live
<1>9. ASSUME NEW r \in Writers, UpdateVersion(r) PROVE EtagTells'
  <2>1. phase[r] = "updating" /\ etag' = [etag EXCEPT ![version[r]] = r]
        /\ phase' = [phase EXCEPT ![r] = "answered"]
        /\ UNCHANGED <<created, deleted, rows, version, client, backup, seen, copy>>
    BY <1>9 DEF UpdateVersion
  <2>2. \A c \in Clients : seen[c] # r
    BY <2>1 DEF Inv, EtagInv
  <2> SUFFICES ASSUME NEW c \in Clients, client[c] = "idle", backup[c] \in Live,
                      Open(backup[c])' = {}, seen[c] = etag'[backup[c]]
               PROVE  copy[c] = rows[backup[c]]
    BY <2>1 DEF EtagTells, Live
  <2>3. backup[c] \in Versions /\ etag \in [Versions -> Writers \cup {Fresh}]
    BY DEF Inv, TypeOK, Live, Versions
  <2>4. backup[c] # version[r]
    BY <2>1, <2>2, <2>3
  <2>5. etag'[backup[c]] = etag[backup[c]]
    BY <2>1, <2>3, <2>4
  <2>6. Open(backup[c]) = {}
    BY <2>1, <2>4 DEF Open
  <2> QED BY <2>5, <2>6 DEF EtagTells
<1>10. ASSUME NEW r \in Requests, Stop(r) PROVE EtagTells'
  BY <1>10 DEF Stop, EtagTells, Open, Live
<1>11. ASSUME NEW c \in Clients, NEW v \in Versions, ReadVersion(c, v) PROVE EtagTells'
  BY <1>11 DEF ReadVersion, EtagTells, Open, Inv, TypeOK, Live
<1>12. ASSUME NEW c \in Clients, AskKeys(c) PROVE EtagTells'
  BY <1>12 DEF AskKeys, EtagTells, Open, Inv, TypeOK, Live
<1>13. ASSUME NEW c \in Clients, ReadKeys(c) PROVE EtagTells'
  BY <1>13 DEF ReadKeys, EtagTells, Open, Inv, TypeOK, Live
<1> QED
  BY <1>1, <1>2, <1>3, <1>4, <1>5, <1>6, <1>7, <1>8, <1>9, <1>10, <1>11, <1>12, <1>13 DEF Step

LEMMA StepEmpty ==
  ASSUME ConstantsAssumption, Inv, DeletedVersionsEmpty, Step
  PROVE  DeletedVersionsEmpty'
<1> USE DEF Requests, Writers, tableVars, requestVars, clientVars
<1>1. CASE CreateVersion
  BY <1>1 DEF CreateVersion, DeletedVersionsEmpty, Open, Stored
<1>2. ASSUME NEW r \in Removals, NEW v \in Versions, DeleteVersion(r, v) PROVE DeletedVersionsEmpty'
  BY <1>2 DEF DeleteVersion, DeletedVersionsEmpty, Open, Stored, Inv, TypeOK
<1>3. ASSUME NEW r \in Removals, EmptyVersion(r) PROVE DeletedVersionsEmpty'
  <2>1. phase[r] = "emptying" /\ rows' = [rows EXCEPT ![version[r]] = NoRows]
        /\ phase' = [phase EXCEPT ![r] = "answered"] /\ UNCHANGED <<version, deleted, under>>
    BY <1>3 DEF EmptyVersion, ChangeRows
  <2> SUFFICES ASSUME NEW w \in deleted, \A q \in Open(w)' : q \notin Removals,
                      NEW s \in Stored(w)'
               PROVE  rows'[w][s] \in under
    BY <2>1 DEF DeletedVersionsEmpty
  <2>2. w \in Versions /\ rows \in [Versions -> Backups]
    BY DEF Inv, TypeOK, Versions
  <2>3. w # version[r]
    <3> SUFFICES ASSUME w = version[r] PROVE FALSE
      OBVIOUS
    <3>1. rows'[w] = NoRows
      BY <2>1, <2>2
    <3> QED BY <3>1 DEF Stored, NoRows
  <2>4. rows'[w] = rows[w]
    BY <2>1, <2>2, <2>3
  <2>5. \A q \in Open(w) : q \notin Removals
    BY <2>1, <2>3 DEF Open
  <2> QED BY <2>4, <2>5 DEF DeletedVersionsEmpty, Stored
<1>4. ASSUME NEW p \in Puts, NEW v \in Versions, NEW batch \in SUBSET Sessions,
             CheckVersion(p, v, batch)
      PROVE  DeletedVersionsEmpty'
  BY <1>4 DEF CheckVersion, DeletedVersionsEmpty, Open, Stored
<1>5. ASSUME NEW p \in Puts, NEW s \in Sessions, StoreSession(p, s) PROVE DeletedVersionsEmpty'
  BY <1>5 DEF StoreSession, DeletedVersionsEmpty, Open, Stored, Inv, DeletionInv, ChangeRows
<1>6. ASSUME NEW d \in Deletes, NEW v \in Versions, DeleteAllKeys(d, v) PROVE DeletedVersionsEmpty'
  <2>1. phase[d] = "new" /\ rows' = [rows EXCEPT ![v] = NoRows]
        /\ phase' = [phase EXCEPT ![d] = "updating"] /\ version' = [version EXCEPT ![d] = v]
        /\ UNCHANGED <<deleted, under>>
    BY <1>6 DEF DeleteAllKeys, ChangeRows
  <2> SUFFICES ASSUME NEW w \in deleted, \A q \in Open(w)' : q \notin Removals,
                      NEW s \in Stored(w)'
               PROVE  rows'[w][s] \in under
    BY <2>1 DEF DeletedVersionsEmpty
  <2>2. w \in Versions /\ rows \in [Versions -> Backups]
    BY DEF Inv, TypeOK, Versions
  <2>3. w # v
    <3> SUFFICES ASSUME w = v PROVE FALSE
      OBVIOUS
    <3>1. rows'[w] = NoRows
      BY <2>1, <2>2
    <3> QED BY <3>1 DEF Stored, NoRows
  <2>4. rows'[w] = rows[w]
    BY <2>1, <2>2, <2>3
  <2>5. \A q \in Open(w) : q \notin Removals
    BY <2>1 DEF Open
  <2> QED BY <2>4, <2>5 DEF DeletedVersionsEmpty, Stored
<1>7. ASSUME NEW d \in Deletes, NEW v \in Versions, NEW batch \in SUBSET Sessions,
             DeleteKeys(d, v, batch)
      PROVE  DeletedVersionsEmpty'
  BY <1>7 DEF DeleteKeys, DeletedVersionsEmpty, Open, Stored, ChangeRows
<1>8. ASSUME NEW r \in Writers, CountRows(r) PROVE DeletedVersionsEmpty'
  BY <1>8 DEF CountRows, DeletedVersionsEmpty, Open, Stored
<1>9. ASSUME NEW r \in Writers, UpdateVersion(r) PROVE DeletedVersionsEmpty'
  BY <1>9 DEF UpdateVersion, DeletedVersionsEmpty, Open, Stored
<1>10. ASSUME NEW r \in Requests, Stop(r) PROVE DeletedVersionsEmpty'
  BY <1>10 DEF Stop, DeletedVersionsEmpty, Open, Stored
<1>11. ASSUME NEW c \in Clients, NEW v \in Versions, ReadVersion(c, v) PROVE DeletedVersionsEmpty'
  BY <1>11 DEF ReadVersion, DeletedVersionsEmpty, Open, Stored
<1>12. ASSUME NEW c \in Clients, AskKeys(c) PROVE DeletedVersionsEmpty'
  BY <1>12 DEF AskKeys, DeletedVersionsEmpty, Open, Stored
<1>13. ASSUME NEW c \in Clients, ReadKeys(c) PROVE DeletedVersionsEmpty'
  BY <1>13 DEF ReadKeys, DeletedVersionsEmpty, Open, Stored
<1> QED
  BY <1>1, <1>2, <1>3, <1>4, <1>5, <1>6, <1>7, <1>8, <1>9, <1>10, <1>11, <1>12, <1>13 DEF Step

LEMMA RowsSame ==
  ASSUME TypeOK, NEW v, NEW new, ChangeRows(v, new),
         NEW w \in Versions, w \notin stale', Updating(w) # {}
  PROVE  Stored(w) = Stored(w)'
<1>1. CASE w = v
  <2>1. rows'[w] = new
    BY <1>1 DEF ChangeRows, TypeOK
  <2>2. Stored(w)' = {s \in Sessions : new[s] # NoData}
    BY <2>1 DEF Stored
  <2> QED BY <1>1, <2>2 DEF ChangeRows
<1>2. CASE w # v
  BY <1>2 DEF ChangeRows, Stored
<1> QED BY <1>1, <1>2

LEMMA StepCount ==
  ASSUME ConstantsAssumption, Inv, CountInv, Step
  PROVE  CountInv'
<1> USE DEF Requests, Writers, tableVars, requestVars, clientVars
<1>1. CASE CreateVersion
  <2> SUFFICES ASSUME NEW w \in Live', w \notin stale'
               PROVE  /\ \A q \in Updating(w)' : tally'[q] = Cardinality(Stored(w)')
                      /\ Open(w)' = {} => count'[w] = Cardinality(Stored(w)')
    BY DEF CountInv
  <2>1. /\ created' = created + 1 /\ created \in Nat
        /\ count' = [count EXCEPT ![created + 1] = 0] /\ created + 1 \in Versions
        /\ UNCHANGED <<deleted, rows, phase, version, tally, stale>>
    BY <1>1 DEF CreateVersion, Inv, TypeOK, Versions
  <2>2. Updating(w)' = Updating(w) /\ Open(w)' = Open(w) /\ Stored(w)' = Stored(w)
    BY <2>1 DEF Updating, Open, Stored
  <2>3. CASE w = created + 1
    <3>1. Updating(w) = {}
      BY <2>1, <2>3 DEF Updating, Inv, TypeOK
    <3>2. rows[w] = NoRows
      BY <2>1, <2>3 DEF Inv, FreshInv
    <3>3. Stored(w) = {}
      BY <3>2 DEF Stored, NoRows
    <3>4. count'[w] = 0
      BY <2>1, <2>3 DEF Inv, TypeOK
    <3> QED BY <2>2, <3>1, <3>3, <3>4, FS_EmptySet
  <2>4. CASE w # created + 1
    <3>1. w \in Live /\ w \notin stale
      BY <2>1, <2>4 DEF Live
    <3>2. count'[w] = count[w]
      BY <2>1, <2>4
    <3> QED BY <2>1, <2>2, <3>1, <3>2 DEF CountInv
  <2> QED BY <2>3, <2>4
<1>2. ASSUME NEW r \in Removals, NEW v \in Versions, DeleteVersion(r, v) PROVE CountInv'
  BY <1>2 DEF DeleteVersion, CountInv, Updating, Open, Stored, Live
<1>3. ASSUME NEW r \in Removals, EmptyVersion(r) PROVE CountInv'
  BY <1>3 DEF EmptyVersion, CountInv, Updating, Open, Stored, Inv, Live, ChangeRows, DeletionInv
<1>4. ASSUME NEW p \in Puts, NEW v \in Versions, NEW batch \in SUBSET Sessions,
             CheckVersion(p, v, batch)
      PROVE  CountInv'
  BY <1>4 DEF CheckVersion, CountInv, Updating, Open, Stored, Live
<1>5. ASSUME NEW p \in Puts, NEW s \in Sessions, StoreSession(p, s) PROVE CountInv'
  BY <1>5 DEF StoreSession, CountInv, Updating, Open, Stored, Live, ChangeRows
<1>6. ASSUME NEW d \in Deletes, NEW v \in Versions, DeleteAllKeys(d, v) PROVE CountInv'
  <2> SUFFICES ASSUME NEW w \in Live', w \notin stale'
               PROVE  /\ \A q \in Updating(w)' : tally'[q] = Cardinality(Stored(w)')
                      /\ Open(w)' = {} => count'[w] = Cardinality(Stored(w)')
    BY DEF CountInv
  <2>1. /\ phase[d] = "new" /\ rows' = [rows EXCEPT ![v] = NoRows]
        /\ phase' = [phase EXCEPT ![d] = "updating"] /\ version' = [version EXCEPT ![d] = v]
        /\ UNCHANGED <<created, deleted, count, tally>>
    BY <1>6 DEF DeleteAllKeys, ChangeRows
  <2>2. ChangeRows(v, NoRows)
    BY <1>6 DEF DeleteAllKeys
  <2>3. w \in Live /\ w \in Versions /\ w \notin stale
    BY <2>1, <2>2 DEF Live, ChangeRows, Inv, TypeOK, Versions
  <2>4. CASE w = v
    <3>1. rows'[w] = NoRows
      BY <2>1, <2>3, <2>4 DEF Inv, TypeOK
    <3>2. Stored(w)' = {}
      BY <3>1 DEF Stored, NoRows
    <3>3. d \in Open(w)'
      BY <2>1, <2>4 DEF Open, Inv, TypeOK
    <3>4. tally'[d] = 0
      BY <2>1 DEF Inv, FreshInv
    <3>5. \A q \in Updating(w)' : q # d => q \in Updating(w)
      BY <2>1 DEF Updating
    <3>6. Updating(w) # {} => Stored(w) = Stored(w)'
      BY <2>1, <2>2, <2>3, <2>4, RowsSame DEF Inv
    <3>7. \A q \in Updating(w) : tally'[q] = Cardinality(Stored(w)')
      BY <2>1, <2>3, <3>6 DEF CountInv
    <3> QED BY <3>2, <3>3, <3>4, <3>5, <3>7, FS_EmptySet
  <2>5. CASE w # v
    <3>1. Updating(w)' = Updating(w) /\ Open(w)' = Open(w) /\ Stored(w)' = Stored(w)
      <4>1. rows'[w] = rows[w]
        BY <2>1, <2>3, <2>5
      <4>2. d \notin Open(w)' /\ d \notin Updating(w)'
        BY <2>1, <2>5 DEF Open, Updating, Inv, TypeOK
      <4>3. d \notin Open(w) /\ d \notin Updating(w)
        BY <2>1 DEF Open, Updating
      <4>4. \A q \in Requests : q # d => version'[q] = version[q] /\ phase'[q] = phase[q]
        BY <2>1 DEF Inv, TypeOK
      <4> QED BY <4>1, <4>2, <4>3, <4>4 DEF Open, Updating, Stored
    <3> QED BY <2>1, <2>3, <3>1 DEF CountInv
  <2> QED BY <2>4, <2>5
<1>7. ASSUME NEW d \in Deletes, NEW v \in Versions, NEW batch \in SUBSET Sessions,
             DeleteKeys(d, v, batch)
      PROVE  CountInv'
  <2> SUFFICES ASSUME NEW w \in Live', w \notin stale'
               PROVE  /\ \A q \in Updating(w)' : tally'[q] = Cardinality(Stored(w)')
                      /\ Open(w)' = {} => count'[w] = Cardinality(Stored(w)')
    BY DEF CountInv
  <2>1. /\ phase[d] = "new"
        /\ phase' = [phase EXCEPT ![d] = "counting"] /\ version' = [version EXCEPT ![d] = v]
        /\ UNCHANGED <<created, deleted, count, tally>>
    BY <1>7 DEF DeleteKeys
  <2> DEFINE new == [s \in Sessions |-> IF s \in batch THEN NoData ELSE rows[v][s]]
  <2>2. ChangeRows(v, new)
    BY <1>7 DEF DeleteKeys
  <2>3. w \in Live /\ w \in Versions /\ w \notin stale
    <3> HIDE DEF new
    <3>1. w \in Live /\ w \in Versions
      BY <2>1 DEF Live, Inv, TypeOK, Versions
    <3>2. stale \subseteq stale'
      BY <2>2 DEF ChangeRows
    <3> QED BY <3>1, <3>2
  <2>4. Updating(w)' \subseteq Updating(w)
    BY <2>1 DEF Updating
  <2>5. Updating(w) # {} => Stored(w) = Stored(w)'
    BY <2>2, <2>3, RowsSame DEF Inv
  <2>6. \A q \in Updating(w) : tally[q] = Cardinality(Stored(w))
    BY <2>3 DEF CountInv
  <2>7. Open(w)' = {} => w # v
    BY <2>1 DEF Open, Inv, TypeOK
  <2>8. Open(w)' = {} => Open(w) = {}
    BY <2>1 DEF Open
  <2>9. w # v => Stored(w) = Stored(w)'
    BY <2>2, <2>3 DEF Stored, ChangeRows
  <2>10. Open(w)' = {} => count'[w] = Cardinality(Stored(w)')
    BY <2>1, <2>3, <2>7, <2>8, <2>9 DEF CountInv
  <2> QED BY <2>1, <2>4, <2>5, <2>6, <2>10
<1>8. ASSUME NEW r \in Writers, CountRows(r) PROVE CountInv'
  <2> SUFFICES ASSUME NEW w \in Live', w \notin stale'
               PROVE  /\ \A q \in Updating(w)' : tally'[q] = Cardinality(Stored(w)')
                      /\ Open(w)' = {} => count'[w] = Cardinality(Stored(w)')
    BY DEF CountInv
  <2>1. /\ phase[r] \in {"counting", "storing"} /\ r \in Requests
        /\ tally' = [tally EXCEPT ![r] = Cardinality(Stored(version[r]))]
        /\ phase' = [phase EXCEPT ![r] = "updating"]
        /\ UNCHANGED <<created, deleted, count, rows, version, stale>>
    BY <1>8 DEF CountRows
  <2>2. w \in Live /\ w \notin stale /\ Stored(w)' = Stored(w)
    BY <2>1 DEF Live, Stored
  <2>3. Open(w)' = Open(w)
    BY <2>1 DEF Open
  <2>4. ASSUME NEW q \in Updating(w)' PROVE tally'[q] = Cardinality(Stored(w)')
    <3>1. q \in Requests /\ version[q] = w
      BY <2>1, <2>4 DEF Updating
    <3>2. CASE q = r
      BY <2>1, <2>2, <3>1, <3>2 DEF Inv, TypeOK
    <3>3. CASE q # r
      <4>1. q \in Updating(w) /\ tally'[q] = tally[q]
        BY <2>1, <2>4, <3>1, <3>3 DEF Updating
      <4> QED BY <2>2, <4>1 DEF CountInv
    <3> QED BY <3>2, <3>3
  <2> QED BY <2>1, <2>2, <2>3, <2>4 DEF CountInv
<1>9. ASSUME NEW r \in Writers, UpdateVersion(r) PROVE CountInv'
  <2> SUFFICES ASSUME NEW w \in Live', w \notin stale'
               PROVE  /\ \A q \in Updating(w)' : tally'[q] = Cardinality(Stored(w)')
                      /\ Open(w)' = {} => count'[w] = Cardinality(Stored(w)')
    BY DEF CountInv
  <2>1. /\ phase[r] = "updating" /\ r \in Requests
        /\ count' = [count EXCEPT ![version[r]] = tally[r]]
        /\ tally' = [tally EXCEPT ![r] = 0]
        /\ phase' = [phase EXCEPT ![r] = "answered"]
        /\ UNCHANGED <<created, deleted, rows, version, stale>>
    BY <1>9 DEF UpdateVersion
  <2>2. w \in Live /\ w \notin stale /\ Stored(w)' = Stored(w) /\ w \in Versions
    BY <2>1 DEF Live, Stored, Inv, TypeOK, Versions
  <2>3. ASSUME NEW q \in Updating(w)' PROVE tally'[q] = Cardinality(Stored(w)')
    <3>1. q \in Updating(w) /\ q # r
      BY <2>1, <2>3 DEF Updating, Inv, TypeOK
    <3>2. tally'[q] = tally[q]
      BY <2>1, <3>1
    <3> QED BY <2>2, <3>1, <3>2 DEF CountInv
  <2>4. CASE w = version[r]
    <3>1. r \in Updating(w)
      BY <2>1, <2>4 DEF Updating
    <3>2. count'[w] = tally[r]
      BY <2>1, <2>2, <2>4 DEF Inv, TypeOK
    <3> QED BY <2>2, <2>3, <3>1, <3>2 DEF CountInv
  <2>5. CASE w # version[r]
    <3>1. Open(w)' = Open(w) /\ count'[w] = count[w]
      BY <2>1, <2>2, <2>5 DEF Open
    <3> QED BY <2>2, <2>3, <3>1 DEF CountInv
  <2> QED BY <2>4, <2>5
<1>10. ASSUME NEW r \in Requests, Stop(r) PROVE CountInv'
  BY <1>10 DEF Stop, CountInv, Updating, Open, Stored, Inv, TypeOK, Live
<1>11. ASSUME NEW c \in Clients, NEW v \in Versions, ReadVersion(c, v) PROVE CountInv'
  BY <1>11 DEF ReadVersion, CountInv, Updating, Open, Stored, Live
<1>12. ASSUME NEW c \in Clients, AskKeys(c) PROVE CountInv'
  BY <1>12 DEF AskKeys, CountInv, Updating, Open, Stored, Live
<1>13. ASSUME NEW c \in Clients, ReadKeys(c) PROVE CountInv'
  BY <1>13 DEF ReadKeys, CountInv, Updating, Open, Stored, Live
<1> QED
  BY <1>1, <1>2, <1>3, <1>4, <1>5, <1>6, <1>7, <1>8, <1>9, <1>10, <1>11, <1>12, <1>13 DEF Step

-----------------------------------------------------------------------------
(* The theorems *)

LEMMA InitInv == ConstantsAssumption /\ Init => Inv /\ EtagTells /\ DeletedVersionsEmpty /\ CountInv
<1> SUFFICES ASSUME ConstantsAssumption, Init
             PROVE  Inv /\ EtagTells /\ DeletedVersionsEmpty /\ CountInv
  OBVIOUS
<1>1. TypeOK
  BY InitType
<1>2. StartedInv /\ EtagInv /\ DeletionInv /\ FreshInv
  BY DEF Init, StartedInv, EtagInv, DeletionInv, FreshInv, Requests, Writers
<1>3. Live = {}
  BY DEF Init, Live
<1> QED BY <1>1, <1>2, <1>3 DEF Inv, EtagTells, DeletedVersionsEmpty, CountInv, Init

LEMMA StepInv ==
  ASSUME ConstantsAssumption, Inv, [Next]_vars
  PROVE  Inv'
<1>1. CASE UNCHANGED vars
  BY <1>1
    DEF Inv, TypeOK, StartedInv, EtagInv, DeletionInv, FreshInv, vars, tableVars, requestVars, clientVars
<1>2. CASE Next
  <2>1. Step
    BY <1>2, NextIsStep
  <2> QED BY <2>1, StepType, StepStarted, StepEtag, StepDeletion, StepFresh DEF Inv
<1> QED BY <1>1, <1>2

LEMMA StepProperties ==
  ASSUME ConstantsAssumption, Inv, [Next]_vars
  PROVE  /\ EtagTells => EtagTells'
         /\ DeletedVersionsEmpty => DeletedVersionsEmpty'
         /\ CountInv => CountInv'
<1>1. CASE UNCHANGED vars
  BY <1>1
    DEF EtagTells, DeletedVersionsEmpty, CountInv, Updating, Open, Stored, Live, vars, tableVars, requestVars,
        clientVars
<1>2. CASE Next
  <2>1. Step
    BY <1>2, NextIsStep
  <2> QED BY <2>1, StepTells, StepEmpty, StepCount
<1> QED BY <1>1, <1>2

LEMMA SpecInv == Spec => [](Inv /\ EtagTells /\ DeletedVersionsEmpty /\ CountInv)
<1>1. ConstantsAssumption
  BY ConstantsAssumption
<1>2. Init => Inv /\ EtagTells /\ DeletedVersionsEmpty /\ CountInv
  BY <1>1, InitInv
<1>3. (Inv /\ EtagTells /\ DeletedVersionsEmpty /\ CountInv) /\ [Next]_vars
        => (Inv /\ EtagTells /\ DeletedVersionsEmpty /\ CountInv)'
  BY <1>1, StepInv, StepProperties
<1> QED BY <1>2, <1>3, PTL DEF Spec

(* Every variable keeps its type, for any rooms, sessions, requests and clients. *)
THEOREM TypeCorrect == Spec => []TypeOK
<1>1. Inv => TypeOK
  BY DEF Inv
<1> QED BY <1>1, SpecInv, PTL

(* An unchanged etag means unchanged keys, once the requests on a version have
   ended, however uploads and deletions overlap (key-backups.ts). *)
THEOREM EtagIsSound == Spec => []EtagTells
  BY SpecInv, PTL

(* Nothing is left in a deleted version but what uploads under way store later. *)
THEOREM DeletionIsComplete == Spec => []DeletedVersionsEmpty
  BY SpecInv, PTL

(* The count of a version is the number of its rows, unless a count became stale. *)
THEOREM CountIsExact == Spec => []CountIsRows
<1>1. CountInv => CountIsRows
  BY DEF CountInv, CountIsRows
<1> QED BY <1>1, SpecInv, PTL

-----------------------------------------------------------------------------
(* Push rules: RulesInv is EnabledAsAsked, with a rule that has no row being off. *)

RuleRows == [enabled : BOOLEAN, notify : BOOLEAN, there : BOOLEAN]

RulesInv ==
  /\ ruleRows \in [Rules!RuleIds -> RuleRows] /\ wish \in [Rules!RuleIds -> BOOLEAN]
  /\ DOMAIN ruleWrites = RuleWriters
  /\ \A w \in RuleWriters : ruleWrites[w] # Rules!NoCall => ruleWrites[w].rule \in Rules!RuleIds
      /\ ruleWrites[w].notify \in BOOLEAN
  /\ \A r \in Rules!RuleIds : ~ruleRows[r].there => ~ruleRows[r].enabled
  /\ Rules!EnabledAsAsked

LEMMA NextRulesInv == RulesInv /\ [Rules!RulesNext]_(Rules!rulesVars) => RulesInv'
<1>. SUFFICES ASSUME RulesInv, [Rules!RulesNext]_(Rules!rulesVars) PROVE RulesInv'
  OBVIOUS
<1>. USE DEF RulesInv, Rules!EnabledAsAsked, Rules!UserRule, RuleRows
<1>1. ASSUME NEW r \in Rules!RuleIds, NEW b \in BOOLEAN, Rules!PutRule(r, b) PROVE RulesInv'
  BY <1>1 DEF Rules!PutRule, Rules!Call
<1>2. ASSUME NEW r \in Rules!RuleIds, NEW b \in BOOLEAN, Rules!SetEnabled(r, b) PROVE RulesInv'
  <2>. DEFINE new == IF ruleRows[r].there THEN [ruleRows[r] EXCEPT !.enabled = b]
                     ELSE IF r \in Rules!Defaults THEN [Rules!DefaultRule(r) EXCEPT !.enabled = b] ELSE ruleRows[r]
  <2>1. ruleRows[r] \in RuleRows /\ Rules!DefaultRule(r) \in RuleRows /\ Rules!DefaultRule(r).there
    BY DEF Rules!DefaultRule
  <2>2. /\ new \in RuleRows /\ (~new.there => ~new.enabled)
        /\ r \in Rules!Defaults \/ ruleRows[r].there => new.there /\ new.enabled = b
        /\ ~(r \in Rules!Defaults \/ ruleRows[r].there) => new = ruleRows[r]
    <3>1. CASE ruleRows[r].there
      <4>1. new = [ruleRows[r] EXCEPT !.enabled = b]
        BY <3>1
      <4>. HIDE DEF new
      <4>. QED
        BY <2>1, <3>1, <4>1
    <3>2. CASE ~ruleRows[r].there /\ r \in Rules!Defaults
      <4>1. new = [Rules!DefaultRule(r) EXCEPT !.enabled = b]
        BY <3>2
      <4>. HIDE DEF new
      <4>. QED
        BY <2>1, <3>2, <4>1
    <3>3. CASE ~ruleRows[r].there /\ r \notin Rules!Defaults
      BY <2>1, <3>3
    <3>. QED
      BY <3>1, <3>2, <3>3
  <2>3. ruleRows' = [ruleRows EXCEPT ![r] = new]
    BY <1>2 DEF Rules!SetEnabled
  <2>4. wish' = IF r \in Rules!Defaults \/ ruleRows[r].there THEN [wish EXCEPT ![r] = b] ELSE wish
    BY <1>2 DEF Rules!SetEnabled
  <2>5. ruleWrites' = ruleWrites
        /\ revived \subseteq revived' \cup (IF r \in Rules!Defaults THEN {r} ELSE {})
    BY <1>2 DEF Rules!SetEnabled
  <2>. HIDE DEF new
  <2>6. \A q \in Rules!RuleIds : q # r => ruleRows'[q] = ruleRows[q] /\ wish'[q] = wish[q]
    BY <2>3, <2>4
  <2>7. ruleRows'[r] = new /\ (r \in Rules!Defaults \/ ruleRows[r].there => wish'[r] = b)
    BY <2>3, <2>4
  <2>8. ruleRows' \in [Rules!RuleIds -> RuleRows] /\ wish' \in [Rules!RuleIds -> BOOLEAN]
    BY <2>2, <2>3, <2>4
  <2>9. \A q \in Rules!RuleIds : ~ruleRows'[q].there => ~ruleRows'[q].enabled
    BY <2>2, <2>6, <2>7
  <2>10. ASSUME NEW q \in Rules!RuleIds \ revived', Rules!UserRule(q)'.there
         PROVE  Rules!UserRule(q)'.enabled = wish'[q]
    <3>1. CASE q # r
      BY <2>5, <2>6, <2>10, <3>1
    <3>2. CASE q = r /\ (r \in Rules!Defaults \/ ruleRows[r].there)
      BY <2>2, <2>7, <3>2
    <3>3. CASE q = r /\ ~(r \in Rules!Defaults \/ ruleRows[r].there)
      BY <2>2, <2>7, <2>10, <3>3 DEF Rules!Absent
    <3>. QED
      BY <3>1, <3>2, <3>3
  <2>. QED
    BY <2>5, <2>8, <2>9, <2>10
<1>3. ASSUME NEW r \in Rules!RuleIds, NEW b \in BOOLEAN, NEW w \in RuleWriters,
             Rules!ReadRule(w, r, b)
      PROVE  RulesInv'
  BY <1>3 DEF Rules!ReadRule, Rules!Call
<1>4. ASSUME NEW r \in Rules!RuleIds, Rules!DeleteRule(r) PROVE RulesInv'
  BY <1>4 DEF Rules!DeleteRule, Rules!Call, Rules!Absent, Rules!Custom, Rules!Defaults,
     Rules!Master, Rules!Message
<1>5. ASSUME NEW w \in RuleWriters, Rules!WriteActions(w) PROVE RulesInv'
  <2>. DEFINE r == ruleWrites[w].rule
              new == IF ruleRows[r].there THEN [ruleRows[r] EXCEPT !.notify = ruleWrites[w].notify]
                     ELSE [enabled |-> TRUE, notify |-> ruleWrites[w].notify, there |-> TRUE]
  <2>1. r \in Rules!RuleIds /\ ruleWrites[w].notify \in BOOLEAN
    BY <1>5 DEF Rules!WriteActions
  <2>2. ruleRows' = [ruleRows EXCEPT ![r] = new] /\ wish' = wish
        /\ ruleWrites' = [ruleWrites EXCEPT ![w] = Rules!NoCall]
    BY <1>5 DEF Rules!WriteActions
  <2>3. ruleRows[r] \in RuleRows
    BY <2>1
  <2>4. new \in RuleRows /\ new.there /\ (ruleRows[r].there => new.enabled = ruleRows[r].enabled)
    BY <2>1, <2>3
  <2>5. revived \subseteq revived' /\ (~ruleRows[r].there => r \in revived')
    BY <1>5 DEF Rules!WriteActions
  <2>. HIDE DEF r, new
  <2>6. \A q \in Rules!RuleIds : ruleRows'[q] = IF q = r THEN new ELSE ruleRows[q]
    BY <2>1, <2>2
  <2>7. ruleRows' \in [Rules!RuleIds -> RuleRows]
    BY <2>1, <2>2, <2>4
  <2>8. Rules!EnabledAsAsked'
    BY <2>1, <2>2, <2>4, <2>5, <2>6
  <2>9. \A v \in RuleWriters : ruleWrites'[v] # Rules!NoCall
        => ruleWrites'[v].rule \in Rules!RuleIds /\ ruleWrites'[v].notify \in BOOLEAN
    BY <2>2
  <2>. QED
    BY <2>2, <2>4, <2>6, <2>7, <2>8, <2>9
<1>6. CASE UNCHANGED Rules!rulesVars
  BY <1>6 DEF Rules!rulesVars
<1>. QED
  BY <1>1, <1>2, <1>3, <1>4, <1>5, <1>6 DEF Rules!RulesNext

LEMMA InitRulesInv == Rules!RulesInit => RulesInv
<1>. SUFFICES ASSUME Rules!RulesInit PROVE RulesInv
  OBVIOUS
<1>1. ruleRows \in [Rules!RuleIds -> RuleRows] /\ wish \in [Rules!RuleIds -> BOOLEAN]
  BY DEF Rules!RulesInit, Rules!Absent, RuleRows
<1>2. \A r \in Rules!RuleIds : ~ruleRows[r].there /\ ~ruleRows[r].enabled
      /\ wish[r] = (r = Rules!Message)
  BY DEF Rules!RulesInit, Rules!Absent
<1>3. Rules!EnabledAsAsked
  BY <1>2 DEF Rules!EnabledAsAsked, Rules!UserRule, Rules!DefaultRule, Rules!Absent
<1>. QED
  BY <1>1, <1>2, <1>3 DEF Rules!RulesInit, RulesInv, Rules!NoCall

LEMMA RulesInvariance == Rules!RulesSpec => []RulesInv
BY InitRulesInv, NextRulesInv, PTL DEF Rules!RulesSpec

LEMMA InvRulesAsAsked == RulesInv => Rules!RulesAsAsked
<1>. SUFFICES ASSUME RulesInv, Rules!UserRule(Rules!Master).enabled
              PROVE  /\ ~Rules!WorkflowNotifies("m.room.message")
                     /\ (/\ ~Rules!UserRule(Rules!Master).notify
                         /\ ~(Rules!UserRule("mine").enabled /\ Rules!UserRule("mine").notify))
                        => ~Rules!Evaluate("m.room.message") /\ ~Rules!Counted
  BY DEF RulesInv, Rules!RulesAsAsked, Rules!MasterSilences
<1>1. ruleRows[Rules!Master].there /\ ruleRows[Rules!Master].enabled
      /\ Rules!UserRule(Rules!Master).there
  BY DEF Rules!UserRule, Rules!DefaultRule, RulesInv, Rules!RuleIds, Rules!Defaults, Rules!Master,
     Rules!Message
<1>2. ASSUME ~Rules!UserRule(Rules!Master).notify,
             ~(Rules!UserRule("mine").enabled /\ Rules!UserRule("mine").notify), NEW type,
             Rules!Evaluate(type)
      PROVE  FALSE
  <2>. DEFINE hits == {i \in DOMAIN Rules!RuleOrder : Rules!UserRule(Rules!RuleOrder[i]).enabled
       /\ Rules!Matches(Rules!RuleOrder[i], type)}
  <2>0. DOMAIN Rules!RuleOrder = 1 .. 4 /\ Rules!RuleOrder[1] = "mine"
        /\ Rules!RuleOrder[2] = Rules!Master
    BY DEF Rules!RuleOrder
  <2>1. 2 \in hits
    BY <1>1, <2>0 DEF Rules!Matches, Rules!Master, Rules!Message
  <2>2. PICK i \in hits : Rules!UserRule(Rules!RuleOrder[i]).notify /\ \A j \in hits : i <= j
    BY <1>2 DEF Rules!Evaluate
  <2>3. i \in 1 .. 2
    BY <2>0, <2>1, <2>2
  <2>. QED
    BY <1>2, <2>0, <2>2, <2>3
<1>3. ~Rules!WorkflowNotifies("m.room.message")
  BY <1>1 DEF Rules!WorkflowNotifies
<1>4. ASSUME ~Rules!UserRule(Rules!Master).notify,
             ~(Rules!UserRule("mine").enabled /\ Rules!UserRule("mine").notify)
      PROVE  ~Rules!Evaluate("m.room.message") /\ ~Rules!Counted
  <2>1. ~Rules!Evaluate("m.room.message") /\ ~Rules!Evaluate("undefined")
    BY <1>2, <1>4
  <2>. QED
    BY <2>1 DEF Rules!Counted
<1>. QED
  BY <1>3, <1>4

LEMMA RulesRun == ServicesSpec => Rules!RulesSpec
<1>1. ServicesInit => Rules!RulesInit
  BY DEF ServicesInit
<1>2. [ServicesNext]_servicesVars => [Rules!RulesNext]_(Rules!rulesVars)
  BY DEF ServicesNext, servicesVars, rulesVars, Rules!rulesVars
<1>. QED
  BY <1>1, <1>2, PTL DEF ServicesSpec, Rules!RulesSpec

(* A rule is on when the user last asked for that, and the rule for silence silences (push.ts). *)
THEOREM RulesAreAsAsked == ServicesSpec => []RulesAsAsked
<1>1. Rules!RulesAsAsked => RulesAsAsked
  BY DEF RulesAsAsked
<1>. QED
  BY RulesRun, RulesInvariance, InvRulesAsAsked, <1>1, PTL

-----------------------------------------------------------------------------
(* Delivery: DeliveryInv says what each member of a batch has got and is still to get. *)

(* The pushkey of a pusher's row. *)
KeyOf(p) == <<p[1], p[2]>>
Busy(s) == setter[s].step \in {"delete", "insert"}

SetterRecords == [step : {"none", "delete", "insert", "done"}, pusher : Delivery!Pushers \cup {<<>>},
    append : BOOLEAN]

DeliveryTypes ==
  /\ stage \in {"none", "lost", "members", "batch", "done", "failed"}
  /\ from \in Nat /\ from > 0
  /\ work \in [Delivery!Users -> {"rules", "unread", "pushers", "send", "end"}]
  /\ queue \in [Delivery!Users -> SUBSET Delivery!Pushers]
  /\ attempts \in [Delivery!Users -> Nat]
  /\ pushers \subseteq Delivery!Pushers /\ steady \subseteq pushers
  /\ posts \in [Delivery!Pushers -> Nat]
  /\ history \in [Delivery!Users -> Nat]
  /\ setter \in [Setters -> SetterRecords]
  /\ \A s \in Setters : Busy(s) => setter[s].pusher \in Delivery!Pushers

(* Who muted has no pusher that counts; a member is sent its own notifications. *)
SteadyInv ==
  /\ \A p \in steady : p[1] \notin muted
  /\ \A u \in Delivery!Users : \A p \in queue[u] : p[1] = u

(* The members before, in and after the batch of a workflow that has begun. *)
Begun == stage \notin {"none", "lost", "members"}
Past(u) == \E i \in DOMAIN SetToSeq(Notified) : SetToSeq(Notified)[i] = u /\ i < from
Waiting(u) == ~Begun \/ \E i \in DOMAIN SetToSeq(Notified) : SetToSeq(Notified)[i] = u /\ i >= from + BatchSize

(* Nothing happened to a member whose batch is still to come. *)
WaitingInv ==
  /\ ~Begun => from = 1
  /\ \A u \in Delivery!Users : Waiting(u) =>
       /\ work[u] = "rules" /\ queue[u] = {} /\ attempts[u] = 0 /\ history[u] = 0
       /\ \A p \in Delivery!Pushers : p[1] = u => posts[p] = 0

(* What a member that has been notified got. *)
Reached(u) == \A p \in steady : p[1] = u => u \in silent \/ (posts[p] > 0 /\ (history[u] > 0 \/ u \in broken))

(* The SELECTs before a member is sent its notifications. *)
Reading == {"rules", "unread", "pushers"}
MemberReads(u) ==
  Delivery!EvaluatePushRules(u) \/ Delivery!GetUnreadCount(u) \/ Delivery!GetUserPushers(u) \/ Delivery!FailMember(u)

(* A member of the batch got less than one notification per attempt from where this attempt has still to go,
   and is owed no more than this attempt has still to send. *)
BatchInv ==
  stage = "batch" => \A u \in Delivery!Batch :
    /\ work[u] \in Reading => queue[u] = {} /\ \A p \in Delivery!Pushers : p[1] = u => posts[p] < attempts[u]
    /\ work[u] # "end" => history[u] < attempts[u]
    /\ \A p \in queue[u] : posts[p] < attempts[u]
    /\ work[u] = "send" => \A p \in steady : p[1] = u => p \in queue[u] \/ posts[p] > 0
    /\ work[u] = "end" => queue[u] = {} /\ Reached(u)

(* Who is before the batch has been served; so is everyone when the workflow is done. *)
PastInv ==
  /\ Begun => \A u \in Delivery!Users : Past(u) => work[u] = "end" /\ Reached(u)
  /\ stage = "done" => \A u \in Delivery!Users : Reached(u)

(* Two requests under way for a pushkey make it loose, and so does a row that is there before the INSERT. *)
SetterInv ==
  /\ \A s, t \in Setters :
       s # t /\ Busy(s) /\ Busy(t) /\ KeyOf(setter[s].pusher) = KeyOf(setter[t].pusher)
         => KeyOf(setter[s].pusher) \in loose
  /\ \A s \in Setters : setter[s].step = "insert" =>
       KeyOf(setter[s].pusher) \in loose \/ \A p \in pushers : KeyOf(p) # KeyOf(setter[s].pusher)

DeliveryInv ==
  /\ DeliveryTypes /\ SteadyInv /\ WaitingInv /\ BatchInv /\ PastInv /\ SetterInv
  /\ Delivery!DuplicatesExplained /\ Delivery!OnePusherPerKey

(* The members are those of the SELECT, each once. *)
LEMMA MembersAre ==
  /\ Len(SetToSeq(Notified)) \in Nat /\ DOMAIN SetToSeq(Notified) = 1 .. Len(SetToSeq(Notified))
  /\ \A i, j \in DOMAIN SetToSeq(Notified) : SetToSeq(Notified)[i] = SetToSeq(Notified)[j] => i = j
<1>. DEFINE N == Cardinality(Notified)
<1>1. N \in Nat /\ ExistsBijection(1 .. N, Notified)
  BY DeliveryAssumption, FS_CardinalityType
<1>2. \E f \in [1 .. N -> Notified] : IsInjective(f)
  BY <1>1 DEF ExistsBijection, Bijection, Injection, Surjection, IsInjective
<1>3. SetToSeq(Notified) \in [1 .. N -> Notified] /\ IsInjective(SetToSeq(Notified))
  BY <1>2 DEF SetToSeq
<1>. HIDE DEF N
<1>4. Len(SetToSeq(Notified)) = N
  BY <1>1, <1>3
<1>. QED
  BY <1>1, <1>3, <1>4 DEF IsInjective

(* The disjuncts of the next-state relation without their grouping, and a stutter. *)
DeliveryStep ==
  \/ Delivery!CreateWorkflow \/ Delivery!GetMembers \/ Delivery!EndBatch \/ Delivery!LoseAttempt
  \/ \E u \in Delivery!Users : MemberReads(u)
  \/ \E u \in Delivery!Users : Delivery!QueueNotification(u)
  \/ \E u \in Delivery!Users, p \in Delivery!Pushers : Delivery!SendToPusher(u, p)
  \/ \E s \in Setters, u \in Delivery!Users : Delivery!Mute(s, u)
  \/ \E s \in Setters, p \in Delivery!Pushers : Delivery!RemovePusher(s, p)
  \/ \E s \in Setters, p \in Delivery!Pushers, append \in BOOLEAN : Delivery!OpenSetter(s, p, append)
  \/ \E s \in Setters : Delivery!DeleteOld(s)
  \/ \E s \in Setters : Delivery!InsertPusher(s)
  \/ UNCHANGED Delivery!deliveryVars

LEMMA NextIsDeliveryStep == [Delivery!DeliveryNext]_(Delivery!deliveryVars) => DeliveryStep
<1>. QED
  BY DEF Delivery!DeliveryNext, DeliveryStep, MemberReads

LEMMA SetterFields ==
  ASSUME setter \in [Setters -> SetterRecords], NEW s \in Setters,
         NEW a \in {"none", "delete", "insert", "done"}
  PROVE  /\ [setter EXCEPT ![s].step = a] \in [Setters -> SetterRecords]
         /\ \A t \in Setters : [setter EXCEPT ![s].step = a][t].pusher = setter[t].pusher
         /\ \A t \in Setters : [setter EXCEPT ![s].step = a][t].step = IF t = s THEN a ELSE setter[t].step
<1>1. setter[s] \in SetterRecords
  OBVIOUS
<1>2. [setter[s] EXCEPT !.step = a] \in SetterRecords
  BY <1>1 DEF SetterRecords
<1>. QED
  BY <1>1, <1>2 DEF SetterRecords

LEMMA NextDeliveryTypes == DeliveryTypes /\ DeliveryStep => DeliveryTypes'
<1>. SUFFICES ASSUME DeliveryTypes, DeliveryStep PROVE DeliveryTypes'
  OBVIOUS
<1>. USE DEF DeliveryTypes, Busy
<1>1. CASE Delivery!CreateWorkflow
  BY <1>1 DEF Delivery!CreateWorkflow, Delivery!Fails
<1>2. CASE Delivery!GetMembers
  BY <1>2 DEF Delivery!GetMembers
<1>3. CASE Delivery!EndBatch
  <2>1. attempts' \in [Delivery!Users -> Nat]
    <3>1. attempts' = [x \in Delivery!Users |-> IF x \in Delivery!Batch' THEN 1 ELSE attempts[x]] \/ UNCHANGED attempts
      BY <1>3 DEF Delivery!EndBatch
    <3>. QED
      BY <3>1
  <2>2. from' \in Nat /\ from' > 0 /\ stage' \in {"batch", "done"}
    BY <1>3, DeliveryAssumption DEF Delivery!EndBatch
  <2>. QED
    BY <1>3, <2>1, <2>2 DEF Delivery!EndBatch
<1>4. CASE Delivery!LoseAttempt
  BY <1>4 DEF Delivery!LoseAttempt
<1>5. ASSUME NEW u \in Delivery!Users, MemberReads(u) PROVE DeliveryTypes'
  <2>1. Delivery!OfUser(u) \in SUBSET Delivery!Pushers
    BY DEF Delivery!OfUser
  <2>. QED
    BY <1>5, <2>1 DEF MemberReads, Delivery!EvaluatePushRules, Delivery!GetUnreadCount,
       Delivery!GetUserPushers, Delivery!FailMember
<1>6. ASSUME NEW u \in Delivery!Users, Delivery!QueueNotification(u) PROVE DeliveryTypes'
  BY <1>6 DEF Delivery!QueueNotification
<1>7. ASSUME NEW u \in Delivery!Users, NEW p \in Delivery!Pushers, Delivery!SendToPusher(u, p) PROVE DeliveryTypes'
  BY <1>7 DEF Delivery!SendToPusher
<1>8. ASSUME NEW s \in Setters, NEW u \in Delivery!Users, Delivery!Mute(s, u) PROVE DeliveryTypes'
  <2>1. setter' = [setter EXCEPT ![s].step = "done"]
    BY <1>8 DEF Delivery!Mute
  <2>2. /\ setter' \in [Setters -> SetterRecords]
        /\ \A t \in Setters : setter'[t].pusher = setter[t].pusher
        /\ \A t \in Setters : setter'[t].step = IF t = s THEN "done" ELSE setter[t].step
    <3>1. "done" \in {"none", "delete", "insert", "done"}
      OBVIOUS
    <3>. QED
      BY <2>1, <3>1, SetterFields
  <2>3. \A t \in Setters : Busy(t)' => setter'[t].pusher \in Delivery!Pushers
    BY <2>2
  <2>. QED
    BY <1>8, <2>2, <2>3 DEF Delivery!Mute
<1>9. ASSUME NEW s \in Setters, NEW p \in Delivery!Pushers, Delivery!RemovePusher(s, p) PROVE DeliveryTypes'
  <2>1. setter' = [setter EXCEPT ![s].step = "done"]
    BY <1>9 DEF Delivery!RemovePusher
  <2>2. /\ setter' \in [Setters -> SetterRecords]
        /\ \A t \in Setters : setter'[t].pusher = setter[t].pusher
        /\ \A t \in Setters : setter'[t].step = IF t = s THEN "done" ELSE setter[t].step
    <3>1. "done" \in {"none", "delete", "insert", "done"}
      OBVIOUS
    <3>. QED
      BY <2>1, <3>1, SetterFields
  <2>3. \A t \in Setters : Busy(t)' => setter'[t].pusher \in Delivery!Pushers
    BY <2>2
  <2>. QED
    BY <1>9, <2>2, <2>3 DEF Delivery!RemovePusher
<1>10. ASSUME NEW s \in Setters, NEW p \in Delivery!Pushers, NEW append \in BOOLEAN, Delivery!OpenSetter(s, p, append)
       PROVE  DeliveryTypes'
  BY <1>10 DEF Delivery!OpenSetter, SetterRecords
<1>11. ASSUME NEW s \in Setters, Delivery!DeleteOld(s) PROVE DeliveryTypes'
  <2>1. setter' = [setter EXCEPT ![s].step = "insert"]
    BY <1>11 DEF Delivery!DeleteOld
  <2>2. /\ setter' \in [Setters -> SetterRecords]
        /\ \A t \in Setters : setter'[t].pusher = setter[t].pusher
        /\ \A t \in Setters : setter'[t].step = IF t = s THEN "insert" ELSE setter[t].step
    <3>1. "insert" \in {"none", "delete", "insert", "done"}
      OBVIOUS
    <3>. QED
      BY <2>1, <3>1, SetterFields
  <2>3. \A t \in Setters : Busy(t)' => setter'[t].pusher \in Delivery!Pushers
    BY <2>2, <1>11 DEF Delivery!DeleteOld
  <2>. QED
    BY <1>11, <2>2, <2>3 DEF Delivery!DeleteOld
<1>12. ASSUME NEW s \in Setters, Delivery!InsertPusher(s) PROVE DeliveryTypes'
  <2>1. setter' = [setter EXCEPT ![s] = [Delivery!NoSetter EXCEPT !.step = "done"]]
    BY <1>12 DEF Delivery!InsertPusher
  <2>2. Delivery!NoSetter \in SetterRecords
    BY DEF SetterRecords, Delivery!NoSetter
  <2>3. /\ [Delivery!NoSetter EXCEPT !.step = "done"] \in SetterRecords
        /\ [Delivery!NoSetter EXCEPT !.step = "done"].step = "done"
    BY <2>2 DEF SetterRecords
  <2>4. /\ setter' \in [Setters -> SetterRecords]
        /\ \A t \in Setters \ {s} : setter'[t] = setter[t]
        /\ setter'[s].step = "done"
    BY <2>1, <2>3
  <2>5. \A t \in Setters : Busy(t)' => setter'[t].pusher \in Delivery!Pushers
    BY <2>4
  <2>. QED
    BY <1>12, <2>4, <2>5 DEF Delivery!InsertPusher
<1>13. CASE UNCHANGED Delivery!deliveryVars
  BY <1>13 DEF Delivery!deliveryVars
<1>. QED
  BY <1>1, <1>2, <1>3, <1>4, <1>5, <1>6, <1>7, <1>8, <1>9, <1>10, <1>11, <1>12, <1>13 DEF DeliveryStep

(* Requests that set pushers touch nothing of the workflow; they only take from the steady pushers.
   The workflow touches nothing of theirs. *)
SetterMoves ==
  /\ UNCHANGED <<stage, from, work, queue, attempts, posts, history, broken, silent>>
  /\ steady' \subseteq steady
  /\ \A p \in steady' : p[1] \notin muted'

LEMMA SettersMove ==
  ASSUME DeliveryTypes, SteadyInv, NEW s \in Setters,
         \/ \E u \in Delivery!Users : Delivery!Mute(s, u)
         \/ \E p \in Delivery!Pushers : Delivery!RemovePusher(s, p)
         \/ \E p \in Delivery!Pushers, append \in BOOLEAN : Delivery!OpenSetter(s, p, append)
         \/ Delivery!DeleteOld(s) \/ Delivery!InsertPusher(s)
  PROVE  SetterMoves
<1>1. ASSUME NEW u \in Delivery!Users, Delivery!Mute(s, u) PROVE SetterMoves
  BY <1>1 DEF Delivery!Mute, SetterMoves, SteadyInv
<1>2. ASSUME NEW p \in Delivery!Pushers, Delivery!RemovePusher(s, p) PROVE SetterMoves
  BY <1>2 DEF Delivery!RemovePusher, SetterMoves, SteadyInv
<1>3. ASSUME NEW p \in Delivery!Pushers, NEW append \in BOOLEAN, Delivery!OpenSetter(s, p, append) PROVE SetterMoves
  BY <1>3 DEF Delivery!OpenSetter, SetterMoves, SteadyInv
<1>4. CASE Delivery!DeleteOld(s)
  BY <1>4 DEF Delivery!DeleteOld, SetterMoves, SteadyInv
<1>5. CASE Delivery!InsertPusher(s)
  BY <1>5 DEF Delivery!InsertPusher, SetterMoves, SteadyInv
<1>. QED
  BY <1>1, <1>2, <1>3, <1>4, <1>5

WorkflowStep ==
  \/ Delivery!CreateWorkflow \/ Delivery!GetMembers \/ Delivery!EndBatch \/ Delivery!LoseAttempt
  \/ \E u \in Delivery!Users : MemberReads(u)
  \/ \E u \in Delivery!Users : Delivery!QueueNotification(u)
  \/ \E u \in Delivery!Users, p \in Delivery!Pushers : Delivery!SendToPusher(u, p)

LEMMA StepsMoveOne ==
  ASSUME DeliveryTypes, SteadyInv, DeliveryStep
  PROVE  WorkflowStep \/ SetterMoves
<1>1. ASSUME UNCHANGED Delivery!deliveryVars PROVE SetterMoves
  BY <1>1 DEF Delivery!deliveryVars, SetterMoves, SteadyInv
<1>2. ASSUME NEW s \in Setters,
             \/ \E u \in Delivery!Users : Delivery!Mute(s, u)
             \/ \E p \in Delivery!Pushers : Delivery!RemovePusher(s, p)
             \/ \E p \in Delivery!Pushers, append \in BOOLEAN : Delivery!OpenSetter(s, p, append)
             \/ Delivery!DeleteOld(s) \/ Delivery!InsertPusher(s)
      PROVE  SetterMoves
  BY <1>2, SettersMove
<1>. QED
  BY <1>1, <1>2 DEF DeliveryStep, WorkflowStep

LEMMA NextSteadyInv == DeliveryTypes /\ SteadyInv /\ DeliveryStep => SteadyInv'
<1>. SUFFICES ASSUME DeliveryTypes, SteadyInv, DeliveryStep PROVE SteadyInv'
  OBVIOUS
<1>. USE DEF SteadyInv
<1>1. CASE SetterMoves
  BY <1>1 DEF SetterMoves
<1>2. CASE Delivery!CreateWorkflow
  BY <1>2 DEF Delivery!CreateWorkflow
<1>3. CASE Delivery!GetMembers \/ Delivery!EndBatch
  BY <1>3 DEF Delivery!GetMembers, Delivery!EndBatch
<1>4. CASE Delivery!LoseAttempt
  BY <1>4 DEF Delivery!LoseAttempt, DeliveryTypes
<1>5. ASSUME NEW u \in Delivery!Users, MemberReads(u) PROVE SteadyInv'
  BY <1>5 DEF MemberReads, Delivery!EvaluatePushRules, Delivery!GetUnreadCount,
       Delivery!GetUserPushers, Delivery!FailMember, Delivery!OfUser, DeliveryTypes
<1>6. ASSUME NEW u \in Delivery!Users, Delivery!QueueNotification(u) PROVE SteadyInv'
  BY <1>6 DEF Delivery!QueueNotification
<1>7. ASSUME NEW u \in Delivery!Users, NEW p \in Delivery!Pushers, Delivery!SendToPusher(u, p) PROVE SteadyInv'
  BY <1>7 DEF Delivery!SendToPusher, DeliveryTypes
<1>. QED
  BY <1>1, <1>2, <1>3, <1>4, <1>5, <1>6, <1>7, StepsMoveOne DEF WorkflowStep

(* A member is in the batch, before it or after it, and only one of these. *)
LEMMA Places ==
  ASSUME DeliveryTypes, NEW u \in Delivery!Users
  PROVE  /\ u \in Delivery!Batch \/ Past(u) \/ Waiting(u)
         /\ u \in Delivery!Batch => ~Past(u) /\ (Begun => ~Waiting(u))
         /\ Begun => ~(Past(u) /\ Waiting(u))
<1>1. PICK i \in DOMAIN SetToSeq(Notified) : SetToSeq(Notified)[i] = u
  BY DEF Delivery!Users
<1>2. \A j \in DOMAIN SetToSeq(Notified) : SetToSeq(Notified)[j] = u => j = i
  BY <1>1, MembersAre
<1>3. i \in Nat
  BY MembersAre
<1>4. /\ u \in Delivery!Batch <=> (from <= i /\ i < from + BatchSize)
      /\ Past(u) <=> i < from
      /\ Waiting(u) <=> (~Begun \/ i >= from + BatchSize)
  BY <1>1, <1>2 DEF Delivery!Batch, Past, Waiting
<1>. QED
  BY <1>3, <1>4, DeliveryAssumption DEF DeliveryTypes

LEMMA BatchUsers == Delivery!Batch \subseteq Delivery!Users
<1>. QED
  BY DEF Delivery!Batch, Delivery!Users

(* The next batch: its members were waiting, and who is before it was before or in the last one. *)
LEMMA NextBatch ==
  ASSUME DeliveryTypes, Delivery!EndBatch, stage' = "batch", NEW u \in Delivery!Users
  PROVE  /\ Past(u)' => Past(u) \/ u \in Delivery!Batch
         /\ u \in Delivery!Batch' => Waiting(u)
         /\ Waiting(u)' => Waiting(u) /\ u \notin Delivery!Batch'
<1>1. PICK i \in DOMAIN SetToSeq(Notified) : SetToSeq(Notified)[i] = u
  BY DEF Delivery!Users
<1>2. \A j \in DOMAIN SetToSeq(Notified) : SetToSeq(Notified)[j] = u => j = i
  BY <1>1, MembersAre
<1>3. i \in Nat
  BY MembersAre
<1>4. stage = "batch" /\ from' = from + BatchSize
  BY DEF Delivery!EndBatch
<1>5. /\ u \in Delivery!Batch <=> (from <= i /\ i < from + BatchSize)
      /\ Past(u) <=> i < from
      /\ Waiting(u) <=> i >= from + BatchSize
  BY <1>1, <1>2, <1>4 DEF Delivery!Batch, Past, Waiting, Begun
<1>6. /\ u \in Delivery!Batch' <=> (from' <= i /\ i < from' + BatchSize)
      /\ Past(u)' <=> i < from'
      /\ Waiting(u)' <=> i >= from' + BatchSize
  BY <1>1, <1>2 DEF Delivery!Batch, Past, Waiting, Begun
<1>. QED
  BY <1>3, <1>4, <1>5, <1>6, DeliveryAssumption DEF DeliveryTypes

(* After the last batch nobody waits. *)
LEMMA LastBatch ==
  ASSUME DeliveryTypes, stage = "batch", from + BatchSize > Len(SetToSeq(Notified)), NEW u \in Delivery!Users
  PROVE  Past(u) \/ u \in Delivery!Batch
<1>1. PICK i \in DOMAIN SetToSeq(Notified) : SetToSeq(Notified)[i] = u
  BY DEF Delivery!Users
<1>2. i \in Nat /\ i <= Len(SetToSeq(Notified)) /\ Len(SetToSeq(Notified)) \in Nat
  BY MembersAre
<1>3. \/ i < from
      \/ from <= i /\ i < from + BatchSize
  BY <1>2, DeliveryAssumption DEF DeliveryTypes
<1>. QED
  BY <1>1, <1>3 DEF Delivery!Batch, Past

LEMMA NextWaitingInv == DeliveryTypes /\ SteadyInv /\ WaitingInv /\ DeliveryStep => WaitingInv'
<1>. SUFFICES ASSUME DeliveryTypes, SteadyInv, WaitingInv, DeliveryStep PROVE WaitingInv'
  OBVIOUS
<1>. USE DEF WaitingInv
<1>1. CASE SetterMoves
  BY <1>1 DEF SetterMoves, Waiting, Begun
<1>2. CASE Delivery!CreateWorkflow
  BY <1>2 DEF Delivery!CreateWorkflow, Waiting, Begun
<1>3. CASE Delivery!GetMembers
  <2>1. ~Begun /\ from' = from /\ (~Begun' => SetToSeq(Notified) = <<>>)
    BY <1>3 DEF Delivery!GetMembers, Begun
  <2>2. stage' \in {"batch", "done"} /\ from = 1 /\ UNCHANGED <<work, queue, posts, history>>
    BY <1>3 DEF Delivery!GetMembers, Begun
  <2>3. ASSUME NEW u \in Delivery!Users, Waiting(u)' PROVE attempts'[u] = 0
    <3>1. PICK i \in DOMAIN SetToSeq(Notified) : SetToSeq(Notified)[i] = u /\ i >= from + BatchSize
      BY <2>1, <2>2, <2>3 DEF Waiting, Begun
    <3>2. u \notin Delivery!Batch
      <4>1. \A j \in DOMAIN SetToSeq(Notified) : SetToSeq(Notified)[j] = u => j = i
        BY <3>1, MembersAre
      <4>2. i \in Nat
        BY MembersAre
      <4>. QED
        BY <3>1, <4>1, <4>2, DeliveryAssumption DEF Delivery!Batch, DeliveryTypes
    <3>. QED
      BY <3>2, <1>3 DEF Delivery!GetMembers
  <2>4. \A u \in Delivery!Users : Waiting(u)
    BY <2>1 DEF Waiting
  <2>. QED
    BY <2>2, <2>3, <2>4 DEF Begun
<1>4. CASE Delivery!EndBatch
  <2>1. UNCHANGED <<work, queue, posts, history>> /\ Begun'
    BY <1>4 DEF Delivery!EndBatch, Begun
  <2>2. ASSUME NEW u \in Delivery!Users, Waiting(u)' PROVE Waiting(u) /\ attempts'[u] = attempts[u]
    <3>1. CASE stage' = "batch"
      <4>1. Waiting(u) /\ u \notin Delivery!Batch'
        BY <1>4, <2>2, <3>1, NextBatch
      <4>2. attempts' = [x \in Delivery!Users |-> IF x \in Delivery!Batch' THEN 1 ELSE attempts[x]]
              \/ UNCHANGED attempts
        BY <1>4 DEF Delivery!EndBatch
      <4>. QED
        BY <4>1, <4>2
    <3>2. CASE stage' # "batch"
      BY <1>4, <2>2, <3>2 DEF Delivery!EndBatch, Waiting, Begun
    <3>. QED
      BY <3>1, <3>2
  <2>. QED
    BY <2>1, <2>2
<1>5. CASE Delivery!LoseAttempt
  <2>1. UNCHANGED <<posts, history, from>> /\ Begun' /\ Begun
    BY <1>5 DEF Delivery!LoseAttempt, Begun
  <2>2. ASSUME NEW u \in Delivery!Users, Waiting(u)' PROVE Waiting(u) /\ u \notin Delivery!Batch
    BY <2>1, <2>2, Places DEF Waiting
  <2>3. \A u \in Delivery!Users : u \notin Delivery!Batch
          => work'[u] = work[u] /\ queue'[u] = queue[u] /\ attempts'[u] = attempts[u]
    BY <1>5 DEF Delivery!LoseAttempt
  <2>. QED
    BY <2>1, <2>2, <2>3
<1>6. ASSUME NEW u \in Delivery!Users,
             MemberReads(u) \/ Delivery!QueueNotification(u)
                 \/ \E p \in Delivery!Pushers : Delivery!SendToPusher(u, p)
      PROVE  WaitingInv'
  <2>1. UNCHANGED <<stage, from, attempts>> /\ Begun
    BY <1>6 DEF MemberReads, Delivery!EvaluatePushRules, Delivery!GetUnreadCount,
       Delivery!GetUserPushers, Delivery!FailMember, Delivery!QueueNotification, Delivery!SendToPusher, Begun
  <2>2. \A x \in Delivery!Users : Waiting(x)' <=> Waiting(x)
    BY <2>1 DEF Waiting, Begun
  <2>3. ASSUME NEW x \in Delivery!Users, Waiting(x) PROVE x # u
    <3>1. CASE MemberReads(u)
      BY <2>1, <2>3, <3>1, Places DEF MemberReads, Delivery!EvaluatePushRules, Delivery!GetUnreadCount,
       Delivery!GetUserPushers, Delivery!FailMember
    <3>2. CASE Delivery!QueueNotification(u) \/ \E p \in Delivery!Pushers : Delivery!SendToPusher(u, p)
      BY <2>3, <3>2 DEF Delivery!QueueNotification, Delivery!SendToPusher
    <3>. QED
      BY <1>6, <3>1, <3>2
  <2>4. \A x \in Delivery!Users \ {u} : work'[x] = work[x] /\ queue'[x] = queue[x] /\ history'[x] = history[x]
    BY <1>6 DEF MemberReads, Delivery!EvaluatePushRules, Delivery!GetUnreadCount,
       Delivery!GetUserPushers, Delivery!FailMember, Delivery!QueueNotification, Delivery!SendToPusher, DeliveryTypes
  <2>5. \A q \in Delivery!Pushers : q[1] # u => posts'[q] = posts[q]
    BY <1>6 DEF MemberReads, Delivery!EvaluatePushRules, Delivery!GetUnreadCount,
       Delivery!GetUserPushers, Delivery!FailMember, Delivery!QueueNotification, Delivery!SendToPusher, DeliveryTypes, SteadyInv
  <2>. QED
    BY <2>1, <2>2, <2>3, <2>4, <2>5 DEF Begun
<1>. QED
  BY <1>1, <1>2, <1>3, <1>4, <1>5, <1>6, StepsMoveOne DEF WorkflowStep

(* The three things a batch does for one of its members; whoever has not yet ended is in the batch. *)
MemberMoves(u) ==
  /\ stage = "batch" /\ UNCHANGED <<stage, from, attempts, steady, pushers, loose, setter>>
  /\ work[u] \in Reading \cup {"send"}
  /\ \A x \in Delivery!Users \ {u} : work'[x] = work[x] /\ queue'[x] = queue[x] /\ history'[x] = history[x]
  /\ \A q \in Delivery!Pushers : q[1] # u => posts'[q] = posts[q]
  /\ broken \subseteq broken' /\ silent \subseteq silent'

LEMMA MembersMove ==
  ASSUME DeliveryTypes, SteadyInv, NEW u \in Delivery!Users,
         MemberReads(u) \/ Delivery!QueueNotification(u)
             \/ \E p \in Delivery!Pushers : Delivery!SendToPusher(u, p)
  PROVE  MemberMoves(u)
<1>1. CASE MemberReads(u)
  BY <1>1 DEF MemberReads, Delivery!EvaluatePushRules, Delivery!GetUnreadCount,
       Delivery!GetUserPushers, Delivery!FailMember, MemberMoves, DeliveryTypes, Reading
<1>2. CASE Delivery!QueueNotification(u)
  BY <1>2 DEF Delivery!QueueNotification, MemberMoves, DeliveryTypes
<1>3. ASSUME NEW p \in Delivery!Pushers, Delivery!SendToPusher(u, p) PROVE MemberMoves(u)
  BY <1>3 DEF Delivery!SendToPusher, MemberMoves, DeliveryTypes, SteadyInv
<1>. QED
  BY <1>1, <1>2, <1>3

LEMMA InBatch ==
  ASSUME DeliveryTypes, WaitingInv, PastInv, NEW u \in Delivery!Users, stage = "batch", work[u] = "send"
  PROVE  u \in Delivery!Batch
<1>. QED
  BY Places DEF WaitingInv, PastInv, Begun

LEMMA NextDuplicates ==
  DeliveryTypes /\ SteadyInv /\ WaitingInv /\ BatchInv /\ PastInv /\ Delivery!DuplicatesExplained /\ DeliveryStep
    => Delivery!DuplicatesExplained'
<1>. SUFFICES ASSUME DeliveryTypes, SteadyInv, WaitingInv, BatchInv, PastInv, Delivery!DuplicatesExplained,
       DeliveryStep
              PROVE  Delivery!DuplicatesExplained'
  OBVIOUS
<1>. USE DEF Delivery!DuplicatesExplained
<1>0. \A p \in Delivery!Pushers : p[1] \in Delivery!Users
  BY DEF Delivery!Pushers
<1>1. CASE SetterMoves
  BY <1>1 DEF SetterMoves
<1>2. CASE Delivery!CreateWorkflow
  BY <1>2 DEF Delivery!CreateWorkflow
<1>3. ASSUME UNCHANGED <<posts, history>>, \A u \in Delivery!Users : attempts'[u] >= attempts[u]
      PROVE  Delivery!DuplicatesExplained'
  <2>1. \A u \in Delivery!Users : attempts[u] \in Nat /\ attempts'[u] \in Nat /\ history[u] \in Nat
    BY NextDeliveryTypes DEF DeliveryTypes
  <2>2. \A p \in Delivery!Pushers : posts[p] \in Nat
    BY DEF DeliveryTypes
  <2>. QED
    BY <1>0, <1>3, <2>1, <2>2
<1>4. CASE Delivery!GetMembers
  <2>1. \A u \in Delivery!Users : attempts[u] = 0
    BY <1>4 DEF Delivery!GetMembers, WaitingInv, Waiting, Begun
  <2>2. \A u \in Delivery!Users : attempts'[u] >= 0
    BY <1>4 DEF Delivery!GetMembers
  <2>. QED
    BY <1>3, <1>4, <2>1, <2>2 DEF Delivery!GetMembers
<1>5. CASE Delivery!EndBatch
  <2>1. CASE stage' = "batch"
    <3>1. \A u \in Delivery!Users : u \in Delivery!Batch' => attempts[u] = 0
      BY <1>5, <2>1, NextBatch DEF WaitingInv
    <3>2. attempts' = [x \in Delivery!Users |-> IF x \in Delivery!Batch' THEN 1 ELSE attempts[x]]
            \/ UNCHANGED attempts
      BY <1>5 DEF Delivery!EndBatch
    <3>3. \A u \in Delivery!Users : attempts'[u] >= attempts[u]
      BY <3>1, <3>2 DEF DeliveryTypes
    <3>. QED
      BY <1>3, <1>5, <3>3 DEF Delivery!EndBatch
  <2>2. CASE stage' # "batch"
    BY <1>5, <2>2 DEF Delivery!EndBatch
  <2>. QED
    BY <2>1, <2>2
<1>6. CASE Delivery!LoseAttempt
  <2>1. \A u \in Delivery!Users : attempts'[u] >= attempts[u]
    BY <1>6 DEF Delivery!LoseAttempt, DeliveryTypes
  <2>. QED
    BY <1>3, <1>6, <2>1 DEF Delivery!LoseAttempt
<1>7. ASSUME NEW u \in Delivery!Users, MemberReads(u) PROVE Delivery!DuplicatesExplained'
  BY <1>7 DEF MemberReads, Delivery!EvaluatePushRules, Delivery!GetUnreadCount,
       Delivery!GetUserPushers, Delivery!FailMember
<1>8. ASSUME NEW u \in Delivery!Users, Delivery!QueueNotification(u) PROVE Delivery!DuplicatesExplained'
  <2>1. history[u] < attempts[u]
    BY <1>8, InBatch DEF Delivery!QueueNotification, BatchInv
  <2>2. history[u] \in Nat /\ attempts[u] \in Nat
    BY DEF DeliveryTypes
  <2>3. \A x \in Delivery!Users : history'[x] = history[x] \/ (x = u /\ history'[x] = history[x] + 1)
    BY <1>8 DEF Delivery!QueueNotification, DeliveryTypes
  <2>4. UNCHANGED <<posts, attempts>>
    BY <1>8 DEF Delivery!QueueNotification
  <2>. QED
    BY <2>1, <2>2, <2>3, <2>4
<1>9. ASSUME NEW u \in Delivery!Users, NEW p \in Delivery!Pushers,
        Delivery!SendToPusher(u, p) PROVE Delivery!DuplicatesExplained'
  <2>1. posts[p] < attempts[u] /\ p[1] = u
    BY <1>9, InBatch DEF Delivery!SendToPusher, BatchInv, SteadyInv
  <2>2. posts[p] \in Nat /\ attempts[u] \in Nat
    BY DEF DeliveryTypes
  <2>3. \A q \in Delivery!Pushers : posts'[q] = posts[q] \/ (q = p /\ posts'[q] = posts[q] + 1)
    BY <1>9 DEF Delivery!SendToPusher, DeliveryTypes
  <2>4. UNCHANGED <<history, attempts>>
    BY <1>9 DEF Delivery!SendToPusher
  <2>. QED
    BY <2>1, <2>2, <2>3, <2>4
<1>. QED
  BY <1>1, <1>2, <1>4, <1>5, <1>6, <1>7, <1>8, <1>9, StepsMoveOne DEF WorkflowStep

LEMMA NextPastInv ==
  DeliveryTypes /\ SteadyInv /\ WaitingInv /\ BatchInv /\ PastInv /\ DeliveryStep => PastInv'
<1>. SUFFICES ASSUME DeliveryTypes, SteadyInv, WaitingInv, BatchInv, PastInv, DeliveryStep PROVE PastInv'
  OBVIOUS
<1>1. ASSUME steady' \subseteq steady, UNCHANGED <<posts, history, broken>>, NEW u \in Delivery!Users, Reached(u),
             u \in silent => u \in silent'
      PROVE  Reached(u)'
  BY <1>1 DEF Reached
<1>2. CASE SetterMoves
  BY <1>1, <1>2 DEF SetterMoves, PastInv, Past, Begun
<1>3. CASE Delivery!CreateWorkflow
  BY <1>3 DEF Delivery!CreateWorkflow, PastInv, Begun
<1>4. CASE Delivery!GetMembers
  <2>1. from' = 1 /\ (stage' = "done" => Delivery!Users = {}) /\ stage' \in {"batch", "done"}
    BY <1>4, MembersAre DEF Delivery!GetMembers, WaitingInv, Begun, Delivery!Users
  <2>2. \A u \in Delivery!Users : ~Past(u)'
    <3>1. \A i \in DOMAIN SetToSeq(Notified) : i >= 1
      BY MembersAre
    <3>. QED
      BY <2>1, <3>1, MembersAre DEF Past
  <2>. QED
    BY <2>1, <2>2 DEF PastInv
<1>5. CASE Delivery!EndBatch
  <2>1. stage = "batch" /\ Begun /\ UNCHANGED <<work, steady, posts, history, broken, silent>>
    BY <1>5 DEF Delivery!EndBatch, Begun
  <2>2. \A u \in Delivery!Batch : work[u] = "end"
    BY <1>5 DEF Delivery!EndBatch
  <2>3. \A u \in Delivery!Users : Past(u) \/ u \in Delivery!Batch => work'[u] = "end" /\ Reached(u)'
    BY <1>1, <2>1, <2>2 DEF PastInv, BatchInv
  <2>4. CASE stage' = "batch"
    BY <1>5, <2>3, <2>4, NextBatch DEF PastInv
  <2>5. CASE stage' # "batch"
    <3>1. from + BatchSize > Len(SetToSeq(Notified)) /\ from' = from
      BY <1>5, <2>5 DEF Delivery!EndBatch
    <3>2. \A u \in Delivery!Users : work'[u] = "end" /\ Reached(u)'
      BY <2>1, <2>3, <3>1, LastBatch
    <3>. QED
      BY <3>2 DEF PastInv
  <2>. QED
    BY <2>4, <2>5
<1>6. CASE Delivery!LoseAttempt
  <2>1. UNCHANGED <<from, posts, history, steady, broken>> /\ Begun /\ stage' # "done"
    BY <1>6 DEF Delivery!LoseAttempt, Begun
  <2>2. \A u \in Delivery!Users : u \notin Delivery!Batch => work'[u] = work[u] /\ (u \in silent => u \in silent')
    BY <1>6 DEF Delivery!LoseAttempt
  <2>3. \A u \in Delivery!Users : Past(u)' => Past(u) /\ u \notin Delivery!Batch
    BY <2>1, Places DEF Past
  <2>. QED
    BY <1>1, <2>1, <2>2, <2>3 DEF PastInv
<1>7. ASSUME NEW u \in Delivery!Users, MemberMoves(u) PROVE PastInv'
  <2>1. Begun /\ Begun' /\ stage' # "done"
    BY <1>7 DEF MemberMoves, Begun
  <2>2. ASSUME NEW x \in Delivery!Users, Past(x)' PROVE Past(x) /\ x # u
    BY <1>7, <2>1, <2>2 DEF MemberMoves, Past, PastInv, Reading
  <2>3. ASSUME NEW x \in Delivery!Users, x # u, Reached(x) PROVE Reached(x)'
    <3>1. \A p \in steady' : p \in steady /\ p \in Delivery!Pushers
      BY <1>7 DEF MemberMoves, DeliveryTypes
    <3>. QED
      BY <1>7, <2>3, <3>1 DEF MemberMoves, Reached
  <2>. QED
    BY <1>7, <2>1, <2>2, <2>3 DEF PastInv, MemberMoves
<1>. QED
  BY <1>2, <1>3, <1>4, <1>5, <1>6, <1>7, StepsMoveOne, MembersMove DEF WorkflowStep

LEMMA NextBatchInv ==
  DeliveryTypes /\ SteadyInv /\ WaitingInv /\ BatchInv /\ PastInv /\ Delivery!DuplicatesExplained /\ DeliveryStep
    => BatchInv'
<1>. SUFFICES ASSUME DeliveryTypes, SteadyInv, WaitingInv, BatchInv, PastInv, Delivery!DuplicatesExplained,
       DeliveryStep
              PROVE  BatchInv'
  OBVIOUS
<1>1. CASE SetterMoves
  BY <1>1, BatchUsers DEF SetterMoves, BatchInv, Delivery!Batch, Reached
<1>2. CASE Delivery!CreateWorkflow
  BY <1>2 DEF Delivery!CreateWorkflow, BatchInv
<1>3. CASE Delivery!GetMembers
  <2>1. UNCHANGED <<work, queue, posts, history, from>> /\ Delivery!Batch' = Delivery!Batch
    BY <1>3 DEF Delivery!GetMembers, Delivery!Batch
  <2>2. \A u \in Delivery!Users : Waiting(u)
    BY <1>3 DEF Delivery!GetMembers, Waiting, Begun
  <2>3. \A u \in Delivery!Batch : u \in Delivery!Users /\ attempts'[u] = 1
    BY <1>3, BatchUsers DEF Delivery!GetMembers
  <2>. QED
    BY <2>1, <2>2, <2>3 DEF WaitingInv, BatchInv
<1>4. CASE Delivery!EndBatch
  <2>1. CASE stage' = "batch"
    <3>1. \A u \in Delivery!Batch' : u \in Delivery!Users
      BY DEF Delivery!Batch, Delivery!Users
    <3>2. \A u \in Delivery!Batch' : Waiting(u)
      BY <1>4, <2>1, <3>1, NextBatch
    <3>3. attempts' = [x \in Delivery!Users |-> IF x \in Delivery!Batch' THEN 1 ELSE attempts[x]]
      BY <1>4, <2>1 DEF Delivery!EndBatch
    <3>4. UNCHANGED <<work, queue, posts, history>>
      BY <1>4 DEF Delivery!EndBatch
    <3>. QED
      BY <3>1, <3>2, <3>3, <3>4 DEF WaitingInv, BatchInv
  <2>2. CASE stage' # "batch"
    BY <2>2 DEF BatchInv
  <2>. QED
    BY <2>1, <2>2
<1>5. CASE Delivery!LoseAttempt
  <2>1. CASE stage' = "batch"
    <3>1. UNCHANGED <<posts, history>> /\ Delivery!Batch' = Delivery!Batch
      BY <1>5 DEF Delivery!LoseAttempt, Delivery!Batch
    <3>2. \A u \in Delivery!Batch : u \in Delivery!Users /\ work'[u] = "rules" /\ queue'[u] = {}
            /\ attempts'[u] = attempts[u] + 1
      BY <1>5, <2>1, BatchUsers DEF Delivery!LoseAttempt
    <3>3. \A u \in Delivery!Batch : attempts[u] \in Nat /\ history[u] \in Nat /\ history[u] <= attempts[u]
      BY BatchUsers DEF DeliveryTypes, Delivery!DuplicatesExplained
    <3>4. \A p \in Delivery!Pushers : posts[p] \in Nat /\ posts[p] <= attempts[p[1]]
      BY DEF DeliveryTypes, Delivery!DuplicatesExplained
    <3>. QED
      BY <3>1, <3>2, <3>3, <3>4 DEF BatchInv
  <2>2. CASE stage' # "batch"
    BY <2>2 DEF BatchInv
  <2>. QED
    BY <2>1, <2>2
<1>6. ASSUME NEW u \in Delivery!Users, MemberMoves(u), NEW x \in Delivery!Batch, x # u, stage = "batch"
      PROVE  /\ work'[x] \in Reading => queue'[x] = {} /\ \A p \in Delivery!Pushers : p[1] = x => posts'[p] < attempts'[x]
             /\ work'[x] # "end" => history'[x] < attempts'[x]
             /\ \A p \in queue'[x] : posts'[p] < attempts'[x]
             /\ work'[x] = "send" => \A p \in steady' : p[1] = x => p \in queue'[x] \/ posts'[p] > 0
             /\ work'[x] = "end" => queue'[x] = {} /\ Reached(x)'
  <2>1. /\ work'[x] = work[x] /\ queue'[x] = queue[x] /\ history'[x] = history[x] /\ attempts'[x] = attempts[x]
        /\ steady' = steady /\ (x \in broken => x \in broken') /\ (x \in silent => x \in silent')
    BY <1>6, BatchUsers DEF MemberMoves
  <2>2. \A p \in Delivery!Pushers : p[1] = x => posts'[p] = posts[p]
    BY <1>6 DEF MemberMoves
  <2>3. steady \subseteq Delivery!Pushers /\ \A p \in queue[x] : p \in Delivery!Pushers /\ p[1] = x
    BY BatchUsers DEF DeliveryTypes, SteadyInv
  <2>4. Reached(x) => Reached(x)'
    BY <2>1, <2>2, <2>3 DEF Reached
  <2>. QED
    BY <1>6, <2>1, <2>2, <2>3, <2>4 DEF BatchInv
<1>7. ASSUME NEW u \in Delivery!Users, MemberReads(u) PROVE BatchInv'
  <2>1. MemberMoves(u) /\ u \in Delivery!Batch /\ Delivery!Batch' = Delivery!Batch /\ stage = "batch"
          /\ UNCHANGED <<posts, history, attempts, steady>> /\ work[u] \in Reading
    BY <1>7, MembersMove DEF MemberReads, Delivery!EvaluatePushRules, Delivery!GetUnreadCount,
       Delivery!GetUserPushers, Delivery!FailMember, Delivery!Batch, Reading
  <2>2. queue[u] = {} /\ history[u] < attempts[u] /\ \A p \in Delivery!Pushers : p[1] = u => posts[p] < attempts[u]
    BY <2>1 DEF BatchInv, Reading
  <2>3. \A p \in steady : p[1] = u => u \notin muted /\ p \in Delivery!OfUser(u)
    BY DEF SteadyInv, Delivery!OfUser, DeliveryTypes
  <2>4. \A p \in Delivery!OfUser(u) : p \in Delivery!Pushers /\ p[1] = u
    BY DEF Delivery!OfUser, DeliveryTypes
  <2>5. \/ work'[u] \in Reading /\ queue'[u] = {}
        \/ work'[u] = "end" /\ queue'[u] = {} /\ u \in muted
        \/ work'[u] = "end" /\ queue'[u] = {} /\ u \in silent'
        \/ work'[u] = "end" /\ queue'[u] = {} /\ Delivery!OfUser(u) = {}
        \/ work'[u] = "send" /\ queue'[u] = Delivery!OfUser(u)
    <3>1. CASE Delivery!EvaluatePushRules(u)
      BY <2>2, <3>1 DEF Delivery!EvaluatePushRules, DeliveryTypes, Reading
    <3>2. CASE Delivery!GetUnreadCount(u)
      BY <2>2, <3>2 DEF Delivery!GetUnreadCount, DeliveryTypes, Reading
    <3>3. CASE Delivery!GetUserPushers(u)
      BY <3>3 DEF Delivery!GetUserPushers, DeliveryTypes
    <3>4. CASE Delivery!FailMember(u)
      BY <2>2, <3>4 DEF Delivery!FailMember, DeliveryTypes
    <3>. QED
      BY <1>7, <3>1, <3>2, <3>3, <3>4 DEF MemberReads
  <2>6. work'[u] = "end" => queue'[u] = {} /\ Reached(u)'
    <3>1. CASE u \in silent'
      <4>1. work'[u] = "end" => queue'[u] = {}
        BY <2>5 DEF Reading
      <4>. QED
        BY <3>1, <4>1 DEF Reached
    <3>2. CASE u \notin silent'
      <4>1. work'[u] = "end" => queue'[u] = {} /\ \A p \in steady : p[1] # u
        BY <2>3, <2>5, <3>2 DEF Reading
      <4>. QED
        BY <2>1, <4>1 DEF Reached
    <3>. QED
      BY <3>1, <3>2
  <2>7. \A p \in queue'[u] : posts'[p] < attempts'[u]
    BY <2>1, <2>2, <2>4, <2>5
  <2>8. work'[u] = "send" => \A p \in steady' : p[1] = u => p \in queue'[u]
    BY <2>1, <2>3, <2>5 DEF Reading
  <2>9. work'[u] \in Reading => queue'[u] = {} /\ \A p \in Delivery!Pushers : p[1] = u => posts'[p] < attempts'[u]
    BY <2>1, <2>2, <2>5 DEF Reading
  <2>. QED
    BY <1>6, <2>1, <2>2, <2>6, <2>7, <2>8, <2>9 DEF BatchInv
<1>8. ASSUME NEW u \in Delivery!Users, Delivery!QueueNotification(u) PROVE BatchInv'
  <2>1. /\ MemberMoves(u) /\ u \in Delivery!Batch /\ Delivery!Batch' = Delivery!Batch /\ stage = "batch"
        /\ UNCHANGED <<posts, attempts, queue, steady>>
    BY <1>8, MembersMove, InBatch DEF Delivery!QueueNotification, Delivery!Batch
  <2>2. work[u] = "send" /\ queue[u] = {} /\ work'[u] = "end"
    BY <1>8 DEF Delivery!QueueNotification, DeliveryTypes
  <2>3. history'[u] > 0 \/ u \in broken'
    BY <1>8 DEF Delivery!QueueNotification, DeliveryTypes
  <2>4. \A p \in steady : p[1] = u => posts[p] > 0
    BY <2>1, <2>2 DEF BatchInv
  <2>5. Reached(u)'
    BY <2>1, <2>3, <2>4 DEF Reached
  <2>. QED
    BY <1>6, <2>1, <2>2, <2>5 DEF BatchInv, Reading
<1>9. ASSUME NEW u \in Delivery!Users, NEW p \in Delivery!Pushers, Delivery!SendToPusher(u, p) PROVE BatchInv'
  <2>1. /\ MemberMoves(u) /\ u \in Delivery!Batch /\ Delivery!Batch' = Delivery!Batch /\ stage = "batch"
        /\ UNCHANGED <<work, history, attempts, steady>>
    BY <1>9, MembersMove, InBatch DEF Delivery!SendToPusher, Delivery!Batch
  <2>2. work[u] = "send" /\ queue'[u] = queue[u] \ {p}
    BY <1>9 DEF Delivery!SendToPusher, DeliveryTypes
  <2>3. \A q \in Delivery!Pushers : posts'[q] = (IF q = p THEN posts[p] + 1 ELSE posts[q]) /\ posts[q] \in Nat
    BY <1>9 DEF Delivery!SendToPusher, DeliveryTypes
  <2>4. steady \subseteq Delivery!Pushers /\ queue[u] \subseteq Delivery!Pushers
    BY DEF DeliveryTypes
  <2>5. \A q \in queue'[u] : posts'[q] < attempts'[u]
    BY <2>1, <2>2, <2>3, <2>4 DEF BatchInv
  <2>6. \A q \in steady' : q[1] = u => q \in queue'[u] \/ posts'[q] > 0
    BY <2>1, <2>2, <2>3, <2>4 DEF BatchInv
  <2>7. history[u] < attempts[u]
    BY <2>1, <2>2 DEF BatchInv
  <2>. QED
    BY <1>6, <2>1, <2>2, <2>5, <2>6, <2>7 DEF BatchInv, Reading
<1>. QED
  BY <1>1, <1>2, <1>3, <1>4, <1>5, <1>7, <1>8, <1>9, StepsMoveOne DEF WorkflowStep

LEMMA NextSetterInv ==
  DeliveryTypes /\ SetterInv /\ Delivery!OnePusherPerKey /\ DeliveryStep => SetterInv' /\ Delivery!OnePusherPerKey'
<1>. SUFFICES ASSUME DeliveryTypes, SetterInv, Delivery!OnePusherPerKey, DeliveryStep PROVE SetterInv'
       /\ Delivery!OnePusherPerKey'
  OBVIOUS
<1>1. Delivery!OnePusherPerKey <=> \A p, q \in pushers : KeyOf(p) = KeyOf(q) /\ p # q => KeyOf(p) \in loose
  BY DEF Delivery!OnePusherPerKey, KeyOf
<1>2. (\A p, q \in pushers' : KeyOf(p) = KeyOf(q) /\ p # q => KeyOf(p) \in loose') => Delivery!OnePusherPerKey'
  BY DEF Delivery!OnePusherPerKey, KeyOf
<1>3. ASSUME UNCHANGED <<pushers, setter, loose>> PROVE SetterInv' /\ Delivery!OnePusherPerKey'
  BY <1>3 DEF SetterInv, Delivery!OnePusherPerKey, Busy
<1>4. ASSUME pushers' \subseteq pushers, UNCHANGED loose, NEW s \in Setters,
             \A t \in Setters : setter'[t].pusher = setter[t].pusher,
             \A t \in Setters : setter'[t].step = IF t = s THEN "done" ELSE setter[t].step
      PROVE  SetterInv' /\ Delivery!OnePusherPerKey'
  <2>1. SetterInv'
    BY <1>4 DEF SetterInv, Busy
  <2>. QED
    BY <1>1, <1>2, <1>4, <2>1
<1>5. ASSUME NEW s \in Setters, NEW a \in {"insert", "done"}, setter' = [setter EXCEPT ![s].step = a]
      PROVE  /\ \A t \in Setters : setter'[t].pusher = setter[t].pusher
             /\ \A t \in Setters : setter'[t].step = IF t = s THEN a ELSE setter[t].step
  BY <1>5, SetterFields DEF DeliveryTypes
<1>6. ASSUME NEW s \in Setters, NEW u \in Delivery!Users, Delivery!Mute(s, u) PROVE SetterInv'
        /\ Delivery!OnePusherPerKey'
  <2>1. pushers' \subseteq pushers /\ UNCHANGED loose /\ setter' = [setter EXCEPT ![s].step = "done"]
    BY <1>6 DEF Delivery!Mute
  <2>. QED
    BY <1>4, <1>5, <2>1
<1>7. ASSUME NEW s \in Setters, NEW p \in Delivery!Pushers, Delivery!RemovePusher(s, p) PROVE SetterInv'
        /\ Delivery!OnePusherPerKey'
  <2>1. pushers' \subseteq pushers /\ UNCHANGED loose /\ setter' = [setter EXCEPT ![s].step = "done"]
    BY <1>7 DEF Delivery!RemovePusher
  <2>. QED
    BY <1>4, <1>5, <2>1
<1>8. ASSUME NEW s \in Setters, NEW p \in Delivery!Pushers, NEW append \in BOOLEAN, Delivery!OpenSetter(s, p, append)
      PROVE  SetterInv' /\ Delivery!OnePusherPerKey'
  <2>1. /\ UNCHANGED pushers /\ loose \subseteq loose'
        /\ (append \/ \E t \in Setters \ {s} : Busy(t) /\ KeyOf(setter[t].pusher) = KeyOf(p)) => KeyOf(p) \in loose'
    BY <1>8 DEF Delivery!OpenSetter, KeyOf, Busy
  <2>2. /\ setter'[s].step = (IF append THEN "insert" ELSE "delete") /\ setter'[s].pusher = p
        /\ \A t \in Setters \ {s} : setter'[t] = setter[t]
    BY <1>8 DEF Delivery!OpenSetter, DeliveryTypes
  <2>3. ASSUME NEW t \in Setters \ {s}, Busy(t)', KeyOf(setter'[t].pusher) = KeyOf(p) PROVE KeyOf(p) \in loose'
    BY <2>1, <2>2, <2>3 DEF Busy
  <2>4. ASSUME NEW x \in Setters, NEW y \in Setters, x # y, Busy(x)', Busy(y)',
               KeyOf(setter'[x].pusher) = KeyOf(setter'[y].pusher)
        PROVE  KeyOf(setter'[x].pusher) \in loose'
    <3>1. CASE x = s \/ y = s
      BY <2>2, <2>3, <2>4, <3>1
    <3>2. CASE x # s /\ y # s
      <4>1. Busy(x) /\ Busy(y) /\ setter'[x] = setter[x] /\ setter'[y] = setter[y]
        BY <2>2, <2>4, <3>2 DEF Busy
      <4>. QED
        BY <2>1, <2>4, <4>1 DEF SetterInv
    <3>. QED
      BY <3>1, <3>2
  <2>5. ASSUME NEW x \in Setters, setter'[x].step = "insert"
        PROVE  KeyOf(setter'[x].pusher) \in loose' \/ \A q \in pushers' : KeyOf(q) # KeyOf(setter'[x].pusher)
    BY <2>1, <2>2, <2>5 DEF SetterInv
  <2>6. SetterInv'
    BY <2>4, <2>5 DEF SetterInv
  <2>. QED
    BY <1>1, <1>2, <2>1, <2>6
<1>9. ASSUME NEW s \in Setters, Delivery!DeleteOld(s) PROVE SetterInv' /\ Delivery!OnePusherPerKey'
  <2>1. /\ UNCHANGED loose /\ setter' = [setter EXCEPT ![s].step = "insert"] /\ pushers' \subseteq pushers
        /\ Busy(s) /\ \A q \in pushers' : KeyOf(q) # KeyOf(setter[s].pusher)
    BY <1>9 DEF Delivery!DeleteOld, Busy, KeyOf
  <2>2. /\ \A t \in Setters : setter'[t].pusher = setter[t].pusher
        /\ \A t \in Setters : setter'[t].step = IF t = s THEN "insert" ELSE setter[t].step
    BY <1>5, <2>1
  <2>3. \A t \in Setters : Busy(t)' <=> Busy(t)
    BY <2>1, <2>2 DEF Busy
  <2>4. SetterInv'
    BY <2>1, <2>2, <2>3 DEF SetterInv
  <2>. QED
    BY <1>1, <1>2, <2>1, <2>4
<1>10. ASSUME NEW s \in Setters, Delivery!InsertPusher(s) PROVE SetterInv' /\ Delivery!OnePusherPerKey'
  <2>1. /\ UNCHANGED loose /\ setter' = [setter EXCEPT ![s] = [Delivery!NoSetter EXCEPT !.step = "done"]]
        /\ pushers' = pushers \cup {setter[s].pusher} /\ setter[s].step = "insert"
    BY <1>10 DEF Delivery!InsertPusher
  <2>7. [Delivery!NoSetter EXCEPT !.step = "done"].step = "done"
    BY DEF Delivery!NoSetter
  <2>2. /\ \A t \in Setters \ {s} : setter'[t] = setter[t]
        /\ setter'[s].step = "done"
    BY <2>1, <2>7 DEF DeliveryTypes
  <2>3. \A t \in Setters : Busy(t)' => t # s /\ Busy(t) /\ Busy(s)
    BY <2>1, <2>2 DEF Busy
  <2>4. ASSUME NEW t \in Setters, setter'[t].step = "insert"
        PROVE  KeyOf(setter[t].pusher) \in loose \/ \A q \in pushers' : KeyOf(q) # KeyOf(setter[t].pusher)
    <3>1. t # s /\ Busy(t) /\ Busy(s) /\ setter[t].step = "insert"
      BY <2>1, <2>2, <2>4 DEF Busy
    <3>. QED
      BY <2>1, <3>1 DEF SetterInv
  <2>5. SetterInv'
    BY <2>1, <2>2, <2>3, <2>4 DEF SetterInv
  <2>. QED
    BY <1>1, <1>2, <2>1, <2>5 DEF SetterInv
<1>11. ASSUME WorkflowStep PROVE UNCHANGED <<pushers, setter, loose>>
  BY <1>11 DEF WorkflowStep, Delivery!CreateWorkflow, Delivery!GetMembers, Delivery!EndBatch, Delivery!LoseAttempt,
               MemberReads, Delivery!EvaluatePushRules, Delivery!GetUnreadCount,
       Delivery!GetUserPushers, Delivery!FailMember, Delivery!QueueNotification,
               Delivery!SendToPusher
<1>12. ASSUME UNCHANGED Delivery!deliveryVars PROVE UNCHANGED <<pushers, setter, loose>>
  BY <1>12 DEF Delivery!deliveryVars
<1>. QED
  BY <1>3, <1>6, <1>7, <1>8, <1>9, <1>10, <1>11, <1>12 DEF DeliveryStep, WorkflowStep

LEMMA InitDeliveryInv == Delivery!DeliveryInit => DeliveryInv
<1>. SUFFICES ASSUME Delivery!DeliveryInit PROVE DeliveryInv
  OBVIOUS
<1>. USE DEF Delivery!DeliveryInit
<1>1. DeliveryTypes
  <2>1. setter \in [Setters -> SetterRecords]
    BY DEF SetterRecords, Delivery!NoSetter
  <2>2. \A s \in Setters : ~Busy(s)
    BY DEF Busy, Delivery!NoSetter
  <2>. QED
    BY <2>1, <2>2 DEF DeliveryTypes, Delivery!Fresh
<1>2. SteadyInv /\ WaitingInv /\ Delivery!DuplicatesExplained
  BY DEF SteadyInv, WaitingInv, Delivery!Fresh, Delivery!DuplicatesExplained, Delivery!Pushers
<1>3. BatchInv /\ PastInv /\ SetterInv
  BY DEF BatchInv, PastInv, Begun, SetterInv, Busy, Delivery!NoSetter
<1>4. Delivery!OnePusherPerKey
  <2>1. PICK a \in Apps : pushers = {p \in Delivery!Pushers : p[3] = a}
    OBVIOUS
  <2>2. ASSUME NEW p \in pushers, NEW q \in pushers, p[1] = q[1], p[2] = q[2] PROVE p = q
    BY <2>1, <2>2 DEF Delivery!Pushers
  <2>. QED
    BY <2>2 DEF Delivery!OnePusherPerKey
<1>. QED
  BY <1>1, <1>2, <1>3, <1>4 DEF DeliveryInv

LEMMA DeliveryInvariance == Delivery!DeliverySpec => []DeliveryInv
<1>1. DeliveryInv /\ [Delivery!DeliveryNext]_(Delivery!deliveryVars) => DeliveryInv'
  BY NextIsDeliveryStep, NextDeliveryTypes, NextSteadyInv, NextWaitingInv, NextBatchInv, NextPastInv, NextSetterInv,
     NextDuplicates DEF DeliveryInv
<1>. QED
  BY <1>1, InitDeliveryInv, PTL DEF Delivery!DeliverySpec

LEMMA InvDeliverySound == DeliveryInv => Delivery!DeliverySound
<1>. SUFFICES ASSUME DeliveryInv PROVE Delivery!DeliverySound
  OBVIOUS
<1>1. \A p \in steady : p[1] \in Delivery!Users
  BY DEF DeliveryInv, DeliveryTypes, Delivery!Pushers
<1>2. Delivery!NoneSkipped
  BY <1>1 DEF DeliveryInv, PastInv, Reached, Delivery!NoneSkipped
<1>. QED
  BY <1>2 DEF DeliveryInv, Delivery!DeliverySound

LEMMA DeliveryRuns == ServicesSpec => Delivery!DeliverySpec
<1>1. ServicesInit => Delivery!DeliveryInit
  BY DEF ServicesInit
<1>2. [ServicesNext]_servicesVars => [Delivery!DeliveryNext]_(Delivery!deliveryVars)
  BY DEF ServicesNext, servicesVars, deliveryVars, Delivery!deliveryVars
<1>. QED
  BY <1>1, <1>2, PTL DEF ServicesSpec, Delivery!DeliverySpec

(* When the workflow is done every pusher that was there all the time has the notification, twice only for a
   repeated batch, and a pushkey has one pusher unless two requests overlap (PushNotificationWorkflow.ts, push.ts). *)
THEOREM NotificationsAreDelivered == ServicesSpec => []DeliverySound
<1>1. Delivery!DeliverySound => DeliverySound
  BY DEF DeliverySound
<1>. QED
  BY DeliveryRuns, DeliveryInvariance, InvDeliverySound, <1>1, PTL

-----------------------------------------------------------------------------
(* Account data: DataInvariant says what the last PUT has written so far. *)

SecretSteps == {"object", "list", "kv"}
RowSteps == {"d1", "move", "position", "insert"}
TagSteps == {"readTags", "writeTags"}
DataOps == [type : Data!Types \cup {"m.tag", "none"}, tag : Tags \cup {"none"}, add : BOOLEAN]

DataTypes ==
  /\ held \in [Data!Stores -> [Data!Types -> DataRequests \cup {NoContent}]]
  /\ changes \in [Data!Types -> SUBSET Nat] /\ counter \in Nat
  /\ op \in [DataRequests -> DataOps]
  /\ at \in [DataRequests -> {"new", "done",
      "stopped"} \cup SecretSteps \cup RowSteps \cup TagSteps]
  /\ DOMAIN read = DataRequests /\ floor \in [DataRequests -> SUBSET Nat]
  /\ last \in [Data!Types \cup Tags -> DataRequests \cup {NoContent}]
  /\ \A r \in DataRequests :
       /\ at[r] \in SecretSteps => op[r].type = Data!Secret
       /\ at[r] \in RowSteps => op[r].type \in Data!Types
       /\ at[r] \in TagSteps => op[r].type = "m.tag" /\ op[r].tag \in Tags

(* What has come has begun. *)
AloneInv ==
  /\ \A r \in alone : r \in DataRequests /\ at[r] # "new"
  /\ \A x \in Data!Types \cup Tags : last[x] # NoContent => at[last[x]] # "new"

(* What the last PUT of a secret has written, when no other overlapped it. *)
SecretInv ==
  LET r == last[Data!Secret] IN
  r # NoContent /\ r \in alone =>
    /\ op[r].type = Data!Secret /\ at[r] \in SecretSteps \cup RowSteps \cup {"done"}
    /\ at[r] \in {"list", "kv", "done"} \cup RowSteps => held["object"][Data!Secret] = r
    /\ at[r] \in {"kv", "done"} \cup RowSteps => listed
    /\ at[r] \in {"done"} \cup RowSteps => held["kv"][Data!Secret] = r
    /\ at[r] \in {"done", "move", "position", "insert"} => held["d1"][Data!Secret] = r
    /\ \A p \in Data!Pending \ {r} : op[p].type # Data!Secret

(* What the last request for a tag has written, and what those for other tags will write. *)
TagInv ==
  \A t \in Tags : LET r == last[t] IN
    r # NoContent /\ r \in alone =>
      /\ at[r] \in TagSteps \cup {"done"} /\ op[r].type = "m.tag" /\ op[r].tag = t
      /\ at[r] # "done" => \A p \in Data!Pending \ {r} : op[p].type # "m.tag"
      /\ at[r] = "done" => (t \in tags) = op[r].add
      /\ \A p \in Data!Pending \ {r} :
           op[p].type = "m.tag" => op[p].tag # t
               /\ (at[p] = "writeTags" => (t \in read[p]) = op[r].add)

(* The positions taken, and those a request's own is above. *)
CounterInv ==
  /\ \A t \in Data!Types : \A n \in changes[t] : n <= counter
  /\ \A r \in DataRequests :
       /\ at[r] = "insert" => read[r] \in SUBSET (0 .. counter)
       /\ at[r] # "new" => \A p \in floor[r] :
            /\ p <= counter
            /\ at[r] = "position" => p < counter
            /\ at[r] = "insert" => \A n \in read[r] : p < n

DataInvariant == DataTypes /\ AloneInv /\ SecretInv /\ TagInv /\ CounterInv


LEMMA InitDataInv == Data!DataInit => DataInvariant
<1>. SUFFICES ASSUME Data!DataInit PROVE DataInvariant
  OBVIOUS
<1>. USE DEF Data!DataInit
<1>1. DataTypes
  <2>1. op \in [DataRequests -> DataOps]
    BY DEF DataOps, Data!Idle
  <2>2. held \in [Data!Stores -> [Data!Types -> DataRequests \cup {NoContent}]]
    BY DEF Data!Stores
  <2>. QED
    BY <2>1, <2>2 DEF DataTypes, SecretSteps, RowSteps, TagSteps
<1>2. SecretInv
  BY DEF SecretInv, Data!Types
<1>3. TagInv
  BY DEF TagInv
<1>4. CounterInv
  BY DEF CounterInv
<1>. QED
  BY <1>1, <1>2, <1>3, <1>4 DEF DataInvariant, AloneInv

(* What a step is. *)
OpenedWith(r, o, first) ==
  /\ Data!Open(r, o, first) /\ o \in DataOps
  /\ \/ o.type = Data!Secret /\ first = "object"
     \/ o.type = Data!Plain /\ first = "d1"
     \/ o.type = "m.tag" /\ o.tag \in Tags /\ first = "readTags"

(* What is stored, and what requests do: all but how far KV has settled. *)
settledVars == <<held, listed, tags, changes, counter, op, at, read, floor, last, alone>>

DataStep ==
  \/ \E r \in DataRequests :
       \/ \E o \in DataOps, first \in {"object", "d1", "readTags"} : OpenedWith(r, o, first)
       \/ Data!WriteObject(r) \/ Data!ListType(r) \/ Data!WriteKv(r) \/ Data!WriteRow(r)
       \/ Data!MoveCounter(r) \/ Data!ReadCounter(r) \/ Data!InsertChange(r) \/ Data!ReadTags(r)
       \/ Data!WriteTags(r) \/ Data!Stop(r)
  \/ UNCHANGED settledVars

LEMMA NextIsDataStep == [Data!DataNext]_(Data!dataVars) => DataStep
<1>1. ASSUME NEW r \in DataRequests, Data!PutSecret(r)
      PROVE  OpenedWith(r, [Data!Idle EXCEPT !.type = Data!Secret], "object")
  BY <1>1 DEF Data!PutSecret, OpenedWith, DataOps, Data!Idle, Data!Types
<1>2. ASSUME NEW r \in DataRequests, Data!PutPlain(r)
      PROVE  OpenedWith(r, [Data!Idle EXCEPT !.type = Data!Plain], "d1")
  BY <1>2 DEF Data!PutPlain, OpenedWith, DataOps, Data!Idle, Data!Types
<1>3. ASSUME NEW r \in DataRequests, NEW t \in Tags, Data!PutTag(r, t)
      PROVE  OpenedWith(r, [type |-> "m.tag", tag |-> t, add |-> TRUE], "readTags")
  BY <1>3 DEF Data!PutTag, OpenedWith, DataOps
<1>4. ASSUME NEW r \in DataRequests, NEW t \in Tags, Data!DeleteTag(r, t)
      PROVE  OpenedWith(r, [type |-> "m.tag", tag |-> t, add |-> FALSE], "readTags")
  BY <1>4 DEF Data!DeleteTag, OpenedWith, DataOps
<1>5. ASSUME NEW r \in DataRequests, NEW o, NEW first, OpenedWith(r, o, first) PROVE DataStep
  BY <1>5 DEF OpenedWith, DataStep
<1>6. ASSUME Data!SettleKv \/ UNCHANGED Data!dataVars PROVE DataStep
  BY <1>6 DEF Data!SettleKv, Data!dataVars, DataStep, settledVars
<1>. QED
  BY <1>1, <1>2, <1>3, <1>4, <1>5, <1>6 DEF Data!DataNext, Data!Step, DataStep

LEMMA NextDataTypes == DataTypes /\ CounterInv /\ [Data!DataNext]_(Data!dataVars) => DataTypes'
<1>. SUFFICES ASSUME DataTypes, CounterInv, [Data!DataNext]_(Data!dataVars) PROVE DataTypes'
  OBVIOUS
<1>. USE DEF DataTypes, SecretSteps, RowSteps, TagSteps
<1>1. ASSUME NEW r \in DataRequests, NEW o \in DataOps, NEW first \in {"object", "d1", "readTags"},
             OpenedWith(r, o, first)
      PROVE  DataTypes'
  <2>1. /\ at' = [at EXCEPT ![r] = first] /\ op' = [op EXCEPT ![r] = o]
        /\ UNCHANGED <<held, changes, counter, read>>
    BY <1>1 DEF OpenedWith, Data!Open
  <2>2. last' \in [Data!Types \cup Tags -> DataRequests \cup {NoContent}]
    BY <1>1 DEF OpenedWith, Data!Open, Data!Types
  <2>3. floor' \in [DataRequests -> SUBSET Nat]
    BY <1>1 DEF OpenedWith, Data!Open
  <2>. QED
    BY <1>1, <2>1, <2>2, <2>3 DEF OpenedWith, Data!Types
<1>2. ASSUME NEW r \in DataRequests, Data!WriteObject(r) \/ Data!WriteKv(r) \/ Data!WriteRow(r)
      PROVE  DataTypes'
  <2>1. held' \in [Data!Stores -> [Data!Types -> DataRequests \cup {NoContent}]]
    BY <1>2 DEF Data!WriteObject, Data!WriteKv, Data!WriteRow, Data!Stores, Data!Types
  <2>. QED
    BY <1>2, <2>1 DEF Data!WriteObject, Data!WriteKv, Data!WriteRow, Data!Goto, Data!Types
<1>3. ASSUME NEW r \in DataRequests, Data!ListType(r) \/ Data!MoveCounter(r)
             \/ Data!ReadCounter(r) \/ Data!ReadTags(r) \/ Data!WriteTags(r)
      PROVE  DataTypes'
  BY <1>3 DEF Data!ListType, Data!MoveCounter, Data!ReadCounter, Data!ReadTags, Data!WriteTags,
     Data!Goto, Data!Types
<1>4. ASSUME NEW r \in DataRequests, Data!InsertChange(r) PROVE DataTypes'
  <2>1. read[r] \in SUBSET Nat
    BY <1>4 DEF Data!InsertChange, CounterInv
  <2>. QED
    BY <1>4, <2>1 DEF Data!InsertChange, Data!Goto
<1>5. ASSUME NEW r \in DataRequests, Data!Stop(r) PROVE DataTypes'
  <2>1. Data!Idle \in DataOps
    BY DEF Data!Idle, DataOps
  <2>. QED
    BY <1>5, <2>1 DEF Data!Stop, Data!Goto
<1>. QED
  <2>1. CASE UNCHANGED settledVars
    BY <2>1 DEF settledVars
  <2>. QED
    BY <1>1, <1>2, <1>3, <1>4, <1>5, <2>1, NextIsDataStep DEF DataStep

LEMMA NextCounterInv == DataTypes /\ CounterInv /\ [Data!DataNext]_(Data!dataVars) => CounterInv'
<1>. SUFFICES ASSUME DataTypes, CounterInv, [Data!DataNext]_(Data!dataVars) PROVE CounterInv'
  OBVIOUS
<1>0. /\ counter \in Nat
         /\ at \in [DataRequests -> {"new", "done",
             "stopped"} \cup SecretSteps \cup RowSteps \cup TagSteps]
      /\ DOMAIN read = DataRequests /\ floor \in [DataRequests -> SUBSET Nat]
      /\ changes \in [Data!Types -> SUBSET Nat]
  BY DEF DataTypes
<1>1. ASSUME NEW r \in DataRequests, NEW o \in DataOps, NEW first \in {"object", "d1", "readTags"},
             OpenedWith(r, o, first)
      PROVE  CounterInv'
  <2>1. /\ at' = [at EXCEPT ![r] = first] /\ UNCHANGED <<changes, counter, read>>
        /\ floor' = [floor EXCEPT ![r] = UNION {changes[t] : t \in Data!Types}]
    BY <1>1 DEF OpenedWith, Data!Open
  <2>2. \A p \in floor'[r] : p <= counter
    BY <1>0, <2>1 DEF CounterInv
  <2>. QED
    BY <1>0, <2>1, <2>2 DEF CounterInv
<1>2. ASSUME NEW r \in DataRequests,
             Data!WriteObject(r) \/ Data!ListType(r) \/ Data!WriteKv(r) \/ Data!WriteRow(r)
                 \/ Data!WriteTags(r) \/ Data!ReadTags(r) \/ Data!Stop(r)
      PROVE  CounterInv'
  BY <1>0, <1>2 DEF CounterInv, Data!WriteObject, Data!ListType, Data!WriteKv, Data!WriteRow,
     Data!WriteTags, Data!ReadTags, Data!Stop, Data!Goto, Data!Pending
<1>3. ASSUME NEW r \in DataRequests, Data!MoveCounter(r) PROVE CounterInv'
  <2>1. counter' = counter + 1 /\ at' = [at EXCEPT ![r] = "position"] /\ at[r] = "move"
        /\ UNCHANGED <<changes, read, floor>>
    BY <1>3 DEF Data!MoveCounter, Data!Goto
  <2>2. \A t \in Data!Types : \A n \in changes'[t] : n <= counter'
    BY <1>0, <2>1 DEF CounterInv
  <2>3. ASSUME NEW q \in DataRequests, at'[q] = "insert" PROVE read'[q] \in SUBSET (0 .. counter')
    BY <1>0, <2>1, <2>3 DEF CounterInv
  <2>4. ASSUME NEW q \in DataRequests, at'[q] # "new", NEW p \in floor'[q]
        PROVE  /\ p <= counter'
               /\ at'[q] = "position" => p < counter'
               /\ at'[q] = "insert" => \A n \in read'[q] : p < n
    <3>1. at[q] # "new" /\ p \in Nat /\ p <= counter
      BY <1>0, <2>1, <2>4 DEF CounterInv
    <3>. QED
      BY <1>0, <2>1, <2>4, <3>1 DEF CounterInv
  <2>. QED
    BY <2>2, <2>3, <2>4 DEF CounterInv
<1>4. ASSUME NEW r \in DataRequests, Data!ReadCounter(r) PROVE CounterInv'
  BY <1>0, <1>4 DEF CounterInv, Data!ReadCounter, Data!Goto
<1>5. ASSUME NEW r \in DataRequests, Data!InsertChange(r) PROVE CounterInv'
  BY <1>0, <1>5 DEF CounterInv, Data!InsertChange, Data!Goto
<1>. QED
  BY <1>1, <1>2, <1>3, <1>4, <1>5, NextIsDataStep DEF DataStep, settledVars, CounterInv

(* Opening a request when it is the last of its row. *)
LEMMA OpeningAlone ==
  ASSUME DataTypes, AloneInv, NEW r \in DataRequests, NEW o \in DataOps,
         NEW first \in {"object", "d1", "readTags"},
         OpenedWith(r, o, first), NEW q \in DataRequests, q \in alone'
  PROVE  /\ q # r => q \in alone /\ ~(q \in Data!Pending /\ op[q].type = o.type)
         /\ q = r => \A p \in Data!Pending : op[p].type # o.type
<1>. DEFINE others == {p \in Data!Pending : op[p].type = o.type}
<1>1. alone' = (alone \ others) \cup (IF others = {} THEN {r} ELSE {}) /\ at[r] = "new"
  BY DEF OpenedWith, Data!Open, Data!SameRow
<1>2. r \notin alone
  BY <1>1 DEF AloneInv
<1>3. others = {} \/ q # r
  <2>. HIDE DEF others
  <2>. QED
    BY <1>1, <1>2
<1>. QED
  BY <1>1, <1>3

LEMMA OpeningMoves ==
  ASSUME DataTypes, NEW r \in DataRequests, NEW o \in DataOps,
         NEW first \in {"object", "d1", "readTags"},
         OpenedWith(r, o, first)
  PROVE  /\ at[r] = "new" /\ at'[r] = first /\ op'[r] = o
         /\ \A p \in DataRequests \ {r} : at'[p] = at[p] /\ op'[p] = op[p]
         /\ UNCHANGED <<held, listed, tags, changes, counter, read>>
         /\ last' = [last EXCEPT ![IF o.type = "m.tag" THEN o.tag ELSE o.type] = r]
         /\ Data!Pending' = Data!Pending \cup {r}
BY DEF OpenedWith, Data!Open, DataTypes, Data!Pending

(* Any other step goes on with a request, and overlaps none. *)
LEMMA OtherMoves ==
  ASSUME DataTypes, NEW r \in DataRequests,
         \/ Data!WriteObject(r) \/ Data!ListType(r) \/ Data!WriteKv(r) \/ Data!WriteRow(r)
         \/ Data!MoveCounter(r) \/ Data!ReadCounter(r)
         \/ Data!InsertChange(r) \/ Data!ReadTags(r) \/ Data!WriteTags(r) \/ Data!Stop(r)
  PROVE  /\ r \in Data!Pending /\ last' = last /\ alone' \subseteq alone
         /\ (Data!Stop(r) => r \notin alone')
         /\ \A p \in DataRequests \ {r} : at'[p] = at[p] /\ op'[p] = op[p]
         /\ ~Data!Stop(r) => op' = op
         /\ Data!Pending' \subseteq Data!Pending
<1>1. CASE Data!Stop(r)
  BY <1>1 DEF Data!Stop, Data!Goto, DataTypes, Data!Pending
<1>2. CASE Data!WriteObject(r) \/ Data!ListType(r) \/ Data!WriteKv(r) \/ Data!WriteRow(r)
  BY <1>2 DEF DataTypes, Data!Pending, Data!Goto, Data!WriteObject, Data!ListType, Data!WriteKv,
     Data!WriteRow, Data!Stop
<1>3. CASE Data!MoveCounter(r) \/ Data!ReadCounter(r) \/ Data!InsertChange(r) \/ Data!ReadTags(r)
           \/ Data!WriteTags(r)
  BY <1>3 DEF DataTypes, Data!Pending, Data!Goto, Data!MoveCounter, Data!ReadCounter,
     Data!InsertChange, Data!ReadTags, Data!WriteTags, Data!Stop
<1>. QED
  BY <1>1, <1>2, <1>3

LEMMA NextAloneInv == DataTypes /\ AloneInv /\ [Data!DataNext]_(Data!dataVars) => AloneInv'
<1>. SUFFICES ASSUME DataTypes, AloneInv, [Data!DataNext]_(Data!dataVars) PROVE AloneInv'
  OBVIOUS
<1>1. ASSUME NEW r \in DataRequests, NEW o \in DataOps, NEW first \in {"object", "d1", "readTags"},
             OpenedWith(r, o, first)
      PROVE  AloneInv'
  <2>1. at' = [at EXCEPT ![r] = first] /\ alone' \subseteq alone \cup {r} /\ r \in DOMAIN at
    BY <1>1 DEF OpenedWith, Data!Open, DataTypes
  <2>2. \A x \in Data!Types \cup Tags : last'[x] = last[x] \/ last'[x] = r
    BY <1>1, OpeningMoves DEF DataTypes
  <2>. QED
    BY <1>1, <2>1, <2>2 DEF AloneInv, DataTypes
<1>2. ASSUME NEW r \in DataRequests,
             \/ Data!WriteObject(r) \/ Data!ListType(r) \/ Data!WriteKv(r) \/ Data!WriteRow(r)
             \/ Data!MoveCounter(r) \/ Data!ReadCounter(r)
             \/ Data!InsertChange(r) \/ Data!ReadTags(r) \/ Data!WriteTags(r) \/ Data!Stop(r)
      PROVE  AloneInv'
  <2>1. alone' \subseteq alone /\ at'[r] # "new" /\ \A p \in DataRequests \ {r} : at'[p] = at[p]
    <3>1. at'[r] # "new"
      BY <1>2 DEF Data!WriteObject, Data!ListType, Data!WriteKv, Data!WriteRow, Data!MoveCounter,
         Data!ReadCounter, Data!InsertChange, Data!ReadTags, Data!WriteTags, Data!Stop, Data!Goto,
         DataTypes
    <3>. QED
      BY <1>2, <3>1, OtherMoves
  <2>2. last' = last /\ \A x \in Data!Types \cup Tags : last[x] # NoContent
        => last[x] \in DataRequests
    BY <1>2, OtherMoves DEF DataTypes
  <2>. QED
    BY <2>1, <2>2 DEF AloneInv
<1>. QED
  BY <1>1, <1>2, NextIsDataStep DEF DataStep, settledVars, AloneInv

LEMMA NextSecretInv == DataTypes /\ AloneInv /\ SecretInv /\ [Data!DataNext]_(Data!dataVars)
    => SecretInv'
<1>. SUFFICES ASSUME DataTypes, AloneInv, SecretInv, [Data!DataNext]_(Data!dataVars),
                     last'[Data!Secret] # NoContent, last'[Data!Secret] \in alone'
              PROVE  (LET r == last[Data!Secret] IN
                      /\ op[r].type = Data!Secret
                      /\ at[r] \in SecretSteps \cup RowSteps \cup {"done"}
                      /\ at[r] \in {"list", "kv", "done"} \cup RowSteps
                          => held["object"][Data!Secret] = r
                      /\ at[r] \in {"kv", "done"} \cup RowSteps => listed
                      /\ at[r] \in {"done"} \cup RowSteps => held["kv"][Data!Secret] = r
                      /\ at[r] \in {"done", "move", "position", "insert"}
                          => held["d1"][Data!Secret] = r
                      /\ \A p \in Data!Pending \ {r} : op[p].type # Data!Secret)'
  BY DEF SecretInv
<1>. DEFINE s == last[Data!Secret]
<1>0. last \in [Data!Types \cup Tags -> DataRequests \cup {NoContent}]
      /\ Data!Secret \in Data!Types /\ Data!Plain # Data!Secret /\ Data!Secret \notin Tags
  BY DataAssumption DEF DataTypes, Data!Types, Data!Secret, Data!Plain
<1>. USE DEF SecretSteps, RowSteps
<1>1. ASSUME NEW r \in DataRequests, NEW o \in DataOps, NEW first \in {"object", "d1", "readTags"},
             OpenedWith(r, o, first)
      PROVE  SecretInv'
  <2>1. CASE o.type = Data!Secret
    <3>1. last'[Data!Secret] = r /\ first = "object"
      BY <1>0, <1>1, <2>1, OpeningMoves DEF OpenedWith, Data!Secret
    <3>2. \A p \in Data!Pending : op[p].type # Data!Secret
      BY <1>1, <2>1, <3>1, OpeningAlone
    <3>. QED
      BY <1>1, <2>1, <3>1, <3>2, OpeningMoves DEF SecretInv, Data!Pending
  <2>2. CASE o.type # Data!Secret
    <3>1. last'[Data!Secret] = s
      <4>. DEFINE x == IF o.type = "m.tag" THEN o.tag ELSE o.type
      <4>1. x # Data!Secret
        <5>1. o.type \in {Data!Secret, Data!Plain} \/ (o.type = "m.tag" /\ o.tag \in Tags)
          BY <1>1 DEF OpenedWith
        <5>. QED
          BY <1>0, <2>2, <5>1 DEF Data!Secret, Data!Plain
      <4>2. last' = [last EXCEPT ![x] = r]
        BY <1>1, OpeningMoves
      <4>. HIDE DEF x
      <4>. QED
        BY <1>0, <4>1, <4>2
    <3>2. s \in DataRequests /\ s \in alone' /\ s # NoContent
      BY <1>0, <3>1
    <3>3. s # r /\ s \in alone
      <4>1. s # r
        BY <1>0, <1>1, <3>2, OpeningMoves DEF AloneInv
      <4>. QED
        BY <1>1, <3>2, <4>1, OpeningAlone
    <3>4. \A p \in Data!Pending' \ {s} : op'[p].type # Data!Secret
      BY <1>1, <2>2, <3>2, <3>3, OpeningMoves DEF SecretInv, Data!Pending
    <3>. QED
      BY <1>1, <3>1, <3>2, <3>3, <3>4, OpeningMoves DEF SecretInv
  <2>. QED
    BY <2>1, <2>2
<1>2. ASSUME NEW r \in DataRequests,
             \/ Data!WriteObject(r) \/ Data!ListType(r) \/ Data!WriteKv(r) \/ Data!WriteRow(r)
             \/ Data!MoveCounter(r) \/ Data!ReadCounter(r)
             \/ Data!InsertChange(r) \/ Data!ReadTags(r) \/ Data!WriteTags(r) \/ Data!Stop(r)
      PROVE  SecretInv'
  <2>1. /\ r \in Data!Pending /\ last' = last /\ alone' \subseteq alone
           /\ (Data!Stop(r) => r \notin alone')
        /\ \A p \in DataRequests \ {r} : at'[p] = at[p] /\ op'[p] = op[p]
        /\ Data!Pending' \subseteq Data!Pending
    BY <1>2, OtherMoves
  <2>2. s \in DataRequests /\ s # NoContent /\ s \in alone /\ last'[Data!Secret] = s
    BY <1>0, <2>1
  <2>3. \A p \in Data!Pending \ {s} : op[p].type # Data!Secret
    BY <2>2 DEF SecretInv
  <2>4. \A p \in Data!Pending' \ {s} : op'[p].type # Data!Secret
    <3>1. CASE Data!Stop(r)
      <4>1. op'[r].type # Data!Secret
        BY <3>1 DEF Data!Stop, Data!Idle, Data!Secret, DataTypes
      <4>. QED
        BY <2>1, <2>3, <4>1 DEF Data!Pending
    <3>2. CASE ~Data!Stop(r)
      BY <1>2, <2>1, <2>3, <3>2, OtherMoves
    <3>. QED
      BY <3>1, <3>2
  <2>5. CASE r # s
    <3>1. op[r].type # Data!Secret
      BY <2>1, <2>3, <2>5
    <3>2. ~Data!WriteObject(r) /\ ~Data!ListType(r) /\ ~Data!WriteKv(r)
      BY <3>1 DEF Data!WriteObject, Data!ListType, Data!WriteKv, DataTypes
    <3>3. held'["object"][Data!Secret] = held["object"][Data!Secret]
          /\ held'["kv"][Data!Secret] = held["kv"][Data!Secret]
          /\ held'["d1"][Data!Secret] = held["d1"][Data!Secret] /\ listed' = listed
      BY <1>2, <3>1, <3>2 DEF Data!WriteRow, Data!MoveCounter, Data!ReadCounter,
         Data!InsertChange, Data!ReadTags, Data!WriteTags, Data!Stop, DataTypes, Data!Stores,
         Data!Types
    <3>4. at'[s] = at[s] /\ op'[s] = op[s]
      BY <2>1, <2>2, <2>5
    <3>. QED
      BY <2>2, <2>4, <3>3, <3>4 DEF SecretInv
  <2>6. CASE r = s
    <3>1. ~Data!Stop(r) /\ op' = op /\ op[s].type = Data!Secret
      BY <1>2, <2>1, <2>2, <2>6, OtherMoves DEF SecretInv
    <3>2. ~Data!ReadTags(r) /\ ~Data!WriteTags(r)
      BY <3>1, <2>6 DEF Data!ReadTags, Data!WriteTags, DataTypes, TagSteps, Data!Secret
    <3>3. CASE Data!WriteObject(r) \/ Data!WriteKv(r) \/ Data!WriteRow(r)
      BY <2>2, <2>4, <2>6, <3>1, <3>3 DEF SecretInv, Data!WriteObject, Data!WriteKv,
         Data!WriteRow, Data!Goto, DataTypes, Data!Stores, Data!Types
    <3>4. CASE Data!ListType(r) \/ Data!MoveCounter(r) \/ Data!ReadCounter(r)
               \/ Data!InsertChange(r)
      BY <2>2, <2>4, <2>6, <3>1, <3>4 DEF SecretInv, Data!ListType, Data!MoveCounter,
         Data!ReadCounter, Data!InsertChange, Data!Goto, DataTypes
    <3>. QED
      BY <1>2, <3>1, <3>2, <3>3, <3>4
  <2>. QED
    BY <2>5, <2>6
<1>3. ASSUME UNCHANGED settledVars PROVE SecretInv'
  BY <1>3 DEF settledVars, SecretInv, Data!Pending
<1>4. SecretInv'
  BY <1>1, <1>2, <1>3, NextIsDataStep DEF DataStep, settledVars
<1>. QED
  BY <1>4 DEF SecretInv

LEMMA NextTagInv == DataTypes /\ AloneInv /\ TagInv /\ [Data!DataNext]_(Data!dataVars) => TagInv'
<1>. SUFFICES ASSUME DataTypes, AloneInv, TagInv, [Data!DataNext]_(Data!dataVars), NEW t \in Tags,
                     last'[t] # NoContent, last'[t] \in alone'
              PROVE  (LET r == last[t] IN
                      /\ at[r] \in TagSteps \cup {"done"} /\ op[r].type = "m.tag" /\ op[r].tag = t
                      /\ at[r] # "done" => \A p \in Data!Pending \ {r} : op[p].type # "m.tag"
                      /\ at[r] = "done" => (t \in tags) = op[r].add
                      /\ \A p \in Data!Pending \ {r} :
                           op[p].type = "m.tag" => op[p].tag # t
                               /\ (at[p] = "writeTags" => (t \in read[p]) = op[r].add))'
  BY DEF TagInv
<1>. DEFINE s == last[t]
            Kept == /\ at[s] \in TagSteps \cup {"done"} /\ op[s].type = "m.tag" /\ op[s].tag = t
                    /\ at[s] # "done" => \A p \in Data!Pending \ {s} : op[p].type # "m.tag"
                    /\ at[s] = "done" => (t \in tags) = op[s].add
                    /\ \A p \in Data!Pending \ {s} :
                         op[p].type = "m.tag" => op[p].tag # t
                             /\ (at[p] = "writeTags" => (t \in read[p]) = op[s].add)
<1>0. last \in [Data!Types \cup Tags -> DataRequests \cup {NoContent}] /\ t \notin Data!Types
  BY DataAssumption DEF DataTypes, Data!Types, Data!Secret, Data!Plain
<1>. USE DEF TagSteps
<1>1. ASSUME NEW r \in DataRequests, NEW o \in DataOps, NEW first \in {"object", "d1", "readTags"},
             OpenedWith(r, o, first)
      PROVE  Kept'
  <2>1. CASE o.type = "m.tag" /\ o.tag = t
    <3>1. last'[t] = r /\ first = "readTags"
      BY <1>0, <1>1, <2>1, OpeningMoves DEF OpenedWith, Data!Secret, Data!Plain
    <3>2. \A p \in Data!Pending : op[p].type # "m.tag"
      BY <1>1, <2>1, <3>1, OpeningAlone
    <3>. QED
      BY <1>1, <2>1, <3>1, <3>2, OpeningMoves DEF Data!Pending
  <2>2. CASE ~(o.type = "m.tag" /\ o.tag = t)
    <3>1. last'[t] = s
      <4>. DEFINE x == IF o.type = "m.tag" THEN o.tag ELSE o.type
      <4>1. x # t
        BY <1>0, <1>1, <2>2 DEF OpenedWith, Data!Types
      <4>2. last' = [last EXCEPT ![x] = r]
        BY <1>1, OpeningMoves
      <4>. HIDE DEF x
      <4>. QED
        BY <1>0, <4>1, <4>2
    <3>2. s \in DataRequests /\ s \in alone' /\ s # NoContent
      BY <1>0, <3>1
    <3>3. s # r
      BY <1>0, <1>1, <3>2, OpeningMoves DEF AloneInv
    <3>4. s \in alone /\ (s \in Data!Pending => op[s].type # o.type)
      BY <1>1, <3>2, <3>3, OpeningAlone
    <3>5. Kept
      BY <3>2, <3>4 DEF TagInv
    <3>6. s \in Data!Pending \/ at[s] = "done"
      BY <3>2, <3>5 DEF Data!Pending
    <3>7. o.type = "m.tag" => at[s] = "done"
      BY <3>4, <3>5, <3>6
    <3>8. ASSUME NEW p \in Data!Pending' \ {s}, p # r
          PROVE  p \in Data!Pending \ {s} /\ at'[p] = at[p] /\ op'[p] = op[p]
      BY <1>1, <3>8, OpeningMoves DEF Data!Pending
    <3>9. /\ at'[s] = at[s] /\ op'[s] = op[s] /\ tags' = tags /\ read' = read
          /\ at'[r] = first /\ op'[r] = o
      BY <1>1, <3>2, <3>3, OpeningMoves
    <3>10. first # "writeTags"
      OBVIOUS
    <3>11. ASSUME NEW p \in Data!Pending' \ {s}, op'[p].type = "m.tag"
           PROVE  op'[p].tag # t /\ (at'[p] = "writeTags" => (t \in read'[p]) = op'[s].add)
      BY <2>2, <3>5, <3>8, <3>9, <3>10, <3>11
    <3>12. at'[s] # "done" => \A p \in Data!Pending' \ {s} : op'[p].type # "m.tag"
      BY <3>5, <3>7, <3>8, <3>9
    <3>. QED
      BY <3>1, <3>5, <3>9, <3>11, <3>12
  <2>. QED
    BY <2>1, <2>2
<1>2. ASSUME NEW r \in DataRequests,
             \/ Data!WriteObject(r) \/ Data!ListType(r) \/ Data!WriteKv(r) \/ Data!WriteRow(r)
             \/ Data!MoveCounter(r) \/ Data!ReadCounter(r)
             \/ Data!InsertChange(r) \/ Data!ReadTags(r) \/ Data!WriteTags(r) \/ Data!Stop(r)
      PROVE  Kept'
  <2>1. /\ r \in Data!Pending /\ last' = last /\ alone' \subseteq alone
           /\ (Data!Stop(r) => r \notin alone')
        /\ \A p \in DataRequests \ {r} : at'[p] = at[p] /\ op'[p] = op[p]
        /\ Data!Pending' \subseteq Data!Pending
    BY <1>2, OtherMoves
  <2>2. s \in DataRequests /\ s # NoContent /\ s \in alone /\ last'[t] = s
    BY <1>0, <2>1
  <2>3. Kept
    BY <2>2 DEF TagInv
  <2>4. CASE Data!ReadTags(r)
    <3>1. /\ op[r].type = "m.tag" /\ op[r].tag \in Tags /\ at' = [at EXCEPT ![r] = "writeTags"]
          /\ read'[r] = tags /\ \A p \in DataRequests \ {r} : read'[p] = read[p]
          /\ op' = op /\ tags' = tags
      BY <2>4 DEF Data!ReadTags, Data!Goto, DataTypes
    <3>2. CASE r = s
      BY <2>1, <2>2, <2>3, <3>1, <3>2 DEF Data!Pending, DataTypes
    <3>3. CASE r # s
      <4>1. at[s] = "done"
        BY <2>1, <2>3, <3>1, <3>3
      <4>2. at'[s] = "done" /\ at'[r] = "writeTags"
        BY <2>1, <2>2, <3>1, <3>3, <4>1 DEF DataTypes
      <4>3. ASSUME NEW p \in Data!Pending' \ {s}, op'[p].type = "m.tag"
            PROVE  op'[p].tag # t /\ (at'[p] = "writeTags" => (t \in read'[p]) = op'[s].add)
        <5>1. p \in Data!Pending \ {s} /\ p \in DataRequests
          BY <2>1 DEF Data!Pending
        <5>2. CASE p = r
          BY <2>3, <3>1, <4>1, <4>3, <5>1, <5>2
        <5>3. CASE p # r
          BY <2>1, <2>3, <3>1, <4>3, <5>1, <5>3
        <5>. QED
          BY <5>2, <5>3
      <4>. QED
        BY <2>2, <2>3, <3>1, <4>1, <4>2, <4>3
    <3>. QED
      BY <3>2, <3>3
  <2>5. CASE Data!WriteTags(r)
    <3>1. /\ op[r].type = "m.tag" /\ op[r].tag \in Tags /\ at' = [at EXCEPT ![r] = "done"]
             /\ at[r] = "writeTags"
          /\ \A p \in DataRequests \ {r} : read'[p] = read[p]
          /\ op' = op /\ op[r].add \in BOOLEAN
          /\ tags' = IF op[r].add THEN read[r] \cup {op[r].tag} ELSE read[r] \ {op[r].tag}
      BY <2>5 DEF Data!WriteTags, Data!NewTags, Data!Goto, DataTypes, DataOps
    <3>2. at'[r] = "done" /\ r \notin Data!Pending'
      BY <3>1 DEF Data!Pending, DataTypes
    <3>3. ASSUME NEW p \in Data!Pending' \ {s}
          PROVE  p \in Data!Pending \ {s} /\ p # r /\ at'[p] = at[p] /\ op'[p] = op[p]
                 /\ read'[p] = read[p]
      BY <2>1, <3>1, <3>2 DEF Data!Pending
    <3>4. CASE r = s
      BY <2>2, <2>3, <3>1, <3>2, <3>3, <3>4
    <3>5. CASE r # s
      <4>1. at[s] = "done" /\ op[r].tag # t /\ (t \in read[r]) = op[s].add
        BY <2>1, <2>3, <3>1, <3>5
      <4>2. (t \in tags') = op[s].add /\ at'[s] = "done"
        BY <2>1, <2>2, <3>1, <3>5, <4>1
      <4>. QED
        BY <2>2, <2>3, <3>1, <3>3, <4>1, <4>2
    <3>. QED
      BY <3>4, <3>5
  <2>6. CASE Data!Stop(r)
    <3>1. r # s /\ op'[r] = Data!Idle /\ tags' = tags /\ read'[r] = {} /\ at'[r] = "stopped"
          /\ r \notin Data!Pending'
      BY <2>1, <2>2, <2>6 DEF Data!Stop, Data!Goto, DataTypes, Data!Pending
    <3>2. \A p \in DataRequests \ {r} : read'[p] = read[p]
      BY <2>6 DEF Data!Stop, DataTypes
    <3>3. ASSUME NEW p \in Data!Pending' \ {s}
          PROVE  p \in Data!Pending \ {s} /\ p # r /\ at'[p] = at[p] /\ op'[p] = op[p]
                 /\ read'[p] = read[p]
      BY <2>1, <3>1, <3>2 DEF Data!Pending
    <3>. QED
      BY <2>1, <2>2, <2>3, <3>1, <3>3
  <2>7. CASE ~Data!ReadTags(r) /\ ~Data!WriteTags(r) /\ ~Data!Stop(r)
    <3>1. op' = op /\ op[r].type # "m.tag" /\ tags' = tags
          /\ \A p \in DataRequests \ {r} : read'[p] = read[p]
      BY <1>2, <2>7 DEF Data!WriteObject, Data!ListType, Data!WriteKv, Data!WriteRow,
         Data!MoveCounter, Data!ReadCounter, Data!InsertChange, DataTypes, SecretSteps, RowSteps,
         Data!Types, Data!Secret, Data!Plain
    <3>2. r # s
      BY <2>3, <3>1
    <3>3. ASSUME NEW p \in Data!Pending' \ {s}, p # r
          PROVE  p \in Data!Pending \ {s} /\ at'[p] = at[p] /\ op'[p] = op[p] /\ read'[p] = read[p]
      BY <2>1, <3>1, <3>3 DEF Data!Pending
    <3>. QED
      BY <2>1, <2>2, <2>3, <3>1, <3>2, <3>3
  <2>. QED
    BY <1>2, <2>4, <2>5, <2>6, <2>7
<1>3. CASE UNCHANGED settledVars
  BY <1>3 DEF settledVars, TagInv, Data!Pending
<1>. QED
  BY <1>1, <1>2, <1>3, NextIsDataStep DEF DataStep

LEMMA DataInvariance == Data!DataSpec => []DataInvariant
<1>1. DataInvariant /\ [Data!DataNext]_(Data!dataVars) => DataInvariant'
  BY NextDataTypes, NextAloneInv, NextSecretInv, NextTagInv, NextCounterInv DEF DataInvariant
<1>. QED
  BY InitDataInv, <1>1, PTL DEF Data!DataSpec

LEMMA InvDataKept == DataInvariant => Data!DataKept
<1>. SUFFICES ASSUME DataInvariant PROVE Data!DataKept
  OBVIOUS
<1>1. Data!SecretsVisible
  BY DEF DataInvariant, SecretInv, Data!SecretsVisible, Data!Get, Data!Sliding
<1>2. Data!TagsKept
  BY DEF DataInvariant, TagInv, Data!TagsKept
<1>3. Data!ChangesOrdered
  BY DEF DataInvariant, CounterInv, DataTypes, Data!ChangesOrdered
<1>. QED
  BY <1>1, <1>2, <1>3 DEF Data!DataKept

LEMMA DataRuns == ServicesSpec => Data!DataSpec
<1>1. ServicesInit => Data!DataInit
  BY DEF ServicesInit
<1>2. [ServicesNext]_servicesVars => [Data!DataNext]_(Data!dataVars)
  BY DEF ServicesNext, servicesVars, dataVars, Data!dataVars
<1>. QED
  BY <1>1, <1>2, PTL DEF ServicesSpec, Data!DataSpec

(* The content of the last PUT is what every store gives, KV once it has settled, and requests for other tags lose no tag,
   whatever requests come between (account-data.ts, tags.ts). *)
THEOREM WhatWasPutIsThere == ServicesSpec => []DataKept
<1>1. Data!DataKept => DataKept
  BY DEF DataKept
<1>. QED
  BY DataRuns, DataInvariance, InvDataKept, <1>1, PTL

-----------------------------------------------------------------------------
(* Receipts, typing and presence: EphemeralInv says what the last request alone has still to write. *)

PresenceRecords == [state : {"online", "offline"}, ts : Nat, until : Nat]
Writes ==
  [to : {"object"}, key : Ephemeral!Keys, event : Messages] \cup [to : {"marker"}, event : Messages]
    \cup [to : {"typing"}, types : BOOLEAN, for : Nat] \cup [to : {"row", "entry", "servers"},
        presence : PresenceRecords]

EphemeralTypes ==
  /\ oldRow \in Nat /\ stored \in [Ephemeral!Keys -> Nat] /\ cache \in [Ephemeral!Keys -> Nat]
     /\ latest \in [Ephemeral!Keys -> Nat]
  /\ typing \in Nat /\ clock \in Nat /\ typed \in [ends : Nat]
  /\ row \in PresenceRecords /\ entry \in PresenceRecords
  /\ step \in [EphemeralRequests -> {"new", "open", "done", "stopped"}]
  /\ actions \in [EphemeralRequests -> Seq(Writes)]
  /\ DOMAIN asked = EphemeralRequests
  /\ lastOf \in [Ephemeral!Kinds -> EphemeralRequests \cup {0}] /\ unmixed \subseteq EphemeralRequests

(* The last receipts the object took are those a load finds, and those in memory when there are any. *)
ReceiptInv == latest = Ephemeral!Loaded /\ (loaded => cache = Ephemeral!Loaded)

(* The entry of typing ends within the cap. *)
TypingInv == typing <= typed.ends

(* Only an open request has something to write; it is of its kind, and writes what it was asked. *)
KindOf(r) == asked[r][1]
WishOf(r) == asked[r][2]
WishInv ==
  \A r \in EphemeralRequests :
    /\ step[r] # "open" => actions[r] = <<>>
    /\ step[r] = "open" => \A w \in Range(actions[r]) :
         /\ w.to = "marker" => KindOf(r) = "read" /\ WishOf(r) = w.event
         /\ w.to \in {"row", "entry"} => KindOf(r) = "presence" /\ WishOf(r) = w.presence

(* The last request of a kind, if it is alone, is of that kind, and no other of the kind is open. *)
LonelyInv ==
  /\ \A r \in unmixed : step[r] \in {"open", "done"}
  /\ \A k \in Ephemeral!Kinds : lastOf[k] # 0 => step[lastOf[k]] # "new"
  /\ \A k \in Ephemeral!Kinds : lastOf[k] # 0 /\ lastOf[k] \in unmixed =>
       KindOf(lastOf[k]) = k /\ \A p \in EphemeralRequests \ {lastOf[k]} : step[p] = "open" => KindOf(p) # k

(* What such a request has not written it is still to write. *)
Owes(r, to) == \E w \in Range(actions[r]) : w.to = to
MarkerInv ==
  LET r == lastOf["read"] IN
  r # 0 /\ r \in unmixed /\ WishOf(r) # 0 => marker = WishOf(r) \/ Owes(r, "marker")
Same(p, q) == p.state = q.state /\ p.ts = q.ts
PresenceInv ==
  LET r == lastOf["presence"] IN
  r # 0 /\ r \in unmixed =>
    /\ Same(row, WishOf(r)) \/ Owes(r, "row")
    /\ Same(entry, WishOf(r)) \/ Owes(r, "entry")

EphemeralInv ==
  EphemeralTypes /\ ReceiptInv /\ TypingInv /\ WishInv /\ LonelyInv /\ MarkerInv /\ PresenceInv

(* What is in sequences put together of others. *)
LEMMA RangeOfTail ==
  ASSUME NEW S, NEW s \in Seq(S), s # <<>>
  PROVE  /\ Head(s) \in Range(s) /\ Range(s) \subseteq S /\ Range(Tail(s)) \subseteq Range(s)
         /\ Range(s) \subseteq {Head(s)} \cup Range(Tail(s))
         /\ Tail(s) \in Seq(S) /\ (Len(s) = 1 => Tail(s) = <<>>)
<1>1. Head(s) = s[1] /\ 1 \in DOMAIN s /\ \A i \in DOMAIN s : s[i] \in S
  OBVIOUS
<1>2. Tail(s) \in Seq(S) /\ DOMAIN Tail(s) = 1 .. Len(s) - 1 /\ DOMAIN s = 1 .. Len(s)
  OBVIOUS
<1>3. \A i \in DOMAIN Tail(s) : Tail(s)[i] = s[i + 1]
  OBVIOUS
<1>4. ASSUME NEW i \in DOMAIN s, i # 1 PROVE i - 1 \in DOMAIN Tail(s) /\ Tail(s)[i - 1] = s[i]
  BY <1>2, <1>3, <1>4
<1>5. \A i \in DOMAIN Tail(s) : i + 1 \in DOMAIN s
  BY <1>2
<1>6. Range(s) \subseteq {Head(s)} \cup Range(Tail(s))
  BY <1>1, <1>4 DEF Range
<1>7. Range(Tail(s)) \subseteq Range(s)
  BY <1>3, <1>5 DEF Range
<1>8. Head(s) \in Range(s) /\ Range(s) \subseteq S
  BY <1>1 DEF Range
<1>9. Len(s) = 1 => Tail(s) = <<>>
  <2>1. Len(s) = 1 => Len(Tail(s)) = 0
    OBVIOUS
  <2>2. \A t \in Seq(S) : Len(t) = 0 => t = <<>>
    OBVIOUS
  <2>. QED
    BY <1>2, <2>1, <2>2
<1>. QED
  BY <1>2, <1>6, <1>7, <1>8, <1>9

LEMMA RangeOfBoth ==
  ASSUME NEW S, NEW s \in Seq(S), NEW t \in Seq(S)
  PROVE  s \o t \in Seq(S) /\ Range(s \o t) = Range(s) \cup Range(t)
<1>1. DOMAIN (s \o t) = 1 .. Len(s) + Len(t) /\ DOMAIN s = 1 .. Len(s) /\ DOMAIN t = 1 .. Len(t)
  OBVIOUS
<1>2. Len(s) \in Nat /\ Len(t) \in Nat /\ s \o t \in Seq(S)
  OBVIOUS
<1>3. \A i \in DOMAIN s : i \in DOMAIN (s \o t) /\ (s \o t)[i] = s[i]
  BY <1>1, <1>2
<1>4. \A i \in DOMAIN t : i + Len(s) \in DOMAIN (s \o t) /\ (s \o t)[i + Len(s)] = t[i]
  BY <1>1, <1>2
<1>5. ASSUME NEW i \in DOMAIN (s \o t) PROVE (s \o t)[i] \in Range(s) \cup Range(t)
  <2>1. CASE i \in DOMAIN s
    BY <1>3, <2>1 DEF Range
  <2>2. CASE i \notin DOMAIN s
    <3>1. i - Len(s) \in DOMAIN t /\ (i - Len(s)) + Len(s) = i
      BY <1>1, <1>2, <2>2
    <3>. QED
      BY <1>4, <3>1 DEF Range
  <2>. QED
    BY <2>1, <2>2
<1>6. Range(s \o t) \subseteq Range(s) \cup Range(t)
  BY <1>5 DEF Range
<1>7. Range(s) \subseteq Range(s \o t)
  BY <1>3 DEF Range
<1>8. Range(t) \subseteq Range(s \o t)
  BY <1>4 DEF Range
<1>. QED
  BY <1>2, <1>6, <1>7, <1>8

LEMMA RangeOfOne ==
  ASSUME NEW S, NEW x \in S
  PROVE  <<x>> \in Seq(S) /\ Range(<<x>>) = {x} /\ <<>> \in Seq(S) /\ Range(<<>>) = {}
<1>. QED
  BY DEF Range

LEMMA RangeOfThree ==
  ASSUME NEW S, NEW x \in S, NEW y \in S, NEW z \in S
  PROVE  <<x, y, z>> \in Seq(S) /\ Range(<<x, y, z>>) = {x, y, z}
<1>. QED
  BY DEF Range

(* What a request that opens is to write fits what it asks, and includes what it asks. *)
Fits(kind, aim, writes) ==
  /\ \A w \in Range(writes) :
       /\ w.to = "marker" => kind = "read" /\ aim = w.event
       /\ w.to \in {"row", "entry"} => kind = "presence" /\ aim = w.presence
  /\ kind = "read" /\ aim # 0 => \E w \in Range(writes) : w.to = "marker"
  /\ kind = "presence" => \A to \in {"row", "entry"} : \E w \in Range(writes) : w.to = to

OpensWith(r) ==
  \E kind \in Ephemeral!Kinds, aim \in Nat \cup PresenceRecords, writes \in Seq(Writes) :
    Fits(kind, aim, writes) /\ Ephemeral!Open(r, kind, aim, writes)

LEMMA WritesAre ==
  /\ \A type \in Ephemeral!ReceiptTypes, thread \in Ephemeral!Threads, e \in Messages :
       Ephemeral!Receipt(type, thread, e) \in Writes /\ Ephemeral!Receipt(type, thread, e).to = "object"
  /\ \A e \in Messages : Ephemeral!Marker(e) \in Writes /\ Ephemeral!Marker(e).to = "marker"
     /\ Ephemeral!Marker(e).event = e
<1>. QED
  BY DEF Writes, Ephemeral!Receipt, Ephemeral!Marker, Ephemeral!Keys

LEMMA RangeOfWrites ==
  /\ \A s, t \in Seq(Writes) : s \o t \in Seq(Writes)
  /\ \A s, t \in Seq(Writes) : Range(s \o t) = Range(s) \cup Range(t)
  /\ \A x \in Writes : <<x>> \in Seq(Writes)
  /\ \A x \in Writes : Range(<<x>>) = {x}
  /\ <<>> \in Seq(Writes) /\ Range(<<>>) = {}
<1>1. ASSUME NEW s \in Seq(Writes), NEW t \in Seq(Writes)
      PROVE  s \o t \in Seq(Writes) /\ Range(s \o t) = Range(s) \cup Range(t)
  BY RangeOfBoth
<1>2. ASSUME NEW x \in Writes PROVE <<x>> \in Seq(Writes) /\ Range(<<x>>) = {x}
  BY RangeOfOne
<1>3. <<>> \in Seq(Writes) /\ Range(<<>>) = {}
  BY DEF Range
<1>. QED
  BY <1>1, <1>2, <1>3

LEMMA PostReceiptFits ==
  ASSUME NEW type \in Ephemeral!ReceiptTypes \cup {"m.fully_read"}, NEW thread \in Ephemeral!Threads,
           NEW e \in Messages
  PROVE  /\ Ephemeral!ReceiptWrites(type, thread, e) \in Seq(Writes)
         /\ Fits("read", IF type = "m.read.private" THEN 0 ELSE e, Ephemeral!ReceiptWrites(type, thread, e))
<1>1. Ephemeral!Marker(e) \in Writes /\ Ephemeral!Marker(e).to = "marker" /\ Ephemeral!Marker(e).event = e
  BY WritesAre
<1>2. <<Ephemeral!Marker(e)>> \in Seq(Writes) /\ Range(<<Ephemeral!Marker(e)>>) = {Ephemeral!Marker(e)}
        /\ <<>> \in Seq(Writes) /\ Range(<<>>) = {}
  BY <1>1, RangeOfWrites
<1>3. CASE type = "m.fully_read"
  BY <1>1, <1>2, <1>3 DEF Ephemeral!ReceiptWrites, Fits
<1>4. ASSUME type \in Ephemeral!ReceiptTypes
      PROVE  /\ Ephemeral!ReceiptWrites(type, thread, e) \in Seq(Writes)
             /\ Fits("read", IF type = "m.read.private" THEN 0 ELSE e, Ephemeral!ReceiptWrites(type, thread, e))
  <2>. DEFINE rec == Ephemeral!Receipt(type, thread, e)
              rest == IF type = "m.read" THEN <<Ephemeral!Marker(e)>> ELSE <<>>
  <2>1. rec \in Writes /\ rec.to = "object"
    BY <1>4, WritesAre
  <2>2. <<rec>> \in Seq(Writes) /\ Range(<<rec>>) = {rec}
    BY <2>1, RangeOfWrites
  <2>3. rest \in Seq(Writes) /\ Range(rest) = IF type = "m.read" THEN {Ephemeral!Marker(e)} ELSE {}
    BY <1>2
  <2>4. Ephemeral!ReceiptWrites(type, thread, e) = <<rec>> \o rest
    BY <1>4 DEF Ephemeral!ReceiptWrites, Ephemeral!ReceiptTypes
  <2>. HIDE DEF rec, rest
  <2>5. <<rec>> \o rest \in Seq(Writes) /\ Range(<<rec>> \o rest) = {rec} \cup Range(rest)
    BY <2>2, <2>3, RangeOfWrites
  <2>6. Fits("read", IF type = "m.read.private" THEN 0 ELSE e, <<rec>> \o rest)
    BY <1>1, <1>4, <2>1, <2>3, <2>5 DEF Fits, Ephemeral!ReceiptTypes
  <2>. QED
    BY <2>4, <2>5, <2>6
<1>. QED
  BY <1>3, <1>4

LEMMA PostMarkersFits ==
  ASSUME NEW full \in {0} \cup Messages, NEW seenBy \in {0} \cup Messages, NEW private \in {0} \cup Messages
  PROVE  /\ Ephemeral!MarkersWrites(full, seenBy, private) \in Seq(Writes)
         /\ Fits("read", IF full # 0 THEN full ELSE seenBy, Ephemeral!MarkersWrites(full, seenBy, private))
<1>. DEFINE a == IF full # 0 THEN <<Ephemeral!Marker(full)>> ELSE <<>>
            b == IF seenBy # 0 THEN <<Ephemeral!Receipt("m.read", "unthreaded", seenBy)>> ELSE <<>>
            c == IF seenBy # 0 /\ full = 0 THEN <<Ephemeral!Marker(seenBy)>> ELSE <<>>
            d == IF private # 0 THEN <<Ephemeral!Receipt("m.read.private", "unthreaded", private)>> ELSE <<>>
<1>1. "unthreaded" \in Ephemeral!Threads /\ {"m.read", "m.read.private"} \subseteq Ephemeral!ReceiptTypes
  BY DEF Ephemeral!Threads, Ephemeral!ReceiptTypes
<1>2. a \in Seq(Writes) /\ Range(a) = IF full # 0 THEN {Ephemeral!Marker(full)} ELSE {}
  <2>1. full # 0 => Ephemeral!Marker(full) \in Writes
    BY WritesAre
  <2>. QED
    BY <2>1, RangeOfWrites
<1>3. b \in Seq(Writes) /\ \A w \in Range(b) : w.to = "object"
  <2>1. LET w == Ephemeral!Receipt("m.read", "unthreaded", seenBy) IN seenBy # 0 => w \in Writes /\ w.to = "object"
    BY <1>1, WritesAre
  <2>. QED
    BY <2>1, RangeOfWrites
<1>4. c \in Seq(Writes) /\ Range(c) = IF seenBy # 0 /\ full = 0 THEN {Ephemeral!Marker(seenBy)} ELSE {}
  <2>1. seenBy # 0 => Ephemeral!Marker(seenBy) \in Writes
    BY WritesAre
  <2>. QED
    BY <2>1, RangeOfWrites
<1>5. d \in Seq(Writes) /\ \A w \in Range(d) : w.to = "object"
  <2>1. LET w == Ephemeral!Receipt("m.read.private", "unthreaded", private) IN private # 0
          => w \in Writes /\ w.to = "object"
    BY <1>1, WritesAre
  <2>. QED
    BY <2>1, RangeOfWrites
<1>6. Ephemeral!MarkersWrites(full, seenBy, private) = ((a \o b) \o c) \o d
  BY DEF Ephemeral!MarkersWrites
<1>. HIDE DEF a, b, c, d
<1>7. a \o b \in Seq(Writes) /\ Range(a \o b) = Range(a) \cup Range(b)
  BY <1>2, <1>3, RangeOfWrites
<1>8. (a \o b) \o c \in Seq(Writes) /\ Range((a \o b) \o c) = Range(a) \cup Range(b) \cup Range(c)
  BY <1>4, <1>7, RangeOfWrites
<1>9. /\ ((a \o b) \o c) \o d \in Seq(Writes)
      /\ Range(((a \o b) \o c) \o d) = Range(a) \cup Range(b) \cup Range(c) \cup Range(d)
  BY <1>5, <1>8, RangeOfWrites
<1>10. /\ \A e \in Messages : Ephemeral!Marker(e).to = "marker" /\ Ephemeral!Marker(e).event = e
       /\ full # 0 => full \in Messages
       /\ seenBy # 0 => seenBy \in Messages
  BY WritesAre
<1>11. \A w \in Range(((a \o b) \o c) \o d) :
         w.to = "object" \/ (w.to = "marker" /\ w.event = IF full # 0 THEN full ELSE seenBy)
  BY <1>2, <1>3, <1>4, <1>5, <1>9, <1>10
<1>12. (IF full # 0 THEN full ELSE seenBy) # 0 => \E w \in Range(((a \o b) \o c) \o d) : w.to = "marker"
  BY <1>2, <1>4, <1>9, <1>10
<1>. QED
  BY <1>6, <1>9, <1>11, <1>12 DEF Fits

LEMMA OpensFit ==
  ASSUME clock \in Nat, NEW r \in EphemeralRequests,
         Ephemeral!PostReceipt(r) \/ Ephemeral!PostReadMarkers(r) \/ Ephemeral!PutTyping(r)
             \/ Ephemeral!PutPresence(r)
  PROVE  OpensWith(r)
<1>0. Ephemeral!First \in Messages
  BY EphemeralAssumption DEF Ephemeral!First
<1>1. CASE Ephemeral!PostReceipt(r)
  <2>1. PICK type \in Ephemeral!ReceiptTypes \cup {"m.fully_read"}, thread \in Ephemeral!Threads, e \in Messages :
          Ephemeral!Open(r, "read", IF type = "m.read.private" THEN 0 ELSE e,
              Ephemeral!ReceiptWrites(type, thread, e))
    BY <1>1 DEF Ephemeral!PostReceipt
  <2>2. (IF type = "m.read.private" THEN 0 ELSE e) \in Nat /\ "read" \in Ephemeral!Kinds
    BY EphemeralAssumption DEF Ephemeral!Kinds
  <2>. QED
    BY <2>1, <2>2, PostReceiptFits DEF OpensWith
<1>2. CASE Ephemeral!PostReadMarkers(r)
  <2>1. PICK full \in {0} \cup Messages, seenBy \in {0} \cup Messages, private \in {0} \cup Messages :
          Ephemeral!Open(r, "read", IF full # 0 THEN full ELSE seenBy, Ephemeral!MarkersWrites(full, seenBy, private))
    BY <1>0, <1>2 DEF Ephemeral!PostReadMarkers
  <2>2. (IF full # 0 THEN full ELSE seenBy) \in Nat /\ "read" \in Ephemeral!Kinds
    BY EphemeralAssumption DEF Ephemeral!Kinds
  <2>. QED
    BY <2>1, <2>2, PostMarkersFits DEF OpensWith
<1>3. CASE Ephemeral!PutTyping(r)
  <2>1. PICK types \in BOOLEAN, timeout \in 0 .. Ephemeral!TypingMax + 1 :
          LET for == IF types /\ timeout # 0 THEN Ephemeral!Lesser(timeout,
              Ephemeral!TypingMax) ELSE Ephemeral!TypingDefault IN
          Ephemeral!Open(r, "typing", 0, <<[to |-> "typing", types |-> types, for |-> for]>>)
    BY <1>3 DEF Ephemeral!PutTyping
  <2>. DEFINE for == IF types /\ timeout # 0 THEN Ephemeral!Lesser(timeout,
         Ephemeral!TypingMax) ELSE Ephemeral!TypingDefault
              w == [to |-> "typing", types |-> types, for |-> for]
  <2>2. for \in Nat
    BY DEF Ephemeral!Lesser, Ephemeral!TypingMax, Ephemeral!TypingDefault
  <2>3. w \in Writes /\ w.to = "typing"
    BY <2>2 DEF Writes
  <2>4. Ephemeral!Open(r, "typing", 0, <<w>>)
    BY <2>1
  <2>. HIDE DEF w
  <2>5. <<w>> \in Seq(Writes) /\ Range(<<w>>) = {w}
    BY <2>3, RangeOfWrites
  <2>6. Fits("typing", 0, <<w>>) /\ "typing" \in Ephemeral!Kinds
    BY <2>3, <2>5 DEF Fits, Ephemeral!Kinds
  <2>. QED
    BY <2>4, <2>5, <2>6 DEF OpensWith
<1>4. CASE Ephemeral!PutPresence(r)
  <2>1. PICK state \in {"online", "offline"} :
          LET p == [state |-> state, ts |-> clock, until |-> 0] IN
          Ephemeral!Open(r, "presence", p, <<[to |-> "row", presence |-> p], [to |-> "entry", presence |-> p],
                                   [to |-> "servers", presence |-> p]>>)
    BY <1>4 DEF Ephemeral!PutPresence
  <2>. DEFINE p == [state |-> state, ts |-> clock, until |-> 0]
              x == [to |-> "row", presence |-> p]
              y == [to |-> "entry", presence |-> p]
              z == [to |-> "servers", presence |-> p]
  <2>2. p \in PresenceRecords
    BY DEF PresenceRecords
  <2>3. Ephemeral!Open(r, "presence", p, <<x, y, z>>)
    BY <2>1
  <2>. HIDE DEF p
  <2>4. x \in Writes /\ y \in Writes /\ z \in Writes
    BY <2>2 DEF Writes
  <2>5. x.to = "row" /\ y.to = "entry" /\ z.to = "servers" /\ x.presence = p /\ y.presence = p
    OBVIOUS
  <2>. HIDE DEF x, y, z
  <2>6. <<x, y, z>> \in Seq(Writes) /\ Range(<<x, y, z>>) = {x, y, z}
    BY <2>4, RangeOfThree
  <2>7. Fits("presence", p, <<x, y, z>>) /\ "presence" \in Ephemeral!Kinds
    BY <2>5, <2>6 DEF Fits, Ephemeral!Kinds
  <2>. QED
    BY <2>2, <2>3, <2>6, <2>7 DEF OpensWith
<1>. QED
  BY <1>1, <1>2, <1>3, <1>4

WritingStep(r) ==
  Ephemeral!SetReceipt(r) \/ Ephemeral!WriteMarker(r) \/ Ephemeral!SetTyping(r) \/ Ephemeral!WritePresence(r)
      \/ Ephemeral!WriteEntry(r) \/ Ephemeral!TellServers(r)

(* What is stored, and what requests do: all but which entries a read of KV may still give. *)
standingVars == <<stored, oldRow, cache, loaded, marker, typing, row, entry, clock, step, actions, asked, latest,
                  typed, lastOf, unmixed>>

EphemeralStep ==
  \/ Ephemeral!Evict \/ Ephemeral!Load \/ Ephemeral!Tick \/ UNCHANGED standingVars
  \/ \E r \in EphemeralRequests : OpensWith(r) \/ WritingStep(r) \/ Ephemeral!Stop(r)

LEMMA NextIsEphemeralStep == clock \in Nat /\ [Ephemeral!EphemeralNext]_(Ephemeral!ephemeralVars) => EphemeralStep
<1>. SUFFICES ASSUME clock \in Nat, [Ephemeral!EphemeralNext]_(Ephemeral!ephemeralVars) PROVE EphemeralStep
  OBVIOUS
<1>1. ASSUME NEW r \in EphemeralRequests, Ephemeral!PostReceipt(r) \/ Ephemeral!PostReadMarkers(r)
        \/ Ephemeral!PutTyping(r) \/ Ephemeral!PutPresence(r)
      PROVE  EphemeralStep
  BY <1>1, OpensFit DEF EphemeralStep
<1>2. ASSUME NEW r \in EphemeralRequests, WritingStep(r) \/ Ephemeral!Stop(r) PROVE EphemeralStep
  BY <1>2 DEF EphemeralStep
<1>3. CASE Ephemeral!Evict \/ Ephemeral!Load \/ Ephemeral!Tick
  BY <1>3 DEF EphemeralStep
<1>4. CASE UNCHANGED Ephemeral!ephemeralVars \/ Ephemeral!SettleEntry
  BY <1>4 DEF Ephemeral!ephemeralVars, Ephemeral!SettleEntry, standingVars, EphemeralStep
<1>. QED
  BY <1>1, <1>2, <1>3, <1>4 DEF Ephemeral!EphemeralNext, WritingStep

(* A write is the head of what its request has to write, and leaves the tail. *)
WritesHead(r) ==
  /\ step[r] = "open" /\ actions[r] # <<>>
  /\ UNCHANGED <<clock, asked, lastOf, unmixed, oldRow>>
  /\ actions' = [actions EXCEPT ![r] = Tail(@)]
  /\ step' = [step EXCEPT ![r] = IF Len(actions[r]) = 1 THEN "done" ELSE @]

LEMMA WriteMoves ==
  ASSUME EphemeralTypes, NEW r \in EphemeralRequests, WritingStep(r)
  PROVE  /\ WritesHead(r)
         /\ Head(actions[r]) \in Writes /\ Head(actions[r]) \in Range(actions[r])
         /\ actions'[r] \in Seq(Writes) /\ Range(actions'[r]) \subseteq Range(actions[r])
         /\ Range(actions[r]) \subseteq {Head(actions[r])} \cup Range(actions'[r])
         /\ Len(actions[r]) = 1 => actions'[r] = <<>>
         /\ \A p \in EphemeralRequests \ {r} : actions'[p] = actions[p] /\ step'[p] = step[p]
         /\ step'[r] = IF Len(actions[r]) = 1 THEN "done" ELSE "open"
<1>1. WritesHead(r)
  BY DEF WritingStep, Ephemeral!SetReceipt, Ephemeral!WriteMarker, Ephemeral!SetTyping, Ephemeral!WritePresence,
         Ephemeral!WriteEntry, Ephemeral!TellServers, Ephemeral!Writing, Ephemeral!Wrote, WritesHead
<1>2. actions[r] \in Seq(Writes) /\ actions[r] # <<>>
  BY <1>1 DEF WritesHead, EphemeralTypes
<1>3. /\ Head(actions[r]) \in Range(actions[r]) /\ Range(actions[r]) \subseteq Writes
         /\ Range(Tail(actions[r])) \subseteq Range(actions[r])
      /\ Range(actions[r]) \subseteq {Head(actions[r])} \cup Range(Tail(actions[r]))
      /\ Tail(actions[r]) \in Seq(Writes) /\ (Len(actions[r]) = 1 => Tail(actions[r]) = <<>>)
  BY <1>2, RangeOfTail
<1>4. actions'[r] = Tail(actions[r])
  BY <1>1 DEF WritesHead, EphemeralTypes
<1>5. /\ \A p \in EphemeralRequests \ {r} : actions'[p] = actions[p] /\ step'[p] = step[p]
      /\ step'[r] = IF Len(actions[r]) = 1 THEN "done" ELSE "open"
  BY <1>1 DEF WritesHead, EphemeralTypes
<1>. QED
  BY <1>1, <1>3, <1>4, <1>5

LEMMA WriteFields ==
  ASSUME NEW w \in Writes
  PROVE  /\ w.to = "object" => w.key \in Ephemeral!Keys /\ w.event \in Messages
         /\ w.to = "marker" => w.event \in Messages
         /\ w.to = "typing" => w.types \in BOOLEAN /\ w.for \in Nat
         /\ w.to \in {"row", "entry", "servers"} => w.presence \in PresenceRecords
<1>. QED
  BY DEF Writes

LEMMA UntilField ==
  ASSUME NEW p \in PresenceRecords, NEW n \in Nat
  PROVE  [p EXCEPT !.until = n] \in PresenceRecords /\ Same([p EXCEPT !.until = n], p)
<1>. QED
  BY DEF PresenceRecords, Same

LEMMA LoadedType == EphemeralTypes => Ephemeral!Loaded \in [Ephemeral!Keys -> Nat]
    /\ Ephemeral!Cache \in [Ephemeral!Keys -> Nat]
<1>. QED
  BY DEF EphemeralTypes, Ephemeral!Loaded, Ephemeral!Cache

LEMMA NextEphemeralTypes == EphemeralTypes /\ EphemeralStep => EphemeralTypes'
<1>. SUFFICES ASSUME EphemeralTypes, EphemeralStep PROVE EphemeralTypes'
  OBVIOUS
<1>. USE DEF EphemeralTypes
<1>1. CASE UNCHANGED standingVars \/ Ephemeral!Tick
  BY <1>1 DEF standingVars, Ephemeral!Tick, Ephemeral!data
<1>5. CASE Ephemeral!Evict
  BY <1>5 DEF Ephemeral!Evict
<1>6. CASE Ephemeral!Load
  BY <1>6, LoadedType DEF Ephemeral!Load
<1>2. ASSUME NEW r \in EphemeralRequests, OpensWith(r) PROVE EphemeralTypes'
  <2>1. PICK kind \in Ephemeral!Kinds, aim \in Nat \cup PresenceRecords,
          writes \in Seq(Writes) : Ephemeral!Open(r, kind, aim, writes)
    BY <1>2 DEF OpensWith
  <2>. QED
    BY <2>1 DEF Ephemeral!Open, Ephemeral!data
<1>3. ASSUME NEW r \in EphemeralRequests, Ephemeral!Stop(r) PROVE EphemeralTypes'
  <2>1. <<>> \in Seq(Writes)
    OBVIOUS
  <2>. QED
    BY <1>3, <2>1 DEF Ephemeral!Stop, Ephemeral!data
<1>4. ASSUME NEW r \in EphemeralRequests, WritingStep(r) PROVE EphemeralTypes'
  <2>. DEFINE w == Head(actions[r])
  <2>1. /\ step' \in [EphemeralRequests -> {"new", "open", "done", "stopped"}]
           /\ actions' \in [EphemeralRequests -> Seq(Writes)]
        /\ UNCHANGED <<clock, asked, lastOf, unmixed, oldRow>>
    <3>1. WritesHead(r) /\ actions'[r] \in Seq(Writes)
      BY <1>4, WriteMoves
    <3>2. actions' \in [EphemeralRequests -> Seq(Writes)]
      BY <3>1 DEF WritesHead
    <3>. QED
      BY <3>1, <3>2 DEF WritesHead
  <2>2. w \in Writes
    BY <1>4, WriteMoves
  <2>. HIDE DEF w
  <2>3. CASE Ephemeral!SetReceipt(r)
    <3>1. w.key \in Ephemeral!Keys /\ w.event \in Nat
      BY <2>2, <2>3, WriteFields, EphemeralAssumption DEF Ephemeral!SetReceipt, Ephemeral!Writing, w
    <3>2. Ephemeral!Cache \in [Ephemeral!Keys -> Nat]
      BY LoadedType
    <3>3. stored' \in [Ephemeral!Keys -> Nat] /\ cache' \in [Ephemeral!Keys -> Nat]
            /\ latest' \in [Ephemeral!Keys -> Nat]
      BY <2>3, <3>1, <3>2 DEF Ephemeral!SetReceipt, w
    <3>. QED
      BY <2>1, <2>3, <3>3 DEF Ephemeral!SetReceipt
  <2>4. CASE Ephemeral!SetTyping(r)
    <3>1. w.types \in BOOLEAN /\ w.for \in Nat
      BY <2>2, <2>4, WriteFields DEF Ephemeral!SetTyping, Ephemeral!Writing, w
    <3>2. typing' \in Nat /\ typed' \in [ends : Nat]
      BY <2>4, <3>1 DEF Ephemeral!SetTyping, w, Ephemeral!Lesser, Ephemeral!TypingMax
    <3>. QED
      BY <2>1, <2>4, <3>2 DEF Ephemeral!SetTyping
  <2>5. CASE Ephemeral!WritePresence(r)
    <3>1. w.presence \in PresenceRecords
      BY <2>2, <2>5, WriteFields DEF Ephemeral!WritePresence, Ephemeral!Writing, w
    <3>. QED
      BY <2>1, <2>5, <3>1 DEF Ephemeral!WritePresence, w
  <2>6. CASE Ephemeral!WriteEntry(r)
    <3>1. w.presence \in PresenceRecords
      BY <2>2, <2>6, WriteFields DEF Ephemeral!WriteEntry, Ephemeral!Writing, w
    <3>2. [w.presence EXCEPT !.until = clock + Ephemeral!PresenceTtl] \in PresenceRecords
      <4>1. clock + Ephemeral!PresenceTtl \in Nat
        BY DEF Ephemeral!PresenceTtl
      <4>. QED
        BY <3>1, <4>1, UntilField
    <3>. QED
      BY <2>1, <2>6, <3>2 DEF Ephemeral!WriteEntry, w
  <2>7. CASE Ephemeral!WriteMarker(r) \/ Ephemeral!TellServers(r)
    BY <2>1, <2>7 DEF Ephemeral!WriteMarker, Ephemeral!TellServers
  <2>. QED
    BY <1>4, <2>3, <2>4, <2>5, <2>6, <2>7 DEF WritingStep
<1>. QED
  BY <1>1, <1>2, <1>3, <1>4, <1>5, <1>6 DEF EphemeralStep

LEMMA NextReceiptInv == EphemeralTypes /\ ReceiptInv /\ EphemeralStep => ReceiptInv'
<1>. SUFFICES ASSUME EphemeralTypes, ReceiptInv, EphemeralStep PROVE ReceiptInv'
  OBVIOUS
<1>. USE DEF ReceiptInv
<1>1. ASSUME UNCHANGED <<stored, oldRow, cache, loaded, latest>> PROVE ReceiptInv'
  BY <1>1 DEF Ephemeral!Loaded
<1>2. CASE UNCHANGED standingVars \/ Ephemeral!Tick
  BY <1>1, <1>2 DEF standingVars, Ephemeral!Tick, Ephemeral!data
<1>3. CASE Ephemeral!Evict \/ Ephemeral!Load
  BY <1>3 DEF Ephemeral!Evict, Ephemeral!Load, Ephemeral!Loaded
<1>4. ASSUME NEW r \in EphemeralRequests, OpensWith(r) \/ Ephemeral!Stop(r) PROVE ReceiptInv'
  BY <1>1, <1>4 DEF OpensWith, Ephemeral!Open, Ephemeral!Stop, Ephemeral!data
<1>5. ASSUME NEW r \in EphemeralRequests, Ephemeral!WriteMarker(r) \/ Ephemeral!SetTyping(r)
        \/ Ephemeral!WritePresence(r) \/ Ephemeral!WriteEntry(r) \/ Ephemeral!TellServers(r)
      PROVE  ReceiptInv'
  BY <1>1, <1>5 DEF Ephemeral!WriteMarker, Ephemeral!SetTyping, Ephemeral!WritePresence, Ephemeral!WriteEntry,
                    Ephemeral!TellServers, Ephemeral!Wrote
<1>6. ASSUME NEW r \in EphemeralRequests, Ephemeral!SetReceipt(r) PROVE ReceiptInv'
  <2>. DEFINE w == Head(actions[r])
  <2>1. w.key \in Ephemeral!Keys /\ w.event \in Nat /\ w.event # 0
    BY <1>6, WriteMoves, WriteFields, EphemeralAssumption DEF Ephemeral!SetReceipt, Ephemeral!Writing, WritingStep
  <2>2. /\ stored' = [stored EXCEPT ![w.key] = w.event] /\ latest' = [latest EXCEPT ![w.key] = w.event]
        /\ cache' = [Ephemeral!Cache EXCEPT ![w.key] = w.event] /\ loaded' /\ UNCHANGED oldRow
    BY <1>6 DEF Ephemeral!SetReceipt, Ephemeral!Wrote
  <2>. HIDE DEF w
  <2>3. Ephemeral!Cache = Ephemeral!Loaded
    BY DEF Ephemeral!Cache
  <2>4. Ephemeral!Loaded' = [Ephemeral!Loaded EXCEPT ![w.key] = w.event]
    BY <2>1, <2>2 DEF Ephemeral!Loaded, EphemeralTypes
  <2>. QED
    BY <2>2, <2>3, <2>4
<1>. QED
  BY <1>2, <1>3, <1>4, <1>5, <1>6 DEF EphemeralStep, WritingStep

LEMMA NextTypingInv == EphemeralTypes /\ TypingInv /\ EphemeralStep => TypingInv'
<1>. SUFFICES ASSUME EphemeralTypes, TypingInv, EphemeralStep PROVE TypingInv'
  OBVIOUS
<1>. USE DEF TypingInv
<1>1. CASE UNCHANGED standingVars \/ Ephemeral!Tick \/ Ephemeral!Evict \/ Ephemeral!Load
  BY <1>1 DEF standingVars, Ephemeral!Tick, Ephemeral!Evict, Ephemeral!Load, Ephemeral!data, EphemeralTypes
<1>2. ASSUME NEW r \in EphemeralRequests, OpensWith(r) \/ Ephemeral!Stop(r) PROVE TypingInv'
  BY <1>2 DEF OpensWith, Ephemeral!Open, Ephemeral!Stop, Ephemeral!data
<1>3. ASSUME NEW r \in EphemeralRequests, Ephemeral!SetReceipt(r) \/ Ephemeral!WriteMarker(r)
        \/ Ephemeral!WritePresence(r) \/ Ephemeral!WriteEntry(r) \/ Ephemeral!TellServers(r)
      PROVE  TypingInv'
  BY <1>3 DEF Ephemeral!WriteMarker, Ephemeral!SetReceipt, Ephemeral!WritePresence, Ephemeral!WriteEntry,
              Ephemeral!TellServers
<1>4. ASSUME NEW r \in EphemeralRequests, Ephemeral!SetTyping(r) PROVE TypingInv'
  <2>. DEFINE w == Head(actions[r])
  <2>1. w.types \in BOOLEAN /\ w.for \in Nat
    BY <1>4, WriteMoves, WriteFields DEF Ephemeral!SetTyping, Ephemeral!Writing, WritingStep
  <2>2. /\ typing' = IF w.types THEN clock + Ephemeral!Lesser(w.for, Ephemeral!TypingMax) ELSE 0
        /\ typed' = [ends |-> IF w.types THEN clock + Ephemeral!TypingMax ELSE 0]
    BY <1>4 DEF Ephemeral!SetTyping
  <2>. HIDE DEF w
  <2>. QED
    BY <2>1, <2>2 DEF EphemeralTypes, Ephemeral!Lesser, Ephemeral!TypingMax
<1>. QED
  BY <1>1, <1>2, <1>3, <1>4 DEF EphemeralStep, WritingStep

(* Neither the clock nor the object's memory has to do with who asks what. *)
Apart == UNCHANGED <<step, actions, asked, lastOf, unmixed, marker, row, entry>>

LEMMA StepsApart ==
  ASSUME EphemeralStep
  PROVE  Apart \/ \E r \in EphemeralRequests : OpensWith(r) \/ WritingStep(r) \/ Ephemeral!Stop(r)
<1>. QED
  BY DEF EphemeralStep, Apart, standingVars, Ephemeral!Evict, Ephemeral!Load, Ephemeral!Tick,
         Ephemeral!data

(* What opening does to requests; what stopping does. *)
LEMMA OpenMoves ==
  ASSUME EphemeralTypes, NEW r \in EphemeralRequests, NEW kind \in Ephemeral!Kinds, NEW aim,
           NEW writes \in Seq(Writes),
         Ephemeral!Open(r, kind, aim, writes)
  PROVE  /\ step[r] = "new" /\ step'[r] = "open" /\ actions'[r] = writes /\ KindOf(r)' = kind /\ WishOf(r)' = aim
         /\ \A p \in EphemeralRequests \ {r} :
              step'[p] = step[p] /\ actions'[p] = actions[p] /\ KindOf(p)' = KindOf(p) /\ WishOf(p)' = WishOf(p)
         /\ lastOf'[kind] = r /\ \A k \in Ephemeral!Kinds \ {kind} : lastOf'[k] = lastOf[k]
         /\ unmixed' \subseteq unmixed \cup {r}
         /\ r \in unmixed' => r \in unmixed \/ \A p \in EphemeralRequests : step[p] = "open" => KindOf(p) # kind
         /\ UNCHANGED <<marker, row, entry>>
<1>1. /\ step[r] = "new" /\ step'[r] = "open" /\ actions'[r] = writes /\ asked'[r] = <<kind, aim>>
      /\ \A p \in EphemeralRequests \ {r} : step'[p] = step[p] /\ actions'[p] = actions[p] /\ asked'[p] = asked[p]
  BY DEF Ephemeral!Open, EphemeralTypes
<1>2. lastOf'[kind] = r /\ \A k \in Ephemeral!Kinds \ {kind} : lastOf'[k] = lastOf[k]
  BY DEF Ephemeral!Open, EphemeralTypes
<1>3. /\ unmixed' \subseteq unmixed \cup {r}
      /\ r \in unmixed' => r \in unmixed \/ \A p \in EphemeralRequests : step[p] = "open" => KindOf(p) # kind
  BY DEF Ephemeral!Open, Ephemeral!Pending, KindOf
<1>4. UNCHANGED <<marker, row, entry>>
  BY DEF Ephemeral!Open, Ephemeral!data
<1>. QED
  BY <1>1, <1>2, <1>3, <1>4 DEF KindOf, WishOf

LEMMA StopMoves ==
  ASSUME EphemeralTypes, NEW r \in EphemeralRequests, Ephemeral!Stop(r)
  PROVE  /\ step[r] = "open" /\ step'[r] = "stopped" /\ actions'[r] = <<>>
         /\ \A p \in EphemeralRequests \ {r} :
              step'[p] = step[p] /\ actions'[p] = actions[p] /\ KindOf(p)' = KindOf(p) /\ WishOf(p)' = WishOf(p)
         /\ unmixed' = unmixed \ {r} /\ UNCHANGED <<lastOf, marker, row, entry>>
<1>1. /\ step[r] = "open" /\ step'[r] = "stopped" /\ actions'[r] = <<>>
      /\ \A p \in EphemeralRequests \ {r} : step'[p] = step[p] /\ actions'[p] = actions[p] /\ asked'[p] = asked[p]
  BY DEF Ephemeral!Stop, EphemeralTypes
<1>2. unmixed' = unmixed \ {r} /\ UNCHANGED <<lastOf, marker, row, entry>>
  BY DEF Ephemeral!Stop, Ephemeral!data
<1>. QED
  BY <1>1, <1>2 DEF KindOf, WishOf

LEMMA NextWishInv == EphemeralTypes /\ WishInv /\ EphemeralStep => WishInv'
<1>. SUFFICES ASSUME EphemeralTypes, WishInv, EphemeralStep PROVE WishInv'
  OBVIOUS
<1>1. CASE Apart
  BY <1>1 DEF Apart, WishInv, KindOf, WishOf
<1>2. ASSUME NEW r \in EphemeralRequests, OpensWith(r) PROVE WishInv'
  <2>1. PICK kind \in Ephemeral!Kinds, aim \in Nat \cup PresenceRecords, writes \in Seq(Writes) :
          Fits(kind, aim, writes) /\ Ephemeral!Open(r, kind, aim, writes)
    BY <1>2 DEF OpensWith
  <2>. QED
    BY <2>1, OpenMoves DEF WishInv, Fits
<1>3. ASSUME NEW r \in EphemeralRequests, Ephemeral!Stop(r) PROVE WishInv'
  BY <1>3, StopMoves DEF WishInv
<1>4. ASSUME NEW r \in EphemeralRequests, WritingStep(r) PROVE WishInv'
  <2>1. UNCHANGED asked /\ step[r] = "open"
    BY <1>4, WriteMoves DEF WritesHead
  <2>2. /\ Range(actions'[r]) \subseteq Range(actions[r]) /\ (Len(actions[r]) = 1 => actions'[r] = <<>>)
        /\ \A p \in EphemeralRequests \ {r} : actions'[p] = actions[p] /\ step'[p] = step[p]
        /\ step'[r] = IF Len(actions[r]) = 1 THEN "done" ELSE "open"
    BY <1>4, WriteMoves
  <2>. QED
    BY <2>1, <2>2 DEF WishInv, KindOf, WishOf
<1>. QED
  BY <1>1, <1>2, <1>3, <1>4, StepsApart

LEMMA NextLonelyInv == EphemeralTypes /\ LonelyInv /\ EphemeralStep => LonelyInv'
<1>. SUFFICES ASSUME EphemeralTypes, LonelyInv, EphemeralStep PROVE LonelyInv'
  OBVIOUS
<1>0. lastOf \in [Ephemeral!Kinds -> EphemeralRequests \cup {0}]
        /\ lastOf' \in [Ephemeral!Kinds -> EphemeralRequests \cup {0}]
  BY NextEphemeralTypes DEF EphemeralTypes
<1>1. CASE Apart
  BY <1>1 DEF Apart, LonelyInv, KindOf
<1>2. ASSUME NEW r \in EphemeralRequests, OpensWith(r) PROVE LonelyInv'
  <2>1. PICK kind \in Ephemeral!Kinds, aim \in Nat \cup PresenceRecords, writes \in Seq(Writes) :
          Ephemeral!Open(r, kind, aim, writes)
    BY <1>2 DEF OpensWith
  <2>2. r \notin unmixed
    BY <2>1, OpenMoves DEF LonelyInv
  <2>3. \A p \in unmixed' : step'[p] \in {"open", "done"}
    <3>1. \A p \in unmixed' : p = r \/ (p \in unmixed /\ p \in EphemeralRequests \ {r})
      BY <2>1, OpenMoves DEF EphemeralTypes
    <3>. QED
      BY <2>1, <3>1, OpenMoves DEF LonelyInv
  <2>4. \A k \in Ephemeral!Kinds : lastOf'[k] # 0 => step'[lastOf'[k]] # "new"
    BY <1>0, <2>1, OpenMoves DEF LonelyInv
  <2>5. ASSUME NEW k \in Ephemeral!Kinds, lastOf'[k] # 0, lastOf'[k] \in unmixed'
        PROVE  asked'[lastOf'[k]][1] = k /\ \A p \in EphemeralRequests \ {lastOf'[k]} : step'[p] = "open"
                 => asked'[p][1] # k
    <3>1. CASE k = kind
      <4>1. lastOf'[k] = r /\ asked'[r][1] = kind
        BY <2>1, <3>1, OpenMoves DEF KindOf
      <4>2. \A p \in EphemeralRequests : step[p] = "open" => asked[p][1] # kind
        BY <2>1, <2>2, <2>5, <4>1, OpenMoves DEF KindOf
      <4>3. \A p \in EphemeralRequests \ {r} : step'[p] = step[p] /\ asked'[p][1] = asked[p][1]
        BY <2>1, OpenMoves DEF KindOf
      <4>. QED
        BY <3>1, <4>1, <4>2, <4>3
    <3>2. CASE k # kind
      <4>1. lastOf'[k] = lastOf[k] /\ step[r] = "new" /\ lastOf[k] # r
        BY <2>1, <2>5, <3>2, OpenMoves DEF LonelyInv
      <4>2. lastOf[k] \in unmixed /\ lastOf[k] \in EphemeralRequests
        BY <1>0, <2>1, <2>5, <4>1, OpenMoves
      <4>3. asked'[r][1] = kind /\ \A p \in EphemeralRequests \ {r} : step'[p] = step[p] /\ asked'[p][1] = asked[p][1]
        BY <2>1, OpenMoves DEF KindOf
      <4>4. asked[lastOf[k]][1] = k /\ \A p \in EphemeralRequests \ {lastOf[k]} : step[p] = "open" => asked[p][1] # k
        BY <2>5, <4>1, <4>2 DEF LonelyInv, KindOf
      <4>. QED
        BY <3>2, <4>1, <4>2, <4>3, <4>4
    <3>. QED
      BY <3>1, <3>2
  <2>. QED
    BY <2>3, <2>4, <2>5 DEF LonelyInv, KindOf
<1>3. ASSUME NEW r \in EphemeralRequests, Ephemeral!Stop(r) PROVE LonelyInv'
  <2>1. /\ step[r] = "open" /\ step'[r] = "stopped" /\ unmixed' = unmixed \ {r} /\ lastOf' = lastOf
        /\ \A p \in EphemeralRequests \ {r} : step'[p] = step[p] /\ asked'[p][1] = asked[p][1]
    BY <1>3, StopMoves DEF KindOf
  <2>2. (\A p \in unmixed' : step'[p] \in {"open", "done"}) /\ \A k \in Ephemeral!Kinds : lastOf'[k] # 0
          => step'[lastOf'[k]] # "new"
    BY <1>0, <2>1 DEF LonelyInv, EphemeralTypes
  <2>3. ASSUME NEW k \in Ephemeral!Kinds, lastOf'[k] # 0, lastOf'[k] \in unmixed'
        PROVE  asked'[lastOf'[k]][1] = k /\ \A p \in EphemeralRequests \ {lastOf'[k]} : step'[p] = "open"
                 => asked'[p][1] # k
    <3>1. lastOf[k] \in unmixed /\ lastOf[k] # r /\ lastOf[k] \in EphemeralRequests
      BY <1>0, <2>1, <2>3
    <3>2. asked[lastOf[k]][1] = k /\ \A p \in EphemeralRequests \ {lastOf[k]} : step[p] = "open" => asked[p][1] # k
      BY <2>1, <2>3, <3>1 DEF LonelyInv, KindOf
    <3>. QED
      BY <2>1, <3>1, <3>2
  <2>. QED
    BY <2>2, <2>3 DEF LonelyInv, KindOf
<1>4. ASSUME NEW r \in EphemeralRequests, WritingStep(r) PROVE LonelyInv'
  <2>1. UNCHANGED <<asked, lastOf, unmixed>> /\ step[r] = "open"
    BY <1>4, WriteMoves DEF WritesHead
  <2>2. (\A p \in EphemeralRequests \ {r} : step'[p] = step[p]) /\ step'[r] \in {"done", "open"}
    BY <1>4, WriteMoves
  <2>3. (\A p \in unmixed' : step'[p] \in {"open", "done"}) /\ \A k \in Ephemeral!Kinds : lastOf'[k] # 0
          => step'[lastOf'[k]] # "new"
    BY <1>0, <2>1, <2>2 DEF LonelyInv, EphemeralTypes
  <2>4. \A p \in EphemeralRequests : step'[p] = "open" => step[p] = "open"
    BY <2>1, <2>2
  <2>. QED
    BY <2>1, <2>3, <2>4 DEF LonelyInv, KindOf
<1>. QED
  BY <1>1, <1>2, <1>3, <1>4, StepsApart

(* The last request of a kind that is alone goes on as it was, unless it is the one that opens. *)
LEMMA LastStays ==
  ASSUME EphemeralTypes, LonelyInv, NEW r \in EphemeralRequests, NEW k \in Ephemeral!Kinds, OpensWith(r)
           \/ Ephemeral!Stop(r),
         lastOf'[k] # 0, lastOf'[k] \in unmixed', lastOf'[k] # r
  PROVE  /\ lastOf'[k] = lastOf[k] /\ lastOf[k] \in unmixed /\ lastOf[k] \in EphemeralRequests
         /\ actions'[lastOf[k]] = actions[lastOf[k]] /\ asked'[lastOf[k]][2] = asked[lastOf[k]][2]
         /\ UNCHANGED <<marker, row, entry>>
<1>1. lastOf \in [Ephemeral!Kinds -> EphemeralRequests \cup {0}]
  BY DEF EphemeralTypes
<1>2. CASE Ephemeral!Stop(r)
  BY <1>1, <1>2, StopMoves DEF WishOf
<1>3. CASE OpensWith(r)
  <2>1. PICK kind \in Ephemeral!Kinds, aim \in Nat \cup PresenceRecords, writes \in Seq(Writes) :
          Ephemeral!Open(r, kind, aim, writes)
    BY <1>3 DEF OpensWith
  <2>. QED
    BY <1>1, <2>1, OpenMoves DEF WishOf
<1>. QED
  BY <1>2, <1>3

(* A request that opens and is the last of its kind owes all it asks. *)
LEMMA OpensOwing ==
  ASSUME EphemeralTypes, LonelyInv, NEW r \in EphemeralRequests, NEW k \in Ephemeral!Kinds, OpensWith(r),
         lastOf'[k] = r, r # 0, r \in unmixed'
  PROVE  /\ k = "read" /\ asked'[r][2] # 0 => Owes(r, "marker")'
         /\ k = "presence" => Owes(r, "row")' /\ Owes(r, "entry")'
<1>1. PICK kind \in Ephemeral!Kinds, aim \in Nat \cup PresenceRecords, writes \in Seq(Writes) :
        Fits(kind, aim, writes) /\ Ephemeral!Open(r, kind, aim, writes)
  BY DEF OpensWith
<1>2. step[r] = "new" /\ actions'[r] = writes /\ asked'[r][2] = aim
        /\ \A j \in Ephemeral!Kinds \ {kind} : lastOf'[j] = lastOf[j]
  BY <1>1, OpenMoves DEF WishOf
<1>3. k = kind
  BY <1>2 DEF LonelyInv
<1>. QED
  BY <1>1, <1>2, <1>3 DEF Fits, Owes

(* A write of the kind of a request that is alone is its own. *)
LEMMA WriterIsLast ==
  ASSUME EphemeralTypes, WishInv, LonelyInv, NEW r \in EphemeralRequests, WritingStep(r), NEW k \in Ephemeral!Kinds,
         lastOf[k] # 0, lastOf[k] \in unmixed
  PROVE  LET w == Head(actions[r]) IN
         /\ w.to = "marker" /\ k = "read" => r = lastOf[k] /\ w.event = WishOf(r)
         /\ w.to \in {"row", "entry"} /\ k = "presence" => r = lastOf[k] /\ w.presence = WishOf(r)
<1>1. step[r] = "open" /\ Head(actions[r]) \in Range(actions[r])
  BY WriteMoves DEF WritesHead
<1>. QED
  BY <1>1 DEF WishInv, LonelyInv

LEMMA WriteOwes ==
  ASSUME EphemeralTypes, NEW r \in EphemeralRequests, WritingStep(r), NEW to, NEW p \in EphemeralRequests,
           Owes(p, to),
         p = r => Head(actions[r]).to # to
  PROVE  Owes(p, to)'
<1>1. Range(actions[r]) \subseteq {Head(actions[r])} \cup Range(actions'[r]) /\ (p # r => actions'[p] = actions[p])
  BY WriteMoves
<1>. QED
  BY <1>1 DEF Owes

LEMMA NextMarkerInv == EphemeralTypes /\ WishInv /\ LonelyInv /\ MarkerInv /\ EphemeralStep => MarkerInv'
<1>. SUFFICES ASSUME EphemeralTypes, WishInv, LonelyInv, MarkerInv, EphemeralStep,
                     lastOf'["read"] # 0, lastOf'["read"] \in unmixed', asked'[lastOf'["read"]][2] # 0
              PROVE  marker' = asked'[lastOf'["read"]][2]
                       \/ \E w \in Range(actions'[lastOf'["read"]]) : w.to = "marker"
  BY DEF MarkerInv, WishOf, Owes
<1>0. "read" \in Ephemeral!Kinds /\ lastOf \in [Ephemeral!Kinds -> EphemeralRequests \cup {0}]
  BY DEF Ephemeral!Kinds, EphemeralTypes
<1>1. CASE Apart
  BY <1>1 DEF Apart, MarkerInv, WishOf, Owes
<1>2. ASSUME NEW r \in EphemeralRequests, OpensWith(r), lastOf'["read"] = r
      PROVE  \E w \in Range(actions'[lastOf'["read"]]) : w.to = "marker"
  BY <1>0, <1>2, OpensOwing DEF Owes
<1>3. ASSUME NEW r \in EphemeralRequests, OpensWith(r) \/ Ephemeral!Stop(r), lastOf'["read"] # r
      PROVE  marker' = asked'[lastOf'["read"]][2] \/ \E w \in Range(actions'[lastOf'["read"]]) : w.to = "marker"
  BY <1>0, <1>3, LastStays DEF MarkerInv, WishOf, Owes
<1>4. ASSUME NEW r \in EphemeralRequests, Ephemeral!Stop(r) PROVE lastOf'["read"] # r
  BY <1>4, StopMoves
<1>5. ASSUME NEW r \in EphemeralRequests, WritingStep(r)
      PROVE  marker' = asked'[lastOf'["read"]][2] \/ \E w \in Range(actions'[lastOf'["read"]]) : w.to = "marker"
  <2>. DEFINE l == lastOf["read"]
  <2>1. UNCHANGED <<asked, lastOf, unmixed>>
    BY <1>5, WriteMoves DEF WritesHead
  <2>2. l # 0 /\ l \in unmixed /\ l \in EphemeralRequests /\ WishOf(l) # 0
          /\ (marker = WishOf(l) \/ Owes(l, "marker"))
    BY <1>0, <2>1 DEF MarkerInv, WishOf
  <2>3. CASE Ephemeral!WriteMarker(r)
    <3>1. marker' = Head(actions[r]).event /\ Head(actions[r]).to = "marker"
      BY <2>3 DEF Ephemeral!WriteMarker, Ephemeral!Writing
    <3>. QED
      BY <1>0, <1>5, <2>1, <2>2, <3>1, WriterIsLast DEF WishOf
  <2>4. CASE ~Ephemeral!WriteMarker(r)
    <3>1. marker' = marker /\ Head(actions[r]).to # "marker"
      BY <1>5, <2>4 DEF WritingStep, Ephemeral!SetReceipt, Ephemeral!SetTyping, Ephemeral!WritePresence,
                        Ephemeral!WriteEntry, Ephemeral!TellServers, Ephemeral!Writing
    <3>. QED
      BY <1>5, <2>1, <2>2, <3>1, WriteOwes DEF WishOf, Owes
  <2>. QED
    BY <2>3, <2>4
<1>. QED
  BY <1>1, <1>2, <1>3, <1>4, <1>5, StepsApart

LEMMA NextPresenceInv == EphemeralTypes /\ WishInv /\ LonelyInv /\ PresenceInv /\ EphemeralStep => PresenceInv'
<1>. SUFFICES ASSUME EphemeralTypes, WishInv, LonelyInv, PresenceInv, EphemeralStep, NEW s, s = lastOf'["presence"],
                     s # 0, s \in unmixed'
              PROVE  /\ Same(row', asked'[s][2]) \/ \E w \in Range(actions'[s]) : w.to = "row"
                     /\ Same(entry', asked'[s][2]) \/ \E w \in Range(actions'[s]) : w.to = "entry"
  BY DEF PresenceInv, WishOf, Owes, Same
<1>0. "presence" \in Ephemeral!Kinds /\ lastOf \in [Ephemeral!Kinds -> EphemeralRequests \cup {0}]
        /\ unmixed' \subseteq EphemeralRequests
  BY NextEphemeralTypes DEF Ephemeral!Kinds, EphemeralTypes
<1>1. CASE Apart
  BY <1>1 DEF Apart, PresenceInv, WishOf, Owes, Same
<1>2. ASSUME NEW r \in EphemeralRequests, OpensWith(r), s = r
      PROVE  (\E w \in Range(actions'[s]) : w.to = "row") /\ \E w \in Range(actions'[s]) : w.to = "entry"
  BY <1>0, <1>2, OpensOwing DEF Owes
<1>3. ASSUME NEW r \in EphemeralRequests, OpensWith(r) \/ Ephemeral!Stop(r), s # r
      PROVE  /\ Same(row', asked'[s][2]) \/ \E w \in Range(actions'[s]) : w.to = "row"
             /\ Same(entry', asked'[s][2]) \/ \E w \in Range(actions'[s]) : w.to = "entry"
  <2>1. s = lastOf["presence"] /\ s \in unmixed /\ actions'[s] = actions[s] /\ asked'[s][2] = asked[s][2]
          /\ UNCHANGED <<row, entry>>
    BY <1>0, <1>3, LastStays
  <2>. QED
    BY <2>1 DEF PresenceInv, WishOf, Owes
<1>4. ASSUME NEW r \in EphemeralRequests, Ephemeral!Stop(r) PROVE s # r
  BY <1>4, StopMoves
<1>5. ASSUME NEW r \in EphemeralRequests, WritingStep(r)
      PROVE  /\ Same(row', asked'[s][2]) \/ \E w \in Range(actions'[s]) : w.to = "row"
             /\ Same(entry', asked'[s][2]) \/ \E w \in Range(actions'[s]) : w.to = "entry"
  <2>1. UNCHANGED <<asked, lastOf, unmixed>>
    BY <1>5, WriteMoves DEF WritesHead
  <2>2. /\ s = lastOf["presence"] /\ s \in unmixed /\ s \in EphemeralRequests
        /\ Same(row, WishOf(s)) \/ Owes(s, "row")
        /\ Same(entry, WishOf(s)) \/ Owes(s, "entry")
    BY <1>0, <2>1 DEF PresenceInv
  <2>3. CASE Ephemeral!WritePresence(r)
    <3>1. row' = Head(actions[r]).presence /\ entry' = entry /\ Head(actions[r]).to = "row"
      BY <2>3 DEF Ephemeral!WritePresence, Ephemeral!Writing
    <3>2. Same(row', asked'[s][2])
      BY <1>0, <1>5, <2>1, <2>2, <3>1, WriterIsLast DEF WishOf, Same
    <3>. QED
      BY <1>5, <2>1, <2>2, <3>1, <3>2, WriteOwes DEF WishOf, Owes
  <2>4. CASE Ephemeral!WriteEntry(r)
    <3>1. /\ entry' = [Head(actions[r]).presence EXCEPT !.until = clock + Ephemeral!PresenceTtl]
          /\ row' = row /\ Head(actions[r]).to = "entry"
      BY <2>4 DEF Ephemeral!WriteEntry, Ephemeral!Writing
    <3>2. Head(actions[r]).presence \in PresenceRecords /\ clock + Ephemeral!PresenceTtl \in Nat
      BY <1>5, <3>1, WriteMoves, WriteFields DEF Ephemeral!PresenceTtl, EphemeralTypes
    <3>3. Same(entry', Head(actions[r]).presence)
      BY <3>1, <3>2, UntilField
    <3>4. Same(entry', asked'[s][2])
      BY <1>0, <1>5, <2>1, <2>2, <3>1, <3>3, WriterIsLast DEF WishOf
    <3>. QED
      BY <1>5, <2>1, <2>2, <3>1, <3>4, WriteOwes DEF WishOf, Owes
  <2>5. CASE ~Ephemeral!WritePresence(r) /\ ~Ephemeral!WriteEntry(r)
    <3>1. UNCHANGED <<row, entry>> /\ Head(actions[r]).to \notin {"row", "entry"}
      BY <1>5, <2>5 DEF WritingStep, Ephemeral!SetReceipt, Ephemeral!SetTyping, Ephemeral!WriteMarker,
                        Ephemeral!TellServers, Ephemeral!Writing
    <3>2. (Owes(s, "row") => Owes(s, "row")') /\ (Owes(s, "entry") => Owes(s, "entry")')
      BY <1>5, <2>2, <3>1, WriteOwes
    <3>. QED
      BY <2>1, <2>2, <3>1, <3>2 DEF WishOf, Owes
  <2>. QED
    BY <2>3, <2>4, <2>5
<1>. QED
  BY <1>1, <1>2, <1>3, <1>4, <1>5, StepsApart

LEMMA InitEphemeralInv == Ephemeral!EphemeralInit => EphemeralInv
<1>. SUFFICES ASSUME Ephemeral!EphemeralInit PROVE EphemeralInv
  OBVIOUS
<1>. USE DEF Ephemeral!EphemeralInit
<1>1. oldRow \in Nat
  BY EphemeralAssumption DEF Ephemeral!First
<1>2. EphemeralTypes
  <2>1. Ephemeral!NoPresence \in PresenceRecords
    BY DEF Ephemeral!NoPresence, PresenceRecords
  <2>2. actions \in [EphemeralRequests -> Seq(Writes)]
    OBVIOUS
  <2>3. latest \in [Ephemeral!Keys -> Nat]
    BY <1>1
  <2>. QED
    BY <1>1, <2>1, <2>2, <2>3 DEF EphemeralTypes
<1>3. ReceiptInv /\ TypingInv
  BY DEF ReceiptInv, TypingInv, Ephemeral!Loaded
<1>4. WishInv /\ LonelyInv /\ MarkerInv /\ PresenceInv
  BY DEF WishInv, LonelyInv, MarkerInv, PresenceInv, Ephemeral!Kinds
<1>. QED
  BY <1>2, <1>3, <1>4 DEF EphemeralInv

LEMMA EphemeralInvariance == Ephemeral!EphemeralSpec => []EphemeralInv
<1>1. EphemeralInv /\ [Ephemeral!EphemeralNext]_(Ephemeral!ephemeralVars) => EphemeralInv'
  <2>. SUFFICES ASSUME EphemeralInv, [Ephemeral!EphemeralNext]_(Ephemeral!ephemeralVars) PROVE EphemeralInv'
    OBVIOUS
  <2>1. EphemeralStep
    BY NextIsEphemeralStep DEF EphemeralInv, EphemeralTypes
  <2>. QED
    BY <2>1, NextEphemeralTypes, NextReceiptInv, NextTypingInv, NextWishInv, NextLonelyInv, NextMarkerInv,
       NextPresenceInv DEF EphemeralInv
<1>. QED
  BY <1>1, InitEphemeralInv, PTL DEF Ephemeral!EphemeralSpec

LEMMA InvEphemeralSound == EphemeralInv => Ephemeral!EphemeralSound
<1>. SUFFICES ASSUME EphemeralInv PROVE Ephemeral!EphemeralSound
  OBVIOUS
<1>. USE DEF EphemeralInv
<1>1. Ephemeral!ReceiptsShown
  <2>1. Ephemeral!Cache = latest
    BY DEF ReceiptInv, Ephemeral!Cache
  <2>2. Ephemeral!GetReceipts = {<<latest[k], k[1]>> : k \in {j \in Ephemeral!Keys : latest[j] # 0}}
    BY <2>1 DEF Ephemeral!GetReceipts
  <2>3. ASSUME NEW toUser \in BOOLEAN
        PROVE  Ephemeral!ShownReceipts(toUser) = {<<latest[k], k[1]>> : k \in {j \in Ephemeral!Keys :
                                          latest[j] # 0 /\ (toUser \/ j[1] # "m.read.private")}}
    BY <2>2 DEF Ephemeral!ShownReceipts
  <2>. QED
    BY <2>3 DEF Ephemeral!ReceiptsShown
<1>2. Ephemeral!TypingLapses
  BY DEF TypingInv, EphemeralTypes, Ephemeral!TypingLapses, Ephemeral!TypingShown
<1>3. lastOf \in [Ephemeral!Kinds -> EphemeralRequests \cup {0}]
  BY DEF EphemeralTypes
<1>4. ASSUME NEW k \in Ephemeral!Kinds, Ephemeral!Answered(k), NEW to PROVE ~Owes(lastOf[k], to)
  BY <1>3, <1>4 DEF Ephemeral!Answered, Owes, WishInv, Range
<1>5. Ephemeral!MarkerFollows
  BY <1>4 DEF Ephemeral!MarkerFollows, Ephemeral!Answered, MarkerInv, WishOf, Ephemeral!Kinds
<1>6. Ephemeral!PresenceSettles
  <2>. SUFFICES ASSUME Ephemeral!Answered("presence"), lagging = {}
                PROVE  LET p == asked[lastOf["presence"]][2] IN
                       Ephemeral!GetPresence = {IF p.state = "online"
                           /\ clock >= p.ts + Ephemeral!PresenceTtl THEN "unavailable" ELSE p.state}
    BY DEF Ephemeral!PresenceSettles
  <2>1. Same(row, asked[lastOf["presence"]][2]) /\ Same(entry, asked[lastOf["presence"]][2])
    BY <1>4 DEF Ephemeral!Answered, PresenceInv, WishOf, Ephemeral!Kinds
  <2>2. Ephemeral!GetPresence = {Ephemeral!Shown(IF clock < entry.until THEN entry ELSE row)}
    BY DEF Ephemeral!GetPresence
  <2>. QED
    BY <2>1, <2>2 DEF Ephemeral!Shown, Same
<1>. QED
  BY <1>1, <1>2, <1>5, <1>6 DEF Ephemeral!EphemeralSound, Ephemeral!ShownAsSet, Ephemeral!StoresSettle

LEMMA EphemeralRuns == ServicesSpec => Ephemeral!EphemeralSpec
<1>1. ServicesInit => Ephemeral!EphemeralInit
  BY DEF ServicesInit
<1>2. [ServicesNext]_servicesVars => [Ephemeral!EphemeralNext]_(Ephemeral!ephemeralVars)
  BY DEF ServicesNext, servicesVars, ephemeralVars, Ephemeral!ephemeralVars
<1>. QED
  BY <1>1, <1>2, PTL DEF ServicesSpec, Ephemeral!EphemeralSpec

(* Receipts and typing users shown are those the object took last, through evictions and lapses, and a read marker
   and presence that nothing overlapped settle, as KV does, on the last request (RoomDurableObject.ts, receipts.ts, presence.ts). *)
THEOREM WhatWasSetIsShown == ServicesSpec => []EphemeralSound
<1>1. Ephemeral!EphemeralSound => EphemeralSound
  BY DEF EphemeralSound
<1>. QED
  BY EphemeralRuns, EphemeralInvariance, InvEphemeralSound, <1>1, PTL

-----------------------------------------------------------------------------
(* Addresses: AddressInv says whose each session is, and that it is mailed. *)

SessionRows == [id : Nat, secret : Owners, attempt : Nat, validated : BOOLEAN]
AskSteps == {"find", "replace", "insert", "mail", "answer"}
AddSteps == {"binding", "bind", "finish"}
AddressCalls ==
  [op : {"none", "ask", "submit", "add", "delete", "done"},
   at : {"new", "validate", "delete", "done"} \cup AskSteps \cup AddSteps,
   user : Owners \cup {NoOwner}, attempt : Nat, session : Nat]

AddressTypes ==
  /\ bound \in Owners \cup {NoOwner} /\ sessions \in SUBSET SessionRows
  /\ mailReq \in [AddressRequests -> AddressCalls] /\ sid \in [Owners -> Nat]
  /\ added \in SUBSET Owners /\ proved \in SUBSET Owners
  /\ ended \in SUBSET Nat /\ mailed \in SUBSET Nat /\ mailMet \in BOOLEAN

(* The operation of each step, and whose it is. *)
CallOps ==
  \A q \in AddressRequests :
    /\ mailReq[q].at \in AskSteps => mailReq[q].op = "ask"
    /\ mailReq[q].at = "validate" => mailReq[q].op = "submit"
    /\ mailReq[q].at \in AddSteps => mailReq[q].op = "add"
    /\ mailReq[q].at = "delete" => mailReq[q].op = "delete"
    /\ mailReq[q].at \notin {"new", "done"} => mailReq[q].user \in Owners
    /\ mailReq[q].at = "new" <=> mailReq[q].op = "none"
    /\ mailReq[q].at = "mail" => mailReq[q].session = q

(* A session is its user's. *)
OwnInv ==
  /\ \A r, s \in sessions : r.id = s.id => r.secret = s.secret
  /\ \A s \in sessions : s.id # Addresses!NoSession /\ (s.validated => s.secret \in proved)
  /\ \A u \in Owners, s \in sessions : s.id = sid[u] => s.secret = u
  /\ \A q \in AddressRequests, s \in sessions :
       mailReq[q].at \notin {"new", "done"} /\ s.id = mailReq[q].session
           => s.secret = mailReq[q].user

(* The session of a request has an id that was not there. *)
NewIdInv ==
  \A q \in AddressRequests : mailReq[q].at \in {"new", "find", "replace", "insert"} =>
    /\ \A s \in sessions : s.id # q
    /\ \A u \in Owners : sid[u] # q
    /\ \A p \in AddressRequests : mailReq[p].session # q

BindInv ==
  /\ bound \in {NoOwner} \cup proved
  /\ \A q \in AddressRequests : mailReq[q].at \in AddSteps => mailReq[q].user \in proved
  /\ ~mailMet => \A u \in added : bound = u
  /\ ~mailMet => \A q \in AddressRequests :
       /\ mailReq[q].at = "bind" => bound \in {NoOwner, mailReq[q].user}
       /\ mailReq[q].at = "finish" => bound = mailReq[q].user
  /\ ~mailMet => \A p, q \in AddressRequests :
       p # q /\ mailReq[p].op = "add" => mailReq[q].op \notin {"add", "delete"}

(* A session is mailed, or is to be. *)
Served(s) ==
  \/ s \in ended
  \/ Addresses!RowOf(s) # {} /\ (s \in mailed \/ (s \in AddressRequests /\ mailReq[s].at = "mail"))

MailInv ==
  /\ \A s \in sessions : Served(s.id)
  /\ \A u \in Owners : sid[u] # Addresses!NoSession => Served(sid[u])
  /\ \A q \in AddressRequests : mailReq[q].at = "answer" => Served(mailReq[q].session)
  /\ \A q \in AddressRequests : mailReq[q].at = "mail" => Served(q)

AddressInv == AddressTypes /\ CallOps /\ OwnInv /\ NewIdInv /\ BindInv /\ MailInv


LEMMA FirstSessions ==
  Addresses!FirstSession \in [Owners -> {100 + n : n \in 1 .. Cardinality(Owners)}]
    /\ \A u, v \in Owners : Addresses!FirstSession[u] = Addresses!FirstSession[v] => u = v
<1>. DEFINE n == Cardinality(Owners)
            Ids == {100 + i : i \in 1 .. n}
<1>1. n \in Nat /\ ExistsBijection(1 .. n, Owners)
  BY AddressAssumption, FS_CardinalityType
<1>2. PICK f \in Bijection(1 .. n, Owners) : TRUE
  BY <1>1 DEF ExistsBijection
<1>3. \A u \in Owners : \E i \in 1 .. n : f[i] = u
  BY <1>2 DEF Bijection, Surjection
<1>. DEFINE index == [u \in Owners |-> CHOOSE i \in 1 .. n : f[i] = u]
            name == [u \in Owners |-> 100 + index[u]]
<1>4. \A u \in Owners : index[u] \in 1 .. n /\ f[index[u]] = u
  BY <1>3
<1>5. \A u, v \in Owners : name[u] = name[v] => index[u] = index[v]
  <2>. HIDE DEF index
  <2>. QED
    BY <1>1, <1>4
<1>6. name \in [Owners -> Ids] /\ \A u, v \in Owners : name[u] = name[v] => u = v
  <2>1. name \in [Owners -> Ids]
    <3>. HIDE DEF index
    <3>1. \A u \in Owners : 100 + index[u] \in Ids
      BY <1>4
    <3>. HIDE DEF Ids
    <3>. QED
      BY <3>1
  <2>2. ASSUME NEW u \in Owners, NEW v \in Owners, name[u] = name[v] PROVE u = v
    <3>1. index[u] = index[v]
      BY <1>5, <2>2
    <3>. HIDE DEF index
    <3>. QED
      BY <1>4, <3>1
  <2>. QED
    BY <2>1, <2>2
<1>7. \E g \in [Owners -> {100 + i : i \in 1 .. Cardinality(Owners)}] :
        \A u, v \in Owners : g[u] = g[v] => u = v
  <2>. HIDE DEF name
  <2>. QED
    BY <1>6
<1>. DEFINE Ok(g) == \A u, v \in Owners : g[u] = g[v] => u = v
            Names101 == [Owners -> {100 + i : i \in 1 .. Cardinality(Owners)}]
<1>8. Addresses!FirstSession = CHOOSE g \in Names101 : Ok(g)
  <2>1. Addresses!Cardinality(Owners) = Cardinality(Owners)
    BY DEF Addresses!Cardinality, Cardinality
  <2>. QED
    BY <2>1 DEF Addresses!FirstSession
<1>9. \E g \in Names101 : Ok(g)
  BY <1>7
<1>10. Addresses!FirstSession \in Names101 /\ Ok(Addresses!FirstSession)
  <2>. HIDE DEF Ok, Names101
  <2>. QED
    BY <1>8, <1>9
<1>. QED
  BY <1>10

LEMMA InitAddressInv == Addresses!ThreepidsInit => AddressInv
<1>. SUFFICES ASSUME Addresses!ThreepidsInit PROVE AddressInv
  OBVIOUS
<1>. DEFINE name == Addresses!FirstSession
<1>0. /\ name \in [Owners -> {100 + n : n \in 1 .. Cardinality(Owners)}]
      /\ \A u, v \in Owners : name[u] = name[v] => u = v
  BY FirstSessions
<1>1. Cardinality(Owners) \in Nat
  BY AddressAssumption, FS_CardinalityType
<1>2. PICK had \in [Owners -> {"nothing", "session", "validated"}] :
        /\ bound \in {NoOwner} \cup {u \in Owners : had[u] = "nothing"}
        /\ sessions = {[id |-> name[u], secret |-> u, attempt |-> 1,
            validated |-> had[u] = "validated"] :
                     u \in {v \in Owners : had[v] # "nothing"}}
        /\ mailed = {s.id : s \in sessions}
        /\ sid = [u \in Owners |-> IF had[u] = "nothing" THEN Addresses!NoSession ELSE name[u]]
        /\ proved = {u \in Owners : had[u] = "validated" \/ u = bound}
        /\ added = {bound} \ {NoOwner}
        /\ expired = {} /\ mailReq = [q \in AddressRequests |-> Addresses!Idle]
        /\ ended = {} /\ mailMet = FALSE /\ mailFaults = 0
  BY DEF Addresses!ThreepidsInit
<1>. HIDE DEF name
<1>3. \A u \in Owners : name[u] \in Nat /\ name[u] > 100
  BY <1>0, <1>1 
<1>4. \A s \in sessions : \E u \in Owners :
        /\ had[u] # "nothing"
        /\ s = [id |-> name[u], secret |-> u, attempt |-> 1, validated |-> had[u] = "validated"]
  BY <1>2
<1>5. \A s \in sessions : s \in SessionRows /\ s.id = name[s.secret] /\ s.secret \in Owners
                      /\ (s.validated => had[s.secret] = "validated")
  <2>. SUFFICES ASSUME NEW s \in sessions
                PROVE  s \in SessionRows /\ s.id = name[s.secret] /\ s.secret \in Owners
                         /\ (s.validated => had[s.secret] = "validated")
    OBVIOUS
  <2>1. PICK u \in Owners :
          s = [id |-> name[u], secret |-> u, attempt |-> 1, validated |-> had[u] = "validated"]
    BY <1>4
  <2>. QED
    BY <1>3, <2>1 DEF SessionRows
<1>6. AddressTypes
  <2>1. sessions \in SUBSET SessionRows
    BY <1>5
  <2>2. mailed \in SUBSET Nat
    BY <1>2, <1>3, <1>5
  <2>3. sid \in [Owners -> Nat]
    BY <1>2, <1>3 DEF Addresses!NoSession
  <2>4. mailReq \in [AddressRequests -> AddressCalls]
    BY <1>2 DEF AddressCalls, Addresses!Idle, Addresses!NoSession
  <2>. QED
    BY <1>2, <2>1, <2>2, <2>3, <2>4 DEF AddressTypes
<1>7. CallOps
  BY <1>2 DEF CallOps, Addresses!Idle, AskSteps, AddSteps
<1>8. OwnInv
  <2>1. \A r, s \in sessions : r.id = s.id => r.secret = s.secret
    BY <1>0, <1>5
  <2>2. \A s \in sessions : s.id # Addresses!NoSession /\ (s.validated => s.secret \in proved)
    BY <1>2, <1>3, <1>5 DEF Addresses!NoSession
  <2>3. \A u \in Owners, s \in sessions : s.id = sid[u] => s.secret = u
    BY <1>0, <1>2, <1>3, <1>5 DEF Addresses!NoSession
  <2>. QED
    BY <1>2, <2>1, <2>2, <2>3 DEF OwnInv, Addresses!Idle
<1>9. NewIdInv
  <2>1. \A q \in AddressRequests : q \in 1 .. 100
    BY AddressAssumption
  <2>2. \A u \in Owners : sid[u] = 0 \/ sid[u] > 100
    BY <1>2, <1>3 DEF Addresses!NoSession
  <2>3. \A s \in sessions : s.id > 100
    BY <1>3, <1>5
  <2>4. \A q \in AddressRequests : mailReq[q].session = 0
    BY <1>2 DEF Addresses!Idle, Addresses!NoSession
  <2>. QED
    BY <2>1, <2>2, <2>3, <2>4 DEF NewIdInv
<1>10. BindInv
  BY <1>2 DEF BindInv, Addresses!Idle, AddSteps
<1>11. MailInv
  <2>1. ASSUME NEW u \in Owners, had[u] # "nothing" PROVE \E s \in sessions : s.id = name[u]
    <3>1. [id |-> name[u], secret |-> u, attempt |-> 1,
          validated |-> had[u] = "validated"] \in sessions
      BY <1>2, <2>1
    <3>. QED
      BY <3>1
  <2>. QED
    BY <1>2, <2>1 DEF MailInv, Served, Addresses!RowOf, Addresses!Idle
<1>. QED
  BY <1>6, <1>7, <1>8, <1>9, <1>10, <1>11 DEF AddressInv

LEMMA CallUpdates ==
  ASSUME NEW f \in [AddressRequests -> AddressCalls], NEW q \in AddressRequests, NEW id \in Nat,
         NEW there \in AskSteps \cup AddSteps
  PROVE  /\ [f EXCEPT ![q].at = there] \in [AddressRequests -> AddressCalls]
         /\ [f EXCEPT ![q].at = there, ![q].session = id] \in [AddressRequests -> AddressCalls]
<1>1. ASSUME NEW r \in AddressCalls
      PROVE  [r EXCEPT !.at = there] \in AddressCalls /\ [r EXCEPT !.session = id] \in AddressCalls
  BY <1>1 DEF AddressCalls
<1>2. [f EXCEPT ![q].at = there] \in [AddressRequests -> AddressCalls]
  BY <1>1
<1>. DEFINE g == [f EXCEPT ![q].at = there]
<1>3. [g EXCEPT ![q].session = id] \in [AddressRequests -> AddressCalls]
  <2>. HIDE DEF g
  <2>. QED
    BY <1>1, <1>2 DEF g
<1>. QED
  BY <1>2, <1>3

(* What a step is. *)
Opening(q, u) ==
  Addresses!SubmitToken(q, u) \/ Addresses!Add(q, u) \/ Addresses!Delete(q, u)
      \/ \E n \in 1 .. MaxAttempt : Addresses!RequestToken(q, u, n)

AddressStep ==
  \/ Addresses!Expire \/ \E q \in AddressRequests, u \in Owners : Opening(q, u)
  \/ \E q \in AddressRequests :
       \/ Addresses!FindSession(q) \/ Addresses!ReplaceSession(q) \/ Addresses!InsertSession(q)
       \/ Addresses!SendMail(q) \/ Addresses!MailFails(q)
       \/ Addresses!AnswerSid(q) \/ Addresses!Validate(q) \/ Addresses!CheckBinding(q)
       \/ Addresses!Bind(q) \/ Addresses!DropSession(q) \/ Addresses!Unbind(q)
       \/ Addresses!Stop(q)
  \/ UNCHANGED Addresses!threepidVars

LEMMA NextIsAddressStep == [Addresses!ThreepidsNext]_(Addresses!threepidVars) => AddressStep
BY DEF Addresses!ThreepidsNext, AddressStep, Opening

Opened(q) == \E u \in Owners : Opening(q, u)

LEMMA OpeningKeeps ==
  ASSUME NEW q \in AddressRequests, NEW u \in Owners, Opening(q, u)
  PROVE  UNCHANGED <<bound, sessions, mailed, sid, added, proved, ended>>
BY Zenon DEF Opening, Addresses!SubmitToken, Addresses!Add, Addresses!Delete, Addresses!RequestToken,
   Addresses!Open

(* The request is new, and becomes what it is opened with. *)
LEMMA OpenWrites ==
  ASSUME NEW q, NEW r, Addresses!Open(q, r)
  PROVE  mailReq[q].op = "none" /\ mailReq' = [mailReq EXCEPT ![q] = r]
BY DEF Addresses!Open, Addresses!Begun

(* What a request is opened with. *)
LEMMA OpensOwn ==
  ASSUME AddressTypes, NEW q \in AddressRequests, NEW u \in Owners,
         Opening(q, u)
  PROVE  \E r \in AddressCalls :
           /\ Addresses!Open(q, r) /\ r.user = u
           /\ \/ r.op = "ask" /\ r.at = "find" /\ r.session = 0
              \/ r.op = "delete" /\ r.at = "delete" /\ r.session = 0
              \/ /\ r.op = "submit" /\ r.at = "validate" /\ r.session = sid[u]
                 /\ \E s \in sessions : s.id = sid[u]
              \/ /\ r.op = "add" /\ r.at = "binding" /\ r.session = sid[u]
                 /\ \E s \in sessions : s.id = sid[u] /\ s.validated
<1>. USE DEF Addresses!Idle, Addresses!NoSession
<1>1. sid[u] \in Nat
  BY DEF AddressTypes
<1>2. CASE Addresses!SubmitToken(q, u)
  <2>. DEFINE r == [Addresses!Idle EXCEPT !.op = "submit", !.at = "validate", !.user = u,
       !.session = sid[u]]
  <2>1. r \in AddressCalls /\ r.op = "submit" /\ r.at = "validate" /\ r.user = u
        /\ r.session = sid[u]
    BY <1>1, AddressAssumption DEF AddressCalls, AskSteps, AddSteps
  <2>2. (\E s \in sessions : s.id = sid[u]) /\ Addresses!Open(q, r)
    BY <1>2 DEF Addresses!SubmitToken, Addresses!RowOf
  <2>. QED
    BY <2>1, <2>2
<1>3. CASE Addresses!Add(q, u)
  <2>. DEFINE r == [Addresses!Idle EXCEPT !.op = "add", !.at = "binding", !.user = u,
       !.session = sid[u]]
  <2>1. r \in AddressCalls /\ r.op = "add" /\ r.at = "binding" /\ r.user = u /\ r.session = sid[u]
    BY <1>1, AddressAssumption DEF AddressCalls, AskSteps, AddSteps
  <2>2. (\E s \in sessions : s.id = sid[u] /\ s.validated) /\ Addresses!Open(q, r)
    BY <1>3 DEF Addresses!Add, Addresses!RowOf
  <2>. QED
    BY <2>1, <2>2
<1>4. CASE Addresses!Delete(q, u)
  <2>. DEFINE r == [Addresses!Idle EXCEPT !.op = "delete", !.at = "delete", !.user = u]
  <2>1. r \in AddressCalls /\ r.op = "delete" /\ r.at = "delete" /\ r.user = u /\ r.session = 0
    BY <1>1, AddressAssumption DEF AddressCalls, AskSteps, AddSteps
  <2>2. Addresses!Open(q, r)
    BY <1>4 DEF Addresses!Delete
  <2>. QED
    BY <2>1, <2>2
<1>5. ASSUME NEW n \in 1 .. MaxAttempt, Addresses!RequestToken(q, u, n)
      PROVE  \E r \in AddressCalls :
               Addresses!Open(q, r) /\ r.user = u /\ r.op = "ask" /\ r.at = "find" /\ r.session = 0
  <2>. DEFINE r == [Addresses!Idle EXCEPT !.op = "ask", !.at = "find", !.user = u, !.attempt = n]
  <2>0. n \in Nat
    BY AddressAssumption
  <2>1. r \in AddressCalls /\ r.op = "ask" /\ r.at = "find" /\ r.user = u /\ r.session = 0
    BY <2>0 DEF AddressCalls, AskSteps, AddSteps
  <2>2. Addresses!Open(q, r)
    BY <1>5 DEF Addresses!RequestToken
  <2>. QED
    BY <2>1, <2>2
<1>. QED
  BY <1>2, <1>3, <1>4, <1>5 DEF Opening

LEMMA NextAddressTypes ==
  AddressTypes /\ CallOps /\ [Addresses!ThreepidsNext]_(Addresses!threepidVars) => AddressTypes'
<1>. SUFFICES ASSUME AddressTypes, CallOps, [Addresses!ThreepidsNext]_(Addresses!threepidVars)
              PROVE  AddressTypes'
  OBVIOUS
<1>. USE DEF AddressTypes
<1>0. \A q \in AddressRequests : q \in Nat
  BY AddressAssumption 
<1>1. Addresses!Idle \in AddressCalls /\ Addresses!Done \in AddressCalls
  BY DEF Addresses!Idle, Addresses!Done, AddressCalls, Addresses!NoSession
<1>2. ASSUME NEW q \in AddressRequests, NEW id \in Nat, NEW there \in AskSteps \cup AddSteps
      PROVE  /\ [mailReq EXCEPT ![q].at = there] \in [AddressRequests -> AddressCalls]
             /\ [mailReq EXCEPT ![q].at = there,
                 ![q].session = id] \in [AddressRequests -> AddressCalls]
  BY <1>2, CallUpdates
<1>3. ASSUME NEW q \in AddressRequests, NEW u \in Owners,
             Opening(q, u)
      PROVE  AddressTypes'
  <2>1. PICK r \in AddressCalls : Addresses!Open(q, r)
    BY <1>3, OpensOwn
  <2>. QED
    BY <2>1 DEF Addresses!Open
<1>4. ASSUME NEW q \in AddressRequests, Addresses!FindSession(q) PROVE AddressTypes'
  <2>1. mailReq' \in [AddressRequests -> AddressCalls]
    <3>1. /\ [mailReq EXCEPT ![q].at = "insert"] \in [AddressRequests -> AddressCalls]
          /\ \A s \in sessions :
               /\ [mailReq EXCEPT ![q].at = "answer",
                   ![q].session = s.id] \in [AddressRequests -> AddressCalls]
               /\ [mailReq EXCEPT ![q].at = "replace",
                   ![q].session = s.id] \in [AddressRequests -> AddressCalls]
      BY <1>2, Zenon DEF SessionRows, AskSteps
    <3>2. \/ mailReq' = [mailReq EXCEPT ![q].at = "insert"]
          \/ mailReq' = [mailReq EXCEPT ![q] = Addresses!Done]
          \/ \E s \in sessions :
               \/ mailReq' = [mailReq EXCEPT ![q].at = "answer", ![q].session = s.id]
               \/ mailReq' = [mailReq EXCEPT ![q].at = "replace", ![q].session = s.id]
      BY <1>4 DEF Addresses!FindSession, Addresses!Goes, Addresses!Ends, Addresses!Sessions
    <3>. QED
      BY <1>1, <3>1, <3>2, ZenonT(40)
  <2>. QED
    BY <1>4, <2>1 DEF Addresses!FindSession
<1>5. ASSUME NEW q \in AddressRequests, Addresses!ReplaceSession(q) PROVE AddressTypes'
  <2>1. mailReq' \in [AddressRequests -> AddressCalls]
    BY <1>2, <1>5, Zenon DEF Addresses!ReplaceSession, Addresses!Goes, AskSteps
  <2>2. mailReq[q].session \in Nat
    BY DEF AddressCalls
  <2>. QED
    BY <1>5, <2>1, <2>2 DEF Addresses!ReplaceSession
<1>6. ASSUME NEW q \in AddressRequests, Addresses!InsertSession(q) PROVE AddressTypes'
  <2>1. mailReq' \in [AddressRequests -> AddressCalls]
    BY <1>0, <1>2, <1>6, Zenon DEF Addresses!InsertSession, AskSteps
  <2>2. [id |-> q, secret |-> mailReq[q].user, attempt |-> mailReq[q].attempt,
        validated |-> FALSE] \in SessionRows
    BY <1>0, <1>6 DEF Addresses!InsertSession, CallOps, Addresses!At, AskSteps, AddSteps,
       AddressCalls, SessionRows
  <2>. QED
    BY <1>6, <2>1, <2>2 DEF Addresses!InsertSession
<1>7. ASSUME NEW q \in AddressRequests, Addresses!SendMail(q) PROVE AddressTypes'
  <2>1. mailReq' \in [AddressRequests -> AddressCalls]
    BY <1>2, <1>7, Zenon DEF Addresses!SendMail, Addresses!Goes, AskSteps
  <2>. QED
    BY <1>0, <1>7, <2>1 DEF Addresses!SendMail
<1>8. ASSUME NEW q \in AddressRequests, Addresses!MailFails(q) \/ Addresses!Stop(q)
      PROVE  AddressTypes'
  BY <1>0, <1>1, <1>8 DEF Addresses!MailFails, Addresses!Stop, Addresses!Ends
<1>9. ASSUME NEW q \in AddressRequests, Addresses!AnswerSid(q) PROVE AddressTypes'
  <2>1. mailReq[q].session \in Nat
    BY DEF AddressCalls
  <2>. QED
    BY <1>1, <1>9, <2>1 DEF Addresses!AnswerSid, Addresses!Ends
<1>10. ASSUME NEW q \in AddressRequests, Addresses!Validate(q) PROVE AddressTypes'
  <2>1. mailReq[q].user \in Owners
    BY <1>10 DEF Addresses!Validate, CallOps, Addresses!At
  <2>2. \A r \in sessions : [r EXCEPT !.validated = TRUE] \in SessionRows
    BY DEF SessionRows
  <2>. QED
    BY <1>1, <1>10, <2>1, <2>2 DEF Addresses!Validate, Addresses!Ends
<1>11. ASSUME NEW q \in AddressRequests, Addresses!CheckBinding(q) \/ Addresses!Bind(q)
       PROVE  AddressTypes'
  <2>1. mailReq' \in [AddressRequests -> AddressCalls]
    <3>1. /\ [mailReq EXCEPT ![q].at = "bind"] \in [AddressRequests -> AddressCalls]
          /\ [mailReq EXCEPT ![q].at = "finish"] \in [AddressRequests -> AddressCalls]
      BY <1>2, Zenon DEF AddSteps
    <3>. QED
      BY <1>1, <1>11, <3>1 DEF Addresses!CheckBinding, Addresses!Bind, Addresses!Goes,
         Addresses!Ends
  <2>2. mailReq[q].user \in Owners
    BY <1>11 DEF Addresses!CheckBinding, Addresses!Bind, CallOps, Addresses!At
  <2>. QED
    BY <1>11, <2>1, <2>2 DEF Addresses!CheckBinding, Addresses!Bind
<1>12. ASSUME NEW q \in AddressRequests, Addresses!DropSession(q) \/ Addresses!Unbind(q)
       PROVE  AddressTypes'
  <2>1. mailReq[q].user \in Owners /\ mailReq[q].session \in Nat
    BY <1>12 DEF Addresses!DropSession, Addresses!Unbind, CallOps, Addresses!At, AddressCalls
  <2>. QED
    BY <1>1, <1>12, <2>1 DEF Addresses!DropSession, Addresses!Unbind, Addresses!Ends
<1>. QED
  BY <1>3, <1>4, <1>5, <1>6, <1>7, <1>8, <1>9, <1>10, <1>11, <1>12,
     NextIsAddressStep DEF AddressStep, Addresses!Expire, Addresses!threepidVars

(* What changes a request. *)
LEMMA CallStep ==
  ASSUME AddressTypes, CallOps, [Addresses!ThreepidsNext]_(Addresses!threepidVars),
         NEW q \in AddressRequests, mailReq'[q] # mailReq[q]
  PROVE  \/ \E u \in Owners : Opening(q, u)
         \/ Addresses!FindSession(q) \/ Addresses!ReplaceSession(q) \/ Addresses!InsertSession(q)
         \/ Addresses!SendMail(q) \/ Addresses!MailFails(q)
         \/ Addresses!AnswerSid(q) \/ Addresses!Validate(q) \/ Addresses!CheckBinding(q)
         \/ Addresses!Bind(q) \/ Addresses!DropSession(q)
         \/ Addresses!Unbind(q) \/ Addresses!Stop(q)
<1>1. ASSUME NEW p \in AddressRequests, NEW u \in Owners, p # q
      PROVE  ~Opening(p, u)
  BY <1>1, OpensOwn, OpenWrites DEF AddressTypes
<1>2. ASSUME NEW p \in AddressRequests, p # q
      PROVE  /\ ~Addresses!FindSession(p) /\ ~Addresses!ReplaceSession(p)
             /\ ~Addresses!InsertSession(p) /\ ~Addresses!SendMail(p)
             /\ ~Addresses!MailFails(p) /\ ~Addresses!AnswerSid(p)
  BY <1>2 DEF AddressTypes, Addresses!FindSession, Addresses!ReplaceSession,
     Addresses!InsertSession, Addresses!SendMail, Addresses!MailFails, Addresses!AnswerSid,
     Addresses!Goes, Addresses!Ends
<1>3. ASSUME NEW p \in AddressRequests, p # q
      PROVE  /\ ~Addresses!Validate(p) /\ ~Addresses!CheckBinding(p) /\ ~Addresses!Bind(p)
             /\ ~Addresses!DropSession(p) /\ ~Addresses!Unbind(p) /\ ~Addresses!Stop(p)
  BY <1>3 DEF AddressTypes, Addresses!Validate, Addresses!CheckBinding, Addresses!Bind,
     Addresses!DropSession, Addresses!Unbind, Addresses!Stop, Addresses!Goes, Addresses!Ends
<1>. QED
  BY <1>1, <1>2, <1>3, NextIsAddressStep DEF AddressStep, Addresses!Expire, Addresses!threepidVars

LEMMA CallFields ==
  ASSUME NEW r \in AddressCalls, NEW there, NEW id
  PROVE  /\ [r EXCEPT !.at = there].at = there /\ [r EXCEPT !.at = there].op = r.op
         /\ [r EXCEPT !.at = there].user = r.user /\ [r EXCEPT !.at = there].session = r.session
         /\ [r EXCEPT !.at = there, !.session = id].at = there
         /\ [r EXCEPT !.at = there, !.session = id].op = r.op
         /\ [r EXCEPT !.at = there, !.session = id].user = r.user
         /\ [r EXCEPT !.at = there, !.session = id].session = id
BY DEF AddressCalls

LEMMA GoesFields ==
  ASSUME AddressTypes, NEW q \in AddressRequests, NEW there, Addresses!Goes(q, there)
  PROVE  mailReq'[q].at = there /\ mailReq'[q].op = mailReq[q].op
         /\ mailReq'[q].user = mailReq[q].user
           /\ mailReq'[q].session = mailReq[q].session
<1>1. mailReq[q] \in AddressCalls /\ mailReq'[q] = [mailReq[q] EXCEPT !.at = there]
  BY SMTT(20) DEF Addresses!Goes, AddressTypes
<1>. QED
  BY <1>1, CallFields

(* What a request does with the session it finds. *)
LEMMA FindStep ==
  ASSUME AddressTypes, NEW q \in AddressRequests, Addresses!FindSession(q)
  PROVE  /\ mailReq[q].at = "find" /\ sessions' = sessions
         /\ \A p \in AddressRequests \ {q} : mailReq'[p] = mailReq[p]
         /\ \/ mailReq'[q] = Addresses!Done
            \/ /\ mailReq'[q].op = mailReq[q].op /\ mailReq'[q].user = mailReq[q].user
               /\ \/ mailReq'[q].at = "insert" /\ mailReq'[q].session = mailReq[q].session
                  \/ /\ mailReq'[q].at \in {"answer", "replace"}
                     /\ \E s \in sessions : s.secret = mailReq[q].user /\ mailReq'[q].session = s.id
<1>0. mailReq \in [AddressRequests -> AddressCalls]
  BY DEF AddressTypes
<1>1. mailReq[q].at = "find" /\ sessions' = sessions
  BY DEF Addresses!FindSession, Addresses!At
<1>2. \A p \in AddressRequests \ {q} : mailReq'[p] = mailReq[p]
  BY <1>0, SMTT(20) DEF Addresses!FindSession, Addresses!Goes, Addresses!Ends
<1>3. \/ mailReq'[q] = Addresses!Done
      \/ mailReq'[q] = [mailReq[q] EXCEPT !.at = "insert"]
      \/ \E s \in sessions, there \in {"answer", "replace"} :
           s.secret = mailReq[q].user
               /\ mailReq'[q] = [mailReq[q] EXCEPT !.at = there, !.session = s.id]
  <2>1. CASE Addresses!Goes(q, "insert") \/ Addresses!Ends(q)
    BY <1>0, <2>1, Zenon DEF Addresses!Goes, Addresses!Ends
  <2>2. CASE ~(Addresses!Goes(q, "insert") \/ Addresses!Ends(q))
    <3>1. PICK s \in Addresses!Sessions(mailReq[q].user), there \in {"answer", "replace"} :
            mailReq' = [mailReq EXCEPT ![q].at = there, ![q].session = s.id]
      BY <2>2 DEF Addresses!FindSession
    <3>2. mailReq'[q] = [mailReq[q] EXCEPT !.at = there, !.session = s.id]
      BY <1>0, <3>1
    <3>. QED
      BY <3>1, <3>2, Zenon DEF Addresses!Sessions
  <2>. QED
    BY <2>1, <2>2, ZenonT(40)
<1>4. CASE mailReq'[q] = [mailReq[q] EXCEPT !.at = "insert"]
  BY <1>0, <1>1, <1>2, <1>4, CallFields
<1>5. ASSUME NEW s \in sessions, NEW there \in {"answer", "replace"},
             s.secret = mailReq[q].user,
                 mailReq'[q] = [mailReq[q] EXCEPT !.at = there, !.session = s.id]
      PROVE  /\ mailReq'[q].op = mailReq[q].op /\ mailReq'[q].user = mailReq[q].user
             /\ mailReq'[q].at = there /\ mailReq'[q].session = s.id
  BY <1>0, <1>5, CallFields
<1>. QED
  BY <1>1, <1>2, <1>3, <1>4, <1>5, Zenon

LEMMA NextCallOps ==
  AddressTypes /\ CallOps /\ [Addresses!ThreepidsNext]_(Addresses!threepidVars) => CallOps'
<1>. SUFFICES ASSUME AddressTypes, CallOps, [Addresses!ThreepidsNext]_(Addresses!threepidVars),
                     NEW q \in AddressRequests
              PROVE  (/\ mailReq[q].at \in AskSteps => mailReq[q].op = "ask"
                      /\ mailReq[q].at = "validate" => mailReq[q].op = "submit"
                      /\ mailReq[q].at \in AddSteps => mailReq[q].op = "add"
                      /\ mailReq[q].at = "delete" => mailReq[q].op = "delete"
                      /\ mailReq[q].at \notin {"new", "done"} => mailReq[q].user \in Owners
                      /\ mailReq[q].at = "new" <=> mailReq[q].op = "none"
                      /\ mailReq[q].at = "mail" => mailReq[q].session = q)'
  BY DEF CallOps
<1>. USE DEF AskSteps, AddSteps
<1>0. mailReq \in [AddressRequests -> AddressCalls]
  BY DEF AddressTypes
<1>1. CASE mailReq'[q] = mailReq[q]
  BY <1>1 DEF CallOps
<1>2. ASSUME NEW u \in Owners,
             Opening(q, u)
      PROVE  /\ mailReq'[q].user \in Owners
             /\ \/ mailReq'[q].op = "ask" /\ mailReq'[q].at = "find"
                \/ mailReq'[q].op = "delete" /\ mailReq'[q].at = "delete"
                \/ mailReq'[q].op = "submit" /\ mailReq'[q].at = "validate"
                \/ mailReq'[q].op = "add" /\ mailReq'[q].at = "binding"
  BY <1>0, <1>2, OpensOwn, OpenWrites
<1>3. CASE Addresses!FindSession(q)
  BY <1>0, <1>3, FindStep DEF CallOps, Addresses!Done, Addresses!Idle
<1>7. CASE Addresses!ReplaceSession(q)
  BY <1>0, <1>7, CallFields DEF Addresses!ReplaceSession, Addresses!Goes, CallOps, Addresses!At
<1>4. CASE Addresses!InsertSession(q) \/ Addresses!SendMail(q)
  BY <1>0, <1>4 DEF Addresses!InsertSession, Addresses!SendMail, Addresses!Goes, CallOps,
     Addresses!At, AddressCalls
<1>5. CASE Addresses!MailFails(q) \/ Addresses!AnswerSid(q) \/ Addresses!Validate(q)
           \/ Addresses!DropSession(q) \/ Addresses!Unbind(q) \/ Addresses!Stop(q)
  BY <1>0, <1>5 DEF Addresses!MailFails, Addresses!AnswerSid, Addresses!Validate,
     Addresses!DropSession, Addresses!Unbind, Addresses!Stop, Addresses!Ends, Addresses!Done,
     Addresses!Idle
<1>6. CASE Addresses!CheckBinding(q)
  <2>1. mailReq'[q] = Addresses!Done \/ mailReq'[q] = [mailReq[q] EXCEPT !.at = "bind"]
    BY <1>0, <1>6 DEF Addresses!CheckBinding, Addresses!Goes, Addresses!Ends
  <2>2. mailReq[q].op = "add" /\ mailReq[q].user \in Owners
    BY <1>6 DEF Addresses!CheckBinding, CallOps, Addresses!At
  <2>3. CASE mailReq'[q] = [mailReq[q] EXCEPT !.at = "bind"]
    BY <1>0, <2>2, <2>3, CallFields
  <2>. QED
    BY <2>1, <2>3 DEF Addresses!Done, Addresses!Idle
<1>8. CASE Addresses!Bind(q)
  BY <1>0, <1>8, CallFields DEF Addresses!Bind, Addresses!Goes, CallOps, Addresses!At
<1>. QED
  BY <1>1, <1>2, <1>3, <1>4, <1>5, <1>6, <1>7, <1>8, CallStep

(* What a step does to a request, to the rows and to the sessions clients know. *)
LEMMA CallMoves ==
  ASSUME AddressTypes, CallOps, [Addresses!ThreepidsNext]_(Addresses!threepidVars),
         NEW q \in AddressRequests
  PROVE  \/ mailReq'[q] = mailReq[q]
         \/ mailReq'[q] = Addresses!Done
         \/ /\ mailReq[q].at = "new" /\ mailReq'[q].user \in Owners
            /\ mailReq'[q].at \in {"find", "delete", "validate", "binding"}
            /\ mailReq'[q].session \in {0, sid[mailReq'[q].user]}
         \/ /\ Addresses!FindSession(q) /\ mailReq'[q].user = mailReq[q].user
            /\ \/ mailReq'[q].at = "insert" /\ mailReq'[q].session = mailReq[q].session
               \/ /\ mailReq'[q].at \in {"answer", "replace"}
                  /\ \E s \in sessions : s.secret = mailReq[q].user /\ mailReq'[q].session = s.id
         \/ /\ Addresses!InsertSession(q) /\ mailReq'[q].user = mailReq[q].user
            /\ mailReq'[q].at = "mail" /\ mailReq'[q].session = q
         \/ /\ mailReq'[q].user = mailReq[q].user /\ mailReq'[q].session = mailReq[q].session
            /\ \/ Addresses!ReplaceSession(q) /\ mailReq'[q].at = "insert"
               \/ Addresses!SendMail(q) /\ mailReq'[q].at = "answer"
               \/ Addresses!CheckBinding(q) /\ mailReq'[q].at = "bind"
                   /\ bound \in {NoOwner, mailReq[q].user}
               \/ Addresses!Bind(q) /\ mailReq'[q].at = "finish"
<1>0. mailReq \in [AddressRequests -> AddressCalls]
  BY DEF AddressTypes
<1>1. ASSUME NEW u \in Owners,
             Opening(q, u)
      PROVE  /\ mailReq[q].at = "new" /\ mailReq'[q].user \in Owners
             /\ mailReq'[q].at \in {"find", "delete", "validate", "binding"}
             /\ mailReq'[q].session \in {0, sid[mailReq'[q].user]}
  <2>1. PICK r \in AddressCalls :
          /\ Addresses!Open(q, r) /\ r.user = u
          /\ r.at \in {"find", "delete", "validate", "binding"}
          /\ r.session \in {0, sid[u]}
    BY <1>1, OpensOwn
  <2>2. mailReq[q].op = "none" /\ mailReq'[q] = r
    BY <1>0, <2>1 DEF Addresses!Open, Addresses!Begun
  <2>3. mailReq[q].at = "new"
    BY <2>2 DEF CallOps
  <2>. QED
    BY <2>1, <2>2, <2>3
<1>2. CASE Addresses!FindSession(q)
  BY <1>2, FindStep
<1>3. CASE Addresses!InsertSession(q)
  BY <1>0, <1>3, CallFields DEF Addresses!InsertSession
<1>4. CASE Addresses!ReplaceSession(q)
  BY <1>0, <1>4, CallFields DEF Addresses!ReplaceSession, Addresses!Goes
<1>5. CASE Addresses!SendMail(q)
  BY <1>0, <1>5, CallFields DEF Addresses!SendMail, Addresses!Goes
<1>6. CASE Addresses!Bind(q)
  BY <1>0, <1>6, CallFields DEF Addresses!Bind, Addresses!Goes
<1>7. CASE Addresses!CheckBinding(q)
  <2>1. CASE bound \in {NoOwner, mailReq[q].user}
    <3>1. mailReq'[q] = [mailReq[q] EXCEPT !.at = "bind"]
      BY <1>0, <1>7, <2>1 DEF Addresses!CheckBinding, Addresses!Goes
    <3>. QED
      BY <1>0, <1>7, <2>1, <3>1, CallFields
  <2>2. CASE bound \notin {NoOwner, mailReq[q].user}
    BY <1>0, <1>7, <2>2 DEF Addresses!CheckBinding, Addresses!Ends
  <2>. QED
    BY <2>1, <2>2
<1>8. CASE Addresses!MailFails(q) \/ Addresses!AnswerSid(q) \/ Addresses!Validate(q)
           \/ Addresses!DropSession(q) \/ Addresses!Unbind(q) \/ Addresses!Stop(q)
  BY <1>0, <1>8 DEF Addresses!MailFails, Addresses!AnswerSid, Addresses!Validate,
     Addresses!DropSession, Addresses!Unbind, Addresses!Stop, Addresses!Ends
<1>. QED
  BY <1>1, <1>2, <1>3, <1>4, <1>5, <1>6, <1>7, <1>8, CallStep

LEMMA RowMoves ==
  ASSUME AddressTypes, CallOps, [Addresses!ThreepidsNext]_(Addresses!threepidVars),
         NEW s \in sessions'
  PROVE  \/ \E r \in sessions :
              /\ r.id = s.id /\ r.secret = s.secret
              /\ s.validated => r.validated \/ \E q \in AddressRequests :
                   Addresses!Validate(q) /\ mailReq[q].session = s.id
         \/ \E q \in AddressRequests :
              Addresses!InsertSession(q) /\ s.id = q /\ s.secret = mailReq[q].user /\ ~s.validated
<1>1. ASSUME NEW q \in AddressRequests, Addresses!InsertSession(q)
      PROVE  s \in sessions \/ /\ s.id = q /\ s.secret = mailReq[q].user /\ ~s.validated
  BY <1>1 DEF Addresses!InsertSession
<1>2. ASSUME NEW q \in AddressRequests, Addresses!Validate(q)
      PROVE  \E r \in sessions : /\ r.id = s.id /\ r.secret = s.secret
                                 /\ s.validated => r.validated \/ mailReq[q].session = s.id
  <2>1. PICK r \in sessions : s = IF r.id = mailReq[q].session THEN [r EXCEPT !.validated = TRUE] ELSE r
    BY <1>2 DEF Addresses!Validate
  <2>2. r \in SessionRows
    BY DEF AddressTypes
  <2>. QED
    BY <2>1, <2>2 DEF SessionRows
<1>4. CASE s \notin sessions
  <2>1. \E q \in AddressRequests : Addresses!InsertSession(q) \/ Addresses!Validate(q)
    BY <1>4, NextIsAddressStep, OpeningKeeps
    DEF AddressStep, Addresses!Expire, Addresses!threepidVars, Addresses!FindSession,
        Addresses!ReplaceSession, Addresses!SendMail, Addresses!MailFails, Addresses!AnswerSid,
        Addresses!CheckBinding, Addresses!Bind, Addresses!DropSession, Addresses!Unbind,
            Addresses!Stop
  <2>. QED
    BY <1>1, <1>2, <1>4, <2>1
<1>. QED
  BY <1>4

LEMMA SidMoves ==
  ASSUME AddressTypes, [Addresses!ThreepidsNext]_(Addresses!threepidVars), NEW u \in Owners
  PROVE  \/ sid'[u] = sid[u]
         \/ \E q \in AddressRequests :
              Addresses!AnswerSid(q) /\ mailReq[q].user = u /\ sid'[u] = mailReq[q].session
<1>1. CASE \E q \in AddressRequests : Addresses!AnswerSid(q)
  BY <1>1 DEF Addresses!AnswerSid, AddressTypes
<1>2. CASE ~\E q \in AddressRequests : Addresses!AnswerSid(q)
  BY <1>2, NextIsAddressStep, OpeningKeeps
  DEF AddressStep, Addresses!Expire, Addresses!threepidVars, Addresses!FindSession,
      Addresses!ReplaceSession, Addresses!InsertSession, Addresses!SendMail, Addresses!MailFails,
      Addresses!Validate, Addresses!CheckBinding, Addresses!Bind, Addresses!DropSession,
          Addresses!Unbind, Addresses!Stop
<1>. QED
  BY <1>1, <1>2

LEMMA ProvedGrows ==
  ASSUME [Addresses!ThreepidsNext]_(Addresses!threepidVars)
  PROVE  proved \subseteq proved'
BY NextIsAddressStep, OpeningKeeps
DEF AddressStep, Addresses!Expire, Addresses!threepidVars, Addresses!FindSession,
    Addresses!ReplaceSession, Addresses!InsertSession, Addresses!SendMail, Addresses!MailFails,
    Addresses!AnswerSid, Addresses!Validate, Addresses!CheckBinding, Addresses!Bind,
        Addresses!DropSession, Addresses!Unbind, Addresses!Stop

LEMMA NextNewIdInv ==
  AddressTypes /\ CallOps /\ NewIdInv /\ [Addresses!ThreepidsNext]_(Addresses!threepidVars)
      => NewIdInv'
<1>. SUFFICES ASSUME AddressTypes, CallOps, NewIdInv,
                     [Addresses!ThreepidsNext]_(Addresses!threepidVars), NEW q \in AddressRequests,
                     mailReq'[q].at \in {"new", "find", "replace", "insert"}
              PROVE  /\ \A s \in sessions' : s.id # q
                     /\ \A u \in Owners : sid'[u] # q
                     /\ \A p \in AddressRequests : mailReq'[p].session # q
  BY DEF NewIdInv
<1>1. mailReq[q].at \in {"new", "find", "replace", "insert"} /\ ~Addresses!InsertSession(q)
  <2>1. mailReq[q].at \in {"new", "find", "replace", "insert"}
    BY CallMoves DEF Addresses!FindSession, Addresses!ReplaceSession, Addresses!InsertSession,
       Addresses!SendMail, Addresses!CheckBinding, Addresses!Bind, Addresses!At, Addresses!Done,
       Addresses!Idle
  <2>2. Addresses!InsertSession(q) => mailReq'[q].at = "mail"
    BY CallFields DEF Addresses!InsertSession, AddressTypes
  <2>. QED
    BY <2>1, <2>2
<1>2. /\ \A s \in sessions : s.id # q
      /\ \A u \in Owners : sid[u] # q
      /\ \A p \in AddressRequests : mailReq[p].session # q
  BY <1>1 DEF NewIdInv
<1>3. \A s \in sessions' : s.id # q
  BY <1>1, <1>2, RowMoves
<1>4. \A u \in Owners : sid'[u] # q
  BY <1>2, SidMoves
<1>5. ASSUME NEW p \in AddressRequests PROVE mailReq'[p].session # q
  <2>1. q # 0
    BY AddressAssumption
  <2>. QED
    BY <1>1, <1>2, <2>1, CallMoves, ZenonT(40) DEF Addresses!Done, Addresses!Idle, Addresses!NoSession
<1>. QED
  BY <1>3, <1>4, <1>5

LEMMA NextOwnInv ==
  AddressTypes /\ CallOps /\ OwnInv /\ NewIdInv
      /\ [Addresses!ThreepidsNext]_(Addresses!threepidVars) => OwnInv'
<1>. SUFFICES ASSUME AddressTypes, CallOps, OwnInv, NewIdInv,
                     [Addresses!ThreepidsNext]_(Addresses!threepidVars)
              PROVE  OwnInv'
  OBVIOUS
<1>1. ASSUME NEW q \in AddressRequests, Addresses!InsertSession(q)
      PROVE  /\ \A s \in sessions : s.id # q
             /\ \A u \in Owners : sid[u] # q
             /\ \A p \in AddressRequests : mailReq[p].session # q
  BY <1>1 DEF NewIdInv, Addresses!InsertSession, Addresses!At
<1>2. ASSUME NEW p \in AddressRequests, Addresses!InsertSession(p), NEW q \in AddressRequests,
             Addresses!InsertSession(q)
      PROVE  p = q
  <2>0. mailReq'[q] = [mailReq[q] EXCEPT !.at = "mail", !.session = q]
        /\ mailReq[q] \in AddressCalls
    BY <1>2 DEF Addresses!InsertSession, AddressTypes
  <2>1. mailReq'[q].at = "mail" /\ mailReq[q].at = "insert"
    <3>1. [mailReq[q] EXCEPT !.at = "mail", !.session = q].at = "mail"
      BY <2>0, CallFields
    <3>. QED
      BY <1>2, <2>0, <3>1 DEF Addresses!InsertSession, Addresses!At
  <2>2. p # q => mailReq'[q] = mailReq[q]
    BY <1>2 DEF Addresses!InsertSession, AddressTypes
  <2>. QED
    BY <2>1, <2>2
<1>3. \A r, s \in sessions' : r.id = s.id => r.secret = s.secret
  BY <1>1, <1>2, RowMoves DEF OwnInv
<1>4. ASSUME NEW s \in sessions'
      PROVE  s.id # Addresses!NoSession /\ (s.validated => s.secret \in proved')
  <2>1. CASE \E q \in AddressRequests : Addresses!InsertSession(q) /\ s.id = q /\ ~s.validated
    BY <2>1, AddressAssumption DEF Addresses!NoSession
  <2>2. ASSUME NEW r \in sessions, NEW q \in AddressRequests, Addresses!Validate(q),
               mailReq[q].session = r.id
        PROVE  r.secret \in proved'
    BY <2>2 DEF Addresses!Validate, OwnInv, Addresses!At
  <2>. QED
    BY <2>1, <2>2, RowMoves, ProvedGrows DEF OwnInv
<1>5. \A u \in Owners, s \in sessions' : s.id = sid'[u] => s.secret = u
  <2>1. ASSUME NEW u \in Owners, NEW s \in sessions', s.id = sid'[u], NEW r \in sessions,
               r.id = s.id
        PROVE  r.secret = u
    <3>1. CASE sid'[u] = sid[u]
      BY <2>1, <3>1 DEF OwnInv
    <3>2. ASSUME NEW q \in AddressRequests, Addresses!AnswerSid(q), mailReq[q].user = u,
                 sid'[u] = mailReq[q].session
          PROVE  r.secret = u
      BY <2>1, <3>2 DEF OwnInv, Addresses!AnswerSid, Addresses!At
    <3>. QED
      BY <3>1, <3>2, SidMoves
  <2>2. ASSUME NEW u \in Owners, NEW s \in sessions', s.id = sid'[u],
               NEW q \in AddressRequests, Addresses!InsertSession(q), s.id = q
        PROVE  FALSE
    BY <1>1, <2>2 DEF Addresses!InsertSession
  <2>. QED
    BY <2>1, <2>2, RowMoves
<1>6. ASSUME NEW q \in AddressRequests, NEW s \in sessions',
             mailReq'[q].at \notin {"new", "done"}, s.id = mailReq'[q].session
      PROVE  s.secret = mailReq'[q].user
  <2>0. s.id # 0
    BY <1>4 DEF Addresses!NoSession
  <2>1. ASSUME NEW r \in sessions, r.id = s.id PROVE r.secret = mailReq'[q].user
    <3>1. CASE /\ mailReq'[q].user = mailReq[q].user /\ mailReq'[q].session = mailReq[q].session
               /\ mailReq[q].at \notin {"new", "done"}
      BY <1>6, <2>1, <3>1 DEF OwnInv
    <3>2. CASE mailReq'[q].user \in Owners /\ mailReq'[q].session \in {0, sid[mailReq'[q].user]}
      BY <1>6, <2>0, <2>1, <3>2 DEF OwnInv
    <3>3. ASSUME NEW t \in sessions, t.secret = mailReq[q].user, mailReq'[q].session = t.id,
                 mailReq'[q].user = mailReq[q].user
          PROVE  r.secret = mailReq'[q].user
      BY <1>6, <2>1, <3>3 DEF OwnInv
    <3>4. CASE Addresses!InsertSession(q) /\ mailReq'[q].session = q
      BY <1>1, <1>6, <2>1, <3>4
    <3>. QED
      BY <1>6, <3>1, <3>2, <3>3, <3>4, CallMoves
      DEF Addresses!Done, Addresses!Idle, Addresses!FindSession, Addresses!ReplaceSession,
          Addresses!SendMail, Addresses!CheckBinding, Addresses!Bind, Addresses!At
  <2>2. ASSUME NEW p \in AddressRequests, Addresses!InsertSession(p), s.id = p,
               s.secret = mailReq[p].user
        PROVE  s.secret = mailReq'[q].user
    <3>1. CASE p = q
      BY <2>2, <3>1, CallFields DEF Addresses!InsertSession, AddressTypes
    <3>2. CASE p # q
      <4>1. mailReq'[q] = mailReq[q]
        BY <2>2, <3>2 DEF Addresses!InsertSession, AddressTypes
      <4>. QED
        BY <1>1, <1>6, <2>2, <4>1
    <3>. QED
      BY <3>1, <3>2
  <2>. QED
    BY <2>1, <2>2, RowMoves
<1>. QED
  BY <1>3, <1>4, <1>5, <1>6 DEF OwnInv

LEMMA BoundMoves ==
  ASSUME AddressTypes, [Addresses!ThreepidsNext]_(Addresses!threepidVars)
  PROVE  \/ UNCHANGED <<bound, added>>
         \/ \E q \in AddressRequests :
              \/ Addresses!Bind(q) /\ bound' = mailReq[q].user /\ added' = added
              \/ Addresses!DropSession(q) /\ bound' = bound /\ added' = added \cup {mailReq[q].user}
              \/ /\ Addresses!Unbind(q) /\ added' = added \ {mailReq[q].user}
                 /\ bound' = IF bound = mailReq[q].user THEN NoOwner ELSE bound
BY NextIsAddressStep, OpeningKeeps
DEF AddressStep, Addresses!Expire, Addresses!threepidVars, Addresses!FindSession,
    Addresses!ReplaceSession, Addresses!InsertSession, Addresses!SendMail, Addresses!MailFails,
    Addresses!AnswerSid, Addresses!Validate, Addresses!CheckBinding, Addresses!Bind,
        Addresses!DropSession, Addresses!Unbind, Addresses!Stop

(* A request to add the address that overlaps another, or one to delete it, is noted when it begins. *)
LEMMA OpensMet ==
  ASSUME AddressTypes, CallOps, [Addresses!ThreepidsNext]_(Addresses!threepidVars), ~mailMet',
         NEW p \in AddressRequests, NEW q \in AddressRequests, p # q,
         mailReq'[p].op = "add", mailReq'[q].op \in {"add", "delete"}
  PROVE  mailReq[p].op = "add" /\ mailReq[q].op \in {"add", "delete"}
<1>0. mailReq \in [AddressRequests -> AddressCalls]
  BY DEF AddressTypes
<1>1. ASSUME NEW c \in AddressRequests, mailReq'[c].op \in {"add", "delete"}, ~Opened(c)
      PROVE  mailReq'[c].op = mailReq[c].op
  <2>1. CASE Addresses!FindSession(c)
    BY <1>1, <2>1, FindStep DEF Addresses!Done, Addresses!Idle
  <2>2. CASE Addresses!ReplaceSession(c) \/ Addresses!SendMail(c) \/ Addresses!Bind(c)
    BY <2>2, GoesFields DEF Addresses!ReplaceSession, Addresses!SendMail, Addresses!Bind
  <2>5. CASE Addresses!InsertSession(c)
    <3>1. mailReq'[c] = [mailReq[c] EXCEPT !.at = "mail", !.session = c]
      BY <1>0, <2>5 DEF Addresses!InsertSession
    <3>. QED
      BY <1>0, <3>1, CallFields
  <2>3. CASE Addresses!CheckBinding(c)
    <3>1. mailReq'[c] = Addresses!Done \/ mailReq'[c] = [mailReq[c] EXCEPT !.at = "bind"]
      BY <1>0, <2>3 DEF Addresses!CheckBinding, Addresses!Goes, Addresses!Ends
    <3>2. CASE mailReq'[c] = [mailReq[c] EXCEPT !.at = "bind"]
      BY <1>0, <3>2, CallFields
    <3>. QED
      BY <1>1, <3>1, <3>2 DEF Addresses!Done, Addresses!Idle
  <2>4. CASE Addresses!MailFails(c) \/ Addresses!AnswerSid(c) \/ Addresses!Validate(c)
             \/ Addresses!DropSession(c) \/ Addresses!Unbind(c) \/ Addresses!Stop(c)
    BY <1>0, <1>1, <2>4 DEF Addresses!MailFails, Addresses!AnswerSid, Addresses!Validate,
       Addresses!DropSession, Addresses!Unbind, Addresses!Stop, Addresses!Ends, Addresses!Done,
       Addresses!Idle
  <2>. QED
    BY <1>1, <2>1, <2>2, <2>3, <2>4, <2>5, CallStep DEF Opened
<1>2. ASSUME NEW c \in AddressRequests, NEW d \in AddressRequests, c # d, Opened(c),
             "add" \in {mailReq'[c].op, mailReq'[d].op},
             {mailReq'[c].op, mailReq'[d].op} \subseteq {"add", "delete"}
      PROVE  FALSE
  <2>1. PICK u \in Owners : Opening(c, u)
    BY <1>2 DEF Opened
  <2>2. PICK r \in AddressCalls : Addresses!Open(c, r)
    BY <2>1, OpensOwn
  <2>3. mailReq'[c] = r /\ mailReq'[d] = mailReq[d]
    BY <1>0, <1>2, <2>2 DEF Addresses!Open
  <2>. QED
    BY <1>2, <2>2, <2>3 DEF Addresses!Open
<1>. QED
  BY <1>1, <1>2

LEMMA MetStays ==
  ASSUME [Addresses!ThreepidsNext]_(Addresses!threepidVars), mailMet
  PROVE  mailMet'
<1>1. ASSUME NEW q \in AddressRequests, NEW u \in Owners, Opening(q, u) PROVE mailMet'
  BY <1>1, Zenon DEF Opening, Addresses!SubmitToken, Addresses!Add, Addresses!Delete,
     Addresses!RequestToken, Addresses!Open
<1>. QED
  BY <1>1, NextIsAddressStep
  DEF AddressStep, Addresses!Expire, Addresses!threepidVars, Addresses!FindSession,
      Addresses!ReplaceSession, Addresses!InsertSession, Addresses!SendMail, Addresses!MailFails,
      Addresses!AnswerSid, Addresses!Validate, Addresses!CheckBinding, Addresses!Bind,
          Addresses!DropSession, Addresses!Unbind, Addresses!Stop

LEMMA NewIsOpened ==
  ASSUME AddressTypes, CallOps, [Addresses!ThreepidsNext]_(Addresses!threepidVars),
         NEW q \in AddressRequests, mailReq[q].at = "new", mailReq'[q] # mailReq[q],
         mailReq'[q] # Addresses!Done
  PROVE  Opened(q)
BY CallStep DEF Opened, Addresses!FindSession, Addresses!ReplaceSession, Addresses!InsertSession,
   Addresses!SendMail, Addresses!CheckBinding, Addresses!Bind, Addresses!At, Addresses!MailFails,
   Addresses!AnswerSid, Addresses!Validate, Addresses!DropSession, Addresses!Unbind,
   Addresses!Stop, Addresses!Begun, CallOps

LEMMA NextBindInv ==
  AddressTypes /\ CallOps /\ OwnInv /\ BindInv
      /\ [Addresses!ThreepidsNext]_(Addresses!threepidVars) => BindInv'
<1>. SUFFICES ASSUME AddressTypes, CallOps, OwnInv, BindInv,
                     [Addresses!ThreepidsNext]_(Addresses!threepidVars)
              PROVE  BindInv'
  OBVIOUS
<1>0. mailReq \in [AddressRequests -> AddressCalls] /\ NoOwner \notin Owners
      /\ added \subseteq Owners
  BY AddressAssumption DEF AddressTypes
<1>1. bound' \in {NoOwner} \cup proved'
  BY BoundMoves, ProvedGrows DEF BindInv, Addresses!Bind, Addresses!At, AddSteps
<1>2. ASSUME NEW q \in AddressRequests, mailReq'[q].at \in AddSteps
      PROVE  mailReq'[q].user \in proved'
  <2>1. CASE mailReq[q].at \in AddSteps /\ mailReq'[q].user = mailReq[q].user
    BY <2>1, ProvedGrows DEF BindInv
  <2>2. ASSUME NEW u \in Owners, Opening(q, u) PROVE mailReq'[q].user \in proved'
    <3>1. PICK r \in AddressCalls :
            /\ Addresses!Open(q, r) /\ r.user = u
            /\ r.at = "binding" => \E s \in sessions : s.id = sid[u] /\ s.validated
            /\ r.at \in {"find", "delete", "validate", "binding"}
      BY <2>2, OpensOwn
    <3>2. mailReq'[q] = r
      BY <1>0, <3>1 DEF Addresses!Open
    <3>3. PICK s \in sessions : s.id = sid[u] /\ s.validated
      BY <1>2, <3>1, <3>2 DEF AddSteps
    <3>. QED
      BY <3>1, <3>2, <3>3, ProvedGrows DEF OwnInv
  <2>3. ~Opened(q) => mailReq[q].at \in AddSteps /\ mailReq'[q].user = mailReq[q].user
    BY <1>2, CallMoves, NewIsOpened DEF AddSteps, Addresses!FindSession, Addresses!ReplaceSession,
       Addresses!InsertSession, Addresses!SendMail, Addresses!CheckBinding, Addresses!Bind,
       Addresses!At, Addresses!Done, Addresses!Idle
  <2>. QED
    BY <2>1, <2>2, <2>3 DEF Opened
<1>3. ASSUME ~mailMet', NEW p \in AddressRequests, NEW q \in AddressRequests, p # q,
             mailReq'[p].op = "add"
      PROVE  mailReq'[q].op \notin {"add", "delete"}
  <2>1. ~mailMet
    BY <1>3, MetStays
  <2>. QED
    BY <1>3, <2>1, OpensMet DEF BindInv
<1>4. ASSUME ~mailMet' PROVE \A u \in added' : bound' = u
  <2>0. ~mailMet
    BY <1>4, MetStays
  <2>1. ASSUME NEW q \in AddressRequests, Addresses!Bind(q), bound' = mailReq[q].user,
               added' = added
        PROVE  \A u \in added' : bound' = u
    BY <1>0, <2>0, <2>1 DEF BindInv, Addresses!Bind, Addresses!At
  <2>2. ASSUME NEW q \in AddressRequests, Addresses!DropSession(q), bound' = bound,
               added' = added \cup {mailReq[q].user}
        PROVE  \A u \in added' : bound' = u
    BY <2>0, <2>2 DEF BindInv, Addresses!DropSession, Addresses!At
  <2>3. ASSUME NEW q \in AddressRequests, added' = added \ {mailReq[q].user},
               bound' = IF bound = mailReq[q].user THEN NoOwner ELSE bound
        PROVE  \A u \in added' : bound' = u
    BY <2>0, <2>3 DEF BindInv
  <2>. QED
    BY <2>0, <2>1, <2>2, <2>3, BoundMoves DEF BindInv
<1>5. ASSUME ~mailMet', NEW q \in AddressRequests
      PROVE  /\ mailReq'[q].at = "bind" => bound' \in {NoOwner, mailReq'[q].user}
             /\ mailReq'[q].at = "finish" => bound' = mailReq'[q].user
  <2>0. ~mailMet
    BY <1>5, MetStays
  <2>1. CASE mailReq'[q] = mailReq[q]
    <3>1. ASSUME mailReq[q].at \in {"bind", "finish"}, NEW p \in AddressRequests,
                 Addresses!Bind(p) \/ Addresses!Unbind(p), p # q
          PROVE  FALSE
      BY <2>0, <3>1 DEF BindInv, CallOps, AddSteps, Addresses!Bind, Addresses!Unbind, Addresses!At
    <3>2. ASSUME Addresses!Bind(q) PROVE mailReq'[q] # mailReq[q]
      BY <3>2, GoesFields DEF Addresses!Bind, Addresses!At
    <3>3. ASSUME Addresses!Unbind(q) PROVE mailReq'[q] # mailReq[q]
      BY <1>0, <3>3 DEF Addresses!Unbind, Addresses!At, Addresses!Ends, Addresses!Done,
         Addresses!Idle
    <3>. QED
      BY <2>0, <2>1, <3>1, <3>2, <3>3, BoundMoves DEF BindInv
  <2>2. CASE Addresses!CheckBinding(q) /\ bound \in {NoOwner, mailReq[q].user}
    <3>1. mailReq'[q].at = "bind" /\ mailReq'[q].user = mailReq[q].user /\ bound' = bound
      BY <2>2, GoesFields DEF Addresses!CheckBinding
    <3>. QED
      BY <2>2, <3>1
  <2>3. CASE Addresses!Bind(q)
    <3>1. mailReq'[q].at = "finish" /\ mailReq'[q].user = mailReq[q].user
          /\ bound' = mailReq[q].user
      BY <2>3, GoesFields DEF Addresses!Bind
    <3>. QED
      BY <3>1
  <2>. QED
    BY <2>1, <2>2, <2>3, CallMoves DEF Addresses!Done, Addresses!Idle
<1>. QED
  BY <1>1, <1>2, <1>3, <1>4, <1>5 DEF BindInv

LEMMA RowsStay ==
  ASSUME AddressTypes, [Addresses!ThreepidsNext]_(Addresses!threepidVars), NEW r \in sessions
  PROVE  r.id \in ended' \/ \E s \in sessions' : s.id = r.id
<1>1. r \in SessionRows
  BY DEF AddressTypes
<1>2. CASE \E q \in AddressRequests : Addresses!Validate(q)
  <2>1. PICK q \in AddressRequests : Addresses!Validate(q)
    BY <1>2
  <2>. DEFINE s == IF r.id = mailReq[q].session THEN [r EXCEPT !.validated = TRUE] ELSE r
  <2>2. s \in sessions'
    BY <2>1 DEF Addresses!Validate
  <2>3. s.id = r.id
    BY <1>1 DEF SessionRows
  <2>. QED
    BY <2>2, <2>3
<1>3. ASSUME NEW q \in AddressRequests, Addresses!ReplaceSession(q) \/ Addresses!MailFails(q)
             \/ Addresses!DropSession(q)
      PROVE  r.id \in ended' \/ r \in sessions'
  BY <1>3 DEF Addresses!ReplaceSession, Addresses!MailFails, Addresses!DropSession, Addresses!RowOf
<1>. QED
  BY <1>2, <1>3, NextIsAddressStep, OpeningKeeps
  DEF AddressStep, Addresses!Expire, Addresses!threepidVars, Addresses!FindSession,
      Addresses!InsertSession, Addresses!SendMail, Addresses!AnswerSid, Addresses!CheckBinding,
          Addresses!Bind,
      Addresses!Unbind, Addresses!Stop

LEMMA MailedGrow ==
  ASSUME [Addresses!ThreepidsNext]_(Addresses!threepidVars)
  PROVE  mailed \subseteq mailed' /\ ended \subseteq ended'
BY NextIsAddressStep, OpeningKeeps
DEF AddressStep, Addresses!Expire, Addresses!threepidVars, Addresses!FindSession,
    Addresses!ReplaceSession, Addresses!InsertSession, Addresses!SendMail, Addresses!MailFails,
    Addresses!AnswerSid, Addresses!Validate, Addresses!CheckBinding, Addresses!Bind,
        Addresses!DropSession, Addresses!Unbind, Addresses!Stop

LEMMA MailEnds ==
  ASSUME AddressTypes, CallOps, [Addresses!ThreepidsNext]_(Addresses!threepidVars),
         NEW q \in AddressRequests, mailReq[q].at = "mail"
  PROVE  mailReq'[q].at = "mail" \/ q \in mailed' \/ q \in ended'
<1>1. CASE Addresses!SendMail(q) \/ Addresses!MailFails(q) \/ Addresses!Stop(q)
  BY <1>1 DEF Addresses!SendMail, Addresses!MailFails, Addresses!Stop
<1>2. ASSUME NEW u \in Owners, Opening(q, u) PROVE FALSE
  <2>1. mailReq[q].op = "none"
    BY <1>2, Zenon DEF Opening, Addresses!SubmitToken, Addresses!Add, Addresses!Delete,
       Addresses!RequestToken, Addresses!Open, Addresses!Begun
  <2>. QED
    BY <2>1, SMTT(20) DEF CallOps
<1>. QED
  BY <1>1, <1>2, CallStep
  DEF Addresses!FindSession, Addresses!ReplaceSession, Addresses!InsertSession,
      Addresses!AnswerSid, Addresses!Validate, Addresses!CheckBinding, Addresses!Bind,
          Addresses!DropSession, Addresses!Unbind, Addresses!At

LEMMA ServedStays ==
  ASSUME AddressTypes, CallOps, [Addresses!ThreepidsNext]_(Addresses!threepidVars), NEW s \in Nat,
         Served(s)
  PROVE  Served(s)'
<1>1. CASE s \in ended
  BY <1>1, MailedGrow DEF Served
<1>2. ASSUME s \notin ended' PROVE Addresses!RowOf(s)' # {}
  <2>1. PICK r \in sessions : r.id = s
    BY <1>2, MailedGrow DEF Served, Addresses!RowOf
  <2>2. PICK t \in sessions' : t.id = s
    BY <1>2, <2>1, RowsStay
  <2>. QED
    BY <2>2 DEF Addresses!RowOf
<1>3. ASSUME s \notin ended'
      PROVE  (s \in mailed \/ (s \in AddressRequests /\ mailReq[s].at = "mail"))'
  BY <1>3, MailedGrow, MailEnds DEF Served
<1>. QED
  BY <1>1, <1>2, <1>3 DEF Served

LEMMA NextMailInv ==
  AddressTypes /\ CallOps /\ MailInv /\ [Addresses!ThreepidsNext]_(Addresses!threepidVars)
      => MailInv'
<1>. SUFFICES ASSUME AddressTypes, CallOps, MailInv,
                     [Addresses!ThreepidsNext]_(Addresses!threepidVars)
              PROVE  MailInv'
  OBVIOUS
<1>0. /\ \A s \in sessions : s.id \in Nat
      /\ \A u \in Owners : sid[u] \in Nat
      /\ \A q \in AddressRequests : q \in Nat /\ mailReq[q].session \in Nat
  BY AddressAssumption DEF AddressTypes, SessionRows, AddressCalls
<1>1. ASSUME NEW q \in AddressRequests, Addresses!InsertSession(q)
      PROVE  Served(q)' /\ mailReq'[q].at = "mail"
  <2>1. mailReq'[q] = [mailReq[q] EXCEPT !.at = "mail", !.session = q]
        /\ mailReq[q] \in AddressCalls
    BY <1>1 DEF Addresses!InsertSession, AddressTypes
  <2>2. mailReq'[q].at = "mail"
    BY <2>1, CallFields
  <2>3. [id |-> q, secret |-> mailReq[q].user, attempt |-> mailReq[q].attempt,
        validated |-> FALSE] \in Addresses!RowOf(q)'
    BY <1>1 DEF Addresses!InsertSession, Addresses!RowOf
  <2>. QED
    BY <2>2, <2>3 DEF Served
<1>2. ASSUME NEW s \in sessions' PROVE Served(s.id)'
  BY <1>0, <1>1, <1>2, RowMoves, ServedStays DEF MailInv
<1>3. ASSUME NEW u \in Owners, sid'[u] # Addresses!NoSession PROVE Served(sid[u])'
  BY <1>0, <1>3, SidMoves, ServedStays DEF MailInv, Addresses!AnswerSid, Addresses!At
<1>4. ASSUME NEW q \in AddressRequests, mailReq'[q].at = "answer" PROVE Served(mailReq[q].session)'
  <2>1. CASE mailReq'[q] = mailReq[q]
    BY <1>0, <1>4, <2>1, ServedStays DEF MailInv
  <2>2. ASSUME NEW s \in sessions, mailReq'[q].session = s.id PROVE Served(mailReq[q].session)'
    BY <1>0, <2>2, ServedStays DEF MailInv
  <2>3. ASSUME Addresses!SendMail(q), mailReq'[q].session = mailReq[q].session
        PROVE  Served(mailReq[q].session)'
    BY <1>0, <2>3, ServedStays DEF MailInv, Addresses!SendMail, Addresses!At, CallOps
  <2>. QED
    BY <1>4, <2>1, <2>2, <2>3, CallMoves DEF Addresses!Done, Addresses!Idle
<1>5. ASSUME NEW q \in AddressRequests, mailReq'[q].at = "mail" PROVE Served(q)'
  BY <1>0, <1>1, <1>5, CallMoves, ServedStays DEF MailInv, Addresses!Done, Addresses!Idle
<1>. QED
  BY <1>2, <1>3, <1>4, <1>5 DEF MailInv

LEMMA AddressInvariance == Addresses!ThreepidsSpec => []AddressInv
<1>1. AddressInv /\ [Addresses!ThreepidsNext]_(Addresses!threepidVars) => AddressInv'
  BY NextAddressTypes, NextCallOps, NextOwnInv, NextNewIdInv, NextBindInv, NextMailInv DEF
     AddressInv
<1>. QED
  BY InitAddressInv, <1>1, PTL DEF Addresses!ThreepidsSpec

LEMMA InvAddressesSound == AddressInv => Addresses!AddressesSound
<1>. SUFFICES ASSUME AddressInv PROVE Addresses!AddressesSound
  OBVIOUS
<1>1. Addresses!AddressesKept /\ Addresses!AddressesProved
  BY DEF AddressInv, BindInv, Addresses!AddressesKept, Addresses!AddressesProved
<1>2. Addresses!SessionsUsable
  BY DEF AddressInv, MailInv, Served, OwnInv, CallOps, Addresses!SessionsUsable, Addresses!RowOf
<1>. QED
  BY <1>1, <1>2 DEF Addresses!AddressesSound

LEMMA AddressRuns == ServicesSpec => Addresses!ThreepidsSpec
<1>1. ServicesInit => Addresses!ThreepidsInit
  BY DEF ServicesInit
<1>2. [ServicesNext]_servicesVars => [Addresses!ThreepidsNext]_(Addresses!threepidVars)
  BY DEF ServicesNext, servicesVars, addressVars, Addresses!threepidVars
<1>. QED
  BY <1>1, <1>2, PTL DEF ServicesSpec, Addresses!ThreepidsSpec

(* An address is the user's who submitted the code of its mail, and a client's session stays usable
   (account.ts, email.ts). *)
THEOREM AddressesAreProved == ServicesSpec => []AddressesSound
<1>1. Addresses!AddressesSound => AddressesSound
  BY DEF AddressesSound
<1>. QED
  BY AddressRuns, AddressInvariance, InvAddressesSound, <1>1, PTL

-----------------------------------------------------------------------------
(* Files: FileInv says whose content, row and thumbnail there are, while requests that write do not overlap. *)

(* What a request may still have to do. *)
FileOps == {"none", "create", "upload", "fill", "delete", "read"}
FileSteps ==
  {"insertPlaceholder", "checkRow", "putObject", "insertRow", "updateRow", "selectRow", "dropObject", "dropRow",
   "getObject", "getRow", "getType", "getThumb", "getOriginal", "resize", "putThumb"}
FileCalls == [op : FileOps, todo : Seq(FileSteps), seen : FileRequests \cup {0}, alone : BOOLEAN]

FileTodos ==
  [none   |-> {<<>>},
   create |-> {<<>>, <<"insertPlaceholder">>},
   upload |-> {<<>>, Files!Upload, <<"insertRow">>},
   fill   |-> {<<>>, Files!Filling, <<"putObject", "updateRow">>, <<"updateRow">>},
   delete |-> {<<>>, Files!Purge, Files!Deletion, <<"dropRow">>},
   read   |-> {<<>>, Files!Download, <<"getRow">>, Files!Thumbnail, Files!FederationThumbnail,
               <<"getThumb", "getOriginal", "resize", "putThumb">>, <<"getOriginal", "resize", "putThumb">>,
               <<"resize", "putThumb">>, <<"putThumb">>, <<"getThumb", "getOriginal">>, <<"getOriginal">>}]

MediaTypes ==
  /\ fileReq \in [FileRequests -> FileCalls] /\ \A q \in FileRequests : fileReq[q].todo \in FileTodos[fileReq[q].op]
  /\ object \in FileRequests \cup {0} /\ thumb \in FileRequests \cup {0} /\ empty \subseteq FileRequests
  /\ answered \in FileRequests \cup {0} /\ gone \in BOOLEAN /\ fileMet \in BOOLEAN
  /\ fileRow.there \in BOOLEAN /\ fileRow.type \in FileRequests \cup {0} /\ (~fileRow.there => fileRow = Files!NoRow)

Filled(q) == fileReq[q].todo = <<"updateRow">>
Writing(q) == Files!IsOpen(q) /\ fileReq[q].op \in Files!Writers

(* Until the id is known there is one request. *)
FirstInv ==
  ~Files!Known =>
    /\ \A p, q \in FileRequests : Files!Begun(p) /\ Files!Begun(q) => p = q
    /\ \A q \in FileRequests : /\ fileReq[q].op \in {"none", "create", "upload"}
                               /\ fileReq[q].op = "create" => object = 0
                               /\ fileReq[q].todo = <<"insertRow">> => object = q
    /\ answered = 0 /\ thumb = 0 /\ given = {}
UploadInv ==
  Files!Known => /\ \A q \in FileRequests : fileReq[q].op \in {"create", "upload"} => ~Files!IsOpen(q)
                 /\ \E q \in FileRequests : Files!Begun(q)

(* Requests that write do not overlap, and a reader on its own meets none. *)
FileAloneInv ==
  /\ ~fileMet => \A p, q \in FileRequests : Writing(p) /\ Writing(q) => p = q
  /\ \A p, q \in FileRequests : fileReq[p].op = "read" /\ Files!IsOpen(p) /\ fileReq[p].alone => ~Writing(q)

(* A filling beyond its check has the row of a placeholder. *)
FillInv ==
  ~fileMet => \A q \in FileRequests :
    /\ fileReq[q].todo \in {<<"putObject", "updateRow">>, <<"updateRow">>} => fileRow.there /\ answered = 0
    /\ Filled(q) => object = q
    /\ fileReq[q].todo \in {<<"dropRow">>} => object = 0

(* The one content that is not empty. *)
Content(c) == c \notin empty /\ c # 0 /\ (c = answered \/ (c \in FileRequests /\ Filled(c)))

ContentInv ==
  ~fileMet =>
    /\ answered # 0 /\ fileRow.there => fileRow.full
    /\ answered # 0 => answered \notin empty
    /\ Files!Known => \/ object = 0
                      \/ (object \in empty \/ Content(object))
                         /\ ((fileRow.there /\ fileRow.type = object) \/ Filled(object))
    /\ gone => object = 0 /\ fileRow = Files!NoRow
    /\ answered # 0 /\ ~Files!Deleting => object = answered /\ fileRow.type = answered

ReadInv ==
  ~fileMet =>
    /\ thumb # 0 => Content(thumb)
    /\ \A q \in FileRequests : fileReq[q].todo = <<"putThumb">> => Content(fileReq[q].seen)
    /\ \A q \in FileRequests : fileReq[q].todo = <<"getRow">> /\ fileReq[q].alone =>
         fileRow.there /\ fileRow.type = fileReq[q].seen /\ (fileReq[q].seen \in empty \/ Content(fileReq[q].seen))
    /\ \A g \in given : g[2] = g[1] /\ (g[1] \in empty \/ Content(g[1]))

(* A content is named by a request that has begun. *)
NamesInv ==
  \A c \in empty \cup {object, answered} : c # 0 => c \in FileRequests /\ Files!Begun(c)

FileInv ==
  MediaTypes /\ FirstInv /\ UploadInv /\ FileAloneInv /\ FillInv /\ ContentInv /\ ReadInv /\ NamesInv

LEMMA TailsOfTodos ==
  /\ Tail(Files!Upload) = <<"insertRow">> /\ Tail(Files!Filling) = <<"putObject", "updateRow">>
  /\ Tail(<<"putObject", "updateRow">>) = <<"updateRow">> /\ Tail(Files!Deletion) = <<"dropRow">>
  /\ Tail(Files!Purge) = Files!Deletion /\ Tail(Files!Download) = <<"getRow">>
  /\ Tail(Files!Thumbnail) = <<"getThumb", "getOriginal", "resize", "putThumb">>
  /\ Tail(<<"getThumb", "getOriginal", "resize", "putThumb">>) = <<"getOriginal", "resize", "putThumb">>
  /\ Tail(<<"getOriginal", "resize", "putThumb">>) = <<"resize", "putThumb">>
  /\ Tail(<<"resize", "putThumb">>) = <<"putThumb">>
  /\ Tail(Files!FederationThumbnail) = <<"getThumb", "getOriginal">>
  /\ Tail(<<"getThumb", "getOriginal">>) = <<"getOriginal">>
  /\ Tail(<<"insertPlaceholder">>) = <<>> /\ Tail(<<"insertRow">>) = <<>> /\ Tail(<<"updateRow">>) = <<>>
  /\ Tail(<<"dropRow">>) = <<>> /\ Tail(<<"getRow">>) = <<>> /\ Tail(<<"getOriginal">>) = <<>>
  /\ Tail(<<"putThumb">>) = <<>>
BY DEF Files!Upload, Files!Filling, Files!Deletion, Files!Purge, Files!Download, Files!Thumbnail,
       Files!FederationThumbnail

(* Where a request is by its next step. *)
LEMMA AtIs ==
  ASSUME MediaTypes, NEW q \in FileRequests, NEW s, Files!At(q, s)
  PROVE  /\ s = "insertPlaceholder" => fileReq[q].op = "create" /\ fileReq[q].todo = <<"insertPlaceholder">>
         /\ s = "checkRow" => fileReq[q].op = "fill" /\ fileReq[q].todo = Files!Filling
         /\ s = "putObject" => \/ fileReq[q].op = "upload" /\ fileReq[q].todo = Files!Upload
                               \/ fileReq[q].op = "fill" /\ fileReq[q].todo = <<"putObject", "updateRow">>
         /\ s = "insertRow" => fileReq[q].op = "upload" /\ fileReq[q].todo = <<"insertRow">>
         /\ s = "updateRow" => fileReq[q].op = "fill" /\ fileReq[q].todo = <<"updateRow">>
         /\ s = "selectRow" => fileReq[q].op = "delete" /\ fileReq[q].todo = Files!Purge
         /\ s = "dropObject" => fileReq[q].op = "delete" /\ fileReq[q].todo = Files!Deletion
         /\ s = "dropRow" => fileReq[q].op = "delete" /\ fileReq[q].todo = <<"dropRow">>
         /\ s = "getObject" => fileReq[q].op = "read" /\ fileReq[q].todo = Files!Download
         /\ s = "getRow" => fileReq[q].op = "read" /\ fileReq[q].todo = <<"getRow">>
         /\ s = "getType" => fileReq[q].op = "read" /\ fileReq[q].todo \in {Files!Thumbnail,
            Files!FederationThumbnail}
         /\ s = "getThumb" => /\ fileReq[q].op = "read"
                              /\ fileReq[q].todo \in {<<"getThumb", "getOriginal", "resize", "putThumb">>,
                                                  <<"getThumb", "getOriginal">>}
         /\ s = "getOriginal" => /\ fileReq[q].op = "read"
                                 /\ fileReq[q].todo \in {<<"getOriginal", "resize", "putThumb">>, <<"getOriginal">>}
         /\ s = "resize" => fileReq[q].op = "read" /\ fileReq[q].todo = <<"resize", "putThumb">>
         /\ s = "putThumb" => fileReq[q].op = "read" /\ fileReq[q].todo = <<"putThumb">>
<1>. DEFINE o == fileReq[q].op
            d == fileReq[q].todo
<1>1. o \in FileOps /\ d \in FileTodos[o] /\ d # <<>> /\ s = Head(d)
  BY DEF MediaTypes, FileCalls, Files!At, Files!IsOpen
<1>2. CASE o \in {"none", "create"}
  BY <1>1, <1>2 DEF FileTodos
<1>3. CASE o = "upload"
  BY <1>1, <1>3 DEF FileTodos, Files!Upload
<1>4. CASE o = "fill"
  BY <1>1, <1>4 DEF FileTodos, Files!Filling
<1>5. CASE o = "delete"
  BY <1>1, <1>5 DEF FileTodos, Files!Purge, Files!Deletion
<1>6. CASE o = "read"
  BY <1>1, <1>6 DEF FileTodos, Files!Download, Files!Thumbnail, Files!FederationThumbnail
<1>. QED
  BY <1>1, <1>2, <1>3, <1>4, <1>5, <1>6 DEF FileOps

(* What a step does to its request; the others stay as they are. *)
OthersStay(q) == \A p \in FileRequests \ {q} : fileReq'[p] = fileReq[p]

LEMMA FileFields ==
  ASSUME NEW r \in FileCalls, NEW t \in Seq(FileSteps), NEW c \in FileRequests \cup {0}
  PROVE  /\ [r EXCEPT !.todo = t] \in FileCalls /\ [r EXCEPT !.todo = t, !.seen = c] \in FileCalls
         /\ [r EXCEPT !.todo = t].op = r.op /\ [r EXCEPT !.todo = t, !.seen = c].op = r.op
         /\ [r EXCEPT !.todo = t].todo = t /\ [r EXCEPT !.todo = t, !.seen = c].todo = t
         /\ [r EXCEPT !.todo = t].seen = r.seen /\ [r EXCEPT !.todo = t, !.seen = c].seen = c
         /\ [r EXCEPT !.todo = t].alone = r.alone /\ [r EXCEPT !.todo = t, !.seen = c].alone = r.alone
BY DEF FileCalls

LEMMA DoneFields ==
  ASSUME NEW r \in FileCalls
  PROVE  /\ Files!Done(r) \in FileCalls /\ Files!Done(r).op = r.op /\ Files!Done(r).todo = <<>>
            /\ Files!Done(r).seen = 0
         /\ Files!Done(r).alone = TRUE
<1>1. <<>> \in Seq(FileSteps)
  OBVIOUS
<1>. QED
  BY <1>1 DEF Files!Done, Files!Idle, FileCalls, FileOps

LEMMA EndsMoves ==
  ASSUME MediaTypes, NEW q \in FileRequests, Files!Ends(q)
  PROVE  /\ fileReq' \in [FileRequests -> FileCalls] /\ OthersStay(q)
         /\ fileReq'[q].op = fileReq[q].op /\ fileReq'[q].todo = <<>> /\ fileReq'[q].alone
<1>1. fileReq[q] \in FileCalls /\ fileReq' = [fileReq EXCEPT ![q] = Files!Done(fileReq[q])]
        /\ fileReq \in [FileRequests -> FileCalls]
  BY DEF MediaTypes, Files!Ends
<1>2. Files!Done(fileReq[q]) \in FileCalls
  BY <1>1, DoneFields
<1>3. fileReq'[q] = Files!Done(fileReq[q]) /\ OthersStay(q) /\ fileReq' \in [FileRequests -> FileCalls]
  BY <1>1, <1>2 DEF OthersStay
<1>. QED
  BY <1>1, <1>3, DoneFields

LEMMA GoesMoves ==
  ASSUME MediaTypes, NEW q \in FileRequests, NEW r \in FileCalls, r.op = fileReq[q].op, Files!Goes(q, r)
  PROVE  /\ fileReq' \in [FileRequests -> FileCalls] /\ OthersStay(q)
         /\ fileReq'[q].op = fileReq[q].op /\ fileReq'[q].todo = r.todo
         /\ r.todo # <<>> => fileReq'[q].seen = r.seen /\ fileReq'[q].alone = r.alone
<1>1. fileReq[q] \in FileCalls /\ fileReq \in [FileRequests -> FileCalls]
  BY DEF MediaTypes
<1>2. CASE r.todo # <<>>
  <2>1. fileReq' = [fileReq EXCEPT ![q] = r]
    BY <1>2 DEF Files!Goes
  <2>2. fileReq'[q] = r /\ OthersStay(q) /\ fileReq' \in [FileRequests -> FileCalls]
    BY <1>1, <2>1 DEF OthersStay
  <2>. QED
    BY <2>2
<1>3. CASE r.todo = <<>>
  <2>1. fileReq' = [fileReq EXCEPT ![q] = Files!Done(r)]
    BY <1>3 DEF Files!Goes
  <2>2. Files!Done(r) \in FileCalls
    BY DoneFields
  <2>3. fileReq'[q] = Files!Done(r) /\ OthersStay(q) /\ fileReq' \in [FileRequests -> FileCalls]
    BY <1>1, <2>1, <2>2 DEF OthersStay
  <2>. QED
    BY <1>3, <2>3, DoneFields
<1>. QED
  BY <1>2, <1>3

LEMMA TodoTail ==
  ASSUME MediaTypes, NEW q \in FileRequests, Files!IsOpen(q)
  PROVE  fileReq[q] \in FileCalls /\ Tail(fileReq[q].todo) \in Seq(FileSteps)
           /\ fileReq[q].seen \in FileRequests \cup {0}
<1>1. fileReq[q] \in FileCalls
  BY DEF MediaTypes
<1>2. fileReq[q].todo \in Seq(FileSteps) /\ fileReq[q].todo # <<>> /\ fileReq[q].seen \in FileRequests \cup {0}
  BY <1>1 DEF FileCalls, Files!IsOpen
<1>3. ASSUME NEW s \in Seq(FileSteps), s # <<>> PROVE Tail(s) \in Seq(FileSteps)
  BY <1>3
<1>. QED
  BY <1>1, <1>2, <1>3

LEMMA RanMoves ==
  ASSUME MediaTypes, NEW q \in FileRequests, Files!IsOpen(q), Files!Ran(q)
  PROVE  /\ fileReq' \in [FileRequests -> FileCalls] /\ OthersStay(q)
         /\ fileReq'[q].op = fileReq[q].op /\ fileReq'[q].todo = Tail(fileReq[q].todo)
         /\ fileReq'[q].todo # <<>> => fileReq'[q].seen = fileReq[q].seen /\ fileReq'[q].alone = fileReq[q].alone
<1>1. fileReq[q] \in FileCalls /\ Tail(fileReq[q].todo) \in Seq(FileSteps)
        /\ fileReq[q].seen \in FileRequests \cup {0}
  BY TodoTail
<1>. DEFINE r == [fileReq[q] EXCEPT !.todo = Tail(fileReq[q].todo)]
<1>2. r \in FileCalls /\ r.op = fileReq[q].op /\ r.todo = Tail(fileReq[q].todo) /\ r.seen = fileReq[q].seen
        /\ r.alone = fileReq[q].alone
  BY <1>1, FileFields, Zenon
<1>3. Files!Goes(q, r)
  BY DEF Files!Ran
<1>. HIDE DEF r
<1>. QED
  BY <1>2, <1>3, GoesMoves

LEMMA SeesMoves ==
  ASSUME MediaTypes, NEW q \in FileRequests, Files!IsOpen(q), Tail(fileReq[q].todo) # <<>>,
           NEW c \in FileRequests \cup {0},
         Files!Goes(q, [fileReq[q] EXCEPT !.todo = Tail(@), !.seen = c])
  PROVE  /\ fileReq' \in [FileRequests -> FileCalls] /\ OthersStay(q)
         /\ fileReq'[q].op = fileReq[q].op /\ fileReq'[q].todo = Tail(fileReq[q].todo)
         /\ fileReq'[q].seen = c /\ fileReq'[q].alone = fileReq[q].alone
<1>1. fileReq[q] \in FileCalls /\ Tail(fileReq[q].todo) \in Seq(FileSteps)
  BY TodoTail
<1>. DEFINE t == Tail(fileReq[q].todo)
            r == [fileReq[q] EXCEPT !.todo = t, !.seen = c]
<1>3. Files!Goes(q, r)
  OBVIOUS
<1>2. r \in FileCalls /\ r.op = fileReq[q].op /\ r.todo = t /\ r.seen = c /\ r.alone = fileReq[q].alone
  <2>1. t \in Seq(FileSteps)
    BY <1>1
  <2>. HIDE DEF t
  <2>. QED
    BY <1>1, <2>1 DEF FileCalls
<1>. HIDE DEF r
<1>. QED
  BY <1>2, <1>3, GoesMoves

TodoMoves(q, kind, was, to) ==
  /\ fileReq[q].op = kind /\ fileReq[q].todo = was /\ was # <<>>
  /\ fileReq'[q].op = kind /\ fileReq'[q].todo = to
  /\ OthersStay(q) /\ fileReq' \in [FileRequests -> FileCalls]

LEMMA WriterMoves ==
  ASSUME MediaTypes, NEW q \in FileRequests
  PROVE  /\ Files!InsertPlaceholder(q) => TodoMoves(q, "create", <<"insertPlaceholder">>, <<>>)
         /\ Files!CheckRow(q) => \/ TodoMoves(q, "fill", Files!Filling, <<>>)
                                 \/ fileRow.there /\ ~fileRow.full
                                    /\ TodoMoves(q, "fill", Files!Filling, <<"putObject", "updateRow">>)
         /\ Files!PutObject(q) => \/ TodoMoves(q, "upload", Files!Upload, <<"insertRow">>)
                                  \/ TodoMoves(q, "fill", <<"putObject", "updateRow">>, <<"updateRow">>)
         /\ Files!InsertRow(q) => TodoMoves(q, "upload", <<"insertRow">>, <<>>)
         /\ Files!UpdateRow(q) => TodoMoves(q, "fill", <<"updateRow">>, <<>>)
         /\ Files!SelectRow(q) => \/ fileRow.there /\ TodoMoves(q, "delete", Files!Purge, Files!Deletion)
                                  \/ ~fileRow.there /\ TodoMoves(q, "delete", Files!Purge, <<"dropRow">>)
         /\ Files!DropObject(q) => TodoMoves(q, "delete", Files!Deletion, <<"dropRow">>)
         /\ Files!DropRow(q) => TodoMoves(q, "delete", <<"dropRow">>, <<>>)
         /\ Files!Stop(q) => TodoMoves(q, fileReq[q].op, fileReq[q].todo, <<>>)
<1>1. ASSUME NEW s, NEW kind, NEW was, Files!At(q, s), Files!Ran(q), fileReq[q].op = kind, fileReq[q].todo = was
      PROVE  TodoMoves(q, kind, was, Tail(was))
  BY <1>1, RanMoves DEF TodoMoves, Files!At, Files!IsOpen
<1>2. ASSUME Files!IsOpen(q), Files!Ends(q) PROVE TodoMoves(q, fileReq[q].op, fileReq[q].todo, <<>>)
  BY <1>2, EndsMoves DEF TodoMoves, Files!IsOpen
<1>3. ASSUME Files!InsertPlaceholder(q) PROVE TodoMoves(q, "create", <<"insertPlaceholder">>, <<>>)
  <2>1. Files!At(q, "insertPlaceholder") /\ Files!Ran(q)
    BY <1>3 DEF Files!InsertPlaceholder
  <2>. QED
    BY <1>1, <2>1, AtIs, TailsOfTodos
<1>4. ASSUME Files!PutObject(q) PROVE TodoMoves(q, "upload", Files!Upload, <<"insertRow">>)
        \/ TodoMoves(q, "fill", <<"putObject", "updateRow">>, <<"updateRow">>)
  <2>1. Files!At(q, "putObject") /\ Files!Ran(q)
    BY <1>4 DEF Files!PutObject
  <2>. QED
    BY <1>1, <2>1, AtIs, TailsOfTodos, ZenonT(40)
<1>5. ASSUME Files!InsertRow(q) PROVE TodoMoves(q, "upload", <<"insertRow">>, <<>>)
  <2>1. Files!At(q, "insertRow") /\ Files!Ran(q)
    BY <1>5 DEF Files!InsertRow
  <2>. QED
    BY <1>1, <2>1, AtIs, TailsOfTodos, ZenonT(30)
<1>6. ASSUME Files!UpdateRow(q) PROVE TodoMoves(q, "fill", <<"updateRow">>, <<>>)
  <2>1. Files!At(q, "updateRow") /\ Files!Ran(q)
    BY <1>6 DEF Files!UpdateRow
  <2>. QED
    BY <1>1, <2>1, AtIs, TailsOfTodos, ZenonT(40)
<1>7. ASSUME Files!DropObject(q) PROVE TodoMoves(q, "delete", Files!Deletion, <<"dropRow">>)
  <2>1. Files!At(q, "dropObject") /\ Files!Ran(q)
    BY <1>7 DEF Files!DropObject
  <2>. QED
    BY <1>1, <2>1, AtIs, TailsOfTodos
<1>8. ASSUME Files!DropRow(q) PROVE TodoMoves(q, "delete", <<"dropRow">>, <<>>)
  <2>1. Files!At(q, "dropRow") /\ Files!Ran(q)
    BY <1>8 DEF Files!DropRow
  <2>. QED
    BY <1>1, <2>1, AtIs, TailsOfTodos
<1>9. ASSUME Files!CheckRow(q)
      PROVE  \/ TodoMoves(q, "fill", Files!Filling, <<>>)
             \/ fileRow.there /\ ~fileRow.full /\ TodoMoves(q, "fill", Files!Filling, <<"putObject", "updateRow">>)
  <2>1. Files!At(q, "checkRow") /\ (IF fileRow.there /\ ~fileRow.full THEN Files!Ran(q) ELSE Files!Ends(q))
    BY <1>9 DEF Files!CheckRow, Files!UnlessNone
  <2>2. fileReq[q].op = "fill" /\ fileReq[q].todo = Files!Filling /\ Files!IsOpen(q)
    BY <2>1, AtIs DEF Files!At
  <2>. QED
    BY <1>1, <1>2, <2>1, <2>2, TailsOfTodos
<1>10. ASSUME Files!SelectRow(q)
       PROVE  \/ fileRow.there /\ TodoMoves(q, "delete", Files!Purge, Files!Deletion)
              \/ ~fileRow.there /\ TodoMoves(q, "delete", Files!Purge, <<"dropRow">>)
  <2>1. Files!At(q, "selectRow")
          /\ Files!Goes(q, [fileReq[q] EXCEPT !.todo = IF fileRow.there THEN Tail(@) ELSE Tail(Tail(@))])
    BY <1>10 DEF Files!SelectRow
  <2>2. fileReq[q].op = "delete" /\ fileReq[q].todo = Files!Purge /\ fileReq[q] \in FileCalls
    BY <2>1, AtIs DEF MediaTypes
  <2>. DEFINE to == IF fileRow.there THEN Files!Deletion ELSE <<"dropRow">>
              r == [fileReq[q] EXCEPT !.todo = to]
  <2>3. Files!Goes(q, r)
    BY <2>1, <2>2, TailsOfTodos
  <2>4. to \in Seq(FileSteps) /\ Files!Purge # <<>>
    <3>1. Files!Purge \in Seq(FileSteps) /\ Files!Purge # <<>> /\ Files!Deletion # <<>>
      BY <2>2 DEF FileCalls, Files!Purge, Files!Deletion
    <3>2. ASSUME NEW s \in Seq(FileSteps), s # <<>> PROVE Tail(s) \in Seq(FileSteps)
      BY <3>2
    <3>3. Files!Deletion \in Seq(FileSteps) /\ <<"dropRow">> \in Seq(FileSteps)
      BY <3>1, <3>2, TailsOfTodos
    <3>. QED
      BY <3>1, <3>3
  <2>5. r \in FileCalls /\ r.op = fileReq[q].op /\ r.todo = to
    <3>. HIDE DEF to
    <3>. QED
      BY <2>2, <2>4, FileFields, Zenon
  <2>6. TodoMoves(q, "delete", Files!Purge, to)
    <3>. HIDE DEF r, to
    <3>. QED
      BY <2>2, <2>3, <2>4, <2>5, GoesMoves DEF TodoMoves
  <2>. QED
    BY <2>6
<1>11. ASSUME Files!Stop(q) PROVE TodoMoves(q, fileReq[q].op, fileReq[q].todo, <<>>)
  BY <1>2, <1>11 DEF Files!Stop
<1>. QED
  BY <1>3, <1>4, <1>5, <1>6, <1>7, <1>8, <1>9, <1>10, <1>11

(* What a reader has seen and given. *)
ReadStep(q) ==
  Files!GetObject(q) \/ Files!GetRow(q) \/ Files!GetType(q) \/ Files!GetThumb(q) \/ Files!GetOriginal(q)
      \/ Files!Resize(q) \/ Files!PutThumb(q)

Gave(q, c, type) == fileReq[q].alone /\ given' = given \cup {<<c, type>>}

LEMMA ReadMoves ==
  ASSUME MediaTypes, NEW q \in FileRequests, ReadStep(q)
  PROVE  /\ UNCHANGED <<object, fileRow, answered, gone, empty, fileMet>>
         /\ fileReq[q].op = "read" /\ Files!IsOpen(q) /\ fileReq'[q].op = "read" /\ OthersStay(q)
         /\ fileReq' \in [FileRequests -> FileCalls] /\ fileReq'[q].todo \in FileTodos["read"]
         /\ fileReq'[q].todo # <<>> => fileReq'[q].alone = fileReq[q].alone
         /\ fileReq'[q].todo = <<"getRow">> => object # 0 /\ fileReq'[q].seen = object
         /\ fileReq'[q].todo = <<"putThumb">> => object \notin {0} \cup empty /\ fileReq'[q].seen = object
         /\ thumb' = thumb \/ (fileReq[q].todo = <<"putThumb">> /\ thumb' = fileReq[q].seen)
         /\ \/ given' = given
            \/ fileReq[q].todo = <<"getRow">> /\ Gave(q, fileReq[q].seen, fileRow.type)
            \/ fileReq[q].todo = <<"putThumb">> /\ Gave(q, fileReq[q].seen, fileReq[q].seen)
            \/ thumb # 0 /\ Gave(q, thumb, thumb)
<1>1. ASSUME NEW s, NEW was, Files!At(q, s), Files!Ran(q), fileReq[q].op = "read", fileReq[q].todo = was
      PROVE  TodoMoves(q, "read", was, Tail(was)) /\ (Tail(was) # <<>> => fileReq'[q].alone = fileReq[q].alone)
  BY <1>1, RanMoves DEF TodoMoves, Files!At, Files!IsOpen
<1>2. ASSUME Files!IsOpen(q), Files!Ends(q) PROVE TodoMoves(q, fileReq[q].op, fileReq[q].todo, <<>>)
  BY <1>2, EndsMoves DEF TodoMoves, Files!IsOpen
<1>3. ASSUME NEW was, NEW c \in FileRequests \cup {0}, Files!IsOpen(q), fileReq[q].op = "read", fileReq[q].todo = was,
             Tail(was) # <<>>, Files!Goes(q, [fileReq[q] EXCEPT !.todo = Tail(@), !.seen = c])
      PROVE  TodoMoves(q, "read", was, Tail(was)) /\ fileReq'[q].alone = fileReq[q].alone /\ fileReq'[q].seen = c
  BY <1>3, SeesMoves, Zenon DEF TodoMoves, Files!IsOpen
<1>4. ASSUME Files!GetObject(q)
      PROVE  \/ TodoMoves(q, "read", Files!Download, <<>>)
             \/ TodoMoves(q, "read", Files!Download, <<"getRow">>) /\ fileReq'[q].alone = fileReq[q].alone
                /\ fileReq'[q].seen = object
                /\ object # 0
  <2>1. Files!At(q, "getObject") /\ (IF object = 0 THEN Files!Ends(q) ELSE Files!Goes(q,
          [fileReq[q] EXCEPT !.todo = Tail(@), !.seen = object]))
    BY <1>4 DEF Files!GetObject
  <2>2. fileReq[q].op = "read" /\ fileReq[q].todo = Files!Download /\ Files!IsOpen(q)
          /\ Tail(Files!Download) = <<"getRow">> /\ <<"getRow">> # <<>>
    BY <2>1, AtIs, TailsOfTodos DEF Files!At
  <2>3. object \in FileRequests \cup {0}
    BY DEF MediaTypes
  <2>. QED
    BY <1>2, <1>3, <2>1, <2>2, <2>3, Zenon
<1>5. ASSUME Files!GetRow(q) PROVE TodoMoves(q, "read", <<"getRow">>, <<>>)
  <2>1. Files!At(q, "getRow") /\ Files!Ran(q)
    BY <1>5 DEF Files!GetRow
  <2>. QED
    BY <1>1, <2>1, AtIs, TailsOfTodos
<1>6. ASSUME Files!GetType(q)
      PROVE  \/ TodoMoves(q, "read", fileReq[q].todo, <<>>)
             \/ /\ TodoMoves(q, "read", fileReq[q].todo, Tail(fileReq[q].todo))
                   /\ fileReq'[q].alone = fileReq[q].alone
                /\ fileReq[q].todo \in {Files!Thumbnail, Files!FederationThumbnail}
  <2>1. /\ Files!At(q, "getType")
        /\ IF fileRow.there THEN Files!Goes(q, [fileReq[q] EXCEPT !.todo = Tail(@),
           !.seen = fileRow.type]) ELSE Files!Ends(q)
    BY <1>6 DEF Files!GetType
  <2>2. /\ fileReq[q].op = "read" /\ fileReq[q].todo \in {Files!Thumbnail, Files!FederationThumbnail}
           /\ Files!IsOpen(q)
        /\ Tail(fileReq[q].todo) # <<>> /\ fileRow.type \in FileRequests \cup {0}
    <3>1. fileReq[q].op = "read" /\ fileReq[q].todo \in {Files!Thumbnail, Files!FederationThumbnail}
            /\ Files!IsOpen(q)
      BY <2>1, AtIs DEF Files!At
    <3>2. Tail(Files!Thumbnail) # <<>> /\ Tail(Files!FederationThumbnail) # <<>>
      BY TailsOfTodos
    <3>. QED
      BY <3>1, <3>2 DEF MediaTypes
  <2>. QED
    BY <1>2, <1>3, <2>1, <2>2, Zenon
<1>7. ASSUME Files!GetThumb(q)
      PROVE  \/ TodoMoves(q, "read", fileReq[q].todo, <<>>)
             \/ /\ TodoMoves(q, "read", fileReq[q].todo, Tail(fileReq[q].todo))
                   /\ fileReq'[q].alone = fileReq[q].alone
                /\ fileReq[q].todo \in {<<"getThumb", "getOriginal", "resize", "putThumb">>,
                   <<"getThumb", "getOriginal">>}
  <2>1. Files!At(q, "getThumb") /\ (IF thumb = 0 THEN Files!Ran(q) ELSE Files!Ends(q))
    BY <1>7 DEF Files!GetThumb, Files!UnlessNone
  <2>2. /\ fileReq[q].op = "read" /\ Files!IsOpen(q)
        /\ fileReq[q].todo \in {<<"getThumb", "getOriginal", "resize", "putThumb">>, <<"getThumb", "getOriginal">>}
    BY <2>1, AtIs DEF Files!At
  <2>3. Tail(fileReq[q].todo) # <<>>
    <3>1. <<"getOriginal", "resize", "putThumb">> # <<>> /\ <<"getOriginal">> # <<>>
      OBVIOUS
    <3>. QED
      BY <2>2, <3>1, TailsOfTodos
  <2>. QED
    BY <1>1, <1>2, <2>1, <2>2, <2>3
<1>8. ASSUME Files!GetOriginal(q)
      PROVE  \/ TodoMoves(q, "read", fileReq[q].todo, <<>>)
             \/ /\ TodoMoves(q, "read", fileReq[q].todo, <<"resize", "putThumb">>)
                   /\ fileReq'[q].alone = fileReq[q].alone
  <2>1. Files!At(q, "getOriginal") /\ (Files!Ran(q) \/ Files!Ends(q))
    BY <1>8 DEF Files!GetOriginal, Files!UnlessNone
  <2>2. /\ fileReq[q].op = "read" /\ Files!IsOpen(q)
        /\ fileReq[q].todo \in {<<"getOriginal", "resize", "putThumb">>, <<"getOriginal">>}
    BY <2>1, AtIs DEF Files!At
  <2>3. Tail(fileReq[q].todo) \in {<<>>, <<"resize", "putThumb">>}
    BY <2>2, TailsOfTodos
  <2>. QED
    BY <1>1, <1>2, <2>1, <2>2, <2>3
<1>9. ASSUME Files!Resize(q)
      PROVE  \/ TodoMoves(q, "read", <<"resize", "putThumb">>, <<>>)
             \/ /\ TodoMoves(q, "read", <<"resize", "putThumb">>, <<"putThumb">>)
                   /\ fileReq'[q].alone = fileReq[q].alone
                /\ object \notin {0} \cup empty /\ fileReq'[q].seen = object
  <2>1. /\ Files!At(q, "resize")
        /\ \/ Files!Ends(q)
           \/ object \notin {0} \cup empty /\ Files!Goes(q, [fileReq[q] EXCEPT !.todo = Tail(@), !.seen = object])
    BY <1>9 DEF Files!Resize
  <2>2. fileReq[q].op = "read" /\ fileReq[q].todo = <<"resize", "putThumb">> /\ Files!IsOpen(q)
    BY <2>1, AtIs DEF Files!At
  <2>3. Tail(<<"resize", "putThumb">>) = <<"putThumb">> /\ <<"putThumb">> # <<>> /\ object \in FileRequests \cup {0}
    BY TailsOfTodos DEF MediaTypes
  <2>. QED
    BY <1>2, <1>3, <2>1, <2>2, <2>3, Zenon
<1>10. ASSUME Files!PutThumb(q) PROVE TodoMoves(q, "read", <<"putThumb">>, <<>>)
  <2>1. Files!At(q, "putThumb") /\ Files!Ran(q)
    BY <1>10 DEF Files!PutThumb
  <2>. QED
    BY <1>1, <2>1, AtIs, TailsOfTodos
<1>11. ASSUME NEW was, NEW to, TodoMoves(q, "read", was, to)
       PROVE  /\ fileReq[q].op = "read" /\ Files!IsOpen(q) /\ fileReq'[q].op = "read" /\ OthersStay(q)
                 /\ fileReq'[q].todo = to
              /\ fileReq' \in [FileRequests -> FileCalls]
  BY <1>11 DEF TodoMoves, Files!IsOpen
<1>12. /\ Tail(Files!Thumbnail) = <<"getThumb", "getOriginal", "resize", "putThumb">>
       /\ Tail(Files!FederationThumbnail) = <<"getThumb", "getOriginal">>
       /\ Tail(<<"getThumb", "getOriginal", "resize", "putThumb">>) = <<"getOriginal", "resize", "putThumb">>
       /\ Tail(<<"getThumb", "getOriginal">>) = <<"getOriginal">>
  BY TailsOfTodos
<1>13. \A d \in {<<>>, <<"getRow">>, <<"getThumb", "getOriginal", "resize", "putThumb">>,
         <<"getThumb", "getOriginal">>,
                 <<"getOriginal", "resize", "putThumb">>, <<"getOriginal">>, <<"resize", "putThumb">>,
                     <<"putThumb">>} :
         d \in FileTodos["read"]
  BY DEF FileTodos
<1>14. UNCHANGED <<object, fileRow, answered, gone, empty, fileMet>>
  BY DEF ReadStep, Files!GetObject, Files!GetRow, Files!GetType, Files!GetThumb, Files!GetOriginal, Files!Resize,
         Files!PutThumb, Files!Keeps
<1>15. /\ fileReq[q].op = "read" /\ Files!IsOpen(q) /\ fileReq'[q].op = "read" /\ OthersStay(q)
       /\ fileReq' \in [FileRequests -> FileCalls]
       /\ fileReq'[q].todo # <<>> => fileReq'[q].alone = fileReq[q].alone
  BY <1>4, <1>5, <1>6, <1>7, <1>8, <1>9, <1>10, <1>11 DEF ReadStep
<1>16. fileReq'[q].todo \in FileTodos["read"]
  BY <1>4, <1>5, <1>6, <1>7, <1>8, <1>9, <1>10, <1>11, <1>12, <1>13 DEF ReadStep
<1>17. fileReq'[q].todo = <<"getRow">> => object # 0 /\ fileReq'[q].seen = object
  <2>1. <<"getRow">> \notin {<<>>, <<"getThumb", "getOriginal", "resize", "putThumb">>, <<"getThumb", "getOriginal">>,
                 <<"getOriginal", "resize", "putThumb">>, <<"getOriginal">>, <<"resize", "putThumb">>, <<"putThumb">>}
    OBVIOUS
  <2>. QED
    BY <2>1, <1>4, <1>5, <1>6, <1>7, <1>8, <1>9, <1>10, <1>11, <1>12 DEF ReadStep
<1>18. fileReq'[q].todo = <<"putThumb">> => object \notin {0} \cup empty /\ fileReq'[q].seen = object
  <2>1. <<"putThumb">> \notin {<<>>, <<"getThumb", "getOriginal", "resize", "putThumb">>,
          <<"getThumb", "getOriginal">>,
                 <<"getOriginal", "resize", "putThumb">>, <<"getOriginal">>, <<"resize", "putThumb">>, <<"getRow">>}
    OBVIOUS
  <2>. QED
    BY <2>1, <1>4, <1>5, <1>6, <1>7, <1>8, <1>9, <1>10, <1>11, <1>12 DEF ReadStep
<1>19. Files!PutThumb(q) => fileReq[q].todo = <<"putThumb">> /\ thumb' = fileReq[q].seen
  BY AtIs DEF Files!PutThumb
<1>20. ~Files!PutThumb(q) => thumb' = thumb
  BY DEF ReadStep, Files!GetObject, Files!GetRow, Files!GetType, Files!GetThumb, Files!GetOriginal, Files!Resize
<1>21. Files!GetRow(q) => fileReq[q].todo = <<"getRow">> /\ (given' = given \/ Gave(q, fileReq[q].seen, fileRow.type))
  BY AtIs DEF Files!GetRow, Files!Gives, Gave
<1>22. Files!PutThumb(q) => given' = given \/ Gave(q, fileReq[q].seen, fileReq[q].seen)
  BY DEF Files!PutThumb, Files!Gives, Gave
<1>23. Files!GetThumb(q) => given' = given \/ (thumb # 0 /\ Gave(q, thumb, thumb))
  BY DEF Files!GetThumb, Files!Gives, Gave
<1>24. ~Files!GetRow(q) /\ ~Files!PutThumb(q) /\ ~Files!GetThumb(q) => given' = given
  BY DEF ReadStep, Files!GetObject, Files!GetType, Files!GetOriginal, Files!Resize
<1>. QED
  BY <1>14, <1>15, <1>16, <1>17, <1>18, <1>19, <1>20, <1>21, <1>22, <1>23, <1>24

LEMMA TodosOf ==
  ASSUME NEW o \in FileOps, NEW d \in FileTodos[o]
  PROVE  /\ d \in {<<"putObject", "updateRow">>, <<"updateRow">>} => o = "fill" /\ d # <<>>
         /\ d = <<"dropRow">> => o = "delete" /\ d # <<>>
         /\ d \in {<<"getRow">>, <<"putThumb">>} => o = "read" /\ d # <<>>
         /\ d = <<"insertRow">> => o = "upload" /\ d # <<>>
         /\ o = "none" => d = <<>>
<1>3. CASE o \in {"none", "create"}
  BY <1>3 DEF FileTodos
<1>4. CASE o = "upload"
  BY <1>4 DEF FileTodos, Files!Upload
<1>5. CASE o = "fill"
  BY <1>5 DEF FileTodos, Files!Filling
<1>6. CASE o = "delete"
  BY <1>6 DEF FileTodos, Files!Purge, Files!Deletion
<1>7. CASE o = "read"
  BY <1>7 DEF FileTodos, Files!Download, Files!Thumbnail, Files!FederationThumbnail
<1>. QED
  BY <1>3, <1>4, <1>5, <1>6, <1>7 DEF FileOps

LEMMA TodoIs ==
  ASSUME MediaTypes, NEW q \in FileRequests
  PROVE  /\ fileReq[q].todo \in {<<"putObject", "updateRow">>, <<"updateRow">>}
            => fileReq[q].op = "fill" /\ Writing(q)
         /\ fileReq[q].todo = <<"dropRow">> => fileReq[q].op = "delete" /\ Writing(q)
         /\ fileReq[q].todo \in {<<"getRow">>, <<"putThumb">>} => fileReq[q].op = "read" /\ Files!IsOpen(q)
         /\ fileReq[q].todo = <<"insertRow">> => fileReq[q].op = "upload" /\ Writing(q)
         /\ ~Files!Begun(q) => fileReq[q].op = "none" /\ ~Files!IsOpen(q)
<1>. DEFINE o == fileReq[q].op
            d == fileReq[q].todo
<1>1. o \in FileOps /\ d \in FileTodos[o]
  BY DEF MediaTypes, FileCalls
<1>2. (Writing(q) <=> d # <<>> /\ o \in Files!Writers) /\ (Files!IsOpen(q) <=> d # <<>>)
        /\ (Files!Begun(q) <=> o # "none")
  BY DEF Writing, Files!IsOpen, Files!Begun
<1>. HIDE DEF o, d
<1>. SUFFICES /\ d \in {<<"putObject", "updateRow">>, <<"updateRow">>} => o = "fill" /\ d # <<>>
              /\ d = <<"dropRow">> => o = "delete" /\ d # <<>>
              /\ d \in {<<"getRow">>, <<"putThumb">>} => o = "read" /\ d # <<>>
              /\ d = <<"insertRow">> => o = "upload" /\ d # <<>>
              /\ o = "none" => d = <<>>
  BY <1>1, <1>2 DEF o, d, Files!Writers
<1>. QED
  BY <1>1, TodosOf

OpensFile(q) == Files!OpenUpload(q) \/ Files!OpenCreate(q) \/ Files!OpenFill(q) \/ Files!OpenDelete(q)
    \/ Files!OpenRead(q)

LEMMA OpenFields ==
  ASSUME MediaTypes, NEW q \in FileRequests, NEW kind \in FileOps \ {"none"}, NEW plan \in Seq(FileSteps),
           plan # <<>>,
         Files!Open(q, kind, plan)
  PROVE  /\ ~Files!Begun(q) /\ UNCHANGED <<object, fileRow, thumb, answered, gone, given>>
         /\ fileReq' \in [FileRequests -> FileCalls] /\ fileReq'[q].op = kind /\ fileReq'[q].todo = plan
         /\ \A p \in FileRequests \ {q} :
              fileReq'[p].op = fileReq[p].op /\ fileReq'[p].todo = fileReq[p].todo
                  /\ fileReq'[p].seen = fileReq[p].seen
         /\ fileReq'[q].alone => \A p \in FileRequests : Files!IsOpen(p) => fileReq[p].op \notin Files!Writers
         /\ \A p \in FileRequests \ {q} : Files!IsOpen(p) /\ fileReq'[p].alone
            => fileReq[p].alone /\ kind \notin Files!Writers
         /\ ~fileMet' => ~fileMet /\ (kind \in Files!Writers => \A p \in FileRequests : Files!IsOpen(p)
            => fileReq[p].op \notin Files!Writers)
<1>. DEFINE others == {p \in FileRequests : Files!IsOpen(p)}
            first == [Files!Idle EXCEPT !.op = kind, !.todo = plan,
                !.alone = \A o \in others : fileReq[o].op \notin Files!Writers]
            other(p) == IF p \in others THEN [fileReq[p] EXCEPT !.alone = @
                /\ kind \notin Files!Writers] ELSE fileReq[p]
<1>1. first \in FileCalls /\ first.op = kind /\ first.todo = plan
      /\ (first.alone <=> \A o \in others : fileReq[o].op \notin Files!Writers)
  <2>1. ASSUME NEW b \in BOOLEAN
        PROVE  /\ [Files!Idle EXCEPT !.op = kind, !.todo = plan, !.alone = b] \in FileCalls
               /\ [Files!Idle EXCEPT !.op = kind, !.todo = plan, !.alone = b].op = kind
               /\ [Files!Idle EXCEPT !.op = kind, !.todo = plan, !.alone = b].todo = plan
               /\ [Files!Idle EXCEPT !.op = kind, !.todo = plan, !.alone = b].alone = b
    BY DEF Files!Idle, FileCalls
  <2>2. (\A o \in others : fileReq[o].op \notin Files!Writers) \in BOOLEAN
    OBVIOUS
  <2>. HIDE DEF others
  <2>. QED
    BY <2>1, <2>2, Zenon
<1>2. ASSUME NEW p \in FileRequests
      PROVE  /\ other(p) \in FileCalls /\ other(p).op = fileReq[p].op /\ other(p).todo = fileReq[p].todo
             /\ other(p).seen = fileReq[p].seen
             /\ Files!IsOpen(p) /\ other(p).alone => fileReq[p].alone /\ kind \notin Files!Writers
  <2>1. fileReq[p] \in FileCalls
    BY DEF MediaTypes
  <2>2. ASSUME NEW r \in FileCalls, NEW b \in BOOLEAN
        PROVE  /\ [r EXCEPT !.alone = @ /\ b] \in FileCalls /\ [r EXCEPT !.alone = @ /\ b].op = r.op
               /\ [r EXCEPT !.alone = @ /\ b].todo = r.todo /\ [r EXCEPT !.alone = @ /\ b].seen = r.seen
               /\ [r EXCEPT !.alone = @ /\ b].alone = (r.alone /\ b)
    BY DEF FileCalls
  <2>. DEFINE b == kind \notin Files!Writers
  <2>3. b \in BOOLEAN
    OBVIOUS
  <2>4. other(p) = IF p \in others THEN [fileReq[p] EXCEPT !.alone = @ /\ b] ELSE fileReq[p]
    OBVIOUS
  <2>. HIDE DEF b, other
  <2>5. CASE p \in others
    BY <2>1, <2>2, <2>3, <2>4, <2>5, ZenonT(40) DEF b
  <2>6. CASE p \notin others
    BY <2>1, <2>4, <2>6
  <2>. QED
    BY <2>5, <2>6
<1>3. fileReq' = [p \in FileRequests |-> IF p = q THEN first ELSE other(p)]
  BY Zenon DEF Files!Open
<1>4. ~Files!Begun(q) /\ UNCHANGED <<object, fileRow, thumb, answered, gone, given>>
        /\ fileMet' = (fileMet \/ Files!Overlaps(kind, others))
  BY Zenon DEF Files!Open
<1>5. ~fileMet' => ~fileMet /\ (kind \in Files!Writers => \A p \in FileRequests : Files!IsOpen(p)
        => fileReq[p].op \notin Files!Writers)
  BY <1>4 DEF Files!Overlaps
<1>. HIDE DEF first, other
<1>6. fileReq' \in [FileRequests -> FileCalls] /\ fileReq'[q] = first
        /\ \A p \in FileRequests \ {q} : fileReq'[p] = other(p)
  BY <1>1, <1>2, <1>3
<1>. QED
  BY <1>1, <1>2, <1>4, <1>5, <1>6

LateTodos == {<<"putObject", "updateRow">>, <<"updateRow">>, <<"dropRow">>, <<"getRow">>, <<"putThumb">>,
    <<"insertRow">>}

FreshPlan(q, kind) ==
  \E plan \in FileTodos[kind] : plan \in Seq(FileSteps) /\ plan # <<>> /\ plan \notin LateTodos
      /\ Files!Open(q, kind, plan)

LEMMA PlansAreFresh ==
  /\ Files!Upload \in FileTodos["upload"] /\ Files!Upload # <<>> /\ Files!Upload \notin LateTodos
     /\ Files!Upload \in Seq(FileSteps)
  /\ <<"insertPlaceholder">> \in FileTodos["create"] /\ <<"insertPlaceholder">> # <<>>
  /\ <<"insertPlaceholder">> \notin LateTodos /\ <<"insertPlaceholder">> \in Seq(FileSteps)
  /\ Files!Filling \in FileTodos["fill"] /\ Files!Filling # <<>> /\ Files!Filling \notin LateTodos
     /\ Files!Filling \in Seq(FileSteps)
  /\ \A plan \in {Files!Deletion, Files!Purge} :
       plan \in FileTodos["delete"] /\ plan # <<>> /\ plan \notin LateTodos /\ plan \in Seq(FileSteps)
  /\ \A plan \in {Files!Download, Files!FederationDownload, Files!Thumbnail, Files!FederationThumbnail} :
       plan \in FileTodos["read"] /\ plan # <<>> /\ plan \notin LateTodos /\ plan \in Seq(FileSteps)
<1>1. /\ Files!Upload \in FileTodos["upload"] /\ <<"insertPlaceholder">> \in FileTodos["create"]
         /\ Files!Filling \in FileTodos["fill"]
      /\ \A plan \in {Files!Deletion, Files!Purge} : plan \in FileTodos["delete"]
      /\ \A plan \in {Files!Download, Files!FederationDownload, Files!Thumbnail,
         Files!FederationThumbnail} : plan \in FileTodos["read"]
  BY DEF FileTodos, Files!FederationDownload
<1>2. Files!Upload \notin LateTodos \cup {<<>>} /\ Files!Filling \notin LateTodos \cup {<<>>}
        /\ <<"insertPlaceholder">> \notin LateTodos \cup {<<>>}
  BY DEF LateTodos, Files!Upload, Files!Filling
<1>3. Files!Deletion \notin LateTodos \cup {<<>>} /\ Files!Purge \notin LateTodos \cup {<<>>}
        /\ Files!Download \notin LateTodos \cup {<<>>}
  BY DEF LateTodos, Files!Deletion, Files!Purge, Files!Download
<1>4. Files!Thumbnail \notin LateTodos \cup {<<>>} /\ Files!FederationThumbnail \notin LateTodos \cup {<<>>}
  BY DEF LateTodos, Files!Thumbnail, Files!FederationThumbnail
<1>5. /\ Files!Upload \in Seq(FileSteps) /\ <<"insertPlaceholder">> \in Seq(FileSteps)
         /\ Files!Filling \in Seq(FileSteps)
      /\ Files!Deletion \in Seq(FileSteps) /\ Files!Purge \in Seq(FileSteps) /\ Files!Download \in Seq(FileSteps)
      /\ Files!Thumbnail \in Seq(FileSteps) /\ Files!FederationThumbnail \in Seq(FileSteps)
  BY DEF FileSteps, Files!Upload, Files!Filling, Files!Deletion, Files!Purge, Files!Download, Files!Thumbnail,
         Files!FederationThumbnail
<1>. QED
  BY <1>1, <1>2, <1>3, <1>4, <1>5 DEF Files!FederationDownload

LEMMA OpensFileMoves ==
  ASSUME MediaTypes, NEW q \in FileRequests, OpensFile(q)
  PROVE  /\ ~Files!Begun(q) /\ UNCHANGED <<object, fileRow, thumb, answered, gone, given>>
         /\ empty \subseteq empty' /\ empty' \subseteq empty \cup {q}
         /\ fileReq' \in [FileRequests -> FileCalls] /\ fileReq'[q].op \in FileOps \ {"none"}
         /\ fileReq'[q].todo \in FileTodos[fileReq'[q].op] /\ fileReq'[q].todo \notin LateTodos
         /\ fileReq'[q].op \in {"create", "upload"} => \A p \in FileRequests : ~Files!Begun(p)
         /\ fileReq'[q].op \notin {"create", "upload"} => Files!Known
         /\ \A p \in FileRequests \ {q} :
              fileReq'[p].op = fileReq[p].op /\ fileReq'[p].todo = fileReq[p].todo
                  /\ fileReq'[p].seen = fileReq[p].seen
         /\ fileReq'[q].alone => \A p \in FileRequests : Files!IsOpen(p) => fileReq[p].op \notin Files!Writers
         /\ \A p \in FileRequests \ {q} : Files!IsOpen(p) /\ fileReq'[p].alone
            => fileReq[p].alone /\ fileReq'[q].op \notin Files!Writers
         /\ ~fileMet' => ~fileMet /\ (fileReq'[q].op \in Files!Writers => \A p \in FileRequests : Files!IsOpen(p)
            => fileReq[p].op \notin Files!Writers)
<1>1. ASSUME NEW kind \in FileOps \ {"none"}, FreshPlan(q, kind)
      PROVE  /\ ~Files!Begun(q) /\ UNCHANGED <<object, fileRow, thumb, answered, gone, given>>
             /\ fileReq' \in [FileRequests -> FileCalls] /\ fileReq'[q].op = kind
             /\ fileReq'[q].todo \in FileTodos[kind] /\ fileReq'[q].todo \notin LateTodos
             /\ \A p \in FileRequests \ {q} :
                  fileReq'[p].op = fileReq[p].op /\ fileReq'[p].todo = fileReq[p].todo
                      /\ fileReq'[p].seen = fileReq[p].seen
             /\ fileReq'[q].alone => \A p \in FileRequests : Files!IsOpen(p) => fileReq[p].op \notin Files!Writers
             /\ \A p \in FileRequests \ {q} : Files!IsOpen(p) /\ fileReq'[p].alone
                => fileReq[p].alone /\ kind \notin Files!Writers
             /\ ~fileMet' => ~fileMet /\ (kind \in Files!Writers => \A p \in FileRequests : Files!IsOpen(p)
                => fileReq[p].op \notin Files!Writers)
  <2>1. PICK plan \in FileTodos[kind] : plan \in Seq(FileSteps) /\ plan # <<>> /\ plan \notin LateTodos
          /\ Files!Open(q, kind, plan)
    BY <1>1 DEF FreshPlan
  <2>2. /\ ~Files!Begun(q) /\ UNCHANGED <<object, fileRow, thumb, answered, gone, given>>
        /\ fileReq' \in [FileRequests -> FileCalls] /\ fileReq'[q].op = kind /\ fileReq'[q].todo = plan
        /\ \A p \in FileRequests \ {q} :
             fileReq'[p].op = fileReq[p].op /\ fileReq'[p].todo = fileReq[p].todo
                 /\ fileReq'[p].seen = fileReq[p].seen
        /\ fileReq'[q].alone => \A p \in FileRequests : Files!IsOpen(p) => fileReq[p].op \notin Files!Writers
        /\ \A p \in FileRequests \ {q} : Files!IsOpen(p) /\ fileReq'[p].alone
           => fileReq[p].alone /\ kind \notin Files!Writers
        /\ ~fileMet' => ~fileMet /\ (kind \in Files!Writers => \A p \in FileRequests : Files!IsOpen(p)
           => fileReq[p].op \notin Files!Writers)
    BY <2>1, OpenFields
  <2>. QED
    BY <2>1, <2>2
<1>2. Files!OpenUpload(q) =>
        /\ FreshPlan(q, "upload") /\ (\A p \in FileRequests : ~Files!Begun(p))
        /\ empty \subseteq empty' /\ empty' \subseteq empty \cup {q}
  BY PlansAreFresh DEF Files!OpenUpload, FreshPlan
<1>3. Files!OpenCreate(q) => FreshPlan(q, "create") /\ (\A p \in FileRequests : ~Files!Begun(p)) /\ empty' = empty
  BY PlansAreFresh DEF Files!OpenCreate, FreshPlan
<1>4. Files!OpenFill(q) => FreshPlan(q, "fill") /\ Files!Known /\ empty \subseteq empty'
        /\ empty' \subseteq empty \cup {q}
  BY PlansAreFresh DEF Files!OpenFill, FreshPlan
<1>5. Files!OpenDelete(q) => FreshPlan(q, "delete") /\ Files!Known /\ empty' = empty
  BY PlansAreFresh DEF Files!OpenDelete, FreshPlan
<1>6. Files!OpenRead(q) => FreshPlan(q, "read") /\ Files!Known /\ empty' = empty
  BY PlansAreFresh DEF Files!OpenRead, FreshPlan
<1>7. PICK kind \in FileOps \ {"none"} :
        /\ FreshPlan(q, kind) /\ empty \subseteq empty' /\ empty' \subseteq empty \cup {q}
        /\ kind \in {"create", "upload"} => \A p \in FileRequests : ~Files!Begun(p)
        /\ kind \notin {"create", "upload"} => Files!Known
  <2>1. {"create", "upload", "fill", "delete", "read"} \subseteq FileOps \ {"none"}
    BY DEF FileOps
  <2>2. \A kind \in {"fill", "delete", "read"} : kind \notin {"create", "upload"}
    OBVIOUS
  <2>3. CASE Files!OpenUpload(q)
    BY <1>2, <2>1, <2>3
  <2>4. CASE Files!OpenCreate(q)
    BY <1>3, <2>1, <2>4
  <2>5. CASE Files!OpenFill(q)
    BY <1>4, <2>1, <2>2, <2>5
  <2>6. CASE Files!OpenDelete(q)
    BY <1>5, <2>1, <2>2, <2>6
  <2>7. CASE Files!OpenRead(q)
    BY <1>6, <2>1, <2>2, <2>7
  <2>. QED
    BY <2>3, <2>4, <2>5, <2>6, <2>7 DEF OpensFile
<1>8. fileReq'[q].op = kind
  BY <1>1, <1>7
<1>. QED
  BY <1>1, <1>7, <1>8

WriteStep(q) ==
  Files!InsertPlaceholder(q) \/ Files!CheckRow(q) \/ Files!PutObject(q) \/ Files!InsertRow(q) \/ Files!UpdateRow(q)
    \/ Files!SelectRow(q) \/ Files!DropObject(q) \/ Files!DropRow(q)

LEMMA NextIsFileStep ==
  ASSUME Files!MediaNext
  PROVE  \E q \in FileRequests : OpensFile(q) \/ WriteStep(q) \/ ReadStep(q) \/ Files!Stop(q)
BY DEF Files!MediaNext, OpensFile, WriteStep, ReadStep

MovedBy(q) ==
  /\ Files!IsOpen(q) /\ OthersStay(q) /\ fileReq' \in [FileRequests -> FileCalls] /\ fileReq'[q].op = fileReq[q].op
  /\ fileReq'[q].todo \in FileTodos[fileReq[q].op] /\ empty' = empty /\ (fileMet => fileMet')

LEMMA StepsMove ==
  ASSUME MediaTypes, NEW q \in FileRequests, WriteStep(q) \/ ReadStep(q) \/ Files!Stop(q)
  PROVE  MovedBy(q)
<1>1. ASSUME NEW kind, NEW was, NEW to, TodoMoves(q, kind, was, to)
      PROVE  /\ Files!IsOpen(q) /\ OthersStay(q) /\ fileReq' \in [FileRequests -> FileCalls]
                /\ fileReq'[q].op = fileReq[q].op
             /\ fileReq[q].op = kind /\ fileReq'[q].todo = to
  BY <1>1 DEF TodoMoves, Files!IsOpen
<1>2. /\ <<>> \in FileTodos["create"] /\ <<>> \in FileTodos["fill"] /\ <<>> \in FileTodos["upload"]
      /\ <<>> \in FileTodos["delete"] /\ <<"putObject", "updateRow">> \in FileTodos["fill"]
      /\ <<"updateRow">> \in FileTodos["fill"] /\ <<"insertRow">> \in FileTodos["upload"]
      /\ Files!Deletion \in FileTodos["delete"] /\ <<"dropRow">> \in FileTodos["delete"]
  BY DEF FileTodos
<1>3. fileReq[q].op \in FileOps /\ \A kind \in FileOps : <<>> \in FileTodos[kind]
  BY DEF MediaTypes, FileCalls, FileOps, FileTodos
<1>4. CASE WriteStep(q)
  <2>1. empty' = empty /\ fileMet' = fileMet
    BY <1>4 DEF WriteStep, Files!InsertPlaceholder, Files!CheckRow, Files!PutObject, Files!InsertRow,
                Files!UpdateRow, Files!SelectRow, Files!DropObject, Files!DropRow, Files!Keeps
  <2>2. \E kind \in FileOps : \E was : \E to \in FileTodos[kind] : TodoMoves(q, kind, was, to)
    <3>1. {"create", "fill", "upload", "delete"} \subseteq FileOps
      BY DEF FileOps
    <3>2. CASE Files!InsertPlaceholder(q) \/ Files!DropRow(q) \/ Files!DropObject(q)
      BY <3>1, <3>2, <1>2, WriterMoves
    <3>3. CASE Files!InsertRow(q) \/ Files!UpdateRow(q)
      BY <3>1, <3>3, <1>2, WriterMoves
    <3>4. CASE Files!CheckRow(q) \/ Files!SelectRow(q)
      BY <3>1, <3>4, <1>2, WriterMoves
    <3>5. CASE Files!PutObject(q)
      BY <3>1, <3>5, <1>2, WriterMoves
    <3>. QED
      BY <1>4, <3>2, <3>3, <3>4, <3>5 DEF WriteStep
  <2>. QED
    BY <1>1, <2>1, <2>2 DEF MovedBy
<1>5. CASE ReadStep(q)
  BY <1>5, ReadMoves DEF MovedBy
<1>6. CASE Files!Stop(q)
  <2>1. TodoMoves(q, fileReq[q].op, fileReq[q].todo, <<>>) /\ empty' = empty /\ (fileMet => fileMet')
    BY <1>6, WriterMoves DEF Files!Stop
  <2>. QED
    BY <1>1, <1>3, <1>6, <2>1 DEF MovedBy
<1>. QED
  BY <1>4, <1>5, <1>6

LEMMA MovedKeeps ==
  ASSUME MediaTypes, NEW q \in FileRequests, MovedBy(q)
  PROVE  /\ fileReq' \in [FileRequests -> FileCalls]
            /\ \A p \in FileRequests : fileReq'[p].todo \in FileTodos[fileReq'[p].op]
         /\ \A p \in FileRequests : fileReq'[p].op = fileReq[p].op
         /\ \A p \in FileRequests : (Files!Begun(p)' <=> Files!Begun(p)) /\ (Files!IsOpen(p)' => Files!IsOpen(p))
            /\ (Writing(p)' => Writing(p))
         /\ \A p \in FileRequests \ {q} :
              fileReq'[p] = fileReq[p] /\ (Filled(p)' <=> Filled(p)) /\ (Files!IsOpen(p)' <=> Files!IsOpen(p))
<1>1. \A p \in FileRequests : fileReq'[p].op = fileReq[p].op /\ (p # q => fileReq'[p] = fileReq[p])
  BY DEF MovedBy, OthersStay
<1>2. \A p \in FileRequests : fileReq'[p].todo \in FileTodos[fileReq'[p].op]
  BY <1>1 DEF MovedBy, MediaTypes
<1>. QED
  BY <1>1, <1>2 DEF MovedBy, Files!Begun, Files!IsOpen, Writing, Filled

LEMMA RowsAreTyped ==
  ASSUME MediaTypes, NEW q \in FileRequests
  PROVE  /\ Files!RowFor(q).there /\ Files!RowFor(q).type = q /\ (Files!RowFor(q).full <=> q \notin empty)
         /\ ~Files!NoRow.there /\ Files!NoRow.type = 0
BY DEF Files!RowFor, Files!NoRow

LEMMA MediaTypesKept ==
  ASSUME MediaTypes, Files!MediaNext
  PROVE  MediaTypes'
<1>1. PICK q \in FileRequests : OpensFile(q) \/ WriteStep(q) \/ ReadStep(q) \/ Files!Stop(q)
  BY NextIsFileStep
<1>2. CASE OpensFile(q)
  <2>1. /\ UNCHANGED <<object, fileRow, thumb, answered, gone>> /\ empty' \subseteq empty \cup {q}
        /\ fileReq' \in [FileRequests -> FileCalls] /\ fileReq'[q].todo \in FileTodos[fileReq'[q].op]
        /\ \A p \in FileRequests \ {q} : fileReq'[p].op = fileReq[p].op /\ fileReq'[p].todo = fileReq[p].todo
    BY <1>2, OpensFileMoves
  <2>2. \A p \in FileRequests : fileReq'[p].todo \in FileTodos[fileReq'[p].op]
    BY <2>1, SMTT(20) DEF MediaTypes
  <2>3. fileMet' \in BOOLEAN
    BY <1>2, Zenon DEF OpensFile, Files!OpenUpload, Files!OpenCreate, Files!OpenFill, Files!OpenDelete, Files!OpenRead,
                Files!Open, Files!Overlaps, MediaTypes
  <2>. QED
    BY <2>1, <2>2, <2>3 DEF MediaTypes
<1>3. ASSUME WriteStep(q) \/ ReadStep(q) \/ Files!Stop(q)
      PROVE  /\ fileReq' \in [FileRequests -> FileCalls]
                /\ (\A p \in FileRequests : fileReq'[p].todo \in FileTodos[fileReq'[p].op])
             /\ empty' \subseteq FileRequests
  BY <1>3, StepsMove, MovedKeeps DEF MovedBy, MediaTypes
<1>4. CASE WriteStep(q)
  <2>1. fileMet' \in BOOLEAN /\ thumb' \in FileRequests \cup {0} /\ object' \in FileRequests \cup {0}
          /\ gone' \in BOOLEAN
    BY <1>4 DEF WriteStep, Files!InsertPlaceholder, Files!CheckRow, Files!PutObject, Files!InsertRow,
                Files!UpdateRow, Files!SelectRow, Files!DropObject, Files!DropRow,
                Files!Keeps, MediaTypes
  <2>2. answered' \in FileRequests \cup {0}
    BY <1>4 DEF WriteStep, Files!InsertPlaceholder, Files!CheckRow, Files!PutObject, Files!InsertRow,
                Files!UpdateRow, Files!SelectRow, Files!DropObject, Files!DropRow,
                Files!Answered, MediaTypes
  <2>3. fileRow' = fileRow \/ fileRow' = Files!RowFor(q) \/ fileRow' = Files!NoRow
          \/ fileRow' = [there |-> TRUE, type |-> 0, full |-> FALSE]
    BY <1>4 DEF WriteStep, Files!InsertPlaceholder, Files!CheckRow, Files!PutObject, Files!InsertRow,
                Files!UpdateRow, Files!SelectRow, Files!DropObject, Files!DropRow
  <2>4. fileRow'.there \in BOOLEAN /\ fileRow'.type \in FileRequests \cup {0}
          /\ (~fileRow'.there => fileRow' = Files!NoRow)
    <3>1. CASE fileRow' = fileRow
      BY <3>1 DEF MediaTypes
    <3>2. CASE fileRow' = Files!RowFor(q)
      BY <3>2 DEF Files!RowFor
    <3>3. CASE fileRow' = Files!NoRow
      BY <3>3 DEF Files!NoRow
    <3>4. CASE fileRow' = [there |-> TRUE, type |-> 0, full |-> FALSE]
      BY <3>4
    <3>. QED
      BY <2>3, <3>1, <3>2, <3>3, <3>4
  <2>. QED
    BY <1>3, <1>4, <2>1, <2>2, <2>4 DEF MediaTypes
<1>5. CASE ReadStep(q)
  <2>1. UNCHANGED <<object, fileRow, answered, gone, fileMet>> /\ (thumb' = thumb \/ thumb' = fileReq[q].seen)
    BY <1>5, ReadMoves
  <2>2. fileReq[q].seen \in FileRequests \cup {0}
    BY DEF MediaTypes, FileCalls
  <2>. QED
    BY <1>3, <1>5, <2>1, <2>2 DEF MediaTypes
<1>6. CASE Files!Stop(q)
  <2>1. UNCHANGED <<object, fileRow, thumb, answered, gone>> /\ fileMet' \in BOOLEAN
    BY <1>6 DEF Files!Stop, MediaTypes
  <2>. QED
    BY <1>3, <1>6, <2>1 DEF MediaTypes
<1>. QED
  BY <1>1, <1>2, <1>4, <1>5, <1>6

(* What a request that writes changes, and the quiet steps. *)
QuietStep(q) ==
  /\ MovedBy(q) /\ UNCHANGED <<object, fileRow, answered, gone, empty>>
  /\ ~fileMet' => ~fileMet /\ ~(Filled(q) /\ Files!Stop(q))

LEMMA QuietSteps ==
  ASSUME MediaTypes, NEW q \in FileRequests, Files!CheckRow(q) \/ Files!SelectRow(q) \/ ReadStep(q) \/ Files!Stop(q)
  PROVE  QuietStep(q)
<1>1. MovedBy(q)
  BY StepsMove DEF WriteStep
<1>2. Files!CheckRow(q) \/ Files!SelectRow(q) => UNCHANGED <<object, fileRow, answered, gone, empty, fileMet>>
        /\ ~Filled(q)
  <2>1. Files!Filling # <<"updateRow">> /\ Files!Purge # <<"updateRow">>
    BY DEF Files!Filling, Files!Purge
  <2>. QED
    BY <2>1, WriterMoves DEF Files!CheckRow, Files!SelectRow, Files!Keeps, Filled, TodoMoves
<1>3. ReadStep(q) => UNCHANGED <<object, fileRow, answered, gone, empty, fileMet>> /\ ~Filled(q)
  <2>1. ReadStep(q) => fileReq[q].op = "read"
    BY ReadMoves
  <2>2. Filled(q) => fileReq[q].op = "fill"
    BY TodoIs DEF Filled
  <2>. QED
    BY <2>1, <2>2, ReadMoves
<1>4. Files!Stop(q) => /\ UNCHANGED <<object, fileRow, answered, gone, empty>>
                          /\ (~fileMet' => ~fileMet /\ ~Filled(q))
  BY TodoIs DEF Files!Stop, Filled
<1>. QED
  BY <1>1, <1>2, <1>3, <1>4 DEF QuietStep

LEMMA FirstKept ==
  ASSUME FileAssumption, FileInv, MediaTypes', Files!MediaNext
  PROVE  FirstInv' /\ UploadInv'
<1>0. MediaTypes /\ FirstInv /\ UploadInv
  BY DEF FileInv
<1>1. PICK q \in FileRequests : OpensFile(q) \/ WriteStep(q) \/ ReadStep(q) \/ Files!Stop(q)
  BY NextIsFileStep
<1>2. CASE OpensFile(q)
  <2>1. /\ ~Files!Begun(q) /\ UNCHANGED <<object, fileRow, thumb, answered, gone, given>>
           /\ (Files!Known' <=> Files!Known)
        /\ fileReq'[q].op \in FileOps \ {"none"} /\ fileReq'[q].todo \notin LateTodos
        /\ fileReq'[q].op \in {"create", "upload"} => \A p \in FileRequests : ~Files!Begun(p)
        /\ fileReq'[q].op \notin {"create", "upload"} => Files!Known
        /\ \A p \in FileRequests \ {q} : fileReq'[p].op = fileReq[p].op /\ fileReq'[p].todo = fileReq[p].todo
    BY <1>0, <1>2, OpensFileMoves DEF Files!Known
  <2>2. CASE Files!Known
    <3>1. PICK p \in FileRequests : Files!Begun(p)
      BY <1>0, <2>2 DEF UploadInv
    <3>2. fileReq'[q].op \notin {"create", "upload"} /\ Files!Begun(p)'
      BY <2>1, <3>1 DEF Files!Begun
    <3>. QED
      BY <1>0, <2>1, <2>2, <3>2 DEF UploadInv, FirstInv, Files!IsOpen
  <2>3. CASE ~Files!Known
    <3>1. fileReq'[q].op \in {"create", "upload"} /\ \A p \in FileRequests : ~Files!Begun(p)
      BY <2>1, <2>3
    <3>2. answered = 0 /\ thumb = 0 /\ given = {}
      BY <1>0, <2>3 DEF FirstInv
    <3>3. fileReq'[q].todo # <<"insertRow">> /\ \A p \in FileRequests \ {q} : fileReq'[p].op = "none"
            /\ fileReq'[p].todo # <<"insertRow">>
      <4>1. fileReq'[q].todo # <<"insertRow">>
        BY <2>1 DEF LateTodos
      <4>2. ASSUME NEW p \in FileRequests \ {q} PROVE fileReq'[p].op = "none" /\ fileReq'[p].todo # <<"insertRow">>
        BY <1>0, <2>1, <3>1, TodoIs DEF Files!Begun
      <4>. QED
        BY <4>1, <4>2
    <3>4. object = 0
      BY <3>1 DEF FileInv, NamesInv
    <3>. QED
      BY <2>1, <2>3, <3>1, <3>2, <3>3, <3>4 DEF FirstInv, UploadInv, Files!Begun
  <2>. QED
    BY <2>2, <2>3
<1>3. ASSUME MovedBy(q)
      PROVE  /\ \A p \in FileRequests : fileReq'[p].op = fileReq[p].op
             /\ \A p \in FileRequests : (Files!Begun(p)' <=> Files!Begun(p)) /\ (Files!IsOpen(p)' => Files!IsOpen(p))
             /\ \A p \in FileRequests \ {q} : fileReq'[p].todo = fileReq[p].todo
             /\ Files!IsOpen(q) /\ (fileReq[q].op # "none")
  <2>1. /\ \A p \in FileRequests : fileReq'[p].op = fileReq[p].op
        /\ \A p \in FileRequests : (Files!Begun(p)' <=> Files!Begun(p)) /\ (Files!IsOpen(p)' => Files!IsOpen(p))
        /\ \A p \in FileRequests \ {q} : fileReq'[p] = fileReq[p]
    BY <1>0, <1>3, MovedKeeps
  <2>. QED
    BY <1>0, <1>3, <2>1, TodoIs DEF MovedBy, Files!Begun
<1>4. CASE WriteStep(q) \/ ReadStep(q) \/ Files!Stop(q)
  <2>1. MovedBy(q)
    BY <1>0, <1>4, StepsMove
  <2>2. CASE Files!Known
    <3>1. Files!Known'
      <4>1. CASE WriteStep(q)
        BY <2>2, <4>1 DEF Files!Known, WriteStep, Files!InsertPlaceholder, Files!CheckRow, Files!PutObject,
                          Files!InsertRow, Files!UpdateRow, Files!SelectRow,
                          Files!DropObject, Files!DropRow, Files!RowFor
      <4>2. CASE ReadStep(q) \/ Files!Stop(q)
        BY <1>0, <2>2, <4>2, QuietSteps DEF Files!Known, QuietStep
      <4>. QED
        BY <1>4, <4>1, <4>2
    <3>. QED
      BY <1>0, <1>3, <2>1, <2>2, <3>1 DEF FirstInv, UploadInv
  <2>3. CASE ~Files!Known
    <3>1. /\ fileReq[q].op \in {"create", "upload"}
          /\ \A p \in FileRequests \ {q} : fileReq'[p].op = "none" /\ fileReq'[p].todo = <<>> /\ ~Files!Begun(p)'
      <4>1. Files!Begun(q) /\ \A p \in FileRequests \ {q} : ~Files!Begun(p)
        BY <1>0, <1>3, <2>1, <2>3 DEF FirstInv, Files!Begun
      <4>2. \A p \in FileRequests \ {q} : fileReq[p].op = "none" /\ fileReq[p].todo = <<>>
        BY <1>0, <4>1, TodoIs DEF Files!IsOpen
      <4>. QED
        BY <1>0, <1>3, <2>1, <2>3, <4>1, <4>2 DEF FirstInv, Files!Begun
    <3>2. WriteStep(q) => Files!InsertPlaceholder(q) \/ Files!InsertRow(q)
            \/ (Files!PutObject(q) /\ fileReq[q].op = "upload")
      <4>1. fileReq[q].op \notin {"fill", "delete", "read"}
        BY <3>1
      <4>. QED
        BY <1>0, <4>1, WriterMoves DEF WriteStep, TodoMoves
    <3>3. ~ReadStep(q)
      BY <1>0, <3>1, ReadMoves
    <3>4. CASE Files!InsertPlaceholder(q) \/ Files!InsertRow(q)
      <4>1. fileReq'[q].todo = <<>> /\ fileRow'.there
        BY <1>0, <3>4, WriterMoves DEF TodoMoves, Files!InsertPlaceholder, Files!InsertRow, Files!RowFor
      <4>2. Files!Begun(q)'
        BY <1>3, <2>1, <3>1 DEF Files!Begun
      <4>. QED
        BY <3>1, <4>1, <4>2 DEF FirstInv, UploadInv, Files!Known, Files!IsOpen
    <3>5. CASE Files!PutObject(q) /\ fileReq[q].op = "upload"
      <4>1. fileReq'[q].op = "upload" /\ object' = q /\ UNCHANGED <<fileRow, thumb, answered, gone, given>>
        BY <1>3, <2>1, <3>5 DEF Files!PutObject
      <4>2. ~Files!Known' /\ answered' = 0 /\ thumb' = 0 /\ given' = {}
        BY <1>0, <2>3, <4>1 DEF FirstInv, Files!Known
      <4>3. <<"insertRow">> # <<>>
        OBVIOUS
      <4>. QED
        BY <3>1, <4>1, <4>2, <4>3 DEF FirstInv, UploadInv
    <3>6. CASE Files!Stop(q)
      <4>1. fileReq'[q].op = fileReq[q].op /\ fileReq'[q].todo = <<>>
              /\ UNCHANGED <<object, fileRow, thumb, answered, gone, given>>
        BY <1>0, <3>6, WriterMoves DEF TodoMoves, Files!Stop
      <4>2. ~Files!Known' /\ answered' = 0 /\ thumb' = 0 /\ given' = {} /\ (fileReq[q].op = "create" => object = 0)
        BY <1>0, <2>3, <4>1 DEF FirstInv, Files!Known
      <4>3. <<"insertRow">> # <<>>
        OBVIOUS
      <4>. QED
        BY <3>1, <4>1, <4>2, <4>3 DEF FirstInv, UploadInv
    <3>. QED
      BY <1>4, <3>2, <3>3, <3>4, <3>5, <3>6
  <2>. QED
    BY <2>2, <2>3
<1>. QED
  BY <1>1, <1>2, <1>4

LEMMA NamesKept ==
  ASSUME FileAssumption, FileInv, Files!MediaNext
  PROVE  NamesInv'
<1>0. MediaTypes /\ NamesInv
  BY DEF FileInv
<1>1. PICK q \in FileRequests : OpensFile(q) \/ WriteStep(q) \/ ReadStep(q) \/ Files!Stop(q)
  BY NextIsFileStep
<1>2. CASE OpensFile(q)
  <2>1. /\ UNCHANGED <<object, answered>> /\ empty' \subseteq empty \cup {q}
        /\ fileReq'[q].op # "none" /\ \A p \in FileRequests \ {q} : fileReq'[p].op = fileReq[p].op
    BY <1>0, <1>2, OpensFileMoves
  <2>. QED
    BY <1>0, <2>1 DEF NamesInv, Files!Begun
<1>3. CASE WriteStep(q) \/ ReadStep(q) \/ Files!Stop(q)
  <2>1. MovedBy(q)
    BY <1>0, <1>3, StepsMove
  <2>2. empty' = empty /\ Files!Begun(q) /\ \A p \in FileRequests : Files!Begun(p)' <=> Files!Begun(p)
    BY <1>0, <2>1, MovedKeeps, TodoIs DEF MovedBy
  <2>3. object' \in {0, q, object} /\ answered' \in {q, answered}
    <3>1. CASE WriteStep(q)
      BY <3>1 DEF WriteStep, Files!InsertPlaceholder, Files!CheckRow, Files!PutObject, Files!InsertRow,
                  Files!UpdateRow, Files!SelectRow, Files!DropObject,
                  Files!DropRow, Files!Answered
    <3>2. CASE ReadStep(q) \/ Files!Stop(q)
      BY <1>0, <3>2, QuietSteps DEF QuietStep
    <3>. QED
      BY <1>3, <3>1, <3>2
  <2>. QED
    BY <1>0, <2>2, <2>3 DEF NamesInv
<1>. QED
  BY <1>1, <1>2, <1>3

LEMMA AloneKept ==
  ASSUME FileAssumption, FileInv, Files!MediaNext
  PROVE  FileAloneInv'
<1>0. MediaTypes /\ FileAloneInv
  BY DEF FileInv
<1>1. PICK q \in FileRequests : OpensFile(q) \/ WriteStep(q) \/ ReadStep(q) \/ Files!Stop(q)
  BY NextIsFileStep
<1>2. CASE OpensFile(q)
  <2>1. /\ \A p \in FileRequests \ {q} : fileReq'[p].op = fileReq[p].op /\ fileReq'[p].todo = fileReq[p].todo
        /\ fileReq'[q].alone => \A p \in FileRequests : Files!IsOpen(p) => fileReq[p].op \notin Files!Writers
        /\ \A p \in FileRequests \ {q} : Files!IsOpen(p) /\ fileReq'[p].alone
           => fileReq[p].alone /\ fileReq'[q].op \notin Files!Writers
        /\ ~fileMet' => ~fileMet /\ (fileReq'[q].op \in Files!Writers => \A p \in FileRequests : Files!IsOpen(p)
           => fileReq[p].op \notin Files!Writers)
    BY <1>0, <1>2, OpensFileMoves
  <2>2. \A p \in FileRequests \ {q} : (Writing(p)' <=> Writing(p)) /\ (Files!IsOpen(p)' <=> Files!IsOpen(p))
    BY <2>1 DEF Writing, Files!IsOpen
  <2>3. Writing(q)' => fileReq'[q].op \in Files!Writers
    BY DEF Writing
  <2>4. "read" \notin Files!Writers
    BY DEF Files!Writers
  <2>5. ASSUME ~fileMet', NEW p \in FileRequests, NEW r \in FileRequests, Writing(p)', Writing(r)' PROVE p = r
    <3>1. CASE p # q /\ r # q
      BY <1>0, <2>1, <2>2, <2>5, <3>1 DEF FileAloneInv
    <3>2. CASE p = q /\ r # q
      BY <2>1, <2>2, <2>3, <2>5, <3>2 DEF Writing
    <3>3. CASE p # q /\ r = q
      BY <2>1, <2>2, <2>3, <2>5, <3>3 DEF Writing
    <3>. QED
      BY <3>1, <3>2, <3>3
  <2>6. ASSUME NEW p \in FileRequests, NEW r \in FileRequests, fileReq'[p].op = "read", Files!IsOpen(p)',
          fileReq'[p].alone, Writing(r)'
        PROVE  FALSE
    <3>1. CASE p = q
      BY <2>1, <2>2, <2>3, <2>4, <2>6, <3>1 DEF Writing
    <3>2. CASE p # q /\ r = q
      BY <2>1, <2>2, <2>3, <2>6, <3>2
    <3>3. CASE p # q /\ r # q
      BY <1>0, <2>1, <2>2, <2>6, <3>3 DEF FileAloneInv
    <3>. QED
      BY <3>1, <3>2, <3>3
  <2>. QED
    BY <2>5, <2>6 DEF FileAloneInv
<1>3. CASE WriteStep(q) \/ ReadStep(q) \/ Files!Stop(q)
  <2>1. MovedBy(q)
    BY <1>0, <1>3, StepsMove
  <2>2. /\ \A p \in FileRequests : fileReq'[p].op = fileReq[p].op /\ (Files!IsOpen(p)' => Files!IsOpen(p))
           /\ (Writing(p)' => Writing(p))
        /\ \A p \in FileRequests \ {q} : fileReq'[p] = fileReq[p]
    BY <1>0, <2>1, MovedKeeps
  <2>3. ~fileMet' => ~fileMet
    BY <2>1 DEF MovedBy
  <2>4. fileReq[q].op = "read" /\ Files!IsOpen(q)' /\ fileReq'[q].alone => fileReq[q].alone
    <3>1. CASE WriteStep(q)
      BY <1>0, <3>1, WriterMoves DEF WriteStep, TodoMoves
    <3>2. CASE ReadStep(q)
      BY <1>0, <3>2, ReadMoves DEF Files!IsOpen
    <3>3. CASE Files!Stop(q)
      BY <1>0, <3>3, WriterMoves DEF TodoMoves, Files!IsOpen
    <3>. QED
      BY <1>3, <3>1, <3>2, <3>3
  <2>. QED
    BY <1>0, <2>2, <2>3, <2>4 DEF FileAloneInv
<1>. QED
  BY <1>1, <1>2, <1>3

LEMMA WritersAreAlone ==
  ASSUME FileInv, ~fileMet, NEW q \in FileRequests, Writing(q), NEW p \in FileRequests, p # q
  PROVE  ~Writing(p) /\ fileReq[p].todo \notin {<<"putObject", "updateRow">>, <<"updateRow">>, <<"dropRow">>,
           <<"insertRow">>}
BY TodoIs DEF FileInv, FileAloneInv

LEMMA FillKept ==
  ASSUME FileAssumption, FileInv, Files!MediaNext
  PROVE  FillInv'
<1>0. MediaTypes /\ FirstInv /\ UploadInv /\ FillInv /\ ContentInv
  BY DEF FileInv
<1>. SUFFICES ASSUME ~fileMet' PROVE FillInv'
  BY DEF FillInv
<1>1. PICK q \in FileRequests : OpensFile(q) \/ WriteStep(q) \/ ReadStep(q) \/ Files!Stop(q)
  BY NextIsFileStep
<1>a. /\ <<"updateRow">> # <<"putObject", "updateRow">> /\ <<"updateRow">> # <<"dropRow">>
      /\ <<"putObject", "updateRow">> # <<"dropRow">>
      /\ <<>> \notin {<<"putObject", "updateRow">>, <<"updateRow">>, <<"dropRow">>}
      /\ <<"insertRow">> \notin {<<"putObject", "updateRow">>, <<"updateRow">>, <<"dropRow">>}
      /\ Files!Deletion \notin {<<"putObject", "updateRow">>, <<"updateRow">>, <<"dropRow">>}
  BY DEF Files!Deletion
<1>2. CASE OpensFile(q)
  <2>1. /\ UNCHANGED <<object, fileRow, answered>> /\ fileReq'[q].todo \notin LateTodos /\ ~fileMet
        /\ \A p \in FileRequests \ {q} : fileReq'[p].todo = fileReq[p].todo
    BY <1>0, <1>2, OpensFileMoves
  <2>. QED
    BY <1>0, <2>1 DEF FillInv, Filled, LateTodos
<1>3. ASSUME WriteStep(q) \/ ReadStep(q) \/ Files!Stop(q)
      PROVE  MovedBy(q) /\ ~fileMet /\ \A p \in FileRequests \ {q} : fileReq'[p] = fileReq[p]
  BY <1>0, <1>3, StepsMove, MovedKeeps DEF MovedBy
<1>4. ASSUME Writing(q), ~fileMet, \A p \in FileRequests \ {q} : fileReq'[p] = fileReq[p]
      PROVE  \A p \in FileRequests \ {q} : fileReq'[p].todo \notin {<<"putObject", "updateRow">>, <<"updateRow">>,
               <<"dropRow">>}
  BY <1>4, WritersAreAlone
<1>5. ASSUME WriteStep(q), Writing(q),
             \/ /\ fileReq'[q].todo = <<"putObject", "updateRow">> /\ fileRow'.there /\ answered' = 0
             \/ fileReq'[q].todo = <<"updateRow">> /\ fileRow'.there /\ answered' = 0 /\ object' = q
             \/ fileReq'[q].todo = <<"dropRow">> /\ object' = 0
             \/ fileReq'[q].todo \in {<<>>, <<"insertRow">>, Files!Deletion}
      PROVE  FillInv'
  BY <1>3, <1>4, <1>5, <1>a DEF FillInv, Filled
<1>6. CASE Files!InsertPlaceholder(q)
  <2>1. fileReq[q].op = "create" /\ Files!IsOpen(q) /\ fileReq'[q].todo = <<>>
    BY <1>0, <1>6, WriterMoves DEF TodoMoves, Files!IsOpen
  <2>2. ~Files!Known
    BY <1>0, <2>1 DEF UploadInv
  <2>3. ASSUME NEW p \in FileRequests PROVE fileReq[p].todo \notin {<<"putObject", "updateRow">>, <<"updateRow">>,
          <<"dropRow">>}
    BY <1>0, <2>2, TodoIs DEF FirstInv
  <2>. QED
    BY <1>3, <1>6, <2>1, <2>3, <1>a DEF FillInv, Filled, WriteStep
<1>7. CASE Files!CheckRow(q)
  <2>1. Writing(q) /\ (fileReq'[q].todo = <<>> \/ (fileRow.there /\ ~fileRow.full
          /\ fileReq'[q].todo = <<"putObject", "updateRow">>))
    BY <1>0, <1>7, WriterMoves DEF TodoMoves, Writing, Files!IsOpen, Files!Writers
  <2>2. UNCHANGED <<fileRow, answered>> /\ ~fileMet
    BY <1>3, <1>7 DEF Files!CheckRow, WriteStep
  <2>3. fileRow.there /\ ~fileRow.full => answered = 0
    BY <1>0, <2>2 DEF ContentInv
  <2>. QED
    BY <1>5, <1>7, <2>1, <2>2, <2>3 DEF WriteStep
<1>8. CASE Files!PutObject(q)
  <2>1. Writing(q) /\ \/ fileReq'[q].todo = <<"insertRow">>
                      \/ fileReq[q].todo = <<"putObject", "updateRow">> /\ fileReq'[q].todo = <<"updateRow">>
    BY <1>0, <1>8, WriterMoves DEF TodoMoves, Writing, Files!IsOpen, Files!Writers
  <2>2. object' = q /\ UNCHANGED <<fileRow, answered>> /\ ~fileMet
    BY <1>3, <1>8 DEF Files!PutObject, WriteStep
  <2>. QED
    BY <1>0, <1>5, <1>8, <2>1, <2>2 DEF FillInv, WriteStep
<1>9. CASE Files!InsertRow(q) \/ Files!UpdateRow(q) \/ Files!DropRow(q)
  <2>1. Writing(q) /\ fileReq'[q].todo = <<>>
    BY <1>0, <1>9, WriterMoves DEF TodoMoves, Writing, Files!IsOpen, Files!Writers
  <2>. QED
    BY <1>5, <1>9, <2>1 DEF WriteStep
<1>10. CASE Files!SelectRow(q)
  <2>1. Writing(q) /\ fileReq[q].op = "delete" /\ (fileReq'[q].todo = Files!Deletion
          \/ (~fileRow.there /\ fileReq'[q].todo = <<"dropRow">>))
    BY <1>0, <1>10, WriterMoves DEF TodoMoves, Writing, Files!IsOpen, Files!Writers
  <2>2. object' = object /\ ~fileMet
    BY <1>3, <1>10 DEF Files!SelectRow, WriteStep
  <2>3. Files!Known
    BY <1>0, <2>1 DEF FirstInv
  <2>4. ~fileRow.there => object = 0
    BY <1>0, <2>2, <2>3 DEF Files!Known, ContentInv
  <2>. QED
    BY <1>5, <1>10, <2>1, <2>2, <2>4 DEF WriteStep
<1>11. CASE Files!DropObject(q)
  <2>1. Writing(q) /\ fileReq'[q].todo = <<"dropRow">> /\ object' = 0
    BY <1>0, <1>11, WriterMoves DEF TodoMoves, Writing, Files!IsOpen, Files!Writers, Files!DropObject
  <2>. QED
    BY <1>5, <1>11, <2>1 DEF WriteStep
<1>12. CASE ReadStep(q) \/ Files!Stop(q)
  <2>1. UNCHANGED <<object, fileRow, answered>>
    BY <1>0, <1>12, QuietSteps DEF QuietStep
  <2>2. fileReq'[q].todo \notin {<<"putObject", "updateRow">>, <<"updateRow">>, <<"dropRow">>}
    <3>1. CASE ReadStep(q)
      <4>1. fileReq'[q].todo \in FileTodos["read"] /\ "read" \in FileOps
        BY <1>0, <3>1, ReadMoves DEF FileOps
      <4>. QED
        BY <4>1, TodosOf
    <3>2. CASE Files!Stop(q)
      BY <1>0, <3>2, <1>a, WriterMoves DEF TodoMoves
    <3>. QED
      BY <1>12, <3>1, <3>2
  <2>. QED
    BY <1>0, <1>3, <1>12, <2>1, <2>2 DEF FillInv, Filled
<1>. QED
  BY <1>1, <1>2, <1>6, <1>7, <1>8, <1>9, <1>10, <1>11, <1>12 DEF WriteStep

(* The same of the state after a step, of a given content. *)
NextFilled(c) == fileReq'[c].todo = <<"updateRow">>
NextContent(c) == c \notin empty' /\ c # 0 /\ (c = answered' \/ (c \in FileRequests /\ NextFilled(c)))

(* A content that is not empty stays one, until a filling is stopped or overlapped. *)
LEMMA ContentStays ==
  ASSUME FileAssumption, FileInv, Files!MediaNext, ~fileMet', NEW c \in FileRequests \cup {0}, Content(c)
  PROVE  NextContent(c) /\ ~fileMet
<1>0. MediaTypes /\ FirstInv /\ UploadInv /\ FillInv /\ NamesInv
  BY DEF FileInv
<1>1. PICK q \in FileRequests : OpensFile(q) \/ WriteStep(q) \/ ReadStep(q) \/ Files!Stop(q)
  BY NextIsFileStep
<1>2. c \in FileRequests /\ c \notin empty /\ c # 0 /\ (c = answered \/ Filled(c))
  BY DEF Content, NextContent, NextFilled
<1>3. Files!Begun(c)
  BY <1>0, <1>2, TodoIs DEF NamesInv, Filled, NextFilled, Files!Begun
<1>4. CASE OpensFile(q)
  <2>1. /\ ~Files!Begun(q) /\ answered' = answered /\ empty' \subseteq empty \cup {q} /\ ~fileMet
        /\ \A p \in FileRequests \ {q} : fileReq'[p].todo = fileReq[p].todo
    BY <1>0, <1>4, OpensFileMoves
  <2>. QED
    BY <1>2, <1>3, <2>1 DEF Content, NextContent, NextFilled, Filled
<1>5. ASSUME WriteStep(q) \/ ReadStep(q) \/ Files!Stop(q)
      PROVE  /\ ~fileMet /\ empty' = empty /\ \A p \in FileRequests \ {q} : NextFilled(p) <=> Filled(p)
  BY <1>0, <1>5, StepsMove, MovedKeeps DEF MovedBy, Filled, NextFilled
<1>6. ASSUME WriteStep(q) \/ ReadStep(q) \/ Files!Stop(q), answered' = answered, ~Filled(q) PROVE NextContent(c)
  BY <1>2, <1>5, <1>6 DEF Content, NextContent, NextFilled
<1>7. CASE ReadStep(q) \/ Files!Stop(q)
  <2>1. QuietStep(q)
    BY <1>0, <1>7, QuietSteps
  <2>2. ~Filled(q)
    <3>1. ReadStep(q) => fileReq[q].op = "read"
      BY <1>0, ReadMoves
    <3>. QED
      BY <1>0, <1>7, <2>1, <3>1, TodoIs DEF QuietStep, Filled, NextFilled
  <2>. QED
    BY <1>5, <1>6, <1>7, <2>1, <2>2 DEF QuietStep
<1>8. CASE WriteStep(q) /\ ~Files!InsertRow(q) /\ ~Files!UpdateRow(q)
  <2>1. answered' = answered
    BY <1>8 DEF WriteStep, Files!InsertPlaceholder, Files!CheckRow, Files!PutObject, Files!SelectRow,
                Files!DropObject, Files!DropRow
  <2>2. ~Filled(q)
    <3>1. <<"updateRow">> \notin {<<"insertPlaceholder">>, Files!Filling, Files!Upload, <<"putObject", "updateRow">>,
            Files!Purge, Files!Deletion, <<"dropRow">>}
      BY DEF Files!Filling, Files!Upload, Files!Purge, Files!Deletion
    <3>2. CASE Files!InsertPlaceholder(q) \/ Files!CheckRow(q)
      BY <1>0, <3>1, <3>2, WriterMoves DEF TodoMoves, Filled, NextFilled
    <3>3. CASE Files!PutObject(q)
      BY <1>0, <3>1, <3>3, WriterMoves DEF TodoMoves, Filled, NextFilled
    <3>4. CASE Files!SelectRow(q) \/ Files!DropObject(q) \/ Files!DropRow(q)
      BY <1>0, <3>1, <3>4, WriterMoves DEF TodoMoves, Filled, NextFilled
    <3>. QED
      BY <1>8, <3>2, <3>3, <3>4 DEF WriteStep
  <2>. QED
    BY <1>5, <1>6, <1>8, <2>1, <2>2
<1>9. CASE Files!InsertRow(q)
  <2>1. fileReq[q].op = "upload" /\ Files!IsOpen(q) /\ fileReq[q].todo = <<"insertRow">>
    BY <1>0, <1>9, WriterMoves DEF TodoMoves, Files!IsOpen
  <2>2. ~Filled(c)
    <3>1. ~Files!Known
      BY <1>0, <2>1 DEF UploadInv
    <3>2. fileReq[c].op # "fill"
      BY <1>0, <1>2, <3>1 DEF FirstInv
    <3>. QED
      BY <1>0, <1>2, <3>2, TodoIs DEF Filled, NextFilled
  <2>3. c = answered
    BY <1>2, <2>2
  <2>4. answered' = answered
    BY <1>2, <1>9, <2>3 DEF Files!InsertRow, Files!Answered
  <2>. QED
    BY <1>2, <1>5, <1>9, <2>3, <2>4 DEF Content, NextContent, NextFilled, WriteStep
<1>10. CASE Files!UpdateRow(q)
  <2>1. Filled(q) /\ Writing(q) /\ ~fileMet
    BY <1>0, <1>5, <1>10, WriterMoves, TodoIs DEF TodoMoves, Filled, NextFilled, WriteStep
  <2>2. answered = 0
    BY <1>0, <2>1 DEF FillInv, Filled, NextFilled
  <2>3. c = q
    BY <1>2, <2>1, <2>2, WritersAreAlone DEF Filled, NextFilled
  <2>4. answered' = q
    BY <1>2, <1>10, <2>2, <2>3 DEF Files!UpdateRow, Files!Answered
  <2>. QED
    BY <1>2, <1>5, <1>10, <2>3, <2>4 DEF Content, NextContent, NextFilled, WriteStep
<1>. QED
  BY <1>1, <1>4, <1>5, <1>7, <1>8, <1>9, <1>10

LEMMA ContentInvKept ==
  ASSUME FileAssumption, FileInv, MediaTypes', Files!MediaNext
  PROVE  ContentInv'
<1>0. MediaTypes /\ FirstInv /\ UploadInv /\ FillInv /\ ContentInv /\ NamesInv
  BY DEF FileInv
<1>. SUFFICES ASSUME ~fileMet' PROVE ContentInv'
  BY DEF ContentInv
<1>1. PICK q \in FileRequests : OpensFile(q) \/ WriteStep(q) \/ ReadStep(q) \/ Files!Stop(q)
  BY NextIsFileStep
<1>2. object \in FileRequests \cup {0} /\ answered \in FileRequests \cup {0} /\ 0 \notin FileRequests
  BY <1>0, FileAssumption DEF MediaTypes
<1>3. CASE OpensFile(q)
  <2>1. /\ UNCHANGED <<object, fileRow, answered, gone>> /\ ~fileMet /\ ~Files!Begun(q) /\ empty \subseteq empty'
        /\ empty' \subseteq empty \cup {q} /\ (Files!Known' <=> Files!Known)
        /\ \A p \in FileRequests \ {q} : fileReq'[p].op = fileReq[p].op /\ fileReq'[p].todo = fileReq[p].todo
        /\ fileReq[q].op = "none"
    BY <1>0, <1>3, OpensFileMoves, TodoIs DEF Files!Known
  <2>2. Files!Deleting => Files!Deleting'
    BY <2>1 DEF Files!Deleting
  <2>3. object # q /\ answered # q
    BY <1>0, <1>2, <2>1 DEF NamesInv
  <2>4. Content(object) => NextContent(object)
    BY <1>2, <2>1, ContentStays
  <2>5. object \in FileRequests => (NextFilled(object) <=> Filled(object))
    BY <2>1, <2>3 DEF Filled, NextFilled
  <2>6. Files!Known' => \/ object' = 0
                        \/ (object' \in empty' \/ NextContent(object'))
                           /\ ((fileRow'.there /\ fileRow'.type = object') \/ NextFilled(object'))
    BY <1>0, <1>2, <2>1, <2>4, <2>5 DEF ContentInv
  <2>7. answered' # 0 => answered' \notin empty'
    BY <1>0, <2>1, <2>3 DEF ContentInv
  <2>. QED
    BY <1>0, <2>1, <2>2, <2>6, <2>7 DEF ContentInv, Content, Filled, NextContent, NextFilled
<1>4. ASSUME WriteStep(q) \/ ReadStep(q) \/ Files!Stop(q)
      PROVE  /\ ~fileMet /\ empty' = empty /\ Files!IsOpen(q)
             /\ \A p \in FileRequests \ {q} : NextFilled(p) <=> Filled(p)
             /\ (\E p \in FileRequests : fileReq[p].op = "delete")
                => (\E p \in FileRequests : fileReq'[p].op = "delete")
  BY <1>0, <1>4, StepsMove, MovedKeeps DEF MovedBy, Filled, NextFilled
<1>5. CASE Files!CheckRow(q) \/ Files!SelectRow(q) \/ ReadStep(q) \/ Files!Stop(q)
  <2>1. QuietStep(q) /\ (WriteStep(q) \/ ReadStep(q) \/ Files!Stop(q))
    BY <1>0, <1>5, QuietSteps DEF WriteStep
  <2>2. Files!Deleting => Files!Deleting'
    BY <1>4, <2>1 DEF Files!Deleting, QuietStep
  <2>3. Content(object) => NextContent(object)
    BY <1>2, ContentStays
  <2>4. ~Filled(q)
    <3>1. Files!Filling # <<"updateRow">> /\ Files!Purge # <<"updateRow">>
      BY DEF Files!Filling, Files!Purge
    <3>2. Files!CheckRow(q) \/ Files!SelectRow(q) => ~Filled(q)
      BY <1>0, <3>1, WriterMoves DEF TodoMoves, Filled, NextFilled
    <3>3. ReadStep(q) => ~Filled(q)
      BY <1>0, ReadMoves, TodoIs DEF Filled, NextFilled
    <3>. QED
      BY <1>5, <2>1, <3>2, <3>3 DEF QuietStep
  <2>5. object \in FileRequests /\ Filled(object) => NextFilled(object)
    BY <1>4, <2>1, <2>4
  <2>6. Files!Known' => \/ object' = 0
                        \/ (object' \in empty' \/ NextContent(object'))
                           /\ ((fileRow'.there /\ fileRow'.type = object') \/ NextFilled(object'))
    BY <1>0, <1>2, <1>4, <2>1, <2>3, <2>5 DEF ContentInv, QuietStep, Files!Known
  <2>. QED
    BY <1>0, <1>4, <2>1, <2>2, <2>6 DEF ContentInv, Content, Filled, NextContent, NextFilled, QuietStep
<1>6. CASE Files!InsertPlaceholder(q)
  <2>1. fileReq[q].op = "create" /\ Files!IsOpen(q) /\ fileRow'.there /\ UNCHANGED <<object, answered, gone>>
    BY <1>0, <1>6, WriterMoves DEF TodoMoves, Files!IsOpen, Files!InsertPlaceholder
  <2>2. ~Files!Known
    BY <1>0, <2>1 DEF UploadInv
  <2>3. object = 0 /\ answered = 0 /\ ~gone
    BY <1>0, <2>1, <2>2 DEF FirstInv, Files!Known
  <2>. QED
    BY <2>1, <2>3 DEF ContentInv, Content, Filled, NextContent, NextFilled
<1>7. CASE Files!InsertRow(q)
  <2>1. /\ fileReq[q].op = "upload" /\ Files!IsOpen(q) /\ fileReq[q].todo = <<"insertRow">>
           /\ fileRow' = Files!RowFor(q)
        /\ UNCHANGED <<object, gone>> /\ empty' = empty
    BY <1>0, <1>4, <1>7, WriterMoves DEF TodoMoves, Files!IsOpen, Files!InsertRow, WriteStep
  <2>2. ~Files!Known
    BY <1>0, <2>1 DEF UploadInv
  <2>3. object = q /\ answered = 0 /\ ~gone
    BY <1>0, <2>1, <2>2 DEF FirstInv, Files!Known
  <2>4. answered' = IF q \notin empty THEN q ELSE 0
    BY <1>7, <2>3 DEF Files!InsertRow, Files!Answered
  <2>5. fileRow'.there /\ fileRow'.type = q /\ (fileRow'.full <=> q \notin empty)
    BY <1>0, <2>1, RowsAreTyped
  <2>6. q \notin empty => NextContent(object')
    BY <1>2, <2>1, <2>3, <2>4 DEF Content, NextContent, NextFilled
  <2>. QED
    BY <2>1, <2>3, <2>4, <2>5, <2>6 DEF ContentInv, Content, Filled, NextContent, NextFilled
<1>8. CASE Files!UpdateRow(q)
  <2>1. /\ Filled(q) /\ Writing(q) /\ ~fileMet /\ empty' = empty /\ UNCHANGED <<object, gone>>
    BY <1>0, <1>4, <1>8, WriterMoves, TodoIs DEF TodoMoves, Filled, NextFilled, WriteStep, Files!UpdateRow
  <2>2. fileRow.there /\ answered = 0 /\ object = q
    BY <1>0, <2>1 DEF FillInv, Filled, NextFilled
  <2>3. ~gone
    BY <1>0, <2>1, <2>2 DEF ContentInv, Files!NoRow
  <2>4. answered' = (IF q \notin empty THEN q ELSE 0) /\ fileRow' = Files!RowFor(q)
    BY <1>8, <2>2 DEF Files!UpdateRow, Files!Answered
  <2>5. fileRow'.there /\ fileRow'.type = q /\ (fileRow'.full <=> q \notin empty)
    BY <1>0, <2>4, RowsAreTyped
  <2>6. q \notin empty => NextContent(object')
    BY <1>2, <2>1, <2>2, <2>4 DEF Content, NextContent, NextFilled
  <2>. QED
    BY <2>1, <2>2, <2>3, <2>4, <2>5, <2>6 DEF ContentInv, Content, Filled, NextContent, NextFilled
<1>9. CASE Files!PutObject(q)
  <2>1. /\ UNCHANGED <<fileRow, answered, gone>> /\ object' = q /\ empty' = empty /\ ~fileMet
        /\ \/ fileReq[q].op = "upload" /\ Files!IsOpen(q)
           \/ fileReq[q].todo = <<"putObject", "updateRow">> /\ fileReq'[q].todo = <<"updateRow">>
    BY <1>0, <1>4, <1>9, WriterMoves DEF TodoMoves, Files!IsOpen, Files!PutObject, WriteStep
  <2>2. CASE fileReq[q].op = "upload" /\ Files!IsOpen(q)
    <3>1. ~Files!Known /\ ~Files!Known' /\ answered = 0
      BY <1>0, <2>1, <2>2 DEF UploadInv, FirstInv, Files!Known
    <3>. QED
      BY <2>1, <3>1 DEF ContentInv, Content, Filled, NextContent, NextFilled, Files!Known
  <2>3. CASE fileReq[q].todo = <<"putObject", "updateRow">> /\ fileReq'[q].todo = <<"updateRow">>
    <3>1. fileRow.there /\ answered = 0
      BY <1>0, <2>1, <2>3 DEF FillInv
    <3>2. ~gone
      BY <1>0, <2>1, <3>1 DEF ContentInv, Files!NoRow
    <3>3. NextFilled(object') /\ (object' \in empty' \/ NextContent(object'))
      BY <1>2, <2>1, <2>3 DEF Filled, Content, NextContent, NextFilled
    <3>. QED
      BY <2>1, <3>1, <3>2, <3>3 DEF ContentInv, Content, Filled, NextContent, NextFilled
  <2>. QED
    BY <2>1, <2>2, <2>3
<1>10. CASE Files!DropObject(q) \/ Files!DropRow(q)
  <2>1. fileReq[q].op = "delete" /\ answered' = answered /\ empty' = empty /\ ~fileMet
    BY <1>0, <1>4, <1>10, WriterMoves DEF TodoMoves, Files!DropObject, Files!DropRow, WriteStep
  <2>2. Files!Deleting'
    BY <1>4, <1>10, <2>1 DEF Files!Deleting, WriteStep
  <2>3. CASE Files!DropObject(q)
    <3>1. object' = 0 /\ fileRow' = fileRow /\ gone' = gone
      BY <2>3 DEF Files!DropObject
    <3>. QED
      BY <1>0, <2>1, <2>2, <3>1 DEF ContentInv, Content, Filled, NextContent, NextFilled
  <2>4. CASE Files!DropRow(q)
    <3>1. object' = object /\ fileRow' = Files!NoRow /\ fileReq[q].todo = <<"dropRow">>
      BY <1>0, <2>4, WriterMoves DEF Files!DropRow, TodoMoves
    <3>2. object = 0 /\ ~Files!NoRow.there
      BY <1>0, <2>1, <3>1 DEF FillInv, Files!NoRow
    <3>. QED
      BY <1>0, <2>1, <2>2, <3>1, <3>2 DEF ContentInv, Content, Filled, NextContent, NextFilled
  <2>. QED
    BY <1>10, <2>3, <2>4
<1>. QED
  BY <1>1, <1>3, <1>5, <1>6, <1>7, <1>8, <1>9, <1>10 DEF WriteStep

LEMMA ReadInvKept ==
  ASSUME FileAssumption, FileInv, MediaTypes', Files!MediaNext
  PROVE  ReadInv'
<1>0. MediaTypes /\ FirstInv /\ UploadInv /\ FileAloneInv /\ ContentInv /\ ReadInv
  BY DEF FileInv
<1>. SUFFICES ASSUME ~fileMet' PROVE ReadInv'
  BY DEF ReadInv
<1>1. PICK q \in FileRequests : OpensFile(q) \/ WriteStep(q) \/ ReadStep(q) \/ Files!Stop(q)
  BY NextIsFileStep
<1>2. \A c \in FileRequests \cup {0} : Content(c) => NextContent(c)
  BY ContentStays
<1>3. thumb \in FileRequests \cup {0} /\ \A p \in FileRequests : fileReq[p].seen \in FileRequests \cup {0}
  BY <1>0 DEF MediaTypes, FileCalls
<1>4. \A g \in given : Content(g[1]) => NextContent(g[1])
  <2>1. ASSUME NEW c, Content(c) PROVE c \in FileRequests
    BY <1>0, <2>1 DEF Content, NextContent, NextFilled, MediaTypes
  <2>. QED
    BY <1>2, <2>1
<1>5. ASSUME ~fileMet, empty \subseteq empty', given' = given
      PROVE  \A g \in given' : g[2] = g[1] /\ (g[1] \in empty' \/ NextContent(g[1]))
  BY <1>0, <1>4, <1>5 DEF ReadInv
<1>6. CASE OpensFile(q)
  <2>1. /\ UNCHANGED <<object, fileRow, thumb, given>> /\ ~fileMet /\ empty \subseteq empty'
           /\ fileReq'[q].todo \notin LateTodos
        /\ \A p \in FileRequests \ {q} : fileReq'[p].todo = fileReq[p].todo /\ fileReq'[p].seen = fileReq[p].seen
        /\ \A p \in FileRequests \ {q} : Files!IsOpen(p) /\ fileReq'[p].alone => fileReq[p].alone
    BY <1>0, <1>6, OpensFileMoves
  <2>2. fileReq'[q].todo \notin {<<"getRow">>, <<"putThumb">>}
    BY <2>1 DEF LateTodos
  <2>3. \A p \in FileRequests : fileReq'[p].todo = <<"putThumb">> => NextContent(fileReq'[p].seen)
    BY <1>0, <1>2, <1>3, <2>1, <2>2 DEF ReadInv
  <2>4. \A p \in FileRequests : fileReq'[p].todo = <<"getRow">> /\ fileReq'[p].alone =>
          fileRow'.there /\ fileRow'.type = fileReq'[p].seen
              /\ (fileReq'[p].seen \in empty' \/ NextContent(fileReq'[p].seen))
    <3>1. ASSUME NEW p \in FileRequests \ {q}, fileReq'[p].todo = <<"getRow">>, fileReq'[p].alone
          PROVE  fileRow'.there /\ fileRow'.type = fileReq'[p].seen
                   /\ (fileReq'[p].seen \in empty' \/ NextContent(fileReq'[p].seen))
      <4>1. fileReq[p].todo = <<"getRow">> /\ fileReq'[p].seen = fileReq[p].seen /\ fileReq[p].alone
        BY <1>0, <2>1, <3>1, TodoIs
      <4>2. fileRow.there /\ fileRow.type = fileReq[p].seen /\ (fileReq[p].seen \in empty \/ Content(fileReq[p].seen))
        BY <1>0, <2>1, <4>1 DEF ReadInv
      <4>3. fileReq[p].seen \in FileRequests \cup {0}
        BY <1>3
      <4>. QED
        BY <1>2, <2>1, <4>1, <4>2, <4>3
    <3>. QED
      BY <2>2, <3>1
  <2>5. thumb' # 0 => NextContent(thumb')
    BY <1>0, <1>2, <1>3, <2>1 DEF ReadInv
  <2>. QED
    BY <1>5, <2>1, <2>3, <2>4, <2>5 DEF ReadInv, Content, Filled, NextContent, NextFilled
<1>7. ASSUME WriteStep(q) \/ ReadStep(q) \/ Files!Stop(q)
      PROVE  /\ ~fileMet /\ empty' = empty /\ \A p \in FileRequests \ {q} : fileReq'[p] = fileReq[p]
  BY <1>0, <1>7, StepsMove, MovedKeeps DEF MovedBy, Filled, NextFilled
<1>8. CASE WriteStep(q) \/ Files!Stop(q)
  <2>1. UNCHANGED <<thumb, given>>
    BY <1>8 DEF Files!Stop, WriteStep, Files!InsertPlaceholder, Files!CheckRow, Files!PutObject, Files!InsertRow,
                Files!UpdateRow, Files!SelectRow, Files!DropObject, Files!DropRow
  <2>2. fileReq'[q].todo \notin {<<"getRow">>, <<"putThumb">>}
    <3>1. /\ <<>> \notin {<<"getRow">>, <<"putThumb">>}
             /\ <<"putObject", "updateRow">> \notin {<<"getRow">>, <<"putThumb">>}
          /\ <<"insertRow">> \notin {<<"getRow">>, <<"putThumb">>}
             /\ <<"updateRow">> \notin {<<"getRow">>, <<"putThumb">>}
          /\ <<"dropRow">> \notin {<<"getRow">>, <<"putThumb">>}
             /\ Files!Deletion \notin {<<"getRow">>, <<"putThumb">>}
      BY DEF Files!Deletion
    <3>2. CASE Files!InsertPlaceholder(q) \/ Files!CheckRow(q) \/ Files!InsertRow(q) \/ Files!UpdateRow(q)
      BY <1>0, <3>1, <3>2, WriterMoves DEF TodoMoves
    <3>3. CASE Files!PutObject(q)
      BY <1>0, <3>1, <3>3, WriterMoves DEF TodoMoves
    <3>4. CASE Files!SelectRow(q) \/ Files!DropObject(q) \/ Files!DropRow(q) \/ Files!Stop(q)
      BY <1>0, <3>1, <3>4, WriterMoves DEF TodoMoves
    <3>. QED
      BY <1>8, <3>2, <3>3, <3>4 DEF WriteStep
  <2>3. \A p \in FileRequests : fileReq'[p].todo = <<"putThumb">> => NextContent(fileReq'[p].seen)
    BY <1>0, <1>2, <1>3, <1>7, <1>8, <2>2 DEF ReadInv
  <2>4. ASSUME NEW p \in FileRequests \ {q}, fileReq'[p].todo = <<"getRow">>, fileReq'[p].alone
        PROVE  fileRow'.there /\ fileRow'.type = fileReq'[p].seen
                 /\ (fileReq'[p].seen \in empty' \/ NextContent(fileReq'[p].seen))
    <3>1. fileReq[p].todo = <<"getRow">> /\ fileReq'[p].seen = fileReq[p].seen /\ fileReq[p].alone
      BY <1>7, <1>8, <2>4
    <3>2. fileReq[p].op = "read" /\ Files!IsOpen(p)
      BY <1>0, <3>1, TodoIs
    <3>3. ~Writing(q)
      BY <1>0, <3>1, <3>2 DEF FileAloneInv
    <3>4. Files!Known
      BY <1>0, <3>2 DEF FirstInv
    <3>5. fileRow' = fileRow
      <4>1. CASE Files!Stop(q)
        BY <4>1 DEF Files!Stop
      <4>2. CASE WriteStep(q)
        <5>1. ~Files!InsertPlaceholder(q)
          BY <1>0, <3>4, WriterMoves DEF TodoMoves, UploadInv, Files!IsOpen
        <5>2. ASSUME WriteStep(q) PROVE Writing(q)
          BY <1>0, <5>1, <5>2, WriterMoves DEF WriteStep, TodoMoves, Writing, Files!IsOpen, Files!Writers
        <5>. QED
          BY <3>3, <4>2, <5>2
      <4>. QED
        BY <1>8, <4>1, <4>2
    <3>. QED
      BY <1>0, <1>2, <1>3, <1>7, <1>8, <3>1, <3>5, ZenonT(40) DEF ReadInv, Content, Filled, NextContent, NextFilled
  <2>5. thumb' # 0 => NextContent(thumb')
    BY <1>0, <1>2, <1>3, <1>7, <1>8, <2>1 DEF ReadInv
  <2>. QED
    BY <1>5, <1>7, <1>8, <2>1, <2>2, <2>3, <2>4, <2>5 DEF ReadInv, Content, Filled, NextContent, NextFilled
<1>9. CASE ReadStep(q)
  <2>1. /\ UNCHANGED <<object, fileRow>> /\ ~fileMet /\ empty' = empty
           /\ \A p \in FileRequests \ {q} : fileReq'[p] = fileReq[p]
        /\ fileReq[q].op = "read" /\ Files!IsOpen(q)
        /\ fileReq'[q].todo # <<>> => fileReq'[q].alone = fileReq[q].alone
        /\ fileReq'[q].todo = <<"getRow">> => object # 0 /\ fileReq'[q].seen = object
        /\ fileReq'[q].todo = <<"putThumb">> => object \notin {0} \cup empty /\ fileReq'[q].seen = object
        /\ thumb' = thumb \/ (fileReq[q].todo = <<"putThumb">> /\ thumb' = fileReq[q].seen)
        /\ \/ given' = given
           \/ fileReq[q].todo = <<"getRow">> /\ Gave(q, fileReq[q].seen, fileRow.type)
           \/ fileReq[q].todo = <<"putThumb">> /\ Gave(q, fileReq[q].seen, fileReq[q].seen)
           \/ thumb # 0 /\ Gave(q, thumb, thumb)
    BY <1>0, <1>7, <1>9, ReadMoves
  <2>2. Files!Known /\ object \in FileRequests \cup {0}
    BY <1>0, <2>1 DEF FirstInv, MediaTypes
  <2>3. object # 0 => (object \in empty' \/ NextContent(object))
    BY <1>0, <1>2, <2>1, <2>2 DEF ContentInv
  <2>4. object \notin {0} \cup empty => NextContent(object)
    BY <2>1, <2>3
  <2>5. ASSUME NEW p \in FileRequests, fileReq'[p].todo = <<"putThumb">> PROVE NextContent(fileReq'[p].seen)
    <3>1. CASE p # q
      BY <1>0, <1>2, <1>3, <2>1, <2>5, <3>1 DEF ReadInv
    <3>2. CASE p = q
      BY <2>1, <2>4, <2>5, <3>2
    <3>. QED
      BY <3>1, <3>2
  <2>6. ASSUME NEW p \in FileRequests, fileReq'[p].todo = <<"getRow">>, fileReq'[p].alone
        PROVE  fileRow'.there /\ fileRow'.type = fileReq'[p].seen
                 /\ (fileReq'[p].seen \in empty' \/ NextContent(fileReq'[p].seen))
    <3>1. CASE p # q
      BY <1>0, <1>2, <1>3, <2>1, <2>6, <3>1 DEF ReadInv
    <3>2. CASE p = q
      <4>1. fileReq'[q].seen = object /\ object # 0 /\ fileReq[q].alone
        <5>1. <<"getRow">> # <<>>
          OBVIOUS
        <5>. QED
          BY <2>1, <2>6, <3>2, <5>1
      <4>2. \A r \in FileRequests : ~Writing(r)
        BY <1>0, <2>1, <4>1 DEF FileAloneInv
      <4>3. ~Filled(object)
        BY <1>0, <2>2, <4>1, <4>2, TodoIs DEF Filled, NextFilled
      <4>4. fileRow.there /\ fileRow.type = object
        BY <1>0, <2>1, <2>2, <4>1, <4>3 DEF ContentInv
      <4>. QED
        BY <2>1, <2>3, <3>2, <4>1, <4>4
    <3>. QED
      BY <3>1, <3>2
  <2>7. thumb' # 0 => NextContent(thumb')
    BY <1>0, <1>2, <1>3, <2>1 DEF ReadInv
  <2>8. \A g \in given' : g[2] = g[1] /\ (g[1] \in empty' \/ NextContent(g[1]))
    <3>1. CASE given' = given
      BY <1>5, <2>1, <3>1
    <3>2. ASSUME NEW c, NEW type, Gave(q, c, type), type = c, c \in empty' \/ NextContent(c)
          PROVE  \A g \in given' : g[2] = g[1] /\ (g[1] \in empty' \/ NextContent(g[1]))
      BY <1>0, <1>4, <2>1, <3>2 DEF ReadInv, Gave
    <3>3. CASE fileReq[q].todo = <<"getRow">> /\ Gave(q, fileReq[q].seen, fileRow.type)
      <4>1. fileRow.type = fileReq[q].seen /\ (fileReq[q].seen \in empty' \/ NextContent(fileReq[q].seen))
        BY <1>0, <1>2, <1>3, <2>1, <3>3 DEF ReadInv, Gave
      <4>. QED
        BY <3>2, <3>3, <4>1
    <3>4. CASE fileReq[q].todo = <<"putThumb">> /\ Gave(q, fileReq[q].seen, fileReq[q].seen)
      <4>1. NextContent(fileReq[q].seen)
        BY <1>0, <1>2, <1>3, <2>1, <3>4 DEF ReadInv
      <4>. QED
        BY <3>2, <3>4, <4>1
    <3>5. CASE thumb # 0 /\ Gave(q, thumb, thumb)
      <4>1. NextContent(thumb)
        BY <1>0, <1>2, <1>3, <2>1, <3>5 DEF ReadInv
      <4>. QED
        BY <3>2, <3>5, <4>1
    <3>. QED
      BY <2>1, <3>1, <3>3, <3>4, <3>5
  <2>. QED
    BY <2>5, <2>6, <2>7, <2>8 DEF ReadInv, Content, Filled, NextContent, NextFilled
<1>. QED
  BY <1>1, <1>6, <1>8, <1>9

LEMMA InitFile ==
  ASSUME FileAssumption, Files!MediaInit
  PROVE  FileInv
<1>1. Files!Idle \in FileCalls /\ Files!Idle.op = "none" /\ Files!Idle.todo = <<>>
  BY DEF Files!Idle, FileCalls, FileOps
<1>2. <<>> \in FileTodos["none"]
  BY DEF FileTodos
<1>3. MediaTypes
  BY <1>1, <1>2 DEF Files!MediaInit, MediaTypes, Files!NoRow
<1>4. \A q \in FileRequests : fileReq[q].op = "none" /\ fileReq[q].todo = <<>> /\ ~Files!IsOpen(q) /\ ~Files!Begun(q)
  BY <1>1 DEF Files!MediaInit, Files!IsOpen, Files!Begun
<1>5. /\ ~Files!Known /\ object = 0 /\ answered = 0 /\ thumb = 0 /\ given = {} /\ empty = {} /\ ~gone
  BY DEF Files!MediaInit, Files!Known, Files!NoRow
<1>6. FirstInv /\ UploadInv /\ FileAloneInv /\ NamesInv
  <2>1. FirstInv
    <3>1. <<"insertRow">> # <<>>
      OBVIOUS
    <3>. QED
      BY <1>4, <1>5, <3>1 DEF FirstInv
  <2>2. UploadInv /\ NamesInv
    BY <1>5 DEF UploadInv, NamesInv
  <2>3. FileAloneInv
    BY <1>4 DEF FileAloneInv, Writing
  <2>. QED
    BY <1>4, <1>5, <2>1, <2>2, <2>3
<1>7. FillInv /\ ReadInv /\ ContentInv
  <2>1. \A d \in {<<"putObject", "updateRow">>, <<"updateRow">>, <<"dropRow">>, <<"putThumb">>,
          <<"getRow">>} : d # <<>>
    OBVIOUS
  <2>. QED
    BY <1>4, <1>5, <2>1 DEF FillInv, ReadInv, ContentInv, Filled
<1>. QED
  BY <1>3, <1>6, <1>7 DEF FileInv

LEMMA FileInvariance == Files!MediaSpec => []FileInv
<1>1. Files!MediaInit => FileInv
  BY FileAssumption, InitFile
<1>2. FileInv /\ [Files!MediaNext]_(Files!mediaVars) => FileInv'
  <2>1. ASSUME FileInv, Files!MediaNext PROVE FileInv'
    <3>1. MediaTypes'
      BY <2>1, MediaTypesKept DEF FileInv
    <3>2. FirstInv' /\ UploadInv' /\ NamesInv' /\ FileAloneInv' /\ FillInv'
      BY <2>1, <3>1, FileAssumption, FirstKept, NamesKept, AloneKept, FillKept
    <3>3. ContentInv' /\ ReadInv'
      BY <2>1, <3>1, FileAssumption, ContentInvKept, ReadInvKept
    <3>. QED
      BY <3>1, <3>2, <3>3 DEF FileInv
  <2>2. ASSUME FileInv, UNCHANGED Files!mediaVars PROVE FileInv'
    <3>1. MediaTypes' /\ FirstInv' /\ UploadInv' /\ NamesInv'
      BY <2>2 DEF Files!mediaVars, FileInv, MediaTypes, FirstInv, UploadInv, NamesInv, Files!Known, Files!Begun,
                  Files!IsOpen
    <3>2. FileAloneInv' /\ FillInv'
      BY <2>2 DEF Files!mediaVars, FileInv, FileAloneInv, FillInv, Writing, Filled, Files!IsOpen
    <3>3. ContentInv' /\ ReadInv'
      BY <2>2 DEF Files!mediaVars, FileInv, ContentInv, ReadInv, Files!Known, Content, Filled, Files!Deleting
    <3>. QED
      BY <3>1, <3>2, <3>3 DEF FileInv
  <2>. QED
    BY <2>1, <2>2
<1>. QED
  BY <1>1, <1>2, PTL DEF Files!MediaSpec

LEMMA InvMediaSound == ASSUME FileInv PROVE Files!MediaSound
<1>0. MediaTypes /\ FileAloneInv /\ FillInv /\ ContentInv /\ ReadInv
  BY DEF FileInv
<1>1. Files!ContentKept /\ Files!DeletedStaysAway
  BY <1>0 DEF Files!ContentKept, Files!DeletedStaysAway, ContentInv
<1>2. ASSUME ~fileMet, NEW c, NEW d, Content(c), Content(d) PROVE c = d
  <2>1. ASSUME NEW q \in FileRequests, Filled(q) PROVE answered = 0 /\ Writing(q)
    BY <1>0, <1>2, <2>1, TodoIs DEF FillInv, Filled
  <2>. QED
    BY <1>0, <1>2, <2>1 DEF Content, FileAloneInv
<1>3. Files!DownloadsAgree
  BY <1>0, <1>2 DEF Files!DownloadsAgree, ReadInv
<1>. QED
  BY <1>1, <1>3 DEF Files!MediaSound

LEMMA FileRuns == ServicesSpec => Files!MediaSpec
<1>1. ServicesInit => Files!MediaInit
  BY DEF ServicesInit
<1>2. [ServicesNext]_servicesVars => [Files!MediaNext]_(Files!mediaVars)
  BY DEF ServicesNext, servicesVars, fileVars, Files!mediaVars
<1>. QED
  BY <1>1, <1>2, PTL DEF ServicesSpec, Files!MediaSpec

(* A content stays what its id stands for until it is deleted, a deleted file is gone, and downloads agree, when
   no two requests that write overlap (media.ts, admin.ts). *)
THEOREM FilesAreSound == ServicesSpec => []MediaSound
<1>1. Files!MediaSound => MediaSound
  BY DEF MediaSound
<1>. QED
  BY FileRuns, FileInvariance, InvMediaSound, <1>1, PTL
=============================================================================
