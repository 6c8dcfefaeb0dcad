------------------------ MODULE DeviceServicesProofs ------------------------
(* Proofs of the properties of a device's keys (DeviceKeys), for any       *)
(* number of uploads, signatures and clients, of the cross-signing keys    *)
(* (CrossSigning) and of an account's sessions (Accounts), for any number  *)
(* of requests.                                                            *)
EXTENDS DeviceServices, Sequences, FiniteSetTheorems, TLAPS

(* A device's keys.  What the requests hold half-way is the strengthening. *)

(* A signature upload that is to write keys has read some, and every one that
   began has its row. *)
SignInv ==
  \A s \in Signs :
    /\ phase[s] = "merging" => copy[s].upload # NoKeys
    /\ phase[s] # "new" => s \in signatures

(* Queries ask for stored signatures only. *)
AskedInv == \A c \in Clients : asked[c] \subseteq signatures

(* The uploads are numbered in the order in which they reached the object. *)
Ranked == {u \in Uploads : rank[u] > 0}

RankInv ==
  /\ \A u \in Uploads : rank[u] <= Cardinality(Ranked)
  /\ \A u \in Uploads : phase[u] = "new" => rank[u] = 0

(* Without a crossing nobody holds keys newer than the object's, and what a
   signature upload has read is still current. *)
LatestInv ==
  ~ crossed =>
    /\ \A c \in Clients : Rank(known[c]) <= Rank(keys)
    /\ \A s \in Signs : phase[s] = "merging" => copy[s].upload = keys.upload

Inv == TypeOK /\ SignInv /\ AskedInv /\ SignaturesSurvive

OrderInv == RankInv /\ LatestInv

-----------------------------------------------------------------------------
(* The disjuncts of Next without their grouping. *)
Step ==
  \/ \E u \in Uploads : PutKeys(u)
  \/ \E s \in Signs : StoreSignature(s)
  \/ \E s \in Signs : ReadKeys(s)
  \/ \E s \in Signs : PutMerged(s)
  \/ \E r \in Requests : Bump(r)
  \/ \E r \in Requests : ReadPosition(r)
  \/ \E r \in Requests : RecordChange(r)
  \/ \E r \in Requests : Stop(r)
  \/ StoreEvent
  \/ \E c \in Clients : SyncStart(c)
  \/ \E c \in Clients : ListChanges(c)
  \/ \E c \in Clients : QueryKeys(c)
  \/ \E c \in Clients : QuerySignatures(c)

LEMMA NextIsStep == Next => Step
  BY DEF Next, RequestStep, ClientStep, Step

LEMMA InitInv == ConstantsAssumption /\ Init => Inv /\ ChangesRecorded
<1> SUFFICES ASSUME ConstantsAssumption, Init PROVE Inv /\ ChangesRecorded
  OBVIOUS
<1>1. TypeOK
  BY DEF Init, TypeOK, DeviceKeys, Empty
<1>2. SignInv /\ AskedInv /\ SignaturesSurvive /\ ChangesRecorded
  BY DEF Init, SignInv, AskedInv, SignaturesSurvive, ChangesRecorded, Requests, Empty
<1>3. QED
  BY <1>1, <1>2 DEF Inv

LEMMA NextTypeOK == ConstantsAssumption /\ Inv /\ Next => TypeOK'
<1> SUFFICES ASSUME ConstantsAssumption, Inv, Step PROVE TypeOK'
  BY NextIsStep
<1> USE DEF TypeOK, Requests, ConstantsAssumption, DeviceKeys, Empty
<1>0. TypeOK /\ SignInv
  BY DEF Inv
<1>1. ASSUME NEW u \in Uploads, PutKeys(u) PROVE TypeOK'
  <2>1. rank' \in [Uploads -> Nat]
    <3>1. Cardinality({v \in Uploads : rank[v] > 0}) \in Nat
      BY FS_Subset, FS_CardinalityType
    <3>2. QED
      BY <1>0, <1>1, <3>1 DEF PutKeys
  <2>2. keys' \in DeviceKeys /\ (keys'.upload = NoKeys => keys' = Empty) /\ crossed' \in BOOLEAN
    BY <1>0, <1>1 DEF PutKeys
  <2>3. phase' \in [Requests -> {"new", "stored", "merging", "changed", "bumped", "recording",
                               "answered", "stopped"}]
    BY <1>0, <1>1 DEF PutKeys
  <2>4. QED
    BY <1>0, <1>1, <2>1, <2>2, <2>3 DEF PutKeys, changeVars, clientVars
<1>2. ASSUME NEW s \in Signs, StoreSignature(s) PROVE TypeOK'
  BY <1>0, <1>2 DEF StoreSignature, changeVars, clientVars
<1>3. ASSUME NEW s \in Signs, ReadKeys(s) PROVE TypeOK'
  BY <1>0, <1>3 DEF ReadKeys, keyVars, changeVars, clientVars
<1>4. ASSUME NEW s \in Signs, PutMerged(s) PROVE TypeOK'
  <2>1. copy[s] \in DeviceKeys /\ copy[s].upload # NoKeys
    BY <1>0, <1>4 DEF PutMerged, SignInv
  <2>2. keys' \in DeviceKeys /\ keys'.upload # NoKeys
    BY <1>4, <2>1 DEF PutMerged
  <2>3. QED
    BY <1>0, <1>4, <2>2 DEF PutMerged, changeVars, clientVars
<1>5. ASSUME NEW r \in Requests, Bump(r) PROVE TypeOK'
  BY <1>0, <1>5 DEF Bump, keyVars, clientVars
<1>6. ASSUME NEW r \in Requests, ReadPosition(r) PROVE TypeOK'
  BY <1>0, <1>6 DEF ReadPosition, keyVars, changeVars, clientVars
<1>7. ASSUME NEW r \in Requests, RecordChange(r) PROVE TypeOK'
  <2>1. changes' \subseteq Nat
    <3>1. at[r] \in Nat /\ changes \subseteq Nat
      BY <1>0
    <3>2. changes' = changes \cup {at[r]}
      BY <1>7 DEF RecordChange
    <3> HIDE DEF TypeOK
    <3>3. QED
      BY <3>1, <3>2
  <2>2. at' \in [Requests -> Nat]
    BY <1>0, <1>7 DEF RecordChange
  <2>3. phase' \in [Requests -> {"new", "stored", "merging", "changed", "bumped", "recording",
                               "answered", "stopped"}]
    BY <1>0, <1>7 DEF RecordChange
  <2>4. UNCHANGED <<keyVars, position, copy, clientVars, stops>> /\ unseen' = Clients
    BY <1>7 DEF RecordChange
  <2>5. QED
    BY <1>0, <2>1, <2>2, <2>3, <2>4 DEF keyVars, clientVars
<1>8. ASSUME NEW r \in Requests, Stop(r) PROVE TypeOK'
  BY <1>0, <1>8 DEF Stop, keyVars, changeVars, clientVars
<1>9. CASE StoreEvent
  BY <1>0, <1>9 DEF StoreEvent, keyVars, changeVars, requestVars
<1>10. ASSUME NEW c \in Clients, SyncStart(c) PROVE TypeOK'
  BY <1>0, <1>10 DEF SyncStart, keyVars, changeVars, requestVars
<1>11. ASSUME NEW c \in Clients, ListChanges(c) PROVE TypeOK'
  BY <1>0, <1>11 DEF ListChanges, keyVars, requestVars
<1>12. ASSUME NEW c \in Clients, QueryKeys(c) PROVE TypeOK'
  BY <1>0, <1>12 DEF QueryKeys, keyVars, requestVars
<1>13. ASSUME NEW c \in Clients, QuerySignatures(c) PROVE TypeOK'
  BY <1>0, <1>13 DEF QuerySignatures, keyVars, changeVars, requestVars
<1> HIDE DEF TypeOK
<1>14. QED
  BY <1>1, <1>2, <1>3, <1>4, <1>5, <1>6, <1>7, <1>8, <1>9, <1>10, <1>11, <1>12, <1>13 DEF Step

(* Rows of signatures stay, and a client's query asks for stored ones. *)
LEMMA NextSignInv == ConstantsAssumption /\ Inv /\ Next => SignInv' /\ AskedInv'
<1> SUFFICES ASSUME ConstantsAssumption, Inv, Step PROVE SignInv' /\ AskedInv'
  BY NextIsStep
<1> USE DEF SignInv, AskedInv, TypeOK, Requests, ConstantsAssumption
<1>0. TypeOK /\ SignInv /\ AskedInv
  BY DEF Inv
<1>1. CASE \E u \in Uploads : PutKeys(u)
  BY <1>0, <1>1 DEF PutKeys, clientVars
<1>2. CASE \E s \in Signs : StoreSignature(s)
  BY <1>0, <1>2 DEF StoreSignature, clientVars
<1>3. CASE \E s \in Signs : ReadKeys(s)
  <2>1. PICK s \in Signs : ReadKeys(s)
    BY <1>3
  <2>2. signatures' = signatures /\ asked' = asked
    BY <2>1 DEF ReadKeys, keyVars, clientVars
  <2>3. \A t \in Signs : phase'[t] # "new" => t \in signatures
    BY <1>0, <2>1 DEF ReadKeys
  <2>4. phase'[s] = "merging" => copy'[s].upload # NoKeys
    BY <1>0, <2>1 DEF ReadKeys
  <2>5. \A t \in Signs \ {s} : phase'[t] = phase[t] /\ copy'[t] = copy[t]
    BY <1>0, <2>1 DEF ReadKeys
  <2>6. QED
    BY <1>0, <2>2, <2>3, <2>4, <2>5
<1>4. CASE \E s \in Signs : PutMerged(s)
  BY <1>0, <1>4 DEF PutMerged, clientVars
<1>5. CASE \E r \in Requests : Bump(r) \/ ReadPosition(r)
  BY <1>0, <1>5 DEF Bump, ReadPosition, keyVars, clientVars
<1>6. CASE \E r \in Requests : RecordChange(r) \/ Stop(r)
  BY <1>0, <1>6 DEF RecordChange, Stop, keyVars, clientVars
<1>7. CASE StoreEvent
  BY <1>0, <1>7 DEF StoreEvent, keyVars, requestVars
<1>8. CASE \E c \in Clients : SyncStart(c) \/ ListChanges(c) \/ QuerySignatures(c)
  BY <1>0, <1>8 DEF SyncStart, ListChanges, QuerySignatures, keyVars, requestVars
<1>9. CASE \E c \in Clients : QueryKeys(c)
  BY <1>0, <1>9 DEF QueryKeys, keyVars, requestVars
<1>10. QED
  BY <1>1, <1>2, <1>3, <1>4, <1>5, <1>6, <1>7, <1>8, <1>9 DEF Step

LEMMA NextSignaturesSurvive == ConstantsAssumption /\ Inv /\ Next => SignaturesSurvive'
<1> SUFFICES ASSUME ConstantsAssumption, Inv, Step, NEW c \in Clients,
                    client'[c] # "merging", known'[c] # Empty
             PROVE  asked'[c] \subseteq known'[c].signed
  BY NextIsStep DEF SignaturesSurvive
<1>0. TypeOK /\ AskedInv /\ SignaturesSurvive
  BY DEF Inv
<1>1. CASE known' = known /\ asked' = asked /\ client'[c] = client[c]
  BY <1>0, <1>1 DEF SignaturesSurvive
<1>2. CASE \E d \in Clients : SyncStart(d) \/ ListChanges(d)
  <2>1. known' = known /\ asked' = asked /\ client[c] # "merging"
    BY <1>0, <1>2 DEF SyncStart, ListChanges, TypeOK
  <2>2. QED
    BY <1>0, <2>1 DEF SignaturesSurvive
<1>3. CASE \E d \in Clients : QueryKeys(d)
  <2>1. known'[c] = known[c] /\ asked'[c] = asked[c] /\ client[c] # "merging"
    BY <1>0, <1>3 DEF QueryKeys, TypeOK
  <2>2. QED
    BY <1>0, <2>1 DEF SignaturesSurvive
<1>4. CASE \E d \in Clients : QuerySignatures(d)
  <2>1. PICK d \in Clients : QuerySignatures(d)
    BY <1>4
  <2>2. CASE d = c
    <3>1. known[c] \in DeviceKeys /\ known[c] # Empty
      BY <1>0, <2>1, <2>2 DEF QuerySignatures, TypeOK
    <3>2. known'[c].signed = known[c].signed \cup signatures
      BY <1>0, <2>1, <2>2, <3>1 DEF QuerySignatures, TypeOK, DeviceKeys
    <3>3. QED
      BY <1>0, <2>1, <3>2 DEF QuerySignatures, AskedInv
  <2>3. CASE d # c
    <3>1. known'[c] = known[c] /\ asked' = asked /\ client'[c] = client[c]
      BY <1>0, <2>1, <2>3 DEF QuerySignatures, TypeOK
    <3>2. QED
      BY <1>0, <3>1 DEF SignaturesSurvive
  <2>4. QED
    BY <2>2, <2>3
<1>5. QED
  BY <1>1, <1>2, <1>3, <1>4
     DEF Step, PutKeys, StoreSignature, ReadKeys, PutMerged, Bump, ReadPosition, RecordChange,
         Stop, StoreEvent, clientVars

(* Whoever changed the object's keys has a change to record; a stopped worker may
   keep it to itself. *)
LEMMA NextChangesRecorded ==
  ConstantsAssumption /\ Inv /\ ChangesRecorded /\ Next => ChangesRecorded'
<1> SUFFICES ASSUME ConstantsAssumption, Inv, ChangesRecorded, Step, NEW c \in Clients,
                    known'[c].upload # keys'.upload, stops' = 0
             PROVE  c \in unseen' \/ \E r \in Requests : phase'[r] \in {"changed", "bumped", "recording"}
  BY NextIsStep DEF ChangesRecorded
<1> USE DEF Requests
<1>0. TypeOK
  BY DEF Inv
<1>1. CASE \E u \in Uploads : PutKeys(u)
  BY <1>0, <1>1 DEF PutKeys, TypeOK
<1>2. CASE \E s \in Signs : PutMerged(s)
  BY <1>0, <1>2 DEF PutMerged, TypeOK
<1>3. CASE \E s \in Signs : StoreSignature(s) \/ ReadKeys(s)
  <2>1. PICK s \in Signs : StoreSignature(s) \/ ReadKeys(s)
    BY <1>3
  <2>2. UNCHANGED <<keys, known, unseen, stops>> /\ phase[s] \in {"new", "stored"}
    BY <2>1 DEF StoreSignature, ReadKeys, keyVars, changeVars, clientVars
  <2>3. \A r \in Requests \ {s} : phase'[r] = phase[r]
    BY <1>0, <2>1 DEF StoreSignature, ReadKeys, TypeOK
  <2>4. QED
    BY <2>2, <2>3 DEF ChangesRecorded
<1>4. CASE \E r \in Requests : Bump(r) \/ ReadPosition(r)
  BY <1>0, <1>4 DEF Bump, ReadPosition, TypeOK
<1>5. CASE \E r \in Requests : RecordChange(r)
  BY <1>5 DEF RecordChange
<1>6. CASE \E r \in Requests : Stop(r)
  BY <1>0, <1>6 DEF Stop, TypeOK
<1>7. CASE StoreEvent \/ \E d \in Clients : SyncStart(d) \/ ListChanges(d)
  <2>1. UNCHANGED <<keys, known, unseen, stops, phase>>
    BY <1>7 DEF StoreEvent, SyncStart, ListChanges, keyVars, changeVars, requestVars
  <2>2. QED
    BY <2>1 DEF ChangesRecorded
<1>8. CASE \E d \in Clients : QueryKeys(d)
  <2>1. PICK d \in Clients : QueryKeys(d)
    BY <1>8
  <2>2. c # d /\ known'[c] = known[c] /\ (c \in unseen => c \in unseen')
    BY <1>0, <2>1 DEF QueryKeys, keyVars, TypeOK
  <2>3. UNCHANGED <<keys, stops, phase>>
    BY <2>1 DEF QueryKeys, keyVars, requestVars
  <2>4. QED
    BY <2>2, <2>3 DEF ChangesRecorded
<1>9. CASE \E d \in Clients : QuerySignatures(d)
  <2>1. known'[c].upload = known[c].upload
    BY <1>0, <1>9 DEF QuerySignatures, TypeOK, DeviceKeys
  <2>2. UNCHANGED <<keys, unseen, stops, phase>>
    BY <1>9 DEF QuerySignatures, keyVars, changeVars, requestVars
  <2>3. QED
    BY <2>1, <2>2 DEF ChangesRecorded
<1>10. QED
  BY <1>1, <1>2, <1>3, <1>4, <1>5, <1>6, <1>7, <1>8, <1>9 DEF Step

-----------------------------------------------------------------------------
(* The order of uploads *)

LEMMA InitOrderInv == ConstantsAssumption /\ Init => OrderInv
<1> SUFFICES ASSUME ConstantsAssumption, Init PROVE OrderInv
  OBVIOUS
<1>1. Ranked = {}
  BY DEF Init, Ranked
<1>2. RankInv
  BY <1>1, FS_EmptySet DEF Init, RankInv
<1>3. LatestInv
  BY DEF Init, LatestInv, Rank, Empty, Requests
<1>4. QED
  BY <1>2, <1>3 DEF OrderInv

LEMMA NextRankInv == ConstantsAssumption /\ Inv /\ OrderInv /\ Next => RankInv'
<1> SUFFICES ASSUME ConstantsAssumption, Inv, OrderInv, Step PROVE RankInv'
  BY NextIsStep
<1> USE DEF Requests, ConstantsAssumption
<1>0. TypeOK /\ RankInv
  BY DEF Inv, OrderInv
<1>1. CASE \E u \in Uploads : PutKeys(u)
  <2>1. PICK u \in Uploads : PutKeys(u)
    BY <1>1
  <2>2. rank[u] = 0 /\ u \notin Ranked
    BY <1>0, <2>1 DEF PutKeys, RankInv, Ranked
  <2>3. IsFiniteSet(Ranked) /\ Cardinality(Ranked) \in Nat
    BY FS_Subset, FS_CardinalityType DEF Ranked
  <2>4. rank' = [rank EXCEPT ![u] = Cardinality(Ranked) + 1]
    BY <2>1 DEF PutKeys, Ranked
  <2>5. Ranked' = Ranked \cup {u}
    <3>1. PICK n \in Nat : rank' = [rank EXCEPT ![u] = n + 1]
      BY <2>3, <2>4
    <3>2. \A v \in Uploads : rank'[v] > 0 <=> (rank[v] > 0 \/ v = u)
      BY <1>0, <3>1 DEF TypeOK
    <3>3. QED
      BY <3>2 DEF Ranked
  <2>6. Cardinality(Ranked') = Cardinality(Ranked) + 1
    BY <2>2, <2>3, <2>5, FS_AddElement
  <2>7. \A v \in Uploads : rank'[v] <= Cardinality(Ranked')
    BY <1>0, <2>3, <2>4, <2>6 DEF RankInv, TypeOK
  <2>8. \A v \in Uploads : phase'[v] = "new" => rank'[v] = 0
    BY <1>0, <2>1, <2>4 DEF PutKeys, RankInv, TypeOK
  <2>9. QED
    BY <2>7, <2>8 DEF RankInv
<1>2. CASE rank' = rank /\ \A u \in Uploads : phase'[u] = "new" => phase[u] = "new"
  BY <1>0, <1>2 DEF RankInv, Ranked
<1>3. CASE \E s \in Signs : StoreSignature(s) \/ ReadKeys(s) \/ PutMerged(s)
  <2>1. rank' = rank /\ \A u \in Uploads : phase'[u] = "new" => phase[u] = "new"
    BY <1>0, <1>3 DEF StoreSignature, ReadKeys, PutMerged, keyVars, TypeOK
  <2>2. QED
    BY <1>2, <2>1
<1>4. CASE \E r \in Requests : Bump(r) \/ ReadPosition(r) \/ RecordChange(r) \/ Stop(r)
  <2>1. rank' = rank /\ \A u \in Uploads : phase'[u] = "new" => phase[u] = "new"
    BY <1>0, <1>4 DEF Bump, ReadPosition, RecordChange, Stop, keyVars, TypeOK
  <2>2. QED
    BY <1>2, <2>1
<1>5. QED
  BY <1>1, <1>2, <1>3, <1>4 DEF Step, StoreEvent, SyncStart, ListChanges, QueryKeys,
     QuerySignatures, keyVars, requestVars

LEMMA NextLatestInv == ConstantsAssumption /\ Inv /\ OrderInv /\ Next => LatestInv'
<1> SUFFICES ASSUME ConstantsAssumption, Inv, OrderInv, Step, ~ crossed' PROVE LatestInv'
  BY NextIsStep DEF LatestInv
<1> USE DEF Requests, ConstantsAssumption
<1>0. TypeOK /\ RankInv /\ LatestInv /\ SignInv
  BY DEF Inv, OrderInv
<1>1. CASE \E u \in Uploads : PutKeys(u)
  <2>1. PICK u \in Uploads : PutKeys(u)
    BY <1>1
  <2>2. Cardinality(Ranked) \in Nat
    BY FS_Subset, FS_CardinalityType DEF Ranked
  <2>3. rank' = [rank EXCEPT ![u] = Cardinality(Ranked) + 1]
    BY <2>1 DEF PutKeys, Ranked
  <2>4. keys'.upload = u /\ u # NoKeys /\ known' = known
    BY <2>1 DEF PutKeys, Empty, clientVars
  <2>5. Rank(keys)' = Cardinality(Ranked) + 1
    BY <1>0, <2>3, <2>4 DEF Rank, TypeOK
  <2>6. \A v \in Uploads : rank'[v] <= Cardinality(Ranked) + 1
    BY <1>0, <2>2, <2>3 DEF RankInv, TypeOK
  <2>7. \A c \in Clients : Rank(known[c])' <= Rank(keys)'
    BY <1>0, <2>2, <2>4, <2>5, <2>6 DEF Rank, TypeOK, DeviceKeys
  <2>8. \A s \in Signs : phase'[s] # "merging"
    BY <1>0, <2>1 DEF PutKeys, TypeOK
  <2>9. QED
    BY <2>7, <2>8 DEF LatestInv
<1>2. CASE \E s \in Signs : PutMerged(s)
  <2>1. PICK s \in Signs : PutMerged(s)
    BY <1>2
  <2>2. ~ crossed /\ rank' = rank /\ known' = known
    BY <2>1 DEF PutMerged, clientVars
  <2>3. keys'.upload = keys.upload
    BY <1>0, <2>1, <2>2 DEF PutMerged, LatestInv, TypeOK, DeviceKeys
  <2>4. \A t \in Signs : phase'[t] = "merging" => phase[t] = "merging" /\ copy'[t] = copy[t]
    BY <1>0, <2>1 DEF PutMerged, TypeOK
  <2>5. QED
    BY <1>0, <2>2, <2>3, <2>4 DEF LatestInv, Rank
<1>3. CASE \E s \in Signs : ReadKeys(s)
  <2>1. PICK s \in Signs : ReadKeys(s)
    BY <1>3
  <2>2. UNCHANGED <<keys, crossed, rank, known>>
    BY <2>1 DEF ReadKeys, keyVars, clientVars
  <2>3. copy'[s] = keys
    BY <1>0, <2>1 DEF ReadKeys, TypeOK
  <2>4. \A t \in Signs \ {s} : phase'[t] = phase[t] /\ copy'[t] = copy[t]
    BY <1>0, <2>1 DEF ReadKeys, TypeOK
  <2>5. QED
    BY <1>0, <2>2, <2>3, <2>4 DEF LatestInv, Rank
<1>4. CASE \E r \in Requests : StoreSignature(r) \/ Bump(r) \/ ReadPosition(r) \/ RecordChange(r) \/ Stop(r)
  <2>1. UNCHANGED <<keys, crossed, rank, known>>
    BY <1>4 DEF StoreSignature, Bump, ReadPosition, RecordChange, Stop, keyVars, clientVars
  <2>2. \A t \in Signs : phase'[t] = "merging" => phase[t] = "merging" /\ copy'[t] = copy[t]
    BY <1>0, <1>4 DEF StoreSignature, Bump, ReadPosition, RecordChange, Stop, TypeOK
  <2>3. QED
    BY <1>0, <2>1, <2>2 DEF LatestInv, Rank
<1>5. CASE StoreEvent \/ \E c \in Clients : SyncStart(c) \/ ListChanges(c)
  <2>1. UNCHANGED <<keys, crossed, rank, known, phase, copy>>
    BY <1>5 DEF StoreEvent, SyncStart, ListChanges, keyVars, requestVars
  <2>2. QED
    BY <1>0, <2>1 DEF LatestInv, Rank
<1>6. CASE \E c \in Clients : QueryKeys(c) \/ QuerySignatures(c)
  <2>1. UNCHANGED <<keys, crossed, rank, phase, copy>>
    BY <1>6 DEF QueryKeys, QuerySignatures, keyVars, requestVars
  <2>2. \A c \in Clients : known'[c].upload \in {known[c].upload, keys.upload}
    BY <1>0, <1>6 DEF QueryKeys, QuerySignatures, TypeOK, DeviceKeys
  <2>3. Rank(keys) \in Nat
    BY <1>0 DEF TypeOK, DeviceKeys, Rank
  <2>4. \A c \in Clients : Rank(known[c])' <= Rank(keys)'
    BY <1>0, <2>1, <2>2, <2>3 DEF LatestInv, Rank
  <2>5. QED
    BY <1>0, <2>1, <2>4 DEF LatestInv
<1>7. QED
  BY <1>1, <1>2, <1>3, <1>4, <1>5, <1>6 DEF Step

-----------------------------------------------------------------------------
LEMMA UnchangedInv ==
  UNCHANGED vars =>
    /\ Inv => Inv'
    /\ ChangesRecorded => ChangesRecorded'
    /\ OrderInv => OrderInv'
<1>1. Inv /\ UNCHANGED vars => Inv'
  BY DEF vars, keyVars, changeVars, requestVars, clientVars, Inv, TypeOK, SignInv, AskedInv,
         SignaturesSurvive
<1>2. ChangesRecorded /\ UNCHANGED vars => ChangesRecorded'
  BY DEF vars, keyVars, changeVars, requestVars, clientVars, ChangesRecorded
<1>3. OrderInv /\ UNCHANGED vars => OrderInv'
  BY DEF vars, keyVars, changeVars, requestVars, clientVars, OrderInv, RankInv, LatestInv,
         Ranked, Rank
<1>4. QED
  BY <1>1, <1>2, <1>3

LEMMA Invariance == Spec => []Inv
<1>1. ConstantsAssumption /\ Inv /\ [Next]_vars => Inv'
  BY UnchangedInv, NextTypeOK, NextSignInv, NextSignaturesSurvive DEF Inv
<1>2. QED
  BY <1>1, InitInv, ConstantsAssumption, PTL DEF Spec

LEMMA OrderInvariance == Spec => []OrderInv
<1>1. ConstantsAssumption /\ Inv /\ OrderInv /\ [Next]_vars => OrderInv'
  BY UnchangedInv, NextRankInv, NextLatestInv DEF OrderInv
<1>2. QED
  BY <1>1, Invariance, InitOrderInv, ConstantsAssumption, PTL DEF Spec

(* Every variable of the model keeps its type. *)
THEOREM TypeCorrect == Spec => []TypeOK
<1>1. Inv => TypeOK
  BY DEF Inv
<1>2. QED
  BY <1>1, Invariance, PTL

(* Signatures of answered uploads are in every later query's answer, whatever the
   durable object lost (keys.ts: cross_signing_signatures and
   mergeSignaturesForDevice). *)
THEOREM SignaturesAreKept == Spec => []SignaturesSurvive
<1>1. Inv => SignaturesSurvive
  BY DEF Inv
<1>2. QED
  BY <1>1, Invariance, PTL

(* While no worker stops, the keys of the durable object differ from those a client
   knows only if a change is recorded since it queried, or about to be (keys.ts:
   recordKeyChange at the end of both uploads). *)
THEOREM NoSilentChange == Spec => []ChangesRecorded
<1>1. ConstantsAssumption /\ Inv /\ ChangesRecorded /\ [Next]_vars => ChangesRecorded'
  BY UnchangedInv, NextChangesRecorded
<1>2. QED
  BY <1>1, Invariance, InitInv, ConstantsAssumption, PTL DEF Spec

(* Until keys are uploaded between the read and the write of a signature upload
   (keys.ts, POST /keys/signatures/upload), queries never bring older keys. *)
THEOREM NoOldKeys == Spec => KnownNeverGoesBack
<1>1. Inv /\ OrderInv /\ [Next]_vars
        => [\A c \in Clients : Rank(known'[c]) >= Rank(known[c]) \/ crossed]_vars
  <2> SUFFICES ASSUME Inv, OrderInv, Next, ~ crossed, NEW c \in Clients
               PROVE  Rank(known'[c]) >= Rank(known[c])
    OBVIOUS
  <2>0. Rank(known[c]) \in Nat /\ Rank(known[c]) <= Rank(keys) /\ Rank(keys) \in Nat
    BY DEF Inv, OrderInv, LatestInv, TypeOK, DeviceKeys, Rank
  <2>1. CASE \E d \in Clients : QueryKeys(d) \/ QuerySignatures(d)
    <3>1. known'[c].upload \in {known[c].upload, keys.upload}
      BY <2>1 DEF QueryKeys, QuerySignatures, Inv, TypeOK, DeviceKeys
    <3>2. QED
      BY <2>0, <3>1 DEF Rank
  <2>2. CASE known' = known
    BY <2>0, <2>2
  <2>3. QED
    BY <2>1, <2>2, NextIsStep
       DEF Step, PutKeys, StoreSignature, ReadKeys, PutMerged, Bump, ReadPosition, RecordChange,
           Stop, StoreEvent, SyncStart, ListChanges, clientVars
<1>2. QED
  BY <1>1, Invariance, OrderInvariance, PTL DEF KnownNeverGoesBack, Spec

-----------------------------------------------------------------------------
(* The cross-signing keys *)

(* What a request is, and what it has still to run. *)
SessionStages == {"none", "open", "approved"}
AboutSession == {"redirect", "approve", "cancel"}
RowSteps == {"master", "record", "self_signing", "user_signing"}
CrossSteps == RowSteps \cup {"getSession", "useSession", "putSession", "writeSession", "dropSession", "getObject",
                             "putObject", "deleteObject", "deleteRows"}
CrossCalls ==
  [op : {"none", "upload", "reset", "challenge", "done"} \cup AboutSession, todo : Seq(CrossSteps),
   keys : SUBSET Cross!KeyTypes, seen : [Cross!KeyTypes -> Nat], session : Cross!Sessions \cup {Cross!NoSession},
   stage : SessionStages \cup {"first", "password"}]

CrossTodo(op, of, todo) ==
  /\ op = "upload" =>
       todo \in {<<"getSession", "useSession">> \o Cross!Storing(of), <<"useSession">> \o Cross!Storing(of),
                Cross!Storing(of), <<"putObject">> \o Cross!RowsOf(of)} \cup Seq(RowSteps)
  /\ op = "reset" => todo \in {Cross!Reset, <<"deleteRows", "record">>, <<"record">>}
  /\ op = "challenge" => todo = <<"putSession">>
  /\ op \in {"redirect", "approve"} => todo \in {<<"getSession", "writeSession">>, <<"writeSession">>}
  /\ op = "cancel" => todo \in {<<"getSession", "dropSession">>, <<"dropSession">>}
  /\ op \in {"none", "done"} => todo = <<>>

CrossTypes ==
  /\ object \in [Cross!KeyTypes -> Nat] /\ rows \in [Cross!KeyTypes -> Nat]
  /\ sessions \in [Cross!Sessions -> SessionStages] /\ before \in [Cross!Sessions -> SessionStages]
  /\ served \in [Cross!Sessions -> SUBSET IdentityRequests]
  /\ claimed \in [IdentityRequests -> CrossCalls]
  /\ \A q \in IdentityRequests : CrossTodo(claimed[q].op, claimed[q].keys, claimed[q].todo)
  /\ met \in BOOLEAN /\ metReset \in BOOLEAN /\ stopped \in BOOLEAN /\ stale \in BOOLEAN /\ unasked \in BOOLEAN

(* The statements a request has still to run. *)
Items(todo) == {todo[i] : i \in DOMAIN todo}
Left(q) == Items(claimed[q].todo)
Unstored(q) == "putObject" \in Left(q) \/ "deleteObject" \in Left(q)

(* What a request holds of a session. *)
StageInv ==
  \A q \in IdentityRequests : Cross!IsOpen(q) =>
    /\ claimed[q].op \in AboutSession => claimed[q].session \in Cross!Sessions
    /\ "useSession" \in Left(q) => claimed[q].session \in Cross!Sessions
    /\ "getSession" \in Left(q) => claimed[q].stage = "none"
    /\ claimed[q].stage \in {"first", "password"} => claimed[q].session = Cross!NoSession
    /\ claimed[q].op = "upload" /\ claimed[q].session # Cross!NoSession => claimed[q].stage \in {"none", "approved"}
    /\ Left(q) \cap {"writeSession", "useSession", "dropSession"} # {} /\ "getSession" \notin Left(q) =>
         claimed[q].stage # "none"

(* A session that is still to be put is nobody's. *)
NewSessionInv ==
  \A s \in IdentityRequests : ~Cross!Begun(s) \/ claimed[s].op = "challenge" =>
    /\ sessions[s] = "none" /\ before[s] = "none" /\ served[s] = {} /\ s \notin cancelled \cup agreed
    /\ \A q \in IdentityRequests : claimed[q].session # s

(* Requests that write do not overlap. *)
WritersInv ==
  /\ ~met => \A p, q \in IdentityRequests : Cross!Writes(p) /\ Cross!Writes(q) => p = q
  /\ ~metReset => \A p, q \in IdentityRequests : Cross!Writes(p) /\ Cross!Writes(q) /\ p # q =>
       claimed[p].op = "upload" /\ claimed[q].op = "upload"

(* The rows that a request has still to write after the object. *)
RowsLeft(q) ==
  IF ~Cross!Writes(q) \/ Unstored(q) THEN {}
  ELSE IF claimed[q].op = "upload" THEN Left(q) \cap Cross!KeyTypes
  ELSE IF "deleteRows" \in Left(q) THEN Cross!KeyTypes ELSE {}

(* What a request has read of the object and written to it is still there. *)
ObjectInv ==
  /\ ~met => \A q \in IdentityRequests : Cross!Writes(q) =>
       /\ claimed[q].op = "upload" => \A k \in RowsLeft(q) : object[k] = q
       /\ claimed[q].op = "reset" /\ "deleteObject" \notin Left(q) => object = Cross!NoneUploaded
       /\ "putObject" \in Left(q) /\ "getObject" \notin Left(q) => claimed[q].seen = object
  /\ ~metReset => \A q \in IdentityRequests : Cross!Writes(q) =>
       /\ claimed[q].op = "upload" => \A k \in RowsLeft(q) : object[k] # 0
       /\ claimed[q].op = "reset" /\ "deleteObject" \notin Left(q) => object = Cross!NoneUploaded
       /\ "putObject" \in Left(q) /\ "getObject" \notin Left(q) =>
            \A k \in Cross!KeyTypes : claimed[q].seen[k] # 0 => object[k] # 0

(* The stores agree but for the rows that are still to be written. *)
RowsInv ==
  ~stopped =>
    /\ ~met => \A k \in Cross!KeyTypes : object[k] = rows[k] \/ \E q \in IdentityRequests : k \in RowsLeft(q)
    /\ ~metReset => \A k \in Cross!KeyTypes : (object[k] = 0 <=> rows[k] = 0)
         \/ \E q \in IdentityRequests : k \in RowsLeft(q)

(* A change that is not told is to be told. *)
ToldInv ==
  ~stopped /\ ~stale =>
    told = object["master"] \/ \E q \in IdentityRequests : Cross!Writes(q) /\ ~Unstored(q) /\ "record" \in Left(q)

(* A first upload finds nothing in the object. *)
ConsentInv ==
  /\ Cross!ReplacedWithConsent
  /\ ~met /\ ~stopped => \A q \in IdentityRequests :
       Cross!Writes(q) /\ claimed[q].stage = "first" /\ "putObject" \in Left(q) => object = Cross!NoneUploaded

(* A session has one holder, who knows what happened to it. *)
HolderInv ==
  \A s \in Cross!Sessions \ mixed :
    /\ \A p, q \in IdentityRequests : Cross!Holds(p, s) /\ Cross!Holds(q, s) => p = q
    /\ \A p, q \in served[s] : p = q
    /\ served[s] # {} \/ s \in cancelled =>
         /\ sessions[s] = "none"
         /\ \A q \in IdentityRequests : Cross!Holds(q, s) => claimed[q].op = "upload" /\ "useSession" \notin Left(q)
    /\ s \in agreed => /\ sessions[s] # "open"
                       /\ \A q \in IdentityRequests : Cross!Holds(q, s) => claimed[q].stage # "open"

-----------------------------------------------------------------------------
(* Lists of statements. *)
LEMMA ItemsOfTail ==
  ASSUME NEW S, NEW s \in Seq(S), s # <<>>
  PROVE  /\ Items(s) = {Head(s)} \cup Items(Tail(s)) /\ Head(s) \in S /\ Tail(s) \in Seq(S)
         /\ Items(Tail(s)) \subseteq Items(s)
         /\ Len(s) = 1 => Tail(s) = <<>>
         /\ Len(s) # 1 => Tail(s) # <<>>
<1>1. Len(s) \in Nat \ {0} /\ Head(s) = s[1] /\ Tail(s) \in Seq(S) /\ Len(Tail(s)) = Len(s) - 1
  OBVIOUS
<1>2. DOMAIN s = 1 .. Len(s) /\ DOMAIN Tail(s) = 1 .. Len(s) - 1
  BY <1>1
<1>3. \A i \in 1 .. Len(s) - 1 : Tail(s)[i] = s[i + 1]
  BY <1>1
<1>4. Items(Tail(s)) \subseteq Items(s)
  BY <1>1, <1>2, <1>3 DEF Items
<1>5. Head(s) \in Items(s) /\ Head(s) \in S
  BY <1>1, <1>2 DEF Items
<1>6. Items(s) \subseteq {Head(s)} \cup Items(Tail(s))
  <2>1. SUFFICES ASSUME NEW i \in DOMAIN s, i # 1 PROVE s[i] \in Items(Tail(s))
    BY <1>1 DEF Items
  <2>2. i - 1 \in 1 .. Len(s) - 1 /\ s[(i - 1) + 1] = s[i]
    BY <1>1, <1>2, <2>1
  <2>. QED
    BY <1>2, <1>3, <2>2 DEF Items
<1>7. (Len(s) = 1 => Tail(s) = <<>>) /\ (Len(s) # 1 => Tail(s) # <<>>)
  <2>1. \A t \in Seq(S) : Len(t) = 0 => t = <<>>
    OBVIOUS
  <2>2. Len(<<>>) = 0
    OBVIOUS
  <2>. QED
    BY <1>1, <2>1, <2>2
<1>. QED
  BY <1>1, <1>4, <1>5, <1>6, <1>7

LEMMA ItemsOfBoth ==
  ASSUME NEW S, NEW s \in Seq(S), NEW t \in Seq(S)
  PROVE  s \o t \in Seq(S) /\ Items(s \o t) = Items(s) \cup Items(t)
<1>1. s \o t \in Seq(S) /\ Len(s \o t) = Len(s) + Len(t) /\ Len(s) \in Nat /\ Len(t) \in Nat
  OBVIOUS
<1>2. \A i \in 1 .. Len(s) : (s \o t)[i] = s[i]
  OBVIOUS
<1>3. \A i \in 1 .. Len(t) : (s \o t)[Len(s) + i] = t[i]
  OBVIOUS
<1>4. Items(s \o t) \subseteq Items(s) \cup Items(t)
  <2>1. SUFFICES ASSUME NEW i \in DOMAIN (s \o t) PROVE (s \o t)[i] \in Items(s) \cup Items(t)
    BY DEF Items
  <2>2. i \in 1 .. (Len(s) + Len(t))
    BY <1>1
  <2>3. CASE i <= Len(s)
    BY <1>1, <1>2, <2>2, <2>3 DEF Items
  <2>4. CASE i > Len(s)
    <3>1. i - Len(s) \in 1 .. Len(t) /\ Len(s) + (i - Len(s)) = i
      BY <1>1, <2>2, <2>4
    <3>2. (s \o t)[i] = t[i - Len(s)]
      BY <1>3, <3>1
    <3>. QED
      BY <3>1, <3>2 DEF Items
  <2>. QED
    BY <1>1, <2>2, <2>3, <2>4
<1>5. Items(s) \subseteq Items(s \o t)
  BY <1>1, <1>2 DEF Items
<1>6. Items(t) \subseteq Items(s \o t)
  <2>1. SUFFICES ASSUME NEW i \in 1 .. Len(t) PROVE t[i] \in Items(s \o t)
    BY DEF Items
  <2>2. Len(s) + i \in DOMAIN (s \o t)
    BY <1>1
  <2>. QED
    BY <1>3, <2>2 DEF Items
<1>. QED
  BY <1>1, <1>4, <1>5, <1>6

LEMMA ItemsOfFew ==
  ASSUME NEW S, NEW a \in S, NEW b \in S
  PROVE  /\ <<>> \in Seq(S) /\ Items(<<>>) = {}
         /\ <<a>> \in Seq(S) /\ Items(<<a>>) = {a}
         /\ <<a, b>> \in Seq(S) /\ Items(<<a, b>>) = {a, b}
<1>1. DOMAIN <<a>> = {1} /\ <<a>>[1] = a /\ DOMAIN <<a, b>> = {1, 2} /\ <<a, b>>[1] = a /\ <<a, b>>[2] = b
  OBVIOUS
<1>. QED
  BY <1>1 DEF Items

LEMMA TailOfBoth ==
  ASSUME NEW S, NEW s \in Seq(S), NEW a \in S, NEW b \in S
  PROVE  /\ <<a>> \o s \in Seq(S) /\ <<a>> \o s # <<>> /\ Head(<<a>> \o s) = a /\ Tail(<<a>> \o s) = s
         /\ <<a, b>> \o s \in Seq(S) /\ <<a, b>> \o s # <<>> /\ Head(<<a, b>> \o s) = a
         /\ Tail(<<a, b>> \o s) = <<b>> \o s
OBVIOUS

LEMMA RowsOfIs ==
  ASSUME NEW of
  PROVE  /\ Cross!RowsOf(of) \in Seq(RowSteps)
         /\ \A k \in Cross!KeyTypes : k \in Items(Cross!RowsOf(of)) <=> k \in of
         /\ "record" \in Items(Cross!RowsOf(of)) <=> "master" \in of
<1>. DEFINE a == IF "master" \in of THEN <<"master", "record">> ELSE <<>>
            b == IF "self_signing" \in of THEN <<"self_signing">> ELSE <<>>
            c == IF "user_signing" \in of THEN <<"user_signing">> ELSE <<>>
<1>. DEFINE Lists == Seq(RowSteps)
<1>0. /\ <<>> \in Lists /\ Items(<<>>) = {}
      /\ \A x, y \in RowSteps : /\ <<x>> \in Lists /\ Items(<<x>>) = {x}
                               /\ <<x, y>> \in Lists /\ Items(<<x, y>>) = {x, y}
  <2>1. "master" \in RowSteps
    BY DEF RowSteps
  <2>2. ASSUME NEW x \in RowSteps, NEW y \in RowSteps
        PROVE  /\ <<>> \in Seq(RowSteps) /\ Items(<<>>) = {}
               /\ <<x>> \in Seq(RowSteps) /\ Items(<<x>>) = {x}
               /\ <<x, y>> \in Seq(RowSteps) /\ Items(<<x, y>>) = {x, y}
    BY ItemsOfFew
  <2>. QED
    BY <2>1, <2>2
<1>9. \A x, y \in Lists : x \o y \in Lists /\ Items(x \o y) = Items(x) \cup Items(y)
  <2>1. ASSUME NEW x \in Seq(RowSteps), NEW y \in Seq(RowSteps)
        PROVE  x \o y \in Seq(RowSteps) /\ Items(x \o y) = Items(x) \cup Items(y)
    BY ItemsOfBoth
  <2>. QED
    BY <2>1
<1>. HIDE DEF Lists
<1>1. a \in Lists /\ Items(a) = IF "master" \in of THEN {"master", "record"} ELSE {}
  BY <1>0 DEF RowSteps
<1>2. b \in Lists /\ Items(b) = IF "self_signing" \in of THEN {"self_signing"} ELSE {}
  BY <1>0 DEF RowSteps
<1>3. c \in Lists /\ Items(c) = IF "user_signing" \in of THEN {"user_signing"} ELSE {}
  BY <1>0 DEF RowSteps
<1>4. Cross!RowsOf(of) = (a \o b) \o c
  BY DEF Cross!RowsOf
<1>. HIDE DEF a, b, c
<1>5. a \o b \in Lists /\ Items(a \o b) = Items(a) \cup Items(b)
  BY <1>1, <1>2, <1>9
<1>6. (a \o b) \o c \in Lists /\ Items((a \o b) \o c) = Items(a) \cup Items(b) \cup Items(c)
  BY <1>3, <1>5, <1>9
<1>. QED
  BY <1>1, <1>2, <1>3, <1>4, <1>6 DEF Cross!KeyTypes, Lists

(* The list of an upload, at each of its statements. *)
Entry(of) == <<"getSession", "useSession">> \o Cross!Storing(of)
Using(of) == <<"useSession">> \o Cross!Storing(of)
Putting(of) == <<"putObject">> \o Cross!RowsOf(of)

LEMMA UploadTodos ==
  ASSUME NEW of
  PROVE  /\ Entry(of) \in Seq(CrossSteps) /\ Entry(of) # <<>> /\ Head(Entry(of)) = "getSession"
         /\ Tail(Entry(of)) = Using(of)
         /\ Items(Entry(of)) = {"getSession", "useSession", "getObject", "putObject"} \cup Items(Cross!RowsOf(of))
         /\ Using(of) \in Seq(CrossSteps) /\ Using(of) # <<>> /\ Head(Using(of)) = "useSession"
         /\ Tail(Using(of)) = Cross!Storing(of)
         /\ Items(Using(of)) = {"useSession", "getObject", "putObject"} \cup Items(Cross!RowsOf(of))
         /\ Cross!Storing(of) \in Seq(CrossSteps) /\ Cross!Storing(of) # <<>> /\ Head(Cross!Storing(of)) = "getObject"
         /\ Tail(Cross!Storing(of)) = Putting(of)
         /\ Items(Cross!Storing(of)) = {"getObject", "putObject"} \cup Items(Cross!RowsOf(of))
         /\ Putting(of) \in Seq(CrossSteps) /\ Putting(of) # <<>> /\ Head(Putting(of)) = "putObject"
         /\ Tail(Putting(of)) = Cross!RowsOf(of)
         /\ Items(Putting(of)) = {"putObject"} \cup Items(Cross!RowsOf(of))
         /\ Cross!RowsOf(of) \in Seq(CrossSteps)
<1>. DEFINE rest == Cross!RowsOf(of)
            Lists == Seq(CrossSteps)
<1>1. rest \in Lists
  <2>1. rest \in Seq(RowSteps) /\ RowSteps \subseteq CrossSteps
    BY RowsOfIs DEF CrossSteps
  <2>2. ASSUME NEW x \in Seq(RowSteps), RowSteps \subseteq CrossSteps PROVE x \in Seq(CrossSteps)
    BY <2>2
  <2>. QED
    BY <2>1, <2>2
<1>2. {"getSession", "useSession", "getObject", "putObject"} \subseteq CrossSteps
  BY DEF CrossSteps
<1>3. \A x \in Lists, a, b \in CrossSteps :
        /\ <<a>> \o x \in Lists /\ <<a>> \o x # <<>> /\ Head(<<a>> \o x) = a /\ Tail(<<a>> \o x) = x
        /\ <<a, b>> \o x \in Lists /\ <<a, b>> \o x # <<>> /\ Head(<<a, b>> \o x) = a
        /\ Tail(<<a, b>> \o x) = <<b>> \o x
  <2>1. ASSUME NEW x \in Seq(CrossSteps), NEW a \in CrossSteps, NEW b \in CrossSteps
        PROVE  /\ <<a>> \o x \in Seq(CrossSteps) /\ <<a>> \o x # <<>> /\ Head(<<a>> \o x) = a
               /\ Tail(<<a>> \o x) = x
               /\ <<a, b>> \o x \in Seq(CrossSteps) /\ <<a, b>> \o x # <<>> /\ Head(<<a, b>> \o x) = a
               /\ Tail(<<a, b>> \o x) = <<b>> \o x
    BY TailOfBoth
  <2>. QED
    BY <2>1
<1>4. \A x \in Lists : x # <<>> => Items(x) = {Head(x)} \cup Items(Tail(x))
  <2>1. ASSUME NEW x \in Seq(CrossSteps), x # <<>> PROVE Items(x) = {Head(x)} \cup Items(Tail(x))
    BY <2>1, ItemsOfTail
  <2>. QED
    BY <2>1
<1>. HIDE DEF Lists, rest
<1>5. /\ Putting(of) = <<"putObject">> \o rest /\ Cross!Storing(of) = <<"getObject", "putObject">> \o rest
      /\ Using(of) = <<"useSession">> \o Cross!Storing(of) 
      /\ Entry(of) = <<"getSession", "useSession">> \o Cross!Storing(of)
  BY DEF Putting, Cross!Storing, Using, Entry, rest
<1>. DEFINE a == "putObject" b == "getObject" c == "useSession" d == "getSession"
            putting == Putting(of) storing == Cross!Storing(of) using == Using(of) entry == Entry(of)
<1>20. a \in CrossSteps /\ b \in CrossSteps /\ c \in CrossSteps /\ d \in CrossSteps
  BY <1>2
<1>21. /\ putting = <<a>> \o rest /\ storing = <<b, a>> \o rest
       /\ using = <<c>> \o storing /\ entry = <<d, c>> \o storing
  BY <1>5
<1>. HIDE DEF a, b, c, d, putting, storing, using, entry
<1>6. putting \in Lists /\ putting # <<>> /\ Head(putting) = a /\ Tail(putting) = rest
  BY <1>1, <1>20, <1>3, <1>21
<1>7. Items(putting) = {a} \cup Items(rest)
  BY <1>4, <1>6
<1>8. storing \in Lists /\ storing # <<>> /\ Head(storing) = b /\ Tail(storing) = putting
  BY <1>1, <1>20, <1>3, <1>21
<1>9. Items(storing) = {b, a} \cup Items(rest)
  BY <1>4, <1>7, <1>8
<1>10. using \in Lists /\ using # <<>> /\ Head(using) = c /\ Tail(using) = storing
  BY <1>20, <1>3, <1>21, <1>8
<1>11. Items(using) = {c, b, a} \cup Items(rest)
  BY <1>4, <1>9, <1>10
<1>12. entry \in Lists /\ entry # <<>> /\ Head(entry) = d /\ Tail(entry) = using
  BY <1>20, <1>3, <1>21, <1>8
<1>13. Items(entry) = {d, c, b, a} \cup Items(rest)
  BY <1>4, <1>11, <1>12
<1>. QED
  BY <1>1, <1>6, <1>7, <1>8, <1>9, <1>10, <1>11, <1>12, <1>13 DEF Lists, rest, a, b, c, d, putting, storing, using,
     entry

(* The other lists, by their last statements. *)
LEMMA ShortTodos ==
  /\ Tail(Cross!Reset) = <<"deleteRows", "record">> /\ Tail(<<"deleteRows", "record">>) = <<"record">>
  /\ Tail(<<"record">>) = <<>> /\ Tail(<<"putSession">>) = <<>> /\ Tail(<<"writeSession">>) = <<>>
  /\ Tail(<<"dropSession">>) = <<>>
  /\ Tail(<<"getSession", "writeSession">>) = <<"writeSession">>
  /\ Tail(<<"getSession", "dropSession">>) = <<"dropSession">>
  /\ Items(Cross!Reset) = {"deleteObject", "deleteRows", "record"}
  /\ Items(<<"deleteRows", "record">>) = {"deleteRows", "record"}
  /\ Items(<<"record">>) = {"record"} /\ Items(<<"putSession">>) = {"putSession"}
  /\ Items(<<"writeSession">>) = {"writeSession"} /\ Items(<<"dropSession">>) = {"dropSession"}
  /\ Items(<<"getSession", "writeSession">>) = {"getSession", "writeSession"}
  /\ Items(<<"getSession", "dropSession">>) = {"getSession", "dropSession"}
  /\ Items(<<>>) = {}
<1>1. /\ Tail(Cross!Reset) = <<"deleteRows", "record">> /\ Tail(<<"deleteRows", "record">>) = <<"record">>
      /\ Tail(<<"record">>) = <<>> /\ Tail(<<"putSession">>) = <<>> /\ Tail(<<"writeSession">>) = <<>>
      /\ Tail(<<"dropSession">>) = <<>>
      /\ Tail(<<"getSession", "writeSession">>) = <<"writeSession">>
      /\ Tail(<<"getSession", "dropSession">>) = <<"dropSession">>
  BY DEF Cross!Reset
<1>2. ASSUME NEW a, NEW b, NEW c
      PROVE Items(<<a>>) = {a} /\ Items(<<a, b>>) = {a, b} /\ Items(<<a, b, c>>) = {a, b, c} /\ Items(<<>>) = {}
  <2>1. /\ DOMAIN <<a>> = {1} /\ <<a>>[1] = a /\ DOMAIN <<a, b>> = {1, 2} /\ <<a, b>>[1] = a /\ <<a, b>>[2] = b
        /\ DOMAIN <<a, b, c>> = {1, 2, 3} /\ <<a, b, c>>[1] = a /\ <<a, b, c>>[2] = b /\ <<a, b, c>>[3] = c
        /\ DOMAIN <<>> = {}
    OBVIOUS
  <2>. QED
    BY <2>1 DEF Items
<1>3. \A a, b, c : /\ Items(<<a>>) = {a} /\ Items(<<a, b>>) = {a, b} /\ Items(<<a, b, c>>) = {a, b, c}
                  /\ Items(<<>>) = {}
  BY <1>2
<1>4. Items(Cross!Reset) = {"deleteObject", "deleteRows", "record"}
  BY <1>3 DEF Cross!Reset
<1>5. /\ Items(<<"deleteRows", "record">>) = {"deleteRows", "record"}
      /\ Items(<<"getSession", "writeSession">>) = {"getSession", "writeSession"}
      /\ Items(<<"getSession", "dropSession">>) = {"getSession", "dropSession"}
  BY <1>3
<1>6. /\ Items(<<"record">>) = {"record"} /\ Items(<<"putSession">>) = {"putSession"}
      /\ Items(<<"writeSession">>) = {"writeSession"} /\ Items(<<"dropSession">>) = {"dropSession"}
      /\ Items(<<>>) = {}
  BY <1>3
<1>. QED
  BY <1>1, <1>4, <1>5, <1>6

(* What a request is about to do, and what it has then still to run. *)
UploadAt(of, h, whole, tail) ==
  LET table == Items(Cross!RowsOf(of)) IN
  \/ /\ h = "getSession" /\ whole = {"getSession", "useSession", "getObject", "putObject"} \cup table
     /\ tail = {"useSession", "getObject", "putObject"} \cup table
  \/ /\ h = "useSession" /\ whole = {"useSession", "getObject", "putObject"} \cup table
     /\ tail = {"getObject", "putObject"} \cup table
  \/ h = "getObject" /\ whole = {"getObject", "putObject"} \cup table /\ tail = {"putObject"} \cup table
  \/ h = "putObject" /\ whole = {"putObject"} \cup table /\ tail = table
  \/ h \in RowSteps /\ whole \subseteq RowSteps /\ whole = {h} \cup tail

OtherAt(op, h, whole, tail) ==
  \/ op = "reset" /\ h = "deleteObject" /\ whole = {h, "deleteRows", "record"} /\ tail = {"deleteRows", "record"}
  \/ op = "reset" /\ h = "deleteRows" /\ whole = {h, "record"} /\ tail = {"record"}
  \/ op = "reset" /\ h = "record" /\ whole = {h} /\ tail = {}
  \/ op = "challenge" /\ h = "putSession" /\ whole = {h} /\ tail = {}
  \/ op \in {"redirect", "approve"} /\ h = "getSession" /\ whole = {h, "writeSession"} /\ tail = {"writeSession"}
  \/ op \in {"redirect", "approve"} /\ h = "writeSession" /\ whole = {h} /\ tail = {}
  \/ op = "cancel" /\ h = "getSession" /\ whole = {h, "dropSession"} /\ tail = {"dropSession"}
  \/ op = "cancel" /\ h = "dropSession" /\ whole = {h} /\ tail = {}

TodoAt(op, of, h, whole, tail) ==
  (op = "upload" /\ UploadAt(of, h, whole, tail)) \/ (op # "upload" /\ OtherAt(op, h, whole, tail))

LEMMA UploadShape ==
  ASSUME NEW of, NEW todo \in Seq(CrossSteps), todo # <<>>, CrossTodo("upload", of, todo)
  PROVE  /\ CrossTodo("upload", of, Tail(todo)) /\ UploadAt(of, Head(todo), Items(todo), Items(Tail(todo)))
<1>1. \/ todo = Entry(of) \/ todo = Using(of) \/ todo = Cross!Storing(of) \/ todo = Putting(of)
           \/ todo \in Seq(RowSteps)
  BY DEF CrossTodo, Entry, Using, Putting
<1>2. Cross!RowsOf(of) \in Seq(RowSteps)
  BY RowsOfIs
<1>3. ASSUME NEW t, t = Using(of) \/ t = Cross!Storing(of) \/ t = Putting(of) \/ t \in Seq(RowSteps)
      PROVE  CrossTodo("upload", of, t)
  BY <1>3 DEF CrossTodo, Using, Putting
<1>4. CASE todo = Entry(of)
  <2>1. Tail(todo) = Using(of) /\ Head(todo) = "getSession"
    BY <1>4, UploadTodos
  <2>2. CrossTodo("upload", of, Tail(todo))
    BY <1>3, <2>1
  <2>. QED
    BY <1>4, <2>1, <2>2, UploadTodos DEF UploadAt
<1>5. CASE todo = Using(of)
  <2>1. Tail(todo) = Cross!Storing(of) /\ Head(todo) = "useSession"
    BY <1>5, UploadTodos
  <2>2. CrossTodo("upload", of, Tail(todo))
    BY <1>3, <2>1
  <2>. QED
    BY <1>5, <2>1, <2>2, UploadTodos DEF UploadAt
<1>6. CASE todo = Cross!Storing(of)
  <2>1. Tail(todo) = Putting(of) /\ Head(todo) = "getObject"
    BY <1>6, UploadTodos
  <2>2. CrossTodo("upload", of, Tail(todo))
    BY <1>3, <2>1
  <2>. QED
    BY <1>6, <2>1, <2>2, UploadTodos DEF UploadAt
<1>7. CASE todo = Putting(of)
  <2>1. Tail(todo) = Cross!RowsOf(of) /\ Head(todo) = "putObject"
    BY <1>7, UploadTodos
  <2>2. CrossTodo("upload", of, Tail(todo))
    BY <1>2, <1>3, <2>1
  <2>. QED
    BY <1>7, <2>1, <2>2, UploadTodos DEF UploadAt
<1>8. CASE todo \in Seq(RowSteps)
  <2>1. /\ Items(todo) = {Head(todo)} \cup Items(Tail(todo)) /\ Head(todo) \in RowSteps /\ Tail(todo) \in Seq(RowSteps)
    BY <1>8, ItemsOfTail
  <2>2. Items(todo) \subseteq RowSteps
    BY <1>8 DEF Items
  <2>3. CrossTodo("upload", of, Tail(todo))
    BY <1>3, <2>1
  <2>. QED
    BY <2>1, <2>2, <2>3 DEF UploadAt
<1>. QED
  BY <1>1, <1>4, <1>5, <1>6, <1>7, <1>8

LEMMA OtherShape ==
  ASSUME NEW op, op \in {"reset", "challenge"} \cup AboutSession, NEW of, NEW todo \in Seq(CrossSteps),
         CrossTodo(op, of, todo)
  PROVE  /\ Tail(todo) # <<>> => CrossTodo(op, of, Tail(todo))
         /\ todo # <<>> /\ OtherAt(op, Head(todo), Items(todo), Items(Tail(todo)))
<1>1. CASE op = "reset"
  <2>1. CASE todo = Cross!Reset
    <3>1. Head(todo) = "deleteObject"
      BY <2>1 DEF Cross!Reset
    <3>2. CrossTodo(op, of, Tail(todo))
      BY <1>1, <2>1, ShortTodos DEF CrossTodo, AboutSession
    <3>3. todo # <<>>
      BY <2>1 DEF Cross!Reset
    <3>. QED
      BY <1>1, <2>1, <3>1, <3>2, <3>3, ShortTodos DEF OtherAt
  <2>2. CASE todo = <<"deleteRows", "record">>
    <3>1. Head(todo) = "deleteRows" /\ todo # <<>>
      BY <2>2
    <3>2. CrossTodo(op, of, Tail(todo))
      BY <1>1, <2>2, ShortTodos DEF CrossTodo, AboutSession
    <3>. QED
      BY <1>1, <2>2, <3>1, <3>2, ShortTodos DEF OtherAt
  <2>3. CASE todo = <<"record">>
    <3>1. Head(todo) = "record" /\ todo # <<>>
      BY <2>3
    <3>. QED
      BY <1>1, <2>3, <3>1, ShortTodos DEF OtherAt
  <2>. QED
    BY <1>1, <2>1, <2>2, <2>3 DEF CrossTodo
<1>2. CASE op = "challenge"
  <2>1. todo = <<"putSession">>
    BY <1>2 DEF CrossTodo
  <2>2. Head(todo) = "putSession" /\ todo # <<>>
    BY <2>1
  <2>. QED
    BY <1>2, <2>1, <2>2, ShortTodos DEF OtherAt
<1>3. CASE op \in {"redirect", "approve"}
  <2>1. CASE todo = <<"getSession", "writeSession">>
    <3>1. Head(todo) = "getSession" /\ todo # <<>>
      BY <2>1
    <3>2. CrossTodo(op, of, Tail(todo))
      BY <1>3, <2>1, ShortTodos DEF CrossTodo, AboutSession
    <3>. QED
      BY <1>3, <2>1, <3>1, <3>2, ShortTodos DEF OtherAt
  <2>2. CASE todo = <<"writeSession">>
    <3>1. Head(todo) = "writeSession" /\ todo # <<>>
      BY <2>2
    <3>. QED
      BY <1>3, <2>2, <3>1, ShortTodos DEF OtherAt
  <2>. QED
    BY <1>3, <2>1, <2>2 DEF CrossTodo
<1>4. CASE op = "cancel"
  <2>1. CASE todo = <<"getSession", "dropSession">>
    <3>1. Head(todo) = "getSession" /\ todo # <<>>
      BY <2>1
    <3>2. CrossTodo(op, of, Tail(todo))
      BY <1>4, <2>1, ShortTodos DEF CrossTodo, AboutSession
    <3>. QED
      BY <1>4, <2>1, <3>1, <3>2, ShortTodos DEF OtherAt
  <2>2. CASE todo = <<"dropSession">>
    <3>1. Head(todo) = "dropSession" /\ todo # <<>>
      BY <2>2
    <3>. QED
      BY <1>4, <2>2, <3>1, ShortTodos DEF OtherAt
  <2>. QED
    BY <1>4, <2>1, <2>2 DEF CrossTodo
<1>. QED
  BY <1>1, <1>2, <1>3, <1>4 DEF AboutSession

(* What an open request is at. *)
LEMMA AtShape ==
  ASSUME CrossTypes, NEW q \in IdentityRequests, Cross!IsOpen(q)
  PROVE  /\ claimed[q].op \in {"upload", "reset", "challenge"} \cup AboutSession
         /\ claimed[q].keys \in SUBSET Cross!KeyTypes
         /\ Left(q) = {Head(claimed[q].todo)} \cup Items(Tail(claimed[q].todo))
         /\ Tail(claimed[q].todo) \in Seq(CrossSteps)
         /\ Tail(claimed[q].todo) = <<>> <=> Len(claimed[q].todo) = 1
         /\ Tail(claimed[q].todo) = <<>> <=> Items(Tail(claimed[q].todo)) = {}
         /\ Tail(claimed[q].todo) # <<>> => CrossTodo(claimed[q].op, claimed[q].keys, Tail(claimed[q].todo))
         /\ TodoAt(claimed[q].op, claimed[q].keys, Head(claimed[q].todo), Left(q), Items(Tail(claimed[q].todo)))
<1>. DEFINE todo == claimed[q].todo
<1>1. /\ claimed[q] \in CrossCalls /\ CrossTodo(claimed[q].op, claimed[q].keys, claimed[q].todo)
  BY DEF CrossTypes
<1>2. /\ todo \in Seq(CrossSteps) /\ todo # <<>> /\ claimed[q].keys \in SUBSET Cross!KeyTypes
      /\ claimed[q].op \in {"none", "upload", "reset", "challenge", "done"} \cup AboutSession
  BY <1>1 DEF CrossCalls, Cross!IsOpen
<1>3. claimed[q].op \in {"upload", "reset", "challenge"} \cup AboutSession
  BY <1>1, <1>2 DEF CrossTodo
<1>4. /\ Items(todo) = {Head(todo)} \cup Items(Tail(todo)) /\ Tail(todo) \in Seq(CrossSteps)
      /\ Tail(todo) = <<>> <=> Len(todo) = 1
  BY <1>2, ItemsOfTail
<1>5. Tail(todo) = <<>> <=> Items(Tail(todo)) = {}
  <2>1. ASSUME NEW t \in Seq(CrossSteps) PROVE t = <<>> <=> Items(t) = {}
    <3>1. t # <<>> => Items(t) # {}
      BY ItemsOfTail
    <3>. QED
      BY <3>1, ShortTodos
  <2>. QED
    BY <1>4, <2>1
<1>6. CASE claimed[q].op = "upload"
  <2>1. CrossTodo("upload", claimed[q].keys, todo)
    BY <1>1, <1>6
  <2>2. /\ CrossTodo("upload", claimed[q].keys, Tail(todo))
        /\ UploadAt(claimed[q].keys, Head(todo), Items(todo), Items(Tail(todo)))
    BY <1>2, <2>1, UploadShape
  <2>. QED
    BY <1>2, <1>3, <1>4, <1>5, <1>6, <2>2 DEF TodoAt, Left
<1>7. CASE claimed[q].op # "upload"
  <2>1. claimed[q].op \in {"reset", "challenge"} \cup AboutSession
    BY <1>3, <1>7
  <2>2. /\ Tail(todo) # <<>> => CrossTodo(claimed[q].op, claimed[q].keys, Tail(todo))
        /\ OtherAt(claimed[q].op, Head(todo), Items(todo), Items(Tail(todo)))
    BY <1>1, <1>2, <2>1, OtherShape
  <2>. QED
    BY <1>2, <1>3, <1>4, <1>5, <1>7, <2>2 DEF TodoAt, Left
<1>. QED
  BY <1>6, <1>7

Others(q) == \A p \in IdentityRequests \ {q} : claimed'[p] = claimed[p]

(* What the invariant says of a request rests on its record. *)
LEMMA Viewed ==
  ASSUME NEW p \in IdentityRequests, claimed'[p] = claimed[p]
  PROVE  /\ Left(p)' = Left(p) /\ (Cross!IsOpen(p)' <=> Cross!IsOpen(p)) /\ (Cross!Writes(p)' <=> Cross!Writes(p))
         /\ (Unstored(p)' <=> Unstored(p)) /\ RowsLeft(p)' = RowsLeft(p) /\ (Cross!Begun(p)' <=> Cross!Begun(p))
         /\ \A s \in Cross!Sessions : Cross!Holds(p, s)' <=> Cross!Holds(p, s)
<1>1. Left(p)' = Left(p) /\ (Cross!IsOpen(p)' <=> Cross!IsOpen(p)) /\ (Cross!Begun(p)' <=> Cross!Begun(p))
  BY DEF Left, Cross!IsOpen, Cross!Begun
<1>2. /\ (Cross!Writes(p)' <=> Cross!Writes(p)) /\ (Unstored(p)' <=> Unstored(p))
      /\ \A s \in Cross!Sessions : Cross!Holds(p, s)' <=> Cross!Holds(p, s)
  BY <1>1 DEF Cross!Writes, Unstored, Cross!Holds
<1>3. RowsLeft(p)' = RowsLeft(p)
  BY <1>1, <1>2 DEF RowsLeft
<1>. QED
  BY <1>1, <1>2, <1>3

(* A request that goes on leaves the first of its statements behind. *)
After(q, r) ==
  /\ Others(q)
  /\ Left(q)' = Items(Tail(claimed[q].todo))
  /\ Cross!IsOpen(q)' <=> Left(q)' # {}
  /\ Cross!IsOpen(q)' => /\ claimed'[q].op = r.op /\ claimed'[q].keys = r.keys /\ claimed'[q].seen = r.seen
                         /\ claimed'[q].session = r.session /\ claimed'[q].stage = r.stage
  /\ ~Cross!IsOpen(q)' => claimed'[q] = Cross!Done
  /\ Cross!Begun(q)

Typed ==
  /\ claimed \in [IdentityRequests -> CrossCalls]
  /\ \A q \in IdentityRequests : CrossTodo(claimed[q].op, claimed[q].keys, claimed[q].todo)

LEMMA DoneIs ==
  /\ Cross!Done \in CrossCalls /\ Cross!Done.op = "done"
  /\ Cross!Done.todo = <<>> /\ Cross!Done.session = Cross!NoSession /\ Cross!Done.stage = "none"
  /\ Cross!Idle \in CrossCalls /\ Cross!Idle.op = "none"
  /\ Cross!Idle.todo = <<>> /\ Cross!Idle.session = Cross!NoSession /\ Cross!Idle.stage = "none"
  /\ \A of : CrossTodo("done", of, <<>>) /\ CrossTodo("none", of, <<>>)
<1>1. Cross!NoneUploaded \in [Cross!KeyTypes -> Nat] /\ <<>> \in Seq(CrossSteps) /\ {} \in SUBSET Cross!KeyTypes
  BY DEF Cross!NoneUploaded
<1>2. Cross!Idle \in CrossCalls /\ Cross!Done \in CrossCalls
  BY <1>1 DEF Cross!Idle, Cross!Done, CrossCalls, SessionStages
<1>3. \A of : CrossTodo("done", of, <<>>) /\ CrossTodo("none", of, <<>>)
  BY DEF CrossTodo, AboutSession
<1>. QED
  BY <1>2, <1>3 DEF Cross!Idle, Cross!Done

LEMMA BecomesDone ==
  ASSUME CrossTypes, NEW q \in IdentityRequests, claimed' = [claimed EXCEPT ![q] = Cross!Done]
  PROVE  /\ Others(q) /\ claimed'[q] = Cross!Done /\ Left(q)' = {} /\ ~Cross!IsOpen(q)' /\ Cross!Begun(q)' /\ Typed'
<1>1. claimed' \in [IdentityRequests -> CrossCalls] /\ claimed'[q] = Cross!Done /\ Others(q)
  BY DoneIs DEF CrossTypes, Others
<1>2. Typed'
  <2>1. SUFFICES ASSUME NEW p \in IdentityRequests PROVE CrossTodo(claimed'[p].op, claimed'[p].keys, claimed'[p].todo)
    BY <1>1 DEF Typed
  <2>. QED
    BY <1>1, DoneIs DEF CrossTypes, Others
<1>3. Left(q)' = {}
  BY <1>1, DoneIs, ShortTodos DEF Left
<1>. QED
  BY <1>1, <1>2, <1>3, DoneIs DEF Cross!IsOpen, Cross!Begun

LEMMA GoesOn ==
  ASSUME CrossTypes, NEW q \in IdentityRequests, Cross!IsOpen(q), NEW r \in CrossCalls, r.todo = claimed[q].todo,
         r.op = claimed[q].op,
         r.keys = claimed[q].keys, Cross!Goes(q, r)
  PROVE  After(q, r) /\ Typed'
<1>. DEFINE tail == Tail(claimed[q].todo)
<1>1. /\ tail \in Seq(CrossSteps) /\ (tail = <<>> <=> Len(claimed[q].todo) = 1) /\ (tail = <<>> <=> Items(tail) = {})
      /\ tail # <<>> => CrossTodo(claimed[q].op, claimed[q].keys, tail)
      /\ claimed[q].op \in {"upload", "reset", "challenge"} \cup AboutSession
  BY AtShape
<1>2. Cross!Begun(q)
  BY <1>1 DEF Cross!Begun, AboutSession
<1>3. CASE tail = <<>>
  <2>1. claimed' = [claimed EXCEPT ![q] = Cross!Done]
    BY <1>1, <1>3 DEF Cross!Goes
  <2>2. /\ Others(q) /\ claimed'[q] = Cross!Done /\ Left(q)' = {} /\ ~Cross!IsOpen(q)' /\ Typed'
    BY <2>1, BecomesDone
  <2>. QED
    BY <1>1, <1>2, <1>3, <2>2 DEF After
<1>4. CASE tail # <<>>
  <2>1. claimed' = [claimed EXCEPT ![q] = [r EXCEPT !.todo = tail]]
    BY <1>1, <1>4 DEF Cross!Goes
  <2>2. /\ [r EXCEPT !.todo = tail] \in CrossCalls /\ [r EXCEPT !.todo = tail].todo = tail
        /\ [r EXCEPT !.todo = tail].op = r.op /\ [r EXCEPT !.todo = tail].keys = r.keys
        /\ [r EXCEPT !.todo = tail].seen = r.seen /\ [r EXCEPT !.todo = tail].session = r.session
        /\ [r EXCEPT !.todo = tail].stage = r.stage
    BY <1>1 DEF CrossCalls
  <2>. DEFINE new == [r EXCEPT !.todo = tail]
  <2>. HIDE DEF new
  <2>3. claimed' \in [IdentityRequests -> CrossCalls] /\ claimed'[q] = new /\ Others(q)
    BY <2>1, <2>2 DEF CrossTypes, Others, new
  <2>4. new.todo = tail /\ new.op = r.op /\ new.keys = r.keys /\ new.seen = r.seen /\ new.session = r.session
        /\ new.stage = r.stage
    BY <2>2 DEF new
  <2>5. Typed'
    <3>1. SUFFICES ASSUME NEW p \in IdentityRequests PROVE CrossTodo(claimed'[p].op, claimed'[p].keys, claimed'[p].todo)
      BY <2>3 DEF Typed
    <3>. QED
      BY <1>1, <1>4, <2>3, <2>4 DEF CrossTypes, Others
  <2>. QED
    BY <1>1, <1>2, <1>4, <2>3, <2>4, <2>5 DEF After, Left, Cross!IsOpen
<1>. QED
  BY <1>3, <1>4

LEMMA RanOn ==
  ASSUME CrossTypes, NEW q \in IdentityRequests, Cross!IsOpen(q), Cross!Ran(q)
  PROVE  After(q, claimed[q]) /\ Typed'
<1>1. claimed[q] \in CrossCalls
  BY DEF CrossTypes
<1>. QED
  BY <1>1, GoesOn DEF Cross!Ran

(* A request that opens had nothing to run. *)
LEMMA Opened ==
  ASSUME CrossTypes, NEW q \in IdentityRequests, NEW r \in CrossCalls, CrossTodo(r.op, r.keys, r.todo), Cross!Open(q, r)
  PROVE  Others(q) /\ claimed'[q] = r /\ Typed' /\ ~Cross!Begun(q) /\ ~Cross!IsOpen(q) /\ Left(q) = {}
<1>1. claimed' = [claimed EXCEPT ![q] = r] /\ ~Cross!Begun(q)
  BY DEF Cross!Open
<1>2. claimed' \in [IdentityRequests -> CrossCalls] /\ claimed'[q] = r /\ Others(q)
  BY <1>1 DEF CrossTypes, Others
<1>3. Typed'
  <2>1. SUFFICES ASSUME NEW p \in IdentityRequests PROVE CrossTodo(claimed'[p].op, claimed'[p].keys, claimed'[p].todo)
    BY <1>2 DEF Typed
  <2>. QED
    BY <1>2 DEF CrossTypes, Others
<1>4. claimed[q].todo = <<>>
  BY <1>1 DEF CrossTypes, CrossTodo, Cross!Begun
<1>. QED
  BY <1>1, <1>2, <1>3, <1>4, ShortTodos DEF Cross!IsOpen, Left

(* What the new uploads are. *)
FirstUpload(of) == [Cross!Idle EXCEPT !.op = "upload", !.todo = Cross!Storing(of), !.keys = of, !.stage = "first"]
PasswordUpload(of) == [Cross!Idle EXCEPT !.op = "upload", !.todo = Cross!Storing(of), !.keys = of, !.stage = "password"]
SessionUpload(of, s) == [Cross!Idle EXCEPT !.op = "upload", !.todo = Entry(of), !.keys = of, !.session = s]

LEMMA NewUploads ==
  ASSUME NEW of \in SUBSET Cross!KeyTypes, NEW s \in Cross!Sessions
  PROVE  /\ FirstUpload(of) \in CrossCalls /\ FirstUpload(of).op = "upload" /\ FirstUpload(of).keys = of
         /\ CrossTodo("upload", of, FirstUpload(of).todo)
         /\ FirstUpload(of).session = Cross!NoSession /\ FirstUpload(of).stage = "first"
         /\ Items(FirstUpload(of).todo) = {"getObject", "putObject"} \cup Items(Cross!RowsOf(of))
         /\ PasswordUpload(of) \in CrossCalls /\ PasswordUpload(of).op = "upload" /\ PasswordUpload(of).keys = of
         /\ CrossTodo("upload", of, PasswordUpload(of).todo)
         /\ PasswordUpload(of).session = Cross!NoSession /\ PasswordUpload(of).stage = "password"
         /\ Items(PasswordUpload(of).todo) = {"getObject", "putObject"} \cup Items(Cross!RowsOf(of))
         /\ SessionUpload(of, s) \in CrossCalls /\ SessionUpload(of, s).op = "upload" /\ SessionUpload(of, s).keys = of
         /\ CrossTodo("upload", of, SessionUpload(of, s).todo)
         /\ SessionUpload(of, s).session = s /\ SessionUpload(of, s).stage = "none"
         /\ Items(SessionUpload(of, s).todo) =
              {"getSession", "useSession", "getObject", "putObject"} \cup Items(Cross!RowsOf(of))
<1>1. /\ Cross!Storing(of) \in Seq(CrossSteps)
      /\ Items(Cross!Storing(of)) = {"getObject", "putObject"} \cup Items(Cross!RowsOf(of))
      /\ Entry(of) \in Seq(CrossSteps)
      /\ Items(Entry(of)) = {"getSession", "useSession", "getObject", "putObject"} \cup Items(Cross!RowsOf(of))
  BY UploadTodos
<1>2. CrossTodo("upload", of, Cross!Storing(of)) /\ CrossTodo("upload", of, Entry(of))
  BY DEF CrossTodo, Entry, AboutSession
<1>4. /\ FirstUpload(of) \in CrossCalls /\ FirstUpload(of).op = "upload" /\ FirstUpload(of).todo = Cross!Storing(of)
      /\ FirstUpload(of).keys = of /\ FirstUpload(of).session = Cross!NoSession /\ FirstUpload(of).stage = "first"
  BY <1>1 DEF CrossCalls, Cross!Idle, Cross!NoneUploaded, FirstUpload
<1>5. /\ PasswordUpload(of) \in CrossCalls /\ PasswordUpload(of).op = "upload"
      /\ PasswordUpload(of).todo = Cross!Storing(of)
      /\ PasswordUpload(of).keys = of /\ PasswordUpload(of).session = Cross!NoSession
      /\ PasswordUpload(of).stage = "password"
  BY <1>1 DEF CrossCalls, Cross!Idle, Cross!NoneUploaded, PasswordUpload
<1>6. /\ SessionUpload(of, s) \in CrossCalls /\ SessionUpload(of, s).op = "upload"
      /\ SessionUpload(of, s).todo = Entry(of) /\ SessionUpload(of, s).keys = of
      /\ SessionUpload(of, s).session = s /\ SessionUpload(of, s).stage = "none"
  BY <1>1 DEF CrossCalls, Cross!Idle, Cross!NoneUploaded, SessionStages, SessionUpload
<1>. QED
  BY <1>1, <1>2, <1>4, <1>5, <1>6

SessionCall(op, s) == [Cross!Idle EXCEPT !.op = op, !.todo = <<"getSession", "writeSession">>, !.session = s]

LEMMA NewSessionCalls ==
  ASSUME NEW s \in Cross!Sessions, NEW op \in {"redirect", "approve"}
  PROVE  /\ SessionCall(op, s) \in CrossCalls /\ SessionCall(op, s).op = op /\ SessionCall(op, s).session = s
         /\ SessionCall(op, s).stage = "none" /\ Items(SessionCall(op, s).todo) = {"getSession", "writeSession"}
         /\ \A of : CrossTodo(op, of, SessionCall(op, s).todo)
<1>1. <<"getSession", "writeSession">> \in Seq(CrossSteps)
  BY DEF CrossSteps
<1>2. \A of : CrossTodo(op, of, <<"getSession", "writeSession">>)
  BY DEF CrossTodo, AboutSession
<1>3. /\ SessionCall(op, s) \in CrossCalls /\ SessionCall(op, s).op = op
      /\ SessionCall(op, s).todo = <<"getSession", "writeSession">>
      /\ SessionCall(op, s).session = s /\ SessionCall(op, s).stage = "none"
  BY <1>1 DEF CrossCalls, Cross!Idle, Cross!NoneUploaded, SessionStages, AboutSession, SessionCall
<1>. QED
  BY <1>2, <1>3, ShortTodos

LEMMA NewOthers ==
  ASSUME NEW s \in Cross!Sessions
  PROVE  /\ LET r == [Cross!Idle EXCEPT !.op = "challenge", !.todo = <<"putSession">>] IN
              /\ r \in CrossCalls /\ CrossTodo(r.op, r.keys, r.todo) /\ r.op = "challenge"
              /\ r.session = Cross!NoSession
              /\ r.stage = "none" /\ Items(r.todo) = {"putSession"}
         /\ LET r == [Cross!Idle EXCEPT !.op = "reset", !.todo = Cross!Reset] IN
              /\ r \in CrossCalls /\ CrossTodo(r.op, r.keys, r.todo) /\ r.op = "reset" /\ r.session = Cross!NoSession
              /\ r.stage = "none" /\ Items(r.todo) = {"deleteObject", "deleteRows", "record"}
         /\ LET r == [Cross!Idle EXCEPT !.op = "cancel", !.todo = <<"getSession", "dropSession">>, !.session = s] IN
              /\ r \in CrossCalls /\ CrossTodo(r.op, r.keys, r.todo) /\ r.op = "cancel" /\ r.session = s
              /\ r.stage = "none" /\ Items(r.todo) = {"getSession", "dropSession"}
<1>1. /\ <<"putSession">> \in Seq(CrossSteps) /\ Cross!Reset \in Seq(CrossSteps)
      /\ <<"getSession", "dropSession">> \in Seq(CrossSteps)
  BY DEF CrossSteps, RowSteps, Cross!Reset
<1>2. /\ \A of : CrossTodo("challenge", of, <<"putSession">>) /\ CrossTodo("reset", of, Cross!Reset)
      /\ \A of : CrossTodo("cancel", of, <<"getSession", "dropSession">>)
  BY DEF CrossTodo, AboutSession
<1>. DEFINE challenge == [Cross!Idle EXCEPT !.op = "challenge", !.todo = <<"putSession">>]
            reset == [Cross!Idle EXCEPT !.op = "reset", !.todo = Cross!Reset]
            cancel == [Cross!Idle EXCEPT !.op = "cancel", !.todo = <<"getSession", "dropSession">>, !.session = s]
<1>3. /\ challenge \in CrossCalls /\ challenge.op = "challenge" /\ challenge.todo = <<"putSession">>
      /\ challenge.session = Cross!NoSession /\ challenge.stage = "none"
  BY <1>1 DEF CrossCalls, Cross!Idle, Cross!NoneUploaded, SessionStages
<1>4. /\ reset \in CrossCalls /\ reset.op = "reset" /\ reset.todo = Cross!Reset
      /\ reset.session = Cross!NoSession /\ reset.stage = "none"
  BY <1>1 DEF CrossCalls, Cross!Idle, Cross!NoneUploaded, SessionStages
<1>6. /\ cancel \in CrossCalls /\ cancel.op = "cancel" /\ cancel.todo = <<"getSession", "dropSession">>
      /\ cancel.session = s /\ cancel.stage = "none"
  BY <1>1 DEF CrossCalls, Cross!Idle, Cross!NoneUploaded, SessionStages, AboutSession
<1>. HIDE DEF challenge, reset, cancel
<1>7. /\ CrossTodo(challenge.op, challenge.keys, challenge.todo) /\ Items(challenge.todo) = {"putSession"}
      /\ CrossTodo(reset.op, reset.keys, reset.todo) /\ Items(reset.todo) = {"deleteObject", "deleteRows", "record"}
  BY <1>2, <1>3, <1>4, ShortTodos
<1>8. /\ CrossTodo(cancel.op, cancel.keys, cancel.todo) /\ Items(cancel.todo) = {"getSession", "dropSession"}
  BY <1>2, <1>6, ShortTodos
<1>. QED
  BY <1>3, <1>4, <1>6, <1>7, <1>8 DEF challenge, reset, cancel

(* What a request is when it arrives. *)
NewCall(r) ==
  LET table == Items(Cross!RowsOf(r.keys))
      kv == r.session \in Cross!Sessions /\ (sessions[r.session] # "none" \/ before[r.session] # "none")
      todo == Items(r.todo) IN
  \/ /\ r.op = "upload" /\ r.session = Cross!NoSession /\ r.stage \in {"first", "password"}
     /\ r.stage = "first" => rows = Cross!NoneUploaded
     /\ todo = {"getObject", "putObject"} \cup table
  \/ /\ r.op = "upload" /\ kv /\ r.stage = "none"
     /\ todo = {"getSession", "useSession", "getObject", "putObject"} \cup table
  \/ r.op = "challenge" /\ r.session = Cross!NoSession /\ r.stage = "none" /\ todo = {"putSession"}
  \/ r.op = "reset" /\ r.session = Cross!NoSession /\ r.stage = "none"
       /\ todo = {"deleteObject", "deleteRows", "record"}
  \/ r.op \in {"redirect", "approve"} /\ kv /\ r.stage = "none" /\ todo = {"getSession", "writeSession"}
  \/ r.op = "cancel" /\ kv /\ r.stage = "none" /\ todo = {"getSession", "dropSession"}
LEMMA Arrives ==
  ASSUME Payloads \subseteq SUBSET Cross!KeyTypes, NEW q \in IdentityRequests, Cross!Arrive(q)
  PROVE  \E r \in CrossCalls : Cross!Open(q, r) /\ CrossTodo(r.op, r.keys, r.todo) /\ NewCall(r)
<1>0. 1 \in Cross!Sessions /\ "approve" \in {"redirect", "approve"} /\ {} \in SUBSET Cross!KeyTypes
  BY DEF Cross!Sessions
<1>1. CASE Cross!OpenChallenge(q)
  <2>. DEFINE r == [Cross!Idle EXCEPT !.op = "challenge", !.todo = <<"putSession">>]
  <2>1. /\ r \in CrossCalls /\ CrossTodo(r.op, r.keys, r.todo) /\ r.op = "challenge" /\ r.session = Cross!NoSession
        /\ r.stage = "none" /\ Items(r.todo) = {"putSession"}
    BY <1>0, NewOthers
  <2>2. Cross!Open(q, r)
    BY <1>1 DEF Cross!OpenChallenge
  <2>. HIDE DEF r
  <2>3. NewCall(r)
    BY <2>1 DEF NewCall
  <2>. QED
    BY <2>1, <2>2, <2>3
<1>2. CASE Cross!OpenReset(q)
  <2>. DEFINE r == [Cross!Idle EXCEPT !.op = "reset", !.todo = Cross!Reset]
  <2>1. /\ r \in CrossCalls /\ CrossTodo(r.op, r.keys, r.todo) /\ r.op = "reset" /\ r.session = Cross!NoSession
        /\ r.stage = "none" /\ Items(r.todo) = {"deleteObject", "deleteRows", "record"}
    BY <1>0, NewOthers
  <2>2. Cross!Open(q, r)
    BY <1>2 DEF Cross!OpenReset
  <2>. HIDE DEF r
  <2>3. NewCall(r)
    BY <2>1 DEF NewCall
  <2>. QED
    BY <2>1, <2>2, <2>3
<1>3. ASSUME NEW of \in Payloads, Cross!OpenFirst(q, of)
      PROVE  \E r \in CrossCalls : Cross!Open(q, r) /\ CrossTodo(r.op, r.keys, r.todo) /\ NewCall(r)
  <2>1. of \in SUBSET Cross!KeyTypes
    OBVIOUS
  <2>2. FirstUpload(of) \in CrossCalls /\ CrossTodo(FirstUpload(of).op, FirstUpload(of).keys, FirstUpload(of).todo)
    BY <1>0, <2>1, NewUploads
  <2>3. NewCall(FirstUpload(of))
    BY <1>0, <1>3, <2>1, NewUploads DEF NewCall, Cross!OpenFirst
  <2>4. Cross!Open(q, FirstUpload(of))
    BY <1>3 DEF Cross!OpenFirst, FirstUpload
  <2>. QED
    BY <2>2, <2>3, <2>4
<1>4. ASSUME NEW of \in Payloads, Cross!OpenWithPassword(q, of)
      PROVE  \E r \in CrossCalls : Cross!Open(q, r) /\ CrossTodo(r.op, r.keys, r.todo) /\ NewCall(r)
  <2>1. of \in SUBSET Cross!KeyTypes
    OBVIOUS
  <2>2. /\ PasswordUpload(of) \in CrossCalls
        /\ CrossTodo(PasswordUpload(of).op, PasswordUpload(of).keys, PasswordUpload(of).todo)
    BY <1>0, <2>1, NewUploads
  <2>3. NewCall(PasswordUpload(of))
    BY <1>0, <1>4, <2>1, NewUploads DEF NewCall, Cross!OpenWithPassword
  <2>4. Cross!Open(q, PasswordUpload(of))
    BY <1>4 DEF Cross!OpenWithPassword, PasswordUpload
  <2>. QED
    BY <2>2, <2>3, <2>4
<1>5. ASSUME NEW s \in Cross!Sessions, sessions[s] # "none" \/ before[s] # "none", NEW of \in Payloads,
             Cross!OpenWithSession(q, of, s)
      PROVE  \E r \in CrossCalls : Cross!Open(q, r) /\ CrossTodo(r.op, r.keys, r.todo) /\ NewCall(r)
  <2>1. of \in SUBSET Cross!KeyTypes
    OBVIOUS
  <2>2. /\ SessionUpload(of, s) \in CrossCalls
        /\ CrossTodo(SessionUpload(of, s).op, SessionUpload(of, s).keys, SessionUpload(of, s).todo)
    BY <1>0, <2>1, NewUploads
  <2>5. /\ SessionUpload(of, s).op = "upload" /\ SessionUpload(of, s).keys = of
        /\ SessionUpload(of, s).session = s /\ SessionUpload(of, s).stage = "none"
        /\ Items(SessionUpload(of, s).todo) =
             {"getSession", "useSession", "getObject", "putObject"} \cup Items(Cross!RowsOf(of))
    BY <2>1, NewUploads
  <2>3. NewCall(SessionUpload(of, s))
    BY <1>5, <2>5 DEF NewCall
  <2>4. Cross!Open(q, SessionUpload(of, s))
    BY <1>5 DEF Cross!OpenWithSession, SessionUpload, Entry
  <2>. QED
    BY <2>2, <2>3, <2>4
<1>6. ASSUME NEW s \in Cross!Sessions, sessions[s] # "none" \/ before[s] # "none", NEW op \in {"redirect", "approve"},
             Cross!Open(q, SessionCall(op, s))
      PROVE  \E r \in CrossCalls : Cross!Open(q, r) /\ CrossTodo(r.op, r.keys, r.todo) /\ NewCall(r)
  <2>1. /\ SessionCall(op, s) \in CrossCalls /\ SessionCall(op, s).op = op /\ SessionCall(op, s).session = s
        /\ SessionCall(op, s).stage = "none" /\ Items(SessionCall(op, s).todo) = {"getSession", "writeSession"}
        /\ \A of : CrossTodo(op, of, SessionCall(op, s).todo)
    BY NewSessionCalls
  <2>2. NewCall(SessionCall(op, s))
    BY <1>6, <2>1 DEF NewCall
  <2>. QED
    BY <1>6, <2>1, <2>2
<1>7. ASSUME NEW s \in Cross!Sessions, sessions[s] # "none" \/ before[s] # "none", Cross!Cancel(q, s)
      PROVE  \E r \in CrossCalls : Cross!Open(q, r) /\ CrossTodo(r.op, r.keys, r.todo) /\ NewCall(r)
  <2>. DEFINE r == [Cross!Idle EXCEPT !.op = "cancel", !.todo = <<"getSession", "dropSession">>, !.session = s]
  <2>1. /\ r \in CrossCalls /\ CrossTodo(r.op, r.keys, r.todo) /\ r.op = "cancel" /\ r.session = s
        /\ r.stage = "none" /\ Items(r.todo) = {"getSession", "dropSession"}
    BY <1>0, NewOthers
  <2>2. Cross!Open(q, r)
    BY <1>7 DEF Cross!Cancel
  <2>. HIDE DEF r
  <2>3. NewCall(r)
    BY <1>7, <2>1 DEF NewCall
  <2>. QED
    BY <2>1, <2>2, <2>3
<1>8. ASSUME NEW s \in Cross!Sessions, sessions[s] # "none" \/ before[s] # "none", Cross!SsoRedirect(q, s)
         \/ Cross!Approve(q, s)
      PROVE  \E r \in CrossCalls : Cross!Open(q, r) /\ CrossTodo(r.op, r.keys, r.todo) /\ NewCall(r)
  <2>1. \E op \in {"redirect", "approve"} : Cross!Open(q, SessionCall(op, s))
    BY <1>8 DEF Cross!SsoRedirect, Cross!Approve, SessionCall
  <2>. QED
    BY <1>6, <1>8, <2>1
<1>. QED
  BY <1>1, <1>2, <1>3, <1>4, <1>5, <1>7, <1>8 DEF Cross!Arrive, Cross!SsoCallback, Cross!SubmitToken

Table(q) == Items(Cross!RowsOf(claimed[q].keys))
Rest(q) == Items(Tail(claimed[q].todo))

LEMMA TableIs ==
  ASSUME CrossTypes, NEW q \in IdentityRequests
  PROVE  /\ Table(q) \subseteq RowSteps /\ claimed[q].keys \subseteq Cross!KeyTypes
         /\ \A k \in Cross!KeyTypes : k \in Table(q) <=> k \in claimed[q].keys
         /\ "record" \in Table(q) <=> "master" \in claimed[q].keys
<1>1. Cross!RowsOf(claimed[q].keys) \in Seq(RowSteps)
  BY RowsOfIs
<1>2. \A s \in Seq(RowSteps) : Items(s) \subseteq RowSteps
  BY DEF Items
<1>3. Table(q) \subseteq RowSteps
  BY <1>1, <1>2 DEF Table
<1>4. claimed[q].keys \subseteq Cross!KeyTypes
  BY DEF CrossTypes, CrossCalls
<1>. QED
  BY <1>3, <1>4, RowsOfIs DEF Table

LEMMA Heads ==
  ASSUME CrossTypes, NEW q \in IdentityRequests, NEW h, Cross!At(q, h)
  PROVE  /\ Cross!IsOpen(q) /\ TodoAt(claimed[q].op, claimed[q].keys, h, Left(q), Rest(q)) /\ Left(q) = {h} \cup Rest(q)
         /\ \/ claimed[q].op = "upload" /\ UploadAt(claimed[q].keys, h, Left(q), Rest(q)) /\ Cross!Writes(q)
            \/ claimed[q].op # "upload" /\ OtherAt(claimed[q].op, h, Left(q), Rest(q))
         /\ Table(q) = Items(Cross!RowsOf(claimed[q].keys))
<1>1. Cross!IsOpen(q) /\ h = Head(claimed[q].todo)
  BY DEF Cross!At
<1>2. TodoAt(claimed[q].op, claimed[q].keys, h, Left(q), Rest(q)) /\ Left(q) = {h} \cup Rest(q)
  BY <1>1, AtShape DEF Rest
<1>. QED
  BY <1>1, <1>2 DEF TodoAt, Cross!Writes, Table

-----------------------------------------------------------------------------
(* What each statement about the keys does to its request. *)
Kept(q) ==
  /\ claimed'[q].op = claimed[q].op /\ claimed'[q].keys = claimed[q].keys /\ claimed'[q].session = claimed[q].session
  /\ claimed'[q].stage = claimed[q].stage

LEMMA GetObjectMoves ==
  ASSUME CrossTypes, NEW q \in IdentityRequests, Cross!GetObject(q)
  PROVE  /\ Others(q) /\ Typed' /\ Cross!Begun(q) /\ claimed[q].op = "upload" /\ Cross!Writes(q) /\ Cross!Writes(q)'
         /\ Kept(q)
         /\ Left(q) = {"getObject", "putObject"} \cup Table(q) /\ Left(q)' = {"putObject"} \cup Table(q)
         /\ claimed'[q].seen = object /\ RowsLeft(q) = {} /\ RowsLeft(q)' = {}
<1>1. /\ Cross!IsOpen(q) /\ claimed[q].op = "upload" /\ Left(q) = {"getObject", "putObject"} \cup Table(q)
      /\ Rest(q) = {"putObject"} \cup Table(q) /\ Cross!Writes(q)
  BY Heads DEF Cross!GetObject, UploadAt, OtherAt, RowSteps
<1>. DEFINE r == [claimed[q] EXCEPT !.seen = object]
<1>2. /\ r \in CrossCalls /\ r.todo = claimed[q].todo /\ r.op = claimed[q].op /\ r.keys = claimed[q].keys
      /\ r.seen = object
      /\ r.session = claimed[q].session /\ r.stage = claimed[q].stage
  BY DEF CrossTypes, CrossCalls
<1>3. Cross!Goes(q, r)
  BY DEF Cross!GetObject
<1>. HIDE DEF r
<1>4. After(q, r) /\ Typed'
  BY <1>1, <1>2, <1>3, GoesOn
<1>5. Left(q)' = {"putObject"} \cup Table(q) /\ Cross!IsOpen(q)'
  BY <1>1, <1>4 DEF After, Rest
<1>6. Kept(q) /\ claimed'[q].seen = object /\ Others(q) /\ Cross!Begun(q)
  BY <1>2, <1>4, <1>5 DEF After, Kept
<1>7. Cross!Writes(q)'
  BY <1>1, <1>5, <1>6 DEF Cross!Writes, Kept
<1>8. Unstored(q) /\ Unstored(q)'
  BY <1>1, <1>5 DEF Unstored
<1>. QED
  BY <1>1, <1>4, <1>5, <1>6, <1>7, <1>8 DEF RowsLeft

LEMMA PutObjectMoves ==
  ASSUME CrossTypes, NEW q \in IdentityRequests, Cross!PutObject(q)
  PROVE  /\ Others(q) /\ Typed' /\ Cross!Begun(q) /\ claimed[q].op = "upload" /\ Cross!Writes(q)
         /\ Left(q) = {"putObject"} \cup Table(q) /\ Left(q)' = Table(q) /\ ~Unstored(q)'
         /\ Cross!IsOpen(q)' => Kept(q) /\ claimed'[q].seen = claimed[q].seen
         /\ Table(q) # {} => Cross!Writes(q)'
         /\ RowsLeft(q) = {} /\ RowsLeft(q)' = claimed[q].keys
<1>1. /\ Cross!IsOpen(q) /\ claimed[q].op = "upload" /\ Left(q) = {"putObject"} \cup Table(q) /\ Rest(q) = Table(q)
      /\ Cross!Writes(q)
  BY Heads DEF Cross!PutObject, UploadAt, OtherAt, RowSteps
<1>2. After(q, claimed[q]) /\ Typed'
  BY <1>1, RanOn DEF Cross!PutObject
<1>3. Left(q)' = Table(q) /\ (Cross!IsOpen(q)' <=> Table(q) # {}) /\ Others(q) /\ Cross!Begun(q)
  BY <1>1, <1>2 DEF After, Rest
<1>4. Cross!IsOpen(q)' => Kept(q) /\ claimed'[q].seen = claimed[q].seen
  BY <1>2 DEF After, Kept
<1>5. Table(q) # {} <=> Cross!Writes(q)'
  BY <1>1, <1>3, <1>4 DEF Cross!Writes, Kept
<1>6. Unstored(q) /\ ~Unstored(q)'
  BY <1>1, <1>3, TableIs DEF Unstored, RowSteps
<1>7. RowsLeft(q) = {}
  BY <1>6 DEF RowsLeft
<1>8. RowsLeft(q)' = claimed[q].keys
  <2>1. Table(q) \cap Cross!KeyTypes = claimed[q].keys
    BY TableIs
  <2>2. CASE Table(q) = {}
    BY <1>5, <2>1, <2>2 DEF RowsLeft
  <2>3. CASE Table(q) # {}
    <3>1. Cross!Writes(q)' /\ ~Unstored(q)' /\ claimed'[q].op = "upload"
      BY <1>1, <1>3, <1>4, <1>5, <1>6, <2>3 DEF Kept
    <3>. QED
      BY <1>3, <2>1, <3>1 DEF RowsLeft
  <2>. QED
    BY <2>2, <2>3
<1>. QED
  BY <1>1, <1>2, <1>3, <1>4, <1>5, <1>6, <1>7, <1>8

(* Those that write rows. *)
LEMMA TableMoves ==
  ASSUME CrossTypes, NEW q \in IdentityRequests, NEW h \in RowSteps, Cross!At(q, h), Cross!Ran(q),
         claimed[q].op = "upload"
  PROVE  /\ Others(q) /\ Typed' /\ Cross!Begun(q) /\ Cross!Writes(q) /\ Left(q) \subseteq RowSteps
         /\ Left(q) = {h} \cup Left(q)'
         /\ ~Unstored(q) /\ ~Unstored(q)'
         /\ Cross!IsOpen(q)' => Kept(q) /\ claimed'[q].seen = claimed[q].seen
         /\ Left(q)' # {} => Cross!Writes(q)'
         /\ RowsLeft(q) = Left(q) \cap Cross!KeyTypes /\ RowsLeft(q)' = Left(q)' \cap Cross!KeyTypes
<1>1. Cross!IsOpen(q) /\ Left(q) \subseteq RowSteps /\ Left(q) = {h} \cup Rest(q) /\ Cross!Writes(q)
  BY Heads DEF UploadAt, RowSteps
<1>2. After(q, claimed[q]) /\ Typed'
  BY <1>1, RanOn
<1>3. Left(q)' = Rest(q) /\ (Cross!IsOpen(q)' <=> Rest(q) # {}) /\ Others(q) /\ Cross!Begun(q)
  BY <1>1, <1>2 DEF After, Rest
<1>4. Cross!IsOpen(q)' => Kept(q) /\ claimed'[q].seen = claimed[q].seen
  BY <1>2 DEF After, Kept
<1>5. Left(q)' # {} <=> Cross!Writes(q)'
  BY <1>1, <1>3, <1>4 DEF Cross!Writes, Kept
<1>6. ~Unstored(q) /\ ~Unstored(q)'
  BY <1>1, <1>3 DEF Unstored, RowSteps
<1>7. RowsLeft(q) = Left(q) \cap Cross!KeyTypes
  BY <1>1, <1>6 DEF RowsLeft
<1>8. RowsLeft(q)' = Left(q)' \cap Cross!KeyTypes
  <2>1. CASE Left(q)' = {}
    BY <1>5, <2>1 DEF RowsLeft
  <2>2. CASE Left(q)' # {}
    <3>1. Cross!Writes(q)' /\ claimed'[q].op = "upload"
      BY <1>3, <1>4, <1>5, <2>2 DEF Kept
    <3>. QED
      BY <1>6, <3>1 DEF RowsLeft
  <2>. QED
    BY <2>1, <2>2
<1>. QED
  BY <1>1, <1>2, <1>3, <1>4, <1>5, <1>6, <1>7, <1>8

LEMMA PutRowMoves ==
  ASSUME CrossTypes, NEW q \in IdentityRequests, NEW k \in Cross!KeyTypes, Cross!PutRow(q, k)
  PROVE  /\ claimed[q].op = "upload" /\ k \in RowSteps /\ Cross!At(q, k) /\ Cross!Ran(q)
<1>1. Cross!At(q, k) /\ Cross!Ran(q) /\ k \in RowSteps
  BY DEF Cross!PutRow, Cross!KeyTypes, RowSteps
<1>2. claimed[q].op = "upload"
  BY <1>1, Heads DEF OtherAt, Cross!KeyTypes
<1>. QED
  BY <1>1, <1>2

LEMMA ResetMoves ==
  ASSUME CrossTypes, NEW q \in IdentityRequests, NEW h, Cross!At(q, h), Cross!Ran(q), claimed[q].op = "reset"
  PROVE  /\ Others(q) /\ Typed' /\ Cross!Begun(q) /\ Cross!Writes(q)
         /\ Cross!IsOpen(q)' => Kept(q)
         /\ h = "deleteObject" => /\ Left(q) = {h, "deleteRows", "record"} /\ Left(q)' = {"deleteRows", "record"}
                                  /\ Unstored(q) /\ ~Unstored(q)' /\ Cross!Writes(q)' /\ RowsLeft(q) = {}
                                  /\ RowsLeft(q)' = Cross!KeyTypes
         /\ h = "deleteRows" => /\ Left(q) = {h, "record"} /\ Left(q)' = {"record"} /\ ~Unstored(q) /\ ~Unstored(q)'
                                /\ Cross!Writes(q)' /\ RowsLeft(q) = Cross!KeyTypes /\ RowsLeft(q)' = {}
         /\ h = "record" => /\ Left(q) = {h} /\ Left(q)' = {} /\ ~Unstored(q) /\ ~Cross!Writes(q)'
                            /\ RowsLeft(q) = {} /\ RowsLeft(q)' = {}
<1>1. /\ Cross!IsOpen(q) /\ Cross!Writes(q)
      /\ h = "deleteObject" => Left(q) = {h, "deleteRows", "record"} /\ Rest(q) = {"deleteRows", "record"}
      /\ h = "deleteRows" => Left(q) = {h, "record"} /\ Rest(q) = {"record"}
      /\ h = "record" => Left(q) = {h} /\ Rest(q) = {}
  BY Heads DEF OtherAt, Cross!Writes
<1>2. After(q, claimed[q]) /\ Typed'
  BY <1>1, RanOn
<1>3. Left(q)' = Rest(q) /\ (Cross!IsOpen(q)' <=> Rest(q) # {}) /\ Others(q) /\ Cross!Begun(q)
  BY <1>1, <1>2 DEF After, Rest
<1>4. Cross!IsOpen(q)' => Kept(q)
  BY <1>2 DEF After, Kept
<1>5. CASE h = "deleteObject"
  <2>1. Unstored(q) /\ ~Unstored(q)' /\ Cross!IsOpen(q)'
    BY <1>1, <1>3, <1>5 DEF Unstored
  <2>2. Cross!Writes(q)' /\ claimed'[q].op = "reset"
    BY <1>4, <2>1 DEF Cross!Writes, Kept
  <2>3. RowsLeft(q) = {} /\ RowsLeft(q)' = Cross!KeyTypes
    BY <1>1, <1>3, <1>5, <2>1, <2>2 DEF RowsLeft
  <2>. QED
    BY <1>1, <1>2, <1>3, <1>4, <1>5, <2>1, <2>2, <2>3
<1>6. CASE h = "deleteRows"
  <2>1. ~Unstored(q) /\ ~Unstored(q)' /\ Cross!IsOpen(q)'
    BY <1>1, <1>3, <1>6 DEF Unstored
  <2>2. Cross!Writes(q)' /\ claimed'[q].op = "reset"
    BY <1>4, <2>1 DEF Cross!Writes, Kept
  <2>3. RowsLeft(q) = Cross!KeyTypes /\ RowsLeft(q)' = {}
    BY <1>1, <1>3, <1>6, <2>1, <2>2 DEF RowsLeft
  <2>. QED
    BY <1>1, <1>2, <1>3, <1>4, <1>6, <2>1, <2>2, <2>3
<1>7. CASE h = "record"
  <2>1. ~Unstored(q) /\ ~Cross!Writes(q)'
    BY <1>1, <1>3, <1>7 DEF Unstored, Cross!Writes
  <2>2. RowsLeft(q) = {} /\ RowsLeft(q)' = {}
    BY <1>1, <1>7, <2>1 DEF RowsLeft
  <2>. QED
    BY <1>1, <1>2, <1>3, <1>4, <1>7, <2>1, <2>2
<1>. QED
  BY <1>1, <1>2, <1>3, <1>4, <1>5, <1>6, <1>7

-----------------------------------------------------------------------------
(* The statements about sessions leave the keys alone. *)
KeysQuiet ==
  \A p \in IdentityRequests :
    /\ RowsLeft(p)' = RowsLeft(p)
    /\ Cross!Writes(p)' =>
         /\ Cross!Writes(p) /\ claimed'[p].op = claimed[p].op /\ claimed'[p].seen = claimed[p].seen
         /\ \A x \in {"getObject", "putObject", "deleteObject"} : x \in Left(p)' <=> x \in Left(p)
         /\ claimed'[p].stage = "first" => claimed[p].stage = "first"
    /\ Cross!Writes(p) /\ ~Unstored(p) /\ "record" \in Left(p) =>
         Cross!Writes(p)' /\ ~Unstored(p)' /\ "record" \in Left(p)'

LEMMA QuietBut ==
  ASSUME CrossTypes, NEW q \in IdentityRequests, Others(q), RowsLeft(q)' = RowsLeft(q),
         Cross!Writes(q)' => /\ Cross!Writes(q) /\ claimed'[q].op = claimed[q].op /\ claimed'[q].seen = claimed[q].seen
                             /\ \A x \in {"getObject", "putObject", "deleteObject"} : x \in Left(q)' <=> x \in Left(q)
                             /\ claimed'[q].stage = "first" => claimed[q].stage = "first",
         Cross!Writes(q) => Unstored(q)
  PROVE  KeysQuiet
<1>1. ASSUME NEW p \in IdentityRequests, p # q
      PROVE  /\ claimed'[p] = claimed[p] /\ RowsLeft(p)' = RowsLeft(p) /\ (Cross!Writes(p)' <=> Cross!Writes(p))
             /\ (Unstored(p)' <=> Unstored(p)) /\ Left(p)' = Left(p)
  <2>1. claimed'[p] = claimed[p]
    BY <1>1 DEF Others
  <2>. QED
    BY <2>1, Viewed
<1>. QED
  BY <1>1 DEF KeysQuiet

(* A request at a session's statement has stored nothing. *)
LEMMA SessionMoves ==
  ASSUME CrossTypes, NEW q \in IdentityRequests,
         NEW h \in {"getSession", "useSession", "putSession", "writeSession", "dropSession"},
         Cross!At(q, h), NEW r \in CrossCalls, r.todo = claimed[q].todo, r.op = claimed[q].op, r.keys = claimed[q].keys,
         r.seen = claimed[q].seen, r.stage = "first" => claimed[q].stage = "first", Cross!Goes(q, r)
  PROVE  After(q, r) /\ Typed' /\ KeysQuiet /\ Left(q)' = Rest(q) /\ Left(q) = {h} \cup Rest(q)
<1>1. Cross!IsOpen(q) /\ Left(q) = {h} \cup Rest(q)
  BY Heads
<1>2. After(q, r) /\ Typed'
  BY <1>1, GoesOn
<1>3. Left(q)' = Rest(q) /\ (Cross!IsOpen(q)' <=> Rest(q) # {}) /\ Others(q)
  BY <1>2 DEF After, Rest
<1>4. Cross!IsOpen(q)' => claimed'[q].op = r.op /\ claimed'[q].seen = r.seen /\ claimed'[q].stage = r.stage
  BY <1>2 DEF After
<1>5. CASE claimed[q].op = "upload"
  <2>1. "putObject" \in Left(q) /\ "putObject" \in Rest(q) /\ Cross!Writes(q)
    BY <1>5, Heads DEF UploadAt, RowSteps
  <2>2. Unstored(q) /\ Unstored(q)'
    BY <1>3, <2>1 DEF Unstored
  <2>3. RowsLeft(q)' = RowsLeft(q)
    BY <2>2 DEF RowsLeft
  <2>4. \A x \in {"getObject", "putObject", "deleteObject"} : x \in Left(q)' <=> x \in Left(q)
    BY <1>1, <1>3
  <2>5. Cross!IsOpen(q)'
    BY <1>3, <2>1
  <2>6. /\ claimed'[q].op = claimed[q].op /\ claimed'[q].seen = claimed[q].seen
        /\ (claimed'[q].stage = "first" => claimed[q].stage = "first")
    BY <1>4, <2>5
  <2>. QED
    BY <1>1, <1>2, <1>3, <2>1, <2>2, <2>3, <2>4, <2>6, QuietBut
<1>6. CASE claimed[q].op # "upload"
  <2>1. claimed[q].op \in {"challenge", "redirect", "approve", "cancel"}
    BY <1>6, Heads DEF OtherAt
  <2>2. ~Cross!Writes(q) /\ ~Cross!Writes(q)'
    BY <1>4, <2>1 DEF Cross!Writes
  <2>3. RowsLeft(q)' = RowsLeft(q)
    BY <2>2 DEF RowsLeft
  <2>. QED
    BY <1>1, <1>2, <1>3, <2>2, <2>3, QuietBut
<1>. QED
  BY <1>5, <1>6

(* One that ends early stores nothing more. *)
LEMMA EndsQuiet ==
  ASSUME CrossTypes, NEW q \in IdentityRequests, claimed' = [claimed EXCEPT ![q] = Cross!Done], Cross!Writes(q) =>
      Unstored(q)
  PROVE  KeysQuiet
<1>1. Others(q) /\ ~Cross!IsOpen(q)'
  BY BecomesDone
<1>2. ~Cross!Writes(q)' /\ RowsLeft(q)' = {}
  BY <1>1 DEF Cross!Writes, RowsLeft
<1>3. RowsLeft(q) = {}
  BY DEF RowsLeft
<1>. QED
  BY <1>1, <1>2, <1>3, QuietBut

(* Of the sessions. *)
LEMMA SessionHeads ==
  ASSUME CrossTypes, StageInv, NEW q \in IdentityRequests
  PROVE  /\ Cross!At(q, "putSession") => claimed[q].op = "challenge" /\ Rest(q) = {}
         /\ Cross!At(q, "getSession") =>
              /\ claimed[q].session \in Cross!Sessions /\ claimed[q].stage = "none"
              /\ \/ claimed[q].op = "upload" /\ "useSession" \in Rest(q) /\ "getSession" \notin Rest(q)
                      /\ "putObject" \in Rest(q)
                 \/ claimed[q].op \in {"redirect", "approve"} /\ Rest(q) = {"writeSession"}
                 \/ claimed[q].op = "cancel" /\ Rest(q) = {"dropSession"}
         /\ Cross!At(q, "useSession") =>
              /\ claimed[q].op = "upload" /\ claimed[q].session \in Cross!Sessions /\ claimed[q].stage = "approved"
              /\ Rest(q) # {} /\ Rest(q) \cap {"getSession", "writeSession", "useSession", "dropSession"} = {}
              /\ "getSession" \notin Left(q) /\ "putObject" \in Left(q)
         /\ Cross!At(q, "writeSession") =>
              /\ claimed[q].op \in {"redirect", "approve"} /\ claimed[q].session \in Cross!Sessions
              /\ claimed[q].stage \in {"open", "approved"} /\ Rest(q) = {}
         /\ Cross!At(q, "dropSession") =>
              /\ claimed[q].op = "cancel" /\ claimed[q].session \in Cross!Sessions
              /\ claimed[q].stage \in {"open", "approved"} /\ Rest(q) = {}
<1>0. claimed[q].stage \in SessionStages \cup {"first", "password"} /\ Cross!NoSession \notin Cross!Sessions
  BY IdentityAssumption DEF CrossTypes, CrossCalls, Cross!NoSession, Cross!Sessions
<1>1. Cross!At(q, "putSession") => claimed[q].op = "challenge" /\ Rest(q) = {}
  BY Heads DEF UploadAt, OtherAt, RowSteps
<1>2. ASSUME Cross!At(q, "getSession")
      PROVE  /\ claimed[q].session \in Cross!Sessions /\ claimed[q].stage = "none"
             /\ \/ claimed[q].op = "upload" /\ "useSession" \in Rest(q) /\ "getSession" \notin Rest(q)
                     /\ "putObject" \in Rest(q)
                \/ claimed[q].op \in {"redirect", "approve"} /\ Rest(q) = {"writeSession"}
                \/ claimed[q].op = "cancel" /\ Rest(q) = {"dropSession"}
  <2>1. \/ /\ claimed[q].op = "upload" /\ "useSession" \in Left(q)
           /\ Rest(q) = {"useSession", "getObject", "putObject"} \cup Table(q)
        \/ claimed[q].op \in {"redirect", "approve"} /\ Rest(q) = {"writeSession"}
        \/ claimed[q].op = "cancel" /\ Rest(q) = {"dropSession"}
    BY <1>2, Heads DEF UploadAt, OtherAt, RowSteps
  <2>2. "getSession" \in Left(q) /\ Cross!IsOpen(q)
    BY <1>2, Heads
  <2>3. claimed[q].session \in Cross!Sessions /\ claimed[q].stage = "none"
    BY <2>1, <2>2 DEF StageInv, AboutSession
  <2>4. "getSession" \notin Table(q)
    BY TableIs DEF RowSteps
  <2>. QED
    BY <2>1, <2>3, <2>4
<1>3. ASSUME Cross!At(q, "useSession")
      PROVE  /\ claimed[q].op = "upload" /\ claimed[q].session \in Cross!Sessions /\ claimed[q].stage = "approved"
             /\ Rest(q) # {} /\ Rest(q) \cap {"getSession", "writeSession", "useSession", "dropSession"} = {}
             /\ "getSession" \notin Left(q) /\ "putObject" \in Left(q)
  <2>1. /\ Cross!IsOpen(q) /\ claimed[q].op = "upload"
        /\ Left(q) = {"useSession", "getObject", "putObject"} \cup Table(q)
        /\ Rest(q) = {"getObject", "putObject"} \cup Table(q)
    BY <1>3, Heads DEF UploadAt, OtherAt, RowSteps
  <2>2. Table(q) \cap {"getSession", "writeSession", "useSession", "dropSession"} = {}
    BY TableIs DEF RowSteps
  <2>3. claimed[q].session \in Cross!Sessions
    BY <2>1 DEF StageInv
  <2>4. claimed[q].stage # "none" /\ claimed[q].stage \in {"none", "approved"}
    BY <1>0, <2>1, <2>2, <2>3 DEF StageInv
  <2>. QED
    BY <2>1, <2>2, <2>3, <2>4
<1>4. ASSUME Cross!At(q, "writeSession")
      PROVE  /\ claimed[q].op \in {"redirect", "approve"} /\ claimed[q].session \in Cross!Sessions
             /\ claimed[q].stage \in {"open", "approved"} /\ Rest(q) = {}
  <2>1. Cross!IsOpen(q) /\ claimed[q].op \in {"redirect", "approve"} /\ Left(q) = {"writeSession"} /\ Rest(q) = {}
    BY <1>4, Heads DEF UploadAt, OtherAt, RowSteps
  <2>2. claimed[q].session \in Cross!Sessions /\ claimed[q].stage # "none"
    BY <2>1 DEF StageInv, AboutSession
  <2>. QED
    BY <1>0, <2>1, <2>2 DEF StageInv, SessionStages
<1>5. ASSUME Cross!At(q, "dropSession")
      PROVE  /\ claimed[q].op = "cancel" /\ claimed[q].session \in Cross!Sessions
             /\ claimed[q].stage \in {"open", "approved"} /\ Rest(q) = {}
  <2>1. Cross!IsOpen(q) /\ claimed[q].op = "cancel" /\ Left(q) = {"dropSession"} /\ Rest(q) = {}
    BY <1>5, Heads DEF UploadAt, OtherAt, RowSteps
  <2>2. claimed[q].session \in Cross!Sessions /\ claimed[q].stage # "none"
    BY <2>1 DEF StageInv, AboutSession
  <2>. QED
    BY <1>0, <2>1, <2>2 DEF StageInv, SessionStages
<1>. QED
  BY <1>1, <1>2, <1>3, <1>4, <1>5

KeysInv == WritersInv /\ ObjectInv /\ RowsInv /\ ToldInv /\ ConsentInv
SessionInv == StageInv /\ NewSessionInv /\ HolderInv

LEMMA KeysStay ==
  ASSUME CrossTypes, KeysInv, KeysQuiet, Cross!KeepKeys
  PROVE  KeysInv'
<1>1. UNCHANGED <<object, rows, told, met, metReset, stale, stopped, unasked>>
  BY DEF Cross!KeepKeys
<1>2. WritersInv'
  BY <1>1 DEF KeysInv, WritersInv, KeysQuiet
<1>3. ObjectInv'
  <2>1. ASSUME NEW q \in IdentityRequests, Cross!Writes(q)'
        PROVE  /\ Cross!Writes(q) /\ RowsLeft(q)' = RowsLeft(q) /\ claimed'[q].op = claimed[q].op
               /\ claimed'[q].seen = claimed[q].seen
               /\ \A x \in {"getObject", "putObject", "deleteObject"} : x \in Left(q)' <=> x \in Left(q)
    BY <2>1 DEF KeysQuiet
  <2>2. ASSUME ~met', NEW q \in IdentityRequests, Cross!Writes(q)'
        PROVE  /\ claimed'[q].op = "upload" => \A k \in RowsLeft(q)' : object'[k] = q
               /\ claimed'[q].op = "reset" /\ "deleteObject" \notin Left(q)' => object' = Cross!NoneUploaded
               /\ "putObject" \in Left(q)' /\ "getObject" \notin Left(q)' => claimed'[q].seen = object'
    BY <1>1, <2>1, <2>2 DEF KeysInv, ObjectInv
  <2>3. ASSUME ~metReset', NEW q \in IdentityRequests, Cross!Writes(q)'
        PROVE  /\ claimed'[q].op = "upload" => \A k \in RowsLeft(q)' : object'[k] # 0
               /\ claimed'[q].op = "reset" /\ "deleteObject" \notin Left(q)' => object' = Cross!NoneUploaded
               /\ "putObject" \in Left(q)' /\ "getObject" \notin Left(q)' =>
                    \A k \in Cross!KeyTypes : claimed'[q].seen[k] # 0 => object'[k] # 0
    BY <1>1, <2>1, <2>3 DEF KeysInv, ObjectInv
  <2>. QED
    BY <2>2, <2>3 DEF ObjectInv
<1>4. RowsInv'
  <2>1. \A q \in IdentityRequests : RowsLeft(q)' = RowsLeft(q)
    BY DEF KeysQuiet
  <2>. QED
    BY <1>1, <2>1 DEF KeysInv, RowsInv
<1>5. ToldInv'
  <2>1. \A p \in IdentityRequests :
          Cross!Writes(p) /\ ~Unstored(p) /\ "record" \in Left(p) =>
              Cross!Writes(p)' /\ ~Unstored(p)' /\ "record" \in Left(p)'
    BY DEF KeysQuiet
  <2>. QED
    BY <1>1, <2>1 DEF KeysInv, ToldInv
<1>6. ConsentInv'
  <2>1. Cross!ReplacedWithConsent'
    BY <1>1 DEF KeysInv, ConsentInv, Cross!ReplacedWithConsent
  <2>2. ASSUME ~met', ~stopped', NEW q \in IdentityRequests, Cross!Writes(q)', claimed'[q].stage = "first",
               "putObject" \in Left(q)'
        PROVE  object' = Cross!NoneUploaded
    <3>1. Cross!Writes(q) /\ claimed[q].stage = "first" /\ "putObject" \in Left(q)
      BY <2>2 DEF KeysQuiet
    <3>. QED
      BY <1>1, <2>2, <3>1 DEF KeysInv, ConsentInv
  <2>. QED
    BY <2>1, <2>2 DEF ConsentInv
<1>. QED
  BY <1>2, <1>3, <1>4, <1>5, <1>6 DEF KeysInv

LEMMA SessionsStay ==
  ASSUME CrossTypes, SessionInv, NEW q \in IdentityRequests, Others(q), UNCHANGED <<sessions, before, served,
         cancelled, agreed, mixed>>,
         Cross!IsOpen(q)' => /\ Cross!IsOpen(q) /\ claimed'[q].op = claimed[q].op
                             /\ claimed'[q].session = claimed[q].session
                             /\ claimed'[q].stage = claimed[q].stage /\ Left(q)' \subseteq Left(q)
                             /\ "getSession" \in Left(q) => "getSession" \in Left(q)',
         claimed'[q].op \notin {"none", "challenge"}, Cross!IsOpen(q)' \/ claimed'[q] = Cross!Done
  PROVE  SessionInv'
<1>1. ASSUME NEW p \in IdentityRequests, p # q
      PROVE  /\ claimed'[p] = claimed[p] /\ Left(p)' = Left(p) /\ (Cross!IsOpen(p)' <=> Cross!IsOpen(p))
             /\ (Cross!Begun(p)' <=> Cross!Begun(p))
             /\ \A s \in Cross!Sessions : Cross!Holds(p, s)' <=> Cross!Holds(p, s)
  <2>1. claimed'[p] = claimed[p]
    BY <1>1 DEF Others
  <2>. QED
    BY <2>1, Viewed
<1>2. StageInv'
  <2>1. ASSUME NEW p \in IdentityRequests, Cross!IsOpen(p)'
        PROVE  /\ Cross!IsOpen(p) /\ claimed'[p].op = claimed[p].op /\ claimed'[p].session = claimed[p].session
               /\ claimed'[p].stage = claimed[p].stage /\ Left(p)' \subseteq Left(p)
               /\ "getSession" \in Left(p) => "getSession" \in Left(p)'
    BY <1>1, <2>1
  <2>2. ASSUME NEW p \in IdentityRequests, Cross!IsOpen(p)'
        PROVE  /\ claimed'[p].op \in AboutSession => claimed'[p].session \in Cross!Sessions
               /\ "useSession" \in Left(p)' => claimed'[p].session \in Cross!Sessions
               /\ "getSession" \in Left(p)' => claimed'[p].stage = "none"
               /\ claimed'[p].stage \in {"first", "password"} => claimed'[p].session = Cross!NoSession
               /\ claimed'[p].op = "upload" /\ claimed'[p].session # Cross!NoSession =>
                    claimed'[p].stage \in {"none", "approved"}
               /\ Left(p)' \cap {"writeSession", "useSession", "dropSession"} # {} /\ "getSession" \notin Left(p)' =>
                    claimed'[p].stage # "none"
    BY <2>1, <2>2 DEF SessionInv, StageInv
  <2>. QED
    BY <2>2 DEF StageInv
<1>3. NewSessionInv'
  <2>1. SUFFICES ASSUME NEW s \in IdentityRequests, ~Cross!Begun(s)' \/ claimed'[s].op = "challenge"
                 PROVE  /\ sessions'[s] = "none" /\ before'[s] = "none" /\ served'[s] = {}
                        /\ s \notin cancelled' \cup agreed'
                        /\ \A p \in IdentityRequests : claimed'[p].session # s
    BY DEF NewSessionInv
  <2>2. s # q
    BY <2>1 DEF Cross!Begun
  <2>3. ~Cross!Begun(s) \/ claimed[s].op = "challenge"
    BY <1>1, <2>1, <2>2
  <2>4. /\ sessions[s] = "none" /\ before[s] = "none" /\ served[s] = {} /\ s \notin cancelled \cup agreed
        /\ \A p \in IdentityRequests : claimed[p].session # s
    BY <2>3 DEF SessionInv, NewSessionInv
  <2>5. ASSUME NEW p \in IdentityRequests PROVE claimed'[p].session # s
    <3>1. CASE p # q
      BY <1>1, <2>4, <3>1
    <3>2. CASE p = q
      <4>1. s # Cross!NoSession
        BY IdentityAssumption DEF Cross!NoSession
      <4>. QED
        BY <2>4, <3>2, <4>1, DoneIs
    <3>. QED
      BY <3>1, <3>2
  <2>. QED
    BY <2>4, <2>5
<1>4. HolderInv'
  <2>1. ASSUME NEW p \in IdentityRequests, NEW s \in Cross!Sessions, Cross!Holds(p, s)'
        PROVE  /\ Cross!Holds(p, s) /\ claimed'[p].op = claimed[p].op /\ claimed'[p].stage = claimed[p].stage
               /\ Left(p)' \subseteq Left(p)
    <3>1. CASE p # q
      BY <1>1, <2>1, <3>1
    <3>2. CASE p = q
      BY <2>1, <3>2 DEF Cross!Holds
    <3>. QED
      BY <3>1, <3>2
  <2>2. ASSUME NEW s \in Cross!Sessions \ mixed'
        PROVE  /\ \A p, r \in IdentityRequests : Cross!Holds(p, s)' /\ Cross!Holds(r, s)' => p = r
               /\ \A p, r \in served'[s] : p = r
               /\ served'[s] # {} \/ s \in cancelled' =>
                    /\ sessions'[s] = "none"
                    /\ \A p \in IdentityRequests : Cross!Holds(p, s)' =>
                         claimed'[p].op = "upload" /\ "useSession" \notin Left(p)'
               /\ s \in agreed' => /\ sessions'[s] # "open"
                                   /\ \A p \in IdentityRequests : Cross!Holds(p, s)' => claimed'[p].stage # "open"
    BY <2>1 DEF SessionInv, HolderInv
  <2>. QED
    BY <2>2 DEF HolderInv
<1>. QED
  BY <1>2, <1>3, <1>4 DEF SessionInv

-----------------------------------------------------------------------------
(* The others, when one goes on. *)
LEMMA OthersStay ==
  ASSUME NEW q \in IdentityRequests, Others(q)
  PROVE  \A p \in IdentityRequests \ {q} :
           /\ claimed'[p] = claimed[p] /\ Left(p)' = Left(p) /\ (Cross!IsOpen(p)' <=> Cross!IsOpen(p))
           /\ (Cross!Writes(p)' <=> Cross!Writes(p))
           /\ (Unstored(p)' <=> Unstored(p)) /\ RowsLeft(p)' = RowsLeft(p) /\ (Cross!Begun(p)' <=> Cross!Begun(p))
           /\ \A s \in Cross!Sessions : Cross!Holds(p, s)' <=> Cross!Holds(p, s)
<1>1. SUFFICES ASSUME NEW p \in IdentityRequests \ {q}
               PROVE  /\ claimed'[p] = claimed[p] /\ Left(p)' = Left(p) /\ (Cross!IsOpen(p)' <=> Cross!IsOpen(p))
                      /\ (Cross!Writes(p)' <=> Cross!Writes(p))
                      /\ (Unstored(p)' <=> Unstored(p)) /\ RowsLeft(p)' = RowsLeft(p)
                      /\ (Cross!Begun(p)' <=> Cross!Begun(p))
                      /\ \A s \in Cross!Sessions : Cross!Holds(p, s)' <=> Cross!Holds(p, s)
  OBVIOUS
<1>2. claimed'[p] = claimed[p]
  BY DEF Others
<1>. QED
  BY <1>2, Viewed

(* A writer is alone, but with other uploads. *)
LEMMA WritersStay ==
  ASSUME KeysInv, UNCHANGED <<met, metReset>>, NEW q \in IdentityRequests, Others(q), Cross!Writes(q),
         Cross!Writes(q)' => claimed'[q].op = claimed[q].op
  PROVE  /\ WritersInv'
         /\ ~met => \A p \in IdentityRequests : Cross!Writes(p) => p = q
         /\ ~metReset => \A p \in IdentityRequests : Cross!Writes(p) /\ p # q =>
              claimed[p].op = "upload" /\ claimed[q].op = "upload"
<1>1. \A p \in IdentityRequests \ {q} : claimed'[p] = claimed[p] /\ (Cross!Writes(p)' <=> Cross!Writes(p))
  BY OthersStay
<1>2. \A p \in IdentityRequests : Cross!Writes(p)' => Cross!Writes(p) /\ claimed'[p].op = claimed[p].op
  BY <1>1
<1>3. WritersInv
  BY DEF KeysInv
<1>4. WritersInv'
  BY <1>2, <1>3 DEF WritersInv
<1>. QED
  BY <1>3, <1>4 DEF WritersInv

LEMMA GetObjectKeeps ==
  ASSUME CrossTypes, KeysInv, NEW q \in IdentityRequests, Cross!GetObject(q)
  PROVE  KeysInv'
<1>1. /\ Others(q) /\ claimed[q].op = "upload" /\ Cross!Writes(q) /\ Cross!Writes(q)' /\ Kept(q)
      /\ Left(q) = {"getObject", "putObject"} \cup Table(q) /\ Left(q)' = {"putObject"} \cup Table(q)
      /\ claimed'[q].seen = object /\ RowsLeft(q) = {} /\ RowsLeft(q)' = {}
  BY GetObjectMoves
<1>2. UNCHANGED <<object, rows, told, met, metReset, stale, stopped, unasked>>
  BY DEF Cross!GetObject, Cross!KeepKeys
<1>3. \A p \in IdentityRequests \ {q} :
        /\ claimed'[p] = claimed[p] /\ Left(p)' = Left(p) /\ (Cross!Writes(p)' <=> Cross!Writes(p))
        /\ (Unstored(p)' <=> Unstored(p))
        /\ RowsLeft(p)' = RowsLeft(p)
  BY <1>1, OthersStay
<1>4. WritersInv'
  BY <1>1, <1>2, WritersStay DEF Kept
<1>5. ObjectInv'
  <2>1. ASSUME ~met', NEW p \in IdentityRequests, Cross!Writes(p)'
        PROVE  /\ claimed'[p].op = "upload" => \A k \in RowsLeft(p)' : object'[k] = p
               /\ claimed'[p].op = "reset" /\ "deleteObject" \notin Left(p)' => object' = Cross!NoneUploaded
               /\ "putObject" \in Left(p)' /\ "getObject" \notin Left(p)' => claimed'[p].seen = object'
    BY <1>1, <1>2, <1>3, <2>1 DEF KeysInv, ObjectInv, Kept
  <2>2. ASSUME ~metReset', NEW p \in IdentityRequests, Cross!Writes(p)'
        PROVE  /\ claimed'[p].op = "upload" => \A k \in RowsLeft(p)' : object'[k] # 0
               /\ claimed'[p].op = "reset" /\ "deleteObject" \notin Left(p)' => object' = Cross!NoneUploaded
               /\ "putObject" \in Left(p)' /\ "getObject" \notin Left(p)' =>
                    \A k \in Cross!KeyTypes : claimed'[p].seen[k] # 0 => object'[k] # 0
    BY <1>1, <1>2, <1>3, <2>2 DEF KeysInv, ObjectInv, Kept
  <2>. QED
    BY <2>1, <2>2 DEF ObjectInv
<1>6. RowsInv'
  <2>1. \A p \in IdentityRequests : RowsLeft(p)' = RowsLeft(p)
    BY <1>1, <1>3
  <2>. QED
    BY <1>2, <2>1 DEF KeysInv, RowsInv
<1>7. ToldInv'
  <2>1. Unstored(q)
    BY <1>1 DEF Unstored
  <2>. QED
    BY <1>2, <1>3, <2>1 DEF KeysInv, ToldInv
<1>8. ConsentInv'
  <2>1. Cross!ReplacedWithConsent'
    BY <1>2 DEF KeysInv, ConsentInv, Cross!ReplacedWithConsent
  <2>2. ASSUME ~met', ~stopped', NEW p \in IdentityRequests, Cross!Writes(p)', claimed'[p].stage = "first",
               "putObject" \in Left(p)'
        PROVE  object' = Cross!NoneUploaded
    <3>1. Cross!Writes(p) /\ claimed[p].stage = "first" /\ "putObject" \in Left(p)
      BY <1>1, <1>3, <2>2 DEF Kept
    <3>. QED
      BY <1>2, <2>2, <3>1 DEF KeysInv, ConsentInv
  <2>. QED
    BY <2>1, <2>2 DEF ConsentInv
<1>. QED
  BY <1>4, <1>5, <1>6, <1>7, <1>8 DEF KeysInv

LEMMA PutObjectKeeps ==
  ASSUME CrossTypes, KeysInv, NEW q \in IdentityRequests, Cross!PutObject(q)
  PROVE  KeysInv' /\ object' \in [Cross!KeyTypes -> Nat]
<1>1. /\ Others(q) /\ claimed[q].op = "upload" /\ Cross!Writes(q)
      /\ Left(q) = {"putObject"} \cup Table(q) /\ Left(q)' = Table(q) /\ ~Unstored(q)'
      /\ Cross!IsOpen(q)' => Kept(q) /\ claimed'[q].seen = claimed[q].seen
      /\ Table(q) # {} => Cross!Writes(q)'
      /\ RowsLeft(q) = {} /\ RowsLeft(q)' = claimed[q].keys
  BY PutObjectMoves
<1>2. /\ object' = Cross!Merged(q) /\ UNCHANGED <<rows, told, met, metReset, stopped>>
      /\ stale' = (stale \/ \E k \in Cross!KeyTypes \ claimed[q].keys : object'[k] # object[k])
      /\ unasked' = (unasked \/ (claimed[q].stage = "first" /\ \E k \in claimed[q].keys : object[k] # 0))
  BY DEF Cross!PutObject
<1>3. \A p \in IdentityRequests \ {q} :
        /\ claimed'[p] = claimed[p] /\ Left(p)' = Left(p) /\ (Cross!Writes(p)' <=> Cross!Writes(p))
        /\ (Unstored(p)' <=> Unstored(p))
        /\ RowsLeft(p)' = RowsLeft(p)
  BY <1>1, OthersStay
<1>4. Cross!Writes(q)' => Kept(q)
  BY <1>1 DEF Cross!Writes
<1>5. /\ WritersInv'
      /\ ~met => \A p \in IdentityRequests : Cross!Writes(p) => p = q
      /\ ~metReset => \A p \in IdentityRequests : Cross!Writes(p) /\ p # q =>
           claimed[p].op = "upload" /\ claimed[q].op = "upload"
  BY <1>1, <1>2, <1>4, WritersStay DEF Kept
<1>6. /\ claimed[q].keys \subseteq Cross!KeyTypes /\ Table(q) \subseteq RowSteps
      /\ \A k \in Cross!KeyTypes : k \in Table(q) <=> k \in claimed[q].keys
      /\ "record" \in Table(q) <=> "master" \in claimed[q].keys
  BY TableIs
<1>7. q \in Nat \ {0} /\ claimed[q].seen \in [Cross!KeyTypes -> Nat] /\ object \in [Cross!KeyTypes -> Nat]
  BY IdentityAssumption DEF CrossTypes, CrossCalls
<1>8. /\ object' \in [Cross!KeyTypes -> Nat]
      /\ \A k \in Cross!KeyTypes : object'[k] = IF k \in claimed[q].keys THEN q
                                                ELSE IF claimed[q].seen[k] # 0 THEN claimed[q].seen[k] ELSE object[k]
  BY <1>2, <1>7 DEF Cross!Merged
<1>9. "getObject" \notin Left(q) /\ "putObject" \in Left(q) /\ "putObject" \notin Left(q)'
  BY <1>1, <1>6 DEF RowSteps
<1>10. /\ ~met => claimed[q].seen = object
       /\ ~metReset => \A k \in Cross!KeyTypes : claimed[q].seen[k] # 0 => object[k] # 0
  BY <1>1, <1>9 DEF KeysInv, ObjectInv
<1>11. \A k \in Cross!KeyTypes : ~metReset /\ object[k] # 0 => object'[k] # 0
  BY <1>7, <1>8
<1>12. ObjectInv'
  <2>1. ASSUME ~met', NEW p \in IdentityRequests, Cross!Writes(p)'
        PROVE  /\ claimed'[p].op = "upload" => \A k \in RowsLeft(p)' : object'[k] = p
               /\ claimed'[p].op = "reset" /\ "deleteObject" \notin Left(p)' => object' = Cross!NoneUploaded
               /\ "putObject" \in Left(p)' /\ "getObject" \notin Left(p)' => claimed'[p].seen = object'
    <3>1. p = q
      BY <1>2, <1>3, <1>5, <2>1
    <3>2. claimed'[q].op = "upload"
      BY <1>1, <1>4, <2>1, <3>1 DEF Kept
    <3>3. \A k \in RowsLeft(q)' : object'[k] = q
      BY <1>1, <1>6, <1>8
    <3>. QED
      BY <1>9, <3>1, <3>2, <3>3
  <2>2. ASSUME ~metReset', NEW p \in IdentityRequests, Cross!Writes(p)'
        PROVE  /\ claimed'[p].op = "upload" => \A k \in RowsLeft(p)' : object'[k] # 0
               /\ claimed'[p].op = "reset" /\ "deleteObject" \notin Left(p)' => object' = Cross!NoneUploaded
               /\ "putObject" \in Left(p)' /\ "getObject" \notin Left(p)' =>
                    \A k \in Cross!KeyTypes : claimed'[p].seen[k] # 0 => object'[k] # 0
    <3>1. CASE p = q
      <4>1. claimed'[q].op = "upload"
        BY <1>1, <1>4, <2>2, <3>1 DEF Kept
      <4>2. \A k \in RowsLeft(q)' : object'[k] # 0
        BY <1>1, <1>6, <1>7, <1>8
      <4>. QED
        BY <1>9, <3>1, <4>1, <4>2
    <3>2. CASE p # q
      <4>1. /\ claimed'[p] = claimed[p] /\ Left(p)' = Left(p) /\ Cross!Writes(p) /\ RowsLeft(p)' = RowsLeft(p)
            /\ claimed[p].op = "upload"
        BY <1>2, <1>3, <1>5, <2>2, <3>2
      <4>2. RowsLeft(p) \subseteq Cross!KeyTypes
        BY DEF RowsLeft
      <4>3. /\ \A k \in RowsLeft(p) : object[k] # 0
            /\ "putObject" \in Left(p) /\ "getObject" \notin Left(p) =>
                 \A k \in Cross!KeyTypes : claimed[p].seen[k] # 0 => object[k] # 0
        BY <1>2, <2>2, <4>1 DEF KeysInv, ObjectInv
      <4>. QED
        BY <1>2, <1>11, <2>2, <4>1, <4>2, <4>3
    <3>. QED
      BY <3>1, <3>2
  <2>. QED
    BY <2>1, <2>2 DEF ObjectInv
<1>13. RowsInv'
  <2>1. ASSUME ~stopped', ~met', NEW k \in Cross!KeyTypes
        PROVE  object'[k] = rows'[k] \/ \E p \in IdentityRequests : k \in RowsLeft(p)'
    <3>1. CASE k \in claimed[q].keys
      BY <1>1, <3>1
    <3>2. CASE k \notin claimed[q].keys
      <4>1. object'[k] = object[k]
        BY <1>2, <1>8, <1>10, <2>1, <3>2
      <4>2. \A p \in IdentityRequests : RowsLeft(p) = {}
        BY <1>1, <1>2, <1>5, <2>1 DEF RowsLeft
      <4>3. object[k] = rows[k]
        BY <1>2, <2>1, <4>2 DEF KeysInv, RowsInv
      <4>. QED
        BY <1>2, <4>1, <4>3
    <3>. QED
      BY <3>1, <3>2
  <2>2. ASSUME ~stopped', ~metReset', NEW k \in Cross!KeyTypes
        PROVE  (object'[k] = 0 <=> rows'[k] = 0) \/ \E p \in IdentityRequests : k \in RowsLeft(p)'
    <3>1. CASE k \in claimed[q].keys
      BY <1>1, <3>1
    <3>2. CASE k \notin claimed[q].keys
      <4>1. object'[k] = 0 <=> object[k] = 0
        BY <1>2, <1>8, <1>10, <2>2, <3>2
      <4>2. (object[k] = 0 <=> rows[k] = 0) \/ \E p \in IdentityRequests : k \in RowsLeft(p)
        BY <1>2, <2>2 DEF KeysInv, RowsInv
      <4>. QED
        BY <1>1, <1>2, <1>3, <4>1, <4>2
    <3>. QED
      BY <3>1, <3>2
  <2>. QED
    BY <2>1, <2>2 DEF RowsInv
<1>14. ToldInv'
  <2>1. SUFFICES ASSUME ~stopped', ~stale'
                 PROVE  told' = object'["master"] \/ \E p \in IdentityRequests : Cross!Writes(p)' /\ ~Unstored(p)'
                     /\ "record" \in Left(p)'
    BY DEF ToldInv
  <2>2. CASE "master" \in claimed[q].keys
    BY <1>1, <1>6, <2>2
  <2>3. CASE "master" \notin claimed[q].keys
    <3>1. object'["master"] = object["master"] /\ ~stale /\ ~stopped
      BY <1>2, <2>1, <2>3 DEF Cross!KeyTypes
    <3>2. Unstored(q)
      BY <1>1 DEF Unstored
    <3>3. told = object["master"] \/ \E p \in IdentityRequests \ {q} : Cross!Writes(p) /\ ~Unstored(p)
             /\ "record" \in Left(p)
      BY <3>1, <3>2 DEF KeysInv, ToldInv
    <3>. QED
      BY <1>2, <1>3, <3>1, <3>3
  <2>. QED
    BY <2>2, <2>3
<1>15. ConsentInv'
  <2>1. Cross!ReplacedWithConsent'
    <3>1. SUFFICES ASSUME unasked', ~met, ~stopped PROVE FALSE
      BY <1>2 DEF Cross!ReplacedWithConsent
    <3>2. ~unasked
      BY <3>1 DEF KeysInv, ConsentInv, Cross!ReplacedWithConsent
    <3>3. claimed[q].stage = "first" /\ \E k \in claimed[q].keys : object[k] # 0
      BY <1>2, <3>1, <3>2
    <3>4. object = Cross!NoneUploaded
      BY <1>1, <1>9, <3>1, <3>3 DEF KeysInv, ConsentInv
    <3>. QED
      BY <1>6, <3>3, <3>4 DEF Cross!NoneUploaded
  <2>2. ASSUME ~met', NEW p \in IdentityRequests, Cross!Writes(p)' PROVE "putObject" \notin Left(p)'
    BY <1>2, <1>3, <1>5, <1>9, <2>2
  <2>. QED
    BY <2>1, <2>2 DEF ConsentInv
<1>. QED
  BY <1>5, <1>8, <1>12, <1>13, <1>14, <1>15 DEF KeysInv

LEMMA PutRowKeeps ==
  ASSUME CrossTypes, KeysInv, NEW q \in IdentityRequests, NEW k \in Cross!KeyTypes, Cross!PutRow(q, k)
  PROVE  KeysInv' /\ rows' \in [Cross!KeyTypes -> Nat]
<1>0. claimed[q].op = "upload" /\ k \in RowSteps /\ Cross!At(q, k) /\ Cross!Ran(q)
  BY PutRowMoves
<1>1. /\ Others(q) /\ Cross!Writes(q) /\ Left(q) \subseteq RowSteps /\ Left(q) = {k} \cup Left(q)'
      /\ ~Unstored(q) /\ ~Unstored(q)'
      /\ Cross!IsOpen(q)' => Kept(q) /\ claimed'[q].seen = claimed[q].seen
      /\ Left(q)' # {} => Cross!Writes(q)'
      /\ RowsLeft(q) = Left(q) \cap Cross!KeyTypes /\ RowsLeft(q)' = Left(q)' \cap Cross!KeyTypes
  BY <1>0, TableMoves
<1>2. UNCHANGED <<object, told, met, metReset, stale, stopped, unasked>> /\ rows' = [rows EXCEPT ![k] = q]
  BY DEF Cross!PutRow
<1>3. \A p \in IdentityRequests \ {q} :
        /\ claimed'[p] = claimed[p] /\ Left(p)' = Left(p) /\ (Cross!Writes(p)' <=> Cross!Writes(p))
        /\ (Unstored(p)' <=> Unstored(p))
        /\ RowsLeft(p)' = RowsLeft(p)
  BY <1>1, OthersStay
<1>4. Cross!Writes(q)' => Kept(q)
  BY <1>1 DEF Cross!Writes
<1>5. WritersInv'
  BY <1>1, <1>2, <1>4, WritersStay DEF Kept
<1>6. q \in Nat \ {0} /\ rows \in [Cross!KeyTypes -> Nat]
  BY IdentityAssumption DEF CrossTypes
<1>7. rows' \in [Cross!KeyTypes -> Nat] /\ rows'[k] = q /\ \A j \in Cross!KeyTypes \ {k} : rows'[j] = rows[j]
  BY <1>2, <1>6
<1>8. "putObject" \notin Left(q)'
  BY <1>1 DEF RowSteps
<1>9. ObjectInv'
  <2>1. ASSUME ~met', NEW p \in IdentityRequests, Cross!Writes(p)'
        PROVE  /\ claimed'[p].op = "upload" => \A j \in RowsLeft(p)' : object'[j] = p
               /\ claimed'[p].op = "reset" /\ "deleteObject" \notin Left(p)' => object' = Cross!NoneUploaded
               /\ "putObject" \in Left(p)' /\ "getObject" \notin Left(p)' => claimed'[p].seen = object'
    <3>1. CASE p = q
      BY <1>0, <1>1, <1>2, <1>4, <1>8, <2>1, <3>1 DEF KeysInv, ObjectInv, Kept
    <3>2. CASE p # q
      BY <1>2, <1>3, <2>1, <3>2 DEF KeysInv, ObjectInv
    <3>. QED
      BY <3>1, <3>2
  <2>2. ASSUME ~metReset', NEW p \in IdentityRequests, Cross!Writes(p)'
        PROVE  /\ claimed'[p].op = "upload" => \A j \in RowsLeft(p)' : object'[j] # 0
               /\ claimed'[p].op = "reset" /\ "deleteObject" \notin Left(p)' => object' = Cross!NoneUploaded
               /\ "putObject" \in Left(p)' /\ "getObject" \notin Left(p)' =>
                    \A j \in Cross!KeyTypes : claimed'[p].seen[j] # 0 => object'[j] # 0
    <3>1. CASE p = q
      BY <1>0, <1>1, <1>2, <1>4, <1>8, <2>2, <3>1 DEF KeysInv, ObjectInv, Kept
    <3>2. CASE p # q
      BY <1>2, <1>3, <2>2, <3>2 DEF KeysInv, ObjectInv
    <3>. QED
      BY <3>1, <3>2
  <2>. QED
    BY <2>1, <2>2 DEF ObjectInv
<1>10. k \in RowsLeft(q)
  BY <1>1
<1>11. \A j \in Cross!KeyTypes \ {k} : (\E p \in IdentityRequests : j \in RowsLeft(p)) =>
         \E p \in IdentityRequests : j \in RowsLeft(p)'
  BY <1>1, <1>3
<1>12. RowsInv'
  <2>1. ASSUME ~stopped', ~met', NEW j \in Cross!KeyTypes
        PROVE  object'[j] = rows'[j] \/ \E p \in IdentityRequests : j \in RowsLeft(p)'
    <3>1. CASE j = k
      <4>1. object[k] = q
        BY <1>0, <1>1, <1>2, <1>10, <2>1 DEF KeysInv, ObjectInv
      <4>. QED
        BY <1>2, <1>7, <3>1, <4>1
    <3>2. CASE j # k
      BY <1>2, <1>7, <1>11, <2>1, <3>2 DEF KeysInv, RowsInv
    <3>. QED
      BY <3>1, <3>2
  <2>2. ASSUME ~stopped', ~metReset', NEW j \in Cross!KeyTypes
        PROVE  (object'[j] = 0 <=> rows'[j] = 0) \/ \E p \in IdentityRequests : j \in RowsLeft(p)'
    <3>1. CASE j = k
      <4>1. object[k] # 0
        BY <1>0, <1>1, <1>2, <1>10, <2>2 DEF KeysInv, ObjectInv
      <4>. QED
        BY <1>2, <1>6, <1>7, <3>1, <4>1
    <3>2. CASE j # k
      BY <1>2, <1>7, <1>11, <2>2, <3>2 DEF KeysInv, RowsInv
    <3>. QED
      BY <3>1, <3>2
  <2>. QED
    BY <2>1, <2>2 DEF RowsInv
<1>13. ToldInv'
  <2>1. "record" \in Left(q) => "record" \in Left(q)' /\ Cross!Writes(q)'
    BY <1>1 DEF Cross!KeyTypes
  <2>. QED
    BY <1>1, <1>2, <1>3, <2>1 DEF KeysInv, ToldInv
<1>14. ConsentInv'
  <2>1. Cross!ReplacedWithConsent'
    BY <1>2 DEF KeysInv, ConsentInv, Cross!ReplacedWithConsent
  <2>2. ASSUME ~met', ~stopped', NEW p \in IdentityRequests, Cross!Writes(p)', claimed'[p].stage = "first",
               "putObject" \in Left(p)'
        PROVE  object' = Cross!NoneUploaded
    <3>1. p # q
      BY <1>8, <2>2
    <3>. QED
      BY <1>2, <1>3, <2>2, <3>1 DEF KeysInv, ConsentInv
  <2>. QED
    BY <2>1, <2>2 DEF ConsentInv
<1>. QED
  BY <1>5, <1>7, <1>9, <1>12, <1>13, <1>14 DEF KeysInv

LEMMA RecordMoves ==
  ASSUME CrossTypes, NEW q \in IdentityRequests, Cross!RecordChange(q)
  PROVE  /\ Others(q) /\ Typed' /\ Cross!Begun(q) /\ Cross!Writes(q) /\ claimed[q].op \in {"upload", "reset"}
         /\ RowsLeft(q)' = RowsLeft(q) /\ ~Unstored(q)
         /\ Left(q)' \subseteq Left(q) /\ "putObject" \notin Left(q) /\ "deleteObject" \notin Left(q)
         /\ "getSession" \notin Left(q)
         /\ Cross!Writes(q)' => Kept(q) /\ claimed[q].op = "upload"
         /\ Cross!IsOpen(q)' => Cross!Writes(q)'
<1>1. /\ Cross!At(q, "record") /\ Cross!Ran(q) /\ "record" \in RowSteps
  BY DEF Cross!RecordChange, RowSteps
<1>2. claimed[q].op \in {"upload", "reset"}
  BY <1>1, Heads DEF UploadAt, OtherAt
<1>3. CASE claimed[q].op = "upload"
  <2>1. /\ Others(q) /\ Typed' /\ Cross!Begun(q) /\ Cross!Writes(q) /\ Left(q) \subseteq RowSteps
        /\ Left(q) = {"record"} \cup Left(q)'
        /\ ~Unstored(q) /\ Cross!IsOpen(q)' => Kept(q)
        /\ RowsLeft(q) = Left(q) \cap Cross!KeyTypes /\ RowsLeft(q)' = Left(q)' \cap Cross!KeyTypes
    BY <1>1, <1>3, TableMoves
  <2>2. RowsLeft(q)' = RowsLeft(q)
    BY <2>1 DEF Cross!KeyTypes
  <2>3. /\ ~Unstored(q) /\ "putObject" \notin Left(q) /\ "deleteObject" \notin Left(q) /\ "getSession" \notin Left(q)
    BY <2>1 DEF Unstored, RowSteps
  <2>4. Cross!IsOpen(q)' => Kept(q)
    BY <1>1, <1>3, TableMoves
  <2>5. Cross!IsOpen(q)' <=> Cross!Writes(q)'
    BY <1>3, <2>4 DEF Cross!Writes, Kept
  <2>. QED
    BY <1>3, <2>1, <2>2, <2>3, <2>4, <2>5
<1>4. CASE claimed[q].op = "reset"
  <2>1. /\ Others(q) /\ Typed' /\ Cross!Begun(q) /\ Cross!Writes(q) /\ Left(q) = {"record"} /\ Left(q)' = {}
        /\ ~Unstored(q)
        /\ ~Cross!Writes(q)' /\ RowsLeft(q) = {} /\ RowsLeft(q)' = {}
    BY <1>1, <1>4, ResetMoves
  <2>2. ~Cross!IsOpen(q)'
    <3>1. Cross!IsOpen(q)' => Kept(q)
      BY <1>1, <1>4, ResetMoves
    <3>. QED
      BY <1>4, <2>1, <3>1 DEF Cross!Writes, Kept
  <2>. QED
    BY <1>4, <2>1, <2>2
<1>. QED
  BY <1>2, <1>3, <1>4

LEMMA RecordKeeps ==
  ASSUME CrossTypes, KeysInv, NEW q \in IdentityRequests, Cross!RecordChange(q)
  PROVE  KeysInv'
<1>1. /\ Others(q) /\ Cross!Writes(q) /\ RowsLeft(q)' = RowsLeft(q) /\ Left(q)' \subseteq Left(q)
      /\ "putObject" \notin Left(q) /\ "deleteObject" \notin Left(q)
      /\ Cross!Writes(q)' => Kept(q) /\ claimed[q].op = "upload"
  BY RecordMoves
<1>2. UNCHANGED <<object, rows, met, metReset, stale, stopped, unasked>> /\ told' = object["master"]
  BY DEF Cross!RecordChange
<1>3. \A p \in IdentityRequests \ {q} :
        /\ claimed'[p] = claimed[p] /\ Left(p)' = Left(p) /\ (Cross!Writes(p)' <=> Cross!Writes(p))
        /\ (Unstored(p)' <=> Unstored(p))
        /\ RowsLeft(p)' = RowsLeft(p)
  BY <1>1, OthersStay
<1>5. WritersInv'
  BY <1>1, <1>2, WritersStay DEF Kept
<1>6. ASSUME NEW p \in IdentityRequests, Cross!Writes(p)'
      PROVE  /\ Cross!Writes(p) /\ claimed'[p].op = claimed[p].op /\ RowsLeft(p)' = RowsLeft(p)
             /\ "putObject" \in Left(p)' => p # q
             /\ claimed[p].op = "reset" => p # q
             /\ p # q => Left(p)' = Left(p) /\ claimed'[p] = claimed[p]
  BY <1>1, <1>3, <1>6 DEF Kept
<1>9. ObjectInv'
  <2>1. ASSUME ~met', NEW p \in IdentityRequests, Cross!Writes(p)'
        PROVE  /\ claimed'[p].op = "upload" => \A j \in RowsLeft(p)' : object'[j] = p
               /\ claimed'[p].op = "reset" /\ "deleteObject" \notin Left(p)' => object' = Cross!NoneUploaded
               /\ "putObject" \in Left(p)' /\ "getObject" \notin Left(p)' => claimed'[p].seen = object'
    BY <1>2, <1>6, <2>1 DEF KeysInv, ObjectInv
  <2>2. ASSUME ~metReset', NEW p \in IdentityRequests, Cross!Writes(p)'
        PROVE  /\ claimed'[p].op = "upload" => \A j \in RowsLeft(p)' : object'[j] # 0
               /\ claimed'[p].op = "reset" /\ "deleteObject" \notin Left(p)' => object' = Cross!NoneUploaded
               /\ "putObject" \in Left(p)' /\ "getObject" \notin Left(p)' =>
                    \A j \in Cross!KeyTypes : claimed'[p].seen[j] # 0 => object'[j] # 0
    BY <1>2, <1>6, <2>2 DEF KeysInv, ObjectInv
  <2>. QED
    BY <2>1, <2>2 DEF ObjectInv
<1>12. RowsInv'
  <2>1. \A p \in IdentityRequests : RowsLeft(p)' = RowsLeft(p)
    BY <1>1, <1>3
  <2>. QED
    BY <1>2, <2>1 DEF KeysInv, RowsInv
<1>13. ToldInv'
  BY <1>2 DEF ToldInv
<1>14. ConsentInv'
  <2>1. Cross!ReplacedWithConsent'
    BY <1>2 DEF KeysInv, ConsentInv, Cross!ReplacedWithConsent
  <2>2. ASSUME ~met', ~stopped', NEW p \in IdentityRequests, Cross!Writes(p)', claimed'[p].stage = "first",
               "putObject" \in Left(p)'
        PROVE  object' = Cross!NoneUploaded
    BY <1>2, <1>6, <2>2 DEF KeysInv, ConsentInv
  <2>. QED
    BY <2>1, <2>2 DEF ConsentInv
<1>. QED
  BY <1>5, <1>9, <1>12, <1>13, <1>14 DEF KeysInv

LEMMA DeleteMoves ==
  ASSUME CrossTypes, NEW q \in IdentityRequests, NEW h \in {"deleteObject", "deleteRows"}, Cross!At(q, h), Cross!Ran(q)
  PROVE  /\ Others(q) /\ Typed' /\ Cross!Begun(q) /\ Cross!Writes(q) /\ claimed[q].op = "reset" /\ Cross!Writes(q)'
         /\ Kept(q)
         /\ "record" \in Left(q)' /\ ~Unstored(q)' /\ Left(q)' \subseteq Left(q)
         /\ "putObject" \notin Left(q)' /\ "getSession" \notin Left(q)
         /\ h = "deleteObject" => RowsLeft(q)' = Cross!KeyTypes
         /\ h = "deleteRows" => RowsLeft(q)' = {} /\ "deleteObject" \notin Left(q)
<1>1. claimed[q].op = "reset"
  BY Heads DEF UploadAt, OtherAt, RowSteps
<1>2. /\ Others(q) /\ Typed' /\ Cross!Begun(q) /\ Cross!Writes(q)
      /\ Cross!IsOpen(q)' => Kept(q)
      /\ h = "deleteObject" => /\ Left(q) = {h, "deleteRows", "record"} /\ Left(q)' = {"deleteRows", "record"}
                               /\ ~Unstored(q)' /\ Cross!Writes(q)' /\ RowsLeft(q)' = Cross!KeyTypes
      /\ h = "deleteRows" => /\ Left(q) = {h, "record"} /\ Left(q)' = {"record"} /\ ~Unstored(q)'
                             /\ Cross!Writes(q)' /\ RowsLeft(q)' = {}
  BY <1>1, ResetMoves
<1>3. Cross!Writes(q)' /\ Kept(q)
  BY <1>2 DEF Cross!Writes
<1>. QED
  BY <1>1, <1>2, <1>3

LEMMA DeletesKeep ==
  ASSUME CrossTypes, KeysInv, NEW q \in IdentityRequests, Cross!DeleteObject(q) \/ Cross!DeleteRows(q)
  PROVE  KeysInv' /\ object' \in [Cross!KeyTypes -> Nat] /\ rows' \in [Cross!KeyTypes -> Nat]
<1>1. /\ Others(q) /\ Cross!Writes(q) /\ claimed[q].op = "reset" /\ Cross!Writes(q)' /\ Kept(q)
      /\ "record" \in Left(q)' /\ ~Unstored(q)' /\ "putObject" \notin Left(q)'
      /\ Cross!DeleteObject(q) => RowsLeft(q)' = Cross!KeyTypes
      /\ Cross!DeleteRows(q) => RowsLeft(q)' = {} /\ "deleteObject" \notin Left(q)
  <2>1. CASE Cross!DeleteObject(q)
    <3>1. Cross!At(q, "deleteObject") /\ Cross!Ran(q)
      BY <2>1 DEF Cross!DeleteObject
    <3>2. ~Cross!DeleteRows(q)
      BY <3>1 DEF Cross!DeleteRows, Cross!At
    <3>. QED
      BY <3>1, <3>2, DeleteMoves
  <2>2. CASE Cross!DeleteRows(q)
    <3>1. Cross!At(q, "deleteRows") /\ Cross!Ran(q)
      BY <2>2 DEF Cross!DeleteRows
    <3>2. ~Cross!DeleteObject(q)
      BY <3>1 DEF Cross!DeleteObject, Cross!At
    <3>. QED
      BY <3>1, <3>2, DeleteMoves
  <2>. QED
    BY <2>1, <2>2
<1>2. /\ UNCHANGED <<told, met, metReset, stale, stopped, unasked>>
      /\ Cross!DeleteObject(q) => object' = Cross!NoneUploaded /\ rows' = rows
      /\ Cross!DeleteRows(q) => object' = object /\ rows' = Cross!NoneUploaded
  <2>1. CASE Cross!DeleteObject(q)
    <3>1. ~Cross!DeleteRows(q)
      BY <2>1 DEF Cross!DeleteObject, Cross!DeleteRows, Cross!At
    <3>. QED
      BY <2>1, <3>1 DEF Cross!DeleteObject
  <2>2. CASE Cross!DeleteRows(q)
    <3>1. ~Cross!DeleteObject(q)
      BY <2>2 DEF Cross!DeleteObject, Cross!DeleteRows, Cross!At
    <3>. QED
      BY <2>2, <3>1 DEF Cross!DeleteRows
  <2>. QED
    BY <2>1, <2>2
<1>3. \A p \in IdentityRequests \ {q} :
        /\ claimed'[p] = claimed[p] /\ Left(p)' = Left(p) /\ (Cross!Writes(p)' <=> Cross!Writes(p))
        /\ (Unstored(p)' <=> Unstored(p))
        /\ RowsLeft(p)' = RowsLeft(p)
  BY <1>1, OthersStay
<1>4. Cross!NoneUploaded \in [Cross!KeyTypes -> Nat] /\ \A k \in Cross!KeyTypes : Cross!NoneUploaded[k] = 0
  BY DEF Cross!NoneUploaded
<1>5. /\ WritersInv'
      /\ ~met => \A p \in IdentityRequests : Cross!Writes(p) => p = q
      /\ ~metReset => \A p \in IdentityRequests : Cross!Writes(p) => p = q
  <2>1. /\ WritersInv'
        /\ ~met => \A p \in IdentityRequests : Cross!Writes(p) => p = q
        /\ ~metReset => \A p \in IdentityRequests : Cross!Writes(p) /\ p # q =>
             claimed[p].op = "upload" /\ claimed[q].op = "upload"
    BY <1>1, <1>2, WritersStay DEF Kept
  <2>. QED
    BY <1>1, <2>1
<1>6. ~met \/ ~metReset => object' = Cross!NoneUploaded
  <2>1. CASE Cross!DeleteObject(q)
    BY <1>2, <2>1
  <2>2. CASE Cross!DeleteRows(q)
    BY <1>1, <1>2, <2>2 DEF KeysInv, ObjectInv
  <2>. QED
    BY <2>1, <2>2
<1>7. ObjectInv'
  <2>1. ASSUME ~met' \/ ~metReset', NEW p \in IdentityRequests, Cross!Writes(p)'
        PROVE  p = q /\ claimed'[p].op = "reset" /\ "putObject" \notin Left(p)' /\ object' = Cross!NoneUploaded
    BY <1>1, <1>2, <1>3, <1>5, <1>6, <2>1 DEF Kept
  <2>2. ASSUME ~met', NEW p \in IdentityRequests, Cross!Writes(p)'
        PROVE  /\ claimed'[p].op = "upload" => \A k \in RowsLeft(p)' : object'[k] = p
               /\ claimed'[p].op = "reset" /\ "deleteObject" \notin Left(p)' => object' = Cross!NoneUploaded
               /\ "putObject" \in Left(p)' /\ "getObject" \notin Left(p)' => claimed'[p].seen = object'
    BY <2>1, <2>2
  <2>3. ASSUME ~metReset', NEW p \in IdentityRequests, Cross!Writes(p)'
        PROVE  /\ claimed'[p].op = "upload" => \A k \in RowsLeft(p)' : object'[k] # 0
               /\ claimed'[p].op = "reset" /\ "deleteObject" \notin Left(p)' => object' = Cross!NoneUploaded
               /\ "putObject" \in Left(p)' /\ "getObject" \notin Left(p)' =>
                    \A k \in Cross!KeyTypes : claimed'[p].seen[k] # 0 => object'[k] # 0
    BY <2>1, <2>3
  <2>. QED
    BY <2>2, <2>3 DEF ObjectInv
<1>8. RowsInv'
  <2>1. CASE Cross!DeleteObject(q)
    <3>1. \A k \in Cross!KeyTypes : \E p \in IdentityRequests : k \in RowsLeft(p)'
      BY <1>1, <2>1
    <3>. QED
      BY <3>1 DEF RowsInv
  <2>2. CASE Cross!DeleteRows(q)
    BY <1>2, <1>4, <1>6, <2>2 DEF RowsInv
  <2>. QED
    BY <2>1, <2>2
<1>9. ToldInv'
  BY <1>1 DEF ToldInv
<1>10. ConsentInv'
  <2>1. Cross!ReplacedWithConsent'
    BY <1>2 DEF KeysInv, ConsentInv, Cross!ReplacedWithConsent
  <2>2. ASSUME ~met', NEW p \in IdentityRequests, Cross!Writes(p)' PROVE "putObject" \notin Left(p)'
    BY <1>1, <1>2, <1>3, <1>5, <2>2
  <2>. QED
    BY <2>1, <2>2 DEF ConsentInv
<1>11. object' \in [Cross!KeyTypes -> Nat] /\ rows' \in [Cross!KeyTypes -> Nat]
  BY <1>2, <1>4 DEF CrossTypes
<1>. QED
  BY <1>5, <1>7, <1>8, <1>9, <1>10, <1>11 DEF KeysInv

LEMMA StopKeeps ==
  ASSUME CrossTypes, KeysInv, SessionInv, NEW q \in IdentityRequests, Cross!Stop(q)
  PROVE  KeysInv' /\ SessionInv' /\ Typed'
<1>1. /\ claimed' = [claimed EXCEPT ![q] = Cross!Done] /\ Cross!IsOpen(q) /\ stopped' = (stopped \/ Cross!Writes(q))
      /\ UNCHANGED <<object, rows, told, met, metReset, stale, unasked>>
      /\ UNCHANGED <<sessions, before, served, cancelled, agreed, mixed>>
  BY DEF Cross!Stop, Cross!KeepSessions
<1>2. Others(q) /\ claimed'[q] = Cross!Done /\ Left(q)' = {} /\ ~Cross!IsOpen(q)' /\ Cross!Begun(q)' /\ Typed'
  BY <1>1, BecomesDone
<1>3. SessionInv'
  BY <1>1, <1>2, DoneIs, SessionsStay
<1>4. CASE ~Cross!Writes(q)
  <2>1. KeysQuiet
    BY <1>1, <1>4, EndsQuiet
  <2>2. Cross!KeepKeys
    BY <1>1, <1>4 DEF Cross!KeepKeys, CrossTypes
  <2>. QED
    BY <1>2, <1>3, <2>1, <2>2, KeysStay
<1>5. CASE Cross!Writes(q)
  <2>1. stopped' /\ ~Cross!Writes(q)' /\ RowsLeft(q)' = {}
    BY <1>1, <1>2, <1>5 DEF Cross!Writes, RowsLeft
  <2>2. \A p \in IdentityRequests \ {q} :
          /\ claimed'[p] = claimed[p] /\ Left(p)' = Left(p) /\ (Cross!Writes(p)' <=> Cross!Writes(p))
          /\ RowsLeft(p)' = RowsLeft(p)
    BY <1>2, OthersStay
  <2>3. WritersInv'
    <3>1. \A p \in IdentityRequests : Cross!Writes(p)' => Cross!Writes(p) /\ claimed'[p] = claimed[p]
      BY <2>1, <2>2
    <3>. QED
      BY <1>1, <3>1 DEF KeysInv, WritersInv
  <2>4. ObjectInv'
    <3>1. ASSUME NEW p \in IdentityRequests, Cross!Writes(p)'
          PROVE  Cross!Writes(p) /\ claimed'[p] = claimed[p] /\ Left(p)' = Left(p) /\ RowsLeft(p)' = RowsLeft(p)
      BY <2>1, <2>2, <3>1
    <3>. QED
      BY <1>1, <3>1 DEF KeysInv, ObjectInv
  <2>5. RowsInv' /\ ToldInv' /\ ConsentInv'
    BY <2>1 DEF RowsInv, ToldInv, ConsentInv, Cross!ReplacedWithConsent
  <2>. QED
    BY <1>2, <1>3, <2>3, <2>4, <2>5 DEF KeysInv
<1>. QED
  BY <1>4, <1>5

(* The statements about keys leave the sessions alone. *)
LEMMA KeyMoves ==
  ASSUME CrossTypes, NEW q \in IdentityRequests,
         NEW h \in RowSteps \cup {"getObject", "putObject", "deleteObject", "deleteRows"},
         Cross!At(q, h), NEW r \in CrossCalls, r.todo = claimed[q].todo, r.op = claimed[q].op, r.keys = claimed[q].keys,
         r.session = claimed[q].session, r.stage = claimed[q].stage, Cross!Goes(q, r)
  PROVE  /\ Others(q) /\ Typed' /\ Cross!IsOpen(q) /\ claimed'[q].op \notin {"none", "challenge"}
         /\ Left(q)' \subseteq Left(q) /\ "getSession" \notin Left(q)
         /\ Cross!IsOpen(q)' => Kept(q)
         /\ Cross!IsOpen(q)' \/ claimed'[q] = Cross!Done
<1>1. Cross!IsOpen(q) /\ Left(q) = {h} \cup Rest(q)
  BY Heads
<1>2. "getSession" \notin Left(q) /\ claimed[q].op \in {"upload", "reset"}
  <2>1. CASE claimed[q].op = "upload"
    <3>1. UploadAt(claimed[q].keys, h, Left(q), Rest(q)) /\ Items(Cross!RowsOf(claimed[q].keys)) = Table(q)
      BY <2>1, Heads
    <3>2. "getSession" \notin Table(q)
      BY TableIs DEF RowSteps
    <3>. QED
      BY <2>1, <3>1, <3>2 DEF UploadAt, RowSteps
  <2>2. CASE claimed[q].op # "upload"
    <3>1. OtherAt(claimed[q].op, h, Left(q), Rest(q))
      BY <2>2, Heads
    <3>. QED
      BY <3>1 DEF OtherAt, RowSteps
  <2>. QED
    BY <2>1, <2>2
<1>3. After(q, r) /\ Typed'
  BY <1>1, GoesOn
<1>4. Others(q) /\ Left(q)' = Rest(q)
  BY <1>3 DEF After, Rest
<1>5. (Cross!IsOpen(q)' => Kept(q)) /\ (Cross!IsOpen(q)' \/ claimed'[q] = Cross!Done)
  BY <1>3 DEF After, Kept
<1>6. claimed'[q].op \notin {"none", "challenge"}
  BY <1>2, <1>5, DoneIs DEF Kept
<1>. QED
  BY <1>1, <1>2, <1>3, <1>4, <1>5, <1>6

LEMMA KeyStepKeepsSessions ==
  ASSUME CrossTypes, SessionInv, NEW q \in IdentityRequests,
         \/ Cross!GetObject(q) \/ Cross!PutObject(q) \/ Cross!RecordChange(q) \/ Cross!DeleteObject(q)
              \/ Cross!DeleteRows(q)
         \/ \E k \in Cross!KeyTypes : Cross!PutRow(q, k)
  PROVE  SessionInv' /\ Typed'
<1>1. UNCHANGED <<sessions, before, served, cancelled, agreed, mixed>>
  BY DEF Cross!GetObject, Cross!PutObject, Cross!RecordChange, Cross!DeleteObject, Cross!DeleteRows, Cross!PutRow,
     Cross!KeepSessions
<1>2. claimed[q] \in CrossCalls
  BY DEF CrossTypes
<1>3. \E h \in RowSteps \cup {"getObject", "putObject", "deleteObject", "deleteRows"}, r \in CrossCalls :
        /\ Cross!At(q, h) /\ r.todo = claimed[q].todo /\ r.op = claimed[q].op /\ r.keys = claimed[q].keys
        /\ r.session = claimed[q].session /\ r.stage = claimed[q].stage /\ Cross!Goes(q, r)
  <2>1. CASE Cross!GetObject(q)
    <3>. DEFINE r == [claimed[q] EXCEPT !.seen = object]
    <3>1. /\ r \in CrossCalls /\ r.todo = claimed[q].todo /\ r.op = claimed[q].op /\ r.keys = claimed[q].keys
          /\ r.session = claimed[q].session /\ r.stage = claimed[q].stage
      BY DEF CrossTypes, CrossCalls
    <3>2. Cross!At(q, "getObject") /\ Cross!Goes(q, r)
      BY <2>1 DEF Cross!GetObject
    <3>. HIDE DEF r
    <3>. QED
      BY <3>1, <3>2
  <2>2. ASSUME NEW h \in RowSteps \cup {"getObject", "putObject", "deleteObject", "deleteRows"}, Cross!At(q, h),
               Cross!Ran(q)
        PROVE  \E f \in RowSteps \cup {"getObject", "putObject", "deleteObject", "deleteRows"}, r \in CrossCalls :
                 /\ Cross!At(q, f) /\ r.todo = claimed[q].todo /\ r.op = claimed[q].op /\ r.keys = claimed[q].keys
                 /\ r.session = claimed[q].session /\ r.stage = claimed[q].stage /\ Cross!Goes(q, r)
    BY <1>2, <2>2 DEF Cross!Ran
  <2>3. CASE Cross!PutObject(q)
    BY <2>2, <2>3 DEF Cross!PutObject
  <2>4. CASE Cross!RecordChange(q)
    <3>1. "record" \in RowSteps \cup {"getObject", "putObject", "deleteObject", "deleteRows"}
      BY DEF RowSteps
    <3>. QED
      BY <2>2, <2>4, <3>1 DEF Cross!RecordChange
  <2>5. CASE Cross!DeleteObject(q)
    BY <2>2, <2>5 DEF Cross!DeleteObject
  <2>6. CASE Cross!DeleteRows(q)
    BY <2>2, <2>6 DEF Cross!DeleteRows
  <2>7. ASSUME NEW k \in Cross!KeyTypes, Cross!PutRow(q, k)
        PROVE  \E f \in RowSteps \cup {"getObject", "putObject", "deleteObject", "deleteRows"}, r \in CrossCalls :
                 /\ Cross!At(q, f) /\ r.todo = claimed[q].todo /\ r.op = claimed[q].op /\ r.keys = claimed[q].keys
                 /\ r.session = claimed[q].session /\ r.stage = claimed[q].stage /\ Cross!Goes(q, r)
    <3>1. k \in RowSteps \cup {"getObject", "putObject", "deleteObject", "deleteRows"}
      BY DEF RowSteps, Cross!KeyTypes
    <3>. QED
      BY <2>2, <2>7, <3>1 DEF Cross!PutRow
  <2>. QED
    BY <2>1, <2>3, <2>4, <2>5, <2>6, <2>7
<1>4. /\ Others(q) /\ Typed' /\ Cross!IsOpen(q) /\ claimed'[q].op \notin {"none", "challenge"}
      /\ Left(q)' \subseteq Left(q) /\ "getSession" \notin Left(q)
      /\ Cross!IsOpen(q)' => Kept(q)
      /\ Cross!IsOpen(q)' \/ claimed'[q] = Cross!Done
  BY <1>3, KeyMoves
<1>5. SessionInv'
  BY <1>1, <1>4, SessionsStay DEF Kept
<1>. QED
  BY <1>4, <1>5

LEMMA OpenMoves ==
  ASSUME CrossTypes, NEW q \in IdentityRequests, NEW r \in CrossCalls, CrossTodo(r.op, r.keys, r.todo),
         Cross!Open(q, r), NewCall(r)
  PROVE  /\ Others(q) /\ claimed'[q] = r /\ Typed' /\ ~Cross!Begun(q) /\ ~Cross!Writes(q) /\ Left(q) = {}
         /\ Left(q)' = Items(r.todo) /\ Cross!IsOpen(q)'
         /\ (Cross!Writes(q)' <=> r.op \in {"upload", "reset"})
         /\ r.op = "upload" => "getObject" \in Left(q)' /\ "putObject" \in Left(q)'
         /\ r.op = "reset" => "deleteObject" \in Left(q)' /\ "putObject" \notin Left(q)'
         /\ RowsLeft(q) = {} /\ RowsLeft(q)' = {}
         /\ UNCHANGED <<object, rows, told, sessions, before, served, cancelled, agreed, mixed, stale, stopped,
              unasked>>
<1>1. Others(q) /\ claimed'[q] = r /\ Typed' /\ ~Cross!Begun(q) /\ ~Cross!IsOpen(q) /\ Left(q) = {}
  BY Opened
<1>2. Left(q)' = Items(r.todo)
  BY <1>1 DEF Left
<1>3. /\ r.op = "upload" => "getObject" \in Left(q)' /\ "putObject" \in Left(q)'
      /\ r.op = "reset" => "deleteObject" \in Left(q)' /\ "putObject" \notin Left(q)'
      /\ Items(r.todo) # {}
  BY <1>2 DEF NewCall
<1>4. Cross!IsOpen(q)'
  BY <1>1, <1>3, ShortTodos DEF Cross!IsOpen
<1>5. ~Cross!Writes(q) /\ (Cross!Writes(q)' <=> r.op \in {"upload", "reset"})
  BY <1>1, <1>4 DEF Cross!Writes
<1>6. RowsLeft(q) = {} /\ RowsLeft(q)' = {}
  BY <1>3, <1>5 DEF RowsLeft, Unstored
<1>7. UNCHANGED <<object, rows, told, sessions, before, served, cancelled, agreed, mixed, stale, stopped, unasked>>
  BY DEF Cross!Open
<1>. QED
  BY <1>1, <1>2, <1>3, <1>4, <1>5, <1>6, <1>7

LEMMA OpenKeepsKeys ==
  ASSUME CrossTypes, KeysInv, NEW q \in IdentityRequests, NEW r \in CrossCalls, CrossTodo(r.op, r.keys, r.todo),
         Cross!Open(q, r),
         NewCall(r)
  PROVE  KeysInv'
<1>1. /\ Others(q) /\ claimed'[q] = r /\ ~Cross!Begun(q) /\ ~Cross!Writes(q)
      /\ (Cross!Writes(q)' <=> r.op \in {"upload", "reset"})
      /\ r.op = "upload" => "getObject" \in Left(q)' /\ "putObject" \in Left(q)'
      /\ r.op = "reset" => "deleteObject" \in Left(q)' /\ "putObject" \notin Left(q)'
      /\ RowsLeft(q) = {} /\ RowsLeft(q)' = {}
      /\ UNCHANGED <<object, rows, told, stale, stopped, unasked>>
  BY OpenMoves
<1>2. \A p \in IdentityRequests \ {q} :
        /\ claimed'[p] = claimed[p] /\ Left(p)' = Left(p) /\ (Cross!Writes(p)' <=> Cross!Writes(p))
        /\ (Unstored(p)' <=> Unstored(p))
        /\ RowsLeft(p)' = RowsLeft(p)
  BY <1>1, OthersStay
<1>3. /\ ~met' => ~met /\ (Cross!Writes(q)' => \A p \in IdentityRequests : ~Cross!Writes(p))
      /\ ~metReset' => ~metReset
           /\ (Cross!Writes(q)' => \A p \in IdentityRequests : Cross!Writes(p) =>
                r.op # "reset" /\ claimed[p].op # "reset")
  BY <1>1 DEF Cross!Open
<1>4. WritersInv'
  <2>1. ASSUME ~met', NEW p \in IdentityRequests, NEW o \in IdentityRequests, Cross!Writes(p)', Cross!Writes(o)'
        PROVE p = o
    BY <1>1, <1>2, <1>3, <2>1 DEF KeysInv, WritersInv
  <2>2. ASSUME ~metReset', NEW p \in IdentityRequests, NEW o \in IdentityRequests, Cross!Writes(p)',
               Cross!Writes(o)', p # o
        PROVE  claimed'[p].op = "upload" /\ claimed'[o].op = "upload"
    <3>1. CASE p # q /\ o # q
      BY <1>2, <1>3, <2>2, <3>1 DEF KeysInv, WritersInv
    <3>2. CASE p = q
      <4>1. Cross!Writes(o) /\ claimed'[o] = claimed[o] /\ claimed[o].op \in {"upload", "reset"}
        BY <1>2, <2>2, <3>2 DEF Cross!Writes
      <4>. QED
        BY <1>1, <1>3, <2>2, <3>2, <4>1
    <3>3. CASE o = q
      <4>1. Cross!Writes(p) /\ claimed'[p] = claimed[p] /\ claimed[p].op \in {"upload", "reset"}
        BY <1>2, <2>2, <3>3 DEF Cross!Writes
      <4>. QED
        BY <1>1, <1>3, <2>2, <3>3, <4>1
    <3>. QED
      BY <3>1, <3>2, <3>3
  <2>. QED
    BY <2>1, <2>2 DEF WritersInv
<1>5. ObjectInv'
  <2>1. ASSUME ~met', NEW p \in IdentityRequests, Cross!Writes(p)'
        PROVE  /\ claimed'[p].op = "upload" => \A k \in RowsLeft(p)' : object'[k] = p
               /\ claimed'[p].op = "reset" /\ "deleteObject" \notin Left(p)' => object' = Cross!NoneUploaded
               /\ "putObject" \in Left(p)' /\ "getObject" \notin Left(p)' => claimed'[p].seen = object'
    <3>1. CASE p = q
      BY <1>1, <2>1, <3>1
    <3>2. CASE p # q
      BY <1>1, <1>2, <1>3, <2>1, <3>2 DEF KeysInv, ObjectInv
    <3>. QED
      BY <3>1, <3>2
  <2>2. ASSUME ~metReset', NEW p \in IdentityRequests, Cross!Writes(p)'
        PROVE  /\ claimed'[p].op = "upload" => \A k \in RowsLeft(p)' : object'[k] # 0
               /\ claimed'[p].op = "reset" /\ "deleteObject" \notin Left(p)' => object' = Cross!NoneUploaded
               /\ "putObject" \in Left(p)' /\ "getObject" \notin Left(p)' =>
                    \A k \in Cross!KeyTypes : claimed'[p].seen[k] # 0 => object'[k] # 0
    <3>1. CASE p = q
      BY <1>1, <2>2, <3>1
    <3>2. CASE p # q
      BY <1>1, <1>2, <1>3, <2>2, <3>2 DEF KeysInv, ObjectInv
    <3>. QED
      BY <3>1, <3>2
  <2>. QED
    BY <2>1, <2>2 DEF ObjectInv
<1>6. RowsInv'
  <2>1. \A p \in IdentityRequests : RowsLeft(p)' = RowsLeft(p)
    BY <1>1, <1>2
  <2>. QED
    BY <1>1, <1>3, <2>1 DEF KeysInv, RowsInv
<1>7. ToldInv'
  BY <1>1, <1>2 DEF KeysInv, ToldInv
<1>8. ConsentInv'
  <2>1. Cross!ReplacedWithConsent'
    BY <1>1, <1>3 DEF KeysInv, ConsentInv, Cross!ReplacedWithConsent
  <2>2. ASSUME ~met', ~stopped', NEW p \in IdentityRequests, Cross!Writes(p)', claimed'[p].stage = "first",
               "putObject" \in Left(p)'
        PROVE  object' = Cross!NoneUploaded
    <3>1. CASE p # q
      BY <1>1, <1>2, <1>3, <2>2, <3>1 DEF KeysInv, ConsentInv
    <3>2. CASE p = q
      <4>1. rows = Cross!NoneUploaded
        BY <1>1, <2>2, <3>2 DEF NewCall
      <4>2. \A o \in IdentityRequests : RowsLeft(o) = {}
        BY <1>3, <2>2, <3>2 DEF RowsLeft
      <4>3. \A k \in Cross!KeyTypes : object[k] = rows[k]
        BY <1>1, <1>3, <2>2, <4>2 DEF KeysInv, RowsInv
      <4>. QED
        BY <1>1, <4>1, <4>3 DEF CrossTypes
    <3>. QED
      BY <3>1, <3>2
  <2>. QED
    BY <2>1, <2>2 DEF ConsentInv
<1>. QED
  BY <1>4, <1>5, <1>6, <1>7, <1>8 DEF KeysInv

LEMMA OpenKeepsSessions ==
  ASSUME CrossTypes, SessionInv, NEW q \in IdentityRequests, NEW r \in CrossCalls, CrossTodo(r.op, r.keys, r.todo),
         Cross!Open(q, r),
         NewCall(r)
  PROVE  SessionInv' /\ Typed'
<1>1. /\ Others(q) /\ claimed'[q] = r /\ Typed' /\ ~Cross!Begun(q) /\ Left(q)' = Items(r.todo) /\ Cross!IsOpen(q)'
      /\ UNCHANGED <<sessions, before, served, cancelled, agreed, mixed>>
  BY OpenMoves
<1>2. \A p \in IdentityRequests \ {q} :
        /\ claimed'[p] = claimed[p] /\ Left(p)' = Left(p) /\ (Cross!IsOpen(p)' <=> Cross!IsOpen(p))
        /\ (Cross!Begun(p)' <=> Cross!Begun(p))
        /\ \A s \in Cross!Sessions : Cross!Holds(p, s)' <=> Cross!Holds(p, s)
  BY <1>1, OthersStay
<1>3. Cross!NoSession \notin Cross!Sessions
  BY IdentityAssumption DEF Cross!NoSession, Cross!Sessions
<1>4. Items(Cross!RowsOf(r.keys)) \subseteq RowSteps
  <2>1. Cross!RowsOf(r.keys) \in Seq(RowSteps)
    BY RowsOfIs
  <2>2. \A s \in Seq(RowSteps) : Items(s) \subseteq RowSteps
    BY DEF Items
  <2>. QED
    BY <2>1, <2>2
<1>5. StageInv'
  <2>1. /\ r.op \in AboutSession => r.session \in Cross!Sessions
        /\ "useSession" \in Items(r.todo) => r.session \in Cross!Sessions
        /\ "getSession" \in Items(r.todo) => r.stage = "none"
        /\ r.stage \in {"first", "password"} => r.session = Cross!NoSession
        /\ r.op = "upload" /\ r.session # Cross!NoSession => r.stage \in {"none", "approved"}
        /\ Items(r.todo) \cap {"writeSession", "useSession", "dropSession"} # {} /\ "getSession" \notin Items(r.todo) =>
             r.stage # "none"
    <3>1. Items(Cross!RowsOf(r.keys)) \cap {"getSession", "writeSession", "useSession", "dropSession"} = {}
      BY <1>4 DEF RowSteps
    <3>. QED
      BY <1>3, <3>1 DEF NewCall, AboutSession
  <2>2. ASSUME NEW p \in IdentityRequests, Cross!IsOpen(p)'
        PROVE  /\ claimed'[p].op \in AboutSession => claimed'[p].session \in Cross!Sessions
               /\ "useSession" \in Left(p)' => claimed'[p].session \in Cross!Sessions
               /\ "getSession" \in Left(p)' => claimed'[p].stage = "none"
               /\ claimed'[p].stage \in {"first", "password"} => claimed'[p].session = Cross!NoSession
               /\ claimed'[p].op = "upload" /\ claimed'[p].session # Cross!NoSession =>
                    claimed'[p].stage \in {"none", "approved"}
               /\ Left(p)' \cap {"writeSession", "useSession", "dropSession"} # {} /\ "getSession" \notin Left(p)' =>
                    claimed'[p].stage # "none"
    <3>1. CASE p = q
      BY <1>1, <2>1, <3>1
    <3>2. CASE p # q
      BY <1>2, <2>2, <3>2 DEF SessionInv, StageInv
    <3>. QED
      BY <3>1, <3>2
  <2>. QED
    BY <2>2 DEF StageInv
<1>6. NewSessionInv'
  <2>1. SUFFICES ASSUME NEW s \in IdentityRequests, ~Cross!Begun(s)' \/ claimed'[s].op = "challenge"
                 PROVE  /\ sessions'[s] = "none" /\ before'[s] = "none" /\ served'[s] = {}
                        /\ s \notin cancelled' \cup agreed'
                        /\ \A p \in IdentityRequests : claimed'[p].session # s
    BY DEF NewSessionInv
  <2>2. ~Cross!Begun(s) \/ claimed[s].op = "challenge"
    BY <1>1, <1>2, <2>1
  <2>3. /\ sessions[s] = "none" /\ before[s] = "none" /\ served[s] = {} /\ s \notin cancelled \cup agreed
        /\ \A p \in IdentityRequests : claimed[p].session # s
    BY <2>2 DEF SessionInv, NewSessionInv
  <2>4. r.session # s
    <3>1. s \in Cross!Sessions
      BY DEF Cross!Sessions
    <3>. QED
      BY <1>3, <2>3, <3>1 DEF NewCall
  <2>. QED
    BY <1>1, <1>2, <2>3, <2>4
<1>7. HolderInv'
  <2>1. ASSUME NEW s \in Cross!Sessions PROVE ~Cross!Holds(q, s)'
    <3>1. r.stage = "none" \/ r.session = Cross!NoSession
      BY DEF NewCall
    <3>. QED
      BY <1>1, <1>3, <3>1 DEF Cross!Holds
  <2>2. ASSUME NEW p \in IdentityRequests, NEW s \in Cross!Sessions, Cross!Holds(p, s)'
        PROVE  Cross!Holds(p, s) /\ claimed'[p] = claimed[p] /\ Left(p)' = Left(p)
    BY <1>2, <2>1, <2>2
  <2>3. ASSUME NEW s \in Cross!Sessions \ mixed'
        PROVE  /\ \A p, o \in IdentityRequests : Cross!Holds(p, s)' /\ Cross!Holds(o, s)' => p = o
               /\ \A p, o \in served'[s] : p = o
               /\ served'[s] # {} \/ s \in cancelled' =>
                    /\ sessions'[s] = "none"
                    /\ \A p \in IdentityRequests : Cross!Holds(p, s)' =>
                         claimed'[p].op = "upload" /\ "useSession" \notin Left(p)'
               /\ s \in agreed' => /\ sessions'[s] # "open"
                                   /\ \A p \in IdentityRequests : Cross!Holds(p, s)' => claimed'[p].stage # "open"
    BY <1>1, <2>2 DEF SessionInv, HolderInv
  <2>. QED
    BY <2>3 DEF HolderInv
<1>. QED
  BY <1>1, <1>5, <1>6, <1>7 DEF SessionInv

LEMMA SetMoves ==
  ASSUME CrossTypes, NEW s \in Cross!Sessions, NEW stage \in SessionStages, Cross!SetSession(s, stage)
  PROVE  /\ sessions' \in [Cross!Sessions -> SessionStages] /\ before' \in [Cross!Sessions -> SessionStages]
         /\ sessions'[s] = stage
         /\ \A t \in Cross!Sessions \ {s} : sessions'[t] = sessions[t] /\ before'[t] = before[t]
BY DEF Cross!SetSession, CrossTypes

-----------------------------------------------------------------------------
(* A request that holds a session does so until its list is through. *)
LEMMA StageStays ==
  ASSUME CrossTypes, StageInv, NEW q \in IdentityRequests, Others(q),
         Cross!IsOpen(q)' => /\ claimed'[q].op \in AboutSession => claimed'[q].session \in Cross!Sessions
                             /\ "useSession" \in Left(q)' => claimed'[q].session \in Cross!Sessions
                             /\ "getSession" \in Left(q)' => claimed'[q].stage = "none"
                             /\ claimed'[q].stage \in {"first", "password"} => claimed'[q].session = Cross!NoSession
                             /\ claimed'[q].op = "upload" /\ claimed'[q].session # Cross!NoSession =>
                                  claimed'[q].stage \in {"none", "approved"}
                             /\ Left(q)' \cap {"writeSession", "useSession", "dropSession"} # {}
                                  /\ "getSession" \notin Left(q)' =>
                                  claimed'[q].stage # "none"
  PROVE  StageInv'
<1>1. \A p \in IdentityRequests \ {q} : claimed'[p] = claimed[p] /\ Left(p)' = Left(p)
         /\ (Cross!IsOpen(p)' <=> Cross!IsOpen(p))
  BY OthersStay
<1>2. ASSUME NEW p \in IdentityRequests, Cross!IsOpen(p)'
      PROVE  /\ claimed'[p].op \in AboutSession => claimed'[p].session \in Cross!Sessions
             /\ "useSession" \in Left(p)' => claimed'[p].session \in Cross!Sessions
             /\ "getSession" \in Left(p)' => claimed'[p].stage = "none"
             /\ claimed'[p].stage \in {"first", "password"} => claimed'[p].session = Cross!NoSession
             /\ claimed'[p].op = "upload" /\ claimed'[p].session # Cross!NoSession =>
                  claimed'[p].stage \in {"none", "approved"}
             /\ Left(p)' \cap {"writeSession", "useSession", "dropSession"} # {} /\ "getSession" \notin Left(p)' =>
                  claimed'[p].stage # "none"
  <2>1. CASE p = q
    BY <1>2, <2>1
  <2>2. CASE p # q
    BY <1>1, <1>2, <2>2 DEF StageInv
  <2>. QED
    BY <2>1, <2>2
<1>. QED
  BY <1>2 DEF StageInv

(* A step at session s leaves a session that is still to be put alone. *)
LEMMA NewStays ==
  ASSUME CrossTypes, NewSessionInv, NEW q \in IdentityRequests, Others(q), Cross!Begun(q), NEW s \in Cross!Sessions,
         s = claimed[q].session \/ s = q,
         \A t \in Cross!Sessions \ {s} : /\ sessions'[t] = sessions[t] /\ before'[t] = before[t]
                                         /\ served'[t] = served[t]
                                         /\ (t \in cancelled' <=> t \in cancelled) /\ (t \in agreed' <=> t \in agreed),
         claimed'[q].op # "none" /\ claimed'[q].op # "challenge",
         claimed'[q].session = claimed[q].session \/ claimed'[q].session = Cross!NoSession
  PROVE  NewSessionInv'
<1>1. \A p \in IdentityRequests \ {q} : claimed'[p] = claimed[p] /\ (Cross!Begun(p)' <=> Cross!Begun(p))
  BY OthersStay
<1>2. SUFFICES ASSUME NEW t \in IdentityRequests, ~Cross!Begun(t)' \/ claimed'[t].op = "challenge"
               PROVE  /\ sessions'[t] = "none" /\ before'[t] = "none" /\ served'[t] = {}
                      /\ t \notin cancelled' \cup agreed'
                      /\ \A p \in IdentityRequests : claimed'[p].session # t
  BY DEF NewSessionInv
<1>3. t # q
  BY <1>2 DEF Cross!Begun
<1>4. ~Cross!Begun(t) \/ claimed[t].op = "challenge"
  BY <1>1, <1>2, <1>3
<1>5. /\ sessions[t] = "none" /\ before[t] = "none" /\ served[t] = {} /\ t \notin cancelled \cup agreed
      /\ \A p \in IdentityRequests : claimed[p].session # t
  BY <1>4 DEF NewSessionInv
<1>6. t # s /\ t \in Cross!Sessions /\ t # Cross!NoSession
  BY <1>3, <1>5, IdentityAssumption DEF Cross!Sessions, Cross!NoSession
<1>7. \A p \in IdentityRequests : claimed'[p].session # t
  BY <1>1, <1>5, <1>6
<1>. QED
  BY <1>5, <1>6, <1>7

LEMMA PutSessionKeeps ==
  ASSUME CrossTypes, KeysInv, SessionInv, NEW q \in IdentityRequests, Cross!PutSession(q)
  PROVE  /\ KeysInv' /\ SessionInv' /\ Typed'
         /\ sessions' \in [Cross!Sessions -> SessionStages] /\ before' \in [Cross!Sessions -> SessionStages]
<1>1. /\ Cross!At(q, "putSession") /\ Cross!Ran(q) /\ Cross!SetSession(q, "open") /\ Cross!KeepKeys
      /\ UNCHANGED <<served, cancelled, agreed, mixed>>
  BY DEF Cross!PutSession
<1>2. claimed[q] \in CrossCalls
  BY DEF CrossTypes
<1>3. After(q, claimed[q]) /\ Typed' /\ KeysQuiet /\ Left(q)' = Rest(q)
  BY <1>1, <1>2, SessionMoves DEF Cross!Ran
<1>4. claimed[q].op = "challenge" /\ Rest(q) = {}
  BY <1>1, SessionHeads DEF SessionInv
<1>5. Others(q) /\ claimed'[q] = Cross!Done /\ ~Cross!IsOpen(q)' /\ Cross!Begun(q)
  BY <1>3, <1>4 DEF After
<1>6. q \in Cross!Sessions /\ "open" \in SessionStages
  BY DEF Cross!Sessions, SessionStages
<1>7. /\ sessions' \in [Cross!Sessions -> SessionStages] /\ before' \in [Cross!Sessions -> SessionStages]
      /\ \A t \in Cross!Sessions \ {q} : sessions'[t] = sessions[t] /\ before'[t] = before[t]
  BY <1>1, <1>6, SetMoves
<1>8. KeysInv'
  BY <1>1, <1>3, KeysStay
<1>9. StageInv'
  BY <1>5, StageStays DEF SessionInv
<1>10. NewSessionInv'
  BY <1>1, <1>4, <1>5, <1>6, <1>7, DoneIs, NewStays DEF SessionInv
<1>11. HolderInv'
  <2>1. \A p \in IdentityRequests \ {q} : claimed'[p] = claimed[p] /\ Left(p)' = Left(p)
           /\ \A s \in Cross!Sessions : Cross!Holds(p, s)' <=> Cross!Holds(p, s)
    BY <1>5, OthersStay
  <2>2. ASSUME NEW p \in IdentityRequests, NEW s \in Cross!Sessions, Cross!Holds(p, s)'
        PROVE  Cross!Holds(p, s) /\ claimed'[p] = claimed[p] /\ Left(p)' = Left(p) /\ s # q
    <3>1. p # q
      BY <1>5, <2>2 DEF Cross!Holds
    <3>2. claimed[p].session # q
      BY <1>4 DEF SessionInv, NewSessionInv
    <3>. QED
      BY <2>1, <2>2, <3>1, <3>2 DEF Cross!Holds
  <2>3. served[q] = {} /\ q \notin cancelled \cup agreed
    BY <1>4 DEF SessionInv, NewSessionInv
  <2>4. ASSUME NEW s \in Cross!Sessions \ mixed'
        PROVE  /\ \A p, o \in IdentityRequests : Cross!Holds(p, s)' /\ Cross!Holds(o, s)' => p = o
               /\ \A p, o \in served'[s] : p = o
               /\ served'[s] # {} \/ s \in cancelled' =>
                    /\ sessions'[s] = "none"
                    /\ \A p \in IdentityRequests : Cross!Holds(p, s)' =>
                         claimed'[p].op = "upload" /\ "useSession" \notin Left(p)'
               /\ s \in agreed' => /\ sessions'[s] # "open"
                                   /\ \A p \in IdentityRequests : Cross!Holds(p, s)' => claimed'[p].stage # "open"
    BY <1>1, <1>7, <2>2, <2>3 DEF SessionInv, HolderInv
  <2>. QED
    BY <2>4 DEF HolderInv
<1>. QED
  BY <1>3, <1>7, <1>8, <1>9, <1>10, <1>11 DEF SessionInv

(* A session that is refused ends the request; one that is given is held. *)
LEMMA GetSessionKeeps ==
  ASSUME CrossTypes, KeysInv, SessionInv, NEW q \in IdentityRequests, Cross!GetSession(q)
  PROVE  KeysInv' /\ SessionInv' /\ Typed'
<1>. DEFINE s == claimed[q].session
<1>1. Cross!At(q, "getSession") /\ Cross!KeepKeys /\ UNCHANGED <<sessions, before, served, cancelled, agreed>>
  BY DEF Cross!GetSession
<1>2. /\ s \in Cross!Sessions /\ claimed[q].stage = "none"
      /\ \/ claimed[q].op = "upload" /\ "useSession" \in Rest(q) /\ "getSession" \notin Rest(q)
              /\ "putObject" \in Rest(q)
         \/ claimed[q].op \in {"redirect", "approve"} /\ Rest(q) = {"writeSession"}
         \/ claimed[q].op = "cancel" /\ Rest(q) = {"dropSession"}
  BY <1>1, SessionHeads DEF SessionInv
<1>3. Cross!IsOpen(q) /\ Left(q) = {"getSession"} \cup Rest(q)
  BY <1>1, Heads
<1>4. PICK stage \in {sessions[s], before[s]} :
        LET refused == IF claimed[q].op = "upload" THEN stage # "approved" ELSE stage = "none"
            outdated == stage # sessions[s] IN
        /\ IF refused THEN claimed' = [claimed EXCEPT ![q] = Cross!Done]
             ELSE Cross!Goes(q, [claimed[q] EXCEPT !.stage = stage])
        /\ mixed' = IF ~refused /\ (outdated \/ \E p \in IdentityRequests \ {q} : Cross!Holds(p, s))
             THEN mixed \cup {s} ELSE mixed
  BY DEF Cross!GetSession
<1>5. stage \in SessionStages
  BY <1>2 DEF CrossTypes
<1>6. mixed \subseteq mixed'
  BY <1>4
<1>7. CASE IF claimed[q].op = "upload" THEN stage # "approved" ELSE stage = "none"
  <2>1. claimed' = [claimed EXCEPT ![q] = Cross!Done] /\ mixed' = mixed
    BY <1>4, <1>7
  <2>2. Others(q) /\ claimed'[q] = Cross!Done /\ Left(q)' = {} /\ ~Cross!IsOpen(q)' /\ Cross!Begun(q)' /\ Typed'
    BY <2>1, BecomesDone
  <2>3. Cross!Writes(q) => Unstored(q)
    BY <1>2, <1>3 DEF Cross!Writes, Unstored
  <2>4. KeysInv'
    BY <1>1, <2>1, <2>3, EndsQuiet, KeysStay
  <2>5. SessionInv'
    BY <1>1, <2>1, <2>2, DoneIs, SessionsStay
  <2>. QED
    BY <2>2, <2>4, <2>5
<1>8. CASE ~(IF claimed[q].op = "upload" THEN stage # "approved" ELSE stage = "none")
  <2>. DEFINE r == [claimed[q] EXCEPT !.stage = stage]
  <2>1. Cross!Goes(q, r)
    BY <1>4, <1>8
  <2>2. /\ r \in CrossCalls /\ r.todo = claimed[q].todo /\ r.op = claimed[q].op /\ r.keys = claimed[q].keys
        /\ r.seen = claimed[q].seen /\ r.session = s /\ r.stage = stage
    BY <1>5 DEF CrossTypes, CrossCalls
  <2>. HIDE DEF r
  <2>3. stage # "none" /\ stage # "first" /\ stage # "password" /\ (claimed[q].op = "upload" => stage = "approved")
    BY <1>5, <1>8 DEF SessionStages
  <2>4. After(q, r) /\ Typed' /\ KeysQuiet /\ Left(q)' = Rest(q)
    BY <1>1, <2>1, <2>2, <2>3, SessionMoves
  <2>5. /\ Others(q) /\ Cross!IsOpen(q)' /\ Cross!Begun(q) /\ claimed'[q].op = claimed[q].op
        /\ claimed'[q].session = s /\ claimed'[q].stage = stage
    BY <1>2, <2>2, <2>4 DEF After
  <2>6. KeysInv'
    BY <1>1, <2>4, KeysStay
  <2>7. s # Cross!NoSession
    BY <1>2, IdentityAssumption DEF Cross!Sessions, Cross!NoSession
  <2>8. StageInv'
    <3>1. "getSession" \notin Left(q)'
      BY <1>2, <2>4
    <3>2. claimed[q].op # "upload" => claimed'[q].op # "upload"
      BY <2>5
    <3>. QED
      BY <1>2, <2>3, <2>5, <2>7, <3>1, StageStays DEF SessionInv
  <2>9. NewSessionInv'
    <3>1. claimed[q].op # "challenge" /\ claimed[q].op # "none"
      BY <1>2
    <3>. QED
      BY <1>1, <1>2, <2>5, <3>1, NewStays DEF SessionInv
  <2>10. HolderInv'
    <3>1. \A p \in IdentityRequests \ {q} : claimed'[p] = claimed[p] /\ Left(p)' = Left(p)
             /\ \A t \in Cross!Sessions : Cross!Holds(p, t)' <=> Cross!Holds(p, t)
      BY <2>5, OthersStay
    <3>2. s \notin mixed' => stage = sessions[s] /\ \A p \in IdentityRequests \ {q} : ~Cross!Holds(p, s)
      BY <1>4, <1>8
    <3>3. \A t \in Cross!Sessions \ {s} : ~Cross!Holds(q, t)'
      BY <2>5 DEF Cross!Holds
    <3>4. ASSUME NEW t \in Cross!Sessions \ mixed'
          PROVE  /\ \A p, o \in IdentityRequests : Cross!Holds(p, t)' /\ Cross!Holds(o, t)' => p = o
                 /\ \A p, o \in served'[t] : p = o
                 /\ served'[t] # {} \/ t \in cancelled' =>
                      /\ sessions'[t] = "none"
                      /\ \A p \in IdentityRequests : Cross!Holds(p, t)' =>
                           claimed'[p].op = "upload" /\ "useSession" \notin Left(p)'
                 /\ t \in agreed' => /\ sessions'[t] # "open"
                                     /\ \A p \in IdentityRequests : Cross!Holds(p, t)' => claimed'[p].stage # "open"
      <4>1. t \notin mixed
        BY <1>6
      <4>2. CASE t # s
        <5>1. \A p \in IdentityRequests : Cross!Holds(p, t)' =>
                 p # q /\ Cross!Holds(p, t) /\ claimed'[p] = claimed[p] /\ Left(p)' = Left(p)
          BY <3>1, <3>3, <4>2
        <5>. QED
          BY <1>1, <4>1, <5>1 DEF SessionInv, HolderInv
      <4>3. CASE t = s
        <5>1. \A p \in IdentityRequests : Cross!Holds(p, t)' => p = q
          BY <3>1, <3>2, <4>3
        <5>2. stage = sessions[t]
          BY <3>2, <4>3
        <5>3. ~(served[t] # {} \/ t \in cancelled) /\ (t \in agreed => sessions[t] # "open")
          BY <2>3, <4>1, <5>2 DEF SessionInv, HolderInv
        <5>4. \A p, o \in served[t] : p = o
          BY <4>1 DEF SessionInv, HolderInv
        <5>. QED
          BY <1>1, <2>5, <5>1, <5>2, <5>3, <5>4
      <4>. QED
        BY <4>2, <4>3
    <3>. QED
      BY <3>4 DEF HolderInv
  <2>. QED
    BY <2>4, <2>6, <2>8, <2>9, <2>10 DEF SessionInv
<1>. QED
  BY <1>7, <1>8

(* A session's statement that ends or goes on without another read of the session. *)
LEMMA HeldMoves ==
  ASSUME CrossTypes, KeysInv, SessionInv, NEW q \in IdentityRequests,
         NEW h \in {"useSession", "writeSession", "dropSession"},
         Cross!At(q, h), Cross!Ran(q), Cross!KeepKeys, NEW stage \in SessionStages,
         Cross!SetSession(claimed[q].session, stage),
         \A t \in Cross!Sessions \ {claimed[q].session} :
           /\ served'[t] = served[t] /\ (t \in cancelled' <=> t \in cancelled) /\ (t \in agreed' <=> t \in agreed)
  PROVE  /\ KeysInv' /\ StageInv' /\ NewSessionInv' /\ Typed' /\ Others(q)
         /\ sessions' \in [Cross!Sessions -> SessionStages] /\ before' \in [Cross!Sessions -> SessionStages]
         /\ claimed[q].session \in Cross!Sessions /\ sessions'[claimed[q].session] = stage
         /\ \A t \in Cross!Sessions \ {claimed[q].session} : sessions'[t] = sessions[t]
         /\ Cross!Holds(q, claimed[q].session)
         /\ Cross!IsOpen(q)' => /\ h = "useSession" /\ Kept(q) /\ claimed[q].op = "upload"
                                /\ claimed[q].stage = "approved"
                                /\ "useSession" \notin Left(q)'
<1>. DEFINE s == claimed[q].session
<1>1. claimed[q] \in CrossCalls /\ Cross!IsOpen(q)
  BY Heads DEF CrossTypes
<1>2. After(q, claimed[q]) /\ Typed' /\ KeysQuiet /\ Left(q)' = Rest(q)
  BY <1>1, SessionMoves DEF Cross!Ran
<1>3. /\ s \in Cross!Sessions /\ claimed[q].stage \in {"open", "approved"}
      /\ claimed[q].op \in {"upload", "redirect", "approve", "cancel"}
      /\ h = "useSession" => /\ claimed[q].op = "upload" /\ claimed[q].stage = "approved"
                             /\ Rest(q) \cap {"getSession", "writeSession", "useSession", "dropSession"} = {}
      /\ h # "useSession" => Rest(q) = {}
  BY SessionHeads DEF SessionInv
<1>4. /\ Others(q) /\ (Cross!IsOpen(q)' => Kept(q)) /\ (~Cross!IsOpen(q)' => claimed'[q] = Cross!Done)
      /\ Cross!Begun(q) /\ (Cross!IsOpen(q)' => Rest(q) # {})
  BY <1>2 DEF After, Kept
<1>5. /\ sessions' \in [Cross!Sessions -> SessionStages] /\ before' \in [Cross!Sessions -> SessionStages]
      /\ sessions'[s] = stage
      /\ \A t \in Cross!Sessions \ {s} : sessions'[t] = sessions[t] /\ before'[t] = before[t]
  BY <1>3, SetMoves
<1>6. KeysInv'
  BY <1>2, KeysStay
<1>7. Cross!IsOpen(q)' => /\ h = "useSession" /\ Kept(q) /\ claimed[q].op = "upload" /\ claimed[q].stage = "approved"
                          /\ Left(q)' \cap {"getSession", "writeSession", "useSession", "dropSession"} = {}
  BY <1>2, <1>3, <1>4
<1>8. StageInv'
  BY <1>3, <1>4, <1>7, StageStays DEF SessionInv, Kept, AboutSession
<1>9. NewSessionInv'
  <2>1. /\ claimed'[q].op # "none" /\ claimed'[q].op # "challenge"
        /\ (claimed'[q].session = s \/ claimed'[q].session = Cross!NoSession)
    BY <1>3, <1>4, DoneIs DEF Kept
  <2>. QED
    BY <1>3, <1>4, <1>5, <2>1, NewStays DEF SessionInv
<1>10. Cross!Holds(q, s)
  BY <1>1, <1>3 DEF Cross!Holds
<1>. QED
  BY <1>2, <1>3, <1>4, <1>5, <1>6, <1>7, <1>8, <1>9, <1>10

(* What the session's holder does to it, no other had a part in. *)
LEMMA HolderStays ==
  ASSUME CrossTypes, HolderInv, NEW q \in IdentityRequests, Others(q), Cross!Holds(q, claimed[q].session),
         claimed[q].session \in Cross!Sessions,
         mixed' = mixed,
         Cross!IsOpen(q)' => /\ Kept(q) /\ claimed[q].op = "upload" /\ claimed[q].stage = "approved"
                             /\ "useSession" \notin Left(q)',
         \A t \in Cross!Sessions \ {claimed[q].session} :
           /\ sessions'[t] = sessions[t] /\ served'[t] = served[t]
           /\ (t \in cancelled' <=> t \in cancelled) /\ (t \in agreed' <=> t \in agreed),
         claimed[q].session \notin mixed =>
           /\ \A p, o \in served'[claimed[q].session] : p = o
           /\ served'[claimed[q].session] # {} \/ claimed[q].session \in cancelled' =>
                sessions'[claimed[q].session] = "none"
           /\ claimed[q].session \in agreed' => sessions'[claimed[q].session] # "open"
  PROVE  HolderInv'
<1>. DEFINE s == claimed[q].session
<1>1. \A p \in IdentityRequests \ {q} : claimed'[p] = claimed[p] /\ Left(p)' = Left(p)
         /\ \A t \in Cross!Sessions : Cross!Holds(p, t)' <=> Cross!Holds(p, t)
  BY OthersStay
<1>2. \A t \in Cross!Sessions \ {s} : ~Cross!Holds(q, t)'
  BY DEF Cross!Holds, Kept
<1>3. ASSUME NEW t \in Cross!Sessions \ mixed'
      PROVE  /\ \A p, o \in IdentityRequests : Cross!Holds(p, t)' /\ Cross!Holds(o, t)' => p = o
             /\ \A p, o \in served'[t] : p = o
             /\ served'[t] # {} \/ t \in cancelled' =>
                  /\ sessions'[t] = "none"
                  /\ \A p \in IdentityRequests : Cross!Holds(p, t)' =>
                       claimed'[p].op = "upload" /\ "useSession" \notin Left(p)'
             /\ t \in agreed' => /\ sessions'[t] # "open"
                                 /\ \A p \in IdentityRequests : Cross!Holds(p, t)' => claimed'[p].stage # "open"
  <2>1. CASE t # s
    <3>1. \A p \in IdentityRequests : Cross!Holds(p, t)' =>
             p # q /\ Cross!Holds(p, t) /\ claimed'[p] = claimed[p] /\ Left(p)' = Left(p)
      BY <1>1, <1>2, <2>1
    <3>. QED
      BY <2>1, <3>1 DEF HolderInv
  <2>2. CASE t = s
    <3>1. \A p \in IdentityRequests : Cross!Holds(p, t) => p = q
      BY <1>3, <2>2 DEF HolderInv
    <3>2. \A p \in IdentityRequests : Cross!Holds(p, t)' => p = q
      BY <1>1, <3>1
    <3>3. Cross!Holds(q, t)' =>
             claimed'[q].op = "upload" /\ "useSession" \notin Left(q)' /\ claimed'[q].stage = "approved"
      BY DEF Cross!Holds, Kept
    <3>. QED
      BY <1>3, <2>2, <3>2, <3>3
  <2>. QED
    BY <2>1, <2>2
<1>. QED
  BY <1>3 DEF HolderInv

LEMMA UseSessionKeeps ==
  ASSUME CrossTypes, KeysInv, SessionInv, NEW q \in IdentityRequests, Cross!UseSession(q)
  PROVE  /\ KeysInv' /\ SessionInv' /\ Typed'
         /\ sessions' \in [Cross!Sessions -> SessionStages] /\ before' \in [Cross!Sessions -> SessionStages]
         /\ served' \in [Cross!Sessions -> SUBSET IdentityRequests]
<1>. DEFINE s == claimed[q].session
<1>1. /\ Cross!At(q, "useSession") /\ Cross!Ran(q) /\ Cross!SetSession(s, "none") /\ Cross!KeepKeys
      /\ UNCHANGED <<cancelled, agreed, mixed>>
      /\ served' = [served EXCEPT ![s] = @ \cup {q}]
  BY DEF Cross!UseSession
<1>2. "none" \in SessionStages /\ served \in [Cross!Sessions -> SUBSET IdentityRequests]
  BY DEF SessionStages, CrossTypes
<1>3. s \in Cross!Sessions /\ "useSession" \in Left(q)
  BY <1>1, SessionHeads, Heads DEF SessionInv
<1>4. /\ served' \in [Cross!Sessions -> SUBSET IdentityRequests] /\ served'[s] = served[s] \cup {q}
      /\ \A t \in Cross!Sessions \ {s} : served'[t] = served[t]
  BY <1>1, <1>2, <1>3
<1>5. /\ KeysInv' /\ StageInv' /\ NewSessionInv' /\ Typed' /\ Others(q)
      /\ sessions' \in [Cross!Sessions -> SessionStages] /\ before' \in [Cross!Sessions -> SessionStages]
      /\ sessions'[s] = "none" /\ \A t \in Cross!Sessions \ {s} : sessions'[t] = sessions[t]
      /\ Cross!Holds(q, s)
      /\ Cross!IsOpen(q)' =>
           Kept(q) /\ claimed[q].op = "upload" /\ claimed[q].stage = "approved" /\ "useSession" \notin Left(q)'
  BY <1>1, <1>2, <1>4, HeldMoves
<1>6. s \notin mixed => \A p, o \in served'[s] : p = o
  <2>1. s \notin mixed => served[s] = {}
    BY <1>3, <1>5 DEF SessionInv, HolderInv
  <2>. QED
    BY <1>4, <2>1
<1>7. HolderInv'
  BY <1>1, <1>3, <1>4, <1>5, <1>6, HolderStays DEF SessionInv
<1>. QED
  BY <1>4, <1>5, <1>7 DEF SessionInv

LEMMA WriteSessionKeeps ==
  ASSUME CrossTypes, KeysInv, SessionInv, NEW q \in IdentityRequests, Cross!WriteSession(q)
  PROVE  /\ KeysInv' /\ SessionInv' /\ Typed'
         /\ sessions' \in [Cross!Sessions -> SessionStages] /\ before' \in [Cross!Sessions -> SessionStages]
<1>. DEFINE s == claimed[q].session
            stage == IF claimed[q].op = "approve" THEN "approved" ELSE claimed[q].stage
<1>1. /\ Cross!At(q, "writeSession") /\ Cross!Ran(q) /\ Cross!SetSession(s, stage) /\ Cross!KeepKeys
      /\ UNCHANGED <<served, cancelled, mixed>>
      /\ agreed' = IF claimed[q].op = "approve" THEN agreed \cup {s} ELSE agreed
  BY DEF Cross!WriteSession
<1>2. claimed[q].op \in {"redirect", "approve"} /\ s \in Cross!Sessions /\ claimed[q].stage \in {"open", "approved"}
  BY <1>1, SessionHeads DEF SessionInv
<1>3. /\ stage \in SessionStages /\ (claimed[q].op = "approve" => stage = "approved")
      /\ (claimed[q].op # "approve" => stage = claimed[q].stage)
  BY <1>2 DEF SessionStages
<1>. HIDE DEF stage
<1>5. /\ KeysInv' /\ StageInv' /\ NewSessionInv' /\ Typed' /\ Others(q)
      /\ sessions' \in [Cross!Sessions -> SessionStages] /\ before' \in [Cross!Sessions -> SessionStages]
      /\ sessions'[s] = stage /\ \A t \in Cross!Sessions \ {s} : sessions'[t] = sessions[t]
      /\ Cross!Holds(q, s)
      /\ Cross!IsOpen(q)' =>
           Kept(q) /\ claimed[q].op = "upload" /\ claimed[q].stage = "approved" /\ "useSession" \notin Left(q)'
  BY <1>1, <1>3, HeldMoves
<1>6. s \notin mixed => /\ \A p, o \in served[s] : p = o
                        /\ served[s] = {} /\ s \notin cancelled
                        /\ s \in agreed => claimed[q].stage # "open"
  BY <1>2, <1>5 DEF SessionInv, HolderInv
<1>7. HolderInv'
  BY <1>1, <1>2, <1>3, <1>5, <1>6, HolderStays DEF SessionInv
<1>. QED
  BY <1>5, <1>7 DEF SessionInv

LEMMA DropSessionKeeps ==
  ASSUME CrossTypes, KeysInv, SessionInv, NEW q \in IdentityRequests, Cross!DropSession(q)
  PROVE  /\ KeysInv' /\ SessionInv' /\ Typed'
         /\ sessions' \in [Cross!Sessions -> SessionStages] /\ before' \in [Cross!Sessions -> SessionStages]
<1>. DEFINE s == claimed[q].session
<1>1. /\ Cross!At(q, "dropSession") /\ Cross!Ran(q) /\ Cross!SetSession(s, "none") /\ Cross!KeepKeys
      /\ UNCHANGED <<served, agreed, mixed>>
      /\ cancelled' = cancelled \cup {s}
  BY DEF Cross!DropSession
<1>2. s \in Cross!Sessions /\ "none" \in SessionStages
  BY <1>1, SessionHeads DEF SessionInv, SessionStages
<1>5. /\ KeysInv' /\ StageInv' /\ NewSessionInv' /\ Typed' /\ Others(q)
      /\ sessions' \in [Cross!Sessions -> SessionStages] /\ before' \in [Cross!Sessions -> SessionStages]
      /\ sessions'[s] = "none" /\ \A t \in Cross!Sessions \ {s} : sessions'[t] = sessions[t]
      /\ Cross!Holds(q, s)
      /\ Cross!IsOpen(q)' =>
           Kept(q) /\ claimed[q].op = "upload" /\ claimed[q].stage = "approved" /\ "useSession" \notin Left(q)'
  BY <1>1, <1>2, HeldMoves
<1>6. s \notin mixed => \A p, o \in served[s] : p = o
  BY <1>2 DEF SessionInv, HolderInv
<1>7. HolderInv'
  BY <1>1, <1>2, <1>5, <1>6, HolderStays DEF SessionInv
<1>. QED
  BY <1>5, <1>7 DEF SessionInv

LEMMA LapseKeeps ==
  ASSUME CrossTypes, KeysInv, SessionInv, Cross!Lapse
  PROVE  /\ KeysInv' /\ SessionInv' /\ Typed'
         /\ sessions' \in [Cross!Sessions -> SessionStages] /\ before' \in [Cross!Sessions -> SessionStages]
<1>1. Cross!KeepKeys /\ UNCHANGED <<claimed, served, cancelled, agreed, mixed>>
  BY DEF Cross!Lapse
<1>2. PICK s \in Cross!Sessions : sessions[s] # "none" /\ Cross!SetSession(s, "none")
  BY DEF Cross!Lapse
<1>3. "none" \in SessionStages
  BY DEF SessionStages
<1>4. /\ sessions' \in [Cross!Sessions -> SessionStages] /\ before' \in [Cross!Sessions -> SessionStages]
      /\ sessions'[s] = "none" /\ \A t \in Cross!Sessions \ {s} : sessions'[t] = sessions[t] /\ before'[t] = before[t]
  BY <1>2, <1>3, SetMoves
<1>5. ASSUME NEW p \in IdentityRequests
      PROVE  /\ claimed'[p] = claimed[p] /\ Left(p)' = Left(p) /\ (Cross!IsOpen(p)' <=> Cross!IsOpen(p))
             /\ (Cross!Writes(p)' <=> Cross!Writes(p))
             /\ (Unstored(p)' <=> Unstored(p)) /\ RowsLeft(p)' = RowsLeft(p) /\ (Cross!Begun(p)' <=> Cross!Begun(p))
             /\ \A t \in Cross!Sessions : Cross!Holds(p, t)' <=> Cross!Holds(p, t)
  <2>1. claimed'[p] = claimed[p]
    BY <1>1
  <2>. QED
    BY <2>1, Viewed
<1>6. KeysQuiet
  BY <1>5 DEF KeysQuiet
<1>7. Typed'
  BY <1>1 DEF CrossTypes, Typed
<1>8. StageInv'
  BY <1>5 DEF SessionInv, StageInv
<1>9. NewSessionInv'
  <2>1. SUFFICES ASSUME NEW t \in IdentityRequests, ~Cross!Begun(t)' \/ claimed'[t].op = "challenge"
                 PROVE  /\ sessions'[t] = "none" /\ before'[t] = "none" /\ served'[t] = {}
                        /\ t \notin cancelled' \cup agreed'
                        /\ \A p \in IdentityRequests : claimed'[p].session # t
    BY DEF NewSessionInv
  <2>2. /\ sessions[t] = "none" /\ before[t] = "none" /\ served[t] = {} /\ t \notin cancelled \cup agreed
        /\ \A p \in IdentityRequests : claimed[p].session # t
    BY <1>5, <2>1 DEF SessionInv, NewSessionInv
  <2>3. t # s /\ t \in Cross!Sessions
    BY <1>2, <2>2 DEF Cross!Sessions
  <2>. QED
    BY <1>1, <1>4, <2>2, <2>3
<1>10. HolderInv'
  <2>1. ASSUME NEW t \in Cross!Sessions PROVE sessions'[t] = sessions[t] \/ sessions'[t] = "none"
    BY <1>4
  <2>. QED
    BY <1>1, <1>5, <2>1 DEF SessionInv, HolderInv
<1>. QED
  BY <1>1, <1>4, <1>6, <1>7, <1>8, <1>9, <1>10, KeysStay DEF SessionInv

CrossInd == CrossTypes /\ KeysInv /\ SessionInv

LEMMA CrossInitInd == Cross!CrossInit => CrossInd
<1>1. SUFFICES ASSUME Cross!CrossInit PROVE CrossInd
  OBVIOUS
<1>2. PICK there \in BOOLEAN :
        /\ rows = [k \in Cross!KeyTypes |-> IF there THEN 1 ELSE 0]
        /\ sessions = [s \in Cross!Sessions |-> IF there /\ s = 1 THEN "open" ELSE "none"]
  BY <1>1 DEF Cross!CrossInit
<1>3. /\ object = rows /\ told = rows["master"]
      /\ before = [s \in Cross!Sessions |-> "none"] /\ claimed = [q \in IdentityRequests |-> Cross!Idle]
      /\ served = [s \in Cross!Sessions |-> {}] /\ cancelled = {} /\ agreed = {} /\ mixed = {}
      /\ met = FALSE /\ metReset = FALSE /\ stale = FALSE /\ stopped = FALSE /\ unasked = FALSE
  BY <1>1 DEF Cross!CrossInit
<1>4. \A q \in IdentityRequests : ~Cross!Begun(q) /\ ~Cross!IsOpen(q) /\ Left(q) = {} /\ claimed[q] = Cross!Idle
  BY <1>3, DoneIs, ShortTodos DEF Cross!Begun, Cross!IsOpen, Left
<1>5. \A q \in IdentityRequests : ~Cross!Writes(q) /\ RowsLeft(q) = {} /\ \A s \in Cross!Sessions : ~Cross!Holds(q, s)
  BY <1>4 DEF Cross!Writes, RowsLeft, Cross!Holds
<1>6. CrossTypes
  <2>1. rows \in [Cross!KeyTypes -> Nat]
    BY <1>2
  <2>2. sessions \in [Cross!Sessions -> SessionStages] /\ before \in [Cross!Sessions -> SessionStages]
    BY <1>2, <1>3 DEF SessionStages
  <2>3. /\ claimed \in [IdentityRequests -> CrossCalls]
        /\ \A q \in IdentityRequests : CrossTodo(claimed[q].op, claimed[q].keys, claimed[q].todo)
    BY <1>3, DoneIs
  <2>. QED
    BY <1>3, <2>1, <2>2, <2>3 DEF CrossTypes
<1>7. KeysInv
  BY <1>3, <1>5 DEF KeysInv, WritersInv, ObjectInv, RowsInv, ToldInv, ConsentInv, Cross!ReplacedWithConsent,
     Cross!KeyTypes
<1>8. SessionInv
  <2>1. StageInv
    BY <1>4 DEF StageInv
  <2>2. NewSessionInv
    <3>1. SUFFICES ASSUME NEW s \in IdentityRequests
                   PROVE  /\ sessions[s] = "none" /\ before[s] = "none" /\ served[s] = {}
                          /\ s \notin cancelled \cup agreed
                          /\ \A q \in IdentityRequests : claimed[q].session # s
      BY DEF NewSessionInv
    <3>2. s \in Cross!Sessions /\ s # 1 /\ s # Cross!NoSession
      BY IdentityAssumption DEF Cross!Sessions, Cross!NoSession
    <3>. QED
      BY <1>2, <1>3, <1>4, <3>2, DoneIs
  <2>3. HolderInv
    BY <1>3, <1>5 DEF HolderInv
  <2>. QED
    BY <2>1, <2>2, <2>3 DEF SessionInv
<1>. QED
  BY <1>6, <1>7, <1>8 DEF CrossInd

LEMMA CrossNextInd == CrossInd /\ [Cross!CrossNext]_(Cross!crossVars) => CrossInd'
<1>1. SUFFICES ASSUME CrossTypes, KeysInv, SessionInv, [Cross!CrossNext]_(Cross!crossVars) PROVE CrossInd'
  BY DEF CrossInd
<1>2. Payloads \subseteq SUBSET Cross!KeyTypes
  BY IdentityAssumption DEF Cross!KeyTypes
<1>3. CASE UNCHANGED Cross!crossVars
  <2>1. UNCHANGED <<object, rows, told, sessions, before, claimed, served, cancelled, agreed, mixed, met, metReset,
                    stale, stopped, unasked>>
    BY <1>3 DEF Cross!crossVars
  <2>2. ASSUME NEW p \in IdentityRequests
        PROVE  /\ claimed'[p] = claimed[p] /\ Left(p)' = Left(p) /\ (Cross!IsOpen(p)' <=> Cross!IsOpen(p))
               /\ (Cross!Writes(p)' <=> Cross!Writes(p))
               /\ (Unstored(p)' <=> Unstored(p)) /\ RowsLeft(p)' = RowsLeft(p) /\ (Cross!Begun(p)' <=> Cross!Begun(p))
               /\ \A t \in Cross!Sessions : Cross!Holds(p, t)' <=> Cross!Holds(p, t)
    <3>1. claimed'[p] = claimed[p]
      BY <2>1
    <3>. QED
      BY <3>1, Viewed
  <2>3. CrossTypes'
    BY <1>1, <2>1 DEF CrossTypes
  <2>4. KeysInv'
    <3>1. KeysQuiet
      BY <2>2 DEF KeysQuiet
    <3>. QED
      BY <1>1, <2>1, <3>1, KeysStay DEF Cross!KeepKeys
  <2>5. StageInv' /\ NewSessionInv'
    BY <1>1, <2>1, <2>2 DEF SessionInv, StageInv, NewSessionInv
  <2>6. HolderInv'
    BY <1>1, <2>1, <2>2 DEF SessionInv, HolderInv
  <2>. QED
    BY <2>3, <2>4, <2>5, <2>6 DEF CrossInd, SessionInv
<1>4. ASSUME NEW q \in IdentityRequests, Cross!Arrive(q) PROVE CrossInd'
  <2>1. PICK r \in CrossCalls : Cross!Open(q, r) /\ CrossTodo(r.op, r.keys, r.todo) /\ NewCall(r)
    BY <1>2, <1>4, Arrives
  <2>2. KeysInv' /\ SessionInv' /\ Typed'
    BY <1>1, <2>1, OpenKeepsKeys, OpenKeepsSessions
  <2>3. /\ UNCHANGED <<object, rows, sessions, before, served, stale, stopped, unasked>>
        /\ met' \in BOOLEAN /\ metReset' \in BOOLEAN
    BY <1>1, <2>1 DEF Cross!Open, CrossTypes
  <2>4. CrossTypes'
    BY <1>1, <2>2, <2>3 DEF CrossTypes, Typed
  <2>. QED
    BY <2>2, <2>4 DEF CrossInd
<1>5. ASSUME NEW q \in IdentityRequests, Cross!Stop(q) PROVE CrossInd'
  <2>1. KeysInv' /\ SessionInv' /\ Typed'
    BY <1>1, <1>5, StopKeeps
  <2>2. /\ UNCHANGED <<object, rows, sessions, before, served, met, metReset, stale, unasked>> /\ stopped' \in BOOLEAN
    BY <1>1, <1>5 DEF Cross!Stop, Cross!KeepSessions, CrossTypes, Cross!Writes
  <2>3. CrossTypes'
    BY <1>1, <2>1, <2>2 DEF CrossTypes, Typed
  <2>. QED
    BY <2>1, <2>3 DEF CrossInd
<1>6. ASSUME NEW q \in IdentityRequests, Cross!PutSession(q) \/ Cross!WriteSession(q) \/ Cross!DropSession(q)
         \/ Cross!UseSession(q) \/ Cross!GetSession(q)
      PROVE  CrossInd'
  <2>1. /\ KeysInv' /\ SessionInv' /\ Typed'
        /\ sessions' \in [Cross!Sessions -> SessionStages] /\ before' \in [Cross!Sessions -> SessionStages]
        /\ served' \in [Cross!Sessions -> SUBSET IdentityRequests]
    <3>1. CASE Cross!PutSession(q)
      <4>1. served' = served
        BY <3>1 DEF Cross!PutSession
      <4>. QED
        BY <1>1, <3>1, <4>1, PutSessionKeeps DEF CrossTypes
    <3>2. CASE Cross!WriteSession(q)
      <4>1. served' = served
        BY <3>2 DEF Cross!WriteSession
      <4>. QED
        BY <1>1, <3>2, <4>1, WriteSessionKeeps DEF CrossTypes
    <3>3. CASE Cross!DropSession(q)
      <4>1. served' = served
        BY <3>3 DEF Cross!DropSession
      <4>. QED
        BY <1>1, <3>3, <4>1, DropSessionKeeps DEF CrossTypes
    <3>4. CASE Cross!UseSession(q)
      BY <1>1, <3>4, UseSessionKeeps
    <3>5. CASE Cross!GetSession(q)
      <4>1. UNCHANGED <<sessions, before, served>>
        BY <3>5 DEF Cross!GetSession
      <4>. QED
        BY <1>1, <3>5, <4>1, GetSessionKeeps DEF CrossTypes
    <3>. QED
      BY <1>6, <3>1, <3>2, <3>3, <3>4, <3>5
  <2>2. Cross!KeepKeys
    BY <1>6 DEF Cross!PutSession, Cross!WriteSession, Cross!DropSession, Cross!UseSession, Cross!GetSession
  <2>3. CrossTypes'
    BY <1>1, <2>1, <2>2 DEF CrossTypes, Typed, Cross!KeepKeys
  <2>. QED
    BY <2>1, <2>3 DEF CrossInd
<1>7. ASSUME NEW q \in IdentityRequests, \/ Cross!GetObject(q) \/ Cross!PutObject(q) \/ Cross!RecordChange(q)
                                              \/ Cross!DeleteObject(q) \/ Cross!DeleteRows(q)
                                         \/ \E k \in Cross!KeyTypes : Cross!PutRow(q, k)
      PROVE  CrossInd'
  <2>1. SessionInv' /\ Typed'
    BY <1>1, <1>7, KeyStepKeepsSessions
  <2>2. KeysInv' /\ object' \in [Cross!KeyTypes -> Nat] /\ rows' \in [Cross!KeyTypes -> Nat]
    <3>1. object \in [Cross!KeyTypes -> Nat] /\ rows \in [Cross!KeyTypes -> Nat]
      BY <1>1 DEF CrossTypes
    <3>2. CASE Cross!GetObject(q)
      BY <1>1, <3>1, <3>2, GetObjectKeeps DEF Cross!GetObject, Cross!KeepKeys
    <3>3. CASE Cross!PutObject(q)
      BY <1>1, <3>1, <3>3, PutObjectKeeps DEF Cross!PutObject
    <3>4. CASE Cross!RecordChange(q)
      BY <1>1, <3>1, <3>4, RecordKeeps DEF Cross!RecordChange
    <3>5. CASE Cross!DeleteObject(q) \/ Cross!DeleteRows(q)
      BY <1>1, <3>5, DeletesKeep
    <3>6. ASSUME NEW k \in Cross!KeyTypes, Cross!PutRow(q, k)
          PROVE  KeysInv' /\ object' \in [Cross!KeyTypes -> Nat] /\ rows' \in [Cross!KeyTypes -> Nat]
      BY <1>1, <3>1, <3>6, PutRowKeeps DEF Cross!PutRow
    <3>. QED
      BY <1>7, <3>2, <3>3, <3>4, <3>5, <3>6
  <2>3. /\ UNCHANGED <<sessions, before, served, met, metReset, stopped>>
        /\ stale' \in BOOLEAN /\ unasked' \in BOOLEAN
    BY <1>1, <1>7 DEF Cross!GetObject, Cross!PutObject, Cross!RecordChange, Cross!DeleteObject, Cross!DeleteRows,
       Cross!PutRow, Cross!KeepSessions, Cross!KeepKeys, CrossTypes
  <2>4. CrossTypes'
    BY <1>1, <2>1, <2>2, <2>3 DEF CrossTypes, Typed
  <2>. QED
    BY <2>1, <2>2, <2>4 DEF CrossInd
<1>8. CASE Cross!Lapse
  <2>1. /\ KeysInv' /\ SessionInv' /\ Typed'
        /\ sessions' \in [Cross!Sessions -> SessionStages] /\ before' \in [Cross!Sessions -> SessionStages]
    BY <1>1, <1>8, LapseKeeps
  <2>2. Cross!KeepKeys /\ served' = served
    BY <1>8 DEF Cross!Lapse
  <2>3. CrossTypes'
    BY <1>1, <2>1, <2>2 DEF CrossTypes, Typed, Cross!KeepKeys
  <2>. QED
    BY <2>1, <2>3 DEF CrossInd
<1>. QED
  BY <1>1, <1>3, <1>4, <1>5, <1>6, <1>7, <1>8 DEF Cross!CrossNext

LEMMA CrossIndSound == CrossInd => Cross!IdentitySound
<1>1. SUFFICES ASSUME CrossTypes, KeysInv, SessionInv PROVE Cross!IdentitySound
  BY DEF CrossInd
<1>2. Cross!StoresAgree
  <2>1. SUFFICES ASSUME Cross!Settled, ~stopped
                 PROVE  (metReset \/ \A k \in Cross!KeyTypes : object[k] = 0 <=> rows[k] = 0) /\ (met \/ object = rows)
    BY DEF Cross!StoresAgree
  <2>2. \A q \in IdentityRequests : RowsLeft(q) = {}
    BY <2>1 DEF Cross!Settled, RowsLeft, Cross!Writes
  <2>3. metReset \/ \A k \in Cross!KeyTypes : object[k] = 0 <=> rows[k] = 0
    BY <1>1, <2>1, <2>2 DEF KeysInv, RowsInv
  <2>4. met \/ \A k \in Cross!KeyTypes : object[k] = rows[k]
    BY <1>1, <2>1, <2>2 DEF KeysInv, RowsInv
  <2>. QED
    BY <1>1, <2>3, <2>4 DEF CrossTypes
<1>3. Cross!LastChangeTold
  BY <1>1 DEF Cross!LastChangeTold, Cross!Settled, KeysInv, ToldInv, Cross!Writes
<1>4. Cross!ReplacedWithConsent
  BY <1>1 DEF KeysInv, ConsentInv
<1>5. Cross!SessionsSound
  BY <1>1 DEF Cross!SessionsSound, SessionInv, HolderInv
<1>. QED
  BY <1>2, <1>3, <1>4, <1>5 DEF Cross!IdentitySound

-----------------------------------------------------------------------------
(* All that holds of the cross-signing keys, when it is they that run. *)
IdentityInd == part = "identity" => CrossInd

(* When no request is under way and none stopped half-way, the user's object and the rows of D1 have keys of
   the same types unless a reset overlapped another request, and the same keys unless any two that write
   overlapped; the others were told of the master key unless an upload wrote back what it had read before.
   Keys are replaced without the user's consent only after an overlap or a stop.  A session lets one upload
   through, none after it was cancelled, and stays approved until then, unless two requests held it at once or
   KV gave it as it had been (keys.ts, oauth.ts, oidc-auth.ts). *)
THEOREM IdentityIsSound == DevicesSpec => []IdentitySound
<1>1. DevicesInit => IdentityInd
  BY CrossInitInd DEF DevicesInit, IdentityInd
<1>2. IdentityInd /\ [DevicesNext]_devicesVars => IdentityInd'
  <2>1. SUFFICES ASSUME IdentityInd, [DevicesNext]_devicesVars, part' = "identity" PROVE CrossInd'
    BY DEF IdentityInd
  <2>2. part' = part
    BY <2>1 DEF DevicesNext, AllEnded, devicesVars
  <2>3. CrossInd
    BY <2>1, <2>2 DEF IdentityInd
  <2>4. [Cross!CrossNext]_(Cross!crossVars)
    BY <2>1, <2>2 DEF DevicesNext, AllEnded, devicesVars, crossVars, Cross!crossVars
  <2>. QED
    BY <2>3, <2>4, CrossNextInd
<1>3. IdentityInd => IdentitySound
  BY CrossIndSound DEF IdentityInd, IdentitySound
<1>. QED
  BY <1>1, <1>2, <1>3, PTL DEF DevicesSpec

-----------------------------------------------------------------------------
(* An account's sessions *)

(* What a request is, and what it has still to run. *)
AccountSteps == {"newUser", "newDevice", "newToken", "newRefresh", "checkUser", "useToken", "useRefresh", "dropAccess",
                 "putToken", "endOne", "endAll", "deactivate", "endDevice", "dropDevice", "reactivate", "dropDevices",
                 "dropUser"}
AccountCalls ==
  [op : {"none", "register", "login", "refresh"}, phase : {"new", "open", "done"}, todo : Seq(AccountSteps),
   session : Account!Sessions \cup {Account!NoToken}, device : Devices \cup {FirstDevice, "none"},
   token : Account!Sessions \cup {Account!NoToken},
   via : Account!Sessions \cup {Account!NoToken}]

AccountTodo(op, todo) ==
  /\ op = "register" =>
       todo \in {Account!Registration, Account!Uninhibited}
                \cup {<<"newDevice", "newToken", "newRefresh">>, <<"newToken", "newRefresh">>, <<"newRefresh">>, <<>>}
  /\ op = "login" =>
       todo \in {Account!TokenLogin, Account!PasswordLogin}
                \cup {<<"newDevice", "newToken", "newRefresh">>, <<"newToken", "newRefresh">>, <<"newRefresh">>, <<>>}
  /\ op = "refresh" =>
       todo \in {Account!Refreshing, <<"dropAccess", "newToken", "newRefresh">>, <<"newToken", "newRefresh">>,
                 <<"newRefresh">>, <<>>}
  /\ op = "none" =>
       todo \in {<<"putToken">>, <<"endOne">>, Account!PasswordChange, Account!Deactivation, Account!DeviceDeletion,
                 <<"dropDevice">>, Account!AdminUpdate, Account!Reactivation, Account!AdminCreation, Account!Purge,
                 <<"dropDevices", "dropUser">>, <<"dropUser">>, <<>>}

AccountTypes ==
  /\ has \in [Account!Sessions -> Account!Sessions \cup {Account!NoToken}]
  /\ req \in [AccountRequests -> AccountCalls]
  /\ \A q \in AccountRequests : /\ AccountTodo(req[q].op, req[q].todo)
                                /\ req[q].phase # "open" => req[q].todo = <<>>

ToRun(q) == Items(req[q].todo)
IsOpen(q) == req[q].phase = "open"
Issues(q) == req[q].op \in {"register", "login", "refresh"}
Ids(tokens) == {t.id : t \in tokens}

(* Tokens and sessions are those of requests. *)
SessionOf(x) == IF x = 0 THEN 0 ELSE req[x].session
Granted(x) == x = 0 \/ (x \in AccountRequests /\ req[x].phase = "done" /\ Issues(x))
Started(s) == s = 0 \/ (s \in AccountRequests /\ req[s].phase = "done" /\ req[s].op \in {"register", "login"})

TokenOf(x) == [id |-> x, session |-> SessionOf(x), device |-> Account!DeviceOf(SessionOf(x)),
               via |-> IF x # 0 /\ req[x].op = "login" THEN req[x].via ELSE Account!NoToken]
RefreshOf(x) == [id |-> x, session |-> SessionOf(x), device |-> Account!DeviceOf(SessionOf(x)), access |-> x]

CallSound(q) ==
  /\ ~Account!Begun(q) => req[q].op = "none"
  /\ req[q].op \in {"register", "login"} => req[q].session = q
  /\ req[q].op = "refresh" =>
       /\ Granted(req[q].via) /\ req[q].token = req[q].via
       /\ SessionOf(req[q].via) = req[q].session /\ Started(req[q].session)
       /\ req[q].device = Account!DeviceOf(req[q].session)
CallInv == \A q \in AccountRequests : CallSound(q)

HasSound(s) == has[s] # Account!NoToken => Granted(has[s]) /\ SessionOf(has[s]) = s /\ Started(s)
HasInv == \A s \in Account!Sessions : HasSound(s)

TokenSound(t) ==
  /\ t.id \in Account!Sessions /\ t = TokenOf(t.id)
  /\ t.id # 0 => Account!Begun(t.id) /\ Issues(t.id) /\ "newToken" \notin ToRun(t.id)
RefreshSound(f) ==
  /\ f.id \in Account!Sessions /\ f = RefreshOf(f.id)
  /\ f.id # 0 => Account!Begun(f.id) /\ Issues(f.id) /\ ToRun(f.id) = {}
TokenInv == (\A t \in access : TokenSound(t)) /\ (\A f \in refreshes \cup deleted : RefreshSound(f))

(* A token that was read once is not read again. *)
OnceReadInv ==
  /\ \A p, q \in AccountRequests :
       req[p].op = "refresh" /\ req[q].op = "refresh" /\ req[p].via = req[q].via /\ p # q => req[p].session \in raced
  /\ \A p, q \in AccountRequests :
       req[p].op = "login" /\ req[q].op = "login" /\ req[p].via = req[q].via /\ p # q /\ req[p].via # Account!NoToken =>
         req[p].via \in raced

(* A session's token is the one its client was given last, or the one that replaces it. *)
ReplacedSound(q) ==
  req[q].op = "refresh" /\ IsOpen(q) /\ req[q].session \notin raced => has[req[q].session] = req[q].via
IssuedSound(t) ==
  t.session \notin raced =>
    \/ t.id = has[t.session]
    \/ t.id \in AccountRequests /\ req[t.id].op = "refresh" /\ req[t.id].via = has[t.session]
    \/ t.id = t.session /\ has[t.session] = Account!NoToken
DroppedSound(q) ==
  req[q].op = "refresh" /\ (q \in Ids(access) \/ (IsOpen(q) /\ "dropAccess" \notin ToRun(q))) =>
    req[q].via \notin Ids(access)
ChainInv == (\A q \in AccountRequests : ReplacedSound(q) /\ DroppedSound(q)) /\ \A t \in access : IssuedSound(t)

(* What the client of a session was given last is there, or a refresh has begun to replace it. *)
Away(s) == s \in ended \cup troubled
DropsAccess(q, x) == IsOpen(q) /\ req[q].op = "refresh" /\ req[q].via = x /\ "dropAccess" \notin ToRun(q)
UsesRefresh(q, x) == IsOpen(q) /\ req[q].op = "refresh" /\ req[q].via = x /\ "useRefresh" \notin ToRun(q)
ClientSound(s) ==
  ~Away(s) /\ has[s] # Account!NoToken =>
    /\ has[s] \in Ids(access) \/ \E q \in AccountRequests : DropsAccess(q, has[s])
    /\ has[s] \in Ids(refreshes) \/ \E q \in AccountRequests : UsesRefresh(q, has[s])
HasRefresh(q) == q \in Ids(refreshes \cup deleted) \/ (req[q].op = "refresh" /\ ToRun(q) = {})
TokensSent(q) ==
  IsOpen(q) /\ Issues(q) /\ ~Away(req[q].session) =>
    /\ "newToken" \notin ToRun(q) /\ "newRefresh" \in ToRun(q) => q \in Ids(access)
    /\ HasRefresh(q) => q \in Ids(access) /\ q \in Ids(refreshes)
ClientInv == (\A s \in Account!Sessions : ClientSound(s)) /\ \A q \in AccountRequests : TokensSent(q)

(* Nobody has a token of a device that is about to go, but one that was issued late. *)
DeviceInv ==
  /\ Account!SessionsHaveDevices
  /\ \A r \in AccountRequests :
       /\ Account!At(r, "dropDevice") => \A t \in access : t.device = req[r].device => t.id \in late
       /\ Account!At(r, "dropDevices") => \A t \in access : t.id \in late

AccountCore == AccountTypes /\ CallInv /\ HasInv /\ TokenInv /\ OnceReadInv /\ ChainInv /\ ClientInv
AccountInd == AccountCore /\ DeviceInv

(* Short lists. *)
LEMMA ShortLists ==
  \A a, b, c, d, e :
    /\ Items(<<>>) = {}
    /\ <<a>> # <<>> /\ Head(<<a>>) = a /\ Tail(<<a>>) = <<>> /\ Items(<<a>>) = {a}
    /\ <<a, b>> # <<>> /\ Head(<<a, b>>) = a /\ Tail(<<a, b>>) = <<b>> /\ Items(<<a, b>>) = {a, b}
    /\ <<a, b, c>> # <<>> /\ Head(<<a, b, c>>) = a /\ Tail(<<a, b, c>>) = <<b, c>>
    /\ Items(<<a, b, c>>) = {a, b, c}
    /\ <<a, b, c, d>> # <<>> /\ Head(<<a, b, c, d>>) = a /\ Tail(<<a, b, c, d>>) = <<b, c, d>>
    /\ Items(<<a, b, c, d>>) = {a, b, c, d}
    /\ <<a, b, c, d, e>> # <<>> /\ Head(<<a, b, c, d, e>>) = a /\ Tail(<<a, b, c, d, e>>) = <<b, c, d, e>>
    /\ Items(<<a, b, c, d, e>>) = {a, b, c, d, e}
<1>1. ASSUME NEW a, NEW b, NEW c, NEW d, NEW e
      PROVE  /\ Items(<<>>) = {}
             /\ <<a>> # <<>> /\ Head(<<a>>) = a /\ Tail(<<a>>) = <<>> /\ Items(<<a>>) = {a}
             /\ <<a, b>> # <<>> /\ Head(<<a, b>>) = a /\ Tail(<<a, b>>) = <<b>> /\ Items(<<a, b>>) = {a, b}
             /\ <<a, b, c>> # <<>> /\ Head(<<a, b, c>>) = a /\ Tail(<<a, b, c>>) = <<b, c>>
             /\ Items(<<a, b, c>>) = {a, b, c}
             /\ <<a, b, c, d>> # <<>> /\ Head(<<a, b, c, d>>) = a /\ Tail(<<a, b, c, d>>) = <<b, c, d>>
             /\ Items(<<a, b, c, d>>) = {a, b, c, d}
             /\ <<a, b, c, d, e>> # <<>> /\ Head(<<a, b, c, d, e>>) = a /\ Tail(<<a, b, c, d, e>>) = <<b, c, d, e>>
             /\ Items(<<a, b, c, d, e>>) = {a, b, c, d, e}
  <2>2. /\ DOMAIN <<>> = {} /\ DOMAIN <<a>> = {1} /\ DOMAIN <<a, b>> = {1, 2} /\ DOMAIN <<a, b, c>> = {1, 2, 3}
        /\ DOMAIN <<a, b, c, d>> = {1, 2, 3, 4} /\ DOMAIN <<a, b, c, d, e>> = {1, 2, 3, 4, 5}
    OBVIOUS
  <2>3. Items(<<>>) = {} /\ Items(<<a>>) = {a} /\ Items(<<a, b>>) = {a, b}
    BY <2>2 DEF Items
  <2>4. Items(<<a, b, c>>) = {a, b, c}
    BY <2>2 DEF Items
  <2>5. Items(<<a, b, c, d>>) = {a, b, c, d}
    BY <2>2 DEF Items
  <2>6. Items(<<a, b, c, d, e>>) = {a, b, c, d, e}
    BY <2>2 DEF Items
  <2>7. /\ <<a>> # <<>> /\ Head(<<a>>) = a /\ Tail(<<a>>) = <<>>
        /\ <<a, b>> # <<>> /\ Head(<<a, b>>) = a /\ Tail(<<a, b>>) = <<b>>
        /\ <<a, b, c>> # <<>> /\ Head(<<a, b, c>>) = a /\ Tail(<<a, b, c>>) = <<b, c>>
    OBVIOUS
  <2>8. /\ <<a, b, c, d>> # <<>> /\ Head(<<a, b, c, d>>) = a /\ Tail(<<a, b, c, d>>) = <<b, c, d>>
        /\ <<a, b, c, d, e>> # <<>> /\ Head(<<a, b, c, d, e>>) = a /\ Tail(<<a, b, c, d, e>>) = <<b, c, d, e>>
    OBVIOUS
  <2>. QED
    BY <2>3, <2>4, <2>5, <2>6, <2>7, <2>8
<1>. QED
  BY <1>1

LEMMA TokenLoginIs == Account!TokenLogin = <<"useToken", "checkUser", "newDevice", "newToken", "newRefresh">>
<1>. DEFINE s == <<"useToken">> \o <<"checkUser", "newDevice", "newToken", "newRefresh">>
            t == <<"useToken", "checkUser", "newDevice", "newToken", "newRefresh">>
<1>1. /\ Len(s) = 5 /\ s \in Seq(AccountSteps)
      /\ s[1] = "useToken" /\ s[2] = "checkUser" /\ s[3] = "newDevice" /\ s[4] = "newToken" /\ s[5] = "newRefresh"
  BY DEF AccountSteps
<1>2. /\ Len(t) = 5 /\ t \in Seq(AccountSteps)
      /\ t[1] = "useToken" /\ t[2] = "checkUser" /\ t[3] = "newDevice" /\ t[4] = "newToken" /\ t[5] = "newRefresh"
  BY DEF AccountSteps
<1>3. \A i \in 1 .. 5 : s[i] = t[i]
  BY <1>1, <1>2
<1>4. s = t
  <2>. HIDE DEF s, t
  <2>. QED
    BY <1>1, <1>2, <1>3
<1>. QED
  BY <1>4 DEF Account!TokenLogin, Account!PasswordLogin

(* What a request is about to do, and what it has then still to run. *)
AccountAt(op, h, rest) ==
  \/ op = "register" /\ h = "newUser" /\ rest \in {{}, {"newDevice", "newToken", "newRefresh"}}
  \/ op = "login" /\ h = "useToken" /\ rest = {"checkUser", "newDevice", "newToken", "newRefresh"}
  \/ op = "login" /\ h = "checkUser" /\ rest = {"newDevice", "newToken", "newRefresh"}
  \/ op \in {"register", "login"} /\ h = "newDevice" /\ rest = {"newToken", "newRefresh"}
  \/ op = "refresh" /\ h = "useRefresh" /\ rest = {"dropAccess", "newToken", "newRefresh"}
  \/ op = "refresh" /\ h = "dropAccess" /\ rest = {"newToken", "newRefresh"}
  \/ op \in {"register", "login", "refresh"} /\ h = "newToken" /\ rest = {"newRefresh"}
  \/ op \in {"register", "login", "refresh"} /\ h = "newRefresh" /\ rest = {}
  \/ /\ op = "none" /\ rest = {}
     /\ h \in {"putToken", "endOne", "endAll", "deactivate", "dropDevice", "reactivate", "newUser", "dropUser"}
  \/ op = "none" /\ h = "deactivate" /\ rest = {"endAll"}
  \/ op = "none" /\ h = "endDevice" /\ rest = {"dropDevice"}
  \/ op = "none" /\ h = "endAll" /\ rest = {"dropDevices", "dropUser"}
  \/ op = "none" /\ h = "dropDevices" /\ rest = {"dropUser"}

LEMMA AccountShape ==
  ASSUME NEW op \in {"none", "register", "login", "refresh"}, NEW todo, todo # <<>>, AccountTodo(op, todo)
  PROVE  /\ AccountTodo(op, Tail(todo)) /\ AccountAt(op, Head(todo), Items(Tail(todo)))
         /\ Items(todo) = {Head(todo)} \cup Items(Tail(todo))
<1>1. CASE todo = <<"newRefresh">> /\ op # "none"
  BY <1>1, ShortLists DEF AccountTodo, AccountAt
<1>2. CASE todo = <<"newToken", "newRefresh">> /\ op # "none"
  BY <1>2, ShortLists DEF AccountTodo, AccountAt
<1>3. CASE todo = <<"newDevice", "newToken", "newRefresh">> /\ op \in {"register", "login"}
  BY <1>3, ShortLists DEF AccountTodo, AccountAt
<1>4. CASE op = "register" /\ todo \in {Account!Registration, Account!Uninhibited}
  <2>1. CASE todo = Account!Registration
    BY <1>4, <2>1, ShortLists DEF AccountTodo, AccountAt, Account!Registration
  <2>2. CASE todo = Account!Uninhibited
    BY <1>4, <2>2, ShortLists DEF AccountTodo, AccountAt, Account!Uninhibited
  <2>. QED
    BY <1>4, <2>1, <2>2
<1>5. CASE op = "login" /\ todo = Account!PasswordLogin
  BY <1>5, ShortLists DEF AccountTodo, AccountAt, Account!PasswordLogin
<1>6. CASE op = "login" /\ todo = Account!TokenLogin
  BY <1>6, ShortLists, TokenLoginIs DEF AccountTodo, AccountAt, Account!PasswordLogin
<1>7. CASE op = "refresh" /\ todo = Account!Refreshing
  BY <1>7, ShortLists DEF AccountTodo, AccountAt, Account!Refreshing
<1>8. CASE op = "refresh" /\ todo = <<"dropAccess", "newToken", "newRefresh">>
  BY <1>8, ShortLists DEF AccountTodo, AccountAt
<1>9. CASE op = "none"
  <2>1. ASSUME NEW h \in {"putToken", "endOne", "endAll", "deactivate", "dropDevice", "reactivate", "newUser",
                          "dropUser"}, todo = <<h>>
        PROVE  /\ AccountTodo(op, Tail(todo)) /\ AccountAt(op, Head(todo), Items(Tail(todo)))
               /\ Items(todo) = {Head(todo)} \cup Items(Tail(todo))
    <3>1. Head(todo) = h /\ Tail(todo) = <<>> /\ Items(todo) = {h} /\ Items(Tail(todo)) = {}
      BY <2>1, ShortLists
    <3>. QED
      BY <1>9, <3>1 DEF AccountTodo, AccountAt
  <2>2. CASE todo \in {<<"putToken">>, <<"endOne">>, <<"dropDevice">>, <<"dropUser">>, Account!PasswordChange,
                       Account!AdminUpdate, Account!Reactivation, Account!AdminCreation}
    BY <2>1, <2>2 DEF Account!PasswordChange, Account!AdminUpdate, Account!Reactivation, Account!AdminCreation
  <2>3. CASE todo = Account!Deactivation
    BY <1>9, <2>3, ShortLists DEF AccountTodo, AccountAt, Account!PasswordChange, Account!Deactivation
  <2>4. CASE todo = Account!DeviceDeletion
    BY <1>9, <2>4, ShortLists DEF AccountTodo, AccountAt, Account!DeviceDeletion
  <2>5. CASE todo = Account!Purge
    BY <1>9, <2>5, ShortLists DEF AccountTodo, AccountAt, Account!Purge
  <2>6. CASE todo = <<"dropDevices", "dropUser">>
    BY <1>9, <2>6, ShortLists DEF AccountTodo, AccountAt
  <2>. QED
    BY <1>9, <2>2, <2>3, <2>4, <2>5, <2>6 DEF AccountTodo
<1>. QED
  BY <1>1, <1>2, <1>3, <1>4, <1>5, <1>6, <1>7, <1>8, <1>9 DEF AccountTodo

Later(q) == Items(Tail(req[q].todo))

CallTypes ==
  /\ req \in [AccountRequests -> AccountCalls]
  /\ \A q \in AccountRequests : /\ AccountTodo(req[q].op, req[q].todo)
                                /\ req[q].phase # "open" => req[q].todo = <<>>

(* What an open request is at. *)
LEMMA AtIs ==
  ASSUME AccountTypes, NEW q \in AccountRequests, NEW h, Account!At(q, h)
  PROVE  /\ req[q] \in AccountCalls /\ IsOpen(q) /\ Account!Begun(q) /\ ToRun(q) = {h} \cup Later(q)
         /\ AccountAt(req[q].op, h, Later(q)) /\ AccountTodo(req[q].op, Tail(req[q].todo))
         /\ Tail(req[q].todo) \in Seq(AccountSteps)
<1>1. req[q] \in AccountCalls /\ AccountTodo(req[q].op, req[q].todo)
  BY DEF AccountTypes
<1>2. IsOpen(q) /\ Account!Begun(q) /\ req[q].todo # <<>> /\ Head(req[q].todo) = h
  BY DEF Account!At, IsOpen, Account!Begun
<1>3. req[q].op \in {"none", "register", "login", "refresh"} /\ req[q].todo \in Seq(AccountSteps)
  BY <1>1 DEF AccountCalls
<1>4. /\ AccountTodo(req[q].op, Tail(req[q].todo))
      /\ AccountAt(req[q].op, Head(req[q].todo), Items(Tail(req[q].todo)))
      /\ Items(req[q].todo) = {Head(req[q].todo)} \cup Items(Tail(req[q].todo))
  BY <1>1, <1>2, <1>3, AccountShape
<1>5. Tail(req[q].todo) \in Seq(AccountSteps)
  BY <1>2, <1>3
<1>. QED
  BY <1>1, <1>2, <1>4, <1>5 DEF ToRun, Later

(* A request that goes on or ends stays what it is. *)
Steady ==
  \A p \in AccountRequests :
    /\ req'[p].op = req[p].op /\ req'[p].session = req[p].session /\ req'[p].device = req[p].device
    /\ req'[p].token = req[p].token /\ req'[p].via = req[p].via
    /\ Account!Begun(p)' <=> Account!Begun(p)
    /\ req[p].phase = "done" => req'[p].phase = "done"
    /\ IsOpen(p)' => IsOpen(p)
    /\ ToRun(p)' \subseteq ToRun(p)

OthersWait(q) ==
  \A p \in AccountRequests \ {q} : req'[p] = req[p] /\ ToRun(p)' = ToRun(p) /\ (IsOpen(p)' <=> IsOpen(p))

LEMMA RanIs ==
  ASSUME AccountTypes, NEW q \in AccountRequests, NEW h, Account!At(q, h), Account!Ran(q)
  PROVE  CallTypes' /\ Steady /\ OthersWait(q) /\ ToRun(q)' = Later(q) /\ IsOpen(q)'
<1>1. /\ req[q] \in AccountCalls /\ IsOpen(q) /\ Account!Begun(q) /\ ToRun(q) = {h} \cup Later(q)
      /\ AccountTodo(req[q].op, Tail(req[q].todo)) /\ Tail(req[q].todo) \in Seq(AccountSteps)
  BY AtIs
<1>2. req' = [req EXCEPT ![q].todo = Tail(req[q].todo)] /\ req \in [AccountRequests -> AccountCalls]
  BY DEF Account!Ran, AccountTypes
<1>3. [req[q] EXCEPT !.todo = Tail(req[q].todo)] \in AccountCalls
  BY <1>1 DEF AccountCalls
<1>4. /\ req' \in [AccountRequests -> AccountCalls] /\ \A p \in AccountRequests \ {q} : req'[p] = req[p]
      /\ req'[q].op = req[q].op /\ req'[q].session = req[q].session /\ req'[q].device = req[q].device
      /\ req'[q].token = req[q].token /\ req'[q].via = req[q].via /\ req'[q].phase = req[q].phase
      /\ req'[q].todo = Tail(req[q].todo)
  BY <1>1, <1>2, <1>3 DEF AccountCalls
<1>5. CallTypes'
  <2>1. SUFFICES ASSUME NEW p \in AccountRequests
                 PROVE  AccountTodo(req'[p].op, req'[p].todo) /\ (req'[p].phase # "open" => req'[p].todo = <<>>)
    BY <1>4 DEF CallTypes
  <2>2. CASE p = q
    BY <1>1, <1>4, <2>2 DEF IsOpen
  <2>3. CASE p # q
    BY <1>4, <2>3 DEF AccountTypes
  <2>. QED
    BY <2>2, <2>3
<1>6. ToRun(q)' = Later(q) /\ IsOpen(q)' /\ Account!Begun(q)'
  BY <1>1, <1>4 DEF ToRun, Later, IsOpen, Account!Begun
<1>7. OthersWait(q)
  BY <1>4 DEF OthersWait, ToRun, IsOpen
<1>8. \A p \in AccountRequests \ {q} : Account!Begun(p)' <=> Account!Begun(p)
  BY <1>4 DEF Account!Begun
<1>9. Steady
  <2>1. SUFFICES ASSUME NEW p \in AccountRequests
        PROVE  /\ req'[p].op = req[p].op /\ req'[p].session = req[p].session /\ req'[p].device = req[p].device
               /\ req'[p].token = req[p].token /\ req'[p].via = req[p].via
               /\ Account!Begun(p)' <=> Account!Begun(p)
               /\ req[p].phase = "done" => req'[p].phase = "done"
               /\ IsOpen(p)' => IsOpen(p)
               /\ ToRun(p)' \subseteq ToRun(p)
    BY DEF Steady
  <2>2. CASE p = q
    BY <1>1, <1>4, <1>6, <2>2
  <2>3. CASE p # q
    BY <1>4, <1>7, <1>8, <2>3 DEF OthersWait
  <2>. QED
    BY <2>2, <2>3
<1>. QED
  BY <1>5, <1>6, <1>7, <1>9

(* A request that ends, with its answer or before it. *)
LEMMA EndIs ==
  ASSUME AccountTypes, NEW q \in AccountRequests, IsOpen(q), req' = [req EXCEPT ![q].phase = "done", ![q].todo = <<>>]
  PROVE  CallTypes' /\ Steady /\ OthersWait(q) /\ ToRun(q)' = {} /\ ~IsOpen(q)' /\ req'[q].phase = "done"
<1>1. req[q] \in AccountCalls /\ req \in [AccountRequests -> AccountCalls] /\ Account!Begun(q)
  BY DEF AccountTypes, IsOpen, Account!Begun
<1>2. <<>> \in Seq(AccountSteps)
  OBVIOUS
<1>3. [req[q] EXCEPT !.phase = "done", !.todo = <<>>] \in AccountCalls
  BY <1>1, <1>2 DEF AccountCalls
<1>4. /\ req' \in [AccountRequests -> AccountCalls] /\ \A p \in AccountRequests \ {q} : req'[p] = req[p]
      /\ req'[q].op = req[q].op /\ req'[q].session = req[q].session /\ req'[q].device = req[q].device
      /\ req'[q].token = req[q].token /\ req'[q].via = req[q].via /\ req'[q].phase = "done"
      /\ req'[q].todo = <<>>
  BY <1>1, <1>3 DEF AccountCalls
<1>5. CallTypes'
  <2>1. SUFFICES ASSUME NEW p \in AccountRequests
                 PROVE  AccountTodo(req'[p].op, req'[p].todo) /\ (req'[p].phase # "open" => req'[p].todo = <<>>)
    BY <1>4 DEF CallTypes
  <2>2. CASE p = q
    BY <1>4, <2>2 DEF AccountTodo
  <2>3. CASE p # q
    BY <1>4, <2>3 DEF AccountTypes
  <2>. QED
    BY <2>2, <2>3
<1>6. ToRun(q)' = {} /\ ~IsOpen(q)' /\ Account!Begun(q)'
  BY <1>4, ShortLists DEF ToRun, IsOpen, Account!Begun
<1>7. OthersWait(q)
  BY <1>4 DEF OthersWait, ToRun, IsOpen
<1>8. \A p \in AccountRequests \ {q} : Account!Begun(p)' <=> Account!Begun(p)
  BY <1>4 DEF Account!Begun
<1>9. Steady
  <2>1. SUFFICES ASSUME NEW p \in AccountRequests
        PROVE  /\ req'[p].op = req[p].op /\ req'[p].session = req[p].session /\ req'[p].device = req[p].device
               /\ req'[p].token = req[p].token /\ req'[p].via = req[p].via
               /\ Account!Begun(p)' <=> Account!Begun(p)
               /\ req[p].phase = "done" => req'[p].phase = "done"
               /\ IsOpen(p)' => IsOpen(p)
               /\ ToRun(p)' \subseteq ToRun(p)
    BY DEF Steady
  <2>2. CASE p = q
    BY <1>1, <1>4, <1>6, <2>2
  <2>3. CASE p # q
    BY <1>4, <1>7, <1>8, <2>3 DEF OthersWait
  <2>. QED
    BY <2>2, <2>3
<1>. QED
  BY <1>4, <1>5, <1>6, <1>7, <1>9

(* Who issues tokens, and has a session. *)
Issuer(x) == x = 0 \/ (x \in AccountRequests /\ Issues(x))

LEMMA IssuerHasSession ==
  ASSUME CallInv, NEW x, Issuer(x)
  PROVE  x \in Account!Sessions /\ SessionOf(x) \in Account!Sessions
<1>1. CASE x = 0
  BY <1>1 DEF Account!Sessions, SessionOf
<1>2. CASE x \in AccountRequests /\ Issues(x) /\ x # 0
  BY <1>2 DEF CallInv, CallSound, Issues, Started, Account!Sessions, SessionOf
<1>. QED
  BY <1>1, <1>2 DEF Issuer

LEMMA SteadyViews ==
  ASSUME CallInv, Steady
  PROVE  /\ \A s \in Account!Sessions : /\ SessionOf(s)' = SessionOf(s) /\ Account!DeviceOf(s)' = Account!DeviceOf(s)
                                        /\ Granted(s) => Granted(s)'
                                        /\ Started(s) => Started(s)'
         /\ \A x : Issuer(x) => Issuer(x)' /\ TokenOf(x)' = TokenOf(x) /\ RefreshOf(x)' = RefreshOf(x)
<1>1. ASSUME NEW s \in Account!Sessions
      PROVE  /\ SessionOf(s)' = SessionOf(s) /\ Account!DeviceOf(s)' = Account!DeviceOf(s)
             /\ Granted(s) => Granted(s)'
             /\ Started(s) => Started(s)'
  <2>1. CASE s = 0
    BY <2>1 DEF SessionOf, Account!DeviceOf, Granted, Started
  <2>2. CASE s \in AccountRequests /\ s # 0
    BY <2>2 DEF SessionOf, Account!DeviceOf, Granted, Started, Steady, Issues
  <2>. QED
    BY <2>1, <2>2 DEF Account!Sessions
<1>2. ASSUME NEW x, Issuer(x)
      PROVE  Issuer(x)' /\ TokenOf(x)' = TokenOf(x) /\ RefreshOf(x)' = RefreshOf(x)
  <2>1. x \in Account!Sessions /\ SessionOf(x) \in Account!Sessions
    BY <1>2, IssuerHasSession
  <2>2. SessionOf(x)' = SessionOf(x) /\ Account!DeviceOf(SessionOf(x))' = Account!DeviceOf(SessionOf(x))'
    BY <1>1, <2>1
  <2>3. \A s : s \in Account!Sessions => Account!DeviceOf(s)' = Account!DeviceOf(s)
    BY <1>1
  <2>4. PICK s : s = SessionOf(x)
    OBVIOUS
  <2>5. SessionOf(x)' = s /\ Account!DeviceOf(s)' = Account!DeviceOf(s)
    BY <2>1, <2>2, <2>3, <2>4
  <2>6. x # 0 => (req'[x].op = req[x].op /\ req'[x].via = req[x].via)
    BY <1>2 DEF Issuer, Steady
  <2>7. Issuer(x)'
    BY <1>2 DEF Issuer, Issues, Steady
  <2>8. RefreshOf(x)' = RefreshOf(x)
    BY <2>4, <2>5 DEF RefreshOf
  <2>9. TokenOf(x)' = TokenOf(x)
    BY <2>4, <2>5, <2>6 DEF TokenOf
  <2>. QED
    BY <2>7, <2>8, <2>9
<1>. QED
  BY <1>1, <1>2

LEMMA CallsStay ==
  ASSUME CallInv, Steady
  PROVE  CallInv'
<1>1. SUFFICES ASSUME NEW q \in AccountRequests PROVE CallSound(q)'
  BY DEF CallInv
<1>2. /\ req'[q].op = req[q].op /\ req'[q].session = req[q].session /\ req'[q].device = req[q].device
      /\ req'[q].token = req[q].token /\ req'[q].via = req[q].via
      /\ Account!Begun(q)' <=> Account!Begun(q)
      /\ ToRun(q)' \subseteq ToRun(q)
  BY DEF Steady
<1>3. \A s \in Account!Sessions : /\ SessionOf(s)' = SessionOf(s) /\ Account!DeviceOf(s)' = Account!DeviceOf(s)
                                  /\ Granted(s) => Granted(s)'
                                  /\ Started(s) => Started(s)'
  BY SteadyViews
<1>4. \A s : (Granted(s) => s \in Account!Sessions) /\ (Started(s) => s \in Account!Sessions)
  BY DEF Granted, Started, Account!Sessions
<1>5. PICK v, s, k : v = req[q].via /\ s = req[q].session /\ k = req[q].token
  OBVIOUS
<1>6. v = req'[q].via /\ s = req'[q].session /\ k = req'[q].token
  BY <1>2, <1>5
<1>7. CallSound(q)
  BY DEF CallInv
<1>8. ~Account!Begun(q)' => req'[q].op = "none"
  BY <1>2, <1>7 DEF CallSound
<1>9. req'[q].op \in {"register", "login"} => s = q
  BY <1>2, <1>5, <1>7 DEF CallSound
<1>10. req'[q].op = "refresh" =>
         Granted(v)' /\ k = v /\ SessionOf(v)' = s /\ Started(s)' /\ req'[q].device = Account!DeviceOf(s)'
  <2>1. req[q].op = "refresh" =>
          Granted(v) /\ k = v /\ SessionOf(v) = s /\ Started(s) /\ req[q].device = Account!DeviceOf(s)
    BY <1>5, <1>7 DEF CallSound
  <2>. QED
    BY <1>2, <1>3, <1>4, <2>1
<1>. QED
  BY <1>6, <1>8, <1>9, <1>10 DEF CallSound

LEMMA HasStays ==
  ASSUME CallInv, HasInv, Steady, has' = has
  PROVE  HasInv'
<1>1. SUFFICES ASSUME NEW s \in Account!Sessions PROVE HasSound(s)'
  BY DEF HasInv, Account!Sessions
<1>2. PICK x : x = has[s]
  OBVIOUS
<1>3. x # Account!NoToken => Granted(x) /\ SessionOf(x) = s /\ Started(s)
  BY <1>2 DEF HasInv, HasSound
<1>4. x # Account!NoToken => x \in Account!Sessions
  BY <1>3 DEF Granted, Account!Sessions
<1>5. x # Account!NoToken => Granted(x)' /\ SessionOf(x)' = s /\ Started(s)'
  BY <1>3, <1>4, SteadyViews
<1>6. x = has'[s] /\ Account!NoToken' = Account!NoToken
  BY <1>2 DEF Account!NoToken
<1>. QED
  BY <1>5, <1>6 DEF HasSound, Account!NoToken

(* A token stays the token of its request. *)
LEMMA TokensStay ==
  ASSUME CallInv, TokenInv, Steady
  PROVE  (\A t \in access : TokenSound(t)') /\ (\A f \in refreshes \cup deleted : RefreshSound(f)')
<1>1. ASSUME NEW t, TokenSound(t) PROVE TokenSound(t)'
  <2>1. PICK x : x = t.id
    OBVIOUS
  <2>2. /\ x \in Account!Sessions /\ t = TokenOf(x)
        /\ x # 0 => Account!Begun(x) /\ Issues(x) /\ "newToken" \notin ToRun(x)
    BY <1>1, <2>1 DEF TokenSound
  <2>3. Issuer(x)
    BY <2>2 DEF Issuer, Account!Sessions
  <2>4. TokenOf(x)' = TokenOf(x)
    BY <2>3, SteadyViews
  <2>5. x # 0 => Account!Begun(x)' /\ Issues(x)' /\ "newToken" \notin ToRun(x)'
    BY <2>2 DEF Account!Sessions, Steady, Issues
  <2>. QED
    BY <2>1, <2>2, <2>4, <2>5 DEF TokenSound, Account!Sessions
<1>2. ASSUME NEW f, RefreshSound(f) PROVE RefreshSound(f)'
  <2>1. PICK x : x = f.id
    OBVIOUS
  <2>2. /\ x \in Account!Sessions /\ f = RefreshOf(x)
        /\ x # 0 => Account!Begun(x) /\ Issues(x) /\ ToRun(x) = {}
    BY <1>2, <2>1 DEF RefreshSound
  <2>3. Issuer(x)
    BY <2>2 DEF Issuer, Account!Sessions
  <2>4. RefreshOf(x)' = RefreshOf(x)
    BY <2>3, SteadyViews
  <2>5. x # 0 => Account!Begun(x)' /\ Issues(x)' /\ ToRun(x)' = {}
    BY <2>2 DEF Account!Sessions, Steady, Issues
  <2>. QED
    BY <2>1, <2>2, <2>4, <2>5 DEF RefreshSound, Account!Sessions
<1>. QED
  BY <1>1, <1>2 DEF TokenInv

LEMMA OnceReadStays ==
  ASSUME OnceReadInv, Steady, raced' = raced
  PROVE  OnceReadInv'
BY DEF OnceReadInv, Steady, Account!NoToken

LEMMA ChainStays ==
  ASSUME CallInv, TokenInv, ChainInv, Steady, has' = has, raced' = raced, access' \subseteq access,
         \A p \in AccountRequests : /\ IsOpen(p)' /\ req[p].op = "refresh"
                                    /\ "dropAccess" \in ToRun(p) /\ "dropAccess" \notin ToRun(p)'
                                    => req[p].via \notin Ids(access)'
  PROVE  ChainInv'
<1>1. Ids(access)' \subseteq Ids(access)
  BY DEF Ids
<1>2. ASSUME NEW q \in AccountRequests PROVE ReplacedSound(q)'
  BY DEF ChainInv, ReplacedSound, Steady
<1>3. ASSUME NEW q \in AccountRequests PROVE DroppedSound(q)'
  <2>1. req'[q].op = req[q].op /\ req'[q].via = req[q].via /\ (IsOpen(q)' => IsOpen(q))
    BY DEF Steady
  <2>2. DroppedSound(q)
    BY DEF ChainInv
  <2>. QED
    BY <1>1, <2>1, <2>2 DEF DroppedSound
<1>4. ASSUME NEW t \in access' PROVE IssuedSound(t)'
  <2>1. IssuedSound(t)
    BY DEF ChainInv
  <2>2. t.id \in AccountRequests => req'[t.id].op = req[t.id].op /\ req'[t.id].via = req[t.id].via
    BY DEF Steady
  <2>. QED
    BY <2>1, <2>2 DEF IssuedSound, Account!NoToken
<1>. QED
  BY <1>2, <1>3, <1>4 DEF ChainInv

(* Of the tokens that a step takes away, and those it makes. *)
AccessLost ==
  \A x \in Account!Sessions : x \in Ids(access) /\ x \notin Ids(access)' =>
    Away(SessionOf(x))' \/ \E q \in AccountRequests : DropsAccess(q, x)'
RefreshLost ==
  \A x \in Account!Sessions : x \in Ids(refreshes) /\ x \notin Ids(refreshes)' =>
    Away(SessionOf(x))' \/ \E q \in AccountRequests : UsesRefresh(q, x)'
TokensMade ==
  \A p \in AccountRequests : IsOpen(p)' /\ Issues(p) =>
    /\ "newToken" \in ToRun(p) /\ "newToken" \notin ToRun(p)' => p \in Ids(access)'
    /\ HasRefresh(p)' => HasRefresh(p)
         \/ ("newToken" \notin ToRun(p) /\ "newRefresh" \in ToRun(p) /\ p \in Ids(refreshes)')
(* What the client of a session was given last is there. *)
Given(s) == has[s] \in Ids(access) /\ has[s] \in Ids(refreshes)
Troubles ==
  /\ ended \subseteq ended' /\ troubled \subseteq troubled'
  /\ \A p \in AccountRequests : \A s \in Account!Sessions : req[p].op = "refresh" /\ IsOpen(p) /\ ~IsOpen(p)'
       /\ req[p].session = s =>
       s \in ended' \cup troubled' \/ Given(s)'

LEMMA ClientsStay ==
  ASSUME CallInv, HasInv, ClientInv, Steady, AccessLost, RefreshLost, TokensMade, Troubles,
         \A s \in Account!Sessions : has'[s] = has[s] \/ s \in ended' \cup troubled' \/ Given(s)'
  PROVE  ClientInv'
<1>1. \A s : Away(s) => Away(s)'
  BY DEF Away, Troubles
<1>2. \A s \in Account!Sessions : SessionOf(s)' = SessionOf(s)
  BY SteadyViews
<1>3. \A x : \A q \in AccountRequests : DropsAccess(q, x) \/ UsesRefresh(q, x) =>
        x \in Account!Sessions /\ SessionOf(x) = req[q].session /\ Granted(x) /\ IsOpen(q) /\ req[q].op = "refresh"
  BY DEF DropsAccess, UsesRefresh, CallInv, CallSound, Granted, Account!Sessions
<1>4. \A x : \A q \in AccountRequests :
        /\ DropsAccess(q, x) /\ IsOpen(q)' => DropsAccess(q, x)'
        /\ UsesRefresh(q, x) /\ IsOpen(q)' => UsesRefresh(q, x)'
  BY DEF DropsAccess, UsesRefresh, Steady
<1>5. ASSUME NEW s \in Account!Sessions PROVE ClientSound(s)'
  <2>0. SUFFICES ASSUME ~Away(s)', ~Given(s)' PROVE ClientSound(s)'
    BY DEF ClientSound, Given
  <2>1. PICK x : x = has[s]
    OBVIOUS
  <2>2. x = has'[s]
    BY <2>0, <2>1 DEF Away
  <2>3. SUFFICES ASSUME x # Account!NoToken
        PROVE  /\ x \in Ids(access)' \/ \E q \in AccountRequests : DropsAccess(q, x)'
               /\ x \in Ids(refreshes)' \/ \E q \in AccountRequests : UsesRefresh(q, x)'
    BY <2>2 DEF ClientSound, Account!NoToken
  <2>4. ~Away(s) /\ x \in Account!Sessions /\ SessionOf(x) = s
    BY <1>1, <2>0, <2>1, <2>3 DEF HasInv, HasSound, Granted, Account!Sessions
  <2>5. /\ x \in Ids(access) \/ \E q \in AccountRequests : DropsAccess(q, x)
        /\ x \in Ids(refreshes) \/ \E q \in AccountRequests : UsesRefresh(q, x)
    BY <2>1, <2>3, <2>4 DEF ClientInv, ClientSound
  <2>6. ~Away(SessionOf(x))'
    BY <1>2, <2>0, <2>4 DEF Away
  <2>7. \A q \in AccountRequests : DropsAccess(q, x) \/ UsesRefresh(q, x) => IsOpen(q)'
    <3>1. s \notin ended' \cup troubled' /\ ~Given(s)'
      BY <2>0 DEF Away
    <3>. QED
      BY <1>3, <2>4, <3>1 DEF Troubles
  <2>8. x \in Ids(access)' \/ \E q \in AccountRequests : DropsAccess(q, x)'
    BY <1>4, <2>4, <2>5, <2>6, <2>7 DEF AccessLost
  <2>9. x \in Ids(refreshes)' \/ \E q \in AccountRequests : UsesRefresh(q, x)'
    BY <1>4, <2>4, <2>5, <2>6, <2>7 DEF RefreshLost
  <2>. QED
    BY <2>8, <2>9
<1>6. ASSUME NEW p \in AccountRequests PROVE TokensSent(p)'
  <2>1. /\ req'[p].op = req[p].op /\ req'[p].session = req[p].session /\ req'[p].via = req[p].via
        /\ (IsOpen(p)' => IsOpen(p)) /\ ToRun(p)' \subseteq ToRun(p)
    BY DEF Steady
  <2>2. PICK s : s = req[p].session /\ s = req'[p].session
    BY <2>1
  <2>3. SUFFICES ASSUME IsOpen(p)', Issues(p)', ~Away(s)'
        PROVE  /\ "newToken" \notin ToRun(p)' /\ "newRefresh" \in ToRun(p)' => p \in Ids(access)'
               /\ HasRefresh(p)' => p \in Ids(access)' /\ p \in Ids(refreshes)'
    BY <2>2 DEF TokensSent
  <2>4. IsOpen(p) /\ Issues(p) /\ ~Away(s) /\ p \in Account!Sessions /\ p # 0 /\ SessionOf(p) = s
    <3>1. p # 0
      BY AccountAssumption
    <3>. QED
      BY <1>1, <2>1, <2>2, <2>3, <3>1 DEF Issues, Account!Sessions, SessionOf
  <2>5. /\ "newToken" \notin ToRun(p) /\ "newRefresh" \in ToRun(p) => p \in Ids(access)
        /\ HasRefresh(p) => p \in Ids(access) /\ p \in Ids(refreshes)
    BY <2>2, <2>4 DEF ClientInv, TokensSent
  <2>6. ~Away(SessionOf(p))'
    BY <1>2, <2>3, <2>4 DEF Away
  <2>7. \A q \in AccountRequests : ~DropsAccess(q, p)' /\ ~UsesRefresh(q, p)'
    <3>1. SUFFICES ASSUME NEW q \in AccountRequests, DropsAccess(q, p)' \/ UsesRefresh(q, p)' PROVE FALSE
      OBVIOUS
    <3>2. req[q].op = "refresh" /\ req[q].via = p
      BY <3>1 DEF DropsAccess, UsesRefresh, Steady
    <3>3. Granted(p)
      BY <3>2 DEF CallInv, CallSound
    <3>. QED
      BY <2>4, <3>3 DEF Granted, IsOpen
  <2>8. (p \in Ids(access) => p \in Ids(access)') /\ (p \in Ids(refreshes) => p \in Ids(refreshes)')
    BY <2>4, <2>6, <2>7 DEF AccessLost, RefreshLost
  <2>. QED
    BY <2>1, <2>3, <2>4, <2>5, <2>8 DEF TokensMade
<1>. QED
  BY <1>5, <1>6 DEF ClientInv, Account!Sessions

(* A step that issues nothing and drops no device. *)
LEMMA DevicesStay ==
  ASSUME DeviceInv, Steady, access' \subseteq access, devices \subseteq devices', late \subseteq late',
         \A r \in AccountRequests :
           /\ Account!At(r, "dropDevice")' => Account!At(r, "dropDevice") \/ \A t \in access' : t.device # req[r].device
           /\ Account!At(r, "dropDevices")' => Account!At(r, "dropDevices") \/ access' = {}
  PROVE  DeviceInv'
BY DEF DeviceInv, Account!SessionsHaveDevices, Steady

(* What a step leaves that only takes tokens away. *)
LEMMA CoreStays ==
  ASSUME AccountCore, Steady, CallTypes', has' = has, raced' = raced, access' \subseteq access,
         refreshes' \cup deleted' \subseteq refreshes \cup deleted,
         \A p \in AccountRequests : /\ IsOpen(p)' /\ req[p].op = "refresh"
                                    /\ "dropAccess" \in ToRun(p) /\ "dropAccess" \notin ToRun(p)'
                                    => req[p].via \notin Ids(access)',
         AccessLost, RefreshLost, TokensMade, Troubles
  PROVE  AccountCore'
<1>1. AccountTypes /\ CallInv /\ HasInv /\ TokenInv /\ OnceReadInv /\ ChainInv /\ ClientInv
  BY DEF AccountCore
<1>2. AccountTypes'
  BY <1>1 DEF AccountTypes, CallTypes, Account!Sessions, Account!NoToken
<1>3. CallInv'
  BY <1>1, CallsStay
<1>4. HasInv'
  BY <1>1, HasStays
<1>5. TokenInv'
  BY <1>1, TokensStay DEF TokenInv
<1>6. OnceReadInv'
  BY <1>1, OnceReadStays
<1>7. ChainInv'
  BY <1>1, ChainStays
<1>8. ClientInv'
  BY <1>1, ClientsStay
<1>. QED
  BY <1>2, <1>3, <1>4, <1>5, <1>6, <1>7, <1>8 DEF AccountCore

LEMMA RanMakesNone ==
  ASSUME AccountTypes, NEW q \in AccountRequests, NEW h, Account!At(q, h), Account!Ran(q),
         h \notin {"newToken", "newRefresh"},
         Ids(refreshes \cup deleted)' \subseteq Ids(refreshes \cup deleted)
  PROVE  TokensMade
<1>1. /\ OthersWait(q) /\ ToRun(q)' = Later(q) /\ ToRun(q) = {h} \cup Later(q)
      /\ AccountAt(req[q].op, h, Later(q)) /\ Steady
  BY AtIs, RanIs
<1>2. SUFFICES ASSUME NEW p \in AccountRequests
      PROVE  /\ "newToken" \in ToRun(p) /\ "newToken" \notin ToRun(p)' => p \in Ids(access)'
             /\ HasRefresh(p)' => HasRefresh(p)
  BY DEF TokensMade
<1>3. req'[p].op = req[p].op
  BY <1>1 DEF Steady
<1>4. CASE p = q
  <2>1. req[p].op = "refresh" => Later(q) # {}
    BY <1>1, <1>4 DEF AccountAt
  <2>. QED
    BY <1>1, <1>3, <1>4, <2>1 DEF HasRefresh
<1>5. CASE p # q
  <2>1. ToRun(p)' = ToRun(p)
    BY <1>1, <1>5 DEF OthersWait
  <2>. QED
    BY <1>3, <2>1 DEF HasRefresh
<1>. QED
  BY <1>4, <1>5

LEMMA RanDropsNone ==
  ASSUME AccountTypes, NEW q \in AccountRequests, NEW h, Account!At(q, h), Account!Ran(q), h # "dropAccess"
  PROVE  \A p \in AccountRequests : /\ IsOpen(p)' /\ req[p].op = "refresh"
                                    /\ "dropAccess" \in ToRun(p) /\ "dropAccess" \notin ToRun(p)'
                                    => req[p].via \notin Ids(access)'
<1>1. OthersWait(q) /\ ToRun(q)' = Later(q) /\ ToRun(q) = {h} \cup Later(q)
  BY AtIs, RanIs
<1>. QED
  BY <1>1 DEF OthersWait

LEMMA RanTroubles ==
  ASSUME AccountTypes, NEW q \in AccountRequests, NEW h, Account!At(q, h), Account!Ran(q), ended \subseteq ended',
         troubled' = troubled
  PROVE  Troubles
<1>1. OthersWait(q) /\ IsOpen(q)'
  BY RanIs
<1>. QED
  BY <1>1 DEF OthersWait, Troubles

(* What a request is at after its step. *)
LEMMA NextAt ==
  ASSUME AccountTypes, NEW q \in AccountRequests, NEW h, Account!At(q, h), Account!Ran(q)
  PROVE  /\ \A x : \A p \in AccountRequests : Account!At(p, x)' => Account!At(p, x) \/ (p = q /\ x \in Later(q))
         /\ \A p \in AccountRequests : req'[p].device = req[p].device
<1>1. OthersWait(q) /\ ToRun(q)' = Later(q) /\ CallTypes' /\ Steady
  BY RanIs
<1>2. ASSUME NEW x, Account!At(q, x)' PROVE x \in Later(q)
  <2>1. req'[q].op \in {"none", "register", "login", "refresh"} /\ AccountTodo(req'[q].op, req'[q].todo)
    BY <1>1 DEF CallTypes, AccountCalls
  <2>2. req'[q].todo # <<>> /\ Head(req'[q].todo) = x
    BY <1>2 DEF Account!At
  <2>3. Items(req'[q].todo) = {Head(req'[q].todo)} \cup Items(Tail(req'[q].todo))
    BY <2>1, <2>2, AccountShape
  <2>. QED
    BY <1>1, <2>2, <2>3 DEF ToRun
<1>3. \A p \in AccountRequests \ {q} : \A x : Account!At(p, x)' => Account!At(p, x)
  BY <1>1 DEF OthersWait, Account!At
<1>. QED
  BY <1>1, <1>2, <1>3 DEF Steady

(* Steps that take tokens away. *)
LEMMA RanCore ==
  ASSUME AccountCore, NEW q \in AccountRequests, NEW h, Account!At(q, h), Account!Ran(q),
         h \notin {"newToken", "newRefresh"},
         has' = has, raced' = raced, troubled' = troubled, ended \subseteq ended', access' \subseteq access,
         refreshes' \cup deleted' \subseteq refreshes \cup deleted,
         h = "dropAccess" => req[q].via \notin Ids(access)',
         AccessLost, RefreshLost
  PROVE  AccountCore'
<1>1. AccountTypes
  BY DEF AccountCore
<1>2. CallTypes' /\ Steady /\ OthersWait(q)
  BY <1>1, RanIs
<1>3. Ids(refreshes \cup deleted)' \subseteq Ids(refreshes \cup deleted)
  BY DEF Ids
<1>4. TokensMade
  BY <1>1, <1>3, RanMakesNone
<1>5. Troubles
  BY <1>1, RanTroubles
<1>6. \A p \in AccountRequests : /\ IsOpen(p)' /\ req[p].op = "refresh"
                                 /\ "dropAccess" \in ToRun(p) /\ "dropAccess" \notin ToRun(p)'
                                 => req[p].via \notin Ids(access)'
  <2>1. CASE h = "dropAccess"
    BY <1>2, <2>1 DEF OthersWait
  <2>2. CASE h # "dropAccess"
    BY <1>1, <2>2, RanDropsNone
  <2>. QED
    BY <2>1, <2>2
<1>. QED
  BY <1>2, <1>4, <1>5, <1>6, CoreStays

LEMMA RanDevices ==
  ASSUME AccountTypes, DeviceInv, NEW q \in AccountRequests, NEW h, Account!At(q, h), Account!Ran(q),
         access' \subseteq access, devices \subseteq devices', late \subseteq late',
         h = "endDevice" => \A t \in access' : t.device # req[q].device,
         h = "endAll" => access' = {}
  PROVE  DeviceInv'
<1>1. Steady /\ AccountAt(req[q].op, h, Later(q))
  BY RanIs, AtIs
<1>2. \A x : \A p \in AccountRequests : Account!At(p, x)' => Account!At(p, x) \/ (p = q /\ x \in Later(q))
  BY NextAt
<1>3. ("dropDevice" \in Later(q) => h = "endDevice") /\ ("dropDevices" \in Later(q) => h = "endAll")
  BY <1>1 DEF AccountAt
<1>4. \A r \in AccountRequests :
        /\ Account!At(r, "dropDevice")' => Account!At(r, "dropDevice") \/ \A t \in access' : t.device # req[r].device
        /\ Account!At(r, "dropDevices")' => Account!At(r, "dropDevices") \/ access' = {}
  BY <1>2, <1>3
<1>. QED
  BY <1>1, <1>4, DevicesStay

LEMMA QuietRan ==
  ASSUME AccountInd, NEW q \in AccountRequests,
         NEW h \in {"newUser", "useToken", "putToken", "checkUser", "newDevice", "deactivate", "reactivate"},
         Account!At(q, h), Account!Ran(q), devices \subseteq devices',
         UNCHANGED <<access, refreshes, deleted, has, ended, troubled, raced, late>>
  PROVE  AccountInd'
<1>1. AccountCore /\ AccountTypes /\ DeviceInv
  BY DEF AccountInd, AccountCore
<1>2. AccessLost /\ RefreshLost
  BY DEF AccessLost, RefreshLost, Ids
<1>3. AccountCore'
  BY <1>1, <1>2, RanCore
<1>4. DeviceInv'
  BY <1>1, RanDevices
<1>. QED
  BY <1>3, <1>4 DEF AccountInd

(* A request that ends before its answer. *)
LEMMA EndStays ==
  ASSUME AccountInd, NEW q \in AccountRequests, IsOpen(q), Account!Throws(q), devices \subseteq devices',
         late \subseteq late',
         UNCHANGED <<access, refreshes, deleted, has, ended, raced>>
  PROVE  AccountInd'
<1>1. AccountCore /\ AccountTypes /\ DeviceInv
  BY DEF AccountInd, AccountCore
<1>2. CallTypes' /\ Steady /\ OthersWait(q) /\ ToRun(q)' = {} /\ ~IsOpen(q)'
  BY <1>1, EndIs DEF Account!Throws
<1>3. AccessLost /\ RefreshLost
  BY DEF AccessLost, RefreshLost, Ids
<1>4. TokensMade
  BY <1>2 DEF TokensMade, OthersWait, HasRefresh, Steady
<1>5. Troubles
  BY <1>2 DEF Troubles, OthersWait, Account!Throws, Account!Lost
<1>6. AccountCore'
  BY <1>1, <1>2, <1>3, <1>4, <1>5, CoreStays DEF OthersWait
<1>7. \A x : \A p \in AccountRequests : Account!At(p, x)' => Account!At(p, x)
  BY <1>2 DEF Account!At, OthersWait, IsOpen
<1>8. DeviceInv'
  BY <1>1, <1>2, <1>7, DevicesStay
<1>. QED
  BY <1>6, <1>8 DEF AccountInd

LEMMA StopStays == ASSUME AccountInd, NEW q \in AccountRequests, Account!Stop(q) PROVE AccountInd'
BY EndStays DEF Account!Stop, IsOpen

LEMMA NewUserStays == ASSUME AccountInd, NEW q \in AccountRequests, Account!NewUser(q) PROVE AccountInd'
<1>1. /\ Account!At(q, "newUser") /\ IsOpen(q)
      /\ UNCHANGED <<devices, access, refreshes, deleted, has, ended, raced, late>>
  BY DEF Account!NewUser, Account!At, IsOpen
<1>2. CASE Account!Throws(q)
  BY <1>1, <1>2, EndStays
<1>3. CASE Account!Ran(q) /\ UNCHANGED troubled
  BY <1>1, <1>3, QuietRan
<1>. QED
  BY <1>2, <1>3 DEF Account!NewUser, Account!Unless

LEMMA CheckUserStays == ASSUME AccountInd, NEW q \in AccountRequests, Account!CheckUser(q) PROVE AccountInd'
<1>1. /\ Account!At(q, "checkUser") /\ IsOpen(q)
      /\ UNCHANGED <<devices, access, refreshes, deleted, has, ended, raced, late>>
  BY DEF Account!CheckUser, Account!At, IsOpen
<1>2. CASE Account!Throws(q)
  BY <1>1, <1>2, EndStays
<1>3. CASE Account!Ran(q) /\ UNCHANGED troubled
  BY <1>1, <1>3, QuietRan
<1>. QED
  BY <1>2, <1>3 DEF Account!CheckUser, Account!Unless

LEMMA NewDeviceStays == ASSUME AccountInd, NEW q \in AccountRequests, Account!NewDevice(q) PROVE AccountInd'
<1>1. /\ Account!At(q, "newDevice") /\ IsOpen(q) /\ UNCHANGED <<access, refreshes, deleted, has, ended, raced, late>>
      /\ devices \subseteq devices'
  BY DEF Account!NewDevice, Account!At, IsOpen
<1>2. CASE Account!Throws(q)
  BY <1>1, <1>2, EndStays
<1>3. CASE Account!Ran(q) /\ UNCHANGED troubled
  BY <1>1, <1>3, QuietRan
<1>. QED
  BY <1>2, <1>3 DEF Account!NewDevice, Account!Unless

LEMMA TokenSteps ==
  ASSUME AccountInd, NEW q \in AccountRequests, Account!UseToken(q) \/ Account!PutToken(q)
  PROVE  AccountInd'
<1>1. CASE Account!UseToken(q)
  <2>1. /\ Account!At(q, "useToken") /\ Account!Ran(q) /\ devices \subseteq devices'
        /\ UNCHANGED <<access, refreshes, deleted, has, ended, troubled, raced, late>>
    BY <1>1 DEF Account!UseToken
  <2>. QED
    BY <2>1, QuietRan
<1>2. CASE Account!PutToken(q)
  <2>1. /\ Account!At(q, "putToken") /\ Account!Ran(q) /\ devices \subseteq devices'
        /\ UNCHANGED <<access, refreshes, deleted, has, ended, troubled, raced, late>>
    BY <1>2 DEF Account!PutToken
  <2>. QED
    BY <2>1, QuietRan
<1>. QED
  BY <1>1, <1>2

LEMMA SetActiveStays ==
  ASSUME AccountInd, NEW q \in AccountRequests, NEW h \in {"deactivate", "reactivate"}, NEW to,
         Account!SetActive(q, h, to)
  PROVE  AccountInd'
<1>1. /\ Account!At(q, h) /\ Account!Ran(q) /\ devices \subseteq devices'
      /\ UNCHANGED <<access, refreshes, deleted, has, ended, troubled, raced, late>>
  BY DEF Account!SetActive
<1>. QED
  BY <1>1, QuietRan

(* Whose a token is. *)
LEMMA AccessIs ==
  ASSUME CallInv, TokenInv, NEW t \in access
  PROVE  /\ t.id \in Account!Sessions /\ Issuer(t.id) /\ SessionOf(t.id) \in Account!Sessions
         /\ t.session = SessionOf(t.id) /\ t.device = Account!DeviceOf(SessionOf(t.id)) /\ t = TokenOf(t.id)
<1>1. /\ t.id \in Account!Sessions /\ t = TokenOf(t.id) /\ (t.id # 0 => Issues(t.id))
  BY DEF TokenInv, TokenSound
<1>2. Issuer(t.id)
  BY <1>1 DEF Issuer, Account!Sessions
<1>3. SessionOf(t.id) \in Account!Sessions
  BY <1>2, IssuerHasSession
<1>4. TokenOf(t.id).session = SessionOf(t.id) /\ TokenOf(t.id).device = Account!DeviceOf(SessionOf(t.id))
  BY DEF TokenOf
<1>. QED
  BY <1>1, <1>2, <1>3, <1>4

LEMMA RefreshIs ==
  ASSUME CallInv, TokenInv, NEW f \in refreshes \cup deleted
  PROVE  /\ f.id \in Account!Sessions /\ Issuer(f.id) /\ SessionOf(f.id) \in Account!Sessions
         /\ f.session = SessionOf(f.id) /\ f.device = Account!DeviceOf(SessionOf(f.id)) /\ f.access = f.id
<1>1. /\ f.id \in Account!Sessions /\ f = RefreshOf(f.id) /\ (f.id # 0 => Issues(f.id))
  BY DEF TokenInv, RefreshSound
<1>2. Issuer(f.id)
  BY <1>1 DEF Issuer, Account!Sessions
<1>3. SessionOf(f.id) \in Account!Sessions
  BY <1>2, IssuerHasSession
<1>4. /\ RefreshOf(f.id).session = SessionOf(f.id) /\ RefreshOf(f.id).device = Account!DeviceOf(SessionOf(f.id))
      /\ RefreshOf(f.id).access = f.id
  BY DEF RefreshOf
<1>. QED
  BY <1>1, <1>2, <1>3, <1>4

(* A refresh replaces the tokens of its session. *)
LEMMA UseRefreshStays == ASSUME AccountInd, NEW q \in AccountRequests, Account!UseRefresh(q) PROVE AccountInd'
<1>1. AccountCore /\ AccountTypes /\ CallInv /\ DeviceInv
  BY DEF AccountInd, AccountCore
<1>2. /\ Account!At(q, "useRefresh") /\ Account!Ran(q)
      /\ UNCHANGED <<devices, access, has, ended, troubled, raced, late>>
      /\ refreshes' = {f \in refreshes : f.id # req[q].via}
      /\ deleted' = deleted \cup {f \in refreshes : f.id = req[q].via}
  BY DEF Account!UseRefresh
<1>3. /\ AccountAt(req[q].op, "useRefresh", Later(q)) /\ Steady /\ ToRun(q)' = Later(q) /\ IsOpen(q)'
  BY <1>1, <1>2, AtIs, RanIs
<1>4. req'[q].op = "refresh" /\ "useRefresh" \notin ToRun(q)' /\ req'[q].via = req[q].via
  BY <1>3 DEF AccountAt, Steady
<1>5. AccessLost
  BY <1>2 DEF AccessLost, Ids
<1>6. RefreshLost
  <2>1. ASSUME NEW x \in Account!Sessions, x \in Ids(refreshes), x \notin Ids(refreshes)' PROVE x = req[q].via
    BY <1>2, <2>1 DEF Ids
  <2>2. ASSUME NEW x, x = req[q].via PROVE UsesRefresh(q, x)'
    BY <1>3, <1>4, <2>2 DEF UsesRefresh
  <2>. QED
    BY <2>1, <2>2 DEF RefreshLost
<1>7. AccountCore'
  BY <1>1, <1>2, <1>5, <1>6, RanCore
<1>8. DeviceInv'
  BY <1>1, <1>2, RanDevices
<1>. QED
  BY <1>7, <1>8 DEF AccountInd

LEMMA DropAccessStays == ASSUME AccountInd, NEW q \in AccountRequests, Account!DropAccess(q) PROVE AccountInd'
<1>1. AccountCore /\ AccountTypes /\ CallInv /\ DeviceInv
  BY DEF AccountInd, AccountCore
<1>2. /\ Account!At(q, "dropAccess") /\ Account!Ran(q)
      /\ UNCHANGED <<devices, refreshes, deleted, has, ended, troubled, raced, late>>
      /\ access' = {t \in access : t.id # req[q].token}
  BY DEF Account!DropAccess
<1>3. /\ AccountAt(req[q].op, "dropAccess", Later(q)) /\ Steady /\ ToRun(q)' = Later(q) /\ IsOpen(q)'
  BY <1>1, <1>2, AtIs, RanIs
<1>4. /\ req'[q].op = "refresh" /\ "dropAccess" \notin ToRun(q)' /\ req'[q].via = req[q].via
      /\ req[q].token = req[q].via
  BY <1>1, <1>3 DEF AccountAt, Steady, CallInv, CallSound
<1>5. RefreshLost
  BY <1>2 DEF RefreshLost, Ids
<1>6. AccessLost
  <2>1. ASSUME NEW x \in Account!Sessions, x \in Ids(access), x \notin Ids(access)' PROVE x = req[q].via
    BY <1>2, <1>4, <2>1 DEF Ids
  <2>2. ASSUME NEW x, x = req[q].via PROVE DropsAccess(q, x)'
    BY <1>3, <1>4, <2>2 DEF DropsAccess
  <2>. QED
    BY <2>1, <2>2 DEF AccessLost
<1>7. req[q].via \notin Ids(access)'
  BY <1>2, <1>4 DEF Ids
<1>8. AccountCore'
  BY <1>1, <1>2, <1>5, <1>6, <1>7, RanCore
<1>9. DeviceInv'
  BY <1>1, <1>2, RanDevices
<1>. QED
  BY <1>8, <1>9 DEF AccountInd

(* The statements that end sessions. *)
LEMMA EndsCore ==
  ASSUME AccountCore, NEW q \in AccountRequests, NEW h, NEW over, Account!Ends(q, over, h),
         h \notin {"newToken", "newRefresh", "dropAccess"},
         access' \subseteq access, access \ access' \subseteq over
  PROVE  AccountCore'
<1>1. AccountTypes /\ CallInv /\ TokenInv
  BY DEF AccountCore
<1>2. /\ Account!At(q, h) /\ Account!Ran(q) /\ ended' = ended \cup {t.session : t \in over}
      /\ UNCHANGED <<refreshes, deleted, has, troubled, raced>>
  BY DEF Account!Ends
<1>3. Steady
  BY <1>1, <1>2, RanIs
<1>4. RefreshLost
  BY <1>2 DEF RefreshLost, Ids
<1>5. AccessLost
  <2>1. SUFFICES ASSUME NEW x \in Account!Sessions, x \in Ids(access), x \notin Ids(access)' PROVE Away(SessionOf(x))'
    BY DEF AccessLost
  <2>2. PICK t \in access : t.id = x /\ t \in over
    BY <2>1 DEF Ids
  <2>4. t.session = SessionOf(x)
    BY <1>1, <2>2, AccessIs
  <2>3. SessionOf(x)' = SessionOf(x)
    BY <1>1, <1>3, SteadyViews
  <2>. QED
    BY <1>2, <2>2, <2>3, <2>4 DEF Away
<1>. QED
  BY <1>1, <1>2, <1>4, <1>5, RanCore

LEMMA EndOneStays == ASSUME AccountInd, NEW q \in AccountRequests, Account!EndOne(q) PROVE AccountInd'
<1>1. AccountCore /\ AccountTypes /\ CallInv /\ DeviceInv
  BY DEF AccountInd, AccountCore
<1>2. /\ Account!Ends(q, {t \in access : t.id = req[q].token}, "endOne")
      /\ access' = {t \in access : t.id # req[q].token}
      /\ devices' = devices
      /\ Account!At(q, "endOne") /\ Account!Ran(q) /\ late' = late
  BY DEF Account!EndOne, Account!Ends
<1>3. access' \subseteq access /\ access \ access' \subseteq {t \in access : t.id = req[q].token}
  BY <1>2
<1>4. AccountCore'
  BY <1>1, <1>2, <1>3, EndsCore
<1>5. DeviceInv'
  BY <1>1, <1>2, RanDevices
<1>. QED
  BY <1>4, <1>5 DEF AccountInd

LEMMA EndAllStays == ASSUME AccountInd, NEW q \in AccountRequests, Account!EndAll(q) \/ Account!DropUser(q)
                     PROVE AccountInd'
<1>1. AccountCore /\ CallInv /\ TokenInv
  BY DEF AccountInd, AccountCore
<1>2. access' = {} /\ \E h \in {"endAll", "dropUser"} : Account!Ends(q, access, h)
  BY DEF Account!EndAll, Account!DropUser
<1>4. AccountCore'
  <2>1. PICK h \in {"endAll", "dropUser"} : Account!Ends(q, access, h)
    BY <1>2
  <2>. QED
    BY <1>1, <1>2, <2>1, EndsCore
<1>5. DeviceInv'
  BY <1>2 DEF DeviceInv, Account!SessionsHaveDevices
<1>. QED
  BY <1>4, <1>5 DEF AccountInd

LEMMA EndDeviceStays == ASSUME AccountInd, NEW q \in AccountRequests, Account!EndDevice(q) PROVE AccountInd'
<1>1. AccountCore /\ AccountTypes /\ CallInv /\ TokenInv /\ DeviceInv
  BY DEF AccountInd, AccountCore
<1>2. /\ Account!Ends(q, {t \in access : t.device = req[q].device}, "endDevice")
      /\ devices' = devices
      /\ access' = {t \in access : t.device # req[q].device}
      /\ Account!At(q, "endDevice") /\ Account!Ran(q) /\ late' = late
  BY DEF Account!EndDevice, Account!Ends
<1>3. access' \subseteq access /\ access \ access' \subseteq {t \in access : t.device = req[q].device}
  BY <1>2
<1>4. AccountCore'
  BY <1>1, <1>2, <1>3, EndsCore
<1>5. DeviceInv'
  BY <1>1, <1>2, RanDevices
<1>. QED
  BY <1>4, <1>5 DEF AccountInd

(* A device goes when nobody has a token of it, but one issued late. *)
LEMMA DropDeviceStays == ASSUME AccountInd, NEW q \in AccountRequests, Account!DropDevice(q)
    \/ Account!DropDevices(q) PROVE AccountInd'
<1>1. AccountCore /\ AccountTypes /\ DeviceInv
  BY DEF AccountInd, AccountCore
<1>2. PICK h \in {"dropDevice", "dropDevices"} :
        /\ Account!At(q, h) /\ Account!Ran(q)
        /\ devices' = IF h = "dropDevice" THEN devices \ {req[q].device} ELSE {}
        /\ UNCHANGED <<access, refreshes, deleted, has, ended, troubled, raced, late>>
  BY DEF Account!DropDevice, Account!DropDevices
<1>3. AccessLost /\ RefreshLost
  BY <1>2 DEF AccessLost, RefreshLost, Ids
<1>4. AccountCore'
  BY <1>1, <1>2, <1>3, RanCore
<1>5. \A x \in {"dropDevice", "dropDevices"} : \A p \in AccountRequests : Account!At(p, x)' => Account!At(p, x)
  <2>1. AccountAt(req[q].op, h, Later(q))
    BY <1>1, <1>2, AtIs
  <2>2. \A x : \A p \in AccountRequests : Account!At(p, x)' => Account!At(p, x) \/ (p = q /\ x \in Later(q))
    BY <1>1, <1>2, NextAt
  <2>. QED
    BY <2>1, <2>2 DEF AccountAt
<1>6. \A p \in AccountRequests : req'[p].device = req[p].device
  BY <1>1, <1>2, NextAt
<1>7. Account!SessionsHaveDevices'
  BY <1>1, <1>2 DEF DeviceInv, Account!SessionsHaveDevices
<1>8. DeviceInv'
  BY <1>1, <1>2, <1>5, <1>6, <1>7 DEF DeviceInv
<1>. QED
  BY <1>4, <1>8 DEF AccountInd

(* A token lapses in KV. *)
LEMMA LapseStays == ASSUME AccountInd, Account!Lapse PROVE AccountInd'
<1>1. AccountCore /\ AccountTypes /\ CallInv /\ TokenInv /\ DeviceInv
  BY DEF AccountInd, AccountCore
<1>2. /\ UNCHANGED <<devices, access, deleted, req, has, ended, raced, late>>
      /\ \/ UNCHANGED <<refreshes, troubled>>
         \/ \E f \in refreshes : refreshes' = refreshes \ {f} /\ troubled' = troubled \cup {f.session}
  BY DEF Account!Lapse
<1>3. Steady /\ CallTypes'
  <2>1. \A q \in AccountRequests : (IsOpen(q)' <=> IsOpen(q)) /\ (Account!Begun(q)' <=> Account!Begun(q))
           /\ ToRun(q)' = ToRun(q)
    BY <1>2 DEF IsOpen, Account!Begun, ToRun
  <2>2. Steady
    BY <1>2, <2>1 DEF Steady
  <2>3. CallTypes'
    BY <1>1, <1>2 DEF AccountTypes, CallTypes
  <2>. QED
    BY <2>2, <2>3
<1>4. /\ refreshes' \subseteq refreshes /\ troubled \subseteq troubled'
      /\ \A f \in refreshes : f \notin refreshes' => f.session \in troubled'
  BY <1>2
<1>5. AccessLost
  BY <1>2 DEF AccessLost, Ids
<1>6. RefreshLost
  <2>1. SUFFICES ASSUME NEW x \in Account!Sessions, x \in Ids(refreshes), x \notin Ids(refreshes)'
                 PROVE Away(SessionOf(x))'
    BY DEF RefreshLost
  <2>2. PICK f \in refreshes : f.id = x /\ f \notin refreshes'
    BY <2>1 DEF Ids
  <2>3. f.session = SessionOf(x)
    BY <1>1, <2>2, RefreshIs
  <2>4. SessionOf(x)' = SessionOf(x)
    BY <1>2 DEF SessionOf
  <2>. QED
    BY <1>4, <2>2, <2>3, <2>4 DEF Away
<1>7. \A p \in AccountRequests : ToRun(p)' = ToRun(p) /\ (IsOpen(p)' <=> IsOpen(p))
  BY <1>2 DEF ToRun, IsOpen
<1>8. TokensMade
  <2>1. \A p \in AccountRequests : HasRefresh(p)' => HasRefresh(p)
    BY <1>2, <1>4, <1>7 DEF HasRefresh, Ids
  <2>. QED
    BY <1>7, <2>1 DEF TokensMade
<1>9. Troubles
  BY <1>2, <1>4, <1>7 DEF Troubles
<1>10. AccountCore'
  BY <1>1, <1>2, <1>3, <1>4, <1>5, <1>6, <1>7, <1>8, <1>9, CoreStays
<1>11. \A x : \A p \in AccountRequests : Account!At(p, x)' => Account!At(p, x)
  BY <1>2 DEF Account!At
<1>12. DeviceInv'
  BY <1>1, <1>2, <1>3, <1>11, DevicesStay
<1>. QED
  BY <1>10, <1>12 DEF AccountInd

(* A request that issues a token. *)
LEMMA IssuerIs ==
  ASSUME AccountTypes, CallInv, NEW q \in AccountRequests, IsOpen(q), Issues(q)
  PROVE  /\ q # 0 /\ q \in Account!Sessions /\ Issuer(q) /\ Account!Begun(q) /\ SessionOf(q) = req[q].session
         /\ req[q].session \in Account!Sessions /\ req[q].device = Account!DeviceOf(req[q].session)
         /\ \A x : Granted(x) => x # q
<1>1. q # 0 /\ 0 \notin AccountRequests
  BY AccountAssumption
<1>2. Account!Begun(q) /\ q \in Account!Sessions /\ Issuer(q)
  BY DEF IsOpen, Account!Begun, Account!Sessions, Issuer
<1>3. SessionOf(q) = req[q].session /\ req[q].session \in Account!Sessions
  BY <1>1, <1>2, IssuerHasSession DEF SessionOf
<1>4. req[q].device = Account!DeviceOf(req[q].session)
  <2>1. CASE req[q].op \in {"register", "login"}
    BY <1>1, <2>1 DEF CallInv, CallSound, Account!DeviceOf
  <2>2. CASE req[q].op = "refresh"
    BY <2>2 DEF CallInv, CallSound
  <2>. QED
    BY <2>1, <2>2 DEF Issues
<1>5. \A x : Granted(x) => x # q
  BY <1>1 DEF Granted, IsOpen
<1>. QED
  BY <1>1, <1>2, <1>3, <1>4, <1>5

(* What a session began with, as long as its request is open. *)
LEMMA NotStarted ==
  ASSUME CallInv, HasInv, NEW q \in AccountRequests, IsOpen(q), req[q].op \in {"register", "login"}
  PROVE  has[q] = Account!NoToken /\ req[q].session = q
<1>1. q # 0 /\ q \in Account!Sessions
  BY AccountAssumption DEF Account!Sessions
<1>2. ~Started(q)
  BY <1>1 DEF Started, IsOpen
<1>. QED
  BY <1>1, <1>2 DEF HasInv, HasSound, CallInv, CallSound

LEMMA NewTokenStays == ASSUME AccountInd, NEW q \in AccountRequests, Account!NewToken(q) PROVE AccountInd'
<1>1. AccountCore /\ AccountTypes /\ CallInv /\ HasInv /\ TokenInv /\ OnceReadInv /\ ChainInv /\ ClientInv /\ DeviceInv
  BY DEF AccountInd, AccountCore
<1>2. /\ Account!At(q, "newToken") /\ IsOpen(q)
      /\ UNCHANGED <<devices, refreshes, deleted, has, ended, raced>> /\ late \subseteq late'
  BY DEF Account!NewToken, Account!At, IsOpen
<1>3. CASE user = "absent"
  <2>1. Account!Throws(q) /\ access' = access
    BY <1>3 DEF Account!NewToken, Account!Unless
  <2>. QED
    BY <1>2, <2>1, EndStays
<1>4. CASE user # "absent"
  <2>. DEFINE tok == [id |-> q, session |-> req[q].session, device |-> req[q].device,
                      via |-> IF req[q].op = "login" THEN req[q].via ELSE Account!NoToken]
  <2>1. /\ Account!Ran(q) /\ troubled' = troubled /\ access' = access \cup {tok}
        /\ (Account!Going(req[q].device) => q \in late')
    BY <1>4 DEF Account!NewToken, Account!Unless
  <2>2. PICK t : t = tok
    OBVIOUS
  <2>3. access' = access \cup {t} /\ t.id = q /\ t.session = req[q].session /\ t.device = req[q].device
    BY <2>1, <2>2
  <2>4. /\ AccountAt(req[q].op, "newToken", Later(q)) /\ ToRun(q) = {"newToken"} \cup Later(q)
        /\ Steady /\ ToRun(q)' = Later(q) /\ IsOpen(q)' /\ OthersWait(q) /\ CallTypes'
    BY <1>1, <1>2, <2>1, AtIs, RanIs
  <2>5. Issues(q) /\ Later(q) = {"newRefresh"}
    BY <2>4 DEF AccountAt, Issues
  <2>6. /\ q # 0 /\ q \in Account!Sessions /\ Issuer(q) /\ Account!Begun(q) /\ SessionOf(q) = req[q].session
        /\ req[q].session \in Account!Sessions /\ req[q].device = Account!DeviceOf(req[q].session)
        /\ \A x : Granted(x) => x # q
    BY <1>1, <1>2, <2>5, IssuerIs
  <2>7. t = TokenOf(q)
    BY <2>2, <2>6 DEF TokenOf
  <2>. HIDE DEF tok
  <2>8. TokenInv'
    <3>1. (\A u \in access : TokenSound(u)') /\ (\A f \in refreshes \cup deleted : RefreshSound(f)')
      BY <1>1, <2>4, TokensStay
    <3>2. TokenOf(q)' = TokenOf(q)
      BY <1>1, <2>4, <2>6, SteadyViews
    <3>3. Account!Begun(q)' /\ Issues(q)' /\ "newToken" \notin ToRun(q)'
      BY <2>4, <2>5, <2>6 DEF Steady, Issues
    <3>4. TokenSound(t)'
      <4>1. PICK x : x = q
        OBVIOUS
      <4>2. t.id = x /\ x \in Account!Sessions /\ t = TokenOf(x)'
        BY <2>3, <2>6, <2>7, <3>2, <4>1
      <4>3. x # 0 => Account!Begun(x)' /\ Issues(x)' /\ "newToken" \notin ToRun(x)'
        BY <3>3, <4>1
      <4>. QED
        BY <4>2, <4>3 DEF TokenSound, Account!Sessions
    <3>. QED
      BY <1>2, <2>3, <3>1, <3>4 DEF TokenInv
  <2>9. Ids(access)' = Ids(access) \cup {q}
    BY <2>3 DEF Ids
  <2>10. \A p \in AccountRequests : /\ req'[p].op = req[p].op /\ req'[p].via = req[p].via
                                    /\ req'[p].session = req[p].session
                                    /\ (IsOpen(p)' => IsOpen(p))
    BY <2>4 DEF Steady
  <2>11. ASSUME NEW p \in AccountRequests PROVE DroppedSound(p)'
    <3>1. SUFFICES ASSUME req[p].op = "refresh", p \in Ids(access)' \/ (IsOpen(p)' /\ "dropAccess" \notin ToRun(p)')
                   PROVE  req[p].via \notin Ids(access)'
      BY <2>10 DEF DroppedSound
    <3>2. req[p].via # q
      BY <1>1, <2>6, <3>1 DEF CallInv, CallSound
    <3>3. p \in Ids(access) \/ (IsOpen(p) /\ "dropAccess" \notin ToRun(p))
      <4>1. CASE p = q
        BY <1>2, <2>4, <2>5, <4>1
      <4>2. CASE p # q
        BY <2>4, <2>9, <3>1, <4>2 DEF OthersWait
      <4>. QED
        BY <4>1, <4>2
    <3>4. req[p].via \notin Ids(access)
      BY <1>1, <3>1, <3>3 DEF ChainInv, DroppedSound
    <3>. QED
      BY <2>9, <3>2, <3>4
  <2>12. IssuedSound(t)'
    <3>1. SUFFICES ASSUME t.session \notin raced
                   PROVE  \/ req[q].op = "refresh" /\ req[q].via = has[t.session]
                          \/ q = t.session /\ has[t.session] = Account!NoToken
      BY <1>2, <2>3, <2>10 DEF IssuedSound, Account!NoToken
    <3>2. CASE req[q].op = "refresh"
      BY <1>1, <1>2, <2>3, <3>1, <3>2 DEF ChainInv, ReplacedSound
    <3>3. CASE req[q].op \in {"register", "login"}
      BY <1>1, <1>2, <2>3, <3>3, NotStarted
    <3>. QED
      BY <2>5, <3>2, <3>3 DEF Issues
  <2>13. ChainInv'
    <3>1. \A p \in AccountRequests : ReplacedSound(p)'
      BY <1>1, <1>2, <2>10 DEF ChainInv, ReplacedSound
    <3>2. ASSUME NEW u \in access PROVE IssuedSound(u)'
      BY <1>1, <1>2, <2>10 DEF ChainInv, IssuedSound, Account!NoToken
    <3>. QED
      BY <2>3, <2>11, <2>12, <3>1, <3>2 DEF ChainInv
  <2>14. ClientInv'
    <3>1. AccessLost
      BY <2>9 DEF AccessLost
    <3>2. RefreshLost
      BY <1>2 DEF RefreshLost, Ids
    <3>3. \A p \in AccountRequests : HasRefresh(p)' => HasRefresh(p)
      <4>1. \A p \in AccountRequests : ToRun(p)' = {} => ToRun(p) = {}
        BY <2>4, <2>5 DEF OthersWait
      <4>. QED
        BY <1>2, <2>10, <4>1 DEF HasRefresh, Ids
    <3>4. \A p \in AccountRequests : "newToken" \in ToRun(p) /\ "newToken" \notin ToRun(p)' => p \in Ids(access)'
      BY <2>4, <2>9 DEF OthersWait
    <3>5. TokensMade
      BY <3>3, <3>4 DEF TokensMade
    <3>6. Troubles
      BY <1>1, <1>2, <2>1, RanTroubles
    <3>7. \A s \in Account!Sessions : has'[s] = has[s]
      BY <1>2
    <3>. QED
      BY <1>1, <2>4, <3>1, <3>2, <3>5, <3>6, <3>7, ClientsStay
  <2>15. DeviceInv'
    <3>1. ASSUME NEW x \in {"dropDevice", "dropDevices"}, NEW p \in AccountRequests, Account!At(p, x)'
          PROVE Account!At(p, x)
      BY <1>1, <1>2, <2>1, <2>5, <3>1, NextAt
    <3>2. t.device \in devices \/ t.id \in late'
      BY <2>1, <2>3 DEF Account!Going
    <3>3. ASSUME NEW p \in AccountRequests
          PROVE  /\ Account!At(p, "dropDevice")' => (t.device = req[p].device => t.id \in late')
                 /\ Account!At(p, "dropDevices")' => t.id \in late'
      BY <2>1, <2>3, <3>1 DEF Account!Going
    <3>4. \A p \in AccountRequests : req'[p].device = req[p].device
      BY <2>4 DEF Steady
    <3>5. Account!SessionsHaveDevices'
      BY <1>1, <1>2, <2>3, <3>2 DEF DeviceInv, Account!SessionsHaveDevices
    <3>6. ASSUME NEW p \in AccountRequests
          PROVE  /\ Account!At(p, "dropDevice")' => \A u \in access' : u.device = req'[p].device => u.id \in late'
                 /\ Account!At(p, "dropDevices")' => \A u \in access' : u.id \in late'
      BY <1>1, <1>2, <2>3, <3>1, <3>3, <3>4 DEF DeviceInv
    <3>. QED
      BY <3>5, <3>6 DEF DeviceInv
  <2>16. CallInv'
    BY <1>1, <2>4, CallsStay
  <2>17. HasInv'
    BY <1>1, <1>2, <2>4, HasStays
  <2>18. OnceReadInv'
    BY <1>1, <1>2, <2>4, OnceReadStays
  <2>19. AccountTypes'
    BY <1>1, <1>2, <2>4 DEF AccountTypes, CallTypes, Account!Sessions, Account!NoToken
  <2>. QED
    BY <2>8, <2>13, <2>14, <2>15, <2>16, <2>17, <2>18, <2>19 DEF AccountInd, AccountCore
<1>. QED
  BY <1>3, <1>4

LEMMA NewRefreshStays == ASSUME AccountInd, NEW q \in AccountRequests, Account!NewRefresh(q) PROVE AccountInd'
<1>1. AccountCore /\ AccountTypes /\ CallInv /\ HasInv /\ TokenInv /\ OnceReadInv /\ ChainInv /\ ClientInv /\ DeviceInv
  BY DEF AccountInd, AccountCore
<1>. DEFINE new == [id |-> q, session |-> req[q].session, device |-> req[q].device, access |-> q]
<1>2. /\ Account!At(q, "newRefresh") /\ Account!Ran(q)
      /\ UNCHANGED <<devices, access, deleted, has, ended, troubled, raced, late>>
      /\ refreshes' = refreshes \cup {new}
  BY DEF Account!NewRefresh
<1>3. PICK g : g = new
  OBVIOUS
<1>4. refreshes' = refreshes \cup {g} /\ g.id = q
  BY <1>2, <1>3
<1>5. /\ AccountAt(req[q].op, "newRefresh", Later(q)) /\ ToRun(q) = {"newRefresh"} \cup Later(q)
      /\ Steady /\ ToRun(q)' = Later(q) /\ IsOpen(q) /\ OthersWait(q) /\ CallTypes'
  BY <1>1, <1>2, AtIs, RanIs
<1>6. Issues(q) /\ ToRun(q) = {"newRefresh"} /\ ToRun(q)' = {}
  BY <1>5 DEF AccountAt, Issues
<1>7. /\ q # 0 /\ q \in Account!Sessions /\ Issuer(q) /\ Account!Begun(q) /\ SessionOf(q) = req[q].session
      /\ req[q].session \in Account!Sessions /\ req[q].device = Account!DeviceOf(req[q].session)
  BY <1>1, <1>5, <1>6, IssuerIs
<1>8. g = RefreshOf(q)
  BY <1>3, <1>7 DEF RefreshOf
<1>. HIDE DEF new
<1>9. TokenInv'
  <2>1. (\A u \in access : TokenSound(u)') /\ (\A f \in refreshes \cup deleted : RefreshSound(f)')
    BY <1>1, <1>5, TokensStay
  <2>2. RefreshOf(q)' = RefreshOf(q)
    BY <1>1, <1>5, <1>7, SteadyViews
  <2>3. Account!Begun(q)' /\ Issues(q)'
    BY <1>5, <1>6, <1>7 DEF Steady, Issues
  <2>4. RefreshSound(g)'
    <3>1. PICK x : x = q
      OBVIOUS
    <3>2. g.id = x /\ x \in Account!Sessions /\ g = RefreshOf(x)'
      BY <1>4, <1>7, <1>8, <2>2, <3>1
    <3>3. x # 0 => Account!Begun(x)' /\ Issues(x)' /\ ToRun(x)' = {}
      BY <1>6, <2>3, <3>1
    <3>. QED
      BY <3>2, <3>3 DEF RefreshSound, Account!Sessions
  <2>. QED
    BY <1>2, <1>4, <2>1, <2>4 DEF TokenInv
<1>10. ChainInv'
  <2>1. \A p \in AccountRequests : /\ IsOpen(p)' /\ req[p].op = "refresh"
                                   /\ "dropAccess" \in ToRun(p) /\ "dropAccess" \notin ToRun(p)'
                                   => req[p].via \notin Ids(access)'
    BY <1>1, <1>2, RanDropsNone
  <2>. QED
    BY <1>1, <1>2, <1>5, <2>1, ChainStays
<1>11. ClientInv'
  <2>1. AccessLost
    BY <1>2 DEF AccessLost, Ids
  <2>2. RefreshLost
    BY <1>4 DEF RefreshLost, Ids
  <2>3. TokensMade
    <3>1. SUFFICES ASSUME NEW p \in AccountRequests
          PROVE  /\ "newToken" \in ToRun(p) /\ "newToken" \notin ToRun(p)' => p \in Ids(access)'
                 /\ HasRefresh(p)' =>
                      \/ HasRefresh(p)
                      \/ "newToken" \notin ToRun(p) /\ "newRefresh" \in ToRun(p) /\ p \in Ids(refreshes)'
      BY DEF TokensMade
    <3>2. CASE p = q
      <4>1. q \in Ids(refreshes)'
        BY <1>4 DEF Ids
      <4>. QED
        BY <1>6, <3>2, <4>1
    <3>3. CASE p # q
      <4>1. ToRun(p)' = ToRun(p) /\ req'[p].op = req[p].op
        BY <1>5, <3>3 DEF OthersWait
      <4>2. p \in Ids(refreshes \cup deleted)' => p \in Ids(refreshes \cup deleted)
        BY <1>2, <1>4, <3>3 DEF Ids
      <4>. QED
        BY <4>1, <4>2 DEF HasRefresh
    <3>. QED
      BY <3>2, <3>3
  <2>4. Troubles
    BY <1>1, <1>2, RanTroubles
  <2>5. \A s \in Account!Sessions : has'[s] = has[s]
    BY <1>2
  <2>. QED
    BY <1>1, <1>5, <2>1, <2>2, <2>3, <2>4, <2>5, ClientsStay
<1>12. DeviceInv'
  BY <1>1, <1>2, RanDevices
<1>13. CallInv'
  BY <1>1, <1>5, CallsStay
<1>14. HasInv'
  BY <1>1, <1>2, <1>5, HasStays
<1>15. OnceReadInv'
  BY <1>1, <1>2, <1>5, OnceReadStays
<1>16. AccountTypes'
  BY <1>1, <1>2, <1>5 DEF AccountTypes, CallTypes, Account!Sessions, Account!NoToken
<1>. QED
  BY <1>9, <1>10, <1>11, <1>12, <1>13, <1>14, <1>15, <1>16 DEF AccountInd, AccountCore

LEMMA NotAToken == Account!NoToken \notin Account!Sessions /\ \A x : Granted(x) =>
    x \in Account!Sessions /\ x # Account!NoToken
<1>1. Account!NoToken \notin Account!Sessions
  BY AccountAssumption DEF Account!Sessions, Account!NoToken
<1>. QED
  BY <1>1 DEF Granted, Account!Sessions

LEMMA AnswerIs ==
  ASSUME AccountTypes, NEW q \in AccountRequests, Account!Answer(q)
  PROVE  /\ IsOpen(q) /\ ToRun(q) = {}
         /\ CallTypes' /\ Steady /\ OthersWait(q) /\ ToRun(q)' = {} /\ ~IsOpen(q)' /\ req'[q].phase = "done"
<1>1. /\ IsOpen(q) /\ req[q].todo = <<>> /\ req' = [req EXCEPT ![q].phase = "done"]
      /\ req \in [AccountRequests -> AccountCalls]
  BY DEF Account!Answer, IsOpen, AccountTypes
<1>2. [req[q] EXCEPT !.phase = "done"] = [req[q] EXCEPT !.phase = "done", !.todo = <<>>]
  BY <1>1 DEF AccountCalls
<1>3. req' = [req EXCEPT ![q].phase = "done", ![q].todo = <<>>]
  BY <1>1, <1>2
<1>4. ToRun(q) = {}
  BY <1>1, ShortLists DEF ToRun
<1>. QED
  BY <1>1, <1>3, <1>4, EndIs

(* An answered request has replaced what the client of its session had. *)
LEMMA GivenNow ==
  ASSUME AccountCore, NEW q \in AccountRequests, IsOpen(q), Issues(q), ToRun(q) = {}, NEW s, s = req[q].session
  PROVE  /\ \A p \in AccountRequests \ {q} : req[p].op = "refresh" /\ IsOpen(p) /\ req[p].session = s => s \in raced
         /\ \A t \in access : t.session = s /\ s \notin raced => t.id = q
<1>1. AccountTypes /\ CallInv /\ HasInv /\ TokenInv /\ OnceReadInv /\ ChainInv
  BY DEF AccountCore
<1>2. CASE req[q].op = "refresh"
  <2>1. s \notin raced => has[s] = req[q].via
    BY <1>1, <1>2 DEF ChainInv, ReplacedSound
  <2>2. req[q].via \in Account!Sessions /\ req[q].via # Account!NoToken
    BY <1>1, <1>2, NotAToken DEF CallInv, CallSound
  <2>3. \A p \in AccountRequests \ {q} : req[p].op = "refresh" /\ req[p].via = req[q].via => req[p].session \in raced
    BY <1>1, <1>2 DEF OnceReadInv
  <2>4. ASSUME NEW p \in AccountRequests \ {q}, req[p].op = "refresh", IsOpen(p), req[p].session = s, s \notin raced
        PROVE FALSE
    <3>1. has[s] = req[p].via
      BY <1>1, <2>4 DEF ChainInv, ReplacedSound
    <3>. QED
      BY <2>1, <2>3, <2>4, <3>1
  <2>5. ASSUME NEW t \in access, t.session = s, s \notin raced PROVE t.id = q
    <3>1. \/ t.id = has[s]
          \/ t.id \in AccountRequests /\ req[t.id].op = "refresh" /\ req[t.id].via = has[s]
          \/ t.id = s /\ has[s] = Account!NoToken
      BY <1>1, <2>5 DEF ChainInv, IssuedSound
    <3>2. req[q].via \notin Ids(access)
      BY <1>1, <1>2 DEF ChainInv, DroppedSound
    <3>3. t.id # req[q].via
      BY <3>2 DEF Ids
    <3>4. ASSUME t.id \in AccountRequests, req[t.id].op = "refresh", req[t.id].via = req[q].via, t.id # q PROVE FALSE
      <4>1. t.session = SessionOf(t.id) /\ t.id # 0
        BY <1>1, <3>4, AccessIs, AccountAssumption
      <4>2. req[t.id].session = s
        BY <2>5, <4>1 DEF SessionOf
      <4>. QED
        BY <2>3, <2>5, <3>4, <4>2
    <3>. QED
      BY <2>1, <2>2, <2>5, <3>1, <3>3, <3>4
  <2>. QED
    BY <2>4, <2>5
<1>3. CASE req[q].op \in {"register", "login"}
  <2>1. has[s] = Account!NoToken /\ s = q
    BY <1>1, <1>3, NotStarted
  <2>2. \A p \in AccountRequests : req[p].op = "refresh" => req[p].via # Account!NoToken
    BY <1>1, NotAToken DEF CallInv, CallSound
  <2>3. \A t \in access : t.id # Account!NoToken
    BY <1>1, AccessIs, NotAToken
  <2>4. \A p \in AccountRequests \ {q} : req[p].op = "refresh" /\ IsOpen(p) /\ req[p].session = s => s \in raced
    BY <1>1, <2>1, <2>2 DEF ChainInv, ReplacedSound
  <2>5. \A t \in access : t.session = s /\ s \notin raced => t.id = q
    BY <1>1, <2>1, <2>2, <2>3 DEF ChainInv, IssuedSound
  <2>. QED
    BY <2>4, <2>5
<1>. QED
  BY <1>2, <1>3 DEF Issues

LEMMA AnswerStays == ASSUME AccountInd, NEW q \in AccountRequests, Account!Answer(q) PROVE AccountInd'
<1>1. AccountCore /\ AccountTypes /\ CallInv /\ HasInv /\ TokenInv /\ OnceReadInv /\ ChainInv /\ ClientInv /\ DeviceInv
  BY DEF AccountInd, AccountCore
<1>2. /\ IsOpen(q) /\ ToRun(q) = {}
      /\ CallTypes' /\ Steady /\ OthersWait(q) /\ ToRun(q)' = {} /\ ~IsOpen(q)' /\ req'[q].phase = "done"
  BY <1>1, AnswerIs
<1>3. /\ UNCHANGED <<devices, access, refreshes, deleted, ended, troubled, raced, late>>
      /\ has' = IF \E f \in refreshes \cup deleted : f.id = q THEN [has EXCEPT ![req[q].session] = q] ELSE has
  BY DEF Account!Answer
<1>4. AccessLost /\ RefreshLost
  BY <1>3 DEF AccessLost, RefreshLost, Ids
<1>5. TokensMade
  BY <1>2, <1>3 DEF TokensMade, OthersWait, HasRefresh, Ids
<1>6. ASSUME Issues(q), HasRefresh(q)
      PROVE req[q].session \in ended \cup troubled \/ (q \in Ids(access) /\ q \in Ids(refreshes))
  BY <1>1, <1>2, <1>6 DEF ClientInv, TokensSent, Away
<1>7. DeviceInv'
  <2>1. \A x : \A p \in AccountRequests : Account!At(p, x)' => Account!At(p, x)
    BY <1>2 DEF Account!At, OthersWait, IsOpen
  <2>. QED
    BY <1>1, <1>2, <1>3, <2>1, DevicesStay
<1>8. CASE ~\E f \in refreshes \cup deleted : f.id = q
  <2>1. has' = has
    BY <1>3, <1>8
  <2>2. q \notin Ids(refreshes)
    BY <1>8 DEF Ids
  <2>3. req[q].op = "refresh" => req[q].session \in ended \cup troubled
    BY <1>2, <1>6, <2>2 DEF HasRefresh, Issues
  <2>4. Troubles
    BY <1>2, <1>3, <2>3 DEF Troubles, OthersWait
  <2>5. AccountCore'
    BY <1>1, <1>2, <1>3, <1>4, <1>5, <2>1, <2>4, CoreStays DEF OthersWait
  <2>. QED
    BY <1>7, <2>5 DEF AccountInd
<1>9. CASE \E f \in refreshes \cup deleted : f.id = q
  <2>1. PICK s : s = req[q].session
    OBVIOUS
  <2>2. has' = [has EXCEPT ![s] = q]
    BY <1>3, <1>9, <2>1
  <2>3. Issues(q) /\ q \in Ids(refreshes \cup deleted)
    <3>1. q # 0
      BY AccountAssumption
    <3>2. PICK f \in refreshes \cup deleted : f.id = q
      BY <1>9
    <3>3. Issues(q)
      BY <1>1, <3>1, <3>2 DEF TokenInv, RefreshSound
    <3>. QED
      BY <3>2, <3>3 DEF Ids
  <2>4. q # 0 /\ q \in Account!Sessions /\ SessionOf(q) = s /\ s \in Account!Sessions
    BY <1>1, <1>2, <2>1, <2>3, IssuerIs
  <2>5. has \in [Account!Sessions -> Account!Sessions \cup {Account!NoToken}]
    BY <1>1 DEF AccountTypes
  <2>6. /\ has'[s] = q /\ (\A z \in Account!Sessions \ {s} : has'[z] = has[z])
        /\ has' \in [Account!Sessions -> Account!Sessions \cup {Account!NoToken}]
    BY <2>2, <2>4, <2>5
  <2>7. s \in ended \cup troubled \/ (q \in Ids(access) /\ q \in Ids(refreshes))
    BY <1>6, <2>1, <2>3 DEF HasRefresh
  <2>8. s \in ended' \cup troubled' \/ Given(s)'
    BY <1>3, <2>6, <2>7 DEF Given
  <2>9. Troubles
    BY <1>2, <1>3, <2>1, <2>8 DEF Troubles, OthersWait
  <2>10. \A z \in Account!Sessions : has'[z] = has[z] \/ z \in ended' \cup troubled' \/ Given(z)'
    <3>1. ASSUME NEW z \in Account!Sessions PROVE has'[z] = has[z] \/ z \in ended' \cup troubled' \/ Given(z)'
      <4>1. CASE z = s
        BY <2>8, <4>1
      <4>2. CASE z # s
        BY <2>6, <4>2
      <4>. QED
        BY <4>1, <4>2
    <3>. QED
      BY <3>1
  <2>11. ClientInv'
    BY <1>1, <1>2, <1>4, <1>5, <2>9, <2>10, ClientsStay
  <2>12. HasInv'
    <3>1. \A z \in Account!Sessions : /\ SessionOf(z)' = SessionOf(z)
                                      /\ Granted(z) => Granted(z)'
                                      /\ Started(z) => Started(z)'
      BY <1>1, <1>2, SteadyViews
    <3>2. ASSUME NEW z \in Account!Sessions \ {s} PROVE HasSound(z)'
      <4>1. PICK x : x = has[z]
        OBVIOUS
      <4>2. x # Account!NoToken => Granted(x) /\ SessionOf(x) = z /\ Started(z)
        BY <1>1, <4>1 DEF HasInv, HasSound
      <4>3. x = has'[z]
        BY <2>6, <4>1
      <4>4. x # Account!NoToken => Granted(x)' /\ SessionOf(x)' = z /\ Started(z)'
        BY <3>1, <4>2, NotAToken
      <4>. QED
        BY <4>3, <4>4 DEF HasSound, Account!NoToken
    <3>3. HasSound(s)'
      <4>1. Granted(q)'
        BY <1>2, <2>3 DEF Granted, Issues, Steady
      <4>2. SessionOf(q)' = s
        BY <2>4, <3>1
      <4>3. Started(s)'
        <5>1. CASE req[q].op = "refresh"
          BY <1>1, <2>1, <2>4, <3>1, <5>1 DEF CallInv, CallSound
        <5>2. CASE req[q].op \in {"register", "login"}
          <6>1. s = q
            BY <1>1, <2>1, <5>2 DEF CallInv, CallSound
          <6>2. req'[q].op \in {"register", "login"}
            BY <1>2, <5>2 DEF Steady
          <6>. QED
            BY <1>2, <6>1, <6>2 DEF Started
        <5>. QED
          BY <2>3, <5>1, <5>2 DEF Issues
      <4>4. PICK x : x = q
        OBVIOUS
      <4>5. x = has'[s] /\ Granted(x)' /\ SessionOf(x)' = s
        BY <2>6, <4>1, <4>2, <4>4
      <4>. QED
        BY <4>3, <4>5 DEF HasSound
    <3>. QED
      BY <3>2, <3>3 DEF HasInv, Account!Sessions
  <2>13. ChainInv'
    <3>1. /\ \A p \in AccountRequests \ {q} : req[p].op = "refresh" /\ IsOpen(p) /\ req[p].session = s => s \in raced
          /\ \A t \in access : t.session = s /\ s \notin raced => t.id = q
      BY <1>1, <1>2, <2>1, <2>3, GivenNow
    <3>2. ASSUME NEW p \in AccountRequests PROVE ReplacedSound(p)'
      <4>1. SUFFICES ASSUME req[p].op = "refresh", IsOpen(p)', req[p].session \notin raced
                     PROVE  has'[req[p].session] = req[p].via
        BY <1>2, <1>3 DEF ReplacedSound, Steady
      <4>2. p # q /\ IsOpen(p)
        BY <1>2, <4>1 DEF Steady
      <4>3. req[p].session # s
        BY <3>1, <4>1, <4>2
      <4>4. req[p].session \in Account!Sessions
        BY <1>1, <4>1 DEF CallInv, CallSound, Started, Account!Sessions
      <4>5. has[req[p].session] = req[p].via
        BY <1>1, <4>1, <4>2 DEF ChainInv, ReplacedSound
      <4>. QED
        BY <2>6, <4>3, <4>4, <4>5
    <3>3. ASSUME NEW p \in AccountRequests PROVE DroppedSound(p)'
      <4>1. req'[p].op = req[p].op /\ req'[p].via = req[p].via /\ (IsOpen(p)' => IsOpen(p) /\ ToRun(p)' = ToRun(p))
        BY <1>2 DEF Steady, OthersWait
      <4>2. DroppedSound(p)
        BY <1>1 DEF ChainInv
      <4>. QED
        BY <1>3, <4>1, <4>2 DEF DroppedSound, Ids
    <3>4. ASSUME NEW t \in access PROVE IssuedSound(t)'
      <4>1. PICK z : z = t.session
        OBVIOUS
      <4>2. z \in Account!Sessions
        BY <1>1, <4>1, AccessIs
      <4>3. CASE z = s
        BY <1>3, <2>6, <3>1, <4>1, <4>3 DEF IssuedSound
      <4>4. CASE z # s
        <5>1. has'[z] = has[z]
          BY <2>6, <4>2, <4>4
        <5>2. t.id \in AccountRequests => req'[t.id].op = req[t.id].op /\ req'[t.id].via = req[t.id].via
          BY <1>2 DEF Steady
        <5>3. IssuedSound(t)
          BY <1>1 DEF ChainInv
        <5>. QED
          BY <1>3, <4>1, <5>1, <5>2, <5>3 DEF IssuedSound, Account!NoToken
      <4>. QED
        BY <4>3, <4>4
    <3>. QED
      BY <1>3, <3>2, <3>3, <3>4 DEF ChainInv
  <2>14. TokenInv'
    BY <1>1, <1>2, <1>3, TokensStay DEF TokenInv
  <2>15. CallInv' /\ OnceReadInv'
    BY <1>1, <1>2, <1>3, CallsStay, OnceReadStays
  <2>16. AccountTypes'
    BY <1>2, <2>6 DEF AccountTypes, CallTypes, Account!Sessions, Account!NoToken
  <2>. QED
    BY <1>7, <2>11, <2>12, <2>13, <2>14, <2>15, <2>16 DEF AccountInd, AccountCore
<1>. QED
  BY <1>8, <1>9

(* A request that arrives: the others stay, and nobody has spoken of it. *)
OpensAs(q, r) ==
  /\ req' = [req EXCEPT ![q] = [r EXCEPT !.phase = "open"]]
  /\ [r EXCEPT !.phase = "open"] \in AccountCalls /\ AccountTodo(r.op, r.todo)
  /\ r.op = "refresh" => "dropAccess" \in Items(r.todo) /\ has[r.session] = r.via
  /\ r.op \in {"register", "login", "refresh"} => "newToken" \in Items(r.todo) \/ "newRefresh" \notin Items(r.todo)
  /\ r.op = "refresh" =>
       \A p \in AccountRequests : req[p].op = "refresh" /\ req[p].via = r.via =>
           req[p].session \in raced' /\ r.session \in raced'
  /\ r.op = "login" /\ r.via # Account!NoToken =>
       \A p \in AccountRequests : req[p].op = "login" /\ req[p].via = r.via => r.via \in raced'
  /\ r.todo # <<>> => Head(r.todo) \notin {"dropDevice", "dropDevices"}

(* What its session and its token are. *)
OpensWith(q, r) ==
  /\ r.op \in {"register", "login"} => r.session = q
  /\ r.op = "refresh" =>
       /\ Granted(r.via) /\ r.token = r.via
       /\ SessionOf(r.via) = r.session /\ Started(r.session)
       /\ r.device = Account!DeviceOf(r.session)

LEMMA OpenStays ==
  ASSUME AccountInd, NEW q \in AccountRequests, ~Account!Begun(q), NEW r, OpensAs(q, r), OpensWith(q, r),
         raced \subseteq raced',
         UNCHANGED <<devices, access, refreshes, deleted, has, ended, troubled, late>>
  PROVE  AccountInd'
<1>1. AccountCore /\ AccountTypes /\ CallInv /\ HasInv /\ TokenInv /\ OnceReadInv /\ ChainInv /\ ClientInv /\ DeviceInv
  BY DEF AccountInd, AccountCore
<1>2. q # 0 /\ 0 \notin AccountRequests
  BY AccountAssumption
<1>3. PICK c : c = [r EXCEPT !.phase = "open"]
  OBVIOUS
<1>4. c \in AccountCalls /\ req' = [req EXCEPT ![q] = c] /\ req \in [AccountRequests -> AccountCalls]
  BY <1>1, <1>3 DEF OpensAs, AccountTypes
<1>5. /\ c.op = r.op /\ c.todo = r.todo /\ c.session = r.session /\ c.device = r.device /\ c.token = r.token
      /\ c.via = r.via /\ c.phase = "open"
  <2>1. DOMAIN c = {"op", "phase", "todo", "session", "device", "token", "via"}
    BY <1>4 DEF AccountCalls
  <2>. QED
    BY <1>3, <2>1
<1>6. /\ req' \in [AccountRequests -> AccountCalls] /\ req'[q] = c
      /\ \A p \in AccountRequests \ {q} : req'[p] = req[p]
  BY <1>4
<1>7. \A p \in AccountRequests \ {q} : /\ ToRun(p)' = ToRun(p) /\ (IsOpen(p)' <=> IsOpen(p))
                                       /\ (Account!Begun(p)' <=> Account!Begun(p))
                                       /\ (Issues(p)' <=> Issues(p)) /\ \A h : Account!At(p, h)' <=> Account!At(p, h)
  BY <1>6 DEF ToRun, IsOpen, Account!Begun, Issues, Account!At
<1>8. IsOpen(q)' /\ Account!Begun(q)' /\ ToRun(q)' = Items(r.todo)
  BY <1>5, <1>6 DEF ToRun, IsOpen, Account!Begun
<1>9. ~IsOpen(q) /\ req[q].phase = "new" /\ req[q].op = "none" /\ ~Issues(q)
  BY <1>1 DEF Account!Begun, IsOpen, CallInv, CallSound, Issues
<1>10. \A x : /\ Granted(x) => x # q /\ Granted(x)' /\ SessionOf(x)' = SessionOf(x)
              /\ Started(x) => x # q /\ Started(x)' /\ Account!DeviceOf(x)' = Account!DeviceOf(x)
  <2>1. ASSUME NEW x, Granted(x) PROVE x # q /\ Granted(x)' /\ SessionOf(x)' = SessionOf(x)
    BY <1>2, <1>6, <1>7, <1>9, <2>1 DEF Granted, SessionOf
  <2>2. ASSUME NEW x, Started(x) PROVE x # q /\ Started(x)' /\ Account!DeviceOf(x)' = Account!DeviceOf(x)
    BY <1>2, <1>6, <1>9, <2>2 DEF Started, Account!DeviceOf
  <2>. QED
    BY <2>1, <2>2
<1>11. ASSUME NEW x \in Account!Sessions, x # 0 => Account!Begun(x) /\ Issues(x)
       PROVE  /\ x # q /\ TokenOf(x)' = TokenOf(x) /\ RefreshOf(x)' = RefreshOf(x)
              /\ SessionOf(x)' = SessionOf(x)
  <2>1. x # q
    BY <1>2, <1>9, <1>11
  <2>2. SessionOf(x)' = SessionOf(x)
    BY <1>6, <1>11, <2>1 DEF SessionOf, Account!Sessions
  <2>3. SessionOf(x) \in Account!Sessions /\ SessionOf(x) # q
    <3>1. CASE x = 0
      BY <1>2, <3>1 DEF SessionOf, Account!Sessions
    <3>2. CASE x # 0 /\ req[x].op \in {"register", "login"}
      BY <1>1, <1>11, <2>1, <3>2 DEF SessionOf, Account!Sessions, CallInv, CallSound
    <3>3. CASE x # 0 /\ req[x].op = "refresh"
      <4>1. Started(req[x].session)
        BY <1>1, <1>11, <3>3 DEF CallInv, CallSound, Account!Sessions
      <4>. QED
        BY <1>10, <3>3, <4>1 DEF SessionOf, Started, Account!Sessions
    <3>. QED
      BY <1>11, <3>1, <3>2, <3>3 DEF Issues
  <2>4. PICK s : s = SessionOf(x)
    OBVIOUS
  <2>5. Account!DeviceOf(s)' = Account!DeviceOf(s)
    BY <1>6, <2>3, <2>4 DEF Account!DeviceOf, Account!Sessions
  <2>6. SessionOf(x)' = s
    BY <2>2, <2>4
  <2>7. RefreshOf(x)' = RefreshOf(x)
    BY <2>4, <2>5, <2>6 DEF RefreshOf
  <2>8. x # 0 => req'[x] = req[x]
    BY <1>6, <1>11, <2>1 DEF Account!Sessions
  <2>9. TokenOf(x)' = TokenOf(x)
    BY <2>4, <2>5, <2>6, <2>8 DEF TokenOf
  <2>. QED
    BY <2>1, <2>2, <2>7, <2>9
<1>12. AccountTypes'
  <2>1. \A p \in AccountRequests : AccountTodo(req'[p].op, req'[p].todo)
           /\ (req'[p].phase # "open" => req'[p].todo = <<>>)
    <3>1. ASSUME NEW p \in AccountRequests
          PROVE  AccountTodo(req'[p].op, req'[p].todo) /\ (req'[p].phase # "open" => req'[p].todo = <<>>)
      <4>1. CASE p = q
        BY <1>5, <1>6, <4>1 DEF OpensAs
      <4>2. CASE p # q
        BY <1>1, <1>6, <4>2 DEF AccountTypes
      <4>. QED
        BY <4>1, <4>2
    <3>. QED
      BY <3>1
  <2>. QED
    BY <1>1, <1>6, <2>1 DEF AccountTypes, Account!Sessions, Account!NoToken
<1>13. CallInv'
  <2>1. ASSUME NEW p \in AccountRequests \ {q} PROVE CallSound(p)'
    <3>1. PICK v, s, k : v = req[p].via /\ s = req[p].session /\ k = req[p].token
      OBVIOUS
    <3>2. CallSound(p)
      BY <1>1 DEF CallInv
    <3>3. req[p].op = "refresh" =>
             Granted(v)' /\ SessionOf(v)' = s /\ Started(s)' /\ req[p].device = Account!DeviceOf(s)'
      BY <1>10, <3>1, <3>2 DEF CallSound
    <3>5. req'[p] = req[p] /\ ToRun(p)' = ToRun(p) /\ (Account!Begun(p)' <=> Account!Begun(p))
      BY <1>6, <1>7
    <3>6. v = req'[p].via /\ s = req'[p].session /\ k = req'[p].token
      BY <3>1, <3>5
    <3>7. ~Account!Begun(p)' => req'[p].op = "none"
      BY <3>2, <3>5 DEF CallSound
    <3>8. req'[p].op \in {"register", "login"} => s = p
      BY <3>1, <3>2, <3>5 DEF CallSound
    <3>9. req'[p].op = "refresh" =>
            Granted(v)' /\ k = v /\ SessionOf(v)' = s /\ Started(s)' /\ req'[p].device = Account!DeviceOf(s)'
      BY <3>1, <3>2, <3>3, <3>5 DEF CallSound
    <3>. QED
      BY <3>6, <3>7, <3>8, <3>9 DEF CallSound
  <2>2. CallSound(q)'
    <3>1. PICK v, s, k : v = r.via /\ s = r.session /\ k = r.token
      OBVIOUS
    <3>2. r.op = "refresh" =>
             Granted(v)' /\ k = v /\ SessionOf(v)' = s /\ Started(s)' /\ r.device = Account!DeviceOf(s)'
      BY <1>10, <3>1 DEF OpensWith
    <3>4. r.op \in {"register", "login"} => s = q
      BY <3>1 DEF OpensWith
    <3>5. /\ v = req'[q].via /\ s = req'[q].session /\ k = req'[q].token /\ req'[q].op = r.op
          /\ req'[q].device = r.device
      BY <1>5, <1>6, <3>1
    <3>. QED
      BY <1>8, <3>2, <3>4, <3>5 DEF CallSound
  <2>. QED
    BY <2>1, <2>2 DEF CallInv
<1>14. HasInv'
  <2>1. SUFFICES ASSUME NEW s \in Account!Sessions PROVE HasSound(s)'
    BY DEF HasInv, Account!Sessions
  <2>2. PICK x : x = has[s]
    OBVIOUS
  <2>3. x # Account!NoToken => Granted(x) /\ SessionOf(x) = s /\ Started(s)
    BY <1>1, <2>2 DEF HasInv, HasSound
  <2>4. x # Account!NoToken => Granted(x)' /\ SessionOf(x)' = s /\ Started(s)'
    BY <1>10, <2>3
  <2>5. x = has'[s]
    BY <2>2
  <2>. QED
    BY <2>4, <2>5 DEF HasSound, Account!NoToken
<1>15. TokenInv'
  <2>1. ASSUME NEW t, TokenSound(t) PROVE TokenSound(t)'
    <3>1. PICK x : x = t.id
      OBVIOUS
    <3>2. /\ x \in Account!Sessions /\ t = TokenOf(x)
          /\ x # 0 => Account!Begun(x) /\ Issues(x) /\ "newToken" \notin ToRun(x)
      BY <2>1, <3>1 DEF TokenSound
    <3>3. x # q /\ TokenOf(x)' = TokenOf(x)
      BY <1>11, <3>2
    <3>4. x # 0 => Account!Begun(x)' /\ Issues(x)' /\ "newToken" \notin ToRun(x)'
      BY <1>7, <3>2, <3>3 DEF Account!Sessions
    <3>. QED
      BY <3>1, <3>2, <3>3, <3>4 DEF TokenSound, Account!Sessions
  <2>2. ASSUME NEW f, RefreshSound(f) PROVE RefreshSound(f)'
    <3>1. PICK x : x = f.id
      OBVIOUS
    <3>2. /\ x \in Account!Sessions /\ f = RefreshOf(x)
          /\ x # 0 => Account!Begun(x) /\ Issues(x) /\ ToRun(x) = {}
      BY <2>2, <3>1 DEF RefreshSound
    <3>3. x # q /\ RefreshOf(x)' = RefreshOf(x)
      BY <1>11, <3>2
    <3>4. x # 0 => Account!Begun(x)' /\ Issues(x)' /\ ToRun(x)' = {}
      BY <1>7, <3>2, <3>3 DEF Account!Sessions
    <3>. QED
      BY <3>1, <3>2, <3>3, <3>4 DEF RefreshSound, Account!Sessions
  <2>. QED
    BY <1>1, <2>1, <2>2 DEF TokenInv
<1>16. OnceReadInv'
  <2>1. /\ req'[q].op = r.op /\ req'[q].via = r.via /\ req'[q].session = r.session
        /\ \A p \in AccountRequests \ {q} : req'[p] = req[p]
    BY <1>5, <1>6
  <2>2. ASSUME NEW x \in AccountRequests, NEW y \in AccountRequests, req'[x].op = "refresh", req'[y].op = "refresh",
               req'[x].via = req'[y].via, x # y
        PROVE  req'[x].session \in raced'
    <3>1. CASE x = q
      BY <2>1, <2>2, <3>1 DEF OpensAs
    <3>2. CASE y = q
      BY <2>1, <2>2, <3>2 DEF OpensAs
    <3>3. CASE x # q /\ y # q
      BY <1>1, <2>1, <2>2, <3>3 DEF OnceReadInv
    <3>. QED
      BY <3>1, <3>2, <3>3
  <2>3. ASSUME NEW x \in AccountRequests, NEW y \in AccountRequests, req'[x].op = "login", req'[y].op = "login",
               req'[x].via = req'[y].via, x # y, req'[x].via # Account!NoToken
        PROVE  req'[x].via \in raced'
    <3>1. CASE x = q
      BY <2>1, <2>3, <3>1 DEF OpensAs
    <3>2. CASE y = q
      BY <2>1, <2>3, <3>2 DEF OpensAs
    <3>3. CASE x # q /\ y # q
      BY <1>1, <2>1, <2>3, <3>3 DEF OnceReadInv
    <3>. QED
      BY <3>1, <3>2, <3>3
  <2>. QED
    BY <2>2, <2>3 DEF OnceReadInv, Account!NoToken
<1>17. /\ \A t \in access : t.id # q /\ t.id \in Account!Sessions
       /\ \A f \in refreshes \cup deleted : f.id # q
  BY <1>1, <1>2, <1>9 DEF TokenInv, TokenSound, RefreshSound
<1>18. ChainInv'
  <2>1. ASSUME NEW p \in AccountRequests PROVE ReplacedSound(p)'
    <3>1. CASE p = q
      BY <1>5, <1>6, <3>1 DEF OpensAs, ReplacedSound
    <3>2. CASE p # q
      BY <1>1, <1>6, <1>7, <3>2 DEF ChainInv, ReplacedSound
    <3>. QED
      BY <3>1, <3>2
  <2>2. ASSUME NEW p \in AccountRequests PROVE DroppedSound(p)'
    <3>1. CASE p = q
      <4>1. q \notin Ids(access)'
        BY <1>17 DEF Ids
      <4>2. r.op = "refresh" => "dropAccess" \in ToRun(q)'
        BY <1>8 DEF OpensAs
      <4>. QED
        BY <1>5, <1>6, <3>1, <4>1, <4>2 DEF DroppedSound
    <3>2. CASE p # q
      BY <1>1, <1>6, <1>7, <3>2 DEF ChainInv, DroppedSound, Ids
    <3>. QED
      BY <3>1, <3>2
  <2>3. ASSUME NEW t \in access PROVE IssuedSound(t)'
    BY <1>1, <1>6, <1>17 DEF ChainInv, IssuedSound, Account!NoToken
  <2>. QED
    BY <2>1, <2>2, <2>3 DEF ChainInv
<1>19. ClientInv'
  <2>1. \A x : \A p \in AccountRequests : (DropsAccess(p, x) => DropsAccess(p, x)')
           /\ (UsesRefresh(p, x) => UsesRefresh(p, x)')
    <3>1. ASSUME NEW x, NEW p \in AccountRequests
          PROVE  (DropsAccess(p, x) => DropsAccess(p, x)') /\ (UsesRefresh(p, x) => UsesRefresh(p, x)')
      <4>1. CASE p = q
        BY <1>9, <4>1 DEF DropsAccess, UsesRefresh
      <4>2. CASE p # q
        BY <1>6, <1>7, <4>2 DEF DropsAccess, UsesRefresh
      <4>. QED
        BY <4>1, <4>2
    <3>. QED
      BY <3>1
  <2>2. ASSUME NEW s \in Account!Sessions PROVE ClientSound(s)'
    <3>1. PICK x : x = has[s]
      OBVIOUS
    <3>2. x = has'[s]
      BY <3>1
    <3>3. (Away(s)' <=> Away(s)) /\ Ids(access)' = Ids(access) /\ Ids(refreshes)' = Ids(refreshes)
      BY DEF Away, Ids
    <3>4. ~Away(s) /\ x # Account!NoToken =>
            /\ x \in Ids(access) \/ \E p \in AccountRequests : DropsAccess(p, x)'
            /\ x \in Ids(refreshes) \/ \E p \in AccountRequests : UsesRefresh(p, x)'
      BY <1>1, <2>1, <3>1 DEF ClientInv, ClientSound
    <3>. QED
      BY <3>2, <3>3, <3>4 DEF ClientSound, Account!NoToken
  <2>3. ASSUME NEW p \in AccountRequests PROVE TokensSent(p)'
    <3>1. CASE p = q
      <4>1. q \notin Ids(refreshes \cup deleted)'
        BY <1>17 DEF Ids
      <4>2. req'[q].op = r.op /\ (r.op = "refresh" => ToRun(q)' # {})
        BY <1>5, <1>6, <1>8 DEF OpensAs
      <4>3. ~HasRefresh(q)'
        BY <4>1, <4>2 DEF HasRefresh
      <4>4. Issues(q)' => "newToken" \in ToRun(q)' \/ "newRefresh" \notin ToRun(q)'
        BY <1>8, <4>2 DEF OpensAs, Issues
      <4>. QED
        BY <3>1, <4>3, <4>4 DEF TokensSent
    <3>2. CASE p # q
      <4>1. req'[p] = req[p] /\ (HasRefresh(p)' <=> HasRefresh(p))
        BY <1>6, <1>7, <3>2 DEF HasRefresh
      <4>2. Ids(access)' = Ids(access) /\ Ids(refreshes)' = Ids(refreshes)
        BY DEF Ids
      <4>3. TokensSent(p)
        BY <1>1 DEF ClientInv
      <4>. QED
        BY <1>7, <3>2, <4>1, <4>2, <4>3 DEF TokensSent, Away
    <3>. QED
      BY <3>1, <3>2
  <2>. QED
    BY <2>2, <2>3 DEF ClientInv, Account!Sessions
<1>20. DeviceInv'
  <2>1. ~Account!At(q, "dropDevice")' /\ ~Account!At(q, "dropDevices")'
    BY <1>5, <1>6 DEF OpensAs, Account!At
  <2>2. ASSUME NEW p \in AccountRequests
        PROVE  /\ Account!At(p, "dropDevice")' => \A t \in access' : t.device = req'[p].device => t.id \in late'
               /\ Account!At(p, "dropDevices")' => \A t \in access' : t.id \in late'
    <3>1. CASE p = q
      BY <2>1, <3>1
    <3>2. CASE p # q
      BY <1>1, <1>6, <1>7, <3>2 DEF DeviceInv
    <3>. QED
      BY <3>1, <3>2
  <2>3. Account!SessionsHaveDevices'
    BY <1>1 DEF DeviceInv, Account!SessionsHaveDevices
  <2>. QED
    BY <2>2, <2>3 DEF DeviceInv
<1>. QED
  BY <1>12, <1>13, <1>14, <1>15, <1>16, <1>18, <1>19, <1>20 DEF AccountInd, AccountCore

LEMMA IdleIs ==
  /\ Account!Idle.op = "none" /\ Account!Idle.phase = "new"
  /\ Account!Idle.todo = <<>> /\ Account!Idle.session = Account!NoToken /\ Account!Idle.device = "none"
  /\ Account!Idle.token = Account!NoToken /\ Account!Idle.via = Account!NoToken
BY DEF Account!Idle

(* Requests of an account as a whole, of one of its devices, and of an administrator. *)
PlainPlans ==
  {<<"putToken">>, Account!PasswordChange, Account!Deactivation, Account!DeviceDeletion, Account!AdminUpdate,
   Account!Reactivation, Account!AdminCreation, Account!Purge, <<>>}

LEMMA PlainPlansAre ==
  \A todo \in PlainPlans : /\ AccountTodo("none", todo) /\ todo \in Seq(AccountSteps)
                           /\ todo # <<>> => Head(todo) \notin {"dropDevice", "dropDevices"}
<1>1. ASSUME NEW h \in {"putToken", "endAll", "deactivate", "reactivate", "newUser"}
      PROVE  <<h>> \in Seq(AccountSteps) /\ Head(<<h>>) = h
  BY ShortLists DEF AccountSteps
<1>2. <<>> \in Seq(AccountSteps)
  BY ShortLists
<1>3. /\ Account!Deactivation \in Seq(AccountSteps)
      /\ Head(Account!Deactivation) = "deactivate"
  BY ShortLists DEF Account!Deactivation, AccountSteps
<1>4. /\ Account!DeviceDeletion \in Seq(AccountSteps)
      /\ Head(Account!DeviceDeletion) = "endDevice"
  BY ShortLists DEF Account!DeviceDeletion, AccountSteps
<1>5. Account!Purge \in Seq(AccountSteps) /\ Head(Account!Purge) = "endAll"
  BY ShortLists DEF Account!Purge, AccountSteps
<1>6. \A todo \in PlainPlans : AccountTodo("none", todo)
  BY DEF PlainPlans, AccountTodo
<1>7. ASSUME NEW todo \in {<<"putToken">>, Account!PasswordChange, Account!AdminUpdate, Account!Reactivation,
                          Account!AdminCreation}
      PROVE  /\ todo \in Seq(AccountSteps)
             /\ Head(todo) \notin {"dropDevice", "dropDevices"}
  BY <1>1 DEF Account!PasswordChange, Account!AdminUpdate, Account!Reactivation, Account!AdminCreation
<1>. QED
  BY <1>2, <1>3, <1>4, <1>5, <1>6, <1>7 DEF PlainPlans

LEMMA OpenOf ==
  ASSUME NEW q, NEW r, Account!Open(q, r)
  PROVE  /\ ~Account!Begun(q) /\ req' = [req EXCEPT ![q] = [r EXCEPT !.phase = "open"]]
         /\ UNCHANGED <<devices, access, refreshes, deleted, has, ended, troubled, late>>
BY DEF Account!Open

LEMMA PlainStays ==
  ASSUME AccountInd, NEW q \in AccountRequests, NEW todo \in PlainPlans, NEW d \in Devices \cup {"none"}, Account!Keeps,
         Account!Open(q, [Account!Idle EXCEPT !.todo = todo, !.device = d])
  PROVE  AccountInd'
<1>1. PICK r : r = [Account!Idle EXCEPT !.todo = todo, !.device = d]
  OBVIOUS
<1>2. /\ r = [op |-> "none", phase |-> "new", todo |-> todo, session |-> Account!NoToken, device |-> d,
              token |-> Account!NoToken, via |-> Account!NoToken]
  BY <1>1 DEF Account!Idle
<1>3. r.op = "none" /\ r.todo = todo
  BY <1>2
<1>4. /\ AccountTodo("none", todo) /\ todo \in Seq(AccountSteps)
      /\ todo # <<>> => Head(todo) \notin {"dropDevice", "dropDevices"}
  BY PlainPlansAre
<1>5. [r EXCEPT !.phase = "open"] \in AccountCalls
  BY <1>2, <1>4 DEF AccountCalls
<1>6. ~Account!Begun(q) /\ UNCHANGED <<devices, access, refreshes, deleted, has, ended, troubled, late>>
      /\ req' = [req EXCEPT ![q] = [r EXCEPT !.phase = "open"]]
  BY <1>1, OpenOf
<1>7. OpensAs(q, r)
  BY <1>3, <1>4, <1>5, <1>6 DEF OpensAs
<1>8. OpensWith(q, r)
  BY <1>3, <1>4 DEF OpensWith
<1>9. raced \subseteq raced'
  BY DEF Account!Keeps
<1>. QED
  BY <1>6, <1>7, <1>8, <1>9, OpenStays

LEMMA PlainOpens ==
  ASSUME AccountInd, NEW q \in AccountRequests,
         \/ Account!GetLoginToken(q) \/ Account!OpenAdmin(q)
         \/ \E s \in Account!Sessions : Account!OpenUserEnd(q, s)
              \/ \E d \in Devices : Account!OpenDeleteDevice(q, s, d)
  PROVE  AccountInd'
<1>1. ASSUME NEW todo \in PlainPlans, Account!Keeps, Account!Open(q, [Account!Idle EXCEPT !.todo = todo])
      PROVE AccountInd'
  <2>1. PICK d \in Devices \cup {"none"} : d = "none"
    OBVIOUS
  <2>2. PICK r : r = [Account!Idle EXCEPT !.todo = todo, !.device = d]
    OBVIOUS
  <2>3. PICK z : z = [Account!Idle EXCEPT !.todo = todo]
    OBVIOUS
  <2>4. r = [op |-> "none", phase |-> "new", todo |-> todo, session |-> Account!NoToken, device |-> d,
             token |-> Account!NoToken, via |-> Account!NoToken]
    BY <2>2 DEF Account!Idle
  <2>5. z = [op |-> "none", phase |-> "new", todo |-> todo, session |-> Account!NoToken, device |-> "none",
             token |-> Account!NoToken, via |-> Account!NoToken]
    BY <2>3 DEF Account!Idle
  <2>6. r = z
    BY <2>1, <2>4, <2>5
  <2>. QED
    BY <1>1, <2>2, <2>3, <2>6, PlainStays
<1>2. CASE Account!GetLoginToken(q)
  BY <1>1, <1>2 DEF Account!GetLoginToken, PlainPlans
<1>3. CASE Account!OpenAdmin(q)
  <2>1. PICK plan \in {Account!AdminDeactivation, Account!AdminUpdate, Account!AdminReset, Account!AdminSessions,
                       Account!Reactivation, Account!AdminCreation, Account!Purge, Account!BulkDelete({user}),
                       Account!Cleanup} :
          Account!Keeps /\ Account!Open(q, [Account!Idle EXCEPT !.todo = plan])
    BY <1>3 DEF Account!OpenAdmin
  <2>2. plan \in PlainPlans
    BY DEF PlainPlans, Account!AdminDeactivation, Account!Deactivation, Account!AdminReset, Account!AdminSessions,
       Account!PasswordChange, Account!BulkDelete, Account!Cleanup
  <2>. QED
    BY <1>1, <2>1, <2>2
<1>4. ASSUME NEW s \in Account!Sessions, Account!OpenUserEnd(q, s) PROVE AccountInd'
  <2>1. PICK plan \in {Account!PasswordChange, Account!Deactivation} :
          Account!Keeps /\ Account!Open(q, [Account!Idle EXCEPT !.todo = plan])
    BY <1>4 DEF Account!OpenUserEnd
  <2>. QED
    BY <1>1, <2>1 DEF PlainPlans
<1>5. ASSUME NEW s \in Account!Sessions, NEW d \in Devices, Account!OpenDeleteDevice(q, s, d) PROVE AccountInd'
  <2>1. PICK plan \in {Account!DeviceDeletion, Account!DevicesDeletion({d})} :
          Account!Keeps /\ Account!Open(q, [Account!Idle EXCEPT !.todo = plan, !.device = d])
    BY <1>5 DEF Account!OpenDeleteDevice
  <2>2. plan \in PlainPlans
    BY DEF PlainPlans, Account!DevicesDeletion
  <2>. QED
    BY <2>1, <2>2, PlainStays
<1>. QED
  BY <1>2, <1>3, <1>4, <1>5

(* A session begins. *)
LEMMA BeginStays ==
  ASSUME AccountInd, NEW q \in AccountRequests, NEW d \in Devices, NEW op \in {"register", "login"},
         NEW todo \in {Account!Registration, Account!Uninhibited, Account!PasswordLogin, Account!TokenLogin},
         NEW via \in Account!Sessions \cup {Account!NoToken},
         NEW r, r = [op |-> op, phase |-> "new", todo |-> todo, session |-> q, device |-> d,
                     token |-> Account!NoToken, via |-> via],
         IF op = "register" THEN todo \in {Account!Registration, Account!Uninhibited}
                                    ELSE todo \in {Account!PasswordLogin, Account!TokenLogin},
         Account!Open(q, r), raced \subseteq raced',
         via # Account!NoToken => \A p \in AccountRequests : req[p].via = via => via \in raced'
  PROVE  AccountInd'
<1>1. /\ todo \in Seq(AccountSteps) /\ todo # <<>>
      /\ "newToken" \in Items(todo) \/ "newRefresh" \notin Items(todo)
      /\ Head(todo) \notin {"dropDevice", "dropDevices"}
  <2>1. CASE todo = Account!Registration
    BY <2>1, ShortLists DEF Account!Registration, AccountSteps
  <2>2. CASE todo = Account!Uninhibited
    BY <2>2, ShortLists DEF Account!Uninhibited, AccountSteps
  <2>3. CASE todo = Account!PasswordLogin
    BY <2>3, ShortLists DEF Account!PasswordLogin, AccountSteps
  <2>4. CASE todo = Account!TokenLogin
    BY <2>4, TokenLoginIs, ShortLists DEF AccountSteps
  <2>. QED
    BY <2>1, <2>2, <2>3, <2>4
<1>2. r.op = op /\ r.todo = todo /\ r.session = q /\ r.via = via
  OBVIOUS
<1>3. AccountTodo(op, todo)
  BY DEF AccountTodo
<1>4. [r EXCEPT !.phase = "open"] \in AccountCalls
  BY <1>1 DEF AccountCalls, Account!Sessions
<1>5. ~Account!Begun(q) /\ UNCHANGED <<devices, access, refreshes, deleted, has, ended, troubled, late>>
      /\ req' = [req EXCEPT ![q] = [r EXCEPT !.phase = "open"]]
  BY OpenOf
<1>6. OpensAs(q, r)
  BY <1>1, <1>2, <1>3, <1>4, <1>5 DEF OpensAs
<1>7. OpensWith(q, r)
  BY <1>1, <1>2 DEF OpensWith
<1>. QED
  BY <1>5, <1>6, <1>7, OpenStays

LEMMA BeginOpens ==
  ASSUME AccountInd, NEW q \in AccountRequests, NEW d \in Devices, Account!OpenRegister(q, d)
      \/ Account!OpenPasswordLogin(q, d)
  PROVE  AccountInd'
<1>1. raced \subseteq raced'
  BY DEF Account!OpenRegister, Account!OpenPasswordLogin, Account!Keeps
<1>2. CASE Account!OpenRegister(q, d)
  <2>1. PICK todo \in {Account!Registration, Account!Uninhibited} :
          Account!Open(q, [Account!Idle EXCEPT !.op = "register", !.todo = todo, !.session = q, !.device = d])
    BY <1>2 DEF Account!OpenRegister
  <2>2. PICK r : r = [Account!Idle EXCEPT !.op = "register", !.todo = todo, !.session = q, !.device = d]
    OBVIOUS
  <2>3. /\ Account!Open(q, r)
        /\ r = [op |-> "register", phase |-> "new", todo |-> todo, session |-> q, device |-> d,
                token |-> Account!NoToken, via |-> Account!NoToken]
    BY <2>1, <2>2 DEF Account!Idle
  <2>. QED
    BY <1>1, <2>3, BeginStays
<1>3. CASE Account!OpenPasswordLogin(q, d)
  <2>2. PICK r : r = [Account!Idle EXCEPT !.op = "login", !.todo = Account!PasswordLogin, !.session = q, !.device = d]
    OBVIOUS
  <2>3. /\ Account!Open(q, r)
        /\ r = [op |-> "login", phase |-> "new", todo |-> Account!PasswordLogin, session |-> q, device |-> d,
                token |-> Account!NoToken, via |-> Account!NoToken]
    BY <1>3, <2>2 DEF Account!Idle, Account!OpenPasswordLogin
  <2>. QED
    BY <1>1, <2>3, BeginStays
<1>. QED
  BY <1>2, <1>3

LEMMA TokenOpens ==
  ASSUME AccountInd, NEW q \in AccountRequests, NEW d \in Devices, NEW t \in Account!Sessions,
         Account!OpenTokenLogin(q, t, d)
  PROVE  AccountInd'
<1>1. /\ raced' = IF \E p \in AccountRequests : req[p].via = t THEN raced \cup {t} ELSE raced
      /\ Account!Open(q, [Account!Idle EXCEPT !.op = "login", !.todo = Account!TokenLogin, !.session = q,
                                              !.device = d, !.via = t])
  BY DEF Account!OpenTokenLogin
<1>2. PICK r : r = [Account!Idle EXCEPT !.op = "login", !.todo = Account!TokenLogin, !.session = q, !.device = d,
                                       !.via = t]
  OBVIOUS
<1>3. /\ Account!Open(q, r)
      /\ r = [op |-> "login", phase |-> "new", todo |-> Account!TokenLogin, session |-> q, device |-> d,
              token |-> Account!NoToken, via |-> t]
  BY <1>1, <1>2 DEF Account!Idle
<1>4. raced \subseteq raced' /\ \A p \in AccountRequests : req[p].via = t => t \in raced'
  BY <1>1
<1>. QED
  BY <1>3, <1>4, BeginStays

LEMMA RefreshOpens ==
  ASSUME AccountInd, NEW q \in AccountRequests, NEW f \in refreshes \cup deleted, Account!OpenRefresh(q, f)
  PROVE  AccountInd'
<1>1. AccountTypes /\ CallInv /\ HasInv /\ TokenInv
  BY DEF AccountInd, AccountCore
<1>2. /\ f.id \in Account!Sessions /\ SessionOf(f.id) \in Account!Sessions
      /\ f.session = SessionOf(f.id) /\ f.device = Account!DeviceOf(SessionOf(f.id)) /\ f.access = f.id
  BY <1>1, RefreshIs
<1>3. /\ has[f.session] = f.id
      /\ raced' = IF f \in deleted \/ \E p \in AccountRequests : req[p].op = "refresh" /\ req[p].via = f.id
                  THEN raced \cup {f.session} ELSE raced
      /\ Account!Open(q, [Account!Idle EXCEPT !.op = "refresh", !.todo = Account!Refreshing, !.session = f.session,
                                              !.device = f.device, !.token = f.access, !.via = f.id])
  BY DEF Account!OpenRefresh
<1>4. PICK x, s, d : x = f.id /\ s = f.session /\ d = f.device
  OBVIOUS
<1>5. PICK r : r = [Account!Idle EXCEPT !.op = "refresh", !.todo = Account!Refreshing, !.session = s, !.device = d,
                                       !.token = x, !.via = x]
  OBVIOUS
<1>6. /\ Account!Open(q, r)
      /\ r = [op |-> "refresh", phase |-> "new", todo |-> Account!Refreshing, session |-> s, device |-> d,
              token |-> x, via |-> x]
  BY <1>2, <1>3, <1>4, <1>5 DEF Account!Idle
<1>7. /\ Granted(x) /\ SessionOf(x) = s /\ Started(s) /\ s \in Account!Sessions /\ x \in Account!Sessions
      /\ d = Account!DeviceOf(s) /\ has[s] = x
  BY <1>1, <1>2, <1>3, <1>4, NotAToken DEF HasInv, HasSound
<1>8. d \in Devices \cup {FirstDevice, "none"}
  <2>1. CASE s = 0
    BY <1>7, <2>1 DEF Account!DeviceOf
  <2>2. CASE s \in AccountRequests /\ s # 0
    BY <1>1, <1>7, <2>2 DEF Account!DeviceOf, AccountTypes, AccountCalls
  <2>. QED
    BY <1>7, <2>1, <2>2 DEF Account!Sessions
<1>9. /\ Account!Refreshing \in Seq(AccountSteps) /\ "dropAccess" \in Items(Account!Refreshing)
      /\ "newToken" \in Items(Account!Refreshing)
      /\ Head(Account!Refreshing) = "useRefresh"
  BY ShortLists DEF Account!Refreshing, AccountSteps
<1>10. /\ r.op = "refresh" /\ r.todo = Account!Refreshing /\ r.session = s /\ r.device = d /\ r.token = x /\ r.via = x
  BY <1>6
<1>11. AccountTodo("refresh", Account!Refreshing)
  BY DEF AccountTodo
<1>12. [r EXCEPT !.phase = "open"] \in AccountCalls
  BY <1>6, <1>7, <1>8, <1>9 DEF AccountCalls
<1>13. ~Account!Begun(q) /\ UNCHANGED <<devices, access, refreshes, deleted, has, ended, troubled, late>>
       /\ req' = [req EXCEPT ![q] = [r EXCEPT !.phase = "open"]]
  BY <1>6, OpenOf
<1>14. raced \subseteq raced' /\ \A p \in AccountRequests : req[p].op = "refresh" /\ req[p].via = x =>
         req[p].session = s /\ s \in raced'
  BY <1>1, <1>3, <1>4, <1>7 DEF CallInv, CallSound
<1>15. OpensAs(q, r)
  BY <1>7, <1>9, <1>10, <1>11, <1>12, <1>13, <1>14 DEF OpensAs
<1>16. OpensWith(q, r)
  BY <1>7, <1>9, <1>10 DEF OpensWith
<1>. QED
  BY <1>13, <1>14, <1>15, <1>16, OpenStays

(* A request about one token, of whatever session. *)
LEMMA OneTokenOpens ==
  ASSUME AccountInd, NEW q \in AccountRequests, NEW s \in Account!Sessions, NEW x \in Account!Sessions, Account!Keeps,
         Account!Open(q, [Account!Idle EXCEPT !.todo = <<"endOne">>, !.session = s, !.token = x])
  PROVE  AccountInd'
<1>1. PICK r : r = [Account!Idle EXCEPT !.todo = <<"endOne">>, !.session = s, !.token = x]
  OBVIOUS
<1>2. /\ Account!Open(q, r)
      /\ r = [op |-> "none", phase |-> "new", todo |-> <<"endOne">>, session |-> s, device |-> "none", token |-> x,
              via |-> Account!NoToken]
  BY <1>1 DEF Account!Idle
<1>3. /\ <<"endOne">> \in Seq(AccountSteps) /\ Head(<<"endOne">>) = "endOne"
  BY ShortLists DEF AccountSteps
<1>4. r.op = "none" /\ r.todo = <<"endOne">> /\ r.session = s /\ r.token = x
  BY <1>2
<1>5. AccountTodo("none", <<"endOne">>)
  BY DEF AccountTodo
<1>6. [r EXCEPT !.phase = "open"] \in AccountCalls
  BY <1>2, <1>3 DEF AccountCalls
<1>7. ~Account!Begun(q) /\ UNCHANGED <<devices, access, refreshes, deleted, has, ended, troubled, late>>
      /\ req' = [req EXCEPT ![q] = [r EXCEPT !.phase = "open"]]
  BY <1>2, OpenOf
<1>8. OpensAs(q, r)
  BY <1>3, <1>4, <1>5, <1>6, <1>7 DEF OpensAs
<1>9. OpensWith(q, r)
  BY <1>4 DEF OpensWith
<1>10. raced' = raced
  BY DEF Account!Keeps
<1>. QED
  BY <1>7, <1>8, <1>9, <1>10, OpenStays

LEMMA LogoutOpens ==
  ASSUME AccountInd, NEW q \in AccountRequests, NEW s \in Account!Sessions, Account!OpenLogout(q, s)
  PROVE  AccountInd'
<1>1. CallInv /\ TokenInv
  BY DEF AccountInd, AccountCore
<1>2. PICK t \in access : t.id = has[s]
  BY DEF Account!OpenLogout, Account!Auth
<1>3. has[s] \in Account!Sessions
  BY <1>1, <1>2, AccessIs
<1>4. /\ Account!Keeps
      /\ Account!Open(q, [Account!Idle EXCEPT !.todo = <<"endOne">>, !.session = s, !.token = has[s]])
  BY DEF Account!OpenLogout
<1>. QED
  BY <1>3, <1>4, OneTokenOpens

LEMMA RevokeOpens ==
  ASSUME AccountInd, NEW q \in AccountRequests, NEW t \in access, Account!OpenRevoke(q, t)
  PROVE  AccountInd'
<1>1. CallInv /\ TokenInv
  BY DEF AccountInd, AccountCore
<1>2. t.id \in Account!Sessions /\ t.session \in Account!Sessions
  BY <1>1, AccessIs
<1>3. /\ Account!Keeps
      /\ Account!Open(q, [Account!Idle EXCEPT !.todo = <<"endOne">>, !.session = t.session, !.token = t.id])
  BY DEF Account!OpenRevoke
<1>. QED
  BY <1>2, <1>3, OneTokenOpens

LoginTokens == loginTokens \subseteq AccountRequests

LEMMA LoginTokensStay == ASSUME LoginTokens, Account!AccountNext PROVE LoginTokens'
<1>1. CASE Account!Lapse
  BY <1>1 DEF Account!Lapse, LoginTokens
<1>2. ASSUME NEW q \in AccountRequests, Account!Arrive(q) PROVE LoginTokens'
  <2>1. \E r : Account!Open(q, r)
    BY <1>2 DEF Account!Arrive, Account!GetLoginToken, Account!OpenAdmin, Account!OpenRefresh, Account!OpenLogout,
                Account!OpenRevoke, Account!OpenUserEnd, Account!OpenDeleteDevice, Account!OpenRegister, Account!OpenPasswordLogin,
                Account!OpenTokenLogin
  <2>. QED
    BY <2>1 DEF Account!Open, LoginTokens
<1>3. ASSUME NEW q \in AccountRequests, Account!UseToken(q) \/ Account!PutToken(q) PROVE LoginTokens'
  BY <1>3 DEF Account!UseToken, Account!PutToken, LoginTokens
<1>4. ASSUME NEW q \in AccountRequests,
             \/ Account!Answer(q) \/ Account!Stop(q)
             \/ Account!NewUser(q) \/ Account!CheckUser(q) \/ Account!NewDevice(q)
             \/ Account!NewToken(q) \/ Account!NewRefresh(q)
             \/ Account!UseRefresh(q) \/ Account!DropAccess(q) \/ Account!DropDevice(q) \/ Account!DropDevices(q)
             \/ Account!SetActive(q, "deactivate", "deactivated") \/ Account!SetActive(q, "reactivate", "active")
      PROVE  LoginTokens'
  BY <1>4 DEF LoginTokens, Account!Answer, Account!Stop, Account!NewUser, Account!CheckUser, Account!NewDevice,
              Account!NewToken, Account!NewRefresh, Account!UseRefresh, Account!DropAccess, Account!DropDevice,
              Account!DropDevices, Account!SetActive
<1>5. ASSUME NEW q \in AccountRequests,
             Account!EndOne(q) \/ Account!EndAll(q) \/ Account!EndDevice(q) \/ Account!DropUser(q)
      PROVE  LoginTokens'
  BY <1>5 DEF LoginTokens, Account!EndOne, Account!EndAll, Account!EndDevice, Account!DropUser, Account!Ends
<1>. QED
  BY <1>1, <1>2, <1>3, <1>4, <1>5 DEF Account!AccountNext

LEMMA ArriveStays == ASSUME AccountInd, LoginTokens, NEW q \in AccountRequests, Account!Arrive(q) PROVE AccountInd'
<1>1. CASE Account!GetLoginToken(q) \/ Account!OpenAdmin(q)
  BY <1>1, PlainOpens
<1>2. CASE \E f \in refreshes \cup deleted : Account!OpenRefresh(q, f)
  BY <1>2, RefreshOpens
<1>3. ASSUME NEW s \in Account!Sessions, Account!OpenLogout(q, s) PROVE AccountInd'
  BY <1>3, LogoutOpens
<1>7. ASSUME NEW t \in access, Account!OpenRevoke(q, t) PROVE AccountInd'
  BY <1>7, RevokeOpens
<1>4. ASSUME NEW s \in Account!Sessions, Account!OpenUserEnd(q, s)
         \/ \E d \in Devices : Account!OpenDeleteDevice(q, s, d) PROVE AccountInd'
  BY <1>4, PlainOpens
<1>5. ASSUME NEW d \in Devices, Account!OpenRegister(q, d) \/ Account!OpenPasswordLogin(q, d) PROVE AccountInd'
  BY <1>5, BeginOpens
<1>6. ASSUME NEW d \in Devices, NEW t \in loginTokens, Account!OpenTokenLogin(q, t, d) PROVE AccountInd'
  <2>1. t \in Account!Sessions
    BY DEF LoginTokens, Account!Sessions
  <2>. QED
    BY <1>6, <2>1, TokenOpens
<1>. QED
  BY <1>1, <1>2, <1>3, <1>4, <1>5, <1>6, <1>7 DEF Account!Arrive

LEMMA AccountStep == ASSUME AccountInd, LoginTokens, Account!AccountNext PROVE AccountInd'
<1>1. CASE Account!Lapse
  BY <1>1, LapseStays
<1>2. ASSUME NEW q \in AccountRequests, Account!Arrive(q) PROVE AccountInd'
  BY <1>2, ArriveStays
<1>3. ASSUME NEW q \in AccountRequests, Account!Answer(q) PROVE AccountInd'
  BY <1>3, AnswerStays
<1>4. ASSUME NEW q \in AccountRequests, Account!Stop(q) PROVE AccountInd'
  BY <1>4, StopStays
<1>5. ASSUME NEW q \in AccountRequests, Account!NewUser(q) PROVE AccountInd'
  BY <1>5, NewUserStays
<1>6. ASSUME NEW q \in AccountRequests, Account!UseToken(q) \/ Account!PutToken(q) PROVE AccountInd'
  BY <1>6, TokenSteps
<1>7. ASSUME NEW q \in AccountRequests, Account!CheckUser(q) PROVE AccountInd'
  BY <1>7, CheckUserStays
<1>8. ASSUME NEW q \in AccountRequests, Account!NewDevice(q) PROVE AccountInd'
  BY <1>8, NewDeviceStays
<1>9. ASSUME NEW q \in AccountRequests, Account!NewToken(q) PROVE AccountInd'
  BY <1>9, NewTokenStays
<1>10. ASSUME NEW q \in AccountRequests, Account!NewRefresh(q) PROVE AccountInd'
  BY <1>10, NewRefreshStays
<1>11. ASSUME NEW q \in AccountRequests, Account!UseRefresh(q) PROVE AccountInd'
  BY <1>11, UseRefreshStays
<1>12. ASSUME NEW q \in AccountRequests, Account!DropAccess(q) PROVE AccountInd'
  BY <1>12, DropAccessStays
<1>13. ASSUME NEW q \in AccountRequests, Account!EndOne(q) PROVE AccountInd'
  BY <1>13, EndOneStays
<1>14. ASSUME NEW q \in AccountRequests, Account!EndAll(q) \/ Account!DropUser(q) PROVE AccountInd'
  BY <1>14, EndAllStays
<1>15. ASSUME NEW q \in AccountRequests, Account!EndDevice(q) PROVE AccountInd'
  BY <1>15, EndDeviceStays
<1>16. ASSUME NEW q \in AccountRequests, Account!DropDevice(q) \/ Account!DropDevices(q) PROVE AccountInd'
  BY <1>16, DropDeviceStays
<1>17. ASSUME NEW q \in AccountRequests,
              Account!SetActive(q, "deactivate", "deactivated") \/ Account!SetActive(q, "reactivate", "active")
       PROVE  AccountInd'
  BY <1>17, SetActiveStays
<1>. QED
  BY <1>1, <1>2, <1>3, <1>4, <1>5, <1>6, <1>7, <1>8, <1>9, <1>10, <1>11, <1>12, <1>13, <1>14, <1>15, <1>16, <1>17
     DEF Account!AccountNext

LEMMA AccountStutter == ASSUME AccountInd, UNCHANGED accountVars PROVE AccountInd'
<1>1. UNCHANGED <<devices, access, refreshes, deleted, req, has, ended, troubled, raced, late>>
  BY DEF accountVars
<1>2. AccountCore /\ AccountTypes /\ CallInv /\ TokenInv /\ DeviceInv
  BY DEF AccountInd, AccountCore
<1>3. \A q \in AccountRequests : (IsOpen(q)' <=> IsOpen(q)) /\ (Account!Begun(q)' <=> Account!Begun(q))
         /\ ToRun(q)' = ToRun(q)
  BY <1>1 DEF IsOpen, Account!Begun, ToRun
<1>4. Steady /\ CallTypes'
  BY <1>1, <1>2, <1>3 DEF Steady, AccountTypes, CallTypes
<1>5. AccessLost /\ RefreshLost
  BY <1>1 DEF AccessLost, RefreshLost, Ids
<1>6. TokensMade
  BY <1>1, <1>3 DEF TokensMade, HasRefresh, Ids
<1>7. Troubles
  BY <1>1, <1>3 DEF Troubles
<1>8. AccountCore'
  BY <1>1, <1>2, <1>3, <1>4, <1>5, <1>6, <1>7, CoreStays
<1>9. \A x : \A p \in AccountRequests : Account!At(p, x)' => Account!At(p, x)
  BY <1>1 DEF Account!At
<1>10. DeviceInv'
  BY <1>1, <1>2, <1>4, <1>9, DevicesStay
<1>. QED
  BY <1>8, <1>10 DEF AccountInd

LEMMA AccountBegins == ASSUME Account!AccountInit PROVE AccountInd /\ LoginTokens
<1>1. /\ deleted = {} /\ loginTokens = {} /\ req = [q \in AccountRequests |-> Account!Idle] /\ ended = {}
      /\ troubled = {}
      /\ raced = {} /\ late = {}
  BY DEF Account!AccountInit
<1>2. PICK there \in BOOLEAN :
        /\ devices = IF there THEN {FirstDevice} ELSE {}
        /\ access = IF there THEN {[id |-> 0, session |-> 0, device |-> FirstDevice, via |-> Account!NoToken]} ELSE {}
        /\ refreshes = IF there THEN {[id |-> 0, session |-> 0, device |-> FirstDevice, access |-> 0]} ELSE {}
        /\ has = [s \in Account!Sessions |-> IF there /\ s = 0 THEN 0 ELSE Account!NoToken]
  <2>1. (user = "active") \in BOOLEAN
    OBVIOUS
  <2>. QED
    BY <2>1 DEF Account!AccountInit
<1>3. \A q \in AccountRequests : /\ req[q] = Account!Idle /\ req[q].op = "none" /\ req[q].phase = "new"
                                 /\ req[q].todo = <<>>
                                 /\ ~Account!Begun(q) /\ ~IsOpen(q) /\ ~Issues(q) /\ ToRun(q) = {}
  BY <1>1, IdleIs, ShortLists DEF Account!Begun, IsOpen, Issues, ToRun
<1>4. 0 \in Account!Sessions /\ Account!NoToken # 0
  BY DEF Account!Sessions, Account!NoToken
<1>5. AccountTypes
  <2>1. <<>> \in Seq(AccountSteps)
    OBVIOUS
  <2>2. Account!Idle \in AccountCalls
    BY <2>1 DEF Account!Idle, AccountCalls
  <2>3. AccountTodo("none", <<>>)
    BY DEF AccountTodo
  <2>4. has \in [Account!Sessions -> Account!Sessions \cup {Account!NoToken}]
    BY <1>2, <1>4
  <2>. QED
    BY <1>1, <1>3, <2>2, <2>3, <2>4 DEF AccountTypes
<1>6. CallInv
  BY <1>3 DEF CallInv, CallSound
<1>7. SessionOf(0) = 0 /\ Granted(0) /\ Started(0) /\ Account!DeviceOf(0) = FirstDevice
  BY DEF SessionOf, Granted, Started, Account!DeviceOf
<1>8. \A s \in Account!Sessions : has[s] # Account!NoToken => there /\ s = 0 /\ has[s] = 0
  BY <1>2
<1>9. HasInv
  BY <1>7, <1>8 DEF HasInv, HasSound
<1>10. TokenInv
  <2>1. ASSUME NEW t \in access PROVE TokenSound(t)
    <3>1. t = [id |-> 0, session |-> 0, device |-> FirstDevice, via |-> Account!NoToken]
      BY <1>2
    <3>2. t.id = 0 /\ t = TokenOf(0)
      BY <1>7, <3>1 DEF TokenOf
    <3>. QED
      BY <1>4, <3>2 DEF TokenSound
  <2>2. ASSUME NEW f \in refreshes \cup deleted PROVE RefreshSound(f)
    <3>1. f = [id |-> 0, session |-> 0, device |-> FirstDevice, access |-> 0]
      BY <1>1, <1>2
    <3>2. f.id = 0 /\ f = RefreshOf(0)
      BY <1>7, <3>1 DEF RefreshOf
    <3>. QED
      BY <1>4, <3>2 DEF RefreshSound
  <2>. QED
    BY <2>1, <2>2 DEF TokenInv
<1>11. OnceReadInv
  BY <1>3 DEF OnceReadInv
<1>12. ChainInv
  <2>1. ASSUME NEW t \in access PROVE IssuedSound(t)
    BY <1>2, <1>4, <2>1 DEF IssuedSound
  <2>. QED
    BY <1>3, <2>1 DEF ChainInv, ReplacedSound, DroppedSound
<1>13. ClientInv
  <2>1. there => 0 \in Ids(access) /\ 0 \in Ids(refreshes)
    BY <1>2 DEF Ids
  <2>. QED
    BY <1>3, <1>8, <2>1 DEF ClientInv, ClientSound, TokensSent
<1>14. DeviceInv
  <2>1. \A q \in AccountRequests : ~Account!At(q, "dropDevice") /\ ~Account!At(q, "dropDevices")
    BY <1>3 DEF Account!At
  <2>2. Account!SessionsHaveDevices
    BY <1>2 DEF Account!SessionsHaveDevices
  <2>. QED
    BY <2>1, <2>2 DEF DeviceInv
<1>15. LoginTokens
  BY <1>1 DEF LoginTokens
<1>. QED
  BY <1>5, <1>6, <1>9, <1>10, <1>11, <1>12, <1>13, <1>14, <1>15 DEF AccountInd, AccountCore

(* What the invariant says of clients and tokens. *)
LEMMA AccountIndSound == ASSUME AccountInd PROVE Account!AccountSound
<1>1. /\ AccountTypes /\ CallInv /\ HasInv /\ TokenInv /\ OnceReadInv /\ ChainInv /\ ClientInv /\ DeviceInv
  BY DEF AccountInd, AccountCore
<1>2. ASSUME NEW t \in access, NEW u \in access, t.id = u.id PROVE t = u
  BY <1>1, <1>2 DEF TokenInv, TokenSound
<1>3. \A t \in access : /\ t.id \in Account!Sessions /\ t.id # Account!NoToken /\ t.id \in Ids(access)
                        /\ t.session = SessionOf(t.id)
  BY <1>1, AccessIs, NotAToken DEF Ids
<1>4. \A p \in AccountRequests : req[p].op = "refresh" => req[p].via # Account!NoToken
  BY <1>1, NotAToken DEF CallInv, CallSound
<1>5. ASSUME NEW t \in access, NEW u \in access, t # u, t.session = u.session PROVE t.session \in raced
  <2>1. SUFFICES ASSUME t.session \notin raced PROVE FALSE
    OBVIOUS
  <2>2. PICK s, x, y : s = t.session /\ x = t.id /\ y = u.id
    OBVIOUS
  <2>3. /\ x # y /\ x \in Ids(access) /\ y \in Ids(access) /\ x # Account!NoToken /\ y # Account!NoToken
        /\ SessionOf(x) = s /\ SessionOf(y) = s
    BY <1>2, <1>3, <1>5, <2>2
  <2>4. /\ \/ x = has[s]
           \/ x \in AccountRequests /\ req[x].op = "refresh" /\ req[x].via = has[s]
           \/ x = s /\ has[s] = Account!NoToken
        /\ \/ y = has[s]
           \/ y \in AccountRequests /\ req[y].op = "refresh" /\ req[y].via = has[s]
           \/ y = s /\ has[s] = Account!NoToken
    BY <1>1, <1>5, <2>1, <2>2 DEF ChainInv, IssuedSound
  <2>5. \A p \in AccountRequests : req[p].op = "refresh" /\ p \in Ids(access) => req[p].via \notin Ids(access)
    BY <1>1 DEF ChainInv, DroppedSound
  <2>6. CASE has[s] = Account!NoToken
    BY <1>4, <2>3, <2>4, <2>6
  <2>7. CASE has[s] # Account!NoToken /\ (x = has[s] \/ y = has[s])
    BY <2>3, <2>4, <2>5, <2>7
  <2>8. CASE has[s] # Account!NoToken /\ x # has[s] /\ y # has[s]
    <3>1. /\ x \in AccountRequests /\ y \in AccountRequests /\ req[x].op = "refresh" /\ req[y].op = "refresh"
          /\ req[x].via = req[y].via
      BY <2>4, <2>8
    <3>2. req[x].session \in raced
      BY <1>1, <2>3, <3>1 DEF OnceReadInv
    <3>3. x # 0
      BY <3>1, AccountAssumption
    <3>4. req[x].session = s
      BY <2>3, <3>3 DEF SessionOf
    <3>. QED
      BY <2>1, <2>2, <3>2, <3>4
  <2>. QED
    BY <2>6, <2>7, <2>8
<1>6. ASSUME NEW t \in access, NEW u \in access, t # u, t.via = u.via, t.via # Account!NoToken PROVE t.via \in raced
  <2>1. t.via = (IF t.id # 0 /\ req[t.id].op = "login" THEN req[t.id].via ELSE Account!NoToken)
    <3>1. t = TokenOf(t.id)
      BY <1>1, AccessIs
    <3>2. TokenOf(t.id).via = (IF t.id # 0 /\ req[t.id].op = "login" THEN req[t.id].via ELSE Account!NoToken)
      BY DEF TokenOf
    <3>. QED
      BY <3>1, <3>2
  <2>2. u.via = (IF u.id # 0 /\ req[u.id].op = "login" THEN req[u.id].via ELSE Account!NoToken)
    <3>1. u = TokenOf(u.id)
      BY <1>1, AccessIs
    <3>2. TokenOf(u.id).via = (IF u.id # 0 /\ req[u.id].op = "login" THEN req[u.id].via ELSE Account!NoToken)
      BY DEF TokenOf
    <3>. QED
      BY <3>1, <3>2
  <2>3. /\ t.id \in AccountRequests /\ u.id \in AccountRequests /\ t.id # u.id
        /\ req[t.id].op = "login" /\ req[u.id].op = "login" /\ req[t.id].via = req[u.id].via /\ req[t.id].via = t.via
    BY <1>2, <1>3, <1>6, <2>1, <2>2 DEF Account!Sessions
  <2>. QED
    BY <1>1, <1>6, <2>3 DEF OnceReadInv
<1>7. Account!TokensServeOnce
  BY <1>5, <1>6 DEF Account!TokensServeOnce
<1>8. Account!ClientsStayLoggedIn
  <2>1. SUFFICES ASSUME NEW s \in Account!Sessions \ (ended \cup troubled), has[s] # Account!NoToken,
                        \A q \in AccountRequests : req[q].op = "refresh" /\ req[q].session = s => req[q].phase # "open"
                 PROVE  has[s] \in Ids(access) /\ has[s] \in Ids(refreshes)
    BY DEF Account!ClientsStayLoggedIn, Ids
  <2>2. SessionOf(has[s]) = s
    BY <1>1, <2>1 DEF HasInv, HasSound
  <2>3. \A q \in AccountRequests : ~DropsAccess(q, has[s]) /\ ~UsesRefresh(q, has[s])
    BY <1>1, <2>1, <2>2 DEF DropsAccess, UsesRefresh, IsOpen, CallInv, CallSound
  <2>. QED
    BY <1>1, <2>1, <2>3 DEF ClientInv, ClientSound, Away
<1>9. Account!SessionsHaveDevices
  BY <1>1 DEF DeviceInv
<1>. QED
  BY <1>7, <1>8, <1>9 DEF Account!AccountSound, Account!TokensSound

-----------------------------------------------------------------------------
(* All that holds of the account, when it is that which runs. *)
AccountIndHere == part = "account" => AccountInd /\ LoginTokens

(* A refresh token and a login token serve once: a session has one access token and a login token begins one
   session, unless a token was read twice, by requests that overlapped or from a KV that still had it.  An access
   token's device is there, unless it was gone or going when the token was issued.  A client that no request
   logged out, and whose refreshes were answered, finds both the tokens it was given last (login.ts, account.ts,
   devices.ts, admin.ts). *)
THEOREM AccountIsSound == DevicesSpec => []AccountSound
<1>1. DevicesInit => AccountIndHere
  BY AccountBegins DEF DevicesInit, AccountIndHere
<1>2. AccountIndHere /\ [DevicesNext]_devicesVars => AccountIndHere'
  <2>1. SUFFICES ASSUME AccountIndHere, [DevicesNext]_devicesVars, part' = "account"
                 PROVE  AccountInd' /\ LoginTokens'
    BY DEF AccountIndHere
  <2>2. part' = part
    BY <2>1 DEF DevicesNext, AllEnded, devicesVars
  <2>3. AccountInd /\ LoginTokens
    BY <2>1, <2>2 DEF AccountIndHere
  <2>4. CASE Account!AccountNext
    BY <2>3, <2>4, AccountStep, LoginTokensStay
  <2>5. CASE UNCHANGED accountVars
    <3>1. LoginTokens'
      BY <2>3, <2>5 DEF LoginTokens, accountVars
    <3>. QED
      BY <2>3, <2>5, <3>1, AccountStutter
  <2>6. Account!AccountNext \/ UNCHANGED accountVars
    BY <2>1, <2>2 DEF DevicesNext, AllEnded, devicesVars
  <2>. QED
    BY <2>4, <2>5, <2>6
<1>3. AccountIndHere => AccountSound
  BY AccountIndSound DEF AccountIndHere, AccountSound
<1>. QED
  BY <1>1, <1>2, <1>3, PTL DEF DevicesSpec
=============================================================================
