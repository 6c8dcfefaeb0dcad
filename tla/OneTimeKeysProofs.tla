-------------------------- MODULE OneTimeKeysProofs --------------------------
(***************************************************************************)
(* What is to serve once, for any requests, stops and stale reads:         *)
(* one-time keys (OneTimeKeys), and the grants of OAuth (OAuth, a part of  *)
(* UserServices, which shares no name with OneTimeKeys).                   *)
(*                                                                         *)
(* One-time keys.  No key of an answered upload is ever out of reach, and  *)
(* the use of the fallback key is told.  The KV value may lose keys to     *)
(* overlapping writes, but an upload inserts each of its keys into D1      *)
(* before it is answered, rows are never removed, and a row is marked      *)
(* claimed only for a key that some claim chose.  So when a claim finds no *)
(* unclaimed row, every key that was uploaded before has been taken.  A    *)
(* key goes to two claims only for a cause: claims that met no request     *)
(* leave what they handed out unclaimed nowhere (ReuseHasACause).          *)
(*                                                                         *)
(* Grants.  What nothing raced is in one place: an entry of KV, a request  *)
(* that has it in hand, or a session (HoldInv); a refresh token is that of *)
(* one session, and new until its request has answered (TokenInv); what a  *)
(* client was given last is there, or a refresh that has deleted it goes   *)
(* on (GoInv).                                                             *)
(***************************************************************************)
EXTENDS OneTimeKeys, UserServices, TLAPS

(* What a request has done in the phase it is in. *)
PhaseInv ==
  /\ \A c \in Claims :
       /\ phase[c] \in {"new", "choosing", "exhausted"} => chosen[c] = None
       /\ phase[c] = "marking" => chosen[c] \in taken
       /\ phase[c] = "using" => fallback.key # None
  /\ \A u \in Uploads : phase[u] = "fallback" => FallbackOf[u] # None

(* The rows an upload has inserted so far. *)
InsertedInv ==
  \A u \in Uploads : \A k \in KeysOf[u] :
    \/ phase[u] = "inserting" /\ k \notin todo[u]
    \/ phase[u] \in {"fallback", "answered"}
    => d1[k] # "absent"

(* Rows are marked for taken keys only, and there for all that is owed. *)
RowInv ==
  /\ \A k \in Keys : d1[k] = "claimed" => k \in taken
  /\ \A c \in Claims : \A k \in owed[c] : d1[k] # "absent"

Inv == TypeOK /\ PhaseInv /\ InsertedInv /\ RowInv /\ FallbackIsLast /\ FallbackUseTold

LEMMA InitInv == ConstantsAssumption /\ Init => Inv
<1> SUFFICES ASSUME ConstantsAssumption, Init PROVE Inv
  OBVIOUS
<1> USE DEF Init, NoCopy, Requests
<1>1. TypeOK
  BY DEF TypeOK, Stores
<1>2. PhaseInv /\ InsertedInv /\ RowInv
  BY DEF PhaseInv, InsertedInv, RowInv, ConstantsAssumption
<1>3. FallbackIsLast /\ FallbackUseTold
  BY DEF FallbackIsLast, FallbackUseTold
<1>4. QED
  BY <1>1, <1>2, <1>3 DEF Inv

-----------------------------------------------------------------------------
(* One step of a request, as a case of Next. *)
Step ==
  \/ \E u \in Uploads : UploadGet(u)
  \/ \E u \in Uploads, k \in Keys : UploadInsert(u, k)
  \/ \E u \in Uploads : UploadPut(u)
  \/ \E u \in Uploads : UploadFallback(u)
  \/ \E c \in Claims : ClaimGet(c)
  \/ \E c \in Claims : ClaimPut(c)
  \/ \E c \in Claims : ClaimMark(c)
  \/ \E c \in Claims : ClaimSelect(c)
  \/ \E c \in Claims : ClaimFallback(c)
  \/ \E c \in Claims : ClaimUseFallback(c)
  \/ \E r \in Requests : Stop(r)

LEMMA NextIsStep == Next => Step
BY DEF Next, UploadStep, ClaimStep, Step, Requests

LEMMA GetType ==
  ASSUME TypeOK, NEW r \in Requests, Get(r)
  PROVE  copy' \in [Requests -> Stores] /\ stale' \in Nat
<1>1. CASE copy' = [copy EXCEPT ![r] = kv] /\ UNCHANGED stale
  BY <1>1 DEF TypeOK
<1>2. CASE /\ stale' = stale + 1
           /\ \E value \in old \ {kv} : copy' = [copy EXCEPT ![r] = value]
  BY <1>2 DEF TypeOK
<1>3. QED
  BY <1>1, <1>2 DEF Get

LEMMA NextTypeOK == ConstantsAssumption /\ Inv /\ Next => TypeOK'
<1> SUFFICES ASSUME ConstantsAssumption, Inv, Step PROVE TypeOK'
  BY NextIsStep
<1> USE DEF ConstantsAssumption, TypeOK, Requests, Stores
<1>0. TypeOK /\ PhaseInv
  BY DEF Inv
<1>1. ASSUME NEW u \in Uploads, UploadGet(u) PROVE TypeOK'
  <2>1. copy' \in [Requests -> Stores] /\ stale' \in Nat
    BY <1>0, <1>1, GetType DEF UploadGet
  <2>2. met' \subseteq Requests
    BY <1>0, <1>1 DEF UploadGet, Begin, Active
  <2>3. todo' \in [Uploads -> SUBSET Keys]
    BY <1>0, <1>1 DEF UploadGet
  <2>4. phase' \in [Requests -> {"new", "inserting", "fallback", "choosing", "marking",
                               "exhausted", "using", "answered", "stopped"}]
    BY <1>0, <1>1 DEF UploadGet
  <2>5. QED
    BY <1>0, <1>1, <2>1, <2>2, <2>3, <2>4 DEF UploadGet, storeVars
<1>2. ASSUME NEW u \in Uploads, NEW k \in Keys, UploadInsert(u, k) PROVE TypeOK'
  BY <1>0, <1>2 DEF UploadInsert
<1>3. ASSUME NEW u \in Uploads, UploadPut(u) PROVE TypeOK'
  BY <1>0, <1>3 DEF UploadPut, Put, Forget, NoCopy
<1>4. ASSUME NEW u \in Uploads, UploadFallback(u) PROVE TypeOK'
  BY <1>0, <1>4 DEF UploadFallback, PhaseInv
<1>5. ASSUME NEW c \in Claims, ClaimGet(c) PROVE TypeOK'
  <2>1. Untaken \subseteq Keys
    BY DEF Untaken
  <2>2. copy' \in [Requests -> Stores] /\ stale' \in Nat
    BY <1>0, <1>5, GetType DEF ClaimGet
  <2>3. met' \subseteq Requests
    BY <1>0, <1>5 DEF ClaimGet, Begin, Active
  <2>4. QED
    BY <1>0, <1>5, <2>1, <2>2, <2>3 DEF ClaimGet, Begin, storeVars
<1>6. ASSUME NEW c \in Claims, ClaimPut(c) PROVE TypeOK'
  BY <1>0, <1>6 DEF ClaimPut, Put, Forget, NoCopy, Free
<1>7. ASSUME NEW c \in Claims, ClaimMark(c) PROVE TypeOK'
  BY <1>0, <1>7 DEF ClaimMark, historyVars
<1>8. ASSUME NEW c \in Claims, ClaimSelect(c) PROVE TypeOK'
  <2>1. chosen' \in [Claims -> Keys \cup Fallbacks \cup {None}] /\ taken' \subseteq Keys
    <3>1. CASE UNCHANGED <<chosen, taken>>
      BY <1>0, <3>1
    <3>2. CASE \E k \in Free(d1) : chosen' = [chosen EXCEPT ![c] = k] /\ taken' = taken \cup {k}
      <4>1. PICK k \in Keys : chosen' = [chosen EXCEPT ![c] = k] /\ taken' = taken \cup {k}
        BY <3>2 DEF Free
      <4>2. QED
        BY <1>0, <4>1
    <3>3. QED
      BY <1>8, <3>1, <3>2 DEF ClaimSelect
  <2>2. copy' \in [Requests -> Stores]
    BY <1>0, <1>8 DEF ClaimSelect, Forget, NoCopy
  <2>3. phase' \in [Requests -> {"new", "inserting", "fallback", "choosing", "marking",
                               "exhausted", "using", "answered", "stopped"}]
    BY <1>0, <1>8 DEF ClaimSelect
  <2>4. QED
    BY <1>0, <1>8, <2>1, <2>2, <2>3 DEF ClaimSelect, storeVars
<1>9. ASSUME NEW c \in Claims, ClaimFallback(c) PROVE TypeOK'
  BY <1>0, <1>9 DEF ClaimFallback, storeVars, historyVars
<1>10. ASSUME NEW c \in Claims, ClaimUseFallback(c) PROVE TypeOK'
  BY <1>0, <1>10 DEF ClaimUseFallback, historyVars, PhaseInv
<1>11. ASSUME NEW r \in Requests, Stop(r) PROVE TypeOK'
  BY <1>0, <1>11 DEF Stop, Forget, NoCopy, storeVars, historyVars
<1> HIDE DEF TypeOK
<1>12. QED
  BY <1>1, <1>2, <1>3, <1>4, <1>5, <1>6, <1>7, <1>8, <1>9, <1>10, <1>11 DEF Step

(* A step takes no key back, removes no row, and marks only rows of taken keys. *)
LEMMA RowStep ==
  ASSUME ConstantsAssumption, Inv, Step
  PROVE  /\ taken \subseteq taken'
         /\ \A k \in Keys : d1[k] # "absent" => d1'[k] # "absent"
         /\ \A k \in Keys : d1'[k] = "claimed" => k \in taken'
<1> USE DEF Inv, RowInv
<1>1. CASE \E u \in Uploads, k \in Keys : UploadInsert(u, k)
  BY <1>1 DEF UploadInsert, TypeOK, Stores
<1>2. CASE \E c \in Claims : ClaimMark(c)
  BY <1>2 DEF ClaimMark, TypeOK, Stores, PhaseInv, historyVars
<1>3. CASE \E u \in Uploads : UploadGet(u) \/ UploadPut(u) \/ UploadFallback(u)
  BY <1>3 DEF UploadGet, UploadPut, UploadFallback, storeVars
<1>4. CASE \E c \in Claims : ClaimGet(c) \/ ClaimPut(c) \/ ClaimSelect(c)
  BY <1>4 DEF ClaimGet, ClaimPut, ClaimSelect, storeVars
<1>5. CASE \E c \in Claims : ClaimFallback(c) \/ ClaimUseFallback(c)
  BY <1>5 DEF ClaimFallback, ClaimUseFallback, storeVars, historyVars
<1>6. CASE \E r \in Requests : Stop(r)
  BY <1>6 DEF Stop, storeVars, historyVars
<1>7. QED
  BY <1>1, <1>2, <1>3, <1>4, <1>5, <1>6 DEF Step

LEMMA NextPhaseInv == ConstantsAssumption /\ Inv /\ Next => PhaseInv'
<1> SUFFICES ASSUME ConstantsAssumption, Inv, Step PROVE PhaseInv'
  BY NextIsStep
<1> USE DEF PhaseInv, Requests, ConstantsAssumption
<1>0. TypeOK /\ PhaseInv
  BY DEF Inv
<1>1. ASSUME NEW u \in Uploads, UploadGet(u) PROVE PhaseInv'
  BY <1>0, <1>1 DEF UploadGet, Begin, TypeOK, storeVars
<1>2. ASSUME NEW u \in Uploads, NEW k \in Keys, UploadInsert(u, k) PROVE PhaseInv'
  BY <1>0, <1>2 DEF UploadInsert
<1>3. ASSUME NEW u \in Uploads, UploadPut(u) PROVE PhaseInv'
  BY <1>0, <1>3 DEF UploadPut, TypeOK
<1>4. ASSUME NEW u \in Uploads, UploadFallback(u) PROVE PhaseInv'
  BY <1>0, <1>4 DEF UploadFallback, TypeOK
<1>5. ASSUME NEW c \in Claims, ClaimGet(c) PROVE PhaseInv'
  BY <1>0, <1>5 DEF ClaimGet, Begin, TypeOK, storeVars
<1>6. ASSUME NEW c \in Claims, ClaimPut(c) PROVE PhaseInv'
  BY <1>0, <1>6 DEF ClaimPut, TypeOK
<1>7. ASSUME NEW c \in Claims, ClaimMark(c) PROVE PhaseInv'
  BY <1>0, <1>7 DEF ClaimMark, TypeOK, historyVars
<1>8. ASSUME NEW c \in Claims, ClaimSelect(c) PROVE PhaseInv'
  BY <1>0, <1>8 DEF ClaimSelect, TypeOK, storeVars
<1>9. ASSUME NEW c \in Claims, ClaimFallback(c) PROVE PhaseInv'
  BY <1>0, <1>9 DEF ClaimFallback, TypeOK, storeVars, historyVars
<1>10. ASSUME NEW c \in Claims, ClaimUseFallback(c) PROVE PhaseInv'
  BY <1>0, <1>10 DEF ClaimUseFallback, TypeOK, historyVars
<1>11. ASSUME NEW r \in Requests, Stop(r) PROVE PhaseInv'
  BY <1>0, <1>11 DEF Stop, TypeOK, storeVars, historyVars
<1>12. QED
  BY <1>1, <1>2, <1>3, <1>4, <1>5, <1>6, <1>7, <1>8, <1>9, <1>10, <1>11 DEF Step

LEMMA NextInsertedInv == ConstantsAssumption /\ Inv /\ Next => InsertedInv'
<1> SUFFICES ASSUME ConstantsAssumption, Inv, Step,
                    NEW u \in Uploads, NEW k \in KeysOf[u],
                    \/ phase'[u] = "inserting" /\ k \notin todo'[u]
                    \/ phase'[u] \in {"fallback", "answered"}
             PROVE  d1'[k] # "absent"
  BY NextIsStep DEF InsertedInv
<1> USE DEF InsertedInv, TypeOK, Requests, ConstantsAssumption
<1>0. TypeOK /\ InsertedInv
  BY DEF Inv
<1>1. d1[k] # "absent" => d1'[k] # "absent"
  BY RowStep
<1>2. CASE \E v \in Uploads : UploadGet(v)
  BY <1>0, <1>1, <1>2 DEF UploadGet, Begin, storeVars
<1>3. CASE \E v \in Uploads, j \in Keys : UploadInsert(v, j)
  <2>1. PICK v \in Uploads, j \in Keys : UploadInsert(v, j)
    BY <1>3
  <2>2. CASE v = u /\ j = k
    BY <1>0, <2>1, <2>2 DEF UploadInsert, Stores
  <2>3. CASE v # u \/ j # k
    BY <1>0, <1>1, <2>1, <2>3 DEF UploadInsert
  <2>4. QED
    BY <2>2, <2>3
<1>4. CASE \E v \in Uploads : UploadPut(v) \/ UploadFallback(v)
  BY <1>0, <1>1, <1>4 DEF UploadPut, UploadFallback
<1>5. CASE \E c \in Claims : ClaimGet(c) \/ ClaimPut(c) \/ ClaimMark(c) \/ ClaimSelect(c)
  BY <1>0, <1>1, <1>5 DEF ClaimGet, ClaimPut, ClaimMark, ClaimSelect
<1>6. CASE \E c \in Claims : ClaimFallback(c) \/ ClaimUseFallback(c)
  BY <1>0, <1>1, <1>6 DEF ClaimFallback, ClaimUseFallback
<1>7. CASE \E r \in Requests : Stop(r)
  BY <1>0, <1>1, <1>7 DEF Stop
<1>8. QED
  BY <1>2, <1>3, <1>4, <1>5, <1>6, <1>7 DEF Step

(* What a claim is owed is in D1 when it begins, and stays there. *)
LEMMA NextRowInv == ConstantsAssumption /\ Inv /\ Next => RowInv'
<1> SUFFICES ASSUME ConstantsAssumption, Inv, Step PROVE RowInv'
  BY NextIsStep
<1>0. TypeOK /\ RowInv /\ InsertedInv
  BY DEF Inv
<1>1. ASSUME NEW c \in Claims, NEW k \in owed'[c] PROVE d1'[k] # "absent"
  <2>1. CASE owed' = owed
    BY <1>0, <1>1, <2>1, RowStep DEF RowInv, TypeOK
  <2>2. CASE \E b \in Claims : ClaimGet(b)
    <3>1. \A j \in Untaken : j \in Keys /\ d1[j] # "absent"
      BY <1>0 DEF Untaken, InsertedInv, ConstantsAssumption
    <3>2. k \in owed[c] \/ k \in Untaken
      BY <1>0, <1>1, <2>2 DEF ClaimGet, TypeOK
    <3>3. QED
      BY <1>0, <3>1, <3>2, RowStep DEF RowInv, TypeOK
  <2>3. owed' = owed \/ \E b \in Claims : ClaimGet(b)
    BY DEF Step, UploadGet, UploadInsert, UploadPut, UploadFallback, ClaimPut, ClaimMark,
           ClaimSelect, ClaimFallback, ClaimUseFallback, Stop, historyVars
  <2>4. QED
    BY <2>1, <2>2, <2>3
<1>2. QED
  BY <1>1, RowStep DEF RowInv

-----------------------------------------------------------------------------
LEMMA NextFallbackIsLast == ConstantsAssumption /\ Inv /\ Next => FallbackIsLast'
<1> SUFFICES ASSUME ConstantsAssumption, Inv, Step, NEW c \in Claims,
                    phase'[c] \in {"exhausted", "using", "answered"}, chosen'[c] \notin Keys
             PROVE  owed'[c] \subseteq taken'
  BY NextIsStep DEF FallbackIsLast
<1> USE DEF TypeOK, Requests, ConstantsAssumption
<1>0. TypeOK /\ PhaseInv /\ RowInv /\ FallbackIsLast
  BY DEF Inv
<1>1. owed[c] \subseteq taken => owed[c] \subseteq taken'
  BY RowStep
<1>2. CASE \E u \in Uploads : UploadGet(u) \/ UploadPut(u) \/ UploadFallback(u)
  BY <1>0, <1>1, <1>2 DEF UploadGet, UploadPut, UploadFallback, FallbackIsLast
<1>3. CASE \E u \in Uploads, k \in Keys : UploadInsert(u, k)
  BY <1>0, <1>1, <1>3 DEF UploadInsert, FallbackIsLast
<1>4. CASE \E b \in Claims : ClaimGet(b)
  BY <1>0, <1>1, <1>4 DEF ClaimGet, FallbackIsLast
<1>5. CASE \E b \in Claims : ClaimPut(b)
  BY <1>0, <1>1, <1>5 DEF ClaimPut, FallbackIsLast
<1>6. CASE \E b \in Claims : ClaimMark(b)
  BY <1>0, <1>1, <1>6 DEF ClaimMark, FallbackIsLast, PhaseInv, historyVars
<1>7. CASE \E b \in Claims : ClaimSelect(b)
  <2>1. PICK b \in Claims : ClaimSelect(b)
    BY <1>7
  <2>2. CASE b = c
    <3>1. Free(d1) = {}
      BY <1>0, <2>1, <2>2 DEF ClaimSelect
    <3>2. \A k \in owed[c] : k \in Keys /\ d1[k] = "claimed"
      BY <1>0, <3>1 DEF RowInv, Free, Stores
    <3>3. owed[c] \subseteq taken
      BY <1>0, <3>2 DEF RowInv
    <3>4. QED
      BY <1>1, <2>1, <3>3 DEF ClaimSelect
  <2>3. CASE b # c
    <3>1. chosen'[c] = chosen[c] /\ phase'[c] = phase[c] /\ owed' = owed
      BY <1>0, <2>1, <2>3 DEF ClaimSelect
    <3>2. QED
      BY <1>0, <1>1, <3>1 DEF FallbackIsLast
  <2>4. QED
    BY <2>2, <2>3
<1>8. CASE \E b \in Claims : ClaimFallback(b) \/ ClaimUseFallback(b)
  BY <1>0, <1>1, <1>8 DEF ClaimFallback, ClaimUseFallback, FallbackIsLast, PhaseInv, historyVars
<1>9. CASE \E r \in Requests : Stop(r)
  BY <1>0, <1>1, <1>9 DEF Stop, FallbackIsLast, historyVars
<1>10. QED
  BY <1>2, <1>3, <1>4, <1>5, <1>6, <1>7, <1>8, <1>9 DEF Step

LEMMA NextFallbackUseTold == ConstantsAssumption /\ Inv /\ Next => FallbackUseTold'
<1> SUFFICES ASSUME ConstantsAssumption, Inv, Step, NEW c \in Claims, c \notin refreshed',
                    phase'[c] = "answered", chosen'[c] \in Fallbacks,
                    fallback'.key = chosen'[c]
             PROVE  fallback'.used
  BY NextIsStep DEF FallbackUseTold
<1> USE DEF TypeOK, Requests, ConstantsAssumption
<1>0. TypeOK /\ PhaseInv /\ FallbackUseTold
  BY DEF Inv
<1>1. CASE \E u \in Uploads : UploadGet(u) \/ UploadPut(u)
  BY <1>0, <1>1 DEF UploadGet, UploadPut, FallbackUseTold, storeVars
<1>2. CASE \E u \in Uploads, k \in Keys : UploadInsert(u, k)
  BY <1>0, <1>2 DEF UploadInsert, FallbackUseTold
<1>3. CASE \E u \in Uploads : UploadFallback(u)
  BY <1>0, <1>3 DEF UploadFallback, FallbackUseTold
<1>4. CASE \E b \in Claims : ClaimGet(b) \/ ClaimPut(b)
  BY <1>0, <1>4 DEF ClaimGet, ClaimPut, FallbackUseTold, storeVars
<1>5. CASE \E b \in Claims : ClaimMark(b)
  BY <1>0, <1>5 DEF ClaimMark, FallbackUseTold, PhaseInv, historyVars
<1>6. CASE \E b \in Claims : ClaimSelect(b)
  <2>1. PICK b \in Claims : ClaimSelect(b)
    BY <1>6
  <2>2. chosen'[c] = chosen[c] /\ phase'[c] = phase[c]
    BY <1>0, <2>1 DEF ClaimSelect
  <2>3. QED
    BY <1>0, <2>1, <2>2 DEF ClaimSelect, FallbackUseTold, storeVars
<1>7. CASE \E b \in Claims : ClaimFallback(b) \/ ClaimUseFallback(b)
  BY <1>0, <1>7 DEF ClaimFallback, ClaimUseFallback, FallbackUseTold, storeVars, historyVars
<1>8. CASE \E r \in Requests : Stop(r)
  BY <1>0, <1>8 DEF Stop, FallbackUseTold, storeVars, historyVars
<1>9. QED
  BY <1>1, <1>2, <1>3, <1>4, <1>5, <1>6, <1>7, <1>8 DEF Step

LEMMA Invariance == Spec => []Inv
<1>1. ConstantsAssumption /\ Inv /\ UNCHANGED vars => Inv'
  BY DEF Inv, TypeOK, PhaseInv, InsertedInv, RowInv, FallbackIsLast, FallbackUseTold, vars,
         storeVars, requestVars, historyVars
<1>2. ConstantsAssumption /\ Inv /\ [Next]_vars => Inv'
  BY <1>1, NextTypeOK, NextPhaseInv, NextInsertedInv, NextRowInv, NextFallbackIsLast,
     NextFallbackUseTold DEF Inv
<1>3. QED
  BY <1>2, InitInv, ConstantsAssumption, PTL DEF Spec

(* Every variable keeps its type. *)
THEOREM TypeCorrect == Spec => []TypeOK
<1>1. Inv => TypeOK
  BY DEF Inv
<1>2. QED
  BY <1>1, Invariance, PTL

(* However uploads and claims overlap, whichever workers stop and whatever KV
   returns, a claim is answered without a one-time key only when every key it
   could expect is taken. *)
THEOREM NoKeyOutOfReach == Spec => []FallbackIsLast
<1>1. Inv => FallbackIsLast
  BY DEF Inv
<1>2. QED
  BY <1>1, Invariance, PTL

(* A fallback key that was handed out is marked used until it is uploaded again. *)
THEOREM UseIsTold == Spec => []FallbackUseTold
<1>1. Inv => FallbackUseTold
  BY DEF Inv
<1>2. QED
  BY <1>1, Invariance, PTL
-----------------------------------------------------------------------------
(* Reuse of one-time keys *)

(* A claim that has chosen the key, unless its worker stopped. *)
Given(c, k) == phase[c] \in {"marking", "answered"} /\ chosen[c] = k

(* A copy is kept no longer than it is used, and requests that are under way together know of each other. *)
CopyInv ==
  /\ \A r \in Requests : phase[r] \notin {"inserting", "choosing"} => copy[r] = NoCopy
  /\ \A r \in Active : r \in met \/ Active = {r}

(* A claim that met no other request reads what it then changes. *)
FreshInv ==
  stale = 0 => \A c \in Claims \ met :
    /\ phase[c] = "choosing" => copy[c] = kv
    /\ phase[c] = "marking" => kv[chosen[c]] # "free"

(* What such a claim handed out is unclaimed nowhere: in KV, in D1, in a copy of the KV value. *)
SpentInv ==
  /\ \A c \in Claims, k \in Keys : Given(c, k) => k \in taken
  /\ \A c \in Claims : phase[c] = "using" => chosen[c] \notin Keys
  /\ stale = 0 => \A c \in Claims \ met, k \in Keys \ again : HandedOut(c, k) =>
       /\ kv[k] # "free" /\ d1[k] # "free"
       /\ \A r \in Requests : copy[r][k] # "free"

(* So no two of them choose the same key. *)
OnceInv ==
  stale = 0 => \A c, d \in Claims \ met, k \in Keys \ again :
    c # d => ~ (Given(c, k) /\ Given(d, k))

QuietInv == CopyInv /\ FreshInv /\ SpentInv /\ OnceInv

LEMMA InitQuietInv == ConstantsAssumption /\ Init => QuietInv
<1> SUFFICES ASSUME ConstantsAssumption, Init PROVE QuietInv
  OBVIOUS
<1> USE DEF Init, NoCopy, Requests
<1>1. CopyInv
  BY DEF CopyInv, Active
<1>2. FreshInv /\ SpentInv /\ OnceInv
  BY DEF FreshInv, SpentInv, OnceInv, HandedOut, Given
<1>3. QED
  BY <1>1, <1>2 DEF QuietInv

(* What makes a key's history less quiet is not forgotten. *)
LEMMA HistoryGrows ==
  ASSUME TypeOK, Step
  PROVE  met \subseteq met' /\ again \subseteq again' /\ (stale' = 0 => stale = 0)
<1>1. CASE \E u \in Uploads : UploadGet(u)
  BY <1>1 DEF UploadGet, Begin, Get, TypeOK
<1>2. CASE \E c \in Claims : ClaimGet(c)
  BY <1>2 DEF ClaimGet, Begin, Get, TypeOK
<1>3. CASE \E u \in Uploads : UploadPut(u) \/ UploadFallback(u)
  BY <1>3 DEF UploadPut, UploadFallback
<1>4. CASE \E u \in Uploads, k \in Keys : UploadInsert(u, k)
  BY <1>4 DEF UploadInsert
<1>5. CASE \E c \in Claims : ClaimPut(c) \/ ClaimMark(c) \/ ClaimSelect(c)
  BY <1>5 DEF ClaimPut, ClaimMark, ClaimSelect, historyVars
<1>6. CASE \E c \in Claims : ClaimFallback(c) \/ ClaimUseFallback(c)
  BY <1>6 DEF ClaimFallback, ClaimUseFallback, historyVars
<1>7. CASE \E r \in Requests : Stop(r)
  BY <1>7 DEF Stop, historyVars
<1>8. QED
  BY <1>1, <1>2, <1>3, <1>4, <1>5, <1>6, <1>7 DEF Step

(* The requests in progress change by the one that acts. *)
LEMMA ActiveStep ==
  ASSUME ConstantsAssumption, TypeOK, Step
  PROVE  \/ \E r \in Requests : Begin(r) /\ Active' = Active \cup {r}
         \/ Active' \subseteq Active /\ met' = met
<1> USE DEF TypeOK, Requests, ConstantsAssumption
<1>1. ASSUME NEW u \in Uploads, UploadGet(u) PROVE Begin(u) /\ Active' = Active \cup {u}
  BY <1>1 DEF UploadGet, Begin, Active
<1>2. ASSUME NEW c \in Claims, ClaimGet(c) PROVE Begin(c) /\ Active' = Active \cup {c}
  BY <1>2 DEF ClaimGet, Begin, Active
<1>3. CASE \E u \in Uploads : UploadPut(u)
  BY <1>3 DEF UploadPut, Active
<1>4. CASE \E u \in Uploads : UploadFallback(u)
  BY <1>4 DEF UploadFallback, Active
<1>5. CASE \E u \in Uploads, k \in Keys : UploadInsert(u, k)
  BY <1>5 DEF UploadInsert, Active
<1>6. CASE \E c \in Claims : ClaimPut(c) \/ ClaimMark(c)
  BY <1>6 DEF ClaimPut, ClaimMark, historyVars, Active
<1>7. CASE \E c \in Claims : ClaimSelect(c)
  BY <1>7 DEF ClaimSelect, Active
<1>8. CASE \E c \in Claims : ClaimFallback(c) \/ ClaimUseFallback(c)
  BY <1>8 DEF ClaimFallback, ClaimUseFallback, historyVars, Active
<1>9. CASE \E r \in Requests : Stop(r)
  BY <1>9 DEF Stop, historyVars, Active
<1>10. QED
  BY <1>1, <1>2, <1>3, <1>4, <1>5, <1>6, <1>7, <1>8, <1>9 DEF Step

(* While a claim that never meets another request is in progress nothing else acts. *)
LEMMA NothingElse ==
  ASSUME CopyInv, met \subseteq met',
         NEW c \in Active, c \notin met',
         NEW r \in Requests, r \in Active \/ Begin(r)
  PROVE  r = c
BY DEF CopyInv, Begin, Active

LEMMA NextCopyInv == ConstantsAssumption /\ Inv /\ CopyInv /\ Step => CopyInv'
<1> SUFFICES ASSUME ConstantsAssumption, Inv, CopyInv, Step PROVE CopyInv'
  OBVIOUS
<1>0. TypeOK
  BY DEF Inv
<1>1. ASSUME NEW r \in Requests, phase'[r] \notin {"inserting", "choosing"} PROVE copy'[r] = NoCopy
  <2> USE DEF TypeOK, Requests, CopyInv, ConstantsAssumption, Forget
  <2>1. CASE \E u \in Uploads : UploadGet(u)
    BY <1>0, <1>1, <2>1 DEF UploadGet, Begin, Get
  <2>2. CASE \E c \in Claims : ClaimGet(c)
    BY <1>0, <1>1, <2>2 DEF ClaimGet, Begin, Get
  <2>3. CASE \E u \in Uploads : UploadPut(u) \/ UploadFallback(u)
    BY <1>0, <1>1, <2>3 DEF UploadPut, UploadFallback
  <2>4. CASE \E u \in Uploads, k \in Keys : UploadInsert(u, k)
    BY <1>0, <1>1, <2>4 DEF UploadInsert
  <2>5. CASE \E c \in Claims : ClaimPut(c) \/ ClaimMark(c)
    BY <1>0, <1>1, <2>5 DEF ClaimPut, ClaimMark
  <2>6. CASE \E c \in Claims : ClaimSelect(c)
    BY <1>0, <1>1, <2>6 DEF ClaimSelect
  <2>7. CASE \E c \in Claims : ClaimFallback(c) \/ ClaimUseFallback(c)
    BY <1>0, <1>1, <2>7 DEF ClaimFallback, ClaimUseFallback
  <2>8. CASE \E q \in Requests : Stop(q)
    BY <1>0, <1>1, <2>8 DEF Stop
  <2>9. QED
    BY <2>1, <2>2, <2>3, <2>4, <2>5, <2>6, <2>7, <2>8 DEF Step
<1>2. ASSUME NEW r \in Active' PROVE r \in met' \/ Active' = {r}
  <2>1. CASE \E q \in Requests : Begin(q) /\ Active' = Active \cup {q}
    BY <1>2, <2>1 DEF Begin
  <2>2. CASE Active' \subseteq Active /\ met' = met
    BY <1>2, <2>2 DEF CopyInv
  <2>3. QED
    BY <1>0, <2>1, <2>2, ActiveStep
<1>3. NoCopy' = NoCopy
  BY DEF NoCopy
<1>4. QED
  BY <1>1, <1>2, <1>3 DEF CopyInv

LEMMA NextFreshInv == ConstantsAssumption /\ Inv /\ QuietInv /\ Step => FreshInv'
<1> SUFFICES ASSUME ConstantsAssumption, Inv, QuietInv, Step, stale' = 0,
                    NEW c \in Claims, c \notin met'
             PROVE  /\ phase'[c] = "choosing" => copy'[c] = kv'
                    /\ phase'[c] = "marking" => kv'[chosen'[c]] # "free"
  BY DEF FreshInv
<1> USE DEF Requests, ConstantsAssumption
<1>0. TypeOK /\ CopyInv /\ FreshInv /\ met \subseteq met' /\ stale = 0 /\ c \notin met
  BY HistoryGrows DEF Inv, QuietInv
<1>1. phase[c] \in {"choosing", "marking"} => c \in Active
  BY DEF Active
<1>2. ASSUME NEW r \in Requests, r # c, r \in Active \/ Begin(r), phase'[c] = phase[c]
      PROVE  phase'[c] \notin {"choosing", "marking"}
  BY <1>0, <1>1, <1>2, NothingElse
<1>3. ASSUME NEW u \in Uploads, UploadGet(u) PROVE phase'[c] \notin {"choosing", "marking"}
  BY <1>0, <1>2, <1>3 DEF UploadGet, TypeOK
<1>4. ASSUME NEW u \in Uploads, NEW k \in Keys, UploadInsert(u, k)
      PROVE  phase'[c] \notin {"choosing", "marking"}
  BY <1>0, <1>2, <1>4 DEF UploadInsert, TypeOK, Active
<1>5. ASSUME NEW u \in Uploads, UploadPut(u) \/ UploadFallback(u)
      PROVE  phase'[c] \notin {"choosing", "marking"}
  BY <1>0, <1>2, <1>5 DEF UploadPut, UploadFallback, TypeOK, Active
<1>6. ASSUME NEW b \in Claims, ClaimGet(b)
      PROVE  (b = c /\ phase'[c] = "choosing" /\ copy'[c] = kv') \/ phase'[c] \notin {"choosing", "marking"}
  <2>1. CASE b = c
    BY <1>0, <1>6, <2>1 DEF ClaimGet, Get, TypeOK, storeVars
  <2>2. CASE b # c
    BY <1>0, <1>2, <1>6, <2>2 DEF ClaimGet, TypeOK
  <2>3. QED
    BY <2>1, <2>2
<1>7. ASSUME NEW b \in Claims, ClaimPut(b)
      PROVE  (phase'[c] = "marking" /\ kv'[chosen'[c]] = "claimed") \/ phase'[c] \notin {"choosing", "marking"}
  <2>1. CASE b = c
    BY <1>0, <1>7, <2>1 DEF ClaimPut, Put, Free, TypeOK, Stores
  <2>2. CASE b # c
    BY <1>0, <1>2, <1>7, <2>2 DEF ClaimPut, TypeOK, Active
  <2>3. QED
    BY <2>1, <2>2
<1>8. ASSUME NEW b \in Claims, ClaimSelect(b)
      PROVE  (phase'[c] = "marking" /\ kv'[chosen'[c]] # "free") \/ phase'[c] \notin {"choosing", "marking"}
  <2>1. CASE b = c
    <3>1. copy[c] = kv /\ kv' = kv /\ \A k \in Keys : kv[k] # "free"
      BY <1>0, <1>8, <2>1 DEF ClaimSelect, FreshInv, Free, storeVars
    <3>2. phase'[c] = "marking" => chosen'[c] \in Keys
      BY <1>0, <1>8, <2>1 DEF ClaimSelect, TypeOK, Free
    <3>3. phase'[c] \in {"marking", "exhausted"}
      BY <1>0, <1>8, <2>1 DEF ClaimSelect, TypeOK
    <3>4. QED
      BY <3>1, <3>2, <3>3
  <2>2. CASE b # c
    BY <1>0, <1>2, <1>8, <2>2 DEF ClaimSelect, TypeOK, Active
  <2>3. QED
    BY <2>1, <2>2
<1>9. ASSUME NEW b \in Claims, ClaimMark(b) \/ ClaimFallback(b) \/ ClaimUseFallback(b)
      PROVE  phase'[c] \notin {"choosing", "marking"}
  <2>1. CASE b = c
    BY <1>0, <1>9, <2>1 DEF ClaimMark, ClaimFallback, ClaimUseFallback, TypeOK
  <2>2. CASE b # c
    BY <1>0, <1>2, <1>9, <2>2 DEF ClaimMark, ClaimFallback, ClaimUseFallback, TypeOK, Active
  <2>3. QED
    BY <2>1, <2>2
<1>10. ASSUME NEW r \in Requests, Stop(r) PROVE phase'[c] \notin {"choosing", "marking"}
  BY <1>0, <1>2, <1>10 DEF Stop, TypeOK
<1>11. QED
  BY <1>3, <1>4, <1>5, <1>6, <1>7, <1>8, <1>9, <1>10 DEF Step

LEMMA NextTaken ==
  ASSUME ConstantsAssumption, Inv, QuietInv, Step
  PROVE  /\ \A c \in Claims, k \in Keys : Given(c, k)' => k \in taken'
         /\ \A c \in Claims : phase'[c] = "using" => chosen'[c] \notin Keys
<1> USE DEF Requests, ConstantsAssumption, SpentInv, TypeOK, Given
<1>0. TypeOK /\ SpentInv
  BY DEF Inv, QuietInv
<1>1. CASE \E u \in Uploads : UploadGet(u) \/ UploadPut(u) \/ UploadFallback(u)
  BY <1>0, <1>1 DEF UploadGet, UploadPut, UploadFallback
<1>2. CASE \E u \in Uploads, k \in Keys : UploadInsert(u, k)
  BY <1>0, <1>2 DEF UploadInsert
<1>3. CASE \E b \in Claims : ClaimGet(b)
  BY <1>0, <1>3 DEF ClaimGet
<1>4. CASE \E b \in Claims : ClaimPut(b)
  BY <1>0, <1>4 DEF ClaimPut
<1>5. CASE \E b \in Claims : ClaimMark(b)
  BY <1>0, <1>5 DEF ClaimMark, historyVars
<1>6. CASE \E b \in Claims : ClaimSelect(b)
  <2>1. PICK b \in Claims : ClaimSelect(b)
    BY <1>6
  <2>2. \A c \in Claims \ {b} : phase'[c] = phase[c] /\ chosen'[c] = chosen[c]
    BY <1>0, <2>1 DEF ClaimSelect
  <2>3. taken \subseteq taken'
    BY <2>1 DEF ClaimSelect
  <2>4. phase'[b] = "exhausted" \/ (phase'[b] = "marking" /\ chosen'[b] \in taken')
    <3>1. CASE Free(d1) = {}
      BY <1>0, <2>1, <3>1 DEF ClaimSelect
    <3>2. CASE Free(d1) # {}
      <4>1. PICK k \in Free(d1) : chosen' = [chosen EXCEPT ![b] = k] /\ taken' = taken \cup {k}
        BY <2>1, <3>2 DEF ClaimSelect
      <4>2. QED
        BY <1>0, <2>1, <3>2, <4>1 DEF ClaimSelect
    <3>3. QED
      BY <3>1, <3>2
  <2>5. QED
    BY <1>0, <2>2, <2>3, <2>4
<1>7. CASE \E b \in Claims : ClaimFallback(b)
  BY <1>0, <1>7 DEF ClaimFallback, historyVars
<1>8. CASE \E b \in Claims : ClaimUseFallback(b)
  BY <1>0, <1>8 DEF ClaimUseFallback, historyVars
<1>9. CASE \E r \in Requests : Stop(r)
  BY <1>0, <1>9 DEF Stop, historyVars
<1>10. QED
  BY <1>1, <1>2, <1>3, <1>4, <1>5, <1>6, <1>7, <1>8, <1>9 DEF Step

LEMMA NextSpentInv == ConstantsAssumption /\ Inv /\ QuietInv /\ Step => SpentInv'
<1> SUFFICES ASSUME ConstantsAssumption, Inv, QuietInv, Step, stale' = 0,
                    NEW c \in Claims, c \notin met', NEW k \in Keys, k \notin again',
                    phase'[c] = "answered", chosen'[c] = k
             PROVE  /\ kv'[k] # "free" /\ d1'[k] # "free"
                    /\ \A r \in Requests : copy'[r][k] # "free"
  BY NextTaken DEF SpentInv, HandedOut
<1> USE DEF Requests, ConstantsAssumption, TypeOK
<1>0. /\ TypeOK /\ CopyInv /\ FreshInv /\ SpentInv /\ PhaseInv
      /\ met \subseteq met' /\ again \subseteq again' /\ stale = 0
  BY HistoryGrows DEF Inv, QuietInv
<1>1. CASE HandedOut(c, k)
  <2>1. /\ kv[k] # "free" /\ d1[k] # "free" /\ k \in taken
        /\ \A r \in Requests : copy[r][k] # "free"
    BY <1>0, <1>1 DEF SpentInv, HandedOut, Given
  <2>2. CASE \E u \in Uploads : UploadGet(u)
    BY <1>0, <2>1, <2>2 DEF UploadGet, Get, storeVars
  <2>3. CASE \E u \in Uploads, j \in Keys : UploadInsert(u, j)
    <3>1. PICK u \in Uploads, j \in Keys : UploadInsert(u, j)
      BY <2>3
    <3>2. j # k
      BY <2>1, <3>1 DEF UploadInsert
    <3>3. QED
      BY <1>0, <2>1, <3>1, <3>2 DEF UploadInsert, Stores
  <2>4. CASE \E u \in Uploads : UploadPut(u)
    BY <1>0, <2>1, <2>4 DEF UploadPut, Put, Forget, NoCopy
  <2>5. CASE \E u \in Uploads : UploadFallback(u)
    BY <2>1, <2>5 DEF UploadFallback
  <2>6. CASE \E b \in Claims : ClaimGet(b)
    BY <1>0, <2>1, <2>6 DEF ClaimGet, Get, storeVars
  <2>7. CASE \E b \in Claims : ClaimPut(b)
    BY <1>0, <2>1, <2>7 DEF ClaimPut, Put, Forget, NoCopy, Stores, Free
  <2>8. CASE \E b \in Claims : ClaimMark(b)
    BY <1>0, <2>1, <2>8 DEF ClaimMark, Stores
  <2>9. CASE \E b \in Claims : ClaimSelect(b)
    BY <1>0, <2>1, <2>9 DEF ClaimSelect, Forget, NoCopy, storeVars
  <2>10. CASE \E b \in Claims : ClaimFallback(b) \/ ClaimUseFallback(b)
    BY <2>1, <2>10 DEF ClaimFallback, ClaimUseFallback, storeVars
  <2>11. CASE \E r \in Requests : Stop(r)
    BY <1>0, <2>1, <2>11 DEF Stop, Forget, NoCopy, storeVars
  <2>12. QED
    BY <2>2, <2>3, <2>4, <2>5, <2>6, <2>7, <2>8, <2>9, <2>10, <2>11 DEF Step
<1>2. CASE ~ HandedOut(c, k)
  <2>1. CASE ClaimMark(c)
    <3>1. c \in Active /\ chosen[c] = k /\ phase[c] = "marking"
      BY <1>0, <2>1 DEF ClaimMark, Active
    <3>2. kv'[k] # "free"
      BY <1>0, <2>1, <3>1 DEF ClaimMark, FreshInv
    <3>3. d1'[k] # "free"
      BY <1>0, <2>1, <3>1 DEF ClaimMark, Stores
    <3>4. \A r \in Requests : r = c \/ phase[r] \notin {"inserting", "choosing"}
      BY <1>0, <3>1, NothingElse DEF Active
    <3>5. \A r \in Requests : copy'[r] = NoCopy
      BY <1>0, <2>1, <3>1, <3>4 DEF ClaimMark, CopyInv
    <3>6. QED
      BY <3>2, <3>3, <3>5 DEF NoCopy
  <2>2. ClaimMark(c)
    <3>1. phase[c] # "answered" \/ chosen[c] # k
      BY <1>2 DEF HandedOut
    <3>2. CASE \E u \in Uploads : UploadGet(u) \/ UploadPut(u) \/ UploadFallback(u)
      BY <1>0, <3>1, <3>2 DEF UploadGet, UploadPut, UploadFallback
    <3>3. CASE \E u \in Uploads, j \in Keys : UploadInsert(u, j)
      BY <1>0, <3>1, <3>3 DEF UploadInsert
    <3>4. CASE \E b \in Claims : ClaimGet(b) \/ ClaimPut(b)
      BY <1>0, <3>1, <3>4 DEF ClaimGet, ClaimPut
    <3>5. CASE \E b \in Claims : ClaimMark(b)
      BY <1>0, <3>1, <3>5 DEF ClaimMark
    <3>6. CASE \E b \in Claims : ClaimSelect(b)
      <4>1. PICK b \in Claims : ClaimSelect(b)
        BY <3>6
      <4>2. b # c
        BY <1>0, <4>1 DEF ClaimSelect
      <4>3. phase'[c] = phase[c] /\ chosen'[c] = chosen[c]
        BY <1>0, <4>1, <4>2 DEF ClaimSelect
      <4>4. QED
        BY <3>1, <4>3
    <3>7. CASE \E b \in Claims : ClaimFallback(b)
      BY <1>0, <3>1, <3>7 DEF ClaimFallback
    <3>8. CASE \E b \in Claims : ClaimUseFallback(b)
      BY <1>0, <3>1, <3>8 DEF ClaimUseFallback, SpentInv
    <3>9. CASE \E r \in Requests : Stop(r)
      BY <1>0, <3>1, <3>9 DEF Stop
    <3>10. QED
      BY <3>2, <3>3, <3>4, <3>5, <3>6, <3>7, <3>8, <3>9 DEF Step
  <2>3. QED
    BY <2>1, <2>2
<1>3. QED
  BY <1>1, <1>2

(* A claim finds no key unclaimed that one like it was given. *)
LEMMA NotGivenAgain ==
  ASSUME ConstantsAssumption, Inv, QuietInv, Step, stale' = 0,
         NEW b \in Claims, ClaimPut(b) \/ ClaimSelect(b),
         NEW c \in Claims, b # c, c \notin met', NEW k \in Keys, k \notin again', Given(c, k)
  PROVE  phase'[b] # "marking" \/ chosen'[b] # k
<1> USE DEF Requests, ConstantsAssumption, TypeOK
<1>0. /\ TypeOK /\ CopyInv /\ SpentInv
      /\ met \subseteq met' /\ again \subseteq again' /\ stale = 0
  BY HistoryGrows DEF Inv, QuietInv
<1>1. phase[c] # "marking"
  BY <1>0, NothingElse DEF Active, ClaimPut, ClaimSelect
<1>2. HandedOut(c, k)
  BY <1>1 DEF Given, HandedOut
<1>3. d1[k] # "free" /\ copy[b][k] # "free"
  BY <1>0, <1>2 DEF SpentInv
<1>4. CASE ClaimPut(b)
  BY <1>0, <1>3, <1>4 DEF ClaimPut, Free
<1>5. CASE ClaimSelect(b)
  BY <1>0, <1>3, <1>5 DEF ClaimSelect, Free
<1>6. QED
  BY <1>4, <1>5

LEMMA NextOnceInv == ConstantsAssumption /\ Inv /\ QuietInv /\ Step => OnceInv'
<1> SUFFICES ASSUME ConstantsAssumption, Inv, QuietInv, Step, stale' = 0,
                    NEW c \in Claims, NEW d \in Claims, c # d, c \notin met', d \notin met',
                    NEW k \in Keys, k \notin again', Given(c, k)', Given(d, k)'
             PROVE  FALSE
  BY DEF OnceInv
<1> USE DEF Requests, ConstantsAssumption, TypeOK
<1>0. /\ TypeOK /\ OnceInv /\ SpentInv
      /\ met \subseteq met' /\ again \subseteq again' /\ stale = 0
  BY HistoryGrows DEF Inv, QuietInv
<1>1. ~ (Given(c, k) /\ Given(d, k))
  BY <1>0 DEF OnceInv
<1>2. ASSUME NEW e \in Claims, Given(e, k)', ~ Given(e, k)
      PROVE  (ClaimPut(e) \/ ClaimSelect(e)) /\ phase'[e] = "marking" /\ chosen'[e] = k
  <2> USE DEF Given
  <2>1. CASE \E u \in Uploads : UploadGet(u) \/ UploadPut(u) \/ UploadFallback(u)
    BY <1>0, <1>2, <2>1 DEF UploadGet, UploadPut, UploadFallback
  <2>2. CASE \E u \in Uploads, j \in Keys : UploadInsert(u, j)
    BY <1>0, <1>2, <2>2 DEF UploadInsert
  <2>3. CASE \E b \in Claims : ClaimGet(b)
    BY <1>0, <1>2, <2>3 DEF ClaimGet
  <2>4. CASE \E b \in Claims : ClaimPut(b)
    BY <1>0, <1>2, <2>4 DEF ClaimPut
  <2>5. CASE \E b \in Claims : ClaimMark(b)
    BY <1>0, <1>2, <2>5 DEF ClaimMark
  <2>6. CASE \E b \in Claims : ClaimSelect(b)
    <3>1. PICK b \in Claims : ClaimSelect(b)
      BY <2>6
    <3>2. b # e => phase'[e] = phase[e] /\ chosen'[e] = chosen[e]
      BY <1>0, <3>1 DEF ClaimSelect
    <3>3. b = e
      BY <1>2, <3>2
    <3>4. phase'[e] \in {"exhausted", "marking"}
      BY <1>0, <3>1, <3>3 DEF ClaimSelect
    <3>5. QED
      BY <1>2, <3>1, <3>3, <3>4
  <2>7. CASE \E b \in Claims : ClaimFallback(b)
    BY <1>0, <1>2, <2>7 DEF ClaimFallback
  <2>8. CASE \E b \in Claims : ClaimUseFallback(b)
    BY <1>0, <1>2, <2>8 DEF ClaimUseFallback, SpentInv
  <2>9. CASE \E r \in Requests : Stop(r)
    BY <1>0, <1>2, <2>9 DEF Stop
  <2>10. QED
    BY <2>1, <2>2, <2>3, <2>4, <2>5, <2>6, <2>7, <2>8, <2>9 DEF Step
<1>3. ASSUME NEW e \in Claims, NEW f \in Claims, e # f, f \notin met', Given(e, k)', Given(f, k)'
      PROVE  Given(e, k)
  <2>1. CASE Given(f, k)
    BY <1>2, <1>3, <2>1, NotGivenAgain
  <2>2. CASE ~ Given(e, k) /\ ~ Given(f, k)
    BY <1>0, <1>2, <1>3, <2>2 DEF ClaimPut, ClaimSelect
  <2>3. QED
    BY <2>1, <2>2
<1>4. QED
  BY <1>1, <1>3

LEMMA QuietInvariance == Spec => []QuietInv
<1>1. QuietInv /\ UNCHANGED vars => QuietInv'
  BY DEF QuietInv, CopyInv, FreshInv, SpentInv, OnceInv, Given, HandedOut, Active, NoCopy, vars,
         storeVars, requestVars, historyVars
<1>2. ConstantsAssumption /\ Inv /\ QuietInv /\ [Next]_vars => QuietInv'
  BY <1>1, NextIsStep, NextCopyInv, NextFreshInv, NextSpentInv, NextOnceInv DEF QuietInv
<1>3. QED
  BY <1>2, InitQuietInv, Invariance, ConstantsAssumption, PTL DEF Spec

(* A one-time key is given to two claims only when one of them overlapped another request, KV
   returned an old value, or the device uploaded the key again: not because a worker stopped,
   and not where claims turn from KV to D1. *)
THEOREM ReuseHasACause == Spec => []ReuseExplained
<1>1. TypeOK /\ QuietInv => ReuseExplained
  BY DEF QuietInv, OnceInv, ReuseExplained, Given, HandedOut, TypeOK
<1>2. QED
  BY <1>1, TypeCorrect, QuietInvariance, PTL

-----------------------------------------------------------------------------
(* Grants of OAuth and of OpenID Connect *)

(* What a grant's request has still to run, by its kind. *)
GrantOps == {"none", "done", "authorize", "login", "revoke", "submit", "grant", "refresh", "callback"}
GrantTodo(of, list) ==
  /\ of \in {"none", "done"} => list = <<>>
  /\ of = "authorize" => list = <<"putAsk">>
  /\ of = "login" => list = <<"putState">>
  /\ of = "revoke" => list \in {<<"revokeRefresh">>, <<"revokeAccess">>}
  /\ of = "submit" =>
       list \in {<<"dropItem", "putCode">>, <<"dropItem", "putAsk">>, <<"putCode">>, <<"putAsk">>}
  /\ of = "grant" =>
       list \in {<<"dropItem", "newDevice", "newToken", "newRefresh", "answer">>, <<"dropItem">>,
                 <<"newDevice", "newToken", "newRefresh", "answer">>, <<"newToken", "newRefresh", "answer">>,
                 <<"newRefresh", "answer">>, <<"answer">>}
  /\ of = "refresh" =>
       list \in {Grants!Rotation, <<"dropItem", "newRefresh", "answer">>, <<"newRefresh", "answer">>, <<"answer">>}
  /\ of = "callback" =>
       list \in {<<"dropItem", "findLink">>, <<"findLink">>, <<"findUser">>, <<"createUser">> \o Grants!Linking,
                 Grants!Linking, Grants!Entering, <<"newToken">>}

(* A request has these fields. *)
GrantCall(r) ==
  /\ r = [op |-> r.op, todo |-> r.todo, item |-> r.item, root |-> r.root, session |-> r.session,
          client |-> r.client, device |-> r.device, subject |-> r.subject, name |-> r.name]
  /\ r.op \in GrantOps /\ GrantTodo(r.op, r.todo)

CallTypes == req = [q \in GrantRequests |-> req[q]] /\ \A q \in GrantRequests : GrantCall(req[q])

Refreshed == refreshes \cup {e \in dropped : e.kind = "refresh"}
Grantable == asks \cup codes \cup states
EntryTypes ==
  /\ \A e \in asks : e.kind = "ask"
  /\ \A e \in codes : e.kind = "code"
  /\ \A e \in states : e.kind = "state"
  /\ \A e \in refreshes : e.kind = "refresh"
MapTypes ==
  /\ links \in [Identities -> Names \cup {NoName}]
  /\ has = [s \in Grants!Ids |-> has[s]]
GrantTypes == CallTypes /\ EntryTypes /\ MapTypes

(* The statement a request is about to run. *)
Stage(q) == IF Grants!IsOpen(q) THEN Head(req[q].todo) ELSE "end"

(* What a request is about, by its kind. *)
Known == {0} \cup {q \in GrantRequests : Grants!Begun(q)}
CallSound(q) ==
  Stage(q) # "end" =>
    /\ req[q].op # "revoke" => req[q].root \in Known
    /\ req[q].op \in {"authorize", "login"} => req[q].root = q
    /\ req[q].op \in {"grant", "callback"} => req[q].session = q
    /\ req[q].op \in {"refresh", "revoke"} => req[q].session \in Known
    /\ req[q].op = "callback" => req[q].subject \in Identities /\ req[q].name \in Names
    /\ req[q].op # "callback" => req[q].subject = "none"
CallInv == \A q \in GrantRequests : CallSound(q)

(* What has been made so far is named 0 or for a request that has begun. *)
KnownInv ==
  /\ \A e \in Grantable \cup refreshes \cup dropped : e.id \in Known /\ e.root \in Known
  /\ \A e \in Refreshed : e.session \in Known
  /\ \A t \in access : t.root \in Known /\ t.session \in Known
  /\ \A s \in Grants!Ids : has[s] # Grants!NoId => s \in Known

(* Who enters as a user of a name has the link to it, and so has who has entered. *)
EntersSound(q) ==
  req[q].op = "callback" /\ Stage(q) \in {"newDevice", "newToken"} =>
    req[q].subject \in moved \/ links[req[q].subject] = req[q].name
EnteredSound(t) ==
  t.subject # "none" =>
    t.subject \in Identities /\ t.name \in Names /\ (t.subject \in moved \/ links[t.subject] = t.name)
LinkInv == (\A q \in GrantRequests : EntersSound(q)) /\ \A t \in access : EnteredSound(t)

(* A grant that nothing raced is in one place: an entry of KV, a request that has it in hand, or a session. *)
InHand(q, root) == Stage(q) # "end" /\ req[q].op \notin {"refresh", "revoke"} /\ req[q].root = root
Renews(q, s) == Stage(q) # "end" /\ req[q].op = "refresh" /\ req[q].session = s
OfSession(s, root) ==
  \/ \E t \in access : t.session = s /\ t.root = root
  \/ \E e \in refreshes : e.session = s /\ e.root = root
  \/ \E q \in GrantRequests : Renews(q, s) /\ req[q].root = root
IsFor(e, of) ==
  \/ e.kind = "ask" /\ of = "submit"
  \/ e.kind = "code" /\ of = "grant"
  \/ e.kind = "state" /\ of = "callback"

HoldSound(root) ==
  /\ \A e, f \in Grantable : e.root = root /\ f.root = root => e = f
  /\ \A p, q \in GrantRequests : InHand(p, root) /\ InHand(q, root) => p = q
  /\ \A s, t \in Grants!Ids : OfSession(s, root) /\ OfSession(t, root) => s = t
  /\ \A e \in Grantable, q \in GrantRequests : e.root = root /\ InHand(q, root) =>
       Stage(q) = "dropItem" /\ req[q].item = e.id /\ IsFor(e, req[q].op)
  /\ \A e \in Grantable, s \in Grants!Ids : e.root = root => ~OfSession(s, root)
  /\ \A q \in GrantRequests, s \in Grants!Ids : InHand(q, root) /\ OfSession(s, root) =>
       req[q].op \in {"grant", "callback"} /\ s = q
HoldInv == \A root \in Grants!Ids \ raced : HoldSound(root)

(* A refresh token is of one session, and new until its request has answered. *)
TokenInv ==
  /\ \A e, f \in Refreshed : e.id = f.id => e.session = f.session
  /\ \A s \in Grants!Ids, e \in Refreshed : has[s] = e.id => e.session = s
  /\ \A q \in GrantRequests, e \in Refreshed :
       Stage(q) # "end" /\ req[q].op \in {"refresh", "revoke"} /\ e.id = req[q].item => e.session = req[q].session
  /\ \A q \in GrantRequests, e \in Refreshed :
       Stage(q) # "end" /\ e.id = q => e.session = req[q].session /\ Stage(q) = "answer"
  /\ \A e \in Refreshed : has[e.session] = Grants!NoId => e.id = e.session

(* A token a client has is of a request that has ended, and so is one that is used or given back. *)
Ended(i) == i \in Known /\ (i \in GrantRequests => Stage(i) = "end")
HasEnded(s) == has[s] # Grants!NoId => Ended(has[s])
ItemEnded(q) ==
  Stage(q) # "end" /\ req[q].op \in {"refresh", "revoke"} => Ended(req[q].item) /\ has[req[q].session] # Grants!NoId
AnswerInv ==
  /\ \A s \in Grants!Ids : HasEnded(s)
  /\ \A q \in GrantRequests : ItemEnded(q)
  /\ \A q \in GrantRequests : Stage(q) # "end" /\ req[q].op = "grant" => has[q] = Grants!NoId
  /\ \A s \in revoked : s \in Grants!Ids /\ has[s] # Grants!NoId

(* A client's token is there, unless a refresh that has deleted it goes on. *)
Renewing(q, s) == Renews(q, s) /\ Stage(q) \in {"newRefresh", "answer"}
GoSound(s) ==
  /\ has[s] # Grants!NoId => \/ \E e \in refreshes : e.session = s /\ e.id = has[s]
                             \/ \E q \in GrantRequests : Renewing(q, s)
  /\ \A q \in GrantRequests : Stage(q) = "answer" /\ req[q].session = s =>
       \E e \in refreshes : e.session = s /\ e.id = q
GoInv == \A s \in Grants!Ids \ (revoked \cup spent) : GoSound(s)

(* A session that nothing raced has one token, or one request that renews it, and none when it was revoked. *)
Clear(s) == s \notin spent /\ \A e \in Refreshed : e.session = s => e.root \notin raced
SessionSound(s) ==
  /\ \A p, q \in GrantRequests : Renews(p, s) /\ Renews(q, s) => p = q
  /\ \A q \in GrantRequests : Renews(q, s) =>
       req[q].item = has[s] /\ \E e \in Refreshed : e.session = s /\ e.root = req[q].root
  /\ has[s] # Grants!NoId => \A e \in refreshes : e.session = s =>
       \/ e.id = has[s] /\ \A q \in GrantRequests : ~Renewing(q, s)
       \/ \E q \in GrantRequests : Renews(q, s) /\ e.id = q /\ Stage(q) = "answer"
  /\ s \in revoked => (\A e \in refreshes : e.session # s) /\ \A q \in GrantRequests : ~Renews(q, s)
SessionInv == \A s \in Grants!Ids : Clear(s) => SessionSound(s)

RefreshInv == TokenInv /\ AnswerInv /\ GoInv /\ SessionInv
GrantInd == GrantTypes /\ CallInv /\ KnownInv /\ LinkInv /\ HoldInv /\ RefreshInv

(* Lists of what is to be run. *)
LEMMA ListsAre ==
  \A a, b, c, d, e :
    /\ <<a>> # <<>> /\ Head(<<a>>) = a /\ Tail(<<a>>) = <<>>
    /\ <<a, b>> # <<>> /\ Head(<<a, b>>) = a /\ Tail(<<a, b>>) = <<b>>
    /\ <<a, b, c>> # <<>> /\ Head(<<a, b, c>>) = a /\ Tail(<<a, b, c>>) = <<b, c>>
    /\ <<a, b, c, d>> # <<>> /\ Head(<<a, b, c, d>>) = a /\ Tail(<<a, b, c, d>>) = <<b, c, d>>
    /\ <<a, b, c, d, e>> # <<>> /\ Head(<<a, b, c, d, e>>) = a /\ Tail(<<a, b, c, d, e>>) = <<b, c, d, e>>
<1>1. ASSUME NEW a, NEW b, NEW c, NEW d, NEW e
      PROVE  /\ <<a>> # <<>> /\ Head(<<a>>) = a /\ Tail(<<a>>) = <<>>
             /\ <<a, b>> # <<>> /\ Head(<<a, b>>) = a /\ Tail(<<a, b>>) = <<b>>
             /\ <<a, b, c>> # <<>> /\ Head(<<a, b, c>>) = a /\ Tail(<<a, b, c>>) = <<b, c>>
             /\ <<a, b, c, d>> # <<>> /\ Head(<<a, b, c, d>>) = a /\ Tail(<<a, b, c, d>>) = <<b, c, d>>
             /\ <<a, b, c, d, e>> # <<>> /\ Head(<<a, b, c, d, e>>) = a /\ Tail(<<a, b, c, d, e>>) = <<b, c, d, e>>
  OBVIOUS
<1>. QED
  BY <1>1

LEMMA LinkingIs ==
  /\ Grants!Linking = <<"insertLink", "newDevice", "newToken">>
  /\ <<"createUser">> \o Grants!Linking = <<"createUser", "insertLink", "newDevice", "newToken">>
<1>1. ASSUME NEW S, NEW a \in S, NEW b \in S, NEW c \in S
      PROVE  <<a>> \o <<b, c>> = <<a, b, c>>
  <2>. DEFINE s == <<a>> \o <<b, c>>
              t == <<a, b, c>>
  <2>1. s \in Seq(S) /\ Len(s) = 3 /\ s[1] = a /\ s[2] = b /\ s[3] = c
    OBVIOUS
  <2>2. t \in Seq(S) /\ Len(t) = 3 /\ t[1] = a /\ t[2] = b /\ t[3] = c
    OBVIOUS
  <2>3. \A i \in 1 .. 3 : s[i] = t[i]
    BY <2>1, <2>2
  <2>4. s = t
    <3>. HIDE DEF s, t
    <3>. QED
      BY <2>1, <2>2, <2>3
  <2>. QED
    BY <2>4
<1>2. ASSUME NEW S, NEW a \in S, NEW b \in S, NEW c \in S, NEW d \in S
      PROVE  <<a>> \o <<b, c, d>> = <<a, b, c, d>>
  <2>. DEFINE s == <<a>> \o <<b, c, d>>
              t == <<a, b, c, d>>
  <2>1. s \in Seq(S) /\ Len(s) = 4 /\ s[1] = a /\ s[2] = b /\ s[3] = c /\ s[4] = d
    OBVIOUS
  <2>2. t \in Seq(S) /\ Len(t) = 4 /\ t[1] = a /\ t[2] = b /\ t[3] = c /\ t[4] = d
    OBVIOUS
  <2>3. \A i \in 1 .. 4 : s[i] = t[i]
    BY <2>1, <2>2
  <2>4. s = t
    <3>. HIDE DEF s, t
    <3>. QED
      BY <2>1, <2>2, <2>3
  <2>. QED
    BY <2>4
<1>3. PICK S : S = {"createUser", "insertLink", "newDevice", "newToken"}
  OBVIOUS
<1>4. "createUser" \in S /\ "insertLink" \in S /\ "newDevice" \in S /\ "newToken" \in S
  BY <1>3
<1>5. <<"insertLink">> \o <<"newDevice", "newToken">> = <<"insertLink", "newDevice", "newToken">>
  BY <1>1, <1>4
<1>6. <<"createUser">> \o <<"insertLink", "newDevice", "newToken">>
        = <<"createUser", "insertLink", "newDevice", "newToken">>
  BY <1>2, <1>4
<1>. QED
  BY <1>5, <1>6 DEF Grants!Linking, Grants!Entering

(* What a request runs after a statement that succeeds. *)
Follows(of, h, g) ==
  \/ of = "authorize" /\ h = "putAsk" /\ g = "end"
  \/ of = "login" /\ h = "putState" /\ g = "end"
  \/ of = "revoke" /\ h \in {"revokeRefresh", "revokeAccess"} /\ g = "end"
  \/ of = "submit" /\ h = "dropItem" /\ g \in {"putCode", "putAsk"}
  \/ of = "submit" /\ h \in {"putCode", "putAsk"} /\ g = "end"
  \/ of = "grant" /\ h = "dropItem" /\ g \in {"newDevice", "end"}
  \/ of \in {"grant", "callback"} /\ h = "newDevice" /\ g = "newToken"
  \/ of = "grant" /\ h = "newToken" /\ g = "newRefresh"
  \/ of \in {"grant", "refresh"} /\ h = "newRefresh" /\ g = "answer"
  \/ of \in {"grant", "refresh"} /\ h = "answer" /\ g = "end"
  \/ of = "refresh" /\ h = "newToken" /\ g = "dropItem"
  \/ of = "refresh" /\ h = "dropItem" /\ g = "newRefresh"
  \/ of = "callback" /\ h = "dropItem" /\ g = "findLink"
  \/ of = "callback" /\ h \in {"findLink", "findUser", "newToken"} /\ g = "end"
  \/ of = "callback" /\ h = "createUser" /\ g = "insertLink"
  \/ of = "callback" /\ h = "insertLink" /\ g = "newDevice"

First(list) == IF list # <<>> THEN Head(list) ELSE "end"
ListSound(of, list) ==
  /\ First(list) # "end" /\ Follows(of, First(list), First(Tail(list)))
  /\ Tail(list) = <<>> \/ (GrantTodo(of, Tail(list)) /\ First(Tail(list)) # "end")

LEMMA FirstIs ==
  \A a, b, c, d, e :
    /\ First(<<>>) = "end"
    /\ First(<<a>>) = a /\ First(Tail(<<a>>)) = "end"
    /\ First(<<a, b>>) = a /\ First(Tail(<<a, b>>)) = b
    /\ First(<<a, b, c>>) = a /\ First(Tail(<<a, b, c>>)) = b
    /\ First(<<a, b, c, d>>) = a /\ First(Tail(<<a, b, c, d>>)) = b
    /\ First(<<a, b, c, d, e>>) = a /\ First(Tail(<<a, b, c, d, e>>)) = b
BY ListsAre DEF First

LEMMA ListsFollow == ASSUME NEW of \in GrantOps, NEW list, list # <<>>, GrantTodo(of, list) PROVE ListSound(of, list)
<1>1. CASE of = "authorize" /\ list = <<"putAsk">>
  BY <1>1, ListsAre, FirstIs DEF GrantTodo, ListSound, Follows
<1>2. CASE of = "login" /\ list = <<"putState">>
  BY <1>2, ListsAre, FirstIs DEF GrantTodo, ListSound, Follows
<1>3. CASE of = "revoke" /\ list = <<"revokeRefresh">>
  BY <1>3, ListsAre, FirstIs DEF GrantTodo, ListSound, Follows
<1>4. CASE of = "revoke" /\ list = <<"revokeAccess">>
  BY <1>4, ListsAre, FirstIs DEF GrantTodo, ListSound, Follows
<1>5. CASE of = "submit" /\ list = <<"dropItem", "putCode">>
  BY <1>5, ListsAre, FirstIs DEF GrantTodo, ListSound, Follows
<1>6. CASE of = "submit" /\ list = <<"dropItem", "putAsk">>
  BY <1>6, ListsAre, FirstIs DEF GrantTodo, ListSound, Follows
<1>7. CASE of = "submit" /\ list = <<"putCode">>
  BY <1>7, ListsAre, FirstIs DEF GrantTodo, ListSound, Follows
<1>8. CASE of = "submit" /\ list = <<"putAsk">>
  BY <1>8, ListsAre, FirstIs DEF GrantTodo, ListSound, Follows
<1>9. CASE of = "grant" /\ list = <<"dropItem", "newDevice", "newToken", "newRefresh", "answer">>
  BY <1>9, ListsAre, FirstIs DEF GrantTodo, ListSound, Follows
<1>10. CASE of = "grant" /\ list = <<"dropItem">>
  BY <1>10, ListsAre, FirstIs DEF GrantTodo, ListSound, Follows
<1>11. CASE of = "grant" /\ list = <<"newDevice", "newToken", "newRefresh", "answer">>
  BY <1>11, ListsAre, FirstIs DEF GrantTodo, ListSound, Follows
<1>12. CASE of = "grant" /\ list = <<"newToken", "newRefresh", "answer">>
  BY <1>12, ListsAre, FirstIs DEF GrantTodo, ListSound, Follows
<1>13. CASE of = "grant" /\ list = <<"newRefresh", "answer">>
  BY <1>13, ListsAre, FirstIs DEF GrantTodo, ListSound, Follows
<1>14. CASE of = "grant" /\ list = <<"answer">>
  BY <1>14, ListsAre, FirstIs DEF GrantTodo, ListSound, Follows
<1>15. CASE of = "refresh" /\ list = <<"newRefresh", "answer">>
  BY <1>15, ListsAre, FirstIs DEF GrantTodo, ListSound, Follows
<1>16. CASE of = "refresh" /\ list = <<"answer">>
  BY <1>16, ListsAre, FirstIs DEF GrantTodo, ListSound, Follows
<1>17. CASE of = "refresh" /\ list = <<"dropItem", "newRefresh", "answer">>
  BY <1>17, ListsAre, FirstIs DEF GrantTodo, ListSound, Follows
<1>18. CASE of = "refresh" /\ list = Grants!Rotation
  BY <1>18, ListsAre, FirstIs DEF GrantTodo, ListSound, Follows, Grants!Rotation
<1>19. CASE of = "callback" /\ list = <<"dropItem", "findLink">>
  BY <1>19, ListsAre, FirstIs DEF GrantTodo, ListSound, Follows
<1>20. CASE of = "callback" /\ list = <<"findLink">>
  BY <1>20, ListsAre, FirstIs DEF GrantTodo, ListSound, Follows
<1>21. CASE of = "callback" /\ list = <<"findUser">>
  BY <1>21, ListsAre, FirstIs DEF GrantTodo, ListSound, Follows
<1>22. CASE of = "callback" /\ list = <<"newToken">>
  BY <1>22, ListsAre, FirstIs DEF GrantTodo, ListSound, Follows
<1>23. CASE of = "callback" /\ list = Grants!Entering
  BY <1>23, ListsAre, FirstIs DEF GrantTodo, ListSound, Follows, Grants!Entering
<1>24. CASE of = "callback" /\ list = Grants!Linking
  BY <1>24, LinkingIs, ListsAre, FirstIs DEF GrantTodo, ListSound, Follows, Grants!Entering
<1>25. CASE of = "callback" /\ list = <<"createUser">> \o Grants!Linking
  <2>1. list = <<"createUser", "insertLink", "newDevice", "newToken">>
    BY <1>25, LinkingIs
  <2>2. Tail(list) = Grants!Linking /\ First(list) = "createUser" /\ First(Tail(list)) = "insertLink"
    BY <2>1, ListsAre, FirstIs, LinkingIs
  <2>3. GrantTodo("callback", Grants!Linking)
    BY DEF GrantTodo
  <2>. QED
    BY <1>25, <2>2, <2>3 DEF ListSound, Follows
<1>. QED
  BY <1>1, <1>2, <1>3, <1>4, <1>5, <1>6, <1>7, <1>8, <1>9, <1>10, <1>11, <1>12, <1>13, <1>14, <1>15, <1>16, <1>17,
     <1>18, <1>19, <1>20, <1>21, <1>22, <1>23, <1>24, <1>25
  DEF GrantTodo, GrantOps

(* How a statement, or the end, moves the request that runs it. *)
Others(q) == \A p \in GrantRequests \ {q} : req'[p] = req[p] /\ Stage(p)' = Stage(p)
Moves(q, g) ==
  /\ CallTypes' /\ Others(q) /\ Known' = Known
  /\ Stage(q) # "end" /\ Stage(q)' = g
  /\ g # "end" => /\ req'[q].op = req[q].op /\ req'[q].item = req[q].item /\ req'[q].root = req[q].root
                  /\ req'[q].session = req[q].session /\ req'[q].subject = req[q].subject
  /\ g = "end" => req'[q].op = "done"

LEMMA StageIs ==
  ASSUME GrantTypes, NEW q \in GrantRequests
  PROVE  /\ Stage(q) = First(req[q].todo) /\ req[q].op \in GrantOps
         /\ Grants!IsOpen(q) => ListSound(req[q].op, req[q].todo)
         /\ Grants!IsOpen(q) <=> Stage(q) # "end"
<1>1. req[q].op \in GrantOps /\ GrantTodo(req[q].op, req[q].todo)
  BY DEF GrantTypes, CallTypes, GrantCall
<1>2. Grants!IsOpen(q) => ListSound(req[q].op, req[q].todo)
  BY <1>1, ListsFollow DEF Grants!IsOpen
<1>. QED
  BY <1>1, <1>2 DEF Stage, First, Grants!IsOpen, ListSound

LEMMA AtIs ==
  ASSUME GrantTypes, NEW q \in GrantRequests, NEW h, Grants!At(q, h)
  PROVE  Stage(q) = h /\ h # "end" /\ Grants!IsOpen(q)
BY StageIs DEF Grants!At, Stage

LEMMA DoneIs ==
  /\ Grants!Done = [op |-> "done", todo |-> <<>>, item |-> Grants!NoId, root |-> Grants!NoId,
       session |-> Grants!NoId, client |-> "none",
             device |-> Grants!NoId, subject |-> "none", name |-> NoName]
  /\ GrantCall(Grants!Done)
<1>1. PICK r : r = Grants!Done
  OBVIOUS
<1>2. r = [op |-> "done", todo |-> <<>>, item |-> Grants!NoId, root |-> Grants!NoId, session |-> Grants!NoId,
         client |-> "none",
           device |-> Grants!NoId, subject |-> "none", name |-> NoName]
  BY <1>1 DEF Grants!Done, Grants!Idle
<1>3. GrantCall(r)
  BY <1>2 DEF GrantCall, GrantOps, GrantTodo
<1>. QED
  BY <1>1, <1>2, <1>3

(* A request that goes on as r. *)
LEMMA GoesOn ==
  ASSUME GrantTypes, NEW q \in GrantRequests, NEW r, Stage(q) # "end", GrantCall(r), req' = [req EXCEPT ![q] = r],
         r.op # "none"
  PROVE  /\ CallTypes' /\ Others(q) /\ Known' = Known /\ req'[q] = r
         /\ Stage(q)' = First(r.todo)
<1>1. req = [p \in GrantRequests |-> req[p]] /\ \A p \in GrantRequests : GrantCall(req[p])
  BY DEF GrantTypes, CallTypes
<1>2. req' = [p \in GrantRequests |-> IF p = q THEN r ELSE req[p]]
  BY <1>1
<1>3. req'[q] = r /\ \A p \in GrantRequests \ {q} : req'[p] = req[p]
  BY <1>2
<1>4. CallTypes'
  <2>1. req' = [p \in GrantRequests |-> req'[p]]
    BY <1>2
  <2>2. \A p \in GrantRequests : GrantCall(req'[p])
    BY <1>1, <1>3
  <2>3. \A p \in GrantRequests : GrantCall(req[p])'
    BY <2>2 DEF GrantCall
  <2>. QED
    BY <2>1, <2>3 DEF CallTypes
<1>5. Stage(q)' = First(r.todo)
  BY <1>3 DEF Stage, Grants!IsOpen, First
<1>6. Others(q)
  BY <1>3 DEF Others, Stage, Grants!IsOpen
<1>7. Grants!Begun(q)
  BY <1>1 DEF Stage, Grants!IsOpen, Grants!Begun, GrantCall, GrantTodo
<1>8. \A p \in GrantRequests : Grants!Begun(p)' <=> Grants!Begun(p)
  BY <1>3, <1>7 DEF Grants!Begun
<1>9. Known' = Known
  BY <1>8 DEF Known
<1>. QED
  BY <1>3, <1>4, <1>5, <1>6, <1>9

LEMMA ThrowsMoves ==
  ASSUME GrantTypes, NEW q \in GrantRequests, Stage(q) # "end", Grants!Throws(q)
  PROVE  Moves(q, "end")
<1>1. PICK r : r = Grants!Done
  OBVIOUS
<1>2. r.op = "done" /\ r.todo = <<>> /\ GrantCall(r)
  BY <1>1, DoneIs
<1>3. req' = [req EXCEPT ![q] = r]
  BY <1>1 DEF Grants!Throws
<1>4. /\ CallTypes' /\ Others(q) /\ Known' = Known /\ req'[q] = r /\ Stage(q)' = First(r.todo)
  BY <1>2, <1>3, GoesOn
<1>. QED
  BY <1>2, <1>4 DEF Moves, First

LEMMA GoesMoves ==
  ASSUME GrantTypes, NEW q \in GrantRequests, Stage(q) # "end", NEW list, NEW name,
         list = <<>> \/ (GrantTodo(req[q].op, list) /\ First(list) # "end"),
         Grants!Goes(q, [req[q] EXCEPT !.todo = list, !.name = name])
  PROVE  Moves(q, First(list)) /\ (First(list) # "end" => req'[q].name = name)
<1>1. PICK r : r = [req[q] EXCEPT !.todo = list, !.name = name]
  OBVIOUS
<1>2. GrantCall(req[q]) /\ req[q].op # "none"
  BY DEF GrantTypes, CallTypes, Stage, Grants!IsOpen, GrantCall, GrantTodo
<1>3. r = [op |-> req[q].op, todo |-> list, item |-> req[q].item, root |-> req[q].root,
           session |-> req[q].session, client |-> req[q].client, device |-> req[q].device,
           subject |-> req[q].subject, name |-> name]
  BY <1>1, <1>2 DEF GrantCall
<1>4. CASE list = <<>>
  <2>1. Grants!Throws(q)
    BY <1>1, <1>3, <1>4 DEF Grants!Goes, Grants!Throws
  <2>. QED
    BY <1>4, <2>1, ThrowsMoves DEF First
<1>5. CASE list # <<>> /\ GrantTodo(req[q].op, list)
  <2>1. req' = [req EXCEPT ![q] = r]
    BY <1>1, <1>3, <1>5 DEF Grants!Goes
  <2>2. GrantCall(r) /\ r.op # "none"
    BY <1>2, <1>3, <1>5 DEF GrantCall
  <2>3. /\ CallTypes' /\ Others(q) /\ Known' = Known /\ req'[q] = r /\ Stage(q)' = First(r.todo)
    BY <2>1, <2>2, GoesOn
  <2>. QED
    BY <1>3, <1>5, <2>3 DEF Moves, First
<1>. QED
  BY <1>4, <1>5

LEMMA RanMoves ==
  ASSUME GrantTypes, NEW q \in GrantRequests, NEW h, Grants!At(q, h), Grants!Ran(q)
  PROVE  \E g : Follows(req[q].op, h, g) /\ Moves(q, g) /\ (g # "end" => req'[q].name = req[q].name)
<1>1. Stage(q) = h /\ h # "end" /\ Grants!IsOpen(q) /\ ListSound(req[q].op, req[q].todo) /\ First(req[q].todo) = h
  BY AtIs, StageIs
<1>2. PICK list, name : list = Tail(req[q].todo) /\ name = req[q].name
  OBVIOUS
<1>3. GrantCall(req[q])
  BY DEF GrantTypes, CallTypes
<1>4. [req[q] EXCEPT !.todo = Tail(req[q].todo)] = [req[q] EXCEPT !.todo = list, !.name = name]
  BY <1>2, <1>3 DEF GrantCall
<1>5. Grants!Goes(q, [req[q] EXCEPT !.todo = list, !.name = name])
  BY <1>4 DEF Grants!Ran
<1>6. list = <<>> \/ (GrantTodo(req[q].op, list) /\ First(list) # "end")
  BY <1>1, <1>2 DEF ListSound
<1>7. Moves(q, First(list)) /\ (First(list) # "end" => req'[q].name = name)
  BY <1>1, <1>5, <1>6, GoesMoves
<1>8. Follows(req[q].op, h, First(list))
  BY <1>1, <1>2 DEF ListSound
<1>. QED
  BY <1>2, <1>7, <1>8

(* How a request begins. *)
Opens(q) ==
  /\ CallTypes' /\ Others(q) /\ q \notin Known /\ Known' = Known \cup {q}
  /\ Stage(q) = "end" /\ Stage(q)' # "end" /\ raced \subseteq raced'
  /\ UNCHANGED <<asks, codes, states, refreshes, dropped, access, links, has, revoked, spent, moved>>

Page(q) ==
  /\ Opens(q) /\ req'[q].op \in {"authorize", "login"} /\ req'[q].root = q /\ req'[q].subject = "none"
  /\ Stage(q)' \in {"putAsk", "putState"}

GivesBack(q, s) ==
  /\ Opens(q) /\ req'[q].op = "revoke" /\ req'[q].session = s /\ req'[q].item = has[s] /\ has[s] # Grants!NoId
  /\ s \in Grants!Ids /\ req'[q].subject = "none" /\ Stage(q)' \in {"revokeRefresh", "revokeAccess"}

Uses(q, of, entries, e) ==
  /\ Opens(q) /\ req'[q].op = of /\ req'[q].item = e.id /\ req'[q].root = e.root /\ e \in entries \cup dropped
  /\ e.root \notin raced' => e \in entries /\ \A p \in GrantRequests : Stage(p) # "end" => req[p].item # e.id

Form(q, e) ==
  Uses(q, "submit", asks, e) /\ e.kind = "ask" /\ req'[q].subject = "none" /\ Stage(q)' = "dropItem"
Coded(q, e) ==
  /\ Uses(q, "grant", codes, e) /\ e.kind = "code" /\ req'[q].session = q /\ req'[q].subject = "none"
  /\ Stage(q)' = "dropItem"
Returns(q, e) ==
  /\ Uses(q, "callback", states, e) /\ e.kind = "state" /\ req'[q].session = q
  /\ req'[q].subject \in Identities /\ req'[q].name \in Names /\ Stage(q)' = "dropItem"
Renewal(q, e) ==
  /\ Uses(q, "refresh", refreshes, e) /\ e.kind = "refresh" /\ req'[q].session = e.session
  /\ has[e.session] = e.id /\ req'[q].subject = "none" /\ Stage(q)' = "newToken"

LEMMA OpenIs ==
  ASSUME GrantTypes, NEW q \in GrantRequests, NEW r, GrantCall(r), r.todo # <<>>, Grants!Open(q, r),
         raced \subseteq raced'
  PROVE  Opens(q) /\ req'[q] = r /\ Stage(q)' = First(r.todo)
<1>1. req = [p \in GrantRequests |-> req[p]] /\ \A p \in GrantRequests : GrantCall(req[p])
  BY DEF GrantTypes, CallTypes
<1>2. req' = [p \in GrantRequests |-> IF p = q THEN r ELSE req[p]]
  BY <1>1 DEF Grants!Open
<1>3. req'[q] = r /\ \A p \in GrantRequests \ {q} : req'[p] = req[p]
  BY <1>2
<1>4. CallTypes'
  <2>1. req' = [p \in GrantRequests |-> req'[p]]
    BY <1>2
  <2>2. \A p \in GrantRequests : GrantCall(req'[p])
    BY <1>1, <1>3
  <2>3. \A p \in GrantRequests : GrantCall(req[p])'
    BY <2>2 DEF GrantCall
  <2>. QED
    BY <2>1, <2>3 DEF CallTypes
<1>5. Stage(q)' = First(r.todo)
  BY <1>3 DEF Stage, Grants!IsOpen, First
<1>6. Others(q)
  BY <1>3 DEF Others, Stage, Grants!IsOpen
<1>7. ~Grants!Begun(q) /\ Stage(q) = "end"
  BY <1>1 DEF Stage, Grants!IsOpen, Grants!Begun, GrantCall, GrantTodo, Grants!Open
<1>8. First(r.todo) # "end" /\ r.op # "none"
  <2>1. r.op \in GrantOps /\ GrantTodo(r.op, r.todo)
    BY DEF GrantCall
  <2>2. ListSound(r.op, r.todo)
    BY <2>1, ListsFollow
  <2>. QED
    BY <2>1, <2>2 DEF ListSound, GrantTodo
<1>9. (\A p \in GrantRequests \ {q} : Grants!Begun(p)' <=> Grants!Begun(p)) /\ Grants!Begun(q)'
  BY <1>3, <1>8 DEF Grants!Begun
<1>10. Known' = Known \cup {q}
  BY <1>9 DEF Known
<1>11. q \notin Known
  BY <1>7, GrantAssumption DEF Known
<1>. QED
  BY <1>3, <1>4, <1>5, <1>6, <1>7, <1>8, <1>10, <1>11 DEF Opens, Grants!Open

LEMMA ReadIs ==
  ASSUME GrantTypes, NEW q \in GrantRequests, NEW entries, NEW e, NEW i, GrantCall(i), i.todo # <<>>,
         Grants!Read(q, entries, e, i)
  PROVE  /\ Uses(q, i.op, entries, e) /\ req'[q].session = i.session /\ req'[q].subject = i.subject
         /\ req'[q].name = i.name /\ Stage(q)' = First(i.todo)
<1>1. PICK r : r = [i EXCEPT !.item = e.id, !.root = e.root]
  OBVIOUS
<1>2. r = [op |-> i.op, todo |-> i.todo, item |-> e.id, root |-> e.root, session |-> i.session,
           client |-> i.client, device |-> i.device, subject |-> i.subject, name |-> i.name]
  BY <1>1 DEF GrantCall
<1>3. Grants!Open(q, r) /\ e \in entries \cup dropped
  BY <1>1 DEF Grants!Read
<1>4. /\ raced \subseteq raced'
      /\ e.root \notin raced' => e \in entries /\ ~\E p \in GrantRequests : Grants!IsOpen(p) /\ req[p].item = e.id
  BY DEF Grants!Read
<1>5. GrantCall(r) /\ r.todo # <<>>
  BY <1>2 DEF GrantCall
<1>6. Opens(q) /\ req'[q] = r /\ Stage(q)' = First(r.todo)
  BY <1>3, <1>4, <1>5, OpenIs
<1>7. e.root \notin raced' => e \in entries /\ \A p \in GrantRequests : Stage(p) # "end" => req[p].item # e.id
  BY <1>4 DEF Stage
<1>. QED
  BY <1>2, <1>3, <1>6, <1>7 DEF Uses

LEMMA ArriveIs ==
  ASSUME GrantTypes, NEW q \in GrantRequests, Grants!Arrive(q)
  PROVE  \/ Page(q) \/ \E s : GivesBack(q, s)
         \/ \E e : Form(q, e) \/ Coded(q, e) \/ Returns(q, e) \/ Renewal(q, e)
<1>1. CASE Grants!OidcLogin(q)
  <2>1. PICK r : r = [Grants!Idle EXCEPT !.op = "login", !.todo = <<"putState">>, !.root = q]
    OBVIOUS
  <2>2. r = [op |-> "login", todo |-> <<"putState">>, item |-> Grants!NoId, root |-> q, session |-> Grants!NoId,
             client |-> "none", device |-> Grants!NoId, subject |-> "none", name |-> NoName]
    BY <2>1 DEF Grants!Idle
  <2>3. GrantCall(r) /\ r.todo # <<>> /\ First(r.todo) = "putState"
    BY <2>2, ListsAre, FirstIs DEF GrantCall, GrantOps, GrantTodo
  <2>4. Grants!Open(q, r) /\ raced \subseteq raced'
    BY <1>1, <2>1 DEF Grants!OidcLogin, Grants!Keeps
  <2>5. Opens(q) /\ req'[q] = r /\ Stage(q)' = "putState"
    BY <2>3, <2>4, OpenIs
  <2>. QED
    BY <2>2, <2>5 DEF Page
<1>2. ASSUME NEW c \in OAuthClients, NEW d \in {0, Grants!NoId}, Grants!GetAuthorize(q, c, d)
      PROVE  Page(q)
  <2>1. PICK r : r = [Grants!Idle EXCEPT !.op = "authorize", !.todo = <<"putAsk">>, !.root = q, !.client = c,
                                         !.device = d]
    OBVIOUS
  <2>2. r = [op |-> "authorize", todo |-> <<"putAsk">>, item |-> Grants!NoId, root |-> q, session |-> Grants!NoId,
             client |-> c, device |-> d, subject |-> "none", name |-> NoName]
    BY <2>1 DEF Grants!Idle
  <2>3. GrantCall(r) /\ r.todo # <<>> /\ First(r.todo) = "putAsk"
    BY <2>2, ListsAre, FirstIs DEF GrantCall, GrantOps, GrantTodo
  <2>4. Grants!Open(q, r) /\ raced \subseteq raced'
    BY <1>2, <2>1 DEF Grants!GetAuthorize, Grants!Keeps
  <2>5. Opens(q) /\ req'[q] = r /\ Stage(q)' = "putAsk"
    BY <2>3, <2>4, OpenIs
  <2>. QED
    BY <2>2, <2>5 DEF Page
<1>3. ASSUME NEW e, e.kind = "ask", Grants!PostAuthorize(q, e)
      PROVE  Form(q, e)
  <2>1. PICK next \in {"putCode", "putAsk"} :
          Grants!Read(q, asks, e,
              [Grants!Idle EXCEPT !.op = "submit", !.todo = <<"dropItem", next>>, !.client = e.client,
                                  !.device = e.device])
    BY <1>3 DEF Grants!PostAuthorize
  <2>2. PICK i : i = [Grants!Idle EXCEPT !.op = "submit", !.todo = <<"dropItem", next>>, !.client = e.client,
                                         !.device = e.device]
    OBVIOUS
  <2>3. i = [op |-> "submit", todo |-> <<"dropItem", next>>, item |-> Grants!NoId, root |-> Grants!NoId,
             session |-> Grants!NoId, client |-> e.client, device |-> e.device, subject |-> "none", name |-> NoName]
    BY <2>2 DEF Grants!Idle
  <2>4. GrantCall(i) /\ i.todo # <<>> /\ First(i.todo) = "dropItem"
    BY <2>3, ListsAre, FirstIs DEF GrantCall, GrantOps, GrantTodo
  <2>5. Grants!Read(q, asks, e, i)
    BY <2>1, <2>2
  <2>6. /\ Uses(q, i.op, asks, e) /\ req'[q].session = i.session /\ req'[q].subject = i.subject
        /\ req'[q].name = i.name /\ Stage(q)' = First(i.todo)
    BY <2>4, <2>5, ReadIs
  <2>7. Uses(q, "submit", asks, e) /\ req'[q].subject = "none" /\ Stage(q)' = "dropItem"
    BY <2>3, <2>4, <2>6
  <2>. QED
    BY <1>3, <2>7 DEF Form
<1>4. ASSUME NEW e, NEW c, e.kind = "code", Grants!CodeGrant(q, e, c)
      PROVE  Coded(q, e)
  <2>1. PICK list, d : /\ list = IF e.client = c THEN <<"dropItem", "newDevice", "newToken", "newRefresh", "answer">>
                                  ELSE <<"dropItem">>
                       /\ d = IF e.device = 0 THEN 0 ELSE q
    OBVIOUS
  <2>2. Grants!Read(q, codes, e,
           [Grants!Idle EXCEPT !.op = "grant", !.client = c, !.session = q, !.device = d, !.todo = list])
    BY <1>4, <2>1 DEF Grants!CodeGrant
  <2>3. PICK i : i = [Grants!Idle EXCEPT !.op = "grant", !.client = c, !.session = q, !.device = d, !.todo = list]
    OBVIOUS
  <2>4. i = [op |-> "grant", todo |-> list, item |-> Grants!NoId, root |-> Grants!NoId, session |-> q, client |-> c,
             device |-> d, subject |-> "none", name |-> NoName]
    BY <2>3 DEF Grants!Idle
  <2>5. GrantCall(i) /\ i.todo # <<>> /\ First(i.todo) = "dropItem"
    BY <2>1, <2>4, ListsAre, FirstIs DEF GrantCall, GrantOps, GrantTodo
  <2>6. Grants!Read(q, codes, e, i)
    BY <2>2, <2>3
  <2>7. /\ Uses(q, i.op, codes, e) /\ req'[q].session = i.session /\ req'[q].subject = i.subject
        /\ req'[q].name = i.name /\ Stage(q)' = First(i.todo)
    BY <2>5, <2>6, ReadIs
  <2>8. /\ Uses(q, "grant", codes, e) /\ req'[q].session = q /\ req'[q].subject = "none"
        /\ Stage(q)' = "dropItem"
    BY <2>4, <2>5, <2>7
  <2>. QED
    BY <1>4, <2>8 DEF Coded
<1>5. ASSUME NEW e, NEW x \in Identities, NEW n \in Names, e.kind = "state", Grants!OidcCallback(q, e, x, n)
      PROVE  Returns(q, e)
  <2>1. Grants!Read(q, states, e,
           [Grants!Idle EXCEPT !.op = "callback", !.todo = <<"dropItem", "findLink">>, !.session = q,
                               !.device = q, !.subject = x, !.name = n])
    BY <1>5 DEF Grants!OidcCallback
  <2>2. PICK i : i = [Grants!Idle EXCEPT !.op = "callback", !.todo = <<"dropItem", "findLink">>, !.session = q,
                                         !.device = q, !.subject = x, !.name = n]
    OBVIOUS
  <2>3. i = [op |-> "callback", todo |-> <<"dropItem", "findLink">>, item |-> Grants!NoId, root |-> Grants!NoId,
             session |-> q, client |-> "none", device |-> q, subject |-> x, name |-> n]
    BY <2>2 DEF Grants!Idle
  <2>4. GrantCall(i) /\ i.todo # <<>> /\ First(i.todo) = "dropItem"
    BY <2>3, ListsAre, FirstIs DEF GrantCall, GrantOps, GrantTodo
  <2>5. Grants!Read(q, states, e, i)
    BY <2>1, <2>2
  <2>6. /\ Uses(q, i.op, states, e) /\ req'[q].session = i.session /\ req'[q].subject = i.subject
        /\ req'[q].name = i.name /\ Stage(q)' = First(i.todo)
    BY <2>4, <2>5, ReadIs
  <2>7. /\ Uses(q, "callback", states, e) /\ req'[q].session = q /\ req'[q].subject = x /\ req'[q].name = n
        /\ Stage(q)' = "dropItem"
    BY <2>3, <2>4, <2>6
  <2>. QED
    BY <1>5, <2>7 DEF Returns
<1>6. ASSUME NEW e, e.kind = "refresh", Grants!RefreshGrant(q, e)
      PROVE  Renewal(q, e)
  <2>1. /\ has[e.session] = e.id
        /\ Grants!Read(q, refreshes, e,
             [Grants!Idle EXCEPT !.op = "refresh", !.todo = Grants!Rotation, !.session = e.session,
                                 !.client = e.client, !.device = e.device])
    BY <1>6 DEF Grants!RefreshGrant
  <2>2. PICK list : list = Grants!Rotation
    OBVIOUS
  <2>3. PICK i : i = [Grants!Idle EXCEPT !.op = "refresh", !.todo = list, !.session = e.session, !.client = e.client,
                                         !.device = e.device]
    OBVIOUS
  <2>4. i = [op |-> "refresh", todo |-> list, item |-> Grants!NoId, root |-> Grants!NoId, session |-> e.session,
             client |-> e.client, device |-> e.device, subject |-> "none", name |-> NoName]
    BY <2>3 DEF Grants!Idle
  <2>5. GrantCall(i) /\ i.todo # <<>> /\ First(i.todo) = "newToken"
    BY <2>2, <2>4, ListsAre, FirstIs DEF GrantCall, GrantOps, GrantTodo, Grants!Rotation
  <2>6. Grants!Read(q, refreshes, e, i)
    BY <2>1, <2>2, <2>3
  <2>7. /\ Uses(q, i.op, refreshes, e) /\ req'[q].session = i.session /\ req'[q].subject = i.subject
        /\ req'[q].name = i.name /\ Stage(q)' = First(i.todo)
    BY <2>5, <2>6, ReadIs
  <2>8. /\ Uses(q, "refresh", refreshes, e) /\ req'[q].session = e.session /\ req'[q].subject = "none"
        /\ Stage(q)' = "newToken"
    BY <2>4, <2>5, <2>7
  <2>. QED
    BY <1>6, <2>1, <2>8 DEF Renewal
<1>7. ASSUME NEW s \in Grants!Ids, Grants!Revoke(q, s)
      PROVE  GivesBack(q, s)
  <2>1. PICK statement \in {"revokeRefresh", "revokeAccess"} :
          Grants!Open(q, [Grants!Idle EXCEPT !.op = "revoke", !.todo = <<statement>>, !.session = s, !.item = has[s]])
    BY <1>7 DEF Grants!Revoke
  <2>2. PICK r : r = [Grants!Idle EXCEPT !.op = "revoke", !.todo = <<statement>>, !.session = s, !.item = has[s]]
    OBVIOUS
  <2>3. r = [op |-> "revoke", todo |-> <<statement>>, item |-> has[s], root |-> Grants!NoId, session |-> s,
             client |-> "none", device |-> Grants!NoId, subject |-> "none", name |-> NoName]
    BY <2>2 DEF Grants!Idle
  <2>4. GrantCall(r) /\ r.todo # <<>> /\ First(r.todo) = statement
    BY <2>3, ListsAre, FirstIs DEF GrantCall, GrantOps, GrantTodo
  <2>5. Grants!Open(q, r) /\ raced \subseteq raced' /\ has[s] # Grants!NoId
    BY <1>7, <2>1, <2>2 DEF Grants!Revoke, Grants!Keeps
  <2>6. Opens(q) /\ req'[q] = r /\ Stage(q)' = statement
    BY <2>4, <2>5, OpenIs
  <2>. QED
    BY <2>3, <2>5, <2>6 DEF GivesBack
<1>. QED
  BY <1>1, <1>2, <1>3, <1>4, <1>5, <1>6, <1>7 DEF Grants!Arrive

Stays(p) == req'[p] = req[p] /\ Stage(p)' = Stage(p)

LEMMA OthersStay == \A q : Others(q) => \A p \in GrantRequests \ {q} : Stays(p)
BY DEF Others, Stays

LEMMA SameRequests ==
  ASSUME UNCHANGED req
  PROVE  Known' = Known /\ \A p \in GrantRequests : Stays(p)
BY DEF Known, Grants!Begun, Stays, Stage, Grants!IsOpen

LEMMA CallKeeps ==
  ASSUME CallInv, Known \subseteq Known', \A p \in GrantRequests : CallSound(p)' \/ Stays(p)
  PROVE  CallInv'
<1>1. SUFFICES ASSUME NEW p \in GrantRequests PROVE CallSound(p)'
  BY DEF CallInv
<1>2. CASE Stays(p)
  BY <1>2 DEF CallInv, CallSound, Stays
<1>. QED
  BY <1>1, <1>2

LEMMA CallMoves ==
  ASSUME CallInv, NEW q \in GrantRequests, NEW g, Moves(q, g),
         g # "end" => req'[q].name = req[q].name \/ req'[q].name \in Names
  PROVE  CallInv'
<1>1. CallSound(q)'
  BY DEF CallInv, CallSound, Moves
<1>2. Known \subseteq Known' /\ \A p \in GrantRequests : CallSound(p)' \/ Stays(p)
  BY <1>1, OthersStay DEF Moves
<1>. QED
  BY <1>2, CallKeeps

(* What is linked stays linked, but for what an administrator takes away. *)
LinksStay ==
  moved \subseteq moved' /\ \A x \in Identities : x \in moved' \/ links[x] = NoName \/ links'[x] = links[x]

LEMMA LinkKeeps ==
  ASSUME CallInv, LinkInv, LinksStay, \A p \in GrantRequests : EntersSound(p)' \/ Stays(p),
         \A t \in access' : t \in access \/ EnteredSound(t)'
  PROVE  LinkInv'
<1>1. ASSUME NEW p \in GrantRequests PROVE EntersSound(p)'
  <2>1. CASE Stays(p)
    <3>1. SUFFICES ASSUME req[p].op = "callback", Stage(p) \in {"newDevice", "newToken"}, req[p].subject \notin moved'
                   PROVE  links'[req[p].subject] = req[p].name
      BY <2>1 DEF EntersSound, Stays
    <3>2. req[p].subject \in Identities /\ req[p].name \in Names
      BY <3>1 DEF CallInv, CallSound
    <3>3. links[req[p].subject] = req[p].name
      BY <3>1 DEF LinkInv, EntersSound, LinksStay
    <3>. QED
      BY <3>1, <3>2, <3>3, GrantAssumption DEF LinksStay
  <2>. QED
    BY <1>1, <2>1
<1>2. ASSUME NEW t \in access' PROVE EnteredSound(t)'
  <2>1. CASE t \in access
    <3>1. EnteredSound(t)
      BY <2>1 DEF LinkInv
    <3>. QED
      BY <3>1, GrantAssumption DEF EnteredSound, LinksStay
  <2>. QED
    BY <1>2, <2>1
<1>. QED
  BY <1>1, <1>2 DEF LinkInv

BaseInv == GrantTypes /\ CallInv /\ KnownInv /\ LinkInv

(* A statement that leaves entries of KV as they are. *)
SameKv == UNCHANGED <<asks, codes, states, refreshes, dropped>>

LEMMA BaseStays ==
  ASSUME BaseInv, NEW q \in GrantRequests, NEW g, Moves(q, g), g # "end" => req'[q].name = req[q].name,
         req[q].op = "callback" => g # "newDevice" /\ (g = "newToken" => Stage(q) = "newDevice"),
         EntryTypes', MapTypes', KnownInv', LinksStay, \A t \in access' : t \in access \/ EnteredSound(t)'
  PROVE  BaseInv'
<1>1. CallInv'
  BY CallMoves DEF BaseInv
<1>2. EntersSound(q)'
  <2>1. SUFFICES ASSUME req'[q].op = "callback", g \in {"newDevice", "newToken"}, req'[q].subject \notin moved'
                 PROVE  links'[req'[q].subject] = req'[q].name
    BY DEF EntersSound, Moves
  <2>2. /\ req[q].op = "callback" /\ Stage(q) = "newDevice" /\ req'[q].subject = req[q].subject
        /\ req'[q].name = req[q].name
    BY <2>1 DEF Moves
  <2>3. req[q].subject \in Identities /\ req[q].name \in Names
    BY <2>2 DEF BaseInv, CallInv, CallSound
  <2>4. links[req[q].subject] = req[q].name
    BY <2>1, <2>2 DEF BaseInv, LinkInv, EntersSound, LinksStay
  <2>. QED
    BY <2>1, <2>2, <2>3, <2>4, GrantAssumption DEF LinksStay
<1>3. \A p \in GrantRequests : EntersSound(p)' \/ Stays(p)
  BY <1>2, OthersStay DEF Moves
<1>4. LinkInv'
  BY <1>3, LinkKeeps DEF BaseInv
<1>. QED
  BY <1>1, <1>4 DEF BaseInv, GrantTypes, Moves

LEMMA BaseOpens ==
  ASSUME BaseInv, NEW q \in GrantRequests, Grants!Arrive(q)
  PROVE  BaseInv'
<1>1. \/ Page(q) \/ \E s : GivesBack(q, s)
      \/ \E e : Form(q, e) \/ Coded(q, e) \/ Returns(q, e) \/ Renewal(q, e)
  BY ArriveIs DEF BaseInv
<1>2. Opens(q)
  BY <1>1 DEF Page, GivesBack, Form, Coded, Returns, Renewal, Uses
<1>3. GrantTypes'
  BY <1>2 DEF BaseInv, GrantTypes, EntryTypes, MapTypes, Opens
<1>4. KnownInv'
  BY <1>2 DEF BaseInv, KnownInv, Opens, Grantable, Refreshed
<1>5. CallSound(q)' /\ EntersSound(q)'
  <2>1. CASE Page(q)
    BY <1>2, <2>1 DEF Page, CallSound, EntersSound, Opens
  <2>2. ASSUME NEW s, GivesBack(q, s) PROVE CallSound(q)' /\ EntersSound(q)'
    <3>1. s \in Known'
      BY <1>2, <2>2 DEF GivesBack, Opens, BaseInv, KnownInv
    <3>. QED
      BY <1>2, <2>2, <3>1 DEF GivesBack, CallSound, EntersSound, Opens
  <2>3. ASSUME NEW e, NEW of, NEW entries, Uses(q, of, entries, e), entries \subseteq Grantable \cup refreshes
        PROVE  e.root \in Known' /\ req'[q].root = e.root /\ q \in Known'
    BY <2>3 DEF Uses, Opens, BaseInv, KnownInv
  <2>4. asks \subseteq Grantable /\ codes \subseteq Grantable /\ states \subseteq Grantable
    BY DEF Grantable
  <2>5. ASSUME NEW e, Form(q, e) PROVE CallSound(q)' /\ EntersSound(q)'
    BY <2>3, <2>4, <2>5 DEF Form, CallSound, EntersSound, Uses
  <2>6. ASSUME NEW e, Coded(q, e) PROVE CallSound(q)' /\ EntersSound(q)'
    BY <2>3, <2>4, <2>6 DEF Coded, CallSound, EntersSound, Uses
  <2>7. ASSUME NEW e, Returns(q, e) PROVE CallSound(q)' /\ EntersSound(q)'
    BY <2>3, <2>4, <2>7 DEF Returns, CallSound, EntersSound, Uses
  <2>8. ASSUME NEW e, Renewal(q, e) PROVE CallSound(q)' /\ EntersSound(q)'
    <3>1. e.session \in Known'
      BY <1>2, <2>8 DEF Renewal, Uses, Opens, BaseInv, KnownInv, Refreshed
    <3>. QED
      BY <2>3, <2>8, <3>1 DEF Renewal, CallSound, EntersSound, Uses
  <2>. QED
    BY <1>1, <2>1, <2>2, <2>5, <2>6, <2>7, <2>8
<1>6. Known \subseteq Known' /\ (\A p \in GrantRequests : CallSound(p)' \/ Stays(p))
      /\ \A p \in GrantRequests : EntersSound(p)' \/ Stays(p)
  BY <1>2, <1>5, OthersStay DEF Opens
<1>7. CallInv'
  BY <1>6, CallKeeps DEF BaseInv
<1>8. LinksStay /\ access' = access
  BY <1>2 DEF Opens, LinksStay
<1>9. LinkInv'
  BY <1>6, <1>8, LinkKeeps DEF BaseInv
<1>. QED
  BY <1>3, <1>4, <1>7, <1>9 DEF BaseInv

(* What a statement that succeeds does to its request. *)
LEMMA RanBase ==
  ASSUME BaseInv, NEW q \in GrantRequests, NEW h, Grants!At(q, h), Grants!Ran(q)
  PROVE  \E g : /\ Moves(q, g) /\ Follows(req[q].op, h, g) /\ Stage(q) = h /\ h # "end"
                /\ g # "end" => req'[q].name = req[q].name
                /\ CallSound(q) /\ q \in Known
<1>1. GrantTypes /\ CallSound(q)
  BY DEF BaseInv, CallInv
<1>2. PICK g : Follows(req[q].op, h, g) /\ Moves(q, g) /\ (g # "end" => req'[q].name = req[q].name)
  BY <1>1, RanMoves
<1>3. Stage(q) = h /\ h # "end" /\ Grants!IsOpen(q)
  BY <1>1, AtIs
<1>4. q \in Known
  BY <1>1, <1>3 DEF GrantTypes, CallTypes, GrantCall, GrantTodo, Known, Grants!Begun, Grants!IsOpen
<1>. QED
  BY <1>1, <1>2, <1>3, <1>4

(* A statement that leaves links and tokens as they are. *)
LEMMA SameLinks ==
  (UNCHANGED <<links, moved, access>>) => LinksStay /\ \A t \in access' : t \in access \/ EnteredSound(t)'
BY DEF LinksStay

LEMMA StopBase == ASSUME BaseInv, NEW q \in GrantRequests, Stage(q) # "end", Grants!Throws(q),
                         UNCHANGED <<asks, codes, states, refreshes, dropped, access, links, has, moved>>
                  PROVE  BaseInv' /\ Moves(q, "end")
<1>1. Moves(q, "end")
  BY ThrowsMoves DEF BaseInv
<1>2. EntryTypes' /\ MapTypes'
  BY DEF BaseInv, GrantTypes, EntryTypes, MapTypes
<1>3. KnownInv'
  BY <1>1 DEF BaseInv, KnownInv, Moves, Grantable, Refreshed
<1>. QED
  BY <1>1, <1>2, <1>3, SameLinks, BaseStays

LEMMA PutBase ==
  ASSUME BaseInv, NEW q \in GrantRequests, Grants!PutAsk(q) \/ Grants!PutCode(q) \/ Grants!PutState(q)
  PROVE  BaseInv'
<1>1. PICK h \in {"putAsk", "putCode", "putState"} :
        /\ Grants!At(q, h) /\ Grants!Ran(q)
        /\ asks' = IF h = "putAsk" THEN asks \cup {Grants!Entry("ask", q, req[q])} ELSE asks
        /\ codes' = IF h = "putCode" THEN codes \cup {Grants!Entry("code", q, req[q])} ELSE codes
        /\ states' = IF h = "putState" THEN states \cup {Grants!Entry("state", q, req[q])} ELSE states
        /\ UNCHANGED <<refreshes, dropped, access, links, has, moved>>
  BY DEF Grants!PutAsk, Grants!PutCode, Grants!PutState, Grants!KeepRows, Grants!KeepHistory
<1>2. PICK g : /\ Moves(q, g) /\ Follows(req[q].op, h, g) /\ Stage(q) = h /\ h # "end"
               /\ g # "end" => req'[q].name = req[q].name
               /\ CallSound(q) /\ q \in Known
  BY <1>1, RanBase
<1>3. g = "end" /\ req[q].op \in {"authorize", "login", "submit"}
  BY <1>2 DEF Follows
<1>4. req[q].root \in Known
  BY <1>2, <1>3 DEF CallSound
<1>5. EntryTypes' /\ MapTypes'
  BY <1>1 DEF BaseInv, GrantTypes, EntryTypes, MapTypes, Grants!Entry
<1>6. KnownInv'
  <2>1. /\ \A e \in Grantable' : e \in Grantable \/ (e.id = q /\ e.root = req[q].root)
        /\ Refreshed' = Refreshed
    BY <1>1 DEF Grantable, Refreshed, Grants!Entry
  <2>. QED
    BY <1>1, <1>2, <1>4, <2>1 DEF BaseInv, KnownInv, Moves
<1>. QED
  BY <1>1, <1>2, <1>3, <1>5, <1>6, SameLinks, BaseStays

LEMMA DropBase ==
  ASSUME BaseInv, NEW q \in GrantRequests, Grants!DropItem(q)
  PROVE  BaseInv'
<1>1. Grants!At(q, "dropItem") /\ Grants!Ran(q) /\ UNCHANGED <<access, links, has, moved>>
  BY DEF Grants!DropItem, Grants!KeepRows, Grants!KeepHistory
<1>2. PICK g : /\ Moves(q, g) /\ Follows(req[q].op, "dropItem", g) /\ Stage(q) = "dropItem"
               /\ g # "end" => req'[q].name = req[q].name
  BY <1>1, RanBase
<1>3. /\ asks' \subseteq asks /\ codes' \subseteq codes /\ states' \subseteq states /\ refreshes' \subseteq refreshes
      /\ dropped' \subseteq Grantable \cup refreshes \cup dropped
  BY DEF Grants!DropItem, Grants!Dropped, Grantable
<1>4. EntryTypes' /\ MapTypes'
  BY <1>1, <1>3 DEF BaseInv, GrantTypes, EntryTypes, MapTypes
<1>5. KnownInv'
  <2>1. Grantable' \subseteq Grantable /\ Refreshed' \subseteq Refreshed
    <3>1. Grantable' \subseteq Grantable
      BY <1>3 DEF Grantable
    <3>2. \A e \in Grantable : e.kind # "refresh"
      BY DEF BaseInv, GrantTypes, EntryTypes, Grantable
    <3>3. Refreshed' \subseteq Refreshed
      BY <1>3, <3>2 DEF Refreshed
    <3>. QED
      BY <3>1, <3>3
  <2>. QED
    BY <1>1, <1>2, <1>3, <2>1 DEF BaseInv, KnownInv, Moves
<1>6. g # "newDevice" \/ req[q].op # "callback"
  BY <1>2 DEF Follows
<1>7. req[q].op = "callback" => g # "newToken"
  BY <1>2 DEF Follows
<1>. QED
  BY <1>1, <1>2, <1>4, <1>5, <1>6, <1>7, SameLinks, BaseStays

(* Statements on rows, and the answer. *)
LEMMA RowBase ==
  ASSUME BaseInv, NEW q \in GrantRequests, NEW h, Grants!At(q, h), Grants!Ran(q), SameKv, UNCHANGED <<links, moved>>,
         h \notin {"insertLink"},
         has' = has \/ (h = "answer" /\ has' = [has EXCEPT ![req[q].session] = q]),
         access' \subseteq access \/ (h = "newToken" /\
           access' = access \cup {[id |-> q, session |-> req[q].session, root |-> req[q].root,
                                   subject |-> req[q].subject, name |-> req[q].name]})
  PROVE  BaseInv'
<1>1. PICK g : /\ Moves(q, g) /\ Follows(req[q].op, h, g) /\ Stage(q) = h /\ h # "end"
               /\ g # "end" => req'[q].name = req[q].name
               /\ CallSound(q) /\ q \in Known
  BY RanBase
<1>2. EntryTypes'
  BY DEF BaseInv, GrantTypes, EntryTypes, SameKv
<1>3. links \in [Identities -> Names \cup {NoName}] /\ has = [s \in Grants!Ids |-> has[s]]
  BY DEF BaseInv, GrantTypes, MapTypes
<1>4. h = "answer" => req[q].op \in {"grant", "refresh"} /\ req[q].session \in Known
  BY <1>1 DEF Follows, CallSound
<1>5. h = "newToken" =>
         req[q].op \in {"grant", "refresh", "callback"} /\ req[q].session \in Known /\ req[q].root \in Known
  BY <1>1 DEF Follows, CallSound
<1>6. Known \subseteq Grants!Ids
  BY DEF Known, Grants!Ids
<1>7. has' = [s \in Grants!Ids |-> has'[s]] /\ \A s \in Grants!Ids : has'[s] = has[s] \/ s \in Known
  BY <1>3, <1>4, <1>6
<1>8. KnownInv'
  <2>1. \A t \in access' : t \in access \/ (t.root \in Known /\ t.session \in Known)
    BY <1>5
  <2>2. Grantable' = Grantable /\ Refreshed' = Refreshed
    BY DEF SameKv, Grantable, Refreshed
  <2>. QED
    BY <1>1, <1>7, <2>1, <2>2 DEF BaseInv, KnownInv, Moves, SameKv
<1>9. \A t \in access' : t \in access \/ EnteredSound(t)'
  <2>1. SUFFICES ASSUME NEW t, h = "newToken", t = [id |-> q, session |-> req[q].session, root |-> req[q].root,
                                   subject |-> req[q].subject, name |-> req[q].name]
                 PROVE EnteredSound(t)'
    OBVIOUS
  <2>2. t.subject = req[q].subject /\ t.name = req[q].name
    BY <2>1
  <2>3. CASE req[q].op = "callback"
    <3>1. EntersSound(q)
      BY DEF BaseInv, LinkInv
    <3>2. req[q].subject \in Identities /\ req[q].name \in Names
      BY <1>1, <2>3 DEF CallSound
    <3>3. req[q].subject \in moved \/ links[req[q].subject] = req[q].name
      BY <1>1, <2>1, <2>3, <3>1 DEF EntersSound
    <3>. QED
      BY <2>2, <3>2, <3>3 DEF EnteredSound
  <2>4. CASE req[q].op # "callback"
    <3>1. req[q].subject = "none"
      BY <1>1, <2>4 DEF CallSound
    <3>. QED
      BY <2>2, <3>1 DEF EnteredSound
  <2>. QED
    BY <2>3, <2>4
<1>10. LinksStay
  BY DEF LinksStay
<1>11. req[q].op = "callback" => g # "newDevice" /\ (g = "newToken" => Stage(q) = "newDevice")
  BY <1>1 DEF Follows
<1>. QED
  BY <1>1, <1>2, <1>3, <1>7, <1>8, <1>9, <1>10, <1>11, BaseStays DEF MapTypes

LEMMA NewRefreshBase == ASSUME BaseInv, NEW q \in GrantRequests, Grants!NewRefresh(q) PROVE BaseInv'
<1>1. /\ Grants!At(q, "newRefresh") /\ Grants!Ran(q) /\ refreshes' = refreshes \cup {Grants!Entry("refresh", q, req[q])}
      /\ UNCHANGED <<asks, codes, states, dropped, access, links, has, moved>>
  BY DEF Grants!NewRefresh, Grants!KeepRows, Grants!KeepHistory
<1>2. PICK g : /\ Moves(q, g) /\ Follows(req[q].op, "newRefresh", g)
               /\ g # "end" => req'[q].name = req[q].name
               /\ CallSound(q) /\ q \in Known /\ Stage(q) = "newRefresh"
  BY <1>1, RanBase
<1>3. req[q].op \in {"grant", "refresh"} /\ g = "answer"
  BY <1>2 DEF Follows
<1>4. req[q].root \in Known /\ req[q].session \in Known
  BY <1>2, <1>3 DEF CallSound
<1>5. EntryTypes' /\ MapTypes'
  BY <1>1 DEF BaseInv, GrantTypes, EntryTypes, MapTypes, Grants!Entry
<1>6. KnownInv'
  <2>1. PICK n : n = Grants!Entry("refresh", q, req[q])
    OBVIOUS
  <2>2. n.id = q /\ n.root = req[q].root /\ n.session = req[q].session /\ n.kind = "refresh"
    BY <2>1 DEF Grants!Entry
  <2>3. Grantable' = Grantable /\ Refreshed' = Refreshed \cup {n} /\ refreshes' = refreshes \cup {n}
    BY <1>1, <2>1 DEF Grantable, Refreshed
  <2>. QED
    BY <1>1, <1>2, <1>4, <2>2, <2>3 DEF BaseInv, KnownInv, Moves
<1>. QED
  BY <1>1, <1>2, <1>3, <1>5, <1>6, SameLinks, BaseStays

LEMMA RevokeRefreshBase == ASSUME BaseInv, NEW q \in GrantRequests, Grants!RevokeRefresh(q) PROVE BaseInv'
<1>1. /\ Grants!At(q, "revokeRefresh") /\ Grants!Ran(q) /\ refreshes' \subseteq refreshes
      /\ dropped' = dropped \cup (refreshes \ refreshes')
      /\ UNCHANGED <<asks, codes, states, access, links, has, moved>>
  BY DEF Grants!RevokeRefresh, Grants!KeepRows, Grants!Dropped
<1>2. PICK g : /\ Moves(q, g) /\ Follows(req[q].op, "revokeRefresh", g)
               /\ g # "end" => req'[q].name = req[q].name
  BY <1>1, RanBase
<1>3. g = "end"
  BY <1>2 DEF Follows
<1>4. EntryTypes' /\ MapTypes'
  BY <1>1 DEF BaseInv, GrantTypes, EntryTypes, MapTypes
<1>5. KnownInv'
  <2>1. Grantable' = Grantable /\ Refreshed' = Refreshed
    BY <1>1 DEF Grantable, Refreshed, BaseInv, GrantTypes, EntryTypes
  <2>. QED
    BY <1>1, <1>2, <2>1 DEF BaseInv, KnownInv, Moves
<1>. QED
  BY <1>1, <1>2, <1>3, <1>4, <1>5, SameLinks, BaseStays

LEMMA ThenMoves ==
  ASSUME GrantTypes, NEW q \in GrantRequests, NEW h, Grants!At(q, h), NEW list, NEW name, NEW r,
         Grants!Then(q, list, r),
         r = [req[q] EXCEPT !.name = name], GrantTodo(req[q].op, list), list # <<>>, First(list) # "end"
  PROVE  Moves(q, First(list)) /\ req'[q].name = name /\ Stage(q) = h /\ h # "end"
<1>1. Stage(q) = h /\ h # "end"
  BY AtIs
<1>2. GrantCall(req[q])
  BY DEF GrantTypes, CallTypes
<1>3. PICK i : i = [r EXCEPT !.todo = list]
  OBVIOUS
<1>4. PICK k : k = [req[q] EXCEPT !.todo = list, !.name = name]
  OBVIOUS
<1>5. i = k
  BY <1>2, <1>3, <1>4 DEF GrantCall
<1>6. Grants!Goes(q, [req[q] EXCEPT !.todo = list, !.name = name])
  BY <1>3, <1>4, <1>5 DEF Grants!Then
<1>. QED
  BY <1>1, <1>6, GoesMoves

(* The statements that look for the user. *)
LEMMA FindBase ==
  ASSUME BaseInv, NEW q \in GrantRequests, Grants!FindLink(q) \/ Grants!FindUser(q)
  PROVE  BaseInv' /\ \E g : /\ Moves(q, g) /\ req[q].op = "callback" /\ Stage(q) \in {"findLink", "findUser"}
                           /\ g # "dropItem"
<1>1. SameKv /\ UNCHANGED <<links, has, access, moved>>
  BY DEF Grants!FindLink, Grants!FindUser, SameKv, Grants!KeepKv, Grants!KeepRows, Grants!KeepHistory
<1>2. PICK h \in {"findLink", "findUser"} : Grants!At(q, h)
  BY DEF Grants!FindLink, Grants!FindUser
<1>3. Stage(q) = h /\ h # "end" /\ req[q].op = "callback" /\ CallSound(q) /\ GrantTypes /\ GrantCall(req[q])
  <2>1. GrantTypes /\ CallSound(q)
    BY DEF BaseInv, CallInv
  <2>2. Stage(q) = h /\ h # "end" /\ Grants!IsOpen(q) /\ ListSound(req[q].op, req[q].todo) /\ First(req[q].todo) = h
    BY <1>2, <2>1, AtIs, StageIs
  <2>3. Follows(req[q].op, h, First(Tail(req[q].todo)))
    BY <2>2 DEF ListSound
  <2>. QED
    BY <2>1, <2>2, <2>3 DEF Follows, GrantTypes, CallTypes
<1>4. req[q].subject \in Identities /\ req[q].name \in Names
  BY <1>3 DEF CallSound
<1>5. CASE Grants!Throws(q)
  BY <1>1, <1>3, <1>5, StopBase DEF SameKv
<1>6. ASSUME NEW list, NEW name, Grants!Then(q, list, [req[q] EXCEPT !.name = name]),
             \/ list \in {<<"findUser">>, Grants!Linking, <<"createUser">> \o Grants!Linking} /\ name = req[q].name
             \/ list = Grants!Entering /\ name = links[req[q].subject] /\ name \in Names
      PROVE  BaseInv' /\ \E g : Moves(q, g) /\ g # "dropItem"
  <2>1. GrantTodo(req[q].op, list)
    BY <1>3, <1>6 DEF GrantTodo
  <2>2. list # <<>> /\ First(list) \in {"findUser", "insertLink", "createUser", "newDevice"}
        /\ (First(list) = "newDevice" => name = links[req[q].subject])
    BY <1>6, LinkingIs, ListsAre, FirstIs DEF Grants!Entering
  <2>3. PICK r : r = [req[q] EXCEPT !.name = name]
    OBVIOUS
  <2>4. Grants!Then(q, list, r)
    BY <1>6, <2>3
  <2>5. PICK g : g = First(list)
    OBVIOUS
  <2>6. Moves(q, g) /\ req'[q].name = name
    <3>1. Grants!At(q, h) /\ GrantTypes /\ list # <<>> /\ First(list) # "end"
      BY <1>2, <1>3, <2>2
    <3>2. Moves(q, First(list)) /\ req'[q].name = name
      BY <2>1, <2>3, <2>4, <3>1, ThenMoves
    <3>. QED
      BY <2>5, <3>2
  <2>7. CallInv'
    BY <1>4, <1>6, <2>6, CallMoves DEF BaseInv
  <2>8. EntersSound(q)'
    BY <1>1, <2>2, <2>5, <2>6 DEF EntersSound, Moves
  <2>9. \A p \in GrantRequests : EntersSound(p)' \/ Stays(p)
    BY <2>6, <2>8, OthersStay DEF Moves
  <2>10. LinkInv'
    BY <1>1, <2>9, SameLinks, LinkKeeps DEF BaseInv
  <2>11. EntryTypes' /\ MapTypes'
    BY <1>1 DEF BaseInv, GrantTypes, EntryTypes, MapTypes, SameKv
  <2>12. KnownInv'
    BY <1>1, <2>6 DEF BaseInv, KnownInv, Moves, Grantable, Refreshed, SameKv
  <2>. QED
    BY <2>2, <2>5, <2>6, <2>7, <2>10, <2>11, <2>12 DEF BaseInv, GrantTypes, Moves
<1>7. PICK same : same = [req[q] EXCEPT !.name = req[q].name]
  OBVIOUS
<1>8. same = req[q]
  BY <1>3, <1>7 DEF GrantCall
<1>9. CASE Grants!FindLink(q)
  <2>1. CASE links[req[q].subject] # NoName
    <3>1. PICK name : name = links[req[q].subject]
      OBVIOUS
    <3>2. name \in Names
      BY <1>3, <1>4, <2>1, <3>1 DEF GrantTypes, MapTypes
    <3>3. Grants!Then(q, Grants!Entering, [req[q] EXCEPT !.name = name])
      BY <1>9, <2>1, <3>1 DEF Grants!FindLink
    <3>4. BaseInv' /\ \E g : Moves(q, g) /\ g # "dropItem"
      BY <1>6, <3>1, <3>2, <3>3
    <3>. QED
      BY <1>2, <1>3, <3>4
  <2>2. CASE Grants!Then(q, <<"findUser">>, req[q])
    <3>1. Grants!Then(q, <<"findUser">>, [req[q] EXCEPT !.name = req[q].name])
      BY <1>7, <1>8, <2>2
    <3>2. BaseInv' /\ \E g : Moves(q, g) /\ g # "dropItem"
      BY <1>6, <3>1
    <3>. QED
      BY <1>2, <1>3, <3>2
  <2>3. links[req[q].subject] # NoName \/ Grants!Then(q, <<"findUser">>, req[q]) \/ Grants!Throws(q)
    BY <1>9 DEF Grants!FindLink
  <2>. QED
    BY <1>1, <1>2, <1>3, <1>5, <2>1, <2>2, <2>3, StopBase DEF SameKv
<1>10. CASE Grants!FindUser(q)
  <2>1. PICK list \in {Grants!Linking, <<"createUser">> \o Grants!Linking} : Grants!Then(q, list, req[q])
    BY <1>10 DEF Grants!FindUser
  <2>2. Grants!Then(q, list, [req[q] EXCEPT !.name = req[q].name])
    BY <1>7, <1>8, <2>1
  <2>3. BaseInv' /\ \E g : Moves(q, g) /\ g # "dropItem"
    BY <1>6, <2>1, <2>2
  <2>. QED
    BY <1>2, <1>3, <2>3
<1>. QED
  BY <1>9, <1>10

(* A link is made where there was none. *)
LEMMA InsertLinkBase ==
  ASSUME BaseInv, NEW q \in GrantRequests, Grants!InsertLink(q)
  PROVE  BaseInv' /\ \E g : Moves(q, g) /\ g # "dropItem"
<1>1. SameKv /\ UNCHANGED <<has, access, moved>> /\ Grants!At(q, "insertLink")
  BY DEF Grants!InsertLink, SameKv, Grants!KeepKv, Grants!KeepHistory
<1>2. GrantTypes /\ Stage(q) = "insertLink"
  BY <1>1, AtIs DEF BaseInv
<1>3. CASE Grants!Throws(q) /\ UNCHANGED links
  BY <1>1, <1>2, <1>3, StopBase DEF SameKv
<1>4. CASE Grants!Ran(q) /\ links[req[q].subject] = NoName /\ links' = [links EXCEPT ![req[q].subject] = req[q].name]
  <2>1. PICK g : /\ Moves(q, g) /\ Follows(req[q].op, "insertLink", g)
                 /\ g # "end" => req'[q].name = req[q].name
                 /\ CallSound(q)
    BY <1>1, <1>4, RanBase
  <2>2. req[q].op = "callback" /\ g = "newDevice"
    BY <2>1 DEF Follows
  <2>3. req[q].subject \in Identities /\ req[q].name \in Names /\ links \in [Identities -> Names \cup {NoName}]
    BY <1>2, <2>1, <2>2 DEF CallSound, GrantTypes, MapTypes
  <2>4. /\ links' \in [Identities -> Names \cup {NoName}] /\ links'[req[q].subject] = req[q].name
        /\ \A x \in Identities : x # req[q].subject => links'[x] = links[x]
    BY <1>4, <2>3
  <2>5. EntersSound(q)'
    BY <2>1, <2>2, <2>4 DEF EntersSound, Moves
  <2>6. \A p \in GrantRequests : EntersSound(p)' \/ Stays(p)
    BY <2>1, <2>5, OthersStay DEF Moves
  <2>7. LinksStay
    BY <1>1, <1>4, <2>4 DEF LinksStay
  <2>8. LinkInv'
    BY <1>1, <2>6, <2>7, LinkKeeps DEF BaseInv
  <2>9. CallInv'
    BY <2>1, CallMoves DEF BaseInv
  <2>10. EntryTypes' /\ MapTypes'
    BY <1>1, <1>2, <2>4 DEF GrantTypes, EntryTypes, MapTypes, SameKv
  <2>11. KnownInv'
    BY <1>1, <2>1 DEF BaseInv, KnownInv, Moves, Grantable, Refreshed, SameKv
  <2>. QED
    BY <2>1, <2>2, <2>8, <2>9, <2>10, <2>11 DEF BaseInv, GrantTypes, Moves
<1>. QED
  BY <1>3, <1>4 DEF Grants!InsertLink

(* What happens beside the requests. *)
LEMMA BesideBase ==
  ASSUME BaseInv, UNCHANGED req, UNCHANGED <<dropped, access, has>>, LinksStay, MapTypes',
         asks' \subseteq asks, codes' \subseteq codes, states' \subseteq states, refreshes' \subseteq refreshes
  PROVE  BaseInv'
<1>1. Known' = Known /\ \A p \in GrantRequests : Stays(p)
  BY SameRequests
<1>2. CallInv' /\ LinkInv'
  BY <1>1, CallKeeps, LinkKeeps DEF BaseInv
<1>3. CallTypes' /\ EntryTypes'
  BY DEF BaseInv, GrantTypes, CallTypes, EntryTypes, GrantCall
<1>4. KnownInv'
  <2>1. Grantable' \subseteq Grantable /\ Refreshed' \subseteq Refreshed
    BY DEF Grantable, Refreshed
  <2>. QED
    BY <1>1, <2>1 DEF BaseInv, KnownInv
<1>. QED
  BY <1>2, <1>3, <1>4 DEF BaseInv, GrantTypes

LEMMA LapseBase == ASSUME BaseInv, Grants!Lapse PROVE BaseInv'
<1>1. /\ UNCHANGED req /\ UNCHANGED <<dropped, access, has>> /\ LinksStay
      /\ asks' \subseteq asks /\ codes' \subseteq codes /\ states' \subseteq states /\ refreshes' \subseteq refreshes
  BY DEF Grants!Lapse, Grants!KeepRows, LinksStay
<1>2. MapTypes'
  BY DEF Grants!Lapse, Grants!KeepRows, BaseInv, GrantTypes, MapTypes
<1>. QED
  BY <1>1, <1>2, BesideBase

LEMMA UnlinkBase == ASSUME BaseInv, NEW x \in Identities, Grants!Unlink(x) PROVE BaseInv'
<1>1. /\ UNCHANGED req /\ UNCHANGED <<dropped, access, has>>
      /\ asks' \subseteq asks /\ codes' \subseteq codes /\ states' \subseteq states /\ refreshes' \subseteq refreshes
  BY DEF Grants!Unlink, Grants!KeepKv
<1>2. links' = [links EXCEPT ![x] = NoName] /\ moved' = moved \cup {x} /\ links \in [Identities -> Names \cup {NoName}]
  BY DEF Grants!Unlink, BaseInv, GrantTypes, MapTypes
<1>3. LinksStay /\ links' \in [Identities -> Names \cup {NoName}]
  BY <1>2 DEF LinksStay
<1>4. MapTypes'
  BY <1>1, <1>3 DEF MapTypes, BaseInv, GrantTypes
<1>. QED
  BY <1>1, <1>3, <1>4, BesideBase

LEMMA RegisterBase == ASSUME BaseInv, NEW c, Grants!Register(c) PROVE BaseInv'
<1>1. /\ UNCHANGED req /\ UNCHANGED <<dropped, access, has>>
      /\ asks' \subseteq asks /\ codes' \subseteq codes /\ states' \subseteq states /\ refreshes' \subseteq refreshes
      /\ UNCHANGED <<links, moved>>
  BY DEF Grants!Register
<1>2. MapTypes' /\ LinksStay
  BY <1>1 DEF MapTypes, BaseInv, GrantTypes, LinksStay
<1>. QED
  BY <1>1, <1>2, BesideBase

(* Where a grant is, when nothing new stands for it. *)
LEMMA HoldLess ==
  ASSUME NEW root, HoldSound(root), Grantable' \subseteq Grantable,
         \A p \in GrantRequests : InHand(p, root)' =>
           /\ InHand(p, root) /\ req'[p].op = req[p].op /\ req'[p].item = req[p].item
           /\ Stage(p)' = Stage(p) \/ Stage(p) # "dropItem" \/ \A e \in Grantable' : e.root # root,
         \A s \in Grants!Ids : OfSession(s, root)' => OfSession(s, root)
  PROVE  HoldSound(root)'
<1>1. \A e, f \in Grantable' : e.root = root /\ f.root = root => e = f
  BY DEF HoldSound
<1>2. \A p, q \in GrantRequests : InHand(p, root)' /\ InHand(q, root)' => p = q
  BY DEF HoldSound
<1>3. \A s, t \in Grants!Ids : OfSession(s, root)' /\ OfSession(t, root)' => s = t
  BY DEF HoldSound
<1>4. \A e \in Grantable', q \in GrantRequests : e.root = root /\ InHand(q, root)' =>
        Stage(q)' = "dropItem" /\ req'[q].item = e.id /\ IsFor(e, req'[q].op)
  BY DEF HoldSound
<1>5. \A e \in Grantable', s \in Grants!Ids : e.root = root => ~OfSession(s, root)'
  BY DEF HoldSound
<1>6. \A q \in GrantRequests, s \in Grants!Ids : InHand(q, root)' /\ OfSession(s, root)' =>
        req'[q].op \in {"grant", "callback"} /\ s = q
  BY DEF HoldSound
<1>. QED
  BY <1>1, <1>2, <1>3, <1>4, <1>5, <1>6 DEF HoldSound

LEMMA SessionLess ==
  ASSUME NEW root, NEW s, access' \subseteq access, refreshes' \subseteq refreshes,
         \A p \in GrantRequests : Renews(p, s)' => Renews(p, s) /\ req'[p].root = req[p].root,
         OfSession(s, root)'
  PROVE  OfSession(s, root)
BY DEF OfSession

LEMMA MovesHand ==
  ASSUME NEW q \in GrantRequests, NEW g, Moves(q, g)
  PROVE  /\ \A p \in GrantRequests, s \in Grants!Ids : Renews(p, s)' => Renews(p, s) /\ req'[p].root = req[p].root
         /\ \A p \in GrantRequests : \A root : InHand(p, root)' =>
              /\ InHand(p, root) /\ req'[p].op = req[p].op /\ req'[p].item = req[p].item
              /\ Stage(p)' = Stage(p) \/ p = q
<1>1. ASSUME NEW p \in GrantRequests, NEW s \in Grants!Ids, Renews(p, s)'
      PROVE  Renews(p, s) /\ req'[p].root = req[p].root
  BY <1>1 DEF Moves, Others, Renews
<1>2. ASSUME NEW p \in GrantRequests, NEW root, InHand(p, root)'
      PROVE  /\ InHand(p, root) /\ req'[p].op = req[p].op /\ req'[p].item = req[p].item
             /\ Stage(p)' = Stage(p) \/ p = q
  BY <1>2 DEF Moves, Others, InHand
<1>. QED
  BY <1>1, <1>2

LEMMA HoldMoves ==
  ASSUME HoldInv, NEW q \in GrantRequests, NEW g, Moves(q, g), raced \subseteq raced', Grantable' \subseteq Grantable,
         access' \subseteq access, refreshes' \subseteq refreshes,
         \A root \in Grants!Ids \ raced', e \in Grantable' :
           Stage(q) = "dropItem" /\ InHand(q, root)' => e.root # root
  PROVE  HoldInv'
<1>1. SUFFICES ASSUME NEW root \in Grants!Ids \ raced' PROVE HoldSound(root)'
  BY DEF HoldInv
<1>2. HoldSound(root)
  BY <1>1 DEF HoldInv
<1>3. \A p \in GrantRequests : InHand(p, root)' =>
           /\ InHand(p, root) /\ req'[p].op = req[p].op /\ req'[p].item = req[p].item
           /\ Stage(p)' = Stage(p) \/ Stage(p) # "dropItem" \/ \A e \in Grantable' : e.root # root
  BY <1>1, MovesHand
<1>4. \A s \in Grants!Ids : OfSession(s, root)' => OfSession(s, root)
  BY MovesHand, SessionLess
<1>. QED
  BY <1>2, <1>3, <1>4, HoldLess

LEMMA HoldPut ==
  ASSUME GrantTypes, HoldInv, NEW q \in GrantRequests, Moves(q, "end"), raced \subseteq raced',
         req[q].op \in {"authorize", "login", "submit"}, Stage(q) # "dropItem",
         NEW n, n.root = req[q].root, Grantable' = Grantable \cup {n}, access' \subseteq access,
         refreshes' \subseteq refreshes
  PROVE  HoldInv'
<1>1. SUFFICES ASSUME NEW root \in Grants!Ids \ raced' PROVE HoldSound(root)'
  BY DEF HoldInv
<1>2. HoldSound(root)
  BY <1>1 DEF HoldInv
<1>3. /\ \A p \in GrantRequests : InHand(p, root)' => /\ InHand(p, root) /\ p # q /\ Stage(p)' = Stage(p)
                                                      /\ req'[p].op = req[p].op /\ req'[p].item = req[p].item
      /\ \A s \in Grants!Ids : OfSession(s, root)' => OfSession(s, root)
  <2>1. \A s \in Grants!Ids : OfSession(s, root)' => OfSession(s, root)
    BY MovesHand, SessionLess
  <2>2. ASSUME NEW p \in GrantRequests, InHand(p, root)'
        PROVE  /\ InHand(p, root) /\ p # q /\ Stage(p)' = Stage(p)
               /\ req'[p].op = req[p].op /\ req'[p].item = req[p].item
    BY <2>2 DEF Moves, Others, InHand
  <2>. QED
    BY <2>1, <2>2
<1>4. CASE req[q].root = root
  <2>1. InHand(q, root)
    BY <1>4 DEF InHand, Moves
  <2>2. /\ \A e \in Grantable : e.root # root
        /\ \A p \in GrantRequests : ~InHand(p, root)'
        /\ \A s \in Grants!Ids : ~OfSession(s, root)'
    BY <1>2, <1>3, <2>1 DEF HoldSound
  <2>3. \A e, f \in Grantable' : e.root = root /\ f.root = root => e = f
    BY <2>2
  <2>. QED
    BY <2>2, <2>3 DEF HoldSound
<1>5. CASE req[q].root # root
  <2>1. \A e \in Grantable' : e.root = root => e \in Grantable
    BY <1>5
  <2>2. \A e, f \in Grantable' : e.root = root /\ f.root = root => e = f
    BY <1>2, <2>1 DEF HoldSound
  <2>3. \A e \in Grantable', p \in GrantRequests : e.root = root /\ InHand(p, root)' =>
          Stage(p)' = "dropItem" /\ req'[p].item = e.id /\ IsFor(e, req'[p].op)
    BY <1>2, <1>3, <2>1 DEF HoldSound
  <2>4. \A e \in Grantable', s \in Grants!Ids : e.root = root => ~OfSession(s, root)'
    BY <1>2, <1>3, <2>1 DEF HoldSound
  <2>5. /\ \A p, r \in GrantRequests : InHand(p, root)' /\ InHand(r, root)' => p = r
        /\ \A s, t \in Grants!Ids : OfSession(s, root)' /\ OfSession(t, root)' => s = t
        /\ \A p \in GrantRequests, s \in Grants!Ids : InHand(p, root)' /\ OfSession(s, root)' =>
             req'[p].op \in {"grant", "callback"} /\ s = p
    BY <1>2, <1>3 DEF HoldSound
  <2>. QED
    BY <2>2, <2>3, <2>4, <2>5 DEF HoldSound
<1>. QED
  BY <1>4, <1>5

(* A token of the session that a request is about. *)
LEMMA HoldGrows ==
  ASSUME CallInv, HoldInv, NEW q \in GrantRequests, NEW g, Moves(q, g), raced \subseteq raced', Grantable' = Grantable,
         req[q].op \in {"grant", "refresh", "callback"}, Stage(q) # "dropItem",
         \A s \in Grants!Ids, root \in Grants!Ids : OfSession(s, root)' =>
           OfSession(s, root) \/ (s = req[q].session /\ root = req[q].root)
  PROVE  HoldInv'
<1>1. SUFFICES ASSUME NEW root \in Grants!Ids \ raced' PROVE HoldSound(root)'
  BY DEF HoldInv
<1>2. HoldSound(root)
  BY <1>1 DEF HoldInv
<1>3. \A p \in GrantRequests : InHand(p, root)' =>
           /\ InHand(p, root) /\ req'[p].op = req[p].op /\ req'[p].item = req[p].item
           /\ Stage(p)' = Stage(p) \/ Stage(p) # "dropItem" \/ \A e \in Grantable' : e.root # root
  BY <1>1, MovesHand
<1>4. CASE req[q].op = "refresh" \/ root # req[q].root
  <2>1. \A s \in Grants!Ids : OfSession(s, root)' => OfSession(s, root)
    BY <1>4 DEF OfSession, Renews, Moves
  <2>. QED
    BY <1>2, <1>3, <2>1, HoldLess
<1>5. CASE req[q].op \in {"grant", "callback"} /\ root = req[q].root
  <2>1. InHand(q, root) /\ req[q].session = q
    BY <1>5 DEF InHand, Moves, CallInv, CallSound
  <2>2. /\ \A e \in Grantable' : e.root # root
        /\ \A s \in Grants!Ids : OfSession(s, root)' => s = q
        /\ \A p \in GrantRequests : InHand(p, root)' => p = q /\ req'[p].op = req[q].op
    BY <1>2, <1>3, <2>1 DEF HoldSound
  <2>. QED
    BY <1>5, <2>2 DEF HoldSound
<1>. QED
  BY <1>4, <1>5

LEMMA OpensHand ==
  ASSUME NEW q \in GrantRequests, Opens(q)
  PROVE  /\ Grantable' = Grantable /\ Refreshed' = Refreshed /\ ~InHand(q, req[q].root)
         /\ \A p \in GrantRequests : \A root : InHand(p, root)' =>
              p = q \/ (/\ InHand(p, root) /\ req'[p].op = req[p].op /\ req'[p].item = req[p].item
                        /\ Stage(p)' = Stage(p))
         /\ \A s, root : OfSession(s, root)' => OfSession(s, root) \/ (Renews(q, s)' /\ req'[q].root = root)
<1>1. Grantable' = Grantable /\ Refreshed' = Refreshed /\ ~InHand(q, req[q].root)
  BY DEF Opens, Grantable, Refreshed, InHand
<1>2. ASSUME NEW p \in GrantRequests, NEW root, InHand(p, root)', p # q
      PROVE  InHand(p, root) /\ req'[p].op = req[p].op /\ req'[p].item = req[p].item /\ Stage(p)' = Stage(p)
  BY <1>2 DEF Opens, Others, InHand
<1>3. ASSUME NEW s, NEW root, OfSession(s, root)', ~OfSession(s, root)
      PROVE  Renews(q, s)' /\ req'[q].root = root
  BY <1>3 DEF Opens, Others, OfSession, Renews
<1>. QED
  BY <1>1, <1>2, <1>3

LEMMA HoldUses ==
  ASSUME HoldInv, NEW q \in GrantRequests, NEW e, NEW of \in {"submit", "grant", "callback"},
         NEW entries, Uses(q, of, entries, e), entries \subseteq Grantable, IsFor(e, of),
         Stage(q)' = "dropItem"
  PROVE  HoldInv'
<1>1. SUFFICES ASSUME NEW root \in Grants!Ids \ raced' PROVE HoldSound(root)'
  BY DEF HoldInv
<1>2. Opens(q) /\ raced \subseteq raced' /\ req'[q].op = of /\ req'[q].root = e.root /\ req'[q].item = e.id
  BY DEF Uses, Opens
<1>3. HoldSound(root)
  BY <1>1, <1>2 DEF HoldInv
<1>4. Grantable' = Grantable /\ \A s \in Grants!Ids : OfSession(s, root)' => OfSession(s, root)
  BY <1>2, OpensHand DEF Renews
<1>5. CASE e.root # root
  <2>1. ~InHand(q, root)'
    BY <1>2, <1>5 DEF InHand
  <2>2. \A p \in GrantRequests : InHand(p, root)' =>
           /\ InHand(p, root) /\ req'[p].op = req[p].op /\ req'[p].item = req[p].item
           /\ Stage(p)' = Stage(p) \/ Stage(p) # "dropItem" \/ \A f \in Grantable' : f.root # root
    BY <1>2, <2>1, OpensHand
  <2>. QED
    BY <1>3, <1>4, <2>2, HoldLess
<1>6. CASE e.root = root
  <2>1. e \in Grantable /\ \A p \in GrantRequests : Stage(p) # "end" => req[p].item # e.id
    BY <1>1, <1>6 DEF Uses
  <2>2. \A p \in GrantRequests : ~InHand(p, root)
    <3>1. SUFFICES ASSUME NEW p \in GrantRequests, InHand(p, root) PROVE FALSE
      OBVIOUS
    <3>2. req[p].item = e.id /\ Stage(p) = "dropItem"
      BY <1>3, <1>6, <2>1, <3>1 DEF HoldSound
    <3>. QED
      BY <2>1, <3>2
  <2>3. \A p \in GrantRequests : InHand(p, root)' => p = q
    BY <1>2, <2>2, OpensHand
  <2>4. \A s \in Grants!Ids : ~OfSession(s, root)'
    BY <1>3, <1>4, <1>6, <2>1 DEF HoldSound
  <2>5. \A f, k \in Grantable' : f.root = root /\ k.root = root => f = k
    BY <1>3, <1>4 DEF HoldSound
  <2>6. \A f \in Grantable', p \in GrantRequests : f.root = root /\ InHand(p, root)' =>
          Stage(p)' = "dropItem" /\ req'[p].item = f.id /\ IsFor(f, req'[p].op)
    <3>1. SUFFICES ASSUME NEW f \in Grantable, f.root = root
                   PROVE  Stage(q)' = "dropItem" /\ req'[q].item = f.id /\ IsFor(f, req'[q].op)
      BY <1>4, <2>3
    <3>2. f = e
      BY <1>3, <1>6, <2>1, <3>1 DEF HoldSound
    <3>. QED
      BY <1>2, <3>2
  <2>. QED
    BY <2>3, <2>4, <2>5, <2>6 DEF HoldSound
<1>. QED
  BY <1>5, <1>6

LEMMA HoldPage ==
  ASSUME BaseInv, HoldInv, NEW q \in GrantRequests, Page(q)
  PROVE  HoldInv'
<1>1. SUFFICES ASSUME NEW root \in Grants!Ids \ raced' PROVE HoldSound(root)'
  BY DEF HoldInv
<1>2. Opens(q) /\ raced \subseteq raced' /\ req'[q].root = q /\ q \notin Known /\ \A s : ~Renews(q, s)'
  BY DEF Page, Opens, Renews
<1>3. HoldSound(root)
  BY <1>1, <1>2 DEF HoldInv
<1>4. Grantable' = Grantable /\ \A s \in Grants!Ids : OfSession(s, root)' => OfSession(s, root)
  BY <1>2, OpensHand
<1>5. CASE root # q
  <2>1. ~InHand(q, root)'
    BY <1>2, <1>5 DEF InHand
  <2>2. \A p \in GrantRequests : InHand(p, root)' =>
           /\ InHand(p, root) /\ req'[p].op = req[p].op /\ req'[p].item = req[p].item
           /\ Stage(p)' = Stage(p) \/ Stage(p) # "dropItem" \/ \A f \in Grantable' : f.root # root
    BY <1>2, <2>1, OpensHand
  <2>. QED
    BY <1>3, <1>4, <2>2, HoldLess
<1>6. CASE root = q
  <2>1. \A e \in Grantable : e.root # root
    BY <1>2, <1>6 DEF BaseInv, KnownInv
  <2>2. \A p \in GrantRequests : ~InHand(p, root)
    BY <1>2, <1>6 DEF BaseInv, CallInv, CallSound, InHand
  <2>3. \A s \in Grants!Ids : ~OfSession(s, root)
    BY <1>2, <1>6 DEF BaseInv, KnownInv, CallInv, CallSound, OfSession, Renews
  <2>4. \A p \in GrantRequests : InHand(p, root)' => p = q
    BY <1>2, <2>2, OpensHand
  <2>. QED
    BY <1>4, <2>1, <2>3, <2>4 DEF HoldSound
<1>. QED
  BY <1>5, <1>6

LEMMA HoldOpens == ASSUME BaseInv, HoldInv, NEW q \in GrantRequests, Grants!Arrive(q) PROVE HoldInv'
<1>1. \/ Page(q) \/ \E s : GivesBack(q, s)
      \/ \E e : Form(q, e) \/ Coded(q, e) \/ Returns(q, e) \/ Renewal(q, e)
  BY ArriveIs DEF BaseInv
<1>2. asks \subseteq Grantable /\ codes \subseteq Grantable /\ states \subseteq Grantable
  BY DEF Grantable
<1>3. ASSUME NEW e, Form(q, e) PROVE HoldInv'
  <2>1. Uses(q, "submit", asks, e) /\ IsFor(e, "submit") /\ Stage(q)' = "dropItem"
    BY <1>3 DEF Form, IsFor
  <2>. QED
    BY <1>2, <2>1, HoldUses
<1>4. ASSUME NEW e, Coded(q, e) PROVE HoldInv'
  <2>1. Uses(q, "grant", codes, e) /\ IsFor(e, "grant") /\ Stage(q)' = "dropItem"
    BY <1>4 DEF Coded, IsFor
  <2>. QED
    BY <1>2, <2>1, HoldUses
<1>5. ASSUME NEW e, Returns(q, e) PROVE HoldInv'
  <2>1. Uses(q, "callback", states, e) /\ IsFor(e, "callback") /\ Stage(q)' = "dropItem"
    BY <1>5 DEF Returns, IsFor
  <2>. QED
    BY <1>2, <2>1, HoldUses
<1>6. ASSUME Opens(q), req'[q].op \in {"revoke", "refresh"},
             \A s \in Grants!Ids, root \in Grants!Ids \ raced' : Renews(q, s)' /\ req'[q].root = root =>
                 OfSession(s, root)
      PROVE  HoldInv'
  <2>1. SUFFICES ASSUME NEW root \in Grants!Ids \ raced' PROVE HoldSound(root)'
    BY DEF HoldInv
  <2>2. HoldSound(root)
    BY <1>6, <2>1 DEF HoldInv, Opens
  <2>3. Grantable' = Grantable /\ \A s \in Grants!Ids : OfSession(s, root)' => OfSession(s, root)
    BY <1>6, <2>1, OpensHand
  <2>4. ~InHand(q, root)'
    BY <1>6 DEF InHand
  <2>5. \A p \in GrantRequests : InHand(p, root)' =>
           /\ InHand(p, root) /\ req'[p].op = req[p].op /\ req'[p].item = req[p].item
           /\ Stage(p)' = Stage(p) \/ Stage(p) # "dropItem" \/ \A f \in Grantable' : f.root # root
    BY <1>6, <2>4, OpensHand
  <2>. QED
    BY <2>2, <2>3, <2>5, HoldLess
<1>7. ASSUME NEW e, Renewal(q, e) PROVE HoldInv'
  <2>1. Opens(q) /\ req'[q].op = "refresh"
    BY <1>7 DEF Renewal, Uses
  <2>2. ASSUME NEW s \in Grants!Ids, NEW root \in Grants!Ids \ raced', Renews(q, s)', req'[q].root = root
        PROVE  OfSession(s, root)
    BY <1>7, <2>2 DEF Renewal, Uses, Renews, OfSession
  <2>. QED
    BY <1>6, <2>1, <2>2
<1>8. ASSUME NEW s, GivesBack(q, s) PROVE HoldInv'
  <2>1. Opens(q) /\ req'[q].op = "revoke"
    BY <1>8 DEF GivesBack
  <2>2. \A x : ~Renews(q, x)'
    BY <2>1 DEF Renews
  <2>. QED
    BY <1>6, <2>1, <2>2
<1>. QED
  BY <1>1, <1>3, <1>4, <1>5, <1>7, <1>8, HoldPage

(* What happens beside the requests. *)
LEMMA HoldBeside ==
  ASSUME HoldInv, UNCHANGED req, raced \subseteq raced', Grantable' \subseteq Grantable, access' \subseteq access,
         refreshes' \subseteq refreshes
  PROVE  HoldInv'
<1>1. SUFFICES ASSUME NEW root \in Grants!Ids \ raced' PROVE HoldSound(root)'
  BY DEF HoldInv
<1>2. HoldSound(root)
  BY <1>1 DEF HoldInv
<1>3. \A p \in GrantRequests : Stage(p)' = Stage(p)
  BY DEF Stage, Grants!IsOpen
<1>4. \A p \in GrantRequests : InHand(p, root)' =>
           /\ InHand(p, root) /\ req'[p].op = req[p].op /\ req'[p].item = req[p].item
           /\ Stage(p)' = Stage(p) \/ Stage(p) # "dropItem" \/ \A f \in Grantable' : f.root # root
  BY <1>3 DEF InHand
<1>5. \A s \in Grants!Ids : OfSession(s, root)' => OfSession(s, root)
  BY <1>3 DEF OfSession, Renews
<1>. QED
  BY <1>2, <1>4, <1>5, HoldLess

LEMMA HoldDrop ==
  ASSUME BaseInv, HoldInv, NEW q \in GrantRequests, Grants!DropItem(q)
  PROVE  HoldInv'
<1>1. Grants!At(q, "dropItem") /\ Grants!Ran(q) /\ UNCHANGED <<access, raced>>
  BY DEF Grants!DropItem, Grants!KeepRows, Grants!KeepHistory
<1>2. PICK g : Moves(q, g) /\ Stage(q) = "dropItem"
  BY <1>1, RanBase
<1>3. refreshes' \subseteq refreshes /\ Grantable' \subseteq Grantable
  BY DEF Grants!DropItem, Grants!Dropped, Grantable
<1>4. ASSUME NEW root \in Grants!Ids \ raced', NEW e \in Grantable', InHand(q, root)', e.root = root
      PROVE  FALSE
  <2>1. InHand(q, root)
    BY <1>2, <1>4, MovesHand
  <2>2. HoldSound(root) /\ e \in Grantable
    BY <1>1, <1>3, <1>4 DEF HoldInv
  <2>3. req[q].item = e.id /\ IsFor(e, req[q].op)
    BY <1>4, <2>1, <2>2 DEF HoldSound
  <2>4. e \in asks' \/ e \in codes' \/ e \in states'
    BY <1>4 DEF Grantable
  <2>5. EntryTypes
    BY DEF BaseInv, GrantTypes
  <2>6. CASE req[q].op = "submit" /\ e.kind = "ask"
    BY <2>3, <2>4, <2>5, <2>6 DEF Grants!DropItem, Grants!Dropped, EntryTypes
  <2>7. CASE req[q].op = "grant" /\ e.kind = "code"
    BY <2>3, <2>4, <2>5, <2>7 DEF Grants!DropItem, Grants!Dropped, EntryTypes
  <2>8. CASE req[q].op = "callback" /\ e.kind = "state"
    BY <2>3, <2>4, <2>5, <2>8 DEF Grants!DropItem, Grants!Dropped, EntryTypes
  <2>. QED
    BY <2>3, <2>6, <2>7, <2>8 DEF IsFor
<1>. QED
  BY <1>1, <1>2, <1>3, <1>4, HoldMoves

LEMMA KnownIds ==
  Known \subseteq Grants!Ids /\ Grants!NoId \notin Grants!Ids /\ GrantRequests \subseteq Grants!Ids /\ 0 \notin GrantRequests
BY GrantAssumption DEF Known, Grants!Ids, Grants!NoId

LEMMA EndedStays ==
  ASSUME NEW q \in GrantRequests, Opens(q) \/ \E g : Moves(q, g), NEW i, Ended(i)
  PROVE  Ended(i)' /\ i # q
<1>1. i # q
  BY DEF Ended, Opens, Moves
<1>2. Known \subseteq Known' /\ Others(q)
  BY DEF Opens, Moves
<1>. QED
  BY <1>1, <1>2 DEF Ended, Others

LEMMA TokenMoves ==
  ASSUME TokenInv, NEW q \in GrantRequests, NEW g, Moves(q, g), Stage(q) = "answer" => g = "end",
         Refreshed' \subseteq Refreshed, has' = has
  PROVE  TokenInv'
<1>1. \A e, f \in Refreshed' : e.id = f.id => e.session = f.session
  BY DEF TokenInv
<1>2. \A s \in Grants!Ids, e \in Refreshed' : has'[s] = e.id => e.session = s
  BY DEF TokenInv
<1>3. \A p \in GrantRequests, e \in Refreshed' :
        Stage(p)' # "end" /\ req'[p].op \in {"refresh", "revoke"} /\ e.id = req'[p].item => e.session = req'[p].session
  BY DEF TokenInv, Moves, Others
<1>4. \A p \in GrantRequests, e \in Refreshed' :
        Stage(p)' # "end" /\ e.id = p => e.session = req'[p].session /\ Stage(p)' = "answer"
  BY DEF TokenInv, Moves, Others
<1>5. \A e \in Refreshed' : has'[e.session] = Grants!NoId => e.id = e.session
  BY DEF TokenInv
<1>. QED
  BY <1>1, <1>2, <1>3, <1>4, <1>5 DEF TokenInv

LEMMA AnswerMoves ==
  ASSUME AnswerInv, NEW q \in GrantRequests, NEW g, Moves(q, g), has' = has,
         \A s \in revoked' : s \in revoked \/ (s \in Grants!Ids /\ has[s] # Grants!NoId)
  PROVE  AnswerInv'
<1>1. \A i : Ended(i) => Ended(i)'
  BY EndedStays
<1>2. ASSUME NEW s \in Grants!Ids PROVE HasEnded(s)'
  <2>1. PICK i : i = has[s]
    OBVIOUS
  <2>2. has'[s] = i
    BY <2>1
  <2>3. i # Grants!NoId => Ended(i)'
    BY <1>1, <2>1 DEF AnswerInv, HasEnded
  <2>. QED
    BY <2>2, <2>3 DEF HasEnded, Ended
<1>3. ASSUME NEW p \in GrantRequests PROVE ItemEnded(p)'
  <2>1. SUFFICES ASSUME Stage(p)' # "end", req'[p].op \in {"refresh", "revoke"}
                 PROVE  ItemEnded(p)'
    BY DEF ItemEnded
  <2>2. /\ Stage(p) # "end" /\ req'[p].item = req[p].item /\ req'[p].session = req[p].session
        /\ req[p].op \in {"refresh", "revoke"}
    BY <2>1 DEF Moves, Others
  <2>3. PICK i : i = req[p].item
    OBVIOUS
  <2>4. Ended(i)' /\ has[req[p].session] # Grants!NoId
    BY <1>1, <2>2, <2>3 DEF AnswerInv, ItemEnded
  <2>5. req'[p].item = i
    BY <2>2, <2>3
  <2>. QED
    BY <2>2, <2>4, <2>5 DEF ItemEnded, Ended
<1>4. \A p \in GrantRequests : Stage(p)' # "end" /\ req'[p].op = "grant" => has'[p] = Grants!NoId
  BY DEF AnswerInv, Moves, Others
<1>5. \A s \in revoked' : s \in Grants!Ids /\ has'[s] # Grants!NoId
  BY DEF AnswerInv
<1>. QED
  BY <1>2, <1>3, <1>4, <1>5 DEF AnswerInv

LEMMA GoMoves ==
  ASSUME GoInv, NEW q \in GrantRequests, NEW g, Moves(q, g), refreshes' = refreshes, has' = has,
         revoked \subseteq revoked',
         spent \subseteq spent', g # "answer",
         \A s \in Grants!Ids : Renewing(q, s) => Renewing(q, s)' \/ s \in spent'
  PROVE  GoInv'
<1>1. SUFFICES ASSUME NEW s \in Grants!Ids \ (revoked' \cup spent') PROVE GoSound(s)'
  BY DEF GoInv
<1>2. GoSound(s)
  BY <1>1 DEF GoInv
<1>3. \A p \in GrantRequests : Renewing(p, s) => Renewing(p, s)'
  BY <1>1 DEF Renewing, Renews, Moves, Others
<1>4. \A p \in GrantRequests : Stage(p)' = "answer" /\ req'[p].session = s => Stage(p) = "answer" /\ req[p].session = s
  BY DEF Moves, Others
<1>. QED
  BY <1>2, <1>3, <1>4 DEF GoSound

LEMMA ClearBefore ==
  ASSUME NEW s, Clear(s)', spent \subseteq spent', raced \subseteq raced', Refreshed \subseteq Refreshed'
  PROVE  Clear(s)
BY DEF Clear

LEMMA SessionMoves ==
  ASSUME SessionInv, NEW q \in GrantRequests, NEW g, Moves(q, g), refreshes' = refreshes, Refreshed' = Refreshed,
         has' = has, revoked' = revoked, spent \subseteq spent', raced \subseteq raced',
         Stage(q) \in {"newRefresh", "answer"} /\ req[q].op = "refresh" => req[q].session \in spent',
         g \in {"newRefresh", "answer"} => req[q].op # "refresh"
  PROVE  SessionInv'
<1>1. SUFFICES ASSUME NEW s \in Grants!Ids, Clear(s)' PROVE SessionSound(s)'
  BY DEF SessionInv
<1>2. SessionSound(s) /\ s \notin spent'
  BY <1>1, ClearBefore DEF SessionInv, Clear
<1>3. \A p \in GrantRequests : Renews(p, s)' => Renews(p, s) /\ req'[p].item = req[p].item /\ req'[p].root = req[p].root
  BY DEF Renews, Moves, Others
<1>4. \A p \in GrantRequests : Renewing(p, s)' => Renewing(p, s)
  BY DEF Renewing, Renews, Moves, Others
<1>5. \A p \in GrantRequests : Renews(p, s) /\ Stage(p) = "answer" => Renews(p, s)' /\ Stage(p)' = "answer"
  BY <1>2 DEF Renews, Moves, Others
<1>6. \A p, r \in GrantRequests : Renews(p, s)' /\ Renews(r, s)' => p = r
  BY <1>2, <1>3 DEF SessionSound
<1>7. \A p \in GrantRequests : Renews(p, s)' =>
        req'[p].item = has'[s] /\ \E e \in Refreshed' : e.session = s /\ e.root = req'[p].root
  BY <1>2, <1>3 DEF SessionSound
<1>8. has'[s] # Grants!NoId => \A e \in refreshes' : e.session = s =>
       \/ e.id = has'[s] /\ \A p \in GrantRequests : ~Renewing(p, s)'
       \/ \E p \in GrantRequests : Renews(p, s)' /\ e.id = p /\ Stage(p)' = "answer"
  BY <1>2, <1>4, <1>5 DEF SessionSound
<1>9. s \in revoked' => (\A e \in refreshes' : e.session # s) /\ \A p \in GrantRequests : ~Renews(p, s)'
  BY <1>2, <1>3 DEF SessionSound
<1>. QED
  BY <1>6, <1>7, <1>8, <1>9 DEF SessionSound

(* A statement that leaves refresh tokens and what their clients have as they are. *)
LEMMA RefreshStays ==
  ASSUME RefreshInv, NEW q \in GrantRequests, NEW g, Moves(q, g), refreshes' = refreshes, Refreshed' = Refreshed,
         has' = has, revoked' = revoked, spent \subseteq spent', raced \subseteq raced', g # "answer",
         g = "newRefresh" => req[q].op # "refresh", Stage(q) = "answer" => g = "end",
         Stage(q) \in {"newRefresh", "answer"} /\ req[q].op = "refresh" => req[q].session \in spent'
  PROVE  RefreshInv'
<1>1. \A s \in Grants!Ids : Renewing(q, s) => s \in spent'
  BY DEF Renewing, Renews
<1>2. TokenInv' /\ AnswerInv'
  BY TokenMoves, AnswerMoves DEF RefreshInv
<1>3. GoInv'
  BY <1>1, GoMoves DEF RefreshInv
<1>4. SessionInv'
  BY SessionMoves DEF RefreshInv
<1>. QED
  BY <1>2, <1>3, <1>4 DEF RefreshInv

(* The refresh token goes: its session is being renewed, and no other session's token was that one. *)
LEMMA RefreshDrops ==
  ASSUME BaseInv, RefreshInv, NEW q \in GrantRequests, Grants!DropItem(q), req[q].op = "refresh"
  PROVE  RefreshInv'
<1>1. /\ Grants!At(q, "dropItem") /\ Grants!Ran(q) /\ UNCHANGED <<has, revoked, spent, raced, asks, codes, states>>
      /\ refreshes' = Grants!Dropped(refreshes, req[q].item) /\ dropped' = dropped \cup (refreshes \ refreshes')
  BY DEF Grants!DropItem, Grants!KeepRows, Grants!KeepHistory
<1>2. PICK g : Moves(q, g) /\ Follows(req[q].op, "dropItem", g) /\ Stage(q) = "dropItem" /\ CallSound(q)
  BY <1>1, RanBase
<1>3. g = "newRefresh" /\ req[q].session \in Grants!Ids
  BY <1>2, KnownIds DEF Follows, CallSound
<1>4. Refreshed' = Refreshed /\ refreshes' = {e \in refreshes : e.id # req[q].item} /\ refreshes \subseteq Refreshed
  BY <1>1 DEF Refreshed, Grants!Dropped, BaseInv, GrantTypes, EntryTypes
<1>5. TokenInv' /\ AnswerInv'
  BY <1>1, <1>2, <1>4, TokenMoves, AnswerMoves DEF RefreshInv
<1>6. (\A s : s = req[q].session => Renewing(q, s)') /\ Ended(req[q].item) /\ Renews(q, req[q].session)
  <2>1. \A s : s = req[q].session => Renewing(q, s)'
    BY <1>2, <1>3 DEF Renewing, Renews, Moves
  <2>2. Ended(req[q].item)
    BY <1>2 DEF RefreshInv, AnswerInv, ItemEnded
  <2>. QED
    BY <1>2, <2>1, <2>2 DEF Renews
<1>7. GoInv'
  <2>1. SUFFICES ASSUME NEW s \in Grants!Ids \ (revoked' \cup spent') PROVE GoSound(s)'
    BY DEF GoInv
  <2>2. GoSound(s)
    BY <1>1, <2>1 DEF RefreshInv, GoInv
  <2>3. \A p \in GrantRequests : Renewing(p, s) => Renewing(p, s)'
    BY <1>2 DEF Renewing, Renews, Moves, Others
  <2>4. ASSUME has'[s] # Grants!NoId
        PROVE  (\E e \in refreshes' : e.session = s /\ e.id = has'[s]) \/ \E p \in GrantRequests : Renewing(p, s)'
    <3>1. CASE \E p \in GrantRequests : Renewing(p, s)
      BY <2>3, <3>1
    <3>2. CASE \E e \in refreshes : e.session = s /\ e.id = has[s]
      <4>1. PICK e \in refreshes : e.session = s /\ e.id = has[s]
        BY <3>2
      <4>2. CASE e.id = req[q].item
        <5>1. s = req[q].session
          BY <1>2, <1>4, <4>1, <4>2 DEF RefreshInv, TokenInv
        <5>. QED
          BY <1>6, <5>1
      <4>3. CASE e.id # req[q].item
        BY <1>1, <1>4, <4>1, <4>3
      <4>. QED
        BY <4>2, <4>3
    <3>. QED
      BY <1>1, <2>2, <2>4, <3>1, <3>2 DEF GoSound
  <2>5. ASSUME NEW p \in GrantRequests, Stage(p)' = "answer", req'[p].session = s
        PROVE  \E e \in refreshes' : e.session = s /\ e.id = p
    <3>1. Stage(p) = "answer" /\ req[p].session = s
      BY <1>2, <1>3, <2>5 DEF Moves, Others
    <3>2. PICK e \in refreshes : e.session = s /\ e.id = p
      BY <2>2, <3>1 DEF GoSound
    <3>3. p # req[q].item
      BY <1>6, <3>1 DEF Ended
    <3>. QED
      BY <1>4, <3>2, <3>3
  <2>. QED
    BY <2>4, <2>5 DEF GoSound
<1>8. SessionInv'
  <2>1. SUFFICES ASSUME NEW s \in Grants!Ids, Clear(s)' PROVE SessionSound(s)'
    BY DEF SessionInv
  <2>2. SessionSound(s)
    BY <1>1, <1>4, <2>1, ClearBefore DEF RefreshInv, SessionInv
  <2>3. \A p \in GrantRequests : Renews(p, s)' =>
           Renews(p, s) /\ req'[p].item = req[p].item /\ req'[p].root = req[p].root
    BY <1>2 DEF Renews, Moves, Others
  <2>4. \A p, r \in GrantRequests : Renews(p, s)' /\ Renews(r, s)' => p = r
    BY <2>2, <2>3 DEF SessionSound
  <2>5. \A p \in GrantRequests : Renews(p, s)' =>
          req'[p].item = has'[s] /\ \E e \in Refreshed' : e.session = s /\ e.root = req'[p].root
    BY <1>1, <1>4, <2>2, <2>3 DEF SessionSound
  <2>6. s \in revoked' => (\A e \in refreshes' : e.session # s) /\ \A p \in GrantRequests : ~Renews(p, s)'
    BY <1>1, <1>4, <2>2, <2>3 DEF SessionSound
  <2>7. ASSUME has'[s] # Grants!NoId, NEW e \in refreshes', e.session = s
        PROVE  \/ e.id = has'[s] /\ \A p \in GrantRequests : ~Renewing(p, s)'
               \/ \E p \in GrantRequests : Renews(p, s)' /\ e.id = p /\ Stage(p)' = "answer"
    <3>1. e \in refreshes /\ e.id # req[q].item
      BY <1>4, <2>7
    <3>2. \/ e.id = has[s] /\ \A p \in GrantRequests : ~Renewing(p, s)
          \/ \E p \in GrantRequests : Renews(p, s) /\ e.id = p /\ Stage(p) = "answer"
      BY <1>1, <2>2, <2>7, <3>1 DEF SessionSound
    <3>3. CASE s = req[q].session
      <4>1. Renews(q, s) /\ req[q].item = has[s]
        BY <1>6, <2>2, <3>3 DEF SessionSound
      <4>2. PICK p \in GrantRequests : Renews(p, s) /\ Stage(p) = "answer"
        BY <3>1, <3>2, <4>1
      <4>3. p = q
        BY <2>2, <4>1, <4>2 DEF SessionSound
      <4>. QED
        BY <1>2, <4>2, <4>3
    <3>4. CASE s # req[q].session
      <4>1. \A p \in GrantRequests : Renews(p, s) => Renews(p, s)' /\ Stage(p)' = Stage(p)
        BY <1>2, <3>4 DEF Renews, Moves, Others
      <4>2. \A p \in GrantRequests : Renewing(p, s)' => Renewing(p, s)
        BY <2>3, <4>1 DEF Renewing
      <4>. QED
        BY <1>1, <3>2, <4>1, <4>2
    <3>. QED
      BY <3>3, <3>4
  <2>. QED
    BY <2>4, <2>5, <2>6, <2>7 DEF SessionSound
<1>. QED
  BY <1>5, <1>7, <1>8 DEF RefreshInv

LEMMA RefreshOnDrop ==
  ASSUME BaseInv, RefreshInv, NEW q \in GrantRequests, Grants!DropItem(q)
  PROVE  RefreshInv'
<1>1. CASE req[q].op = "refresh"
  BY <1>1, RefreshDrops
<1>2. CASE req[q].op # "refresh"
  <2>1. /\ Grants!At(q, "dropItem") /\ Grants!Ran(q) /\ refreshes' = refreshes
        /\ UNCHANGED <<has, revoked, spent, raced>>
    BY <1>2 DEF Grants!DropItem, Grants!KeepRows, Grants!KeepHistory
  <2>2. PICK g : Moves(q, g) /\ Follows(req[q].op, "dropItem", g) /\ Stage(q) = "dropItem"
    BY <2>1, RanBase
  <2>3. g # "answer"
    BY <2>2 DEF Follows
  <2>4. Refreshed' = Refreshed
    <3>1. \A e \in Grantable : e.kind # "refresh"
      BY DEF BaseInv, GrantTypes, EntryTypes, Grantable
    <3>2. dropped' \subseteq dropped \cup Grantable /\ dropped \subseteq dropped'
      BY <2>1 DEF Grants!DropItem, Grantable
    <3>. QED
      BY <2>1, <3>1, <3>2 DEF Refreshed
  <2>. QED
    BY <1>2, <2>1, <2>2, <2>3, <2>4, RefreshStays
<1>. QED
  BY <1>1, <1>2

(* A new refresh token has nobody yet. *)
LEMMA RefreshOnNew == ASSUME BaseInv, RefreshInv, NEW q \in GrantRequests, Grants!NewRefresh(q) PROVE RefreshInv'
<1>1. /\ Grants!At(q, "newRefresh") /\ Grants!Ran(q) /\ refreshes' = refreshes \cup {Grants!Entry("refresh", q, req[q])}
      /\ UNCHANGED <<dropped, has, revoked, spent, raced>>
  BY DEF Grants!NewRefresh, Grants!KeepHistory
<1>2. PICK g : /\ Moves(q, g) /\ Follows(req[q].op, "newRefresh", g) /\ Stage(q) = "newRefresh"
               /\ CallSound(q) /\ q \in Known
  BY <1>1, RanBase
<1>3. PICK n : n = Grants!Entry("refresh", q, req[q])
  OBVIOUS
<1>4. n.id = q /\ n.kind = "refresh" /\ n.session = req[q].session
  BY <1>3 DEF Grants!Entry
<1>5. g = "answer" /\ req[q].op \in {"grant", "refresh"} /\ req[q].session \in Grants!Ids
  BY <1>2, KnownIds DEF Follows, CallSound
<1>6. refreshes' = refreshes \cup {n} /\ Refreshed' = Refreshed \cup {n} /\ refreshes \subseteq Refreshed
  BY <1>1, <1>3 DEF Refreshed
<1>7. \A e \in Refreshed : e.id # q
  BY <1>2 DEF RefreshInv, TokenInv
<1>8. \A s \in Grants!Ids : has[s] # q
  BY <1>2, GrantAssumption DEF RefreshInv, AnswerInv, HasEnded, Ended, Grants!NoId
<1>9. req[q].op = "refresh" => has[req[q].session] # Grants!NoId
  BY <1>2 DEF RefreshInv, AnswerInv, ItemEnded
<1>10. TokenInv'
  <2>1. \A e, f \in Refreshed' : e.id = f.id => e.session = f.session
    BY <1>4, <1>6, <1>7 DEF RefreshInv, TokenInv
  <2>2. \A s \in Grants!Ids, e \in Refreshed' : has'[s] = e.id => e.session = s
    BY <1>1, <1>4, <1>6, <1>8 DEF RefreshInv, TokenInv
  <2>3. ASSUME NEW p \in GrantRequests, NEW e \in Refreshed', Stage(p)' # "end", req'[p].op \in {"refresh", "revoke"},
               e.id = req'[p].item
        PROVE  e.session = req'[p].session
    <3>1. /\ Stage(p) # "end" /\ req'[p].item = req[p].item /\ req'[p].session = req[p].session
          /\ req[p].op \in {"refresh", "revoke"}
      BY <1>2, <2>3 DEF Moves, Others
    <3>2. req[p].item # q
      BY <1>2, <3>1 DEF RefreshInv, AnswerInv, ItemEnded, Ended
    <3>. QED
      BY <1>4, <1>6, <2>3, <3>1, <3>2 DEF RefreshInv, TokenInv
  <2>4. \A p \in GrantRequests, e \in Refreshed' :
          Stage(p)' # "end" /\ e.id = p => e.session = req'[p].session /\ Stage(p)' = "answer"
    BY <1>2, <1>4, <1>5, <1>6, <1>7 DEF RefreshInv, TokenInv, Moves, Others
  <2>5. \A e \in Refreshed' : has'[e.session] = Grants!NoId => e.id = e.session
    <3>1. req[q].op = "grant" => req[q].session = q
      BY <1>2 DEF CallSound
    <3>. QED
      BY <1>1, <1>4, <1>5, <1>6, <1>9, <3>1 DEF RefreshInv, TokenInv
  <2>. QED
    BY <2>1, <2>2, <2>3, <2>4, <2>5 DEF TokenInv
<1>11. AnswerInv'
  BY <1>1, <1>2, AnswerMoves DEF RefreshInv
<1>12. GoInv'
  <2>1. SUFFICES ASSUME NEW s \in Grants!Ids \ (revoked' \cup spent') PROVE GoSound(s)'
    BY DEF GoInv
  <2>2. GoSound(s)
    BY <1>1, <2>1 DEF RefreshInv, GoInv
  <2>3. \A p \in GrantRequests : Renewing(p, s) => Renewing(p, s)'
    BY <1>2, <1>5 DEF Renewing, Renews, Moves, Others
  <2>4. \A p \in GrantRequests : Stage(p)' = "answer" /\ req'[p].session = s =>
          \E e \in refreshes' : e.session = s /\ e.id = p
    BY <1>2, <1>4, <1>5, <1>6, <2>2 DEF GoSound, Moves, Others
  <2>. QED
    BY <1>1, <1>6, <2>2, <2>3, <2>4 DEF GoSound
<1>13. SessionInv'
  <2>1. SUFFICES ASSUME NEW s \in Grants!Ids, Clear(s)' PROVE SessionSound(s)'
    BY DEF SessionInv
  <2>2. SessionSound(s)
    BY <1>1, <1>6, <2>1, ClearBefore DEF RefreshInv, SessionInv
  <2>3. \A p \in GrantRequests : /\ Renews(p, s)' <=> Renews(p, s)
                                 /\ Renews(p, s) => req'[p].item = req[p].item /\ req'[p].root = req[p].root
                                 /\ Renewing(p, s)' <=> Renewing(p, s)
                                 /\ p # q => Stage(p)' = Stage(p)
    BY <1>2, <1>5 DEF Renewing, Renews, Moves, Others
  <2>4. \A p, r \in GrantRequests : Renews(p, s)' /\ Renews(r, s)' => p = r
    BY <2>2, <2>3 DEF SessionSound
  <2>5. \A p \in GrantRequests : Renews(p, s)' =>
          req'[p].item = has'[s] /\ \E e \in Refreshed' : e.session = s /\ e.root = req'[p].root
    BY <1>1, <1>6, <2>2, <2>3 DEF SessionSound
  <2>6. CASE s # req[q].session
    <3>1. \A e \in refreshes' : e.session = s => e \in refreshes
      BY <1>4, <1>6, <2>6
    <3>2. s \in revoked' => (\A e \in refreshes' : e.session # s) /\ \A p \in GrantRequests : ~Renews(p, s)'
      BY <1>1, <2>2, <2>3, <3>1 DEF SessionSound
    <3>3. \A p \in GrantRequests : Renews(p, s) /\ Stage(p) = "answer" => Renews(p, s)' /\ Stage(p)' = "answer"
      BY <1>2, <2>3
    <3>4. has'[s] # Grants!NoId => \A e \in refreshes' : e.session = s =>
            \/ e.id = has'[s] /\ \A p \in GrantRequests : ~Renewing(p, s)'
            \/ \E p \in GrantRequests : Renews(p, s)' /\ e.id = p /\ Stage(p)' = "answer"
      BY <1>1, <2>2, <2>3, <3>1, <3>3 DEF SessionSound
    <3>. QED
      BY <2>4, <2>5, <3>2, <3>4 DEF SessionSound
  <2>7. CASE s = req[q].session /\ req[q].op = "refresh"
    <3>1. Renews(q, s) /\ Renewing(q, s) /\ Renews(q, s)' /\ Stage(q)' = "answer"
      BY <1>2, <1>5, <2>3, <2>7 DEF Renews, Renewing, Moves
    <3>2. s \notin revoked /\ has[s] # Grants!NoId
      BY <1>9, <2>2, <2>7, <3>1 DEF SessionSound
    <3>3. \A e \in refreshes : e.session # s
      <4>1. SUFFICES ASSUME NEW e \in refreshes, e.session = s PROVE FALSE
        OBVIOUS
      <4>2. PICK p \in GrantRequests : Renews(p, s) /\ Stage(p) = "answer"
        BY <2>2, <3>1, <3>2, <4>1 DEF SessionSound
      <4>3. p = q
        BY <2>2, <3>1, <4>2 DEF SessionSound
      <4>. QED
        BY <1>2, <4>2, <4>3
    <3>4. \A e \in refreshes' : e.session = s => e.id = q
      BY <1>4, <1>6, <3>3
    <3>. QED
      BY <1>1, <2>4, <2>5, <3>1, <3>2, <3>4 DEF SessionSound
  <2>8. CASE s = req[q].session /\ req[q].op = "grant"
    <3>1. s = q /\ has[s] = Grants!NoId
      BY <1>2, <2>8 DEF CallSound, RefreshInv, AnswerInv
    <3>2. s \notin revoked
      BY <3>1 DEF RefreshInv, AnswerInv
    <3>. QED
      BY <1>1, <2>4, <2>5, <3>1, <3>2 DEF SessionSound
  <2>. QED
    BY <1>5, <2>6, <2>7, <2>8
<1>. QED
  BY <1>10, <1>11, <1>12, <1>13 DEF RefreshInv

(* The client gets the token that was put for it. *)
LEMMA RefreshOnAnswer == ASSUME BaseInv, RefreshInv, NEW q \in GrantRequests, Grants!Answer(q) PROVE RefreshInv'
<1>1. /\ Grants!At(q, "answer") /\ Grants!Ran(q) /\ has' = [has EXCEPT ![req[q].session] = q]
      /\ UNCHANGED <<refreshes, dropped, revoked, spent, raced>>
  BY DEF Grants!Answer, Grants!KeepKv
<1>2. PICK g : /\ Moves(q, g) /\ Follows(req[q].op, "answer", g) /\ Stage(q) = "answer"
               /\ CallSound(q) /\ q \in Known
  BY <1>1, RanBase
<1>3. PICK s0 : s0 = req[q].session
  OBVIOUS
<1>4. g = "end" /\ req[q].op \in {"grant", "refresh"} /\ s0 \in Grants!Ids
  BY <1>2, <1>3, KnownIds DEF Follows, CallSound
<1>5. has'[s0] = q /\ (\A s \in Grants!Ids : s # s0 => has'[s] = has[s]) /\ q # Grants!NoId
  BY <1>1, <1>3, <1>4, GrantAssumption DEF BaseInv, GrantTypes, MapTypes
<1>6. Refreshed' = Refreshed /\ refreshes' = refreshes /\ refreshes \subseteq Refreshed /\ revoked' = revoked
  BY <1>1 DEF Refreshed, BaseInv, GrantTypes, EntryTypes
<1>7. \A e \in Refreshed : e.id = q => e.session = s0
  BY <1>2, <1>3 DEF RefreshInv, TokenInv
<1>8. req[q].op = "refresh" => has[s0] # Grants!NoId
  BY <1>2, <1>3 DEF RefreshInv, AnswerInv, ItemEnded
<1>9. req[q].op = "grant" => s0 = q /\ has[s0] = Grants!NoId
  BY <1>2, <1>3 DEF CallSound, RefreshInv, AnswerInv
<1>10. Stage(q)' = "end"
  BY <1>2, <1>4 DEF Moves
<1>11. TokenInv'
  <2>1. \A e, f \in Refreshed' : e.id = f.id => e.session = f.session
    BY <1>6 DEF RefreshInv, TokenInv
  <2>2. \A s \in Grants!Ids, e \in Refreshed' : has'[s] = e.id => e.session = s
    BY <1>5, <1>6, <1>7 DEF RefreshInv, TokenInv
  <2>3. \A p \in GrantRequests, e \in Refreshed' :
          Stage(p)' # "end" /\ req'[p].op \in {"refresh", "revoke"} /\ e.id = req'[p].item =>
            e.session = req'[p].session
    BY <1>2, <1>6, <1>10 DEF RefreshInv, TokenInv, Moves, Others
  <2>4. \A p \in GrantRequests, e \in Refreshed' :
          Stage(p)' # "end" /\ e.id = p => e.session = req'[p].session /\ Stage(p)' = "answer"
    BY <1>2, <1>6, <1>10 DEF RefreshInv, TokenInv, Moves, Others
  <2>5. \A e \in Refreshed' : has'[e.session] = Grants!NoId => e.id = e.session
    <3>1. \A e \in Refreshed : e.session \in Grants!Ids
      BY KnownIds DEF BaseInv, KnownInv
    <3>. QED
      BY <1>5, <1>6, <3>1 DEF RefreshInv, TokenInv
  <2>. QED
    BY <2>1, <2>2, <2>3, <2>4, <2>5 DEF TokenInv
<1>12. AnswerInv'
  <2>1. \A i : Ended(i) => Ended(i)'
    BY <1>2, EndedStays
  <2>2. Ended(q)'
    BY <1>2, <1>10 DEF Ended, Moves
  <2>3. ASSUME NEW s \in Grants!Ids PROVE HasEnded(s)'
    <3>1. PICK i : i = has'[s]
      OBVIOUS
    <3>2. i # Grants!NoId => Ended(i)'
      BY <1>5, <2>1, <2>2, <3>1 DEF RefreshInv, AnswerInv, HasEnded
    <3>. QED
      BY <3>1, <3>2 DEF HasEnded, Ended
  <2>4. ASSUME NEW p \in GrantRequests PROVE ItemEnded(p)'
    <3>1. SUFFICES ASSUME Stage(p)' # "end", req'[p].op \in {"refresh", "revoke"} PROVE ItemEnded(p)'
      BY DEF ItemEnded
    <3>2. p # q /\ req'[p] = req[p] /\ Stage(p) # "end"
      BY <1>2, <1>10, <3>1 DEF Moves, Others
    <3>3. PICK i : i = req[p].item
      OBVIOUS
    <3>4. Ended(i)' /\ has[req[p].session] # Grants!NoId
      BY <2>1, <3>1, <3>2, <3>3 DEF RefreshInv, AnswerInv, ItemEnded
    <3>5. req[p].session \in Grants!Ids
      BY <3>1, <3>2, KnownIds DEF BaseInv, CallInv, CallSound
    <3>6. has'[req'[p].session] # Grants!NoId /\ req'[p].item = i
      BY <1>5, <3>2, <3>3, <3>4, <3>5
    <3>. QED
      BY <3>4, <3>6 DEF ItemEnded, Ended
  <2>5. ASSUME NEW p \in GrantRequests, Stage(p)' # "end", req'[p].op = "grant"
        PROVE  has'[p] = Grants!NoId
    <3>1. p # q /\ req'[p] = req[p] /\ Stage(p) # "end"
      BY <1>2, <1>10, <2>5 DEF Moves, Others
    <3>2. has[p] = Grants!NoId /\ p \in Grants!Ids
      BY <2>5, <3>1, KnownIds DEF RefreshInv, AnswerInv
    <3>3. p # s0
      BY <1>4, <1>8, <1>9, <3>1, <3>2
    <3>. QED
      BY <1>5, <3>2, <3>3
  <2>6. \A s \in revoked' : s \in Grants!Ids /\ has'[s] # Grants!NoId
    BY <1>5, <1>6 DEF RefreshInv, AnswerInv
  <2>. QED
    BY <2>3, <2>4, <2>5, <2>6 DEF AnswerInv
<1>13. GoInv'
  <2>1. SUFFICES ASSUME NEW s \in Grants!Ids \ (revoked' \cup spent') PROVE GoSound(s)'
    BY DEF GoInv
  <2>2. GoSound(s)
    BY <1>1, <2>1 DEF RefreshInv, GoInv
  <2>3. \A p \in GrantRequests : Stage(p)' = "answer" /\ req'[p].session = s =>
          \E e \in refreshes' : e.session = s /\ e.id = p
    BY <1>2, <1>6, <1>10, <2>2 DEF GoSound, Moves, Others
  <2>4. CASE s = s0
    <3>1. \E e \in refreshes' : e.session = s /\ e.id = has'[s]
      BY <1>2, <1>3, <1>5, <1>6, <2>2, <2>4 DEF GoSound
    <3>. QED
      BY <2>3, <3>1 DEF GoSound
  <2>5. CASE s # s0
    <3>1. \A p \in GrantRequests : Renewing(p, s) => Renewing(p, s)'
      BY <1>2, <1>3, <2>5 DEF Renewing, Renews, Moves, Others
    <3>. QED
      BY <1>5, <1>6, <2>2, <2>3, <2>5, <3>1 DEF GoSound
  <2>. QED
    BY <2>4, <2>5
<1>14. SessionInv'
  <2>1. SUFFICES ASSUME NEW s \in Grants!Ids, Clear(s)' PROVE SessionSound(s)'
    BY DEF SessionInv
  <2>2. SessionSound(s)
    BY <1>1, <1>6, <2>1, ClearBefore DEF RefreshInv, SessionInv
  <2>3. \A p \in GrantRequests : Renews(p, s)' =>
          p # q /\ Renews(p, s) /\ req'[p] = req[p] /\ Stage(p)' = Stage(p)
    BY <1>2, <1>10 DEF Renews, Moves, Others
  <2>4. \A p, r \in GrantRequests : Renews(p, s)' /\ Renews(r, s)' => p = r
    BY <2>2, <2>3 DEF SessionSound
  <2>5. s \in revoked' => (\A e \in refreshes' : e.session # s) /\ \A p \in GrantRequests : ~Renews(p, s)'
    BY <1>6, <2>2, <2>3 DEF SessionSound
  <2>6. CASE s # s0
    <3>1. \A p \in GrantRequests : Renews(p, s) => Renews(p, s)' /\ Stage(p)' = Stage(p)
      BY <1>2, <1>3, <2>6 DEF Renews, Moves, Others
    <3>2. \A p \in GrantRequests : Renewing(p, s)' => Renewing(p, s)
      BY <2>3 DEF Renewing
    <3>3. \A p \in GrantRequests : Renews(p, s)' =>
            req'[p].item = has'[s] /\ \E e \in Refreshed' : e.session = s /\ e.root = req'[p].root
      BY <1>5, <1>6, <2>2, <2>3, <2>6 DEF SessionSound
    <3>4. has'[s] # Grants!NoId => \A e \in refreshes' : e.session = s =>
            \/ e.id = has'[s] /\ \A p \in GrantRequests : ~Renewing(p, s)'
            \/ \E p \in GrantRequests : Renews(p, s)' /\ e.id = p /\ Stage(p)' = "answer"
      BY <1>5, <1>6, <2>2, <2>6, <3>1, <3>2 DEF SessionSound
    <3>. QED
      BY <2>4, <2>5, <3>3, <3>4 DEF SessionSound
  <2>7. CASE s = s0
    <3>1. \A p \in GrantRequests : ~Renews(p, s)'
      <4>1. SUFFICES ASSUME NEW p \in GrantRequests, Renews(p, s)' PROVE FALSE
        OBVIOUS
      <4>2. p # q /\ Renews(p, s)
        BY <2>3, <4>1
      <4>3. has[s] # Grants!NoId
        BY <2>7, <4>2 DEF Renews, RefreshInv, AnswerInv, ItemEnded
      <4>4. Renews(q, s)
        BY <1>2, <1>3, <1>4, <1>9, <2>7, <4>3 DEF Renews
      <4>. QED
        BY <2>2, <4>2, <4>4 DEF SessionSound
    <3>2. ASSUME NEW e \in refreshes, e.session = s PROVE e.id = q
      <4>1. CASE req[q].op = "grant"
        BY <1>6, <1>9, <2>7, <3>2, <4>1 DEF RefreshInv, TokenInv
      <4>2. CASE req[q].op = "refresh"
        <5>1. Renewing(q, s) /\ Renews(q, s)
          BY <1>2, <1>3, <2>7, <4>2 DEF Renewing, Renews
        <5>2. \E p \in GrantRequests : Renews(p, s) /\ e.id = p
          BY <1>8, <2>2, <2>7, <3>2, <4>2, <5>1 DEF SessionSound
        <5>. QED
          BY <2>2, <5>1, <5>2 DEF SessionSound
      <4>. QED
        BY <1>4, <4>1, <4>2
    <3>3. \A p \in GrantRequests : ~Renewing(p, s)'
      BY <3>1 DEF Renewing
    <3>. QED
      BY <1>5, <1>6, <2>4, <2>5, <2>7, <3>1, <3>2, <3>3 DEF SessionSound
  <2>. QED
    BY <2>6, <2>7
<1>. QED
  BY <1>11, <1>12, <1>13, <1>14 DEF RefreshInv

(* A refresh token that is given back: whoever had read it makes the session a raced one. *)
LEMMA RefreshOnRevoke == ASSUME BaseInv, RefreshInv, NEW q \in GrantRequests, Grants!RevokeRefresh(q) PROVE RefreshInv'
<1>1. /\ Grants!At(q, "revokeRefresh") /\ Grants!Ran(q) /\ UNCHANGED <<has, spent>>
      /\ refreshes' = Grants!Dropped(refreshes, req[q].item) /\ dropped' = dropped \cup (refreshes \ refreshes')
      /\ revoked' = revoked \cup {req[q].session} /\ raced \subseteq raced'
  BY DEF Grants!RevokeRefresh
<1>2. PICK g : /\ Moves(q, g) /\ Follows(req[q].op, "revokeRefresh", g) /\ Stage(q) = "revokeRefresh"
               /\ CallSound(q) /\ q \in Known
  BY <1>1, RanBase
<1>3. PICK s0 : s0 = req[q].session
  OBVIOUS
<1>4. g = "end" /\ req[q].op = "revoke" /\ s0 \in Grants!Ids
  BY <1>2, <1>3, KnownIds DEF Follows, CallSound
<1>5. /\ Refreshed' = Refreshed /\ refreshes' = {e \in refreshes : e.id # req[q].item}
      /\ refreshes \subseteq Refreshed
  BY <1>1 DEF Refreshed, Grants!Dropped, BaseInv, GrantTypes, EntryTypes
<1>6. has[s0] # Grants!NoId /\ Ended(req[q].item)
  BY <1>2, <1>3, <1>4 DEF RefreshInv, AnswerInv, ItemEnded
<1>7. \A e \in Refreshed : e.id = req[q].item => e.session = s0
  BY <1>2, <1>3, <1>4 DEF RefreshInv, TokenInv
<1>8. TokenInv'
  BY <1>1, <1>2, <1>5, TokenMoves DEF RefreshInv
<1>9. AnswerInv'
  BY <1>1, <1>2, <1>3, <1>4, <1>6, AnswerMoves DEF RefreshInv
<1>10. GoInv'
  <2>1. SUFFICES ASSUME NEW s \in Grants!Ids \ (revoked' \cup spent') PROVE GoSound(s)'
    BY DEF GoInv
  <2>2. GoSound(s) /\ s # s0
    BY <1>1, <1>3, <2>1 DEF RefreshInv, GoInv
  <2>3. \A e \in refreshes : e.session = s => e \in refreshes'
    BY <1>5, <1>7, <2>2
  <2>4. \A p \in GrantRequests : Renewing(p, s) => Renewing(p, s)'
    BY <1>2, <1>4 DEF Renewing, Renews, Moves, Others
  <2>5. \A p \in GrantRequests : Stage(p)' = "answer" /\ req'[p].session = s =>
           Stage(p) = "answer" /\ req[p].session = s
    BY <1>2, <1>4 DEF Moves, Others
  <2>. QED
    BY <1>1, <2>2, <2>3, <2>4, <2>5 DEF GoSound
<1>11. SessionInv'
  <2>1. SUFFICES ASSUME NEW s \in Grants!Ids, Clear(s)' PROVE SessionSound(s)'
    BY DEF SessionInv
  <2>2. SessionSound(s) /\ Clear(s)
    BY <1>1, <1>5, <2>1, ClearBefore DEF RefreshInv, SessionInv
  <2>3. \A p \in GrantRequests : /\ Renews(p, s)' => Renews(p, s) /\ req'[p] = req[p]
                                 /\ Renewing(p, s)' => Renewing(p, s)
                                 /\ Renews(p, s) => Renews(p, s)' /\ Stage(p)' = Stage(p)
    BY <1>2, <1>4 DEF Renewing, Renews, Moves, Others
  <2>4. \A p, r \in GrantRequests : Renews(p, s)' /\ Renews(r, s)' => p = r
    BY <2>2, <2>3 DEF SessionSound
  <2>5. \A p \in GrantRequests : Renews(p, s)' =>
          req'[p].item = has'[s] /\ \E e \in Refreshed' : e.session = s /\ e.root = req'[p].root
    BY <1>1, <1>5, <2>2, <2>3 DEF SessionSound
  <2>6. has'[s] # Grants!NoId => \A e \in refreshes' : e.session = s =>
          \/ e.id = has'[s] /\ \A p \in GrantRequests : ~Renewing(p, s)'
          \/ \E p \in GrantRequests : Renews(p, s)' /\ e.id = p /\ Stage(p)' = "answer"
    BY <1>1, <1>5, <2>2, <2>3 DEF SessionSound
  <2>7. CASE s # s0
    <3>1. s \in revoked' => (\A e \in refreshes' : e.session # s) /\ \A p \in GrantRequests : ~Renews(p, s)'
      BY <1>1, <1>3, <1>5, <2>2, <2>3, <2>7 DEF SessionSound
    <3>. QED
      BY <2>4, <2>5, <2>6, <3>1 DEF SessionSound
  <2>8. CASE s = s0
    <3>1. \A p \in GrantRequests : ~Renews(p, s)
      <4>1. SUFFICES ASSUME NEW p \in GrantRequests, Renews(p, s) PROVE FALSE
        OBVIOUS
      <4>2. req[p].root \in raced'
        BY <1>3, <2>8, <4>1 DEF Grants!RevokeRefresh, Renews, Stage
      <4>3. PICK e \in Refreshed : e.session = s /\ e.root = req[p].root
        BY <2>2, <4>1 DEF SessionSound
      <4>. QED
        BY <1>5, <2>1, <4>2, <4>3 DEF Clear
    <3>2. \A e \in refreshes' : e.session # s
      <4>1. SUFFICES ASSUME NEW e \in refreshes, e.session = s, e.id # req[q].item PROVE FALSE
        BY <1>5
      <4>2. CASE req[q].item = has[s]
        BY <1>6, <2>2, <2>8, <3>1, <4>1, <4>2 DEF SessionSound
      <4>3. CASE req[q].item # has[s]
        <5>1. e.root \in Grants!RootsOf(s)
          BY <4>1 DEF Grants!RootsOf
        <5>2. e.root \in raced'
          BY <1>3, <2>8, <4>3, <5>1 DEF Grants!RevokeRefresh
        <5>. QED
          BY <1>5, <2>1, <4>1, <5>2 DEF Clear
      <4>. QED
        BY <4>2, <4>3
    <3>. QED
      BY <2>3, <2>4, <2>5, <2>6, <3>1, <3>2 DEF SessionSound
  <2>. QED
    BY <2>7, <2>8
<1>. QED
  BY <1>8, <1>9, <1>10, <1>11 DEF RefreshInv

(* How a request that is about a client's token begins. *)
BeginsSound(q) ==
  /\ Opens(q) /\ Stage(q)' \notin {"newRefresh", "answer"}
  /\ req'[q].op \in {"refresh", "revoke"} =>
       req'[q].session \in Grants!Ids /\ req'[q].item = has[req'[q].session] /\ has[req'[q].session] # Grants!NoId
  /\ req'[q].op = "refresh" =>
       \E e \in Refreshed :
         /\ e.session = req'[q].session /\ e.root = req'[q].root /\ e.id = req'[q].item
         /\ e.root \notin raced' => e \in refreshes /\ \A p \in GrantRequests : Stage(p) # "end" => req[p].item # e.id

LEMMA ArriveBegins == ASSUME BaseInv, NEW q \in GrantRequests, Grants!Arrive(q) PROVE BeginsSound(q)
<1>1. \/ Page(q) \/ \E s : GivesBack(q, s)
      \/ \E e : Form(q, e) \/ Coded(q, e) \/ Returns(q, e) \/ Renewal(q, e)
  BY ArriveIs DEF BaseInv
<1>2. CASE Page(q)
  BY <1>2 DEF Page, BeginsSound
<1>3. ASSUME NEW s, GivesBack(q, s) PROVE BeginsSound(q)
  BY <1>3 DEF GivesBack, BeginsSound
<1>4. ASSUME NEW e, Form(q, e) PROVE BeginsSound(q)
  BY <1>4 DEF Form, Uses, BeginsSound
<1>5. ASSUME NEW e, Coded(q, e) PROVE BeginsSound(q)
  BY <1>5 DEF Coded, Uses, BeginsSound
<1>6. ASSUME NEW e, Returns(q, e) PROVE BeginsSound(q)
  BY <1>6 DEF Returns, Uses, BeginsSound
<1>7. ASSUME NEW e, Renewal(q, e) PROVE BeginsSound(q)
  <2>1. /\ Opens(q) /\ req'[q].op = "refresh" /\ req'[q].item = e.id /\ req'[q].root = e.root
        /\ e \in refreshes \cup dropped
        /\ e.root \notin raced' => e \in refreshes /\ \A p \in GrantRequests : Stage(p) # "end" => req[p].item # e.id
    BY <1>7 DEF Renewal, Uses
  <2>2. /\ e.kind = "refresh" /\ req'[q].session = e.session /\ has[e.session] = e.id /\ Stage(q)' = "newToken"
    BY <1>7 DEF Renewal
  <2>3. e \in Refreshed
    BY <2>1, <2>2 DEF Refreshed
  <2>4. e.session \in Grants!Ids /\ e.id # Grants!NoId
    BY <2>1, <2>3, KnownIds DEF BaseInv, KnownInv
  <2>. QED
    BY <2>1, <2>2, <2>3, <2>4 DEF BeginsSound
<1>. QED
  BY <1>1, <1>2, <1>3, <1>4, <1>5, <1>6, <1>7

(* A new request has made nothing, and it renews a session only with the token the client has. *)
LEMMA RefreshOpens ==
  ASSUME BaseInv, RefreshInv, NEW q \in GrantRequests, BeginsSound(q)
  PROVE  RefreshInv'
<1>1. /\ Others(q) /\ q \notin Known /\ Stage(q) = "end" /\ Stage(q)' \notin {"end", "newRefresh", "answer"}
      /\ UNCHANGED <<refreshes, dropped, has, revoked, spent>> /\ raced \subseteq raced' /\ Known' = Known \cup {q}
  BY DEF BeginsSound, Opens
<1>2. Refreshed' = Refreshed /\ refreshes' = refreshes /\ has' = has /\ refreshes \subseteq Refreshed
  BY <1>1 DEF Refreshed
<1>3. (\A e \in Refreshed : e.id # q) /\ has[q] = Grants!NoId
  BY <1>1, KnownIds DEF BaseInv, KnownInv, Refreshed
<1>4. TokenInv'
  <2>1. \A e, f \in Refreshed' : e.id = f.id => e.session = f.session
    BY <1>2 DEF RefreshInv, TokenInv
  <2>2. \A s \in Grants!Ids, e \in Refreshed' : has'[s] = e.id => e.session = s
    BY <1>2 DEF RefreshInv, TokenInv
  <2>3. ASSUME NEW p \in GrantRequests, NEW e \in Refreshed', Stage(p)' # "end", req'[p].op \in {"refresh", "revoke"},
               e.id = req'[p].item
        PROVE  e.session = req'[p].session
    <3>1. CASE p = q
      BY <1>2, <2>3, <3>1 DEF BeginsSound, RefreshInv, TokenInv
    <3>2. CASE p # q
      BY <1>1, <1>2, <2>3, <3>2 DEF Others, RefreshInv, TokenInv
    <3>. QED
      BY <3>1, <3>2
  <2>4. \A p \in GrantRequests, e \in Refreshed' :
          Stage(p)' # "end" /\ e.id = p => e.session = req'[p].session /\ Stage(p)' = "answer"
    BY <1>1, <1>2, <1>3 DEF RefreshInv, TokenInv, Others
  <2>5. \A e \in Refreshed' : has'[e.session] = Grants!NoId => e.id = e.session
    BY <1>2 DEF RefreshInv, TokenInv
  <2>. QED
    BY <2>1, <2>2, <2>3, <2>4, <2>5 DEF TokenInv
<1>5. AnswerInv'
  <2>1. \A i : Ended(i) => Ended(i)'
    BY EndedStays DEF BeginsSound
  <2>2. ASSUME NEW s \in Grants!Ids PROVE HasEnded(s)'
    <3>1. PICK i : i = has[s]
      OBVIOUS
    <3>2. has'[s] = i
      BY <1>2, <3>1
    <3>3. i # Grants!NoId => Ended(i)'
      BY <2>1, <3>1 DEF RefreshInv, AnswerInv, HasEnded
    <3>. QED
      BY <3>2, <3>3 DEF HasEnded, Ended
  <2>3. ASSUME NEW p \in GrantRequests PROVE ItemEnded(p)'
    <3>1. SUFFICES ASSUME Stage(p)' # "end", req'[p].op \in {"refresh", "revoke"}
                   PROVE  ItemEnded(p)'
      BY DEF ItemEnded
    <3>2. PICK i : i = req'[p].item
      OBVIOUS
    <3>3. CASE p = q
      <4>1. i = has[req'[q].session] /\ i # Grants!NoId /\ req'[q].session \in Grants!Ids
        BY <3>1, <3>2, <3>3 DEF BeginsSound
      <4>2. Ended(i)'
        BY <2>1, <4>1 DEF RefreshInv, AnswerInv, HasEnded
      <4>. QED
        BY <1>2, <3>2, <3>3, <4>1, <4>2 DEF ItemEnded, Ended
    <3>4. CASE p # q
      <4>1. req'[p] = req[p] /\ Stage(p) # "end"
        BY <1>1, <3>1, <3>4 DEF Others
      <4>2. Ended(i)' /\ has[req[p].session] # Grants!NoId
        BY <2>1, <3>1, <3>2, <4>1 DEF RefreshInv, AnswerInv, ItemEnded
      <4>. QED
        BY <1>2, <3>2, <4>1, <4>2 DEF ItemEnded, Ended
    <3>. QED
      BY <3>3, <3>4
  <2>4. \A p \in GrantRequests : Stage(p)' # "end" /\ req'[p].op = "grant" => has'[p] = Grants!NoId
    BY <1>1, <1>2, <1>3 DEF RefreshInv, AnswerInv, Others
  <2>5. \A s \in revoked' : s \in Grants!Ids /\ has'[s] # Grants!NoId
    BY <1>1 DEF RefreshInv, AnswerInv
  <2>. QED
    BY <2>2, <2>3, <2>4, <2>5 DEF AnswerInv
<1>6. GoInv'
  <2>1. SUFFICES ASSUME NEW s \in Grants!Ids \ (revoked' \cup spent') PROVE GoSound(s)'
    BY DEF GoInv
  <2>2. GoSound(s)
    BY <1>1, <2>1 DEF RefreshInv, GoInv
  <2>3. \A p \in GrantRequests : Renewing(p, s) => Renewing(p, s)'
    BY <1>1 DEF Renewing, Renews, Others
  <2>4. \A p \in GrantRequests : Stage(p)' = "answer" /\ req'[p].session = s =>
           Stage(p) = "answer" /\ req[p].session = s
    BY <1>1 DEF Others
  <2>. QED
    BY <1>2, <2>2, <2>3, <2>4 DEF GoSound
<1>7. SessionInv'
  <2>1. SUFFICES ASSUME NEW s \in Grants!Ids, Clear(s)' PROVE SessionSound(s)'
    BY DEF SessionInv
  <2>2. SessionSound(s)
    BY <1>1, <1>2, <2>1, ClearBefore DEF RefreshInv, SessionInv
  <2>3. \A p \in GrantRequests \ {q} : /\ Renews(p, s)' <=> Renews(p, s)
                                       /\ req'[p] = req[p] /\ Stage(p)' = Stage(p)
    BY <1>1 DEF Renews, Others
  <2>4. ~Renews(q, s) /\ \A p \in GrantRequests : Renewing(p, s)' => Renewing(p, s)
    BY <1>1, <2>3 DEF Renewing, Renews
  <2>5. CASE ~Renews(q, s)'
    <3>1. \A p \in GrantRequests : Renews(p, s)' => Renews(p, s) /\ req'[p] = req[p] /\ Stage(p)' = Stage(p)
      BY <2>3, <2>5
    <3>2. \A p \in GrantRequests : Renews(p, s) => Renews(p, s)' /\ Stage(p)' = Stage(p)
      BY <2>3, <2>4
    <3>3. \A p, r \in GrantRequests : Renews(p, s)' /\ Renews(r, s)' => p = r
      BY <2>2, <3>1 DEF SessionSound
    <3>4. \A p \in GrantRequests : Renews(p, s)' =>
            req'[p].item = has'[s] /\ \E e \in Refreshed' : e.session = s /\ e.root = req'[p].root
      BY <1>2, <2>2, <3>1 DEF SessionSound
    <3>5. has'[s] # Grants!NoId => \A e \in refreshes' : e.session = s =>
            \/ e.id = has'[s] /\ \A p \in GrantRequests : ~Renewing(p, s)'
            \/ \E p \in GrantRequests : Renews(p, s)' /\ e.id = p /\ Stage(p)' = "answer"
      BY <1>2, <2>2, <2>4, <3>2 DEF SessionSound
    <3>6. s \in revoked' => (\A e \in refreshes' : e.session # s) /\ \A p \in GrantRequests : ~Renews(p, s)'
      BY <1>1, <2>2, <3>1 DEF SessionSound
    <3>. QED
      BY <3>3, <3>4, <3>5, <3>6 DEF SessionSound
  <2>6. CASE Renews(q, s)'
    <3>1. req'[q].op = "refresh" /\ req'[q].session = s
      BY <2>6 DEF Renews
    <3>2. PICK e \in Refreshed :
            /\ e.session = s /\ e.root = req'[q].root /\ e.id = req'[q].item
            /\ e.root \notin raced' =>
                 e \in refreshes /\ \A p \in GrantRequests : Stage(p) # "end" => req[p].item # e.id
      BY <3>1 DEF BeginsSound
    <3>3. e.id = has[s] /\ has[s] # Grants!NoId
      BY <3>1, <3>2 DEF BeginsSound
    <3>4. e.root \notin raced'
      BY <1>2, <2>1, <3>2 DEF Clear
    <3>5. \A p \in GrantRequests : ~Renews(p, s)
      <4>1. \A p \in GrantRequests : Renews(p, s) => req[p].item = has[s] /\ Stage(p) # "end"
        BY <2>2 DEF SessionSound, Renews
      <4>. QED
        BY <3>2, <3>3, <3>4, <4>1
    <3>6. (\A p \in GrantRequests : Renews(p, s)' => p = q) /\ \A p \in GrantRequests : ~Renewing(p, s)'
      BY <2>3, <2>4, <3>5 DEF Renewing
    <3>7. \A p, r \in GrantRequests : Renews(p, s)' /\ Renews(r, s)' => p = r
      BY <3>6
    <3>8. \A p \in GrantRequests : Renews(p, s)' =>
            req'[p].item = has'[s] /\ \E f \in Refreshed' : f.session = s /\ f.root = req'[p].root
      BY <1>2, <3>2, <3>3, <3>6
    <3>9. has'[s] # Grants!NoId => \A f \in refreshes' : f.session = s =>
            \/ f.id = has'[s] /\ \A p \in GrantRequests : ~Renewing(p, s)'
            \/ \E p \in GrantRequests : Renews(p, s)' /\ f.id = p /\ Stage(p)' = "answer"
      BY <1>2, <2>2, <3>3, <3>5, <3>6 DEF SessionSound
    <3>10. s \notin revoked'
      BY <1>1, <2>2, <3>2, <3>4 DEF SessionSound
    <3>. QED
      BY <3>7, <3>8, <3>9, <3>10 DEF SessionSound
  <2>. QED
    BY <2>5, <2>6
<1>. QED
  BY <1>4, <1>5, <1>6, <1>7 DEF RefreshInv

(* Entries lapse beside the requests; a session that loses its token that way is spent. *)
LEMMA RefreshBeside ==
  ASSUME BaseInv, RefreshInv, UNCHANGED <<req, dropped, has, revoked, raced>>, spent \subseteq spent',
         refreshes' \subseteq refreshes, \A e \in refreshes \ refreshes' : e.session \in spent'
  PROVE  RefreshInv'
<1>1. Known' = Known /\ \A p \in GrantRequests : Stays(p)
  BY SameRequests
<1>2. \A p \in GrantRequests : req'[p] = req[p] /\ Stage(p)' = Stage(p)
  BY <1>1 DEF Stays
<1>3. Refreshed' \subseteq Refreshed /\ has' = has /\ revoked' = revoked /\ refreshes \subseteq Refreshed
  BY DEF Refreshed
<1>4. TokenInv'
  BY <1>2, <1>3 DEF RefreshInv, TokenInv
<1>5. AnswerInv'
  <2>1. \A i : Ended(i)' <=> Ended(i)
    BY <1>1, <1>2 DEF Ended
  <2>2. ASSUME NEW s \in Grants!Ids PROVE HasEnded(s)'
    <3>1. PICK i : i = has[s]
      OBVIOUS
    <3>2. has'[s] = i /\ (i # Grants!NoId => Ended(i)')
      BY <1>3, <2>1, <3>1 DEF RefreshInv, AnswerInv, HasEnded
    <3>. QED
      BY <3>2 DEF HasEnded, Ended
  <2>3. ASSUME NEW p \in GrantRequests PROVE ItemEnded(p)'
    <3>1. PICK i : i = req[p].item
      OBVIOUS
    <3>2. req'[p].item = i /\ req'[p] = req[p] /\ Stage(p)' = Stage(p)
      BY <1>2, <3>1
    <3>3. Stage(p) # "end" /\ req[p].op \in {"refresh", "revoke"} => Ended(i)' /\ has[req[p].session] # Grants!NoId
      BY <2>1, <3>1 DEF RefreshInv, AnswerInv, ItemEnded
    <3>. QED
      BY <1>3, <3>2, <3>3 DEF ItemEnded, Ended
  <2>4. \A p \in GrantRequests : Stage(p)' # "end" /\ req'[p].op = "grant" => has'[p] = Grants!NoId
    BY <1>2, <1>3 DEF RefreshInv, AnswerInv
  <2>5. \A s \in revoked' : s \in Grants!Ids /\ has'[s] # Grants!NoId
    BY <1>3 DEF RefreshInv, AnswerInv
  <2>. QED
    BY <2>2, <2>3, <2>4, <2>5 DEF AnswerInv
<1>6. GoInv'
  <2>1. SUFFICES ASSUME NEW s \in Grants!Ids \ (revoked' \cup spent') PROVE GoSound(s)'
    BY DEF GoInv
  <2>2. GoSound(s) /\ \A e \in refreshes : e.session = s => e \in refreshes'
    BY <1>3, <2>1 DEF RefreshInv, GoInv
  <2>3. \A p \in GrantRequests : Renewing(p, s)' <=> Renewing(p, s)
    BY <1>2 DEF Renewing, Renews
  <2>. QED
    BY <1>2, <1>3, <2>2, <2>3 DEF GoSound
<1>7. SessionInv'
  <2>1. SUFFICES ASSUME NEW s \in Grants!Ids, Clear(s)' PROVE SessionSound(s)'
    BY DEF SessionInv
  <2>2. s \notin spent' /\ \A e \in refreshes : e.session = s => e \in refreshes'
    BY <2>1 DEF Clear
  <2>3. \A e \in Refreshed : e.session = s => e \in Refreshed'
    BY <2>2 DEF Refreshed
  <2>4. Clear(s)
    BY <2>1, <2>2, <2>3 DEF Clear
  <2>5. SessionSound(s)
    BY <2>4 DEF RefreshInv, SessionInv
  <2>6. \A p \in GrantRequests : (Renewing(p, s)' <=> Renewing(p, s)) /\ (Renews(p, s)' <=> Renews(p, s))
    BY <1>2 DEF Renewing, Renews
  <2>7. \A p, r \in GrantRequests : Renews(p, s)' /\ Renews(r, s)' => p = r
    BY <2>5, <2>6 DEF SessionSound
  <2>8. \A p \in GrantRequests : Renews(p, s)' =>
          req'[p].item = has'[s] /\ \E e \in Refreshed' : e.session = s /\ e.root = req'[p].root
    BY <1>2, <1>3, <2>3, <2>5, <2>6 DEF SessionSound
  <2>9. has'[s] # Grants!NoId => \A e \in refreshes' : e.session = s =>
          \/ e.id = has'[s] /\ \A p \in GrantRequests : ~Renewing(p, s)'
          \/ \E p \in GrantRequests : Renews(p, s)' /\ e.id = p /\ Stage(p)' = "answer"
    BY <1>2, <1>3, <2>5, <2>6 DEF SessionSound
  <2>10. s \in revoked' => (\A e \in refreshes' : e.session # s) /\ \A p \in GrantRequests : ~Renews(p, s)'
    BY <1>3, <2>5, <2>6 DEF SessionSound
  <2>. QED
    BY <2>7, <2>8, <2>9, <2>10 DEF SessionSound
<1>. QED
  BY <1>4, <1>5, <1>6, <1>7 DEF RefreshInv

LEMMA GrantParts == GrantInd <=> BaseInv /\ HoldInv /\ RefreshInv
BY DEF GrantInd, BaseInv

(* A login at the identity provider has no refresh token to put or to answer with. *)
LEMMA CallbackStages ==
  ASSUME NEW r, GrantCall(r), r.op = "callback"
  PROVE  First(r.todo) \notin {"newRefresh", "answer"}
<1>1. r.todo # <<>> => ListSound(r.op, r.todo)
  BY ListsFollow DEF GrantCall
<1>2. r.todo # <<>> => Follows("callback", First(r.todo), First(Tail(r.todo)))
  BY <1>1 DEF ListSound
<1>3. r.todo # <<>> => First(r.todo) \notin {"newRefresh", "answer"}
  BY <1>2 DEF Follows
<1>4. r.todo = <<>> => First(r.todo) = "end"
  BY DEF First
<1>. QED
  BY <1>3, <1>4

(* A statement of a login at the identity provider, and one that ends its request. *)
LEMMA LoginGoes ==
  ASSUME BaseInv, HoldInv, RefreshInv, NEW q \in GrantRequests, NEW g, Moves(q, g), GrantTypes',
         g = "end" \/ req[q].op = "callback", Stage(q) # "dropItem", Stage(q) # "answer",
         Stage(q) # "newRefresh" \/ req[q].op # "refresh",
         SameKv, UNCHANGED <<access, has, revoked, spent, raced>>
  PROVE  HoldInv' /\ RefreshInv'
<1>1. Grantable' = Grantable /\ Refreshed' = Refreshed /\ refreshes' = refreshes
  BY DEF SameKv, Grantable, Refreshed
<1>2. HoldInv'
  BY <1>1, HoldMoves
<1>3. g \notin {"newRefresh", "answer"}
  <2>1. CASE g = "end"
    BY <2>1
  <2>2. CASE g # "end" /\ req[q].op = "callback"
    <3>1. PICK r : r = req'[q]
      OBVIOUS
    <3>2. GrantCall(r) /\ r.op = "callback"
      BY <2>2, <3>1 DEF Moves, CallTypes, GrantCall
    <3>3. g = First(r.todo)
      BY <3>1 DEF Moves, Stage, Grants!IsOpen, First
    <3>. QED
      BY <3>2, <3>3, CallbackStages
  <2>. QED
    BY <2>1, <2>2
<1>4. RefreshInv'
  BY <1>1, <1>3, RefreshStays
<1>. QED
  BY <1>2, <1>4

LEMMA StepArrives == ASSUME GrantInd, NEW q \in GrantRequests, Grants!Arrive(q) PROVE GrantInd'
<1>1. BaseInv' /\ HoldInv' /\ RefreshInv'
  BY GrantParts, BaseOpens, HoldOpens, ArriveBegins, RefreshOpens
<1>. QED
  BY <1>1 DEF GrantInd, BaseInv

LEMMA StepStops == ASSUME GrantInd, NEW q \in GrantRequests, Grants!Stop(q) PROVE GrantInd'
<1>1. /\ Grants!IsOpen(q) /\ Grants!Throws(q)
      /\ UNCHANGED <<asks, codes, states, refreshes, dropped, access, links, has, moved, raced, revoked>>
      /\ spent' = IF req[q].op = "refresh" /\ (Grants!At(q, "newRefresh") \/ Grants!At(q, "answer"))
                  THEN spent \cup {req[q].session} ELSE spent
  BY DEF Grants!Stop, Grants!KeepKv, Grants!KeepRows
<1>2. BaseInv /\ HoldInv /\ RefreshInv /\ Stage(q) # "end"
  BY <1>1, StageIs, GrantParts DEF BaseInv
<1>3. BaseInv' /\ Moves(q, "end")
  BY <1>1, <1>2, StopBase
<1>4. Grantable' = Grantable /\ Refreshed' = Refreshed
  BY <1>1 DEF Grantable, Refreshed
<1>5. ASSUME NEW root, InHand(q, root)' PROVE FALSE
  BY <1>3, <1>5 DEF InHand, Moves
<1>6. HoldInv'
  BY <1>1, <1>2, <1>3, <1>4, <1>5, HoldMoves
<1>7. /\ spent \subseteq spent'
      /\ (Stage(q) \in {"newRefresh", "answer"} /\ req[q].op = "refresh" => req[q].session \in spent')
  BY <1>1, <1>2 DEF Stage, Grants!At
<1>8. RefreshInv'
  BY <1>1, <1>2, <1>3, <1>4, <1>7, RefreshStays
<1>. QED
  BY <1>3, <1>6, <1>8 DEF GrantInd, BaseInv

LEMMA StepAnswers == ASSUME GrantInd, NEW q \in GrantRequests, Grants!Answer(q) PROVE GrantInd'
<1>1. /\ Grants!At(q, "answer") /\ Grants!Ran(q) /\ has' = [has EXCEPT ![req[q].session] = q] /\ SameKv
      /\ UNCHANGED <<access, links, moved, raced>>
  BY DEF Grants!Answer, Grants!KeepKv, Grants!KeepRows, SameKv
<1>2. BaseInv /\ HoldInv /\ RefreshInv
  BY GrantParts
<1>3. BaseInv' /\ RefreshInv'
  BY <1>1, <1>2, RowBase, RefreshOnAnswer
<1>4. PICK g : Moves(q, g) /\ Stage(q) = "answer"
  BY <1>1, <1>2, RanBase
<1>5. Grantable' = Grantable /\ refreshes' = refreshes
  BY <1>1 DEF Grantable, SameKv
<1>6. HoldInv'
  BY <1>1, <1>2, <1>4, <1>5, HoldMoves
<1>. QED
  BY <1>3, <1>6 DEF GrantInd, BaseInv

LEMMA StepPuts ==
  ASSUME GrantInd, NEW q \in GrantRequests, Grants!PutAsk(q) \/ Grants!PutCode(q) \/ Grants!PutState(q)
  PROVE  GrantInd'
<1>1. BaseInv /\ HoldInv /\ RefreshInv /\ GrantTypes
  BY GrantParts DEF BaseInv
<1>2. BaseInv'
  BY <1>1, PutBase
<1>3. /\ Grants!Ran(q) /\ UNCHANGED <<refreshes, dropped, access, has, revoked, spent, raced>>
      /\ \E h \in {"putAsk", "putCode", "putState"} : Grants!At(q, h)
  BY DEF Grants!PutAsk, Grants!PutCode, Grants!PutState, Grants!KeepRows, Grants!KeepHistory
<1>4. PICK h \in {"putAsk", "putCode", "putState"} : Grants!At(q, h)
  BY <1>3
<1>5. PICK g : Moves(q, g) /\ Follows(req[q].op, h, g) /\ Stage(q) = h
  BY <1>1, <1>3, <1>4, RanBase
<1>6. g = "end" /\ req[q].op \in {"authorize", "login", "submit"}
  BY <1>5 DEF Follows
<1>7. PICK n : /\ n \in {Grants!Entry("ask", q, req[q]), Grants!Entry("code", q, req[q]),
                          Grants!Entry("state", q, req[q])}
               /\ Grantable' = Grantable \cup {n}
  <2>1. CASE Grants!PutAsk(q)
    BY <2>1 DEF Grants!PutAsk, Grantable
  <2>2. CASE Grants!PutCode(q)
    BY <2>2 DEF Grants!PutCode, Grantable
  <2>3. CASE Grants!PutState(q)
    BY <2>3 DEF Grants!PutState, Grantable
  <2>. QED
    BY <2>1, <2>2, <2>3
<1>8. n.root = req[q].root
  BY <1>7 DEF Grants!Entry
<1>9. HoldInv'
  BY <1>1, <1>3, <1>5, <1>6, <1>7, <1>8, HoldPut
<1>10. Refreshed' = Refreshed
  BY <1>3 DEF Refreshed
<1>11. RefreshInv'
  BY <1>1, <1>3, <1>5, <1>6, <1>10, RefreshStays
<1>. QED
  BY <1>2, <1>9, <1>11 DEF GrantInd, BaseInv

LEMMA StepDrops == ASSUME GrantInd, NEW q \in GrantRequests, Grants!DropItem(q) PROVE GrantInd'
<1>1. BaseInv' /\ HoldInv' /\ RefreshInv'
  BY GrantParts, DropBase, HoldDrop, RefreshOnDrop
<1>. QED
  BY <1>1 DEF GrantInd, BaseInv

LEMMA StepDevice == ASSUME GrantInd, NEW q \in GrantRequests, Grants!NewDevice(q) PROVE GrantInd'
<1>1. /\ Grants!At(q, "newDevice") /\ (Grants!Throws(q) \/ Grants!Ran(q)) /\ SameKv
      /\ UNCHANGED <<access, links, moved, has, revoked, spent, raced>>
  BY DEF Grants!NewDevice, Grants!KeepKv, Grants!KeepHistory, SameKv
<1>2. BaseInv /\ HoldInv /\ RefreshInv /\ Stage(q) = "newDevice" /\ Grants!IsOpen(q)
  BY <1>1, AtIs, GrantParts DEF BaseInv
<1>3. Grantable' = Grantable /\ Refreshed' = Refreshed /\ refreshes' = refreshes
  BY <1>1 DEF SameKv, Grantable, Refreshed
<1>4. BaseInv' /\ \E g : Moves(q, g) /\ g \in {"end", "newToken"}
  <2>1. CASE Grants!Throws(q)
    BY <1>1, <1>2, <2>1, StopBase DEF SameKv
  <2>2. CASE Grants!Ran(q)
    <3>1. BaseInv'
      BY <1>1, <1>2, <2>2, RowBase
    <3>2. PICK g : Moves(q, g) /\ Follows(req[q].op, "newDevice", g)
      BY <1>1, <1>2, <2>2, RanBase
    <3>3. g = "newToken"
      BY <3>2 DEF Follows
    <3>. QED
      BY <3>1, <3>2, <3>3
  <2>. QED
    BY <1>1, <2>1, <2>2
<1>5. PICK g : Moves(q, g) /\ g \in {"end", "newToken"}
  BY <1>4
<1>6. HoldInv'
  BY <1>1, <1>2, <1>3, <1>5, HoldMoves
<1>7. RefreshInv'
  BY <1>1, <1>2, <1>3, <1>5, RefreshStays
<1>. QED
  BY <1>4, <1>6, <1>7 DEF GrantInd, BaseInv

LEMMA StepToken == ASSUME GrantInd, NEW q \in GrantRequests, Grants!NewToken(q) PROVE GrantInd'
<1>1. /\ Grants!At(q, "newToken") /\ Grants!Ran(q) /\ SameKv /\ UNCHANGED <<links, moved, has, revoked, spent, raced>>
      /\ access' = access \cup {[id |-> q, session |-> req[q].session, root |-> req[q].root,
                                 subject |-> req[q].subject, name |-> req[q].name]}
  BY DEF Grants!NewToken, Grants!KeepKv, Grants!KeepHistory, SameKv
<1>2. BaseInv /\ HoldInv /\ RefreshInv /\ CallInv
  BY GrantParts DEF BaseInv
<1>3. BaseInv'
  BY <1>1, <1>2, RowBase
<1>4. PICK g : Moves(q, g) /\ Follows(req[q].op, "newToken", g) /\ Stage(q) = "newToken" /\ CallSound(q)
  BY <1>1, <1>2, RanBase
<1>5. req[q].op \in {"grant", "refresh", "callback"} /\ g \in {"newRefresh", "dropItem", "end"}
      /\ (g = "newRefresh" => req[q].op # "refresh")
  BY <1>4 DEF Follows
<1>6. Grantable' = Grantable /\ Refreshed' = Refreshed /\ refreshes' = refreshes
  BY <1>1 DEF SameKv, Grantable, Refreshed
<1>7. ASSUME NEW s \in Grants!Ids, NEW root \in Grants!Ids, OfSession(s, root)'
      PROVE  OfSession(s, root) \/ (s = req[q].session /\ root = req[q].root)
  <2>1. \A p \in GrantRequests : Renews(p, s)' => Renews(p, s) /\ req'[p].root = req[p].root
    BY <1>4, MovesHand
  <2>2. \A t \in access' : t \in access \/ (t.session = req[q].session /\ t.root = req[q].root)
    BY <1>1
  <2>. QED
    BY <1>6, <1>7, <2>1, <2>2 DEF OfSession
<1>8. HoldInv'
  BY <1>1, <1>2, <1>4, <1>5, <1>6, <1>7, HoldGrows
<1>9. RefreshInv'
  BY <1>1, <1>2, <1>4, <1>5, <1>6, RefreshStays
<1>. QED
  BY <1>3, <1>8, <1>9 DEF GrantInd, BaseInv

LEMMA StepRefreshes == ASSUME GrantInd, NEW q \in GrantRequests, Grants!NewRefresh(q) PROVE GrantInd'
<1>1. /\ Grants!At(q, "newRefresh") /\ Grants!Ran(q) /\ refreshes' = refreshes \cup {Grants!Entry("refresh", q, req[q])}
      /\ UNCHANGED <<asks, codes, states, access, raced>>
  BY DEF Grants!NewRefresh, Grants!KeepRows, Grants!KeepHistory
<1>2. BaseInv /\ HoldInv /\ RefreshInv /\ CallInv
  BY GrantParts DEF BaseInv
<1>3. BaseInv' /\ RefreshInv'
  BY <1>2, NewRefreshBase, RefreshOnNew
<1>4. PICK g : Moves(q, g) /\ Follows(req[q].op, "newRefresh", g) /\ Stage(q) = "newRefresh"
  BY <1>1, <1>2, RanBase
<1>5. req[q].op \in {"grant", "refresh"}
  BY <1>4 DEF Follows
<1>6. PICK n : n = Grants!Entry("refresh", q, req[q])
  OBVIOUS
<1>7. n.session = req[q].session /\ n.root = req[q].root /\ refreshes' = refreshes \cup {n} /\ Grantable' = Grantable
  BY <1>1, <1>6 DEF Grants!Entry, Grantable
<1>8. ASSUME NEW s \in Grants!Ids, NEW root \in Grants!Ids, OfSession(s, root)'
      PROVE  OfSession(s, root) \/ (s = req[q].session /\ root = req[q].root)
  <2>1. \A p \in GrantRequests : Renews(p, s)' => Renews(p, s) /\ req'[p].root = req[p].root
    BY <1>4, MovesHand
  <2>. QED
    BY <1>1, <1>7, <1>8, <2>1 DEF OfSession
<1>9. HoldInv'
  BY <1>1, <1>2, <1>4, <1>5, <1>7, <1>8, HoldGrows
<1>. QED
  BY <1>3, <1>9 DEF GrantInd, BaseInv

LEMMA StepRevokes ==
  ASSUME GrantInd, NEW q \in GrantRequests, Grants!RevokeRefresh(q) \/ Grants!RevokeAccess(q)
  PROVE  GrantInd'
<1>1. BaseInv /\ HoldInv /\ RefreshInv
  BY GrantParts
<1>2. CASE Grants!RevokeRefresh(q)
  <2>1. /\ Grants!At(q, "revokeRefresh") /\ Grants!Ran(q) /\ refreshes' \subseteq refreshes /\ raced \subseteq raced'
        /\ UNCHANGED <<asks, codes, states, access>>
    BY <1>2 DEF Grants!RevokeRefresh, Grants!KeepRows, Grants!Dropped
  <2>2. BaseInv' /\ RefreshInv'
    BY <1>1, <1>2, RevokeRefreshBase, RefreshOnRevoke
  <2>3. PICK g : Moves(q, g) /\ Stage(q) = "revokeRefresh"
    BY <1>1, <2>1, RanBase
  <2>4. Grantable' = Grantable
    BY <2>1 DEF Grantable
  <2>5. HoldInv'
    BY <1>1, <2>1, <2>3, <2>4, HoldMoves
  <2>. QED
    BY <2>2, <2>5 DEF GrantInd, BaseInv
<1>3. CASE Grants!RevokeAccess(q)
  <2>1. /\ Grants!At(q, "revokeAccess") /\ Grants!Ran(q) /\ access' \subseteq access /\ SameKv
        /\ UNCHANGED <<links, moved, has, revoked, spent, raced>>
    BY <1>3 DEF Grants!RevokeAccess, Grants!KeepKv, Grants!KeepHistory, SameKv
  <2>2. BaseInv'
    BY <1>1, <2>1, RowBase
  <2>3. PICK g : Moves(q, g) /\ Follows(req[q].op, "revokeAccess", g) /\ Stage(q) = "revokeAccess"
    BY <1>1, <2>1, RanBase
  <2>4. g = "end"
    BY <2>3 DEF Follows
  <2>5. Grantable' = Grantable /\ Refreshed' = Refreshed /\ refreshes' = refreshes
    BY <2>1 DEF SameKv, Grantable, Refreshed
  <2>6. HoldInv'
    BY <1>1, <2>1, <2>3, <2>5, HoldMoves
  <2>7. RefreshInv'
    BY <1>1, <2>1, <2>3, <2>4, <2>5, RefreshStays
  <2>. QED
    BY <2>2, <2>6, <2>7 DEF GrantInd, BaseInv
<1>. QED
  BY <1>2, <1>3

LEMMA StepFinds == ASSUME GrantInd, NEW q \in GrantRequests, Grants!FindLink(q) \/ Grants!FindUser(q) PROVE GrantInd'
<1>1. SameKv /\ UNCHANGED <<access, has, revoked, spent, raced>>
  BY DEF Grants!FindLink, Grants!FindUser, Grants!KeepKv, Grants!KeepRows, Grants!KeepHistory, SameKv
<1>2. BaseInv /\ HoldInv /\ RefreshInv
  BY GrantParts
<1>3. BaseInv' /\ \E g : /\ Moves(q, g) /\ req[q].op = "callback" /\ Stage(q) \in {"findLink", "findUser"}
                         /\ g # "dropItem"
  BY <1>2, FindBase
<1>4. GrantTypes'
  BY <1>3 DEF BaseInv
<1>5. HoldInv' /\ RefreshInv'
  BY <1>1, <1>2, <1>3, <1>4, LoginGoes
<1>. QED
  BY <1>3, <1>5 DEF GrantInd, BaseInv

LEMMA StepUser == ASSUME GrantInd, NEW q \in GrantRequests, Grants!CreateUser(q) PROVE GrantInd'
<1>1. /\ Grants!At(q, "createUser") /\ (Grants!Throws(q) \/ Grants!Ran(q)) /\ SameKv
      /\ UNCHANGED <<access, links, moved, has, revoked, spent, raced>>
  BY DEF Grants!CreateUser, Grants!KeepKv, Grants!KeepHistory, SameKv
<1>2. BaseInv /\ HoldInv /\ RefreshInv /\ Stage(q) = "createUser"
  BY <1>1, AtIs, GrantParts DEF BaseInv
<1>3. BaseInv' /\ \E g : Moves(q, g) /\ (g = "end" \/ req[q].op = "callback")
  <2>1. CASE Grants!Throws(q)
    BY <1>1, <1>2, <2>1, StopBase DEF SameKv
  <2>2. CASE Grants!Ran(q)
    <3>1. BaseInv'
      BY <1>1, <1>2, <2>2, RowBase
    <3>2. PICK g : Moves(q, g) /\ Follows(req[q].op, "createUser", g)
      BY <1>1, <1>2, <2>2, RanBase
    <3>. QED
      BY <3>1, <3>2 DEF Follows
  <2>. QED
    BY <1>1, <2>1, <2>2
<1>4. GrantTypes'
  BY <1>3 DEF BaseInv
<1>5. HoldInv' /\ RefreshInv'
  BY <1>1, <1>2, <1>3, <1>4, LoginGoes
<1>. QED
  BY <1>3, <1>5 DEF GrantInd, BaseInv

LEMMA StepLinks == ASSUME GrantInd, NEW q \in GrantRequests, Grants!InsertLink(q) PROVE GrantInd'
<1>1. /\ Grants!At(q, "insertLink") /\ SameKv /\ UNCHANGED <<access, has, revoked, spent, raced>>
  BY DEF Grants!InsertLink, Grants!KeepKv, Grants!KeepHistory, SameKv
<1>2. BaseInv /\ HoldInv /\ RefreshInv /\ Stage(q) = "insertLink" /\ Grants!IsOpen(q) /\ GrantTypes
  BY <1>1, AtIs, GrantParts DEF BaseInv
<1>3. ListSound(req[q].op, req[q].todo) /\ First(req[q].todo) = "insertLink"
  BY <1>2, StageIs
<1>4. req[q].op = "callback"
  BY <1>3 DEF ListSound, Follows
<1>5. BaseInv' /\ \E g : Moves(q, g) /\ g # "dropItem"
  BY <1>2, InsertLinkBase
<1>6. GrantTypes'
  BY <1>5 DEF BaseInv
<1>7. HoldInv' /\ RefreshInv'
  BY <1>1, <1>2, <1>4, <1>5, <1>6, LoginGoes
<1>. QED
  BY <1>5, <1>7 DEF GrantInd, BaseInv

LEMMA StepBeside ==
  ASSUME GrantInd,
         Grants!Lapse \/ (\E c : Grants!Register(c)) \/ (\E x \in Identities : Grants!Unlink(x))
           \/ UNCHANGED Grants!oauthVars
  PROVE  GrantInd'
<1>1. BaseInv /\ HoldInv /\ RefreshInv
  BY GrantParts
<1>2. CASE Grants!Lapse
  <2>1. /\ UNCHANGED <<req, dropped, has, revoked, raced>> /\ access' = access
        /\ asks' \subseteq asks /\ codes' \subseteq codes /\ states' \subseteq states /\ refreshes' \subseteq refreshes
    BY <1>2 DEF Grants!Lapse, Grants!KeepRows
  <2>2. BaseInv'
    BY <1>1, <1>2, LapseBase
  <2>3. Grantable' \subseteq Grantable
    BY <2>1 DEF Grantable
  <2>4. HoldInv'
    BY <1>1, <2>1, <2>3, HoldBeside
  <2>5. spent \subseteq spent' /\ \A e \in refreshes \ refreshes' : e.session \in spent'
    <3>1. PICK e \in asks \cup codes \cup states \cup refreshes :
            refreshes' = refreshes \ {e} /\ spent' = IF e.kind = "refresh" THEN spent \cup {e.session} ELSE spent
      BY <1>2 DEF Grants!Lapse
    <3>2. e \in refreshes => e.kind = "refresh"
      BY <1>1 DEF BaseInv, GrantTypes, EntryTypes
    <3>. QED
      BY <3>1, <3>2
  <2>6. RefreshInv'
    BY <1>1, <2>1, <2>5, RefreshBeside
  <2>. QED
    BY <2>2, <2>4, <2>6 DEF GrantInd, BaseInv
<1>3. CASE UNCHANGED <<req, asks, codes, states, refreshes, dropped, access, has, revoked, spent, raced>> /\ BaseInv'
  <2>1. Grantable' = Grantable
    BY <1>3 DEF Grantable
  <2>2. HoldInv'
    BY <1>1, <1>3, <2>1, HoldBeside
  <2>3. RefreshInv'
    BY <1>1, <1>3, RefreshBeside
  <2>. QED
    BY <1>3, <2>2, <2>3 DEF GrantInd, BaseInv
<1>4. ASSUME NEW c, Grants!Register(c) PROVE GrantInd'
  BY <1>1, <1>3, <1>4, RegisterBase DEF Grants!Register, Grants!Keeps
<1>5. ASSUME NEW x \in Identities, Grants!Unlink(x) PROVE GrantInd'
  BY <1>1, <1>3, <1>5, UnlinkBase DEF Grants!Unlink, Grants!KeepKv
<1>6. CASE UNCHANGED Grants!oauthVars
  <2>1. MapTypes' /\ LinksStay
    BY <1>1, <1>6 DEF Grants!oauthVars, BaseInv, GrantTypes, MapTypes, LinksStay
  <2>2. BaseInv'
    BY <1>1, <1>6, <2>1, BesideBase DEF Grants!oauthVars
  <2>. QED
    BY <1>3, <1>6, <2>2 DEF Grants!oauthVars
<1>. QED
  BY <1>2, <1>4, <1>5, <1>6

LEMMA GrantStep == ASSUME GrantInd, Grants!OAuthNext \/ UNCHANGED Grants!oauthVars PROVE GrantInd'
BY StepArrives, StepStops, StepAnswers, StepPuts, StepDrops, StepDevice, StepToken, StepRefreshes, StepRevokes,
   StepFinds, StepUser, StepLinks, StepBeside
DEF Grants!OAuthNext

(* In the beginning there is at most one thing, named 0. *)
LEMMA GrantBegins == ASSUME Grants!OAuthInit PROVE GrantInd
<1>1. PICK there \in {"nothing", "ask", "code", "session", "state"}, d \in {0, Grants!NoId} :
        LET first(kind) ==
              IF there # kind THEN {}
              ELSE {Grants!Entry(kind, 0, [Grants!Idle EXCEPT !.root = 0, !.session = 0, !.device = d,
                                                              !.client = CHOOSE c \in OAuthClients : TRUE])}
            session == there = "session"
        IN
        /\ there \in {"nothing", "state"} => d = Grants!NoId
        /\ asks = first("ask") /\ codes = first("code") /\ states = first("state")
        /\ refreshes = IF session THEN {[e EXCEPT !.kind = "refresh"] : e \in first("session")} ELSE {}
        /\ has = [s \in Grants!Ids |-> IF session /\ s = 0 THEN 0 ELSE Grants!NoId]
        /\ devices = IF session THEN {d} ELSE {}
        /\ access = IF session THEN {[id |-> 0, session |-> 0, root |-> 0, subject |-> "none", name |-> NoName]} ELSE {}
        /\ clients = IF there = "nothing" THEN {} ELSE OAuthClients
  BY DEF Grants!OAuthInit
<1>2. PICK c : c = CHOOSE k \in OAuthClients : TRUE
  OBVIOUS
<1>3. PICK r : r = [Grants!Idle EXCEPT !.root = 0, !.session = 0, !.device = d, !.client = c]
  OBVIOUS
<1>4. r.root = 0 /\ r.session = 0
  BY <1>3 DEF Grants!Idle
<1>5. /\ asks = (IF there # "ask" THEN {} ELSE {Grants!Entry("ask", 0, r)})
      /\ codes = (IF there # "code" THEN {} ELSE {Grants!Entry("code", 0, r)})
      /\ states = (IF there # "state" THEN {} ELSE {Grants!Entry("state", 0, r)})
  BY <1>1, <1>2, <1>3
<1>6. refreshes = IF there = "session" THEN {[Grants!Entry("session", 0, r) EXCEPT !.kind = "refresh"]} ELSE {}
  BY <1>1, <1>2, <1>3
<1>7. /\ has = [s \in Grants!Ids |-> IF there = "session" /\ s = 0 THEN 0 ELSE Grants!NoId]
      /\ access = IF there = "session"
                  THEN {[id |-> 0, session |-> 0, root |-> 0, subject |-> "none", name |-> NoName]} ELSE {}
  BY <1>1
<1>8. /\ links = [x \in Identities |-> NoName] /\ dropped = {} /\ req = [q \in GrantRequests |-> Grants!Idle]
      /\ revoked = {} /\ spent = {} /\ raced = {} /\ moved = {}
  BY DEF Grants!OAuthInit
<1>9. \A e \in asks \cup codes \cup states \cup refreshes : e.id = 0 /\ e.root = 0 /\ e.session = 0
  BY <1>4, <1>5, <1>6 DEF Grants!Entry
<1>10. EntryTypes
  BY <1>5, <1>6 DEF EntryTypes, Grants!Entry
<1>11. \A e, f \in Grantable \cup refreshes : e = f
  BY <1>5, <1>6 DEF Grantable
<1>12. \A q \in GrantRequests : Stage(q) = "end" /\ ~Grants!Begun(q)
  BY <1>8 DEF Stage, Grants!IsOpen, Grants!Begun, Grants!Idle
<1>13. Known = {0} /\ 0 \in Grants!Ids /\ 0 # Grants!NoId
  BY <1>12 DEF Known, Grants!Ids, Grants!NoId
<1>14. GrantTypes
  <2>1. PICK i : i = Grants!Idle
    OBVIOUS
  <2>2. GrantCall(i)
    BY <2>1 DEF Grants!Idle, GrantCall, GrantOps, GrantTodo
  <2>3. CallTypes
    BY <1>8, <2>1, <2>2 DEF CallTypes
  <2>4. MapTypes
    BY <1>7, <1>8 DEF MapTypes
  <2>. QED
    BY <1>10, <2>3, <2>4 DEF GrantTypes
<1>15. CallInv
  BY <1>12 DEF CallInv, CallSound
<1>16. KnownInv
  <2>1. \A e \in Grantable \cup refreshes \cup dropped : e.id = 0 /\ e.root = 0
    BY <1>8, <1>9 DEF Grantable
  <2>2. \A e \in Refreshed : e.session = 0
    BY <1>8, <1>9 DEF Refreshed
  <2>3. \A t \in access : t.root = 0 /\ t.session = 0
    BY <1>7
  <2>4. \A s \in Grants!Ids : has[s] # Grants!NoId => s = 0
    BY <1>7
  <2>. QED
    BY <1>13, <2>1, <2>2, <2>3, <2>4 DEF KnownInv
<1>17. LinkInv
  <2>1. \A q \in GrantRequests : EntersSound(q)
    BY <1>12 DEF EntersSound
  <2>2. \A t \in access : EnteredSound(t)
    BY <1>7 DEF EnteredSound
  <2>. QED
    BY <2>1, <2>2 DEF LinkInv
<1>18. HoldInv
  <2>1. SUFFICES ASSUME NEW root \in Grants!Ids PROVE HoldSound(root)
    BY DEF HoldInv
  <2>2. \A q \in GrantRequests : ~InHand(q, root)
    BY <1>12 DEF InHand
  <2>3. \A s \in Grants!Ids : OfSession(s, root) => s = 0 /\ there = "session"
    BY <1>6, <1>7, <1>9, <1>12 DEF OfSession, Renews
  <2>4. there = "session" => Grantable = {}
    BY <1>5 DEF Grantable
  <2>. QED
    BY <1>11, <2>2, <2>3, <2>4 DEF HoldSound
<1>19. RefreshInv
  <2>1. \A e \in Refreshed : e.id = 0 /\ e.session = 0 /\ e \in refreshes
    BY <1>8, <1>9 DEF Refreshed
  <2>2. \A s \in Grants!Ids : has[s] # Grants!NoId => s = 0 /\ has[s] = 0 /\ there = "session"
    BY <1>7
  <2>3. TokenInv
    BY <1>12, <1>13, <2>1, <2>2 DEF TokenInv
  <2>4. AnswerInv
    <3>1. Ended(0)
      BY <1>13, KnownIds DEF Ended
    <3>2. \A s \in Grants!Ids : HasEnded(s)
      BY <2>2, <3>1 DEF HasEnded
    <3>3. \A q \in GrantRequests : ItemEnded(q)
      BY <1>12 DEF ItemEnded
    <3>. QED
      BY <1>8, <1>12, <3>2, <3>3 DEF AnswerInv
  <2>5. GoInv
    <3>1. there = "session" => \E e \in refreshes : TRUE
      BY <1>6
    <3>2. \A s \in Grants!Ids : has[s] # Grants!NoId => \E e \in refreshes : e.session = s /\ e.id = has[s]
      BY <1>9, <2>2, <3>1
    <3>3. \A s \in Grants!Ids : GoSound(s)
      BY <1>12, <3>2 DEF GoSound
    <3>. QED
      BY <3>3 DEF GoInv
  <2>6. SessionInv
    <3>1. \A q \in GrantRequests : \A s : ~Renews(q, s) /\ ~Renewing(q, s)
      BY <1>12 DEF Renews, Renewing
    <3>2. \A s \in Grants!Ids : SessionSound(s)
      BY <1>8, <1>9, <2>2, <3>1 DEF SessionSound
    <3>. QED
      BY <3>2 DEF SessionInv
  <2>. QED
    BY <2>3, <2>4, <2>5, <2>6 DEF RefreshInv
<1>. QED
  BY <1>14, <1>15, <1>16, <1>17, <1>18, <1>19 DEF GrantInd

(* What the invariant says of the grants. *)
LEMMA GrantIndSound == GrantInd => Grants!GrantsSound
<1>1. SUFFICES ASSUME GrantInd PROVE Grants!GrantsSound
  OBVIOUS
<1>2. Grants!GrantsServeOnce
  <2>1. SUFFICES ASSUME NEW t \in access, NEW u \in access, t.session # u.session, t.root = u.root, t.root \notin raced
                 PROVE  FALSE
    BY DEF Grants!GrantsServeOnce
  <2>2. t.session \in Grants!Ids /\ u.session \in Grants!Ids /\ t.root \in Grants!Ids
    BY <1>1, KnownIds DEF GrantInd, KnownInv
  <2>3. HoldSound(t.root)
    BY <1>1, <2>1, <2>2 DEF GrantInd, HoldInv
  <2>4. OfSession(t.session, t.root) /\ OfSession(u.session, t.root)
    BY <2>1 DEF OfSession
  <2>. QED
    BY <2>1, <2>2, <2>3, <2>4 DEF HoldSound
<1>3. Grants!ClientsGoOn
  <2>1. SUFFICES ASSUME NEW s \in Grants!Ids \ (revoked \cup spent), has[s] # Grants!NoId,
                        \A q \in GrantRequests : req[q].session = s => ~Grants!IsOpen(q)
                 PROVE  \E e \in refreshes : e.session = s /\ e.id = has[s]
    BY DEF Grants!ClientsGoOn
  <2>2. GoSound(s)
    BY <1>1, <2>1 DEF GrantInd, RefreshInv, GoInv
  <2>3. \A q \in GrantRequests : ~Renewing(q, s)
    BY <2>1 DEF Renewing, Renews, Stage
  <2>. QED
    BY <2>1, <2>2, <2>3 DEF GoSound
<1>4. Grants!RevocationHolds
  <2>1. SUFFICES ASSUME NEW s \in revoked \ spent, Grants!RootsOf(s) \cap raced = {}
                 PROVE  {e \in refreshes : e.session = s} = {}
    BY DEF Grants!RevocationHolds
  <2>2. \A e \in Refreshed : e.session = s => e.root \notin raced
    BY <2>1 DEF Grants!RootsOf, Refreshed
  <2>3. Clear(s) /\ s \in Grants!Ids
    BY <1>1, <2>1, <2>2 DEF Clear, GrantInd, RefreshInv, AnswerInv
  <2>4. SessionSound(s)
    BY <1>1, <2>3 DEF GrantInd, RefreshInv, SessionInv
  <2>. QED
    BY <2>1, <2>4 DEF SessionSound
<1>5. Grants!SubjectsAreOneUser
  BY <1>1 DEF GrantInd, LinkInv, EnteredSound, Grants!SubjectsAreOneUser
<1>. QED
  BY <1>2, <1>3, <1>4, <1>5 DEF Grants!GrantsSound

-----------------------------------------------------------------------------
LEMMA GrantInvariance == Grants!OAuthSpec => []GrantInd
<1>1. GrantInd /\ [Grants!OAuthNext]_(Grants!oauthVars) => GrantInd'
  BY GrantStep
<1>. QED
  BY <1>1, GrantBegins, PTL DEF Grants!OAuthSpec

LEMMA GrantsRun == ServicesSpec => Grants!OAuthSpec
<1>1. ServicesInit => Grants!OAuthInit
  BY DEF ServicesInit
<1>2. [ServicesNext]_servicesVars => [Grants!OAuthNext]_(Grants!oauthVars)
  BY DEF ServicesNext, servicesVars, grantVars, Grants!oauthVars
<1>. QED
  BY <1>1, <1>2, PTL DEF ServicesSpec, Grants!OAuthSpec

(* One passage through the login page, or one trip to the identity provider, begins one session, unless an entry of
   KV was read twice; a client that did not give back its refresh token, and whose requests answered, has one that
   is there; a session whose token was given back has none, unless a refresh was under way; who enters as a subject
   of the provider is the user it is linked to (oauth.ts, oidc-auth.ts). *)
THEOREM GrantsAreSound == ServicesSpec => []GrantsSound
<1>1. Grants!GrantsSound => GrantsSound
  BY DEF GrantsSound
<1>. QED
  BY GrantsRun, GrantInvariance, GrantIndSound, <1>1, PTL
=============================================================================
