-------------------------- MODULE StateResolution --------------------------
(***************************************************************************)
(* resolveState (services/state-resolution.ts, state-resolution-v1.ts):    *)
(* one state of a room from several.  Events are known by number, numbers  *)
(* order like event ids, and a state maps every key to the number of its   *)
(* event, or to 0.  State of types that authorization does not look at,    *)
(* which v2 resolves after the others in the same way, is left out.        *)
(***************************************************************************)
EXTENDS EventAuth, FiniteSets, Sequences
LOCAL INSTANCE SequencesExt

CONSTANT Events  \* the events, by number: what EventAuth reads, and ts, depth, several

Ids == DOMAIN Events

StateKeys == ({"create", "power_levels", "join_rules"} \X {Nobody}) \cup ({"member"} \X Users)

States == [StateKeys -> Ids \cup {0}]

(* stateKey; of the types that are kept by key the target is Nobody. *)
KeyOf(e) == <<Events[e].type, Events[e].target>>
IsState(e) == KeyOf(e) \in StateKeys
PowerKey == <<"power_levels", Nobody>>

(* The state that holds one event only. *)
Only(e) == [k \in StateKeys |-> IF k = KeyOf(e) THEN e ELSE 0]

(* getPowerLevels without an event, and without an event and its defaults. *)
DefaultPower ==
  [users |-> [u \in Users |-> NoLevel], users_default |-> 0, events |-> NoLevel,
   state_default |-> 50, events_default |-> 0, ban |-> 50, kick |-> 50, invite |-> 0, redact |-> 50]

PowerContent(e) == IF e = 0 THEN DefaultPower ELSE Events[e].content

(* The state as checkEventAuth reads it; without join rules, "invite". *)
AuthState(s) ==
  [member |-> [u \in Users |-> IF s[<<"member", u>>] = 0 THEN "none"
                               ELSE Events[s[<<"member", u>>]].content],
   rule |-> IF s[<<"join_rules", Nobody>>] = 0 THEN "invite"
            ELSE Events[s[<<"join_rules", Nobody>>]].content,
   power |-> PowerContent(s[PowerKey])]

(* checkEventAuth: a create event needs no state, any other one a create event. *)
AllowedIn(e, s) ==
  \/ Events[e].type = "create"
  \/ s[<<"create", Nobody>>] # 0 /\ Allowed(Events[e], AuthState(s))

-----------------------------------------------------------------------------
Candidates(states, k) == {states[i][k] : i \in DOMAIN states} \ {0}

(* v1: the deepest event of every key, of these the one with the smallest id. *)
ResolveV1(states) ==
  [k \in StateKeys |->
     IF Candidates(states, k) = {} THEN 0
     ELSE CHOOSE e \in Candidates(states, k) : \A f \in Candidates(states, k) \ {e} :
            Events[e].depth > Events[f].depth \/ (Events[e].depth = Events[f].depth /\ e < f)]

(* separateState: a key all states have, with the same event. *)
Agreed(states, k) ==
  Cardinality(Candidates(states, k)) = 1 /\ \A i \in DOMAIN states : states[i][k] # 0

Conflicted(states) == UNION {Candidates(states, k) : k \in {l \in StateKeys : ~ Agreed(states, l)}}

(* The first conflicted m.room.power_levels event, with which senders are ranked. *)
RankingPower(states) ==
  LET with == {i \in DOMAIN states : states[i][PowerKey] # 0}
  IN  IF with = {} \/ Agreed(states, PowerKey) THEN DefaultPower
      ELSE PowerContent(states[CHOOSE i \in with : \A j \in with : i <= j][PowerKey])

(* reverseTopologicalPowerOrder *)
Precedes(power, e, f) ==
  LET pe == PowerOf(power, Events[e].sender)
      pf == PowerOf(power, Events[f].sender)
  IN  \/ pe > pf
      \/ pe = pf /\ Events[e].ts < Events[f].ts
      \/ pe = pf /\ Events[e].ts = Events[f].ts /\ e < f

(* v2: from the keys agreed on, the conflicted events are applied in that order
   where the state reached so far allows them. *)
ResolveV2(states) ==
  LET start == [k \in StateKeys |-> IF Agreed(states, k) THEN states[1][k] ELSE 0]
      power == RankingPower(states)
      order == SetToSortSeq(Conflicted(states), LAMBDA e, f : Precedes(power, e, f))
  IN  FoldLeft(LAMBDA s, e : IF AllowedIn(e, s) THEN [s EXCEPT ![KeyOf(e)] = e] ELSE s,
               start, order)

(* resolveState, by the algorithm of the room's version. *)
ResolveState(algorithm, states) ==
  IF algorithm = "v1" THEN ResolveV1(states) ELSE ResolveV2(states)
=============================================================================
