------------------------------ MODULE PushRules ------------------------------
(***************************************************************************)
(* The push rules of one user (api/push.ts): a row of push_rules adds a    *)
(* rule or overrides a default one, and the rules are evaluated in order.  *)
(* Every endpoint is one statement except PUT .../actions, which reads the *)
(* rule and then writes it.                                                *)
(*                                                                         *)
(* Two default rules, the master (override) and the one for messages       *)
(* (underride), and two rules of the user, an override and a content rule. *)
(* None of the user's has conditions; a rule notifies or does not.         *)
(***************************************************************************)
EXTENDS Naturals, FiniteSets, Sequences

CONSTANTS
  Writers,   \* requests that set actions
  MaxCalls   \* bound: calls

Master == "master"
Message == "message"
Defaults == {Master, Message}
Custom == {"mine", "word"}
RuleIds == Defaults \cup Custom

VARIABLES
  rows,     \* push_rules: enabled and notify (the actions), or absent
  pending,  \* PUT actions between its two statements
  calls,
  wish,     \* whether the user last asked for a rule to be enabled (history)
  revived   \* rules a late PUT actions gave a row of its own (history)

rulesVars == <<rows, pending, calls, wish, revived>>

Absent == [enabled |-> FALSE, notify |-> FALSE, there |-> FALSE]
NoCall == [rule |-> "none", notify |-> FALSE]

(* The rules without rows: the master rule is off and silences, the message rule is on and notifies. *)
DefaultRule(r) == [enabled |-> r = Message, notify |-> r = Message, there |-> TRUE]

(* getUserPushRules: a row replaces the default rule or is put in front of its kind, rows in the
   order of priority. *)
UserRule(r) == IF rows[r].there THEN rows[r] ELSE IF r \in Defaults THEN DefaultRule(r) ELSE Absent

(* Faulty variant: the rules of the user are evaluated after the default ones. *)
RuleOrderLate == <<Message, "word", Master, "mine">>

(* All rules in the order in which they are evaluated: each kind has the user's rules first. *)
RuleOrder == <<"mine", Master, "word", Message>>

(* matchesRule: the master rule and the user's have no conditions and match everything (the pattern of a content
   rule is not stored); the message rule tests the type, which a caller may not have given. *)
Matches(r, type) == UserRule(r).there /\ (r = Message => type = "m.room.message")

(* evaluatePushRules: the first enabled rule that matches decides. *)
Evaluate(type) ==
  LET hits == {i \in DOMAIN RuleOrder : UserRule(RuleOrder[i]).enabled /\ Matches(RuleOrder[i], type)} IN
  \E i \in hits : UserRule(RuleOrder[i]).notify /\ \A j \in hits : i <= j

(* countNotificationsWithRules: the SELECT names the column "type" and the call passes
   event_type, so that the rules are evaluated for an event without a type. *)
Counted == Evaluate("undefined")

(* The workflow's own evaluation reads the master rule only. *)
WorkflowNotifies(type) == ~(rows[Master].there /\ rows[Master].enabled) /\ type = "m.room.message"

-----------------------------------------------------------------------------
Call == calls < MaxCalls /\ calls' = calls + 1

(* PUT pushrules: a new rule is enabled, one that exists keeps whether it is.  Its priority places it
   among the user's rules of its kind, of which there is one here. *)
PutRule(r, notify) ==
  /\ Call /\ r \in Custom
  /\ rows' = [rows EXCEPT ![r] = [enabled |-> ~@.there \/ @.enabled, notify |-> notify, there |-> TRUE]]
  /\ wish' = IF rows[r].there THEN wish ELSE [wish EXCEPT ![r] = TRUE]
  /\ UNCHANGED <<pending, revived>>

DeleteRule(r) ==
  /\ Call /\ r \in Custom
  /\ rows' = [rows EXCEPT ![r] = Absent]
  /\ wish' = [wish EXCEPT ![r] = FALSE]
  /\ revived' = revived \ {r}
  /\ UNCHANGED pending

(* PUT enabled: a default rule gets a row, with its own actions; of the user's rules, one that exists. *)
SetEnabled(r, on) ==
  /\ Call
  /\ rows' = [rows EXCEPT ![r] =
                IF @.there THEN [@ EXCEPT !.enabled = on]
                ELSE IF r \in Defaults THEN [DefaultRule(r) EXCEPT !.enabled = on] ELSE @]
  /\ wish' = IF r \in Defaults \/ rows[r].there THEN [wish EXCEPT ![r] = on] ELSE wish
  /\ revived' = IF r \in Defaults THEN revived \ {r} ELSE revived
  /\ UNCHANGED pending

(* PUT actions reads the rule: 404 for a rule of the user that does not exist. *)
ReadRule(w, r, notify) ==
  /\ Call /\ pending[w] = NoCall
  /\ r \in Defaults \/ rows[r].there
  /\ pending' = [pending EXCEPT ![w] = [rule |-> r, notify |-> notify]]
  /\ UNCHANGED <<rows, wish, revived>>

(* Faulty variant: the conflict clause takes over the whole new row. *)
WriteActionsAll(w) ==
  LET r == pending[w].rule IN
  /\ pending[w] # NoCall
  /\ rows' = [rows EXCEPT ![r] = [enabled |-> TRUE, notify |-> pending[w].notify, there |-> TRUE]]
  /\ revived' = IF rows[r].there THEN revived ELSE revived \cup {r}
  /\ pending' = [pending EXCEPT ![w] = NoCall]
  /\ UNCHANGED <<calls, wish>>

(* ... and writes it: a rule that has no row (any more) gets one that is enabled. *)
WriteActions(w) ==
  LET r == pending[w].rule IN
  /\ pending[w] # NoCall
  /\ rows' = [rows EXCEPT ![r] = IF @.there THEN [@ EXCEPT !.notify = pending[w].notify]
                ELSE [enabled |-> TRUE, notify |-> pending[w].notify, there |-> TRUE]]
  /\ revived' = IF rows[r].there THEN revived ELSE revived \cup {r}
  /\ pending' = [pending EXCEPT ![w] = NoCall]
  /\ UNCHANGED <<calls, wish>>

RulesInit ==
  /\ rows = [r \in RuleIds |-> Absent]
  /\ pending = [w \in Writers |-> NoCall]
  /\ calls = 0
  /\ wish = [r \in RuleIds |-> r = Message]
  /\ revived = {}

RulesNext ==
  \/ \E r \in RuleIds, b \in BOOLEAN :
       \/ PutRule(r, b) \/ SetEnabled(r, b)
       \/ \E w \in Writers : ReadRule(w, r, b)
  \/ \E r \in RuleIds : DeleteRule(r)
  \/ \E w \in Writers : WriteActions(w)

RulesSpec == RulesInit /\ [][RulesNext]_rulesVars

-----------------------------------------------------------------------------
(* Properties *)

(* A rule is on when the user last asked for that (the default rules: or never asked for
   anything), and a deleted rule is gone, unless the actions of a rule without a row were set: that turns
   the rule on, also the master rule and a rule that was deleted meanwhile. *)
EnabledAsAsked ==
  \A r \in RuleIds \ revived : UserRule(r).there => UserRule(r).enabled = wish[r]

(* With the master rule on nothing notifies, neither the counts nor the workflow, unless the master rule
   itself or the user's override, which comes before it, says so. *)
MasterSilences ==
  UserRule(Master).enabled =>
    /\ ~WorkflowNotifies("m.room.message")
    /\ ~UserRule(Master).notify /\ ~(UserRule("mine").enabled /\ UserRule("mine").notify)
         => ~Evaluate("m.room.message") /\ ~Counted

(* The rules are on as they were asked to be, and the one for silence silences. *)
RulesAsAsked == EnabledAsAsked /\ MasterSilences
=============================================================================
