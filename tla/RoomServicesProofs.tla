------------------------- MODULE RoomServicesProofs -------------------------
(***************************************************************************)
(* What the run of RoomServices checks, for any users, rooms and requests: *)
(*   - in AuthRoom nobody gains more power than somebody had, listed users *)
(*     keep theirs, and bans end only by a moderator's unban or the banned *)
(*     user's own join;                                                    *)
(*   - in FederatedMembership the two tables agree, an invitation serves   *)
(*     once and a knock ends no ban (MemberInv);                           *)
(*   - in RoomUpgrade what was answered is done and an upgrade keeps the   *)
(*     members' levels (UpgradeInv);                                       *)
(*   - in RoomHistory who reads to the end has read everything             *)
(*     (HistoryInv), and in RoomDirectory the lists miss no room           *)
(*     (ListInv); their pages are cut out of a set that is sorted by rank. *)
(***************************************************************************)
EXTENDS RoomServices, FiniteSetTheorems, SequenceTheorems, TLAPS, Sequences

(* Effective power levels are integers. *)
LEMMA PowerType ==
  ASSUME AuthAssumption, NEW pl \in PowerLevels, NEW u \in Users
  PROVE  PowerOf(pl, u) \in Int
<1>1. \A l \in Level : l = NoLevel \/ (l # NoLevel /\ l \in Int)
  BY DEF AuthAssumption, Level
<1>2. pl.users[u] \in Level /\ pl.users_default \in Level
  BY DEF PowerLevels
<1>3. Or(pl.users_default, 0) \in Int
  BY <1>1, <1>2 DEF Or
<1>4. QED
  BY <1>1, <1>2, <1>3 DEF PowerOf, Or

(* An allowed change lists nobody above the sender, by entry or default, and changes nobody else
   unless the sender was above. *)
LEMMA ChangeBounds ==
  ASSUME AuthAssumption, st \in RoomStates, NEW ev \in PowerEvents, Apply(ev),
         PowerContents \subseteq PowerLevels, NEW u \in Users
  PROVE  /\ st'.power = ev.content
         /\ \/ PowerOf(ev.content, u) <= PowerOf(st.power, ev.sender)
            \/ /\ ev.content.users[u] = NoLevel /\ ev.content.users_default = NoLevel
               /\ PowerOf(ev.content, u) = 0
         /\ (ev.content.users[u] # NoLevel /\ PowerOf(ev.content, u) # PowerOf(st.power, u))
              => u = ev.sender \/ PowerOf(st.power, ev.sender) > PowerOf(st.power, u)
<1>1. ev.type = "power_levels" /\ ev.sender \in Users /\ ev.content \in PowerLevels
  BY DEF PowerEvents
<1>2. PowerLevelChangeAllowed(ev, st)
  BY <1>1 DEF Apply, Allowed
<1>3. st'.power = ev.content
  BY <1>1 DEF Apply, After, RoomStates
<1>4. PowerOf(st.power, ev.sender) \in Int
  BY <1>1, PowerType DEF RoomStates
<1>5. CASE ev.content.users[u] # NoLevel
  <2>1. PowerOf(ev.content, u) = ev.content.users[u]
    BY <1>5 DEF PowerOf, Or
  <2>2. QED
    BY <1>2, <1>3, <1>5, <2>1 DEF PowerLevelChangeAllowed, UserLevelsAllowed
<1>6. CASE ev.content.users[u] = NoLevel
  <2>1. PowerOf(ev.content, u) = Or(ev.content.users_default, 0)
    BY <1>6 DEF PowerOf, Or
  <2>2. CASE ev.content.users_default = NoLevel
    BY <1>3, <1>4, <1>6, <2>1, <2>2 DEF Or
  <2>3. CASE ev.content.users_default # NoLevel
    BY <1>2, <1>3, <1>6, <2>1, <2>3 DEF PowerLevelChangeAllowed, FieldLevelsAllowed, Or
  <2>4. QED
    BY <2>2, <2>3
<1>7. QED
  BY <1>5, <1>6

(* Events other than power_levels leave every power as it was. *)
LEMMA OthersKeepPower ==
  ASSUME st \in RoomStates, NEW ev \in MemberEvents \cup RuleEvents \cup Messages, Apply(ev)
  PROVE  st'.power = st.power
<1>1. ev.type # "power_levels"
  BY DEF MemberEvents, RuleEvents, Messages
<1>2. QED
  BY <1>1 DEF Apply, After, RoomStates

LEMMA InitTypeOK == AuthAssumption /\ RoomAssumption /\ Init => TypeOK
BY DEF AuthAssumption, RoomAssumption, Init, TypeOK, InitialState, InitialPower, RoomStates,
       PowerLevels, Level, Memberships, JoinRules

LEMMA NextTypeOK == RoomAssumption /\ TypeOK /\ [Next]_vars => TypeOK'
<1> SUFFICES ASSUME RoomAssumption, TypeOK, [Next]_vars PROVE TypeOK'
  OBVIOUS
<1> USE DEF TypeOK, Apply, After
<1>1. ASSUME NEW ev \in MemberEvents, Apply(ev) PROVE TypeOK'
  <2>1. ev.type = "member" /\ ev.sender \in Users /\ ev.target \in Users
    BY DEF MemberEvents
  <2>2. ev.content \in Memberships
    BY <1>1, <2>1 DEF Allowed, MemberAllowed, Memberships
  <2>3. QED
    BY <1>1, <2>1, <2>2 DEF RoomStates
<1>2. ASSUME NEW ev \in RuleEvents, Apply(ev) PROVE TypeOK'
  BY <1>2 DEF RuleEvents, RoomStates
<1>3. ASSUME NEW ev \in PowerEvents, Apply(ev) PROVE TypeOK'
  BY <1>3 DEF PowerEvents, RoomStates, RoomAssumption
<1>4. ASSUME NEW ev \in Messages, Apply(ev) PROVE TypeOK'
  BY <1>4 DEF Messages
<1>5. CASE UNCHANGED vars
  BY <1>5 DEF vars
<1>6. QED
  BY <1>1, <1>2, <1>3, <1>4, <1>5 DEF Next, SendMember, SendRule, SendPower, SendOther

-----------------------------------------------------------------------------
(* checkEventAuth keeps the room state well formed: memberships it does not
   know never enter it. *)
THEOREM TypeCorrect == Spec => []TypeOK
BY InitTypeOK, NextTypeOK, AuthAssumption, RoomAssumption, PTL DEF Spec

(* What one step does to every user's power. *)
LEMMA PowerStep ==
  ASSUME AuthAssumption, RoomAssumption, TypeOK, Next, NEW u \in Users
  PROVE  /\ \/ \E v \in Users : PowerOf(st'.power, u) <= PowerOf(st.power, v)
            \/ Defaulted(u)' /\ \A v \in Users : PowerOf(st.power, v) < 0
         /\ (st'.power.users[u] # NoLevel /\ PowerOf(st'.power, u) # PowerOf(st.power, u))
              => \/ u = last'.sender
                 \/ PowerOf(st.power, last'.sender) > PowerOf(st.power, u)
<1>1. CASE SendPower
  <2>1. PICK ev \in PowerEvents : Apply(ev)
    BY <1>1 DEF SendPower
  <2>2. ev.sender \in Users /\ last'.sender = ev.sender
    BY <2>1 DEF PowerEvents, Apply
  <2>3. \A v \in Users : PowerOf(st.power, v) \in Int
    BY PowerType DEF TypeOK, RoomStates
  <2>4. CASE PowerOf(ev.content, u) <= PowerOf(st.power, ev.sender)
    BY <2>1, <2>2, <2>4, ChangeBounds DEF TypeOK, RoomAssumption
  <2>5. CASE /\ ev.content.users[u] = NoLevel /\ ev.content.users_default = NoLevel
             /\ PowerOf(ev.content, u) = 0
    <3>1. st'.power = ev.content
      BY <2>1, ChangeBounds DEF TypeOK, RoomAssumption
    <3>2. Defaulted(u)'
      BY <2>5, <3>1 DEF Defaulted
    <3>3. (\E v \in Users : 0 <= PowerOf(st.power, v)) \/ (\A v \in Users : PowerOf(st.power, v) < 0)
      BY <2>3
    <3>4. QED
      BY <2>1, <2>2, <2>5, <3>1, <3>2, <3>3, ChangeBounds DEF TypeOK, RoomAssumption
  <2>6. QED
    BY <2>1, <2>2, <2>4, <2>5, ChangeBounds DEF TypeOK, RoomAssumption
<1>2. CASE SendMember \/ SendRule \/ SendOther
  <2>1. PICK ev \in MemberEvents \cup RuleEvents \cup Messages : Apply(ev)
    BY <1>2 DEF SendMember, SendRule, SendOther
  <2>2. st'.power = st.power
    BY <2>1, OthersKeepPower DEF TypeOK
  <2>3. PowerOf(st.power, u) \in Int
    BY PowerType DEF TypeOK, RoomStates
  <2>4. QED
    BY <2>2, <2>3
<1>3. QED
  BY <1>1, <1>2 DEF Next

(* Nobody's power rises above the highest power there was, but to the default where all were negative. *)
THEOREM NoEscalation == Spec => PowerNeverRises
<1>1. AuthAssumption /\ RoomAssumption /\ TypeOK /\ [Next]_vars
        => [\A u \in Users : \/ \E v \in Users : Power(u)' <= Power(v)
                             \/ Defaulted(u)' /\ \A v \in Users : Power(v) < 0]_vars
  BY PowerStep DEF Power
<1>2. QED
  BY <1>1, TypeCorrect, AuthAssumption, RoomAssumption, PTL DEF Spec, PowerNeverRises

(* A listed user's power is changed by itself or from strictly above. *)
THEOREM ListedAreProtected == Spec => ListedKeepPower
<1>1. AuthAssumption /\ RoomAssumption /\ TypeOK /\ [Next]_vars
        => [\A u \in Users :
              (st'.power.users[u] # NoLevel /\ Power(u)' # Power(u))
                => u = last'.sender \/ Power(last'.sender) > Power(u)]_vars
  BY PowerStep DEF Power
<1>2. QED
  BY <1>1, TypeCorrect, AuthAssumption, RoomAssumption, PTL DEF Spec, ListedKeepPower

(* A ban is lifted with the power to ban, or by the banned user's own join. *)
THEOREM BansHold == Spec => BansLiftedByModerators
<1>1. TypeOK /\ [Next]_vars
        => [\A u \in Users :
              (st.member[u] = "ban" /\ st'.member[u] # "ban")
                => \/ /\ Joined(st, last'.sender)
                      /\ Power(last'.sender) >= Or(st.power.ban, 50)
                   \/ u = last'.sender /\ st'.member[u] = "join"]_vars
  <2> SUFFICES ASSUME TypeOK, Next, NEW u \in Users,
                      st.member[u] = "ban", st'.member[u] # "ban"
               PROVE  \/ /\ Joined(st, last'.sender)
                         /\ Power(last'.sender) >= Or(st.power.ban, 50)
                      \/ u = last'.sender /\ st'.member[u] = "join"
    OBVIOUS
  <2>1. PICK ev \in MemberEvents \cup RuleEvents \cup PowerEvents \cup Messages : Apply(ev)
    BY DEF Next, SendMember, SendRule, SendPower, SendOther
  <2>2. ev.type = "member" /\ ev.target = u /\ st'.member[u] = ev.content
    BY <2>1 DEF Apply, After, TypeOK, RoomStates
  <2>3. MemberAllowed(ev, st) /\ last'.sender = ev.sender
    BY <2>1, <2>2 DEF Apply, Allowed
  <2>4. CASE ev.content = "join"
    BY <2>2, <2>3, <2>4 DEF MemberAllowed, JoinAllowed
  <2>5. CASE ev.content = "invite"
    BY <2>2, <2>3, <2>5 DEF MemberAllowed, InviteAllowed
  <2>6. CASE ev.content = "leave"
    BY <2>2, <2>3, <2>6
    DEF MemberAllowed, LeaveAllowed, OwnLeaveAllowed, KickAllowed, Power
  <2>7. CASE ev.content \in {"ban", "knock"}
    BY <2>2, <2>3, <2>7 DEF MemberAllowed, KnockAllowed
  <2>8. QED
    BY <2>2, <2>3, <2>4, <2>5, <2>6, <2>7 DEF MemberAllowed
<1>2. QED
  BY <1>1, TypeCorrect, PTL DEF Spec, BansLiftedByModerators

-----------------------------------------------------------------------------
(* FederatedMembership *)

(* The steps in which a request writes, and those an exchange passes once it has found the
   invitation. *)
WriteSteps == {"event", "state", "row"}
FoundSteps == WriteSteps \cup {"consume", "ok"}

CallSteps == {"new", "check", "member", "refused", "failed"} \cup FoundSteps
GuestEvents == [m : {"join", "invite", "leave", "ban", "knock"}, id : Nat \cup Calls]
CallRecords ==
  [op : Membership!Operations \cup {"none"}, who : Guests \cup {"none"}, step : CallSteps,
      saw : GuestEvents,
   beside : SUBSET Calls]
MemberTypes ==
  /\ call \in [Calls -> CallRecords]
  /\ row \in [Guests -> GuestEvents]
  /\ state \in [Guests -> GuestEvents]
  /\ members \in [Guests -> SUBSET GuestEvents]
  /\ local \in Nat /\ failures \in Nat
StepInv ==
  \A c \in Calls :
    /\ call[c].step # "new" => Membership!Who(c) \in Guests
    /\ call[c].step = "member" => call[c].op \in {"make_knock", "send_knock"}
    /\ call[c].step \in WriteSteps => call[c].op \in {"send_knock", "exchange"}
    /\ call[c].step = "consume" => call[c].op = "exchange"
TableInv ==
  \A g \in Guests \ torn :
    /\ state[g] \in members[g]
    /\ (\A c \in Calls : Membership!Who(c) = g => call[c].step # "row") => row[g] = state[g]
WriteInv ==
  \A c \in Calls :
    /\ call[c].step \in {"state", "row"} => Membership!EventOf(c) \in members[Membership!Who(c)]
    /\ call[c].step = "row" => Membership!Who(c) \in torn
        \/ state[Membership!Who(c)] = Membership!EventOf(c)
KnockInv ==
  \A c \in Calls :
    call[c].op = "send_knock" =>
      /\ call[c].step \in WriteSteps => call[c].saw.m # "ban"
      /\ call[c].step = "row" => Membership!Who(c) \in late \cup torn
          \/ row[Membership!Who(c)].m # "ban"
UsedInv ==
  \A c \in Calls : call[c].op = "exchange" /\ call[c].step = "ok" => Membership!Who(c) \notin token
FoundInv ==
  \A c, d \in Calls :
    /\ c # d /\ Membership!Who(c) = Membership!Who(d)
    /\ \A e \in {c, d} : call[e].op = "exchange" /\ call[e].step \in FoundSteps
    => failures > 0 \/ d \in call[c].beside \/ c \in call[d].beside
MemberInv == MemberTypes /\ StepInv /\ TableInv /\ WriteInv /\ KnockInv /\ UsedInv /\ FoundInv

LEMMA InitMemberInv == Membership!MemberInit => MemberInv
<1>. SUFFICES ASSUME Membership!MemberInit PROVE MemberInv
  OBVIOUS
<1>. USE DEF Membership!MemberInit, Membership!NewCall, Membership!NoEvent
<1>1. MemberTypes
  BY DEF MemberTypes, CallRecords, GuestEvents, CallSteps, FoundSteps, WriteSteps
<1>2. StepInv
  BY DEF StepInv, Membership!Who, WriteSteps
<1>3. TableInv
  BY DEF TableInv
<1>4. WriteInv /\ KnockInv /\ UsedInv /\ FoundInv
  BY DEF WriteInv, KnockInv, UsedInv, FoundInv, Membership!Who, WriteSteps
<1>. QED
  BY <1>1, <1>2, <1>3, <1>4 DEF MemberInv

LEMMA NextMemberTypes == MemberTypes /\ StepInv /\ [Membership!MemberNext]_(Membership!memberVars)
    => MemberTypes'
<1>. SUFFICES ASSUME MemberTypes, StepInv, [Membership!MemberNext]_(Membership!memberVars) PROVE MemberTypes'
  OBVIOUS
<1>. USE DEF MemberTypes, CallRecords, CallSteps, FoundSteps, WriteSteps, Membership!Goto
<1>1. ASSUME NEW c \in Calls, NEW op \in Membership!Operations, NEW g \in Guests,
             Membership!Receive(c, op, g)
      PROVE MemberTypes'
  BY <1>1 DEF Membership!Receive
<1>2. ASSUME NEW c \in Calls,
             Membership!MakeJoin(c) \/ Membership!SendJoin(c) \/ Membership!Leave(c)
                 \/ Membership!SignInvite(c) \/ Membership!CheckRule(c)
      PROVE MemberTypes'
  BY <1>2 DEF Membership!MakeJoin, Membership!SendJoin, Membership!Leave, Membership!SignInvite,
     Membership!CheckRule, Membership!Answer, Membership!Refuse
<1>3. ASSUME NEW c \in Calls, Membership!CheckMember(c) \/ Membership!FindToken(c)
      PROVE MemberTypes'
  <2>1. Membership!Who(c) \in Guests /\ Membership!Exchanging(c) \in SUBSET Calls
    BY <1>3 DEF StepInv, Membership!CheckMember, Membership!FindToken, Membership!Exchanging
  <2>. QED
    BY <1>3, <2>1 DEF Membership!CheckMember, Membership!FindToken, Membership!Answer,
       Membership!Refuse
<1>4. ASSUME NEW c \in Calls, Membership!InsertEvent(c) \/ Membership!SetState(c)
             \/ Membership!SetRow(c)
      PROVE MemberTypes'
  <2>1. Membership!Who(c) \in Guests
    BY <1>4 DEF StepInv, Membership!InsertEvent, Membership!SetState, Membership!SetRow
  <2>2. Membership!EventOf(c) \in GuestEvents
    BY DEF Membership!EventOf, Membership!Knock, Membership!Invite, GuestEvents
  <2>. QED
    BY <1>4, <2>1, <2>2 DEF Membership!InsertEvent, Membership!SetState, Membership!SetRow
<1>5. ASSUME NEW c \in Calls, Membership!ConsumeToken(c) \/ Membership!StatementFails(c)
      PROVE MemberTypes'
  BY <1>5 DEF Membership!ConsumeToken, Membership!StatementFails, Membership!Answer
<1>6. ASSUME NEW g \in Guests, NEW m \in {"join", "invite", "leave", "ban"},
             Membership!LocalChange(g, m)
      PROVE MemberTypes'
  <2>1. [m |-> m, id |-> 10 + local] \in GuestEvents
    BY DEF GuestEvents
  <2>. QED
    BY <1>6, <2>1 DEF Membership!LocalChange
<1>7. ASSUME NEW rule, Membership!ChangeRule(rule)
      PROVE MemberTypes'
  BY <1>7 DEF Membership!ChangeRule
<1>8. CASE UNCHANGED Membership!memberVars
  BY <1>8 DEF Membership!memberVars
<1>. QED
  BY <1>1, <1>2, <1>3, <1>4, <1>5, <1>6, <1>7, <1>8 DEF Membership!MemberNext, Membership!HandleCall

LEMMA NextStepInv == MemberTypes /\ StepInv /\ [Membership!MemberNext]_(Membership!memberVars) => StepInv'
<1>. SUFFICES ASSUME MemberTypes, StepInv, [Membership!MemberNext]_(Membership!memberVars) PROVE StepInv'
  OBVIOUS
<1>. USE DEF MemberTypes, CallRecords, Membership!Goto, Membership!Who, StepInv, WriteSteps
<1>1. ASSUME NEW c \in Calls, NEW op \in Membership!Operations, NEW g \in Guests,
             Membership!Receive(c, op, g)
      PROVE StepInv'
  BY <1>1 DEF Membership!Receive
<1>2. ASSUME NEW c \in Calls,
             Membership!MakeJoin(c) \/ Membership!SendJoin(c) \/ Membership!Leave(c)
                 \/ Membership!SignInvite(c) \/ Membership!CheckRule(c)
      PROVE StepInv'
  BY <1>2 DEF Membership!MakeJoin, Membership!SendJoin, Membership!Leave, Membership!SignInvite,
     Membership!CheckRule, Membership!Answer, Membership!Refuse
<1>3. ASSUME NEW c \in Calls, Membership!CheckMember(c) \/ Membership!FindToken(c)
      PROVE StepInv'
  BY <1>3 DEF Membership!CheckMember, Membership!FindToken, Membership!Answer, Membership!Refuse
<1>4. ASSUME NEW c \in Calls, Membership!InsertEvent(c) \/ Membership!SetState(c)
             \/ Membership!SetRow(c)
      PROVE StepInv'
  BY <1>4 DEF Membership!InsertEvent, Membership!SetState, Membership!SetRow
<1>5. ASSUME NEW c \in Calls, Membership!ConsumeToken(c) \/ Membership!StatementFails(c)
      PROVE StepInv'
  BY <1>5 DEF Membership!ConsumeToken, Membership!StatementFails, Membership!Answer
<1>6. CASE UNCHANGED call
  BY <1>6
<1>. QED
  BY <1>1, <1>2, <1>3, <1>4, <1>5, <1>6
  DEF Membership!MemberNext, Membership!HandleCall, Membership!LocalChange, Membership!ChangeRule,
      Membership!memberVars

LEMMA NextTableInv ==
  MemberTypes /\ StepInv /\ TableInv /\ WriteInv /\ [Membership!MemberNext]_(Membership!memberVars)
  => TableInv' /\ WriteInv'
<1>. SUFFICES ASSUME MemberTypes, StepInv, TableInv, WriteInv, [Membership!MemberNext]_(Membership!memberVars)
              PROVE TableInv' /\ WriteInv'
  OBVIOUS
<1>. USE DEF MemberTypes, CallRecords, Membership!Goto, Membership!Who, Membership!EventOf,
             TableInv, WriteInv
<1>1. ASSUME NEW c \in Calls, NEW op \in Membership!Operations, NEW g \in Guests,
             Membership!Receive(c, op, g)
      PROVE TableInv' /\ WriteInv'
  BY <1>1 DEF Membership!Receive
<1>2. ASSUME NEW c \in Calls,
             Membership!MakeJoin(c) \/ Membership!SendJoin(c) \/ Membership!Leave(c)
                 \/ Membership!SignInvite(c) \/ Membership!CheckRule(c)
      PROVE TableInv' /\ WriteInv'
  BY <1>2 DEF Membership!MakeJoin, Membership!SendJoin, Membership!Leave, Membership!SignInvite,
     Membership!CheckRule, Membership!Answer, Membership!Refuse
<1>3. ASSUME NEW c \in Calls, Membership!CheckMember(c) \/ Membership!FindToken(c)
      PROVE TableInv' /\ WriteInv'
  BY <1>3 DEF Membership!CheckMember, Membership!FindToken, Membership!Answer, Membership!Refuse
<1>4. ASSUME NEW c \in Calls, Membership!InsertEvent(c)
      PROVE TableInv' /\ WriteInv'
  BY <1>4 DEF Membership!InsertEvent, StepInv
<1>5. ASSUME NEW c \in Calls, Membership!SetState(c)
      PROVE TableInv' /\ WriteInv'
  BY <1>5 DEF Membership!SetState, StepInv, Membership!Writing
<1>6. ASSUME NEW c \in Calls, Membership!SetRow(c)
      PROVE TableInv' /\ WriteInv'
  BY <1>6 DEF Membership!SetRow, StepInv
<1>7. ASSUME NEW c \in Calls, Membership!ConsumeToken(c) \/ Membership!StatementFails(c)
      PROVE TableInv' /\ WriteInv'
  BY <1>7 DEF Membership!ConsumeToken, Membership!StatementFails, Membership!Answer
<1>8. ASSUME NEW g \in Guests, NEW m \in {"join", "invite", "leave", "ban"},
             Membership!LocalChange(g, m)
      PROVE TableInv' /\ WriteInv'
  BY <1>8 DEF Membership!LocalChange, Membership!Writing
<1>9. CASE UNCHANGED <<members, state, row, call, torn>>
  BY <1>9
<1>. QED
  BY <1>1, <1>2, <1>3, <1>4, <1>5, <1>6, <1>7, <1>8, <1>9
  DEF Membership!MemberNext, Membership!HandleCall, Membership!ChangeRule, Membership!memberVars

LEMMA NextKnockInv ==
  MemberTypes /\ StepInv /\ KnockInv /\ [Membership!MemberNext]_(Membership!memberVars) => KnockInv'
<1>. SUFFICES ASSUME MemberTypes, StepInv, KnockInv,
                     [Membership!MemberNext]_(Membership!memberVars) PROVE KnockInv'
  OBVIOUS
<1>. USE DEF MemberTypes, CallRecords, Membership!Goto, Membership!Who, Membership!EventOf,
             KnockInv, StepInv, WriteSteps
<1>1. ASSUME NEW c \in Calls, NEW op \in Membership!Operations, NEW g \in Guests,
             Membership!Receive(c, op, g)
      PROVE KnockInv'
  BY <1>1 DEF Membership!Receive
<1>2. ASSUME NEW c \in Calls,
             Membership!MakeJoin(c) \/ Membership!SendJoin(c) \/ Membership!Leave(c)
                 \/ Membership!SignInvite(c) \/ Membership!CheckRule(c)
      PROVE KnockInv'
  BY <1>2 DEF Membership!MakeJoin, Membership!SendJoin, Membership!Leave, Membership!SignInvite,
     Membership!CheckRule, Membership!Answer, Membership!Refuse
<1>3. ASSUME NEW c \in Calls, Membership!CheckMember(c) \/ Membership!FindToken(c)
      PROVE KnockInv'
  BY <1>3 DEF Membership!CheckMember, Membership!FindToken, Membership!Answer, Membership!Refuse
<1>4. ASSUME NEW c \in Calls, Membership!InsertEvent(c)
      PROVE KnockInv'
  BY <1>4 DEF Membership!InsertEvent
<1>5. ASSUME NEW c \in Calls, Membership!SetState(c)
      PROVE KnockInv'
  BY <1>5 DEF Membership!SetState
<1>6. ASSUME NEW c \in Calls, Membership!SetRow(c)
      PROVE KnockInv'
  BY <1>6 DEF Membership!SetRow, Membership!Knock, Membership!Invite
<1>7. ASSUME NEW c \in Calls, Membership!ConsumeToken(c) \/ Membership!StatementFails(c)
      PROVE KnockInv'
  BY <1>7 DEF Membership!ConsumeToken, Membership!StatementFails, Membership!Answer
<1>8. ASSUME NEW g \in Guests, NEW m \in {"join", "invite", "leave", "ban"},
             Membership!LocalChange(g, m)
      PROVE KnockInv'
  BY <1>8 DEF Membership!LocalChange, Membership!Writing
<1>9. CASE UNCHANGED <<row, call, torn, late>>
  BY <1>9
<1>. QED
  BY <1>1, <1>2, <1>3, <1>4, <1>5, <1>6, <1>7, <1>8, <1>9
  DEF Membership!MemberNext, Membership!HandleCall, Membership!ChangeRule, Membership!memberVars

LEMMA NextFoundInv ==
  MemberTypes /\ StepInv /\ UsedInv /\ FoundInv /\ [Membership!MemberNext]_(Membership!memberVars)
  => UsedInv' /\ FoundInv'
<1>. SUFFICES ASSUME MemberTypes, StepInv, UsedInv, FoundInv, [Membership!MemberNext]_(Membership!memberVars)
              PROVE UsedInv' /\ FoundInv'
  OBVIOUS
<1>. USE DEF MemberTypes, CallRecords, Membership!Goto, Membership!Who, UsedInv, FoundInv,
             StepInv, WriteSteps, FoundSteps
<1>1. ASSUME NEW c \in Calls, NEW op \in Membership!Operations, NEW g \in Guests,
             Membership!Receive(c, op, g)
      PROVE UsedInv' /\ FoundInv'
  BY <1>1 DEF Membership!Receive
<1>2. ASSUME NEW c \in Calls,
             Membership!MakeJoin(c) \/ Membership!SendJoin(c) \/ Membership!Leave(c)
                 \/ Membership!SignInvite(c) \/ Membership!CheckRule(c)
      PROVE UsedInv' /\ FoundInv'
  BY <1>2 DEF Membership!MakeJoin, Membership!SendJoin, Membership!Leave, Membership!SignInvite,
     Membership!CheckRule, Membership!Answer, Membership!Refuse
<1>3. ASSUME NEW c \in Calls, Membership!CheckMember(c)
      PROVE UsedInv' /\ FoundInv'
  BY <1>3 DEF Membership!CheckMember, Membership!Answer, Membership!Refuse
<1>4. ASSUME NEW c \in Calls, Membership!FindToken(c)
      PROVE UsedInv' /\ FoundInv'
  BY <1>4 DEF Membership!FindToken, Membership!Refuse, Membership!Exchanging
<1>5. ASSUME NEW c \in Calls, Membership!InsertEvent(c) \/ Membership!SetState(c)
             \/ Membership!SetRow(c)
      PROVE UsedInv' /\ FoundInv'
  BY <1>5 DEF Membership!InsertEvent, Membership!SetState, Membership!SetRow
<1>6. ASSUME NEW c \in Calls, Membership!ConsumeToken(c)
      PROVE UsedInv' /\ FoundInv'
  BY <1>6 DEF Membership!ConsumeToken, Membership!Answer
<1>7. ASSUME NEW c \in Calls, Membership!StatementFails(c)
      PROVE UsedInv' /\ FoundInv'
  BY <1>7 DEF Membership!StatementFails
<1>8. CASE UNCHANGED <<token, call, failures>>
  BY <1>8
<1>. QED
  BY <1>1, <1>2, <1>3, <1>4, <1>5, <1>6, <1>7, <1>8
  DEF Membership!MemberNext, Membership!HandleCall, Membership!LocalChange, Membership!ChangeRule,
      Membership!memberVars

LEMMA MemberInvariance == Membership!MemberSpec => []MemberInv
<1>1. MemberInv /\ [Membership!MemberNext]_(Membership!memberVars) => MemberInv'
  BY NextMemberTypes, NextStepInv, NextTableInv, NextKnockInv, NextFoundInv DEF MemberInv
<1>. QED
  BY InitMemberInv, <1>1, PTL DEF Membership!MemberSpec

LEMMA InvGuestsSound == MemberInv => Membership!GuestsSound
<1>. SUFFICES ASSUME MemberInv PROVE Membership!GuestsSound
  OBVIOUS
<1>1. Membership!TablesAgree
  BY DEF MemberInv, TableInv, Membership!TablesAgree, Membership!Writing, Membership!Who
<1>2. Membership!InvitesOnce
  BY DEF MemberInv, FoundInv, Membership!InvitesOnce, FoundSteps
<1>. QED
  BY <1>1, <1>2 DEF Membership!GuestsSound

(* Only the last statement of a knock writes a knock into a row. *)
LEMMA KnockSparesBan ==
  ASSUME MemberInv, [Membership!MemberNext]_(Membership!memberVars), NEW g \in Guests,
         row[g].m = "ban", row'[g].m = "knock"
  PROVE  g \in late \cup torn
<1>1. CASE \E c \in Calls : Membership!SetRow(c)
  <2>1. PICK c \in Calls : Membership!SetRow(c)
    BY <1>1
  <2>2. g = Membership!Who(c) /\ Membership!EventOf(c).m = "knock"
    BY <2>1 DEF Membership!SetRow, MemberInv, MemberTypes
  <2>3. call[c].op = "send_knock"
    BY <2>2 DEF Membership!EventOf, Membership!Invite
  <2>. QED
    BY <2>1, <2>2, <2>3 DEF Membership!SetRow, MemberInv, KnockInv
<1>2. CASE \E m \in {"join", "invite", "leave", "ban"}, u \in Guests : Membership!LocalChange(u, m)
  BY <1>2 DEF Membership!LocalChange, MemberInv, MemberTypes
<1>3. CASE row' = row
  BY <1>3
<1>. QED
  BY <1>1, <1>2, <1>3 DEF Membership!MemberNext, Membership!HandleCall, Membership!ChangeRule,
     Membership!memberVars, Membership!Receive, Membership!MakeJoin, Membership!SendJoin,
     Membership!Leave, Membership!SignInvite, Membership!CheckRule, Membership!CheckMember,
     Membership!FindToken, Membership!InsertEvent, Membership!SetState, Membership!ConsumeToken,
     Membership!StatementFails

-----------------------------------------------------------------------------
(* RoomUpgrade *)

PowerRecords == [level : [Members -> {0, 50, 100}], eventsDefault : {0, 100}, tombstone : {50, 100},
                 invite : {0, 50, 100}]
Rules == {None, "public", "invite"}
RoomRecords ==
  [exists : BOOLEAN, created : BOOLEAN, joined : SUBSET Members, rows : SUBSET Members,
   power : PowerRecords \cup {None}, rule : Rules, rest : BOOLEAN,
   tombstone : UpgradeRequests \cup {None}]
BuildSteps == {"row", "create", "join", "member", "power", "rules", "rest"}
CloseSteps == {"restrict", "select", "move"}
UpgradeSteps == {"state", "tombstone"} \cup BuildSteps \cup CloseSteps
RequestSteps == {None, "check", "alias", "authorize", "store", "mark", "txn"} \cup UpgradeSteps
RequestOps == {None, "create", "upgrade", "unalias", "send", "redact"}
Results == {None, "ok", "refused", "stopped", "failed"}
RequestRecords ==
  [op : RequestOps, user : Members \cup {None}, step : RequestSteps,
      levels : PowerRecords \cup {None},
   rule : Rules, alias : Aliases \cup {None}, todo : SUBSET Aliases, result : Results]

UpgradeTypes ==
  /\ rooms \in [Upgrade!RoomIds -> RoomRecords]
  /\ req \in [UpgradeRequests -> RequestRecords]
  /\ alias \in [Aliases -> Upgrade!RoomIds \cup {None}]
  /\ hidden \in [Upgrade!Messages -> UpgradeRequests \cup {None}]
  /\ txns \in [{TxnOf[q] : q \in UpgradeRequests} -> UpgradeRequests \cup {None}]
  /\ sent \subseteq UpgradeRequests
  /\ wished \in [Members -> {0, 50, 100}]

StepOps ==
  \A q \in UpgradeRequests :
    /\ req[q].op = None => req[q].step = None
    /\ req[q].result # None => req[q].step = None
    /\ req[q].step # None => req[q].user \in Members
    /\ req[q].step \in {"state", "tombstone"} \cup CloseSteps => req[q].op = "upgrade"
    /\ req[q].step \in BuildSteps => req[q].op \in {"create", "upgrade"}
    /\ req[q].step = "alias" => req[q].op = "create"
    /\ req[q].step \in {"authorize", "store", "txn"} => Upgrade!Sends(q)
    /\ req[q].step = "mark" => req[q].op = "redact"

(* An upgrade at one of these steps, or answered. *)
Past(q, steps) == req[q].op = "upgrade" /\ (req[q].step \in steps \/ req[q].result = "ok")

LevelInv ==
  /\ rooms[OldRoom].power \in PowerRecords /\ rooms[OldRoom].rule = "public"
  /\ rooms[OldRoom].power.eventsDefault = 0 => rooms[OldRoom].power.invite = 0
  /\ \A q \in UpgradeRequests :
       /\ req[q].step \in BuildSteps => req[q].levels \in PowerRecords
       /\ Past(q, UpgradeSteps) =>
            /\ req[q].levels \in PowerRecords
            /\ req[q].levels.level[req[q].user] >= req[q].levels.tombstone
            /\ q \in muted \/ (req[q].levels.eventsDefault = 0 /\ req[q].levels.invite = 0)
       /\ Past(q, UpgradeSteps \ {"state"}) => req[q].rule = "public"

(* A member whose change crossed no upgrade has the level it was given, in the room and in what
   the upgrades are going to write. *)
WishInv ==
  \A u \in Members \ raced :
    /\ rooms[OldRoom].power.level[u] = wished[u]
    /\ \A q \in Upgrade!Holding : req[q].levels.level[u] = wished[u]

NewRoomInv ==
  \A q \in UpgradeRequests :
    /\ Past(q, {"member", "power", "rules", "rest", "tombstone"} \cup CloseSteps)
         => req[q].user \in rooms[q].joined
    /\ Past(q, {"power", "rules", "rest", "tombstone"} \cup CloseSteps)
         => req[q].user \in rooms[q].rows
    /\ Past(q, {"rules", "rest", "tombstone"} \cup CloseSteps) => rooms[q].power = req[q].levels
    /\ Past(q, {"rest", "tombstone"} \cup CloseSteps) => rooms[q].rule = "public"
    /\ Past(q, {"tombstone"} \cup CloseSteps) => rooms[q].rest

TombstoneInv ==
  LET p == rooms[OldRoom].tombstone IN
  /\ p # None => p \in UpgradeRequests /\ req[p].op = "upgrade" /\ req[p].step \notin {"check", "authorize"}
  /\ \A q \in UpgradeRequests : Past(q, CloseSteps) => p # None

AliasInv ==
  \A q \in UpgradeRequests : req[q].op = "upgrade" =>
    /\ req[q].step = "move" => \A a \in Aliases : alias[a] = OldRoom => a \in req[q].todo
    /\ req[q].result = "ok" => \A a \in Aliases : alias[a] # OldRoom

(* A stored message or redaction. *)
Stored(p) == p \in sent /\ (req[p].op = "redact" => hidden[Upgrade!First] # None)

SentInv ==
  /\ \A p \in sent : Upgrade!Sends(p) /\ req[p].step \notin {"check", "authorize"}
  /\ \A q \in UpgradeRequests :
       /\ req[q].step = "mark" => q \in sent
       /\ req[q].step = "txn" => Stored(q)
       /\ txns[TxnOf[q]] # None => Stored(txns[TxnOf[q]]) /\ TxnOf[txns[TxnOf[q]]] = TxnOf[q]
       /\ Upgrade!Sends(q) /\ req[q].result = "ok" => \E p \in sent : TxnOf[p] = TxnOf[q]
           /\ Stored(p)

UpgradeInv ==
  /\ UpgradeTypes /\ StepOps /\ LevelInv /\ WishInv /\ NewRoomInv
  /\ TombstoneInv /\ AliasInv /\ SentInv

LEMMA CreationOrder ==
  ASSUME NEW q, req[q].op # "upgrade"
  PROVE  /\ Upgrade!After(q, "row") = "create" /\ Upgrade!After(q, "create") = "join"
         /\ Upgrade!After(q, "join") = "member" /\ Upgrade!After(q, "member") = "power"
         /\ Upgrade!After(q, "power") = "rules" /\ Upgrade!After(q, "rules") = "rest"
         /\ Upgrade!After(q, "rest") = "alias"
<1>1. Upgrade!Plan(q) = Upgrade!Creation
  BY DEF Upgrade!Plan
<1>2. Len(Upgrade!Creation) = 8 /\ DOMAIN Upgrade!Creation = 1..8
  BY DEF Upgrade!Creation
<1>3. \A s, i : s \in BuildSteps /\ i \in 1..7 /\ Upgrade!Creation[i] = s
      => Upgrade!After(q, s) = Upgrade!Creation[i + 1]
  <2>. SUFFICES ASSUME NEW s, NEW i \in 1..7, s \in BuildSteps, Upgrade!Creation[i] = s
                PROVE  Upgrade!After(q, s) = Upgrade!Creation[i + 1]
    OBVIOUS
  <2>1. \A n \in 1..8 : Upgrade!Creation[n] = s => n = i
    BY DEF Upgrade!Creation
  <2>2. i \in DOMAIN Upgrade!Plan(q) /\ \A n \in DOMAIN Upgrade!Plan(q) : Upgrade!Plan(q)[n] = s
        => n = i
    BY <1>1, <1>2, <2>1
  <2>3. Upgrade!Plan(q)[i] = s
    BY <1>1
  <2>. DEFINE k == CHOOSE n \in DOMAIN Upgrade!Plan(q) : Upgrade!Plan(q)[n] = s
  <2>4. k = i
    BY <2>2, <2>3
  <2>5. Upgrade!After(q, s) = IF k = Len(Upgrade!Plan(q)) THEN "answer" ELSE Upgrade!Plan(q)[k + 1]
    BY DEF Upgrade!After
  <2>. HIDE DEF k
  <2>. QED
    BY <1>1, <1>2, <2>4, <2>5
<1>. QED
  BY <1>3 DEF Upgrade!Creation, BuildSteps

LEMMA UpgradeOrder ==
  ASSUME NEW q, req[q].op = "upgrade"
  PROVE  /\ Upgrade!After(q, "row") = "create" /\ Upgrade!After(q, "create") = "join"
         /\ Upgrade!After(q, "join") = "member" /\ Upgrade!After(q, "member") = "power"
         /\ Upgrade!After(q, "power") = "rules" /\ Upgrade!After(q, "rules") = "rest"
         /\ Upgrade!After(q, "rest") = "tombstone"
<1>1. Upgrade!Plan(q) = Upgrade!Upgrade
  BY DEF Upgrade!Plan
<1>2. Len(Upgrade!Upgrade) = 11 /\ DOMAIN Upgrade!Upgrade = 1..11
  BY DEF Upgrade!Upgrade
<1>3. \A s, i : s \in BuildSteps /\ i \in 1..7 /\ Upgrade!Upgrade[i] = s
      => Upgrade!After(q, s) = Upgrade!Upgrade[i + 1]
  <2>. SUFFICES ASSUME NEW s, NEW i \in 1..7, s \in BuildSteps, Upgrade!Upgrade[i] = s
                PROVE  Upgrade!After(q, s) = Upgrade!Upgrade[i + 1]
    OBVIOUS
  <2>1. \A n \in 1..11 : Upgrade!Upgrade[n] = s => n = i
    BY DEF Upgrade!Upgrade
  <2>2. i \in DOMAIN Upgrade!Plan(q) /\ \A n \in DOMAIN Upgrade!Plan(q) : Upgrade!Plan(q)[n] = s
        => n = i
    BY <1>1, <1>2, <2>1
  <2>3. Upgrade!Plan(q)[i] = s
    BY <1>1
  <2>. DEFINE k == CHOOSE n \in DOMAIN Upgrade!Plan(q) : Upgrade!Plan(q)[n] = s
  <2>4. k = i
    BY <2>2, <2>3
  <2>5. Upgrade!After(q, s) = IF k = Len(Upgrade!Plan(q)) THEN "answer" ELSE Upgrade!Plan(q)[k + 1]
    BY DEF Upgrade!After
  <2>. HIDE DEF k
  <2>. QED
    BY <1>1, <1>2, <2>4, <2>5
<1>. QED
  BY <1>3 DEF Upgrade!Upgrade, BuildSteps

(* One statement of BuildRoom: the step it is for, the step after it, and the new room then. *)
BuildOne(q, step, next, room) ==
  /\ req[q].step = step
  /\ rooms' = [rooms EXCEPT ![q] = room]
  /\ req' = [req EXCEPT ![q].step = next]
  /\ UNCHANGED <<alias, sent, hidden, txns, powerChanges, stops, muted, wished, raced>>

BuildStep(q) ==
  \/ BuildOne(q, "row", "create", [rooms[q] EXCEPT !.exists = TRUE])
  \/ BuildOne(q, "create", "join", [rooms[q] EXCEPT !.created = TRUE])
  \/ BuildOne(q, "join", "member", [rooms[q] EXCEPT !.joined = {req[q].user}])
  \/ BuildOne(q, "member", "power", [rooms[q] EXCEPT !.rows = {req[q].user}])
  \/ BuildOne(q, "power", "rules", [rooms[q] EXCEPT !.power = req[q].levels])
  \/ BuildOne(q, "rules", "rest", [rooms[q] EXCEPT !.rule = req[q].rule])
  \/ BuildOne(q, "rest", IF req[q].op = "upgrade" THEN "tombstone" ELSE "alias",
       [rooms[q] EXCEPT !.rest = TRUE])

LEMMA BuildRoomSteps ==
  ASSUME NEW q, Upgrade!BuildRoom(q)
  PROVE  BuildStep(q)
<1>1. req[q].step \in {"row", "create", "join", "member", "power", "rules", "rest"}
  BY DEF Upgrade!BuildRoom
<1>2. /\ Upgrade!After(q, "row") = "create" /\ Upgrade!After(q, "create") = "join"
      /\ Upgrade!After(q, "join") = "member" /\ Upgrade!After(q, "member") = "power"
      /\ Upgrade!After(q, "power") = "rules" /\ Upgrade!After(q, "rules") = "rest"
      /\ Upgrade!After(q, "rest") = IF req[q].op = "upgrade" THEN "tombstone" ELSE "alias"
  BY CreationOrder, UpgradeOrder
<1>3. /\ Upgrade!Built(q, "row") = [rooms[q] EXCEPT !.exists = TRUE]
      /\ Upgrade!Built(q, "create") = [rooms[q] EXCEPT !.created = TRUE]
      /\ Upgrade!Built(q, "join") = [rooms[q] EXCEPT !.joined = {req[q].user}]
      /\ Upgrade!Built(q, "member") = [rooms[q] EXCEPT !.rows = {req[q].user}]
      /\ Upgrade!Built(q, "power") = [rooms[q] EXCEPT !.power = req[q].levels]
      /\ Upgrade!Built(q, "rules") = [rooms[q] EXCEPT !.rule = req[q].rule]
      /\ Upgrade!Built(q, "rest") = [rooms[q] EXCEPT !.rest = TRUE]
  BY DEF Upgrade!Built
<1>4. /\ rooms' = [rooms EXCEPT ![q] = Upgrade!Built(q, req[q].step)]
      /\ req' = [req EXCEPT ![q].step = Upgrade!After(q, req[q].step)]
      /\ UNCHANGED <<alias, sent, hidden, txns, powerChanges, stops, muted, wished, raced>>
  BY DEF Upgrade!BuildRoom, Upgrade!Goto
<1>5. \A step : req[q].step = step =>
        BuildOne(q, step, Upgrade!After(q, step), Upgrade!Built(q, step))
  BY <1>4, Zenon DEF BuildOne
<1>6. \A step, next, room :
        req[q].step = step /\ Upgrade!After(q, step) = next /\ Upgrade!Built(q, step) = room
          => BuildOne(q, step, next, room)
  BY <1>5, Zenon
<1>. HIDE DEF BuildOne
<1>7. req[q].step = "row" => BuildOne(q, "row", "create", [rooms[q] EXCEPT !.exists = TRUE])
  BY <1>2, <1>3, <1>6, Zenon
<1>8. req[q].step = "create" => BuildOne(q, "create", "join", [rooms[q] EXCEPT !.created = TRUE])
  BY <1>2, <1>3, <1>6, Zenon
<1>9. req[q].step = "join" => BuildOne(q, "join", "member", [rooms[q] EXCEPT !.joined = {req[q].user}])
  BY <1>2, <1>3, <1>6, Zenon
<1>10. req[q].step = "member" => BuildOne(q, "member", "power", [rooms[q] EXCEPT !.rows = {req[q].user}])
  BY <1>2, <1>3, <1>6, Zenon
<1>11. req[q].step = "power" => BuildOne(q, "power", "rules", [rooms[q] EXCEPT !.power = req[q].levels])
  BY <1>2, <1>3, <1>6, Zenon
<1>12. req[q].step = "rules" => BuildOne(q, "rules", "rest", [rooms[q] EXCEPT !.rule = req[q].rule])
  BY <1>2, <1>3, <1>6, Zenon
<1>13. req[q].step = "rest" => BuildOne(q, "rest", IF req[q].op = "upgrade" THEN "tombstone" ELSE "alias", [rooms[q] EXCEPT !.rest = TRUE])
  BY <1>2, <1>3, <1>6, Zenon
<1>. QED
  BY <1>1, <1>7, <1>8, <1>9, <1>10, <1>11, <1>12, <1>13 DEF BuildStep

LEMMA InitUpgradeInv == Upgrade!UpgradeInit => UpgradeInv
<1>. SUFFICES ASSUME Upgrade!UpgradeInit PROVE UpgradeInv
  OBVIOUS
<1>. USE UpgradeAssumption DEF Upgrade!UpgradeInit, Upgrade!Idle
<1>1. UpgradeTypes
  <2>1. \A t \in {50, 100} : Upgrade!PublicRoom(t).power \in PowerRecords
    BY DEF Upgrade!PublicRoom, Upgrade!NoRoom, Upgrade!NewLevels, PowerRecords
  <2>2. \A t \in {50, 100} : Upgrade!PublicRoom(t) \in RoomRecords
    BY <2>1 DEF RoomRecords, Upgrade!PublicRoom, Upgrade!NoRoom, Rules
  <2>4. rooms \in [Upgrade!RoomIds -> RoomRecords]
    BY <2>2 DEF Upgrade!RoomIds, RoomRecords, Upgrade!NoRoom, Rules
  <2>5. wished \in [Members -> {0, 50, 100}]
    BY <2>1 DEF Upgrade!RoomIds, PowerRecords
  <2>3. req \in [UpgradeRequests -> RequestRecords]
    BY DEF RequestRecords, RequestSteps, RequestOps, Rules, Results
  <2>. QED
    BY <2>3, <2>4, <2>5 DEF UpgradeTypes, Upgrade!RoomIds
<1>2. StepOps
  BY DEF StepOps, CloseSteps, BuildSteps
<1>3. LevelInv
  <2>1. \A t \in {50, 100} : /\ Upgrade!PublicRoom(t).power \in PowerRecords
                             /\ Upgrade!PublicRoom(t).rule = "public"
                             /\ Upgrade!PublicRoom(t).power.eventsDefault = 0
                             /\ Upgrade!PublicRoom(t).power.invite = 0
    BY DEF Upgrade!PublicRoom, Upgrade!NoRoom, Upgrade!NewLevels, PowerRecords
  <2>2. \E t \in {50, 100} : rooms[OldRoom] = Upgrade!PublicRoom(t)
    BY DEF Upgrade!RoomIds
  <2>3. \A q \in UpgradeRequests : req[q].step = None /\ req[q].op = None /\ req[q].result = None
    OBVIOUS
  <2>. QED
    BY <2>1, <2>2, <2>3 DEF LevelInv, Past, BuildSteps
<1>4. WishInv /\ NewRoomInv /\ AliasInv
  BY DEF WishInv, Upgrade!Holding, NewRoomInv, AliasInv, Past
<1>5. TombstoneInv
  <2>1. \A t \in {50, 100} : Upgrade!PublicRoom(t).tombstone = None
    BY DEF Upgrade!PublicRoom, Upgrade!NoRoom
  <2>. QED
    BY <2>1 DEF TombstoneInv, Past, Upgrade!RoomIds
<1>6. SentInv
  BY DEF SentInv, Upgrade!Sends
<1>. QED
  BY <1>1, <1>2, <1>3, <1>4, <1>5, <1>6 DEF UpgradeInv

(* What a step is: one of these, or it changes nothing. *)
UpgradeStep ==
  \/ \E q \in UpgradeRequests :
       \/ \E op \in {"create", "upgrade", "unalias", "send", "redact"},
           u \in Members : Upgrade!Begin(q, op, u)
       \/ Upgrade!Stop(q) \/ Upgrade!CreationFails(q) \/ Upgrade!CheckAlias(q)
       \/ Upgrade!CheckUpgrade(q) \/ Upgrade!ReadState(q)
       \/ BuildStep(q)
       \/ Upgrade!InsertAlias(q) \/ Upgrade!StoreTombstone(q) \/ Upgrade!Restrict(q)
       \/ Upgrade!SelectAliases(q) \/ Upgrade!MoveAlias(q)
       \/ Upgrade!DeleteAlias(q) \/ Upgrade!CheckTxn(q) \/ Upgrade!CheckSend(q) \/ Upgrade!StoreSent(q)
       \/ Upgrade!MarkRedacted(q) \/ Upgrade!StoreTxn(q)
  \/ \E u \in Members, level \in {0, 50} : Upgrade!ChangePower(u, level)
  \/ UNCHANGED Upgrade!upgradeVars

LEMMA NextIsUpgradeStep == [Upgrade!UpgradeNext]_(Upgrade!upgradeVars) => UpgradeStep
<1>. SUFFICES ASSUME [Upgrade!UpgradeNext]_(Upgrade!upgradeVars) PROVE UpgradeStep
  OBVIOUS
<1>1. CASE \E q \in UpgradeRequests : Upgrade!BuildRoom(q)
  BY <1>1, BuildRoomSteps DEF UpgradeStep
<1>2. CASE ~\E q \in UpgradeRequests : Upgrade!BuildRoom(q)
  BY <1>2 DEF Upgrade!UpgradeNext, UpgradeStep
<1>. QED
  BY <1>1, <1>2

LEMMA RequestSets ==
  /\ \A s \in {None, "check", "alias", "authorize", "store", "mark",
      "txn"} \cup UpgradeSteps : s \in RequestSteps
  /\ \A s \in {"create", "join", "member", "power", "rules", "rest", "row", "state", "tombstone",
               "restrict", "select", "move"} : s \in RequestSteps
  /\ {"create", "upgrade", "unalias", "send", "redact"} \subseteq RequestOps
  /\ Rules = {None, "public", "invite"}
  /\ Results = {None, "ok", "refused", "stopped", "failed"}
BY DEF RequestSteps, UpgradeSteps, BuildSteps, CloseSteps, RequestOps, Rules, Results

LEMMA RefusedRecord == [Upgrade!Idle EXCEPT !.result = "refused"] \in RequestRecords
BY DEF RequestRecords, Upgrade!Idle, RequestSteps, RequestOps, Rules, Results

(* What CheckAlias does to the request. *)
LEMMA AliasChecked ==
  ASSUME NEW q, Upgrade!CheckAlias(q)
  PROVE  /\ req[q].op = "create" /\ req[q].step = "check"
         /\ \/ Upgrade!Refuse(q)
            \/ \E a \in Aliases \cup {None}, preset \in {"public", "invite"}, l \in PowerRecords :
                 req' = [req EXCEPT ![q] = [@ EXCEPT !.step = "row", !.alias = a, !.rule = preset, !.levels = l]]
<1>. DEFINE levels(preset) == Upgrade!NewLevels(req[q].user, preset)
<1>1. \A preset \in {"public", "invite"} : levels(preset) \in PowerRecords
  BY DEF Upgrade!NewLevels, PowerRecords
<1>2. PICK a \in Aliases \cup {None}, preset \in {"public", "invite"} :
        IF a # None /\ alias[a] # None THEN Upgrade!Refuse(q)
        ELSE req' = [req EXCEPT ![q] = [@ EXCEPT !.step = "row", !.alias = a, !.rule = preset,
                                                 !.levels = levels(preset)]]
  BY Zenon DEF Upgrade!CheckAlias
<1>. HIDE DEF levels
<1>3. req[q].op = "create" /\ req[q].step = "check"
  BY DEF Upgrade!CheckAlias
<1>. QED
  BY <1>1, <1>2, <1>3

LEMMA CreationStarts ==
  ASSUME req \in [UpgradeRequests -> RequestRecords], NEW r \in UpgradeRequests,
         Upgrade!CheckAlias(r), ~Upgrade!Refuse(r)
  PROVE  /\ req[r].op = "create" /\ req[r].step = "check"
         /\ req'[r].op = "create" /\ req'[r].step = "row" /\ req'[r].result = req[r].result
         /\ \A q \in UpgradeRequests \ {r} : req'[q] = req[q]
<1>1. PICK a \in Aliases \cup {None}, preset \in {"public", "invite"}, l \in PowerRecords :
        req' = [req EXCEPT ![r] = [@ EXCEPT !.step = "row", !.alias = a, !.rule = preset, !.levels = l]]
  BY AliasChecked
<1>. DEFINE x == [req[r] EXCEPT !.step = "row", !.alias = a, !.rule = preset, !.levels = l]
<1>2. x.op = req[r].op /\ x.step = "row" /\ x.result = req[r].result
  BY DEF RequestRecords
<1>3. req' = [req EXCEPT ![r] = x]
  BY <1>1, Zenon
<1>4. req[r].op = "create" /\ req[r].step = "check"
  BY AliasChecked
<1>. HIDE DEF x
<1>. QED
  BY <1>2, <1>3, <1>4

LEMMA CreationRecord ==
  ASSUME NEW r \in RequestRecords, NEW a \in Aliases \cup {None}, NEW preset \in {"public", "invite"},
         NEW l \in PowerRecords
  PROVE  [r EXCEPT !.step = "row", !.alias = a, !.rule = preset, !.levels = l] \in RequestRecords
BY RequestSets DEF RequestRecords

LEMMA Refused ==
  ASSUME req \in [UpgradeRequests -> RequestRecords], NEW q \in UpgradeRequests, Upgrade!Refuse(q)
  PROVE  req' \in [UpgradeRequests -> RequestRecords]
BY RefusedRecord DEF Upgrade!Refuse

LEMMA Stepped ==
  ASSUME req \in [UpgradeRequests -> RequestRecords], NEW q \in UpgradeRequests,
         NEW s \in RequestSteps,
         req' = [req EXCEPT ![q].step = s]
  PROVE  req' \in [UpgradeRequests -> RequestRecords]
BY DEF RequestRecords

LEMMA Ended ==
  ASSUME req \in [UpgradeRequests -> RequestRecords], NEW q \in UpgradeRequests, NEW x \in Results,
         req' = [req EXCEPT ![q].step = None, ![q].result = x]
  PROVE  req' \in [UpgradeRequests -> RequestRecords]
<1>1. None \in RequestSteps
  BY DEF RequestSteps
<1>. QED
  BY <1>1 DEF RequestRecords

LEMMA Answered ==
  ASSUME req \in [UpgradeRequests -> RequestRecords], NEW q \in UpgradeRequests, Upgrade!Answer(q)
  PROVE  req' \in [UpgradeRequests -> RequestRecords]
<1>1. "ok" \in Results
  BY DEF Results
<1>. QED
  BY <1>1, Ended DEF Upgrade!Answer

LEMMA Begun ==
  ASSUME req \in [UpgradeRequests -> RequestRecords], NEW q \in UpgradeRequests,
         NEW op \in RequestOps, NEW u \in Members,
         NEW s \in RequestSteps,
         req' = [req EXCEPT ![q].op = op, ![q].user = u, ![q].step = s]
  PROVE  req' \in [UpgradeRequests -> RequestRecords]
<1>. DEFINE x == [req[q] EXCEPT !.op = op, !.user = u, !.step = s]
<1>1. x \in RequestRecords
  BY DEF RequestRecords
<1>2. req' = [req EXCEPT ![q] = x]
  BY Zenon
<1>. HIDE DEF x
<1>. QED
  BY <1>1, <1>2

LEMMA LevelsRead ==
  ASSUME req \in [UpgradeRequests -> RequestRecords], NEW q \in UpgradeRequests,
         NEW l \in PowerRecords,
         NEW s \in RequestSteps, req' = [req EXCEPT ![q].step = s, ![q].levels = l]
  PROVE  req' \in [UpgradeRequests -> RequestRecords]
BY DEF RequestRecords

LEMMA RuleRead ==
  ASSUME req \in [UpgradeRequests -> RequestRecords], NEW q \in UpgradeRequests, NEW t \in Rules,
         NEW s \in RequestSteps, req' = [req EXCEPT ![q].step = s, ![q].rule = t]
  PROVE  req' \in [UpgradeRequests -> RequestRecords]
BY DEF RequestRecords

LEMMA AliasesRead ==
  ASSUME req \in [UpgradeRequests -> RequestRecords], NEW q \in UpgradeRequests,
         NEW as \in SUBSET Aliases,
         NEW s \in RequestSteps, req' = [req EXCEPT ![q].step = s, ![q].todo = as]
  PROVE  req' \in [UpgradeRequests -> RequestRecords]
BY DEF RequestRecords

LEMMA RoomFields ==
  ASSUME NEW r \in RoomRecords
  PROVE  /\ \A b \in BOOLEAN : /\ [r EXCEPT !.exists = b] \in RoomRecords
                               /\ [r EXCEPT !.created = b] \in RoomRecords
                               /\ [r EXCEPT !.rest = b] \in RoomRecords
         /\ \A u \in Members : /\ [r EXCEPT !.joined = {u}] \in RoomRecords
                             /\ [r EXCEPT !.rows = {u}] \in RoomRecords
         /\ \A p \in PowerRecords \cup {None} : [r EXCEPT !.power = p] \in RoomRecords
         /\ \A l \in {None, "public", "invite"} : [r EXCEPT !.rule = l] \in RoomRecords
         /\ \A t \in UpgradeRequests : [r EXCEPT !.tombstone = t] \in RoomRecords
  BY DEF RoomRecords, Rules

LEMMA NextUpgradeTypes == UpgradeTypes /\ StepOps /\ LevelInv /\ [Upgrade!UpgradeNext]_(Upgrade!upgradeVars)
    => UpgradeTypes'
<1>. SUFFICES ASSUME UpgradeTypes, StepOps, LevelInv,
                     [Upgrade!UpgradeNext]_(Upgrade!upgradeVars) PROVE UpgradeTypes'
  OBVIOUS
<1>0. OldRoom \in Upgrade!RoomIds /\ UpgradeRequests \subseteq Upgrade!RoomIds
      /\ Upgrade!First \in Upgrade!Messages
  BY DEF Upgrade!RoomIds, Upgrade!Messages
<1>. USE DEF UpgradeTypes
<1>1. ASSUME NEW q \in UpgradeRequests,
             NEW op \in {"create", "upgrade", "unalias", "send", "redact"},
             NEW u \in Members, Upgrade!Begin(q, op, u)
      PROVE UpgradeTypes'
  <2>1. op \in RequestOps /\ "check" \in RequestSteps
    BY RequestSets
  <2>2. req' \in [UpgradeRequests -> RequestRecords]
    BY <1>1, <2>1, Begun DEF Upgrade!Begin
  <2>. QED
    BY <1>1, <2>2 DEF Upgrade!Begin
<1>2. ASSUME NEW q \in UpgradeRequests, Upgrade!Stop(q)
      PROVE UpgradeTypes'
  <2>1. "stopped" \in Results
    BY RequestSets
  <2>. QED
    BY <1>2, <2>1, Ended DEF Upgrade!Stop
<1>3. ASSUME NEW q \in UpgradeRequests, Upgrade!CreationFails(q)
      PROVE UpgradeTypes'
  <2>1. "alias" \in RequestSteps
    BY RequestSets
  <2>. QED
    BY <1>3, <2>1, Stepped DEF Upgrade!CreationFails, Upgrade!Goto
<1>4. ASSUME NEW q \in UpgradeRequests, Upgrade!CheckAlias(q)
      PROVE UpgradeTypes'
  <2>1. "row" \in RequestSteps /\ {"public", "invite"} \subseteq Rules
    BY RequestSets
  <2>2. req' \in [UpgradeRequests -> RequestRecords]
    <3>1. CASE Upgrade!Refuse(q)
      BY <3>1, Refused
    <3>2. CASE \E a \in Aliases \cup {None}, preset \in {"public", "invite"}, l \in PowerRecords :
            req' = [req EXCEPT ![q] = [@ EXCEPT !.step = "row", !.alias = a, !.rule = preset, !.levels = l]]
      <4>. PICK a \in Aliases \cup {None}, preset \in {"public", "invite"}, l \in PowerRecords :
             req' = [req EXCEPT ![q] = [@ EXCEPT !.step = "row", !.alias = a, !.rule = preset, !.levels = l]]
        BY <3>2
      <4>. DEFINE x == [req[q] EXCEPT !.step = "row", !.alias = a, !.rule = preset, !.levels = l]
      <4>1. req' = [req EXCEPT ![q] = x]
        BY Zenon
      <4>2. req[q] \in RequestRecords
        OBVIOUS
      <4>3. x \in RequestRecords
        BY <4>2, CreationRecord, Zenon
      <4>. HIDE DEF x
      <4>. QED
        BY <4>1, <4>3
    <3>. QED
      BY <1>4, <3>1, <3>2, AliasChecked
  <2>. QED
    BY <1>4, <2>2 DEF Upgrade!CheckAlias
<1>5. ASSUME NEW q \in UpgradeRequests, Upgrade!CheckUpgrade(q)
      PROVE UpgradeTypes'
  <2>1. "state" \in RequestSteps
    BY RequestSets
  <2>2. req' \in [UpgradeRequests -> RequestRecords]
    <3>1. CASE Upgrade!Refuse(q)
      BY <3>1, Refused
    <3>2. CASE req' = [req EXCEPT ![q].step = "state", ![q].levels = rooms[OldRoom].power]
      BY <3>2, <2>1, LevelsRead DEF LevelInv
    <3>. QED
      BY <1>5, <3>1, <3>2 DEF Upgrade!CheckUpgrade
  <2>. QED
    BY <1>5, <2>2 DEF Upgrade!CheckUpgrade
<1>6. ASSUME NEW q \in UpgradeRequests, Upgrade!ReadState(q)
      PROVE UpgradeTypes'
  <2>1. "row" \in RequestSteps /\ rooms[OldRoom].rule \in Rules
    BY RequestSets DEF LevelInv
  <2>2. req' \in [UpgradeRequests -> RequestRecords]
    BY <1>6, <2>1, RuleRead DEF Upgrade!ReadState
  <2>. QED
    BY <1>6, <2>2 DEF Upgrade!ReadState
<1>7. ASSUME NEW q \in UpgradeRequests, NEW step, NEW next \in RequestSteps,
             NEW room \in RoomRecords, BuildOne(q, step, next, room)
      PROVE UpgradeTypes'
  <2>1. req' \in [UpgradeRequests -> RequestRecords]
    BY <1>7, Stepped DEF BuildOne
  <2>2. rooms' \in [Upgrade!RoomIds -> RoomRecords]
    BY <1>7, <1>0 DEF BuildOne
  <2>. QED
    BY <1>7, <2>1, <2>2 DEF BuildOne
<1>8. ASSUME NEW q \in UpgradeRequests, Upgrade!InsertAlias(q)
      PROVE UpgradeTypes'
  <2>1. "failed" \in Results
    BY RequestSets
  <2>2. req' \in [UpgradeRequests -> RequestRecords]
    BY <1>8, <2>1, Answered, Ended DEF Upgrade!InsertAlias
  <2>3. alias' \in [Aliases -> Upgrade!RoomIds \cup {None}]
    BY <1>8, <1>0 DEF Upgrade!InsertAlias
  <2>. QED
    BY <1>8, <2>2, <2>3 DEF Upgrade!InsertAlias
<1>9. ASSUME NEW q \in UpgradeRequests, Upgrade!MoveAlias(q)
      PROVE UpgradeTypes'
  <2>1. req' \in [UpgradeRequests -> RequestRecords]
    <3>1. CASE Upgrade!Answer(q)
      BY <3>1, Answered
    <3>2. CASE \E a \in req[q].todo : req' = [req EXCEPT ![q].todo = @ \ {a}]
      BY <3>2 DEF RequestRecords
    <3>. QED
      BY <1>9, <3>1, <3>2 DEF Upgrade!MoveAlias
  <2>2. alias' \in [Aliases -> Upgrade!RoomIds \cup {None}]
    BY <1>9, <1>0 DEF Upgrade!MoveAlias
  <2>. QED
    BY <1>9, <2>1, <2>2 DEF Upgrade!MoveAlias
<1>10. ASSUME NEW q \in UpgradeRequests, Upgrade!DeleteAlias(q)
       PROVE UpgradeTypes'
  <2>1. req' \in [UpgradeRequests -> RequestRecords]
    BY <1>10, Answered, Refused DEF Upgrade!DeleteAlias
  <2>. QED
    BY <1>10, <2>1 DEF Upgrade!DeleteAlias
<1>11. ASSUME NEW q \in UpgradeRequests, Upgrade!StoreTombstone(q)
       PROVE UpgradeTypes'
  <2>1. "restrict" \in RequestSteps
    BY RequestSets
  <2>2. rooms' \in [Upgrade!RoomIds -> RoomRecords]
    <3>. DEFINE room == [rooms[OldRoom] EXCEPT !.tombstone = q]
    <3>1. room \in RoomRecords
      <4>1. rooms[OldRoom] \in RoomRecords
        BY <1>0
      <4>. HIDE DEF UpgradeTypes
      <4>. QED
        BY <4>1, RoomFields
    <3>2. rooms' = [rooms EXCEPT ![OldRoom] = room]
      BY <1>11, Zenon DEF Upgrade!StoreTombstone
    <3>. HIDE DEF room
    <3>. QED
      BY <1>0, <3>1, <3>2
  <2>. QED
    BY <1>11, <2>1, <2>2, Stepped DEF Upgrade!StoreTombstone, Upgrade!Goto
<1>12. ASSUME NEW q \in UpgradeRequests, Upgrade!SelectAliases(q)
       PROVE UpgradeTypes'
  <2>. DEFINE found == {a \in Aliases : alias[a] = OldRoom}
  <2>1. "move" \in RequestSteps /\ found \in SUBSET Aliases
    BY RequestSets
  <2>2. req' = [req EXCEPT ![q].step = "move", ![q].todo = found]
    BY <1>12 DEF Upgrade!SelectAliases
  <2>. HIDE DEF found
  <2>3. req' \in [UpgradeRequests -> RequestRecords]
    BY <2>1, <2>2, AliasesRead
  <2>. QED
    BY <1>12, <2>3 DEF Upgrade!SelectAliases
<1>13. ASSUME NEW q \in UpgradeRequests, Upgrade!Restrict(q)
       PROVE UpgradeTypes'
  <2>. DEFINE closed == [req[q].levels EXCEPT !.eventsDefault = 100, !.invite = 100]
  <2>1. req[q].levels \in PowerRecords
    BY <1>13 DEF Upgrade!Restrict, LevelInv, StepOps, Past, UpgradeSteps, CloseSteps
  <2>2. closed \in PowerRecords
    BY <2>1 DEF PowerRecords
  <2>3. rooms' = [rooms EXCEPT ![OldRoom].power = closed]
    BY <1>13 DEF Upgrade!Restrict
  <2>. HIDE DEF closed
  <2>4. rooms' \in [Upgrade!RoomIds -> RoomRecords]
    <3>1. rooms[OldRoom] \in RoomRecords
      BY <1>0
    <3>2. [rooms[OldRoom] EXCEPT !.power = closed] \in RoomRecords
      BY <2>2, <3>1, RoomFields
    <3>. QED
      BY <1>0, <2>3, <3>2
  <2>5. "select" \in RequestSteps
    BY RequestSets
  <2>. QED
    BY <1>13, <2>4, <2>5, Stepped DEF Upgrade!Restrict, Upgrade!Goto
<1>14. ASSUME NEW q \in UpgradeRequests, Upgrade!CheckTxn(q) \/ Upgrade!CheckSend(q) \/ Upgrade!StoreSent(q)
              \/ Upgrade!MarkRedacted(q) \/ Upgrade!StoreTxn(q)
       PROVE UpgradeTypes'
  <2>1. {"authorize", "store", "mark", "txn"} \subseteq RequestSteps
    BY RequestSets
  <2>2. req' \in [UpgradeRequests -> RequestRecords]
    BY <1>14, <2>1, Stepped, Answered, Refused DEF Upgrade!CheckTxn, Upgrade!CheckSend, Upgrade!StoreSent,
       Upgrade!MarkRedacted, Upgrade!StoreTxn, Upgrade!Goto
  <2>. QED
    BY <1>14, <1>0, <2>2 DEF Upgrade!CheckTxn, Upgrade!CheckSend, Upgrade!StoreSent, Upgrade!MarkRedacted,
       Upgrade!StoreTxn
<1>15. ASSUME NEW u \in Members, NEW level \in {0, 50}, Upgrade!ChangePower(u, level)
      PROVE UpgradeTypes'
  <2>. DEFINE power == [rooms[OldRoom].power EXCEPT !.level[u] = level]
  <2>1. power \in PowerRecords
    BY DEF LevelInv, PowerRecords
  <2>2. rooms' = [rooms EXCEPT ![OldRoom].power = power]
    BY <1>15 DEF Upgrade!ChangePower
  <2>. HIDE DEF power
  <2>3. rooms' \in [Upgrade!RoomIds -> RoomRecords]
    <3>1. rooms[OldRoom] \in RoomRecords
      BY <1>0
    <3>2. [rooms[OldRoom] EXCEPT !.power = power] \in RoomRecords
      BY <2>1, <3>1, RoomFields
    <3>. QED
      BY <1>0, <2>2, <3>2
  <2>4. wished' \in [Members -> {0, 50, 100}]
    BY <1>15 DEF Upgrade!ChangePower
  <2>. QED
    BY <1>15, <2>3, <2>4 DEF Upgrade!ChangePower
<1>16. CASE UNCHANGED Upgrade!upgradeVars
  BY <1>16 DEF Upgrade!upgradeVars
<1>17. ASSUME NEW q \in UpgradeRequests
       PROVE  /\ [rooms[q] EXCEPT !.exists = TRUE] \in RoomRecords
              /\ [rooms[q] EXCEPT !.created = TRUE] \in RoomRecords
              /\ req[q].step # None => [rooms[q] EXCEPT !.joined = {req[q].user}] \in RoomRecords
              /\ req[q].step # None => [rooms[q] EXCEPT !.rows = {req[q].user}] \in RoomRecords
              /\ [rooms[q] EXCEPT !.power = req[q].levels] \in RoomRecords
              /\ [rooms[q] EXCEPT !.rule = req[q].rule] \in RoomRecords
              /\ [rooms[q] EXCEPT !.rest = TRUE] \in RoomRecords
  <2>1. /\ req[q].levels \in PowerRecords \cup {None}
        /\ req[q].rule \in {None, "public", "invite"}
        /\ req[q].step # None => req[q].user \in Members
    BY RequestSets DEF RequestRecords, StepOps
  <2>2. rooms[q] \in RoomRecords
    BY <1>0
  <2>3. /\ [rooms[q] EXCEPT !.power = req[q].levels] \in RoomRecords
        /\ [rooms[q] EXCEPT !.rule = req[q].rule] \in RoomRecords
    BY <2>1, <2>2, RoomFields
  <2>4. req[q].step # None => /\ [rooms[q] EXCEPT !.joined = {req[q].user}] \in RoomRecords
                              /\ [rooms[q] EXCEPT !.rows = {req[q].user}] \in RoomRecords
    BY <2>1, <2>2, RoomFields
  <2>5. /\ [rooms[q] EXCEPT !.exists = TRUE] \in RoomRecords
        /\ [rooms[q] EXCEPT !.created = TRUE] \in RoomRecords
        /\ [rooms[q] EXCEPT !.rest = TRUE] \in RoomRecords
    BY <2>2, RoomFields
  <2>. QED
    BY <2>3, <2>4, <2>5
<1>. QED
  <2>1. CASE \E q \in UpgradeRequests : BuildStep(q)
    <3>1. {"create", "join", "member", "power", "rules", "rest", "tombstone",
          "alias"} \subseteq RequestSteps
      BY RequestSets
    <3>. PICK q \in UpgradeRequests : BuildStep(q)
      BY <2>1
    <3>2. req[q].step # None
      BY UpgradeAssumption DEF BuildStep, BuildOne
    <3>3. (IF req[q].op = "upgrade" THEN "tombstone" ELSE "alias") \in RequestSteps
      BY <3>1
    <3>4. \A step : \A next \in RequestSteps : \A room \in RoomRecords :
            BuildOne(q, step, next, room) => UpgradeTypes'
      BY <1>7
    <3>. HIDE DEF UpgradeTypes
    <3>5. \A step : \A next \in {"create", "join", "member", "power", "rules", "rest",
                                 IF req[q].op = "upgrade" THEN "tombstone" ELSE "alias"} :
            \A room \in RoomRecords : BuildOne(q, step, next, room) => UpgradeTypes'
      BY <3>1, <3>3, <3>4
    <3>6. BuildOne(q, "row", "create", [rooms[q] EXCEPT !.exists = TRUE]) => UpgradeTypes'
      BY <1>17, <3>2, <3>5
    <3>7. BuildOne(q, "create", "join", [rooms[q] EXCEPT !.created = TRUE]) => UpgradeTypes'
      BY <1>17, <3>2, <3>5
    <3>8. BuildOne(q, "join", "member", [rooms[q] EXCEPT !.joined = {req[q].user}]) => UpgradeTypes'
      BY <1>17, <3>2, <3>5
    <3>9. BuildOne(q, "member", "power", [rooms[q] EXCEPT !.rows = {req[q].user}]) => UpgradeTypes'
      BY <1>17, <3>2, <3>5
    <3>10. BuildOne(q, "power", "rules", [rooms[q] EXCEPT !.power = req[q].levels]) => UpgradeTypes'
      BY <1>17, <3>2, <3>5
    <3>11. BuildOne(q, "rules", "rest", [rooms[q] EXCEPT !.rule = req[q].rule]) => UpgradeTypes'
      BY <1>17, <3>2, <3>5
    <3>12. BuildOne(q, "rest", IF req[q].op = "upgrade" THEN "tombstone" ELSE "alias", [rooms[q] EXCEPT !.rest = TRUE]) => UpgradeTypes'
      BY <1>17, <3>2, <3>5
    <3>. QED
      BY <3>6, <3>7, <3>8, <3>9, <3>10, <3>11, <3>12 DEF BuildStep
  <2>. HIDE DEF UpgradeTypes
  <2>. QED
    BY <2>1, <1>1, <1>2, <1>3, <1>4, <1>5, <1>6, <1>8, <1>9, <1>10, <1>11, <1>12, <1>13, <1>14,
       <1>15, <1>16, NextIsUpgradeStep DEF UpgradeStep

LEMMA NextStepOps == UpgradeTypes /\ StepOps /\ [Upgrade!UpgradeNext]_(Upgrade!upgradeVars) => StepOps'
<1>. SUFFICES ASSUME UpgradeTypes, StepOps, [Upgrade!UpgradeNext]_(Upgrade!upgradeVars) PROVE StepOps'
  OBVIOUS
<1>0. req \in [UpgradeRequests -> RequestRecords]
  BY DEF UpgradeTypes
<1>. USE <1>0, UpgradeAssumption DEF StepOps, RequestRecords, BuildSteps, CloseSteps, Upgrade!Sends
<1>1. ASSUME NEW q \in UpgradeRequests,
             NEW op \in {"create", "upgrade", "unalias", "send", "redact"},
             NEW u \in Members, Upgrade!Begin(q, op, u)
      PROVE StepOps'
  BY <1>1 DEF Upgrade!Begin, Upgrade!Idle
<1>2. ASSUME NEW q \in UpgradeRequests, Upgrade!Stop(q) \/ Upgrade!CreationFails(q)
      PROVE StepOps'
  BY <1>2 DEF Upgrade!Stop, Upgrade!CreationFails, Upgrade!Goto
<1>3. ASSUME NEW q \in UpgradeRequests, Upgrade!CheckAlias(q) \/ Upgrade!CheckUpgrade(q)
             \/ Upgrade!ReadState(q)
      PROVE StepOps'
  <2>1. CASE Upgrade!Refuse(q)
    BY <2>1 DEF Upgrade!Refuse, Upgrade!Idle
  <2>2. CASE Upgrade!CheckAlias(q) /\ ~Upgrade!Refuse(q)
    <3>1. /\ req[q].op = "create" /\ req[q].step = "check"
          /\ \E a \in Aliases \cup {None}, preset \in {"public", "invite"}, l \in PowerRecords :
               req' = [req EXCEPT ![q] = [@ EXCEPT !.step = "row", !.alias = a, !.rule = preset, !.levels = l]]
      BY <2>2, AliasChecked DEF Upgrade!CheckAlias
    <3>. QED
      BY <3>1
  <2>3. CASE Upgrade!CheckUpgrade(q) /\ ~Upgrade!Refuse(q)
    BY <2>3 DEF Upgrade!CheckUpgrade
  <2>4. CASE Upgrade!ReadState(q)
    BY <2>4 DEF Upgrade!ReadState
  <2>. QED
    BY <1>3, <2>1, <2>2, <2>3, <2>4
<1>4. ASSUME NEW q \in UpgradeRequests, BuildStep(q)
      PROVE StepOps'
  <2>1. /\ \/ req' = [req EXCEPT ![q].step = "create"] \/ req' = [req EXCEPT ![q].step = "join"]
           \/ req' = [req EXCEPT ![q].step = "member"] \/ req' = [req EXCEPT ![q].step = "power"]
           \/ req' = [req EXCEPT ![q].step = "rules"] \/ req' = [req EXCEPT ![q].step = "rest"]
           \/ req[q].op = "upgrade" /\ req' = [req EXCEPT ![q].step = "tombstone"]
           \/ req[q].op # "upgrade" /\ req' = [req EXCEPT ![q].step = "alias"]
        /\ req[q].step \in BuildSteps
    BY <1>4 DEF BuildStep, BuildOne
  <2>. QED
    BY <2>1
<1>5. ASSUME NEW q \in UpgradeRequests,
             Upgrade!InsertAlias(q) \/ Upgrade!MoveAlias(q) \/ Upgrade!DeleteAlias(q)
                 \/ Upgrade!StoreTombstone(q) \/ Upgrade!SelectAliases(q) \/ Upgrade!Restrict(q)
      PROVE StepOps'
  BY <1>5 DEF Upgrade!InsertAlias, Upgrade!MoveAlias, Upgrade!DeleteAlias, Upgrade!StoreTombstone,
     Upgrade!SelectAliases, Upgrade!Restrict, Upgrade!Goto, Upgrade!Answer, Upgrade!Refuse,
     Upgrade!Idle
<1>6. ASSUME NEW q \in UpgradeRequests, Upgrade!CheckTxn(q) \/ Upgrade!CheckSend(q) \/ Upgrade!StoreSent(q)
             \/ Upgrade!MarkRedacted(q) \/ Upgrade!StoreTxn(q)
      PROVE StepOps'
  <2>1. CASE Upgrade!Refuse(q)
    BY <2>1 DEF Upgrade!Refuse, Upgrade!Idle
  <2>2. CASE (Upgrade!CheckTxn(q) \/ Upgrade!CheckSend(q)) /\ ~Upgrade!Refuse(q)
    BY <2>2 DEF Upgrade!CheckTxn, Upgrade!CheckSend, Upgrade!Goto, Upgrade!Answer
  <2>3. CASE Upgrade!StoreSent(q) \/ Upgrade!MarkRedacted(q) \/ Upgrade!StoreTxn(q)
    BY <2>3 DEF Upgrade!StoreSent, Upgrade!MarkRedacted, Upgrade!StoreTxn, Upgrade!Goto,
       Upgrade!Answer
  <2>. QED
    BY <1>6, <2>1, <2>2, <2>3
<1>7. CASE UNCHANGED req
  BY <1>7
<1>8. ASSUME ~UNCHANGED req
      PROVE \E q \in UpgradeRequests :
        \/ \E op \in {"create", "upgrade", "unalias", "send", "redact"},
            u \in Members : Upgrade!Begin(q, op, u)
        \/ Upgrade!Stop(q) \/ Upgrade!CreationFails(q) \/ Upgrade!CheckAlias(q)
        \/ Upgrade!CheckUpgrade(q) \/ Upgrade!ReadState(q) \/ BuildStep(q)
        \/ Upgrade!InsertAlias(q) \/ Upgrade!StoreTombstone(q) \/ Upgrade!Restrict(q)
        \/ Upgrade!SelectAliases(q) \/ Upgrade!MoveAlias(q)
        \/ Upgrade!DeleteAlias(q) \/ Upgrade!CheckTxn(q) \/ Upgrade!CheckSend(q) \/ Upgrade!StoreSent(q)
        \/ Upgrade!MarkRedacted(q) \/ Upgrade!StoreTxn(q)
  BY <1>8, NextIsUpgradeStep DEF UpgradeStep, Upgrade!ChangePower, Upgrade!upgradeVars
<1>. HIDE DEF StepOps
<1>. QED
  BY <1>1, <1>2, <1>3, <1>4, <1>5, <1>6, <1>7, <1>8

(* Steps that change a request. *)
LEMMA RequestStep ==
  ASSUME [Upgrade!UpgradeNext]_(Upgrade!upgradeVars)
  PROVE  \/ \E q \in UpgradeRequests :
              \/ \E op \in {"create", "upgrade", "unalias", "send", "redact"},
                  u \in Members : Upgrade!Begin(q, op, u)
              \/ Upgrade!Stop(q) \/ Upgrade!CreationFails(q) \/ Upgrade!CheckAlias(q)
              \/ Upgrade!CheckUpgrade(q) \/ Upgrade!ReadState(q) \/ BuildStep(q)
              \/ Upgrade!InsertAlias(q) \/ Upgrade!StoreTombstone(q) \/ Upgrade!Restrict(q)
              \/ Upgrade!SelectAliases(q) \/ Upgrade!MoveAlias(q)
              \/ Upgrade!DeleteAlias(q) \/ Upgrade!CheckTxn(q) \/ Upgrade!CheckSend(q) \/ Upgrade!StoreSent(q)
              \/ Upgrade!MarkRedacted(q) \/ Upgrade!StoreTxn(q)
         \/ (\E u \in Members, level \in {0, 50} : Upgrade!ChangePower(u, level)) /\ UNCHANGED req
         \/ UNCHANGED Upgrade!upgradeVars
BY NextIsUpgradeStep DEF UpgradeStep, Upgrade!ChangePower

(* Steps that change a room. *)
LEMMA RoomStep ==
  ASSUME [Upgrade!UpgradeNext]_(Upgrade!upgradeVars)
  PROVE  \/ \E q \in UpgradeRequests : BuildStep(q) \/ Upgrade!StoreTombstone(q)
                \/ Upgrade!Restrict(q)
         \/ \E u \in Members, level \in {0, 50} : Upgrade!ChangePower(u, level)
         \/ UNCHANGED rooms
BY NextIsUpgradeStep DEF UpgradeStep, Upgrade!Begin, Upgrade!Stop, Upgrade!CreationFails,
   Upgrade!CheckAlias, Upgrade!CheckUpgrade, Upgrade!ReadState, Upgrade!InsertAlias,
   Upgrade!SelectAliases, Upgrade!MoveAlias, Upgrade!DeleteAlias, Upgrade!CheckTxn, Upgrade!CheckSend,
   Upgrade!StoreSent, Upgrade!MarkRedacted, Upgrade!StoreTxn, Upgrade!upgradeVars

LEMMA NextLevelInv ==
  UpgradeTypes /\ StepOps /\ LevelInv /\ [Upgrade!UpgradeNext]_(Upgrade!upgradeVars) => LevelInv'
<1>. SUFFICES ASSUME UpgradeTypes, StepOps, LevelInv,
                     [Upgrade!UpgradeNext]_(Upgrade!upgradeVars) PROVE LevelInv'
  OBVIOUS
<1>0. /\ req \in [UpgradeRequests -> RequestRecords] /\ rooms \in [Upgrade!RoomIds -> RoomRecords]
      /\ OldRoom \in Upgrade!RoomIds /\ UpgradeRequests \subseteq Upgrade!RoomIds
  BY DEF UpgradeTypes, Upgrade!RoomIds
<1>. DEFINE OldInv == /\ rooms[OldRoom].power \in PowerRecords /\ rooms[OldRoom].rule = "public"
                      /\ rooms[OldRoom].power.eventsDefault = 0 => rooms[OldRoom].power.invite = 0
            ReqInv(q) ==
              /\ req[q].step \in BuildSteps => req[q].levels \in PowerRecords
              /\ Past(q, UpgradeSteps) =>
                   /\ req[q].levels \in PowerRecords
                   /\ req[q].levels.level[req[q].user] >= req[q].levels.tombstone
                   /\ q \in muted \/ (req[q].levels.eventsDefault = 0 /\ req[q].levels.invite = 0)
              /\ Past(q, UpgradeSteps \ {"state"}) => req[q].rule = "public"
<1>1. OldInv /\ \A q \in UpgradeRequests : ReqInv(q)
  BY DEF LevelInv
<1>2. OldInv'
  <2>1. ASSUME NEW q \in UpgradeRequests, BuildStep(q) \/ Upgrade!StoreTombstone(q)
        PROVE OldInv'
    <3>1. CASE BuildStep(q)
      <4>1. rooms'[OldRoom] = rooms[OldRoom]
        BY <3>1, <1>0, UpgradeAssumption DEF BuildStep, BuildOne
      <4>. QED
        BY <4>1, <1>1
    <3>2. CASE Upgrade!StoreTombstone(q)
      BY <3>2, <1>0, <1>1 DEF Upgrade!StoreTombstone, RoomRecords
    <3>. QED
      BY <2>1, <3>1, <3>2
  <2>2. ASSUME NEW q \in UpgradeRequests, Upgrade!Restrict(q)
        PROVE OldInv'
    <3>1. req[q].levels \in PowerRecords
      BY <2>2 DEF Upgrade!Restrict, LevelInv, StepOps, Past, UpgradeSteps, CloseSteps
    <3>. DEFINE closed == [req[q].levels EXCEPT !.eventsDefault = 100, !.invite = 100]
    <3>2. closed \in PowerRecords /\ closed.eventsDefault = 100
      BY <3>1 DEF PowerRecords
    <3>3. rooms' = [rooms EXCEPT ![OldRoom].power = closed]
      BY <2>2 DEF Upgrade!Restrict
    <3>. HIDE DEF closed
    <3>4. rooms'[OldRoom].power = closed /\ rooms'[OldRoom].rule = rooms[OldRoom].rule
      BY <3>3, <1>0 DEF RoomRecords
    <3>. QED
      BY <3>2, <3>4, <1>1
  <2>3. ASSUME NEW u \in Members, NEW level \in {0, 50}, Upgrade!ChangePower(u, level)
        PROVE OldInv'
    <3>. DEFINE power == [rooms[OldRoom].power EXCEPT !.level[u] = level]
    <3>1. /\ power \in PowerRecords
          /\ power.eventsDefault = rooms[OldRoom].power.eventsDefault
          /\ power.invite = rooms[OldRoom].power.invite
      BY <1>1 DEF PowerRecords
    <3>2. rooms' = [rooms EXCEPT ![OldRoom].power = power]
      BY <2>3 DEF Upgrade!ChangePower
    <3>. HIDE DEF power
    <3>3. rooms'[OldRoom].power = power /\ rooms'[OldRoom].rule = rooms[OldRoom].rule
      BY <3>2, <1>0 DEF RoomRecords
    <3>. QED
      BY <3>1, <3>3, <1>1
  <2>4. CASE UNCHANGED rooms
    BY <2>4, <1>1
  <2>. QED
    BY <2>1, <2>2, <2>3, <2>4, RoomStep
<1>3. ASSUME NEW p \in UpgradeRequests PROVE ReqInv(p)'
  <2>. USE <1>0, <1>1 DEF Past, UpgradeSteps, BuildSteps, CloseSteps, RequestRecords
  <2>1. ASSUME NEW q \in UpgradeRequests,
               NEW op \in {"create", "upgrade", "unalias", "send", "redact"},
               NEW u \in Members, Upgrade!Begin(q, op, u)
        PROVE ReqInv(p)'
    BY <2>1, UpgradeAssumption DEF Upgrade!Begin, Upgrade!Idle
  <2>2. ASSUME NEW q \in UpgradeRequests, Upgrade!Stop(q) \/ Upgrade!CreationFails(q)
        PROVE ReqInv(p)'
    BY <2>2, UpgradeAssumption DEF Upgrade!Stop, Upgrade!CreationFails, Upgrade!Goto
  <2>3. ASSUME NEW q \in UpgradeRequests, Upgrade!Refuse(q), UNCHANGED muted
        PROVE ReqInv(p)'
    BY <2>3, UpgradeAssumption DEF Upgrade!Refuse, Upgrade!Idle
  <2>4. ASSUME NEW q \in UpgradeRequests, Upgrade!CheckAlias(q), ~Upgrade!Refuse(q)
        PROVE ReqInv(p)'
    <3>1. /\ UNCHANGED muted
          /\ \E a \in Aliases \cup {None}, preset \in {"public", "invite"}, l \in PowerRecords :
               req' = [req EXCEPT ![q] = [@ EXCEPT !.step = "row", !.alias = a, !.rule = preset, !.levels = l]]
      BY <2>4, AliasChecked DEF Upgrade!CheckAlias
    <3>2. req[q].op = "create" /\ req[q].result = None
      BY <2>4, UpgradeAssumption DEF Upgrade!CheckAlias, StepOps
    <3>. QED
      BY <3>1, <3>2
  <2>5. ASSUME NEW q \in UpgradeRequests, Upgrade!CheckUpgrade(q), ~Upgrade!Refuse(q)
        PROVE ReqInv(p)'
    <3>1. req[q].user \in Members /\ ~(rooms[OldRoom].power.level[req[q].user] < rooms[OldRoom].power.tombstone)
      <4>1. rooms[OldRoom].rows \subseteq Members
        BY DEF RoomRecords
      <4>2. req[q].user \in rooms[OldRoom].rows
            /\ ~(rooms[OldRoom].power.level[req[q].user] < rooms[OldRoom].power.tombstone)
        BY <2>5 DEF Upgrade!CheckUpgrade
      <4>. QED
        BY <4>1, <4>2
    <3>2. rooms[OldRoom].power.level[req[q].user] >= rooms[OldRoom].power.tombstone
      <4>1. /\ rooms[OldRoom].power.level[req[q].user] \in {0, 50, 100}
            /\ rooms[OldRoom].power.tombstone \in {50, 100}
        BY <1>1, <3>1 DEF PowerRecords
      <4>. QED
        BY <3>1, <4>1
    <3>3. rooms[OldRoom].power.eventsDefault \in {0, 100}
      BY DEF PowerRecords
    <3>4. req[q].result = None
      BY <2>5, UpgradeAssumption DEF Upgrade!CheckUpgrade, StepOps
    <3>. QED
      BY <2>5, <3>2, <3>3, <3>4, UpgradeAssumption DEF Upgrade!CheckUpgrade
  <2>6. ASSUME NEW q \in UpgradeRequests, Upgrade!ReadState(q) \/ BuildStep(q)
        PROVE ReqInv(p)'
    BY <2>6 DEF Upgrade!ReadState, BuildStep, BuildOne, StepOps
  <2>7. ASSUME NEW q \in UpgradeRequests,
               Upgrade!InsertAlias(q) \/ Upgrade!StoreTombstone(q) \/ Upgrade!Restrict(q)
                   \/ Upgrade!SelectAliases(q)
        PROVE ReqInv(p)'
    BY <2>7, UpgradeAssumption DEF Upgrade!InsertAlias, Upgrade!StoreTombstone, Upgrade!Restrict,
       Upgrade!SelectAliases, Upgrade!Goto, Upgrade!Answer, StepOps
  <2>8. ASSUME NEW q \in UpgradeRequests, Upgrade!MoveAlias(q)
        PROVE ReqInv(p)'
    BY <2>8, UpgradeAssumption DEF Upgrade!MoveAlias, Upgrade!Answer, StepOps
  <2>9. ASSUME NEW q \in UpgradeRequests, Upgrade!DeleteAlias(q), ~Upgrade!Refuse(q)
        PROVE ReqInv(p)'
    BY <2>9, UpgradeAssumption DEF Upgrade!DeleteAlias, Upgrade!Answer
  <2>10. ASSUME NEW q \in UpgradeRequests, Upgrade!CheckTxn(q) \/ Upgrade!CheckSend(q), ~Upgrade!Refuse(q)
        PROVE ReqInv(p)'
    BY <2>10, UpgradeAssumption DEF Upgrade!CheckTxn, Upgrade!CheckSend, Upgrade!Answer, Upgrade!Goto, Upgrade!Sends
  <2>11. ASSUME NEW q \in UpgradeRequests, Upgrade!StoreSent(q) \/ Upgrade!MarkRedacted(q)
                \/ Upgrade!StoreTxn(q)
        PROVE ReqInv(p)'
    BY <2>11, UpgradeAssumption DEF Upgrade!StoreSent, Upgrade!MarkRedacted, Upgrade!StoreTxn,
       Upgrade!Answer, Upgrade!Goto, Upgrade!Sends, StepOps
  <2>12. CASE UNCHANGED <<req, muted>>
    BY <2>12
  <2>13. \A q \in UpgradeRequests : Upgrade!CheckAlias(q) \/ Upgrade!DeleteAlias(q)
         \/ Upgrade!CheckTxn(q) \/ Upgrade!CheckSend(q) => UNCHANGED muted
    BY DEF Upgrade!CheckAlias, Upgrade!DeleteAlias, Upgrade!CheckTxn, Upgrade!CheckSend
  <2>14. \A q \in UpgradeRequests : Upgrade!CheckUpgrade(q) /\ Upgrade!Refuse(q) => UNCHANGED muted
    BY UpgradeAssumption DEF Upgrade!CheckUpgrade, Upgrade!Refuse, Upgrade!Idle
  <2>. HIDE DEF ReqInv
  <2>. QED
    BY <2>1, <2>2, <2>3, <2>4, <2>5, <2>6, <2>7, <2>8, <2>9, <2>10, <2>11, <2>12, <2>13, <2>14,
       RequestStep DEF Upgrade!ChangePower, Upgrade!upgradeVars
<1>. QED
  BY <1>2, <1>3 DEF LevelInv

LEMMA NextWishInv ==
  UpgradeTypes /\ StepOps /\ LevelInv /\ WishInv /\ [Upgrade!UpgradeNext]_(Upgrade!upgradeVars) => WishInv'
<1>. SUFFICES ASSUME UpgradeTypes, StepOps, LevelInv, WishInv,
                     [Upgrade!UpgradeNext]_(Upgrade!upgradeVars) PROVE WishInv'
  OBVIOUS
<1>0. /\ req \in [UpgradeRequests -> RequestRecords] /\ rooms \in [Upgrade!RoomIds -> RoomRecords]
      /\ OldRoom \in Upgrade!RoomIds /\ UpgradeRequests \subseteq Upgrade!RoomIds
      /\ wished \in [Members -> {0, 50, 100}] /\ rooms[OldRoom].power \in PowerRecords
  BY DEF UpgradeTypes, Upgrade!RoomIds, LevelInv
<1>. DEFINE level(u) == rooms[OldRoom].power.level[u]
(* Nobody's level and wish change, and whoever holds levels then held them before or reads them now. *)
<1>1. ASSUME UNCHANGED <<wished, raced>>, \A u \in Members : level(u)' = level(u),
             \A q \in UpgradeRequests : q \in Upgrade!Holding' =>
               \/ q \in Upgrade!Holding /\ req'[q].levels = req[q].levels
               \/ req'[q].levels = rooms[OldRoom].power
      PROVE  WishInv'
  BY <1>1 DEF WishInv, Upgrade!Holding
<1>. HIDE DEF level
<1>. DEFINE Kept(q) == \/ q \in Upgrade!Holding' => q \in Upgrade!Holding /\ req'[q].levels = req[q].levels
                       \/ req'[q].levels = rooms[OldRoom].power
<1>2. ASSUME NEW p \in UpgradeRequests PROVE Kept(p)
  <2>. USE <1>0, UpgradeAssumption DEF RequestRecords, Upgrade!Holding
  <2>1. ASSUME NEW q \in UpgradeRequests,
               \E op \in {"create", "upgrade", "unalias", "send", "redact"}, u \in Members :
                 Upgrade!Begin(q, op, u)
        PROVE Kept(p)
    BY <2>1 DEF Upgrade!Begin, Upgrade!Idle
  <2>2. ASSUME NEW q \in UpgradeRequests, Upgrade!Refuse(q)
        PROVE Kept(p)
    BY <2>2 DEF Upgrade!Refuse, Upgrade!Idle
  <2>3. ASSUME NEW q \in UpgradeRequests, Upgrade!CheckAlias(q) \/ Upgrade!CheckUpgrade(q), ~Upgrade!Refuse(q)
        PROVE Kept(p)
    <3>1. CASE Upgrade!CheckAlias(q)
      <4>1. req[q].op = "create"
            /\ \E a \in Aliases \cup {None}, preset \in {"public", "invite"}, l \in PowerRecords :
                 req' = [req EXCEPT ![q] = [@ EXCEPT !.step = "row", !.alias = a, !.rule = preset, !.levels = l]]
        BY <2>3, <3>1, AliasChecked DEF Upgrade!CheckAlias
      <4>. QED
        BY <4>1
    <3>2. CASE Upgrade!CheckUpgrade(q)
      BY <2>3, <3>2 DEF Upgrade!CheckUpgrade
    <3>. QED
      BY <2>3, <3>1, <3>2
  <2>4. ASSUME NEW q \in UpgradeRequests,
               \/ Upgrade!DeleteAlias(q) \/ Upgrade!CheckTxn(q) \/ Upgrade!CheckSend(q), ~Upgrade!Refuse(q)
        PROVE Kept(p)
    BY <2>4 DEF Upgrade!DeleteAlias, Upgrade!CheckTxn, Upgrade!CheckSend, Upgrade!Sends,
       Upgrade!Answer, Upgrade!Goto
  <2>5. ASSUME NEW q \in UpgradeRequests,
               Upgrade!Stop(q) \/ Upgrade!CreationFails(q) \/ Upgrade!ReadState(q)
        PROVE Kept(p)
    BY <2>5 DEF Upgrade!Stop, Upgrade!CreationFails, Upgrade!ReadState, Upgrade!Goto
  <2>6. ASSUME NEW q \in UpgradeRequests, BuildStep(q)
        PROVE Kept(p)
    BY <2>6 DEF BuildStep, BuildOne
  <2>7. ASSUME NEW q \in UpgradeRequests,
               Upgrade!InsertAlias(q) \/ Upgrade!StoreTombstone(q) \/ Upgrade!Restrict(q)
        PROVE Kept(p)
    BY <2>7 DEF Upgrade!InsertAlias, Upgrade!StoreTombstone, Upgrade!Restrict, Upgrade!Goto,
       Upgrade!Answer
  <2>8. ASSUME NEW q \in UpgradeRequests, Upgrade!SelectAliases(q) \/ Upgrade!MoveAlias(q)
        PROVE Kept(p)
    BY <2>8 DEF Upgrade!SelectAliases, Upgrade!MoveAlias, Upgrade!Answer
  <2>9. ASSUME NEW q \in UpgradeRequests,
               Upgrade!StoreSent(q) \/ Upgrade!MarkRedacted(q) \/ Upgrade!StoreTxn(q)
        PROVE Kept(p)
    BY <2>9 DEF Upgrade!StoreSent, Upgrade!MarkRedacted, Upgrade!StoreTxn, Upgrade!Answer,
       Upgrade!Goto, Upgrade!Sends
  <2>10. CASE UNCHANGED req
    BY <2>10
  <2>. HIDE DEF Kept
  <2>. QED
    BY <2>1, <2>2, <2>3, <2>4, <2>5, <2>6, <2>7, <2>8, <2>9, <2>10, RequestStep
    DEF Upgrade!upgradeVars
<1>3. ASSUME NEW u \in Members, NEW l \in {0, 50}, Upgrade!ChangePower(u, l)
      PROVE  WishInv'
  <2>. DEFINE power == [rooms[OldRoom].power EXCEPT !.level[u] = l]
  <2>1. rooms' = [rooms EXCEPT ![OldRoom].power = power]
    BY <1>3 DEF Upgrade!ChangePower
  <2>2. power.level = [rooms[OldRoom].power.level EXCEPT ![u] = l]
    BY <1>0 DEF PowerRecords
  <2>. HIDE DEF power
  <2>3. rooms'[OldRoom].power = power
    BY <1>0, <2>1 DEF RoomRecords
  <2>4. /\ rooms'[OldRoom].power.level[u] = l
        /\ \A v \in Members \ {u} : rooms'[OldRoom].power.level[v] = rooms[OldRoom].power.level[v]
    BY <1>0, <2>2, <2>3 DEF PowerRecords
  <2>5. Upgrade!Holding' = Upgrade!Holding /\ UNCHANGED req
    BY <1>3 DEF Upgrade!ChangePower, Upgrade!Holding
  <2>6. /\ wished'[u] = l /\ \A v \in Members \ {u} : wished'[v] = wished[v]
        /\ raced' = IF Upgrade!Holding = {} THEN raced \ {u} ELSE raced \cup {u}
    BY <1>0, <1>3 DEF Upgrade!ChangePower
  <2>. QED
    BY <2>4, <2>5, <2>6 DEF WishInv
<1>4. ASSUME NEW q \in UpgradeRequests, Upgrade!Restrict(q)
      PROVE  UNCHANGED <<wished, raced>> /\ WishInv'
  <2>1. q \in Upgrade!Holding /\ req[q].levels \in PowerRecords
    BY <1>4, UpgradeAssumption DEF Upgrade!Restrict, Upgrade!Holding, StepOps, CloseSteps, LevelInv, Past,
       UpgradeSteps
  <2>. DEFINE closed == [req[q].levels EXCEPT !.eventsDefault = 100, !.invite = 100]
  <2>2. rooms' = [rooms EXCEPT ![OldRoom].power = closed]
    BY <1>4 DEF Upgrade!Restrict
  <2>3. closed.level = req[q].levels.level
    BY <2>1 DEF PowerRecords
  <2>. HIDE DEF closed
  <2>4. rooms'[OldRoom].power.level = req[q].levels.level
    BY <1>0, <2>2, <2>3 DEF RoomRecords
  <2>5. \A p \in Upgrade!Holding' : p \in Upgrade!Holding /\ req'[p].levels = req[p].levels
    BY <1>0, <1>4 DEF Upgrade!Restrict, Upgrade!Goto, Upgrade!Holding, RequestRecords
  <2>6. UNCHANGED <<wished, raced>>
    BY <1>4 DEF Upgrade!Restrict
  <2>. QED
    BY <2>1, <2>4, <2>5, <2>6 DEF WishInv
<1>5. ASSUME NEW q \in UpgradeRequests, BuildStep(q) \/ Upgrade!StoreTombstone(q)
      PROVE  \A u \in Members : level(u)' = level(u)
  <2>1. CASE BuildStep(q)
    <3>1. rooms'[OldRoom] = rooms[OldRoom]
      BY <2>1, <1>0, UpgradeAssumption DEF BuildStep, BuildOne
    <3>. QED
      BY <3>1 DEF level
  <2>2. CASE Upgrade!StoreTombstone(q)
    <3>1. rooms'[OldRoom].power = rooms[OldRoom].power
      BY <1>0, <2>2 DEF Upgrade!StoreTombstone, RoomRecords
    <3>. QED
      BY <3>1 DEF level
  <2>. QED
    BY <1>5, <2>1, <2>2
<1>6. \/ (\E u \in Members, l \in {0, 50} : Upgrade!ChangePower(u, l))
      \/ UNCHANGED <<wished, raced>>
  <2>1. /\ \A q : BuildStep(q) => UNCHANGED <<wished, raced>>
        /\ \A q : Upgrade!CheckAlias(q) \/ Upgrade!CheckUpgrade(q) => UNCHANGED <<wished, raced>>
        /\ \A q : Upgrade!InsertAlias(q) \/ Upgrade!MoveAlias(q) \/ Upgrade!DeleteAlias(q)
            => UNCHANGED <<wished, raced>>
        /\ \A q : Upgrade!Stop(q) \/ Upgrade!CreationFails(q) \/ Upgrade!ReadState(q)
            => UNCHANGED <<wished, raced>>
        /\ \A q : Upgrade!StoreTombstone(q) \/ Upgrade!Restrict(q) \/ Upgrade!SelectAliases(q)
            => UNCHANGED <<wished, raced>>
        /\ \A q, op, u : Upgrade!Begin(q, op, u) => UNCHANGED <<wished, raced>>
        /\ \A q : Upgrade!CheckTxn(q) \/ Upgrade!CheckSend(q) => UNCHANGED <<wished, raced>>
        /\ \A q : Upgrade!StoreSent(q) \/ Upgrade!MarkRedacted(q) \/ Upgrade!StoreTxn(q)
            => UNCHANGED <<wished, raced>>
    BY DEF BuildStep, BuildOne, Upgrade!CheckAlias, Upgrade!CheckUpgrade, Upgrade!InsertAlias,
       Upgrade!MoveAlias, Upgrade!DeleteAlias, Upgrade!Stop, Upgrade!CreationFails,
       Upgrade!ReadState, Upgrade!StoreTombstone, Upgrade!Restrict, Upgrade!SelectAliases,
       Upgrade!Begin, Upgrade!CheckTxn, Upgrade!CheckSend, Upgrade!StoreSent, Upgrade!MarkRedacted,
       Upgrade!StoreTxn
  <2>. QED
    BY <2>1, NextIsUpgradeStep DEF UpgradeStep, Upgrade!upgradeVars
<1>7. UNCHANGED rooms => \A u \in Members : level(u)' = level(u)
  BY DEF level
<1>. QED
  BY <1>1, <1>2, <1>3, <1>4, <1>5, <1>6, <1>7, RoomStep

LEMMA NextNewRoomInv ==
  UpgradeTypes /\ StepOps /\ LevelInv /\ NewRoomInv /\ [Upgrade!UpgradeNext]_(Upgrade!upgradeVars)
      => NewRoomInv'
<1>. SUFFICES ASSUME UpgradeTypes, StepOps, LevelInv, NewRoomInv,
                     [Upgrade!UpgradeNext]_(Upgrade!upgradeVars) PROVE NewRoomInv'
  OBVIOUS
<1>0. /\ req \in [UpgradeRequests -> RequestRecords] /\ rooms \in [Upgrade!RoomIds -> RoomRecords]
      /\ OldRoom \in Upgrade!RoomIds /\ UpgradeRequests \subseteq Upgrade!RoomIds
  BY DEF UpgradeTypes, Upgrade!RoomIds
<1>. DEFINE ReqInv(q) ==
    /\ Past(q, {"member", "power", "rules", "rest", "tombstone"} \cup CloseSteps)
         => req[q].user \in rooms[q].joined
    /\ Past(q, {"power", "rules", "rest", "tombstone"} \cup CloseSteps)
         => req[q].user \in rooms[q].rows
    /\ Past(q, {"rules", "rest", "tombstone"} \cup CloseSteps) => rooms[q].power = req[q].levels
    /\ Past(q, {"rest", "tombstone"} \cup CloseSteps) => rooms[q].rule = "public"
    /\ Past(q, {"tombstone"} \cup CloseSteps) => rooms[q].rest
<1>1. \A q \in UpgradeRequests : ReqInv(q)
  BY DEF NewRoomInv
<1>. SUFFICES ASSUME NEW p \in UpgradeRequests PROVE ReqInv(p)'
  BY DEF NewRoomInv
<1>. USE <1>0, <1>1, UpgradeAssumption DEF Past, CloseSteps, RequestRecords
<1>2. ASSUME NEW q \in UpgradeRequests,
             NEW op \in {"create", "upgrade", "unalias", "send", "redact"},
             NEW u \in Members, Upgrade!Begin(q, op, u)
      PROVE ReqInv(p)'
  BY <1>2 DEF Upgrade!Begin, Upgrade!Idle
<1>3. ASSUME NEW q \in UpgradeRequests, Upgrade!Stop(q) \/ Upgrade!CreationFails(q)
      PROVE ReqInv(p)'
  BY <1>3 DEF Upgrade!Stop, Upgrade!CreationFails, Upgrade!Goto
<1>4. ASSUME NEW q \in UpgradeRequests, Upgrade!Refuse(q), UNCHANGED rooms
      PROVE ReqInv(p)'
  BY <1>4 DEF Upgrade!Refuse, Upgrade!Idle
<1>5. ASSUME NEW q \in UpgradeRequests, Upgrade!CheckAlias(q), ~Upgrade!Refuse(q)
      PROVE ReqInv(p)'
  <2>1. (p # q /\ req'[p] = req[p]) \/ req'[p].op = "create"
    BY <1>5, CreationStarts
  <2>2. UNCHANGED rooms
    BY <1>5 DEF Upgrade!CheckAlias
  <2>. QED
    BY <2>1, <2>2
<1>6. ASSUME NEW q \in UpgradeRequests, Upgrade!CheckUpgrade(q), ~Upgrade!Refuse(q)
      PROVE ReqInv(p)'
  BY <1>6 DEF Upgrade!CheckUpgrade, StepOps
<1>7. ASSUME NEW q \in UpgradeRequests, Upgrade!ReadState(q)
      PROVE ReqInv(p)'
  BY <1>7 DEF Upgrade!ReadState, StepOps
<1>8. ASSUME NEW q \in UpgradeRequests, BuildStep(q)
      PROVE ReqInv(p)'
  <2>1. CASE p # q
    <3>1. req'[p] = req[p] /\ rooms'[p] = rooms[p]
      BY <1>8, <2>1 DEF BuildStep, BuildOne
    <3>. QED
      BY <3>1
  <2>2. CASE p = q
    <3>1. req[q].op = "upgrade"
          /\ req[q].step \in BuildSteps \ {"row", "create", "join", "member", "power"}
            => req[q].rule = "public"
      BY DEF LevelInv, UpgradeSteps, BuildSteps
    <3>2. req[q].result = None
      BY <1>8 DEF BuildStep, BuildOne, StepOps
    <3>. USE <2>2, <3>1, <3>2 DEF BuildOne, RoomRecords, BuildSteps
    <3>3. CASE BuildOne(q, "row", "create", [rooms[q] EXCEPT !.exists = TRUE])
      BY <3>3
    <3>4. CASE BuildOne(q, "create", "join", [rooms[q] EXCEPT !.created = TRUE])
      BY <3>4
    <3>5. CASE BuildOne(q, "join", "member", [rooms[q] EXCEPT !.joined = {req[q].user}])
      BY <3>5
    <3>6. CASE BuildOne(q, "member", "power", [rooms[q] EXCEPT !.rows = {req[q].user}])
      BY <3>6
    <3>7. CASE BuildOne(q, "power", "rules", [rooms[q] EXCEPT !.power = req[q].levels])
      BY <3>7
    <3>8. CASE BuildOne(q, "rules", "rest", [rooms[q] EXCEPT !.rule = req[q].rule])
      BY <3>8
    <3>9. CASE BuildOne(q, "rest", IF req[q].op = "upgrade" THEN "tombstone" ELSE "alias",
                        [rooms[q] EXCEPT !.rest = TRUE])
      BY <3>9
    <3>. HIDE DEF ReqInv, BuildOne
    <3>. QED
      BY <1>8, <3>3, <3>4, <3>5, <3>6, <3>7, <3>8, <3>9 DEF BuildStep
  <2>. QED
    BY <2>1, <2>2
<1>9. ASSUME NEW q \in UpgradeRequests, Upgrade!StoreTombstone(q) \/ Upgrade!Restrict(q)
      PROVE ReqInv(p)'
  <2>1. rooms'[p] = rooms[p]
    BY <1>9 DEF Upgrade!StoreTombstone, Upgrade!Restrict
  <2>. QED
    BY <1>9, <2>1 DEF Upgrade!StoreTombstone, Upgrade!Restrict, Upgrade!Goto, StepOps
<1>10. ASSUME NEW q \in UpgradeRequests, Upgrade!SelectAliases(q) \/ Upgrade!MoveAlias(q)
       PROVE ReqInv(p)'
  BY <1>10 DEF Upgrade!SelectAliases, Upgrade!MoveAlias, Upgrade!Answer, StepOps
<1>11. ASSUME NEW q \in UpgradeRequests, Upgrade!InsertAlias(q)
       PROVE ReqInv(p)'
  BY <1>11 DEF Upgrade!InsertAlias, Upgrade!Answer, StepOps
<1>12. ASSUME NEW q \in UpgradeRequests, Upgrade!DeleteAlias(q) \/ Upgrade!CheckTxn(q) \/ Upgrade!CheckSend(q),
              ~Upgrade!Refuse(q)
       PROVE ReqInv(p)'
  BY <1>12 DEF Upgrade!DeleteAlias, Upgrade!CheckTxn, Upgrade!CheckSend, Upgrade!Answer, Upgrade!Goto, Upgrade!Sends
<1>13. ASSUME NEW q \in UpgradeRequests, Upgrade!StoreSent(q) \/ Upgrade!MarkRedacted(q)
              \/ Upgrade!StoreTxn(q)
       PROVE ReqInv(p)'
  BY <1>13 DEF Upgrade!StoreSent, Upgrade!MarkRedacted, Upgrade!StoreTxn, Upgrade!Answer,
     Upgrade!Goto, Upgrade!Sends, StepOps
<1>14. ASSUME NEW u \in Members, NEW level \in {0, 50}, Upgrade!ChangePower(u, level)
       PROVE ReqInv(p)'
  <2>1. rooms'[p] = rooms[p] /\ req'[p] = req[p]
    BY <1>14 DEF Upgrade!ChangePower
  <2>. QED
    BY <2>1
<1>15. CASE UNCHANGED <<rooms, req>>
  BY <1>15
<1>16. \A q \in UpgradeRequests : Upgrade!CheckAlias(q) \/ Upgrade!CheckUpgrade(q)
       \/ Upgrade!DeleteAlias(q) \/ Upgrade!CheckTxn(q) \/ Upgrade!CheckSend(q)
         => UNCHANGED rooms
  BY DEF Upgrade!CheckAlias, Upgrade!CheckUpgrade, Upgrade!DeleteAlias, Upgrade!CheckTxn, Upgrade!CheckSend
<1>. HIDE DEF ReqInv
<1>. QED
  BY <1>2, <1>3, <1>4, <1>5, <1>6, <1>7, <1>8, <1>9, <1>10, <1>11, <1>12, <1>13, <1>14, <1>15,
     <1>16, RequestStep DEF Upgrade!upgradeVars

(* Whoever has passed its check keeps its kind, and is never checked again. *)
LEMMA KindIsKept ==
  ASSUME UpgradeTypes, [Upgrade!UpgradeNext]_(Upgrade!upgradeVars), NEW p \in UpgradeRequests,
         req[p].op # None, req[p].step \notin {"check", "authorize"}
  PROVE  req'[p].op = req[p].op /\ req'[p].step \notin {"check", "authorize"}
<1>0. req \in [UpgradeRequests -> RequestRecords]
  BY DEF UpgradeTypes
<1>. USE <1>0, UpgradeAssumption DEF RequestRecords
<1>1. ASSUME NEW q \in UpgradeRequests,
             \E op \in {"create", "upgrade", "unalias", "send", "redact"}, u \in Members :
               Upgrade!Begin(q, op, u)
      PROVE  req'[p].op = req[p].op /\ req'[p].step \notin {"check", "authorize"}
  BY <1>1 DEF Upgrade!Begin, Upgrade!Idle
<1>2. ASSUME NEW q \in UpgradeRequests, Upgrade!CheckAlias(q) \/ Upgrade!CheckUpgrade(q)
             \/ Upgrade!DeleteAlias(q)
      PROVE  req'[p].op = req[p].op /\ req'[p].step \notin {"check", "authorize"}
  <2>1. req[q].step = "check"
    BY <1>2 DEF Upgrade!CheckAlias, Upgrade!CheckUpgrade, Upgrade!DeleteAlias
  <2>2. p # q /\ req'[p] = req[p]
    BY <1>2, <2>1, AliasChecked DEF Upgrade!CheckUpgrade, Upgrade!DeleteAlias, Upgrade!Refuse, Upgrade!Answer
  <2>. QED
    BY <2>2
<1>3. ASSUME NEW q \in UpgradeRequests, Upgrade!CheckTxn(q) \/ Upgrade!CheckSend(q)
      PROVE  req'[p].op = req[p].op /\ req'[p].step \notin {"check", "authorize"}
  <2>1. p # q
    BY <1>3 DEF Upgrade!CheckTxn, Upgrade!CheckSend
  <2>. QED
    BY <1>3, <2>1 DEF Upgrade!CheckTxn, Upgrade!CheckSend, Upgrade!Refuse, Upgrade!Answer, Upgrade!Goto
<1>4. ASSUME NEW q \in UpgradeRequests, Upgrade!Stop(q) \/ Upgrade!CreationFails(q)
             \/ Upgrade!ReadState(q) \/ BuildStep(q)
      PROVE  req'[p].op = req[p].op /\ req'[p].step \notin {"check", "authorize"}
  BY <1>4 DEF Upgrade!Stop, Upgrade!CreationFails, Upgrade!ReadState, BuildStep, BuildOne,
     Upgrade!Goto
<1>5. ASSUME NEW q \in UpgradeRequests, Upgrade!InsertAlias(q) \/ Upgrade!StoreTombstone(q)
             \/ Upgrade!Restrict(q)
      PROVE  req'[p].op = req[p].op /\ req'[p].step \notin {"check", "authorize"}
  BY <1>5 DEF Upgrade!InsertAlias, Upgrade!StoreTombstone, Upgrade!Restrict, Upgrade!Answer,
     Upgrade!Goto
<1>6. ASSUME NEW q \in UpgradeRequests, Upgrade!SelectAliases(q) \/ Upgrade!MoveAlias(q)
      PROVE  req'[p].op = req[p].op /\ req'[p].step \notin {"check", "authorize"}
  BY <1>6 DEF Upgrade!SelectAliases, Upgrade!MoveAlias, Upgrade!Answer
<1>7. ASSUME NEW q \in UpgradeRequests, Upgrade!StoreSent(q) \/ Upgrade!MarkRedacted(q)
             \/ Upgrade!StoreTxn(q)
      PROVE  req'[p].op = req[p].op /\ req'[p].step \notin {"check", "authorize"}
  BY <1>7 DEF Upgrade!StoreSent, Upgrade!MarkRedacted, Upgrade!StoreTxn, Upgrade!Answer,
     Upgrade!Goto
<1>. QED
  BY <1>1, <1>2, <1>3, <1>4, <1>5, <1>6, <1>7, RequestStep DEF Upgrade!upgradeVars

(* How a request comes to close the old room, and to be answered. *)
LEMMA ClosingStep ==
  ASSUME UpgradeTypes, StepOps, [Upgrade!UpgradeNext]_(Upgrade!upgradeVars), NEW q \in UpgradeRequests,
         Past(q, CloseSteps)', ~Past(q, CloseSteps)
  PROVE  Upgrade!StoreTombstone(q)
<1>0. req \in [UpgradeRequests -> RequestRecords]
  BY DEF UpgradeTypes
<1>. USE <1>0, UpgradeAssumption DEF RequestRecords, Past, CloseSteps
<1>1. ASSUME NEW r \in UpgradeRequests,
             \E op \in {"create", "upgrade", "unalias", "send", "redact"}, u \in Members :
               Upgrade!Begin(r, op, u)
      PROVE  FALSE
  BY <1>1 DEF Upgrade!Begin, Upgrade!Idle
<1>2. ASSUME NEW r \in UpgradeRequests, Upgrade!Refuse(r)
      PROVE  FALSE
  BY <1>2 DEF Upgrade!Refuse, Upgrade!Idle
<1>3. ASSUME NEW r \in UpgradeRequests, Upgrade!CheckAlias(r) \/ Upgrade!CheckUpgrade(r)
             \/ Upgrade!DeleteAlias(r)
      PROVE  FALSE
  <2>1. CASE Upgrade!CheckAlias(r) /\ ~Upgrade!Refuse(r)
    <3>1. /\ req[r].op = "create" /\ req[r].step = "check" /\ req'[r].op = "create"
          /\ \A p \in UpgradeRequests \ {r} : req'[p] = req[p]
      BY <2>1, CreationStarts
    <3>. QED
      BY <3>1
  <2>2. CASE Upgrade!CheckUpgrade(r) /\ ~Upgrade!Refuse(r)
    BY <2>2 DEF Upgrade!CheckUpgrade, StepOps
  <2>3. CASE Upgrade!DeleteAlias(r) /\ ~Upgrade!Refuse(r)
    BY <2>3 DEF Upgrade!DeleteAlias, Upgrade!Answer
  <2>. QED
    BY <1>2, <1>3, <2>1, <2>2, <2>3
<1>4. ASSUME NEW r \in UpgradeRequests, Upgrade!CheckTxn(r) \/ Upgrade!CheckSend(r)
      PROVE  FALSE
  BY <1>2, <1>4 DEF Upgrade!CheckTxn, Upgrade!CheckSend, Upgrade!Answer, Upgrade!Goto, Upgrade!Sends, StepOps
<1>5. ASSUME NEW r \in UpgradeRequests, Upgrade!Stop(r) \/ Upgrade!CreationFails(r)
             \/ Upgrade!ReadState(r) \/ BuildStep(r)
      PROVE  FALSE
  <2>1. CASE BuildStep(r)
    BY <2>1 DEF BuildStep, BuildOne
  <2>2. CASE Upgrade!Stop(r) \/ Upgrade!CreationFails(r) \/ Upgrade!ReadState(r)
    BY <2>2 DEF Upgrade!Stop, Upgrade!CreationFails, Upgrade!ReadState, Upgrade!Goto
  <2>. QED
    BY <1>5, <2>1, <2>2
<1>6. ASSUME NEW r \in UpgradeRequests, Upgrade!InsertAlias(r) \/ Upgrade!Restrict(r)
      PROVE  FALSE
  BY <1>6 DEF Upgrade!InsertAlias, Upgrade!Restrict, Upgrade!Answer, Upgrade!Goto, StepOps
<1>7. ASSUME NEW r \in UpgradeRequests, Upgrade!SelectAliases(r) \/ Upgrade!MoveAlias(r)
      PROVE  FALSE
  BY <1>7 DEF Upgrade!SelectAliases, Upgrade!MoveAlias, Upgrade!Answer, StepOps
<1>8. ASSUME NEW r \in UpgradeRequests, Upgrade!StoreSent(r) \/ Upgrade!MarkRedacted(r)
             \/ Upgrade!StoreTxn(r)
      PROVE  FALSE
  BY <1>8 DEF Upgrade!StoreSent, Upgrade!MarkRedacted, Upgrade!StoreTxn, Upgrade!Answer,
     Upgrade!Goto, StepOps, Upgrade!Sends
<1>9. ASSUME NEW r \in UpgradeRequests, Upgrade!StoreTombstone(r), r # q
      PROVE  FALSE
  BY <1>9 DEF Upgrade!StoreTombstone, Upgrade!Goto
<1>. QED
  BY <1>1, <1>3, <1>4, <1>5, <1>6, <1>7, <1>8, <1>9, RequestStep DEF Upgrade!upgradeVars

LEMMA NextTombstoneInv ==
  UpgradeTypes /\ StepOps /\ TombstoneInv /\ [Upgrade!UpgradeNext]_(Upgrade!upgradeVars) => TombstoneInv'
<1>. SUFFICES ASSUME UpgradeTypes, StepOps, TombstoneInv,
                     [Upgrade!UpgradeNext]_(Upgrade!upgradeVars) PROVE TombstoneInv'
  OBVIOUS
<1>0. /\ rooms \in [Upgrade!RoomIds -> RoomRecords] /\ req \in [UpgradeRequests -> RequestRecords]
      /\ OldRoom \in Upgrade!RoomIds /\ UpgradeRequests \subseteq Upgrade!RoomIds
  BY DEF UpgradeTypes, Upgrade!RoomIds
<1>1. \/ \E q \in UpgradeRequests : Upgrade!StoreTombstone(q)
      \/ rooms'[OldRoom].tombstone = rooms[OldRoom].tombstone
  <2>1. ASSUME NEW q \in UpgradeRequests, BuildStep(q)
        PROVE rooms'[OldRoom] = rooms[OldRoom]
    BY <2>1, <1>0, UpgradeAssumption DEF BuildStep, BuildOne
  <2>2. ASSUME NEW q \in UpgradeRequests, Upgrade!Restrict(q)
        PROVE rooms'[OldRoom].tombstone = rooms[OldRoom].tombstone
    BY <2>2, <1>0 DEF Upgrade!Restrict, RoomRecords
  <2>3. ASSUME NEW u \in Members, NEW level \in {0, 50}, Upgrade!ChangePower(u, level)
        PROVE rooms'[OldRoom].tombstone = rooms[OldRoom].tombstone
    BY <2>3, <1>0 DEF Upgrade!ChangePower, RoomRecords
  <2>. QED
    BY <2>1, <2>2, <2>3, RoomStep
<1>2. CASE \E q \in UpgradeRequests : Upgrade!StoreTombstone(q)
  <2>. PICK q \in UpgradeRequests : Upgrade!StoreTombstone(q)
    BY <1>2
  <2>1. rooms'[OldRoom].tombstone = q
    BY <1>0 DEF Upgrade!StoreTombstone, RoomRecords
  <2>2. req'[q].op = "upgrade" /\ req'[q].step \notin {"check", "authorize"}
    BY <1>0 DEF Upgrade!StoreTombstone, Upgrade!Goto, StepOps, RequestRecords
  <2>. QED
    BY <2>1, <2>2, UpgradeAssumption DEF TombstoneInv
<1>3. CASE rooms'[OldRoom].tombstone = rooms[OldRoom].tombstone
  <2>. DEFINE p == rooms[OldRoom].tombstone
  <2>1. p # None => req'[p].op = "upgrade" /\ req'[p].step \notin {"check", "authorize"}
    BY KindIsKept, UpgradeAssumption DEF TombstoneInv
  <2>2. ASSUME NEW q \in UpgradeRequests, Past(q, CloseSteps)' PROVE p # None
               \/ Upgrade!StoreTombstone(q)
    BY <2>2, ClosingStep DEF TombstoneInv
  <2>. QED
    BY <1>2, <1>3, <2>1, <2>2 DEF TombstoneInv
<1>. QED
  BY <1>1, <1>2, <1>3

(* How an upgrade comes to move the aliases, and to be answered. *)
LEMMA MovingStep ==
  ASSUME UpgradeTypes, StepOps, [Upgrade!UpgradeNext]_(Upgrade!upgradeVars), NEW q \in UpgradeRequests,
         req'[q].op = "upgrade", req'[q].step = "move" \/ req'[q].result = "ok"
  PROVE  Upgrade!SelectAliases(q) \/ Upgrade!MoveAlias(q) \/ req'[q] = req[q]
<1>0. req \in [UpgradeRequests -> RequestRecords]
  BY DEF UpgradeTypes
<1>. USE <1>0, UpgradeAssumption DEF RequestRecords
<1>. SUFFICES ASSUME req'[q] # req[q] PROVE Upgrade!SelectAliases(q) \/ Upgrade!MoveAlias(q)
  OBVIOUS
<1>1. ASSUME NEW r \in UpgradeRequests,
             \E op \in {"create", "upgrade", "unalias", "send", "redact"}, u \in Members :
               Upgrade!Begin(r, op, u)
      PROVE  FALSE
  BY <1>1 DEF Upgrade!Begin, Upgrade!Idle
<1>2. ASSUME NEW r \in UpgradeRequests, Upgrade!Refuse(r)
      PROVE  FALSE
  BY <1>2 DEF Upgrade!Refuse, Upgrade!Idle
<1>3. ASSUME NEW r \in UpgradeRequests, Upgrade!CheckAlias(r) \/ Upgrade!CheckUpgrade(r)
             \/ Upgrade!DeleteAlias(r)
      PROVE  FALSE
  <2>1. CASE Upgrade!CheckAlias(r) /\ ~Upgrade!Refuse(r)
    <3>1. /\ req[r].op = "create" /\ req[r].step = "check" /\ req'[r].op = "create"
          /\ \A p \in UpgradeRequests \ {r} : req'[p] = req[p]
      BY <2>1, CreationStarts
    <3>. QED
      BY <3>1
  <2>2. CASE Upgrade!CheckUpgrade(r) /\ ~Upgrade!Refuse(r)
    BY <2>2 DEF Upgrade!CheckUpgrade, StepOps
  <2>3. CASE Upgrade!DeleteAlias(r) /\ ~Upgrade!Refuse(r)
    BY <2>3 DEF Upgrade!DeleteAlias, Upgrade!Answer
  <2>. QED
    BY <1>2, <1>3, <2>1, <2>2, <2>3
<1>4. ASSUME NEW r \in UpgradeRequests, Upgrade!CheckTxn(r) \/ Upgrade!CheckSend(r)
      PROVE  FALSE
  BY <1>2, <1>4 DEF Upgrade!CheckTxn, Upgrade!CheckSend, Upgrade!Answer, Upgrade!Goto, Upgrade!Sends, StepOps
<1>5. ASSUME NEW r \in UpgradeRequests, BuildStep(r)
      PROVE  FALSE
  BY <1>5 DEF BuildStep, BuildOne, StepOps
<1>6. ASSUME NEW r \in UpgradeRequests, Upgrade!Stop(r) \/ Upgrade!CreationFails(r)
             \/ Upgrade!ReadState(r)
      PROVE  FALSE
  BY <1>6 DEF Upgrade!Stop, Upgrade!CreationFails, Upgrade!ReadState, Upgrade!Goto, StepOps
<1>7. ASSUME NEW r \in UpgradeRequests, Upgrade!InsertAlias(r) \/ Upgrade!StoreTombstone(r)
             \/ Upgrade!Restrict(r)
      PROVE  FALSE
  BY <1>7 DEF Upgrade!InsertAlias, Upgrade!StoreTombstone, Upgrade!Restrict, Upgrade!Answer,
     Upgrade!Goto, StepOps
<1>8. ASSUME NEW r \in UpgradeRequests, Upgrade!StoreSent(r) \/ Upgrade!MarkRedacted(r)
             \/ Upgrade!StoreTxn(r)
      PROVE  FALSE
  BY <1>8 DEF Upgrade!StoreSent, Upgrade!MarkRedacted, Upgrade!StoreTxn, Upgrade!Answer,
     Upgrade!Goto, StepOps, Upgrade!Sends
<1>9. ASSUME NEW r \in UpgradeRequests, Upgrade!SelectAliases(r) \/ Upgrade!MoveAlias(r), r # q
      PROVE  FALSE
  BY <1>9 DEF Upgrade!SelectAliases, Upgrade!MoveAlias, Upgrade!Answer
<1>. QED
  BY <1>1, <1>3, <1>4, <1>5, <1>6, <1>7, <1>8, <1>9, RequestStep DEF Upgrade!upgradeVars

(* No alias comes back to the old room. *)
LEMMA AliasesLeave ==
  ASSUME UpgradeTypes, [Upgrade!UpgradeNext]_(Upgrade!upgradeVars), NEW a \in Aliases, alias'[a] = OldRoom
  PROVE  alias[a] = OldRoom
<1>1. ASSUME NEW q \in UpgradeRequests, Upgrade!InsertAlias(q) \/ Upgrade!MoveAlias(q)
             \/ Upgrade!DeleteAlias(q)
      PROVE  alias[a] = OldRoom
  BY <1>1, UpgradeAssumption DEF UpgradeTypes, Upgrade!InsertAlias, Upgrade!MoveAlias,
     Upgrade!DeleteAlias
<1>2. ASSUME NEW q \in UpgradeRequests, NEW op \in {"create", "upgrade", "unalias", "send", "redact"},
             NEW u \in Members,
             \/ Upgrade!Begin(q, op, u) \/ Upgrade!Stop(q) \/ Upgrade!CreationFails(q)
             \/ Upgrade!CheckAlias(q) \/ Upgrade!CheckUpgrade(q) \/ Upgrade!ReadState(q)
             \/ Upgrade!CheckTxn(q) \/ Upgrade!CheckSend(q)
      PROVE  UNCHANGED alias
  BY <1>2 DEF Upgrade!Begin, Upgrade!Stop, Upgrade!CreationFails, Upgrade!CheckAlias,
     Upgrade!CheckUpgrade, Upgrade!ReadState, Upgrade!CheckTxn, Upgrade!CheckSend
<1>3. ASSUME NEW q \in UpgradeRequests,
             \/ BuildStep(q) \/ Upgrade!StoreTombstone(q) \/ Upgrade!Restrict(q)
             \/ Upgrade!SelectAliases(q) \/ Upgrade!StoreSent(q) \/ Upgrade!MarkRedacted(q)
             \/ Upgrade!StoreTxn(q)
      PROVE  UNCHANGED alias
  BY <1>3 DEF BuildStep, BuildOne, Upgrade!StoreTombstone, Upgrade!Restrict,
     Upgrade!SelectAliases, Upgrade!StoreSent, Upgrade!MarkRedacted, Upgrade!StoreTxn
<1>4. ASSUME NEW u \in Members, NEW level \in {0, 50}, Upgrade!ChangePower(u, level)
      PROVE  UNCHANGED alias
  BY <1>4 DEF Upgrade!ChangePower
<1>5. Members # {} => UNCHANGED alias \/ \E q \in UpgradeRequests :
        Upgrade!InsertAlias(q) \/ Upgrade!MoveAlias(q) \/ Upgrade!DeleteAlias(q)
  BY <1>2, <1>3, <1>4, NextIsUpgradeStep DEF UpgradeStep, Upgrade!upgradeVars
<1>. QED
  BY <1>1, <1>5, UpgradeAssumption

LEMMA NextAliasInv ==
  UpgradeTypes /\ StepOps /\ AliasInv /\ [Upgrade!UpgradeNext]_(Upgrade!upgradeVars) => AliasInv'
<1>. SUFFICES ASSUME UpgradeTypes, StepOps, AliasInv, [Upgrade!UpgradeNext]_(Upgrade!upgradeVars),
                     NEW q \in UpgradeRequests, req'[q].op = "upgrade"
              PROVE  /\ req'[q].step = "move" => \A a \in Aliases : alias'[a] = OldRoom
                          => a \in req'[q].todo
                     /\ req'[q].result = "ok" => \A a \in Aliases : alias'[a] # OldRoom
  BY DEF AliasInv
<1>. SUFFICES ASSUME req'[q].step = "move" \/ req'[q].result = "ok",
                     NEW a \in Aliases, alias'[a] = OldRoom
              PROVE  req'[q].step = "move" /\ req'[q].result # "ok" /\ a \in req'[q].todo
  OBVIOUS
<1>0. req \in [UpgradeRequests -> RequestRecords] /\ alias[a] = OldRoom
  BY AliasesLeave DEF UpgradeTypes
<1>. USE <1>0, UpgradeAssumption DEF RequestRecords, AliasInv, StepOps
<1>1. CASE Upgrade!SelectAliases(q)
  BY <1>1 DEF Upgrade!SelectAliases
<1>2. CASE Upgrade!MoveAlias(q)
  BY <1>2 DEF Upgrade!MoveAlias, Upgrade!Answer, UpgradeTypes
<1>3. CASE req'[q] = req[q]
  BY <1>3
<1>. QED
  BY <1>1, <1>2, <1>3, MovingStep

(* How a request comes to store a transaction, and to be answered. *)
LEMMA SendingStep ==
  ASSUME UpgradeTypes, StepOps, [Upgrade!UpgradeNext]_(Upgrade!upgradeVars), NEW q \in UpgradeRequests,
         req'[q].op \in {"send", "redact"}, req'[q].step \in {"mark", "txn"}
             \/ req'[q].result = "ok",
         req'[q] # req[q]
  PROVE  \/ Upgrade!StoreSent(q) \/ Upgrade!MarkRedacted(q) \/ Upgrade!StoreTxn(q)
         \/ (Upgrade!CheckTxn(q) /\ txns[TxnOf[q]] # None)
<1>0. req \in [UpgradeRequests -> RequestRecords]
  BY DEF UpgradeTypes
<1>. USE <1>0, UpgradeAssumption DEF RequestRecords
<1>1. ASSUME NEW r \in UpgradeRequests,
             \E op \in {"create", "upgrade", "unalias", "send", "redact"}, u \in Members :
               Upgrade!Begin(r, op, u)
      PROVE  FALSE
  BY <1>1 DEF Upgrade!Begin, Upgrade!Idle
<1>2. ASSUME NEW r \in UpgradeRequests, Upgrade!Refuse(r)
      PROVE  FALSE
  BY <1>2 DEF Upgrade!Refuse, Upgrade!Idle
<1>3. ASSUME NEW r \in UpgradeRequests, Upgrade!CheckAlias(r) \/ Upgrade!CheckUpgrade(r)
             \/ Upgrade!DeleteAlias(r)
      PROVE  FALSE
  <2>1. CASE Upgrade!CheckAlias(r) /\ ~Upgrade!Refuse(r)
    <3>1. /\ req[r].op = "create" /\ req[r].step = "check" /\ req'[r].op = "create"
          /\ \A p \in UpgradeRequests \ {r} : req'[p] = req[p]
      BY <2>1, CreationStarts
    <3>. QED
      BY <3>1
  <2>2. CASE Upgrade!CheckUpgrade(r) /\ ~Upgrade!Refuse(r)
    BY <2>2 DEF Upgrade!CheckUpgrade, StepOps
  <2>3. CASE Upgrade!DeleteAlias(r) /\ ~Upgrade!Refuse(r)
    BY <2>3 DEF Upgrade!DeleteAlias, Upgrade!Answer
  <2>. QED
    BY <1>2, <1>3, <2>1, <2>2, <2>3
<1>4. ASSUME NEW r \in UpgradeRequests, Upgrade!CheckTxn(r) \/ Upgrade!CheckSend(r),
             Upgrade!CheckSend(r) \/ r # q \/ txns[TxnOf[q]] = None
      PROVE  FALSE
  BY <1>2, <1>4 DEF Upgrade!CheckTxn, Upgrade!CheckSend, Upgrade!Answer, Upgrade!Goto, Upgrade!Sends, StepOps
<1>5. ASSUME NEW r \in UpgradeRequests, BuildStep(r)
      PROVE  FALSE
  BY <1>5 DEF BuildStep, BuildOne, StepOps
<1>6. ASSUME NEW r \in UpgradeRequests, Upgrade!Stop(r) \/ Upgrade!CreationFails(r)
             \/ Upgrade!ReadState(r)
      PROVE  FALSE
  BY <1>6 DEF Upgrade!Stop, Upgrade!CreationFails, Upgrade!ReadState, Upgrade!Goto, StepOps
<1>7. ASSUME NEW r \in UpgradeRequests, Upgrade!InsertAlias(r) \/ Upgrade!StoreTombstone(r)
             \/ Upgrade!Restrict(r)
      PROVE  FALSE
  BY <1>7 DEF Upgrade!InsertAlias, Upgrade!StoreTombstone, Upgrade!Restrict, Upgrade!Answer,
     Upgrade!Goto, StepOps
<1>8. ASSUME NEW r \in UpgradeRequests, Upgrade!SelectAliases(r) \/ Upgrade!MoveAlias(r)
      PROVE  FALSE
  BY <1>8 DEF Upgrade!SelectAliases, Upgrade!MoveAlias, Upgrade!Answer, StepOps, CloseSteps
<1>9. ASSUME NEW r \in UpgradeRequests, Upgrade!StoreSent(r) \/ Upgrade!MarkRedacted(r)
             \/ Upgrade!StoreTxn(r), r # q
      PROVE  FALSE
  BY <1>9 DEF Upgrade!StoreSent, Upgrade!MarkRedacted, Upgrade!StoreTxn, Upgrade!Answer,
     Upgrade!Goto
<1>. QED
  BY <1>1, <1>3, <1>4, <1>5, <1>6, <1>7, <1>8, <1>9, RequestStep DEF Upgrade!upgradeVars

LEMMA NextSentInv ==
  UpgradeTypes /\ StepOps /\ SentInv /\ [Upgrade!UpgradeNext]_(Upgrade!upgradeVars) => SentInv'
<1>. SUFFICES ASSUME UpgradeTypes, StepOps, SentInv,
                     [Upgrade!UpgradeNext]_(Upgrade!upgradeVars) PROVE SentInv'
  OBVIOUS
<1>0. /\ req \in [UpgradeRequests -> RequestRecords] /\ Upgrade!First \in Upgrade!Messages
      /\ hidden \in [Upgrade!Messages -> UpgradeRequests \cup {None}]
          /\ sent \subseteq UpgradeRequests
      /\ txns \in [{TxnOf[q] : q \in UpgradeRequests} -> UpgradeRequests \cup {None}]
  BY DEF UpgradeTypes, Upgrade!Messages
<1>1. ASSUME NEW p \in sent
      PROVE  req'[p].op = req[p].op /\ req'[p].step \notin {"check", "authorize"}
  BY <1>0, <1>1, KindIsKept, UpgradeAssumption DEF SentInv, Upgrade!Sends
<1>2. /\ \A q : BuildStep(q) => UNCHANGED <<hidden, sent, txns>>
      /\ \A q : Upgrade!CheckAlias(q) \/ Upgrade!CheckUpgrade(q) => UNCHANGED <<hidden, sent, txns>>
      /\ \A q : Upgrade!InsertAlias(q) \/ Upgrade!MoveAlias(q) \/ Upgrade!DeleteAlias(q)
          => UNCHANGED <<hidden, sent, txns>>
      /\ \A q : Upgrade!Stop(q) \/ Upgrade!CreationFails(q) \/ Upgrade!ReadState(q)
          => UNCHANGED <<hidden, sent, txns>>
      /\ \A q : Upgrade!StoreTombstone(q) \/ Upgrade!Restrict(q) \/ Upgrade!SelectAliases(q)
          => UNCHANGED <<hidden, sent, txns>>
      /\ \A q, op, u : Upgrade!Begin(q, op, u) => UNCHANGED <<hidden, sent, txns>>
      /\ \A q : Upgrade!CheckTxn(q) \/ Upgrade!CheckSend(q) => UNCHANGED <<hidden, sent, txns>>
      /\ \A u, l : Upgrade!ChangePower(u, l) => UNCHANGED <<hidden, sent, txns>>
  BY DEF BuildStep, BuildOne, Upgrade!CheckAlias, Upgrade!CheckUpgrade, Upgrade!InsertAlias,
     Upgrade!MoveAlias, Upgrade!DeleteAlias, Upgrade!Stop, Upgrade!CreationFails,
     Upgrade!ReadState, Upgrade!StoreTombstone, Upgrade!Restrict, Upgrade!SelectAliases,
     Upgrade!Begin, Upgrade!CheckTxn, Upgrade!CheckSend, Upgrade!ChangePower
<1>3. \/ \E q \in UpgradeRequests : Upgrade!StoreSent(q) \/ Upgrade!MarkRedacted(q)
         \/ Upgrade!StoreTxn(q)
      \/ UNCHANGED <<hidden, sent, txns>>
  BY <1>2, NextIsUpgradeStep DEF UpgradeStep, Upgrade!upgradeVars
<1>4. hidden[Upgrade!First] # None => hidden'[Upgrade!First] # None
  BY <1>0, <1>3, UpgradeAssumption DEF Upgrade!StoreSent, Upgrade!MarkRedacted, Upgrade!StoreTxn
<1>5. sent \subseteq sent'
  BY <1>3 DEF Upgrade!StoreSent, Upgrade!MarkRedacted, Upgrade!StoreTxn
<1>6. \A p : Stored(p) => Stored(p)'
  BY <1>1, <1>4, <1>5 DEF Stored
<1>7. ASSUME NEW p \in sent'
      PROVE (Upgrade!Sends(p) /\ req[p].step \notin {"check", "authorize"})'
  <2>1. CASE p \in sent
    BY <1>1, <2>1 DEF SentInv, Upgrade!Sends
  <2>2. CASE p \notin sent
    <3>1. p \in UpgradeRequests /\ Upgrade!StoreSent(p)
      BY <1>3, <2>2 DEF Upgrade!StoreSent, Upgrade!MarkRedacted, Upgrade!StoreTxn
    <3>. QED
      BY <1>0, <3>1 DEF Upgrade!StoreSent, Upgrade!Goto, Upgrade!Sends, RequestRecords
  <2>. QED
    BY <2>1, <2>2
<1>8. ASSUME NEW q \in UpgradeRequests, (Upgrade!Sends(q) /\ req[q].step \in {"mark", "txn"})'
      PROVE (q \in sent /\ (req[q].step = "txn" => Stored(q)))'
  <2>1. CASE Upgrade!StoreSent(q)
    BY <1>0, <2>1 DEF Upgrade!StoreSent, Upgrade!Goto, Upgrade!Sends, Stored, RequestRecords
  <2>2. CASE Upgrade!MarkRedacted(q)
    BY <1>0, <1>5, <2>2, UpgradeAssumption DEF Upgrade!MarkRedacted, SentInv, Stored
  <2>3. CASE Upgrade!StoreTxn(q) \/ (Upgrade!CheckTxn(q) /\ txns[TxnOf[q]] # None)
    BY <1>0, <1>8, <2>3, UpgradeAssumption DEF Upgrade!StoreTxn, Upgrade!CheckTxn, Upgrade!CheckSend,
       Upgrade!Answer, RequestRecords
  <2>4. CASE req'[q] = req[q]
    <3>1. Stored(q) => q \in sent
      BY DEF Stored
    <3>2. (req[q].step = "mark" => q \in sent) /\ (req[q].step = "txn" => Stored(q))
      BY DEF SentInv
    <3>. QED
      BY <1>5, <1>6, <1>8, <2>4, <3>1, <3>2
  <2>. QED
    BY <1>8, <2>1, <2>2, <2>3, <2>4, SendingStep DEF Upgrade!Sends
<1>9. ASSUME NEW q \in UpgradeRequests, txns'[TxnOf[q]] # None
      PROVE Stored(txns[TxnOf[q]])' /\ TxnOf[txns'[TxnOf[q]]] = TxnOf[q]
  <2>1. CASE \E r \in UpgradeRequests : Upgrade!StoreTxn(r) /\ TxnOf[r] = TxnOf[q]
    <3>. PICK r \in UpgradeRequests : Upgrade!StoreTxn(r) /\ TxnOf[r] = TxnOf[q]
      BY <2>1
    <3>1. txns'[TxnOf[q]] = r
      BY <1>0 DEF Upgrade!StoreTxn
    <3>2. Stored(r)
      BY DEF Upgrade!StoreTxn, SentInv
    <3>. QED
      BY <1>6, <3>1, <3>2
  <2>2. CASE txns'[TxnOf[q]] = txns[TxnOf[q]]
    BY <1>6, <1>9, <2>2 DEF SentInv
  <2>. QED
    BY <1>0, <1>3, <2>1, <2>2 DEF Upgrade!StoreSent, Upgrade!MarkRedacted, Upgrade!StoreTxn
<1>10. ASSUME NEW q \in UpgradeRequests, (Upgrade!Sends(q) /\ req[q].result = "ok")'
       PROVE (\E p \in sent : TxnOf[p] = TxnOf[q] /\ Stored(p))'
  <2>1. CASE Upgrade!StoreSent(q) \/ Upgrade!MarkRedacted(q)
    BY <1>0, <1>10, <2>1, UpgradeAssumption DEF Upgrade!StoreSent, Upgrade!MarkRedacted,
       Upgrade!Goto, StepOps, RequestRecords
  <2>2. CASE Upgrade!StoreTxn(q)
    <3>1. Stored(q)
      BY <2>2 DEF Upgrade!StoreTxn, SentInv
    <3>. QED
      BY <1>6, <3>1 DEF Stored
  <2>3. CASE Upgrade!CheckTxn(q) /\ txns[TxnOf[q]] # None
    BY <1>6, <2>3 DEF SentInv, Stored
  <2>4. CASE req'[q] = req[q]
    <3>1. PICK p \in sent : TxnOf[p] = TxnOf[q] /\ Stored(p)
      BY <1>10, <2>4 DEF SentInv, Upgrade!Sends
    <3>. QED
      BY <1>5, <1>6, <3>1
  <2>. QED
    BY <1>10, <2>1, <2>2, <2>3, <2>4, SendingStep DEF Upgrade!Sends
<1>11. ASSUME NEW q \in UpgradeRequests, req'[q].step \in {"mark", "txn"}
       PROVE  Upgrade!Sends(q)'
  BY <1>11, NextStepOps DEF StepOps, Upgrade!Sends
<1>. QED
  BY <1>7, <1>8, <1>9, <1>10, <1>11 DEF SentInv

LEMMA UpgradeInvariance == Upgrade!UpgradeSpec => []UpgradeInv
<1>1. UpgradeInv /\ [Upgrade!UpgradeNext]_(Upgrade!upgradeVars) => UpgradeInv'
  BY NextUpgradeTypes, NextStepOps, NextLevelInv, NextWishInv, NextNewRoomInv, NextTombstoneInv,
     NextAliasInv, NextSentInv DEF UpgradeInv
<1>. QED
  BY InitUpgradeInv, <1>1, PTL DEF Upgrade!UpgradeSpec

LEMMA InvAnswersHold == UpgradeInv => Upgrade!AnswersHold
<1>. SUFFICES ASSUME UpgradeInv PROVE Upgrade!AnswersHold
  OBVIOUS
<1>1. Upgrade!AnsweredIsDone
  BY DEF UpgradeInv, SentInv, Upgrade!AnsweredIsDone, Stored
<1>2. ASSUME NEW q \in UpgradeRequests, req[q].op = "upgrade", req[q].result = "ok"
      PROVE  LET new == rooms[q] IN
             /\ req[q].user \in new.joined \cap new.rows
             /\ new.rule # None /\ new.rest
             /\ new.power.level[req[q].user] >= new.power.tombstone
             /\ q \in muted \/ (new.power.eventsDefault = 0 /\ new.power.invite = 0)
             /\ rooms[OldRoom].tombstone \in Upgrade!Upgrades
             /\ Upgrade!Upgrades = {q} => rooms[OldRoom].tombstone = q
                 /\ \A a \in Aliases : alias[a] # OldRoom
  <2>. \A steps : Past(q, steps)
    BY <1>2 DEF Past
  <2>1. /\ req[q].user \in rooms[q].joined \cap rooms[q].rows
        /\ rooms[q].rule # None /\ rooms[q].rest /\ rooms[q].power = req[q].levels
    BY UpgradeAssumption DEF UpgradeInv, NewRoomInv
  <2>2. /\ req[q].levels.level[req[q].user] >= req[q].levels.tombstone
        /\ q \in muted \/ (req[q].levels.eventsDefault = 0 /\ req[q].levels.invite = 0)
    BY DEF UpgradeInv, LevelInv
  <2>3. rooms[OldRoom].tombstone \in Upgrade!Upgrades
    BY DEF UpgradeInv, TombstoneInv, Upgrade!Upgrades
  <2>4. \A a \in Aliases : alias[a] # OldRoom
    BY <1>2 DEF UpgradeInv, AliasInv
  <2>. QED
    BY <2>1, <2>2, <2>3, <2>4
<1>3. Upgrade!ReplacementReady
  BY <1>2 DEF Upgrade!ReplacementReady, Upgrade!Upgrades
<1>. QED
  BY <1>1, <1>3 DEF Upgrade!AnswersHold

LEMMA LevelsAreKept == UpgradeInv => Upgrade!UpgradeKeepsLevels
BY DEF UpgradeInv, WishInv, Upgrade!UpgradeKeepsLevels

-----------------------------------------------------------------------------
(* Cardinality is the same in every part. *)
LEMMA SameSize ==
  ASSUME NEW S
  PROVE  History!Cardinality(S) = Cardinality(S) /\ Directory!Cardinality(S) = Cardinality(S)
BY DEF Cardinality, History!Cardinality, Directory!Cardinality

(* Sets that are sorted by the number of elements below each. *)

(* Rows sorted by rank. *)
Ordering(S, below) ==
  /\ IsFiniteSet(S) /\ below \in [S -> SUBSET S]
  /\ \A a \in S : a \notin below[a]
  /\ \A a, b \in S : a # b => a \in below[b] \/ b \in below[a]
  /\ \A a, b, c \in S : a \in below[b] /\ b \in below[c] => a \in below[c]

LEMMA RankGrows ==
  ASSUME NEW S, NEW below, Ordering(S, below), NEW a \in S, NEW b \in S, a \in below[b]
  PROVE  /\ Cardinality(below[a]) \in Nat /\ Cardinality(below[b]) \in Nat
         /\ Cardinality(below[a]) < Cardinality(below[b])
         /\ b \notin below[a]
<1>1. below[a] \subseteq below[b] /\ a \notin below[a] /\ b \notin below[a]
  BY DEF Ordering
<1>2. IsFiniteSet(S) /\ below[a] \in SUBSET S /\ below[b] \in SUBSET S
  BY DEF Ordering
<1>3. IsFiniteSet(below[b]) /\ IsFiniteSet(below[a])
  BY <1>2, FS_Subset
<1>4. Cardinality(below[a]) \in Nat /\ Cardinality(below[b]) \in Nat
  BY <1>3, FS_CardinalityType
<1>5. Cardinality(below[a]) <= Cardinality(below[b]) /\ Cardinality(below[a]) # Cardinality(below[b])
  BY <1>1, <1>3, FS_Subset
<1>. QED
  BY <1>1, <1>4, <1>5

LEMMA RankBounds ==
  ASSUME NEW S, NEW below, Ordering(S, below), NEW a \in S
  PROVE  Cardinality(S) \in Nat /\ Cardinality(below[a]) \in 0 .. (Cardinality(S) - 1)
<1>1. below[a] \in SUBSET S /\ a \notin below[a] /\ IsFiniteSet(S)
  BY DEF Ordering
<1>2. IsFiniteSet(below[a]) /\ Cardinality(below[a]) <= Cardinality(S) /\ Cardinality(below[a]) # Cardinality(S)
  BY <1>1, FS_Subset
<1>3. Cardinality(below[a]) \in Nat /\ Cardinality(S) \in Nat
  BY <1>1, <1>2, FS_CardinalityType
<1>. QED
  BY <1>2, <1>3

LEMMA RankTaken ==
  ASSUME NEW S, NEW below, Ordering(S, below), NEW i \in 1 .. Cardinality(S)
  PROVE  \E a \in S : Cardinality(below[a]) = i - 1
<1> DEFINE n == Cardinality(S)
           rank == [a \in S |-> Cardinality(below[a]) + 1]
<1>1. IsFiniteSet(S) /\ n \in Nat
  BY FS_CardinalityType DEF Ordering
<1>2. rank \in [S -> 1 .. n]
  BY <1>1, RankBounds
<1>3. \A a, b \in S : rank[a] = rank[b] => a = b
  <2>1. SUFFICES ASSUME NEW a \in S, NEW b \in S, rank[a] = rank[b], a # b PROVE FALSE
    OBVIOUS
  <2>2. a \in below[b] \/ b \in below[a]
    BY <2>1 DEF Ordering
  <2>3. Cardinality(below[a]) \in Nat /\ Cardinality(below[b]) \in Nat
    BY RankBounds
  <2>. QED
    BY <2>1, <2>2, <2>3, RankGrows
<1>. HIDE DEF rank
<1>4. rank \in Injection(S, 1 .. n)
  BY <1>2, <1>3 DEF Injection, IsInjective
<1>5. IsFiniteSet(1 .. n) /\ Cardinality(1 .. n) = n
  BY <1>1, FS_Interval
<1>6. rank \in Surjection(S, 1 .. n)
  BY <1>4, <1>5, FS_Injection
<1>7. PICK a \in S : rank[a] = i
  BY <1>6 DEF Surjection
<1>8. Cardinality(below[a]) \in Nat /\ rank[a] = Cardinality(below[a]) + 1
  BY RankBounds DEF rank
<1>. QED
  BY <1>7, <1>8

(* The first of a set by rank. *)
ByRank(S, below, n) == [i \in 1 .. n |-> CHOOSE a \in S : Cardinality(below[a]) = i - 1]

LEMMA RankOrder ==
  ASSUME NEW S, NEW below, Ordering(S, below), NEW n \in Nat, n <= Cardinality(S),
         NEW s, s = ByRank(S, below, n)
  PROVE  /\ s \in Seq(S) /\ Len(s) = n
         /\ \A i \in 1 .. n : s[i] \in S /\ Cardinality(below[s[i]]) = i - 1
         /\ \A i \in 1 .. n : \A a \in S : Cardinality(below[a]) = i - 1 => a = s[i]
         /\ \A i, j \in 1 .. n : i < j => s[i] \in below[s[j]]
<1>1. \A i \in 1 .. n : i \in 1 .. Cardinality(S)
  BY FS_CardinalityType DEF Ordering
<1>2. ASSUME NEW i \in 1 .. n PROVE s[i] \in S /\ Cardinality(below[s[i]]) = i - 1
  <2>1. \E a \in S : Cardinality(below[a]) = i - 1
    BY <1>1, RankTaken
  <2>2. s[i] = CHOOSE a \in S : Cardinality(below[a]) = i - 1
    BY DEF ByRank
  <2>. QED
    BY <2>1, <2>2
<1>3. s \in [1 .. n -> S]
  BY <1>2 DEF ByRank
<1>4. s \in Seq(S) /\ Len(s) = n
  BY <1>3
<1>5. ASSUME NEW i \in 1 .. n, NEW a \in S, Cardinality(below[a]) = i - 1 PROVE a = s[i]
  <2>1. SUFFICES ASSUME a # s[i] PROVE FALSE
    OBVIOUS
  <2>2. s[i] \in S /\ Cardinality(below[s[i]]) = i - 1
    BY <1>2
  <2>3. a \in below[s[i]] \/ s[i] \in below[a]
    BY <2>1, <2>2 DEF Ordering
  <2>. QED
    BY <1>5, <2>2, <2>3, RankGrows
<1>6. ASSUME NEW i \in 1 .. n, NEW j \in 1 .. n, i < j PROVE s[i] \in below[s[j]]
  <2>1. s[i] \in S /\ Cardinality(below[s[i]]) = i - 1 /\ s[j] \in S /\ Cardinality(below[s[j]]) = j - 1
    BY <1>2
  <2>2. s[i] # s[j]
    BY <2>1, <1>6
  <2>3. s[i] \in below[s[j]] \/ s[j] \in below[s[i]]
    BY <2>1, <2>2 DEF Ordering
  <2>4. s[j] \notin below[s[i]]
    BY <2>1, <1>6, RankGrows
  <2>. QED
    BY <2>3, <2>4
<1>. QED
  BY <1>2, <1>4, <1>5, <1>6

-----------------------------------------------------------------------------
(* RoomHistory: pages of events. *)

(* A page in the order of a key: the lowest first. *)
LEMMA LowerOrders ==
  ASSUME NEW S \in SUBSET Nat, IsFiniteSet(S), NEW key, \A e \in S : key[e] \in Nat
  PROVE  Ordering(S, [e \in S |-> History!Lower(S, key, e)])
<1>1. [e \in S |-> History!Lower(S, key, e)] \in [S -> SUBSET S]
  BY DEF History!Lower
<1>2. \A a, b \in S : a \in History!Lower(S, key, b) <=> key[a] < key[b] \/ (key[a] = key[b] /\ a < b)
  BY DEF History!Lower
<1>. QED
  BY <1>1, <1>2 DEF Ordering

LEMMA AscendingPage ==
  ASSUME NEW S \in SUBSET Nat, IsFiniteSet(S), NEW key, \A e \in S : key[e] \in Nat,
         NEW n \in Nat, NEW page, page = History!Ascending(S, key, n)
  PROVE  /\ page \in Seq(S) /\ History!ToSet(page) \subseteq S
         /\ n # 0 /\ page = <<>> => S = {}
         /\ page # <<>> =>
              /\ History!Last(page) \in History!ToSet(page)
              /\ \A e \in History!ToSet(page) : key[e] <= key[History!Last(page)]
              /\ \A e \in S \ History!ToSet(page) : key[e] >= key[History!Last(page)]
<1> DEFINE below == [e \in S |-> History!Lower(S, key, e)]
           m == IF Cardinality(S) < n THEN Cardinality(S) ELSE n
<1>1. Ordering(S, below)
  BY LowerOrders
<1>2. Cardinality(S) \in Nat
  BY FS_CardinalityType
<1>3. m \in Nat /\ m <= Cardinality(S) /\ (m = Cardinality(S) \/ m = n)
  BY <1>2
<1>4. page = ByRank(S, below, m)
  BY SameSize DEF History!Ascending, History!Cut, ByRank
<1>5. \A a, b \in S : a \in below[b] => key[a] <= key[b]
  BY DEF History!Lower
<1>10. \A a \in S : a \notin below[a] /\ \A b \in S : a # b => a \in below[b] \/ b \in below[a]
  BY <1>1 DEF Ordering
<1>11. \A a \in S : Cardinality(below[a]) \in 0 .. (Cardinality(S) - 1)
  BY <1>1, RankBounds
<1>. HIDE DEF below, m
<1>6. /\ page \in Seq(S) /\ Len(page) = m
      /\ \A i \in 1 .. m : page[i] \in S /\ Cardinality(below[page[i]]) = i - 1
      /\ \A i \in 1 .. m : \A a \in S : Cardinality(below[a]) = i - 1 => a = page[i]
      /\ \A i, j \in 1 .. m : i < j => page[i] \in below[page[j]]
  BY <1>1, <1>3, <1>4, RankOrder
<1>7. DOMAIN page = 1 .. m /\ History!ToSet(page) \subseteq S
  BY <1>6, <1>3 DEF History!ToSet
<1>8. ASSUME n # 0, page = <<>> PROVE S = {}
  BY <1>8, <1>6, <1>3, FS_EmptySet
<1>9. ASSUME page # <<>>
      PROVE  /\ History!Last(page) \in History!ToSet(page)
             /\ \A e \in History!ToSet(page) : key[e] <= key[History!Last(page)]
             /\ \A e \in S \ History!ToSet(page) : key[e] >= key[History!Last(page)]
  <2>1. m \in 1 .. m /\ History!Last(page) = page[m] /\ page[m] \in S
    BY <1>9, <1>6, <1>3 DEF History!Last
  <2>2. page[m] \in History!ToSet(page)
    BY <2>1, <1>7 DEF History!ToSet
  <2>3. ASSUME NEW e \in History!ToSet(page) PROVE key[e] <= key[page[m]]
    <3>1. PICK i \in 1 .. m : e = page[i]
      BY <1>7 DEF History!ToSet
    <3>2. i = m \/ i < m
      BY <1>3
    <3>3. page[m] \in S /\ page[i] \in S
      BY <2>1, <1>6
    <3>4. key[page[m]] \in Nat
      BY <3>3
    <3>5. CASE i = m
      BY <3>5, <3>1, <3>4
    <3>6. CASE i < m
      BY <3>6, <3>1, <3>3, <2>1, <1>6, <1>5
    <3>. QED
      BY <3>2, <3>5, <3>6
  <2>4. ASSUME NEW e \in S, e \notin History!ToSet(page) PROVE key[e] >= key[page[m]]
    <3>1. e # page[m]
      BY <2>2, <2>4
    <3>2. SUFFICES ASSUME e \in below[page[m]] PROVE FALSE
      <4>1. e \in below[page[m]] \/ page[m] \in below[e]
        BY <3>1, <2>1, <1>10
      <4>. QED
        BY <4>1, <2>1, <1>5
    <3>3. Cardinality(below[e]) < m - 1 /\ Cardinality(below[e]) \in Nat
      BY <3>2, <2>1, <1>1, <1>6, RankGrows
    <3> DEFINE i == Cardinality(below[e]) + 1
    <3>4. i \in 1 .. m
      BY <3>3, <1>3
    <3>5. e = page[i]
      BY <3>4, <3>3, <1>6
    <3>. QED
      BY <3>4, <3>5, <2>4, <1>7 DEF History!ToSet
  <2>. QED
    BY <2>1, <2>2, <2>3, <2>4
<1>. QED
  BY <1>6, <1>7, <1>8, <1>9

(* A page in the order of a key: the highest first. *)
LEMMA HigherOrders ==
  ASSUME NEW S \in SUBSET Nat, IsFiniteSet(S), NEW key, \A e \in S : key[e] \in Nat
  PROVE  Ordering(S, [e \in S |-> History!Higher(S, key, e)])
<1>1. [e \in S |-> History!Higher(S, key, e)] \in [S -> SUBSET S]
  BY DEF History!Higher
<1>2. \A a, b \in S : a \in History!Higher(S, key, b) <=> key[a] > key[b] \/ (key[a] = key[b] /\ a < b)
  BY DEF History!Higher
<1>. QED
  BY <1>1, <1>2 DEF Ordering

LEMMA DescendingPage ==
  ASSUME NEW S \in SUBSET Nat, IsFiniteSet(S), NEW key, \A e \in S : key[e] \in Nat,
         NEW n \in Nat, NEW page, page = History!Descending(S, key, n)
  PROVE  /\ page \in Seq(S) /\ History!ToSet(page) \subseteq S
         /\ n # 0 /\ page = <<>> => S = {}
         /\ page # <<>> =>
              /\ History!Last(page) \in History!ToSet(page)
              /\ \A e \in History!ToSet(page) : key[e] >= key[History!Last(page)]
              /\ \A e \in S \ History!ToSet(page) : key[e] <= key[History!Last(page)]
<1> DEFINE below == [e \in S |-> History!Higher(S, key, e)]
           m == IF Cardinality(S) < n THEN Cardinality(S) ELSE n
<1>1. Ordering(S, below)
  BY HigherOrders
<1>2. Cardinality(S) \in Nat
  BY FS_CardinalityType
<1>3. m \in Nat /\ m <= Cardinality(S) /\ (m = Cardinality(S) \/ m = n)
  BY <1>2
<1>4. page = ByRank(S, below, m)
  BY SameSize DEF History!Descending, History!Cut, ByRank
<1>5. \A a, b \in S : a \in below[b] => key[a] >= key[b]
  BY DEF History!Higher
<1>10. \A a \in S : a \notin below[a] /\ \A b \in S : a # b => a \in below[b] \/ b \in below[a]
  BY <1>1 DEF Ordering
<1>11. \A a \in S : Cardinality(below[a]) \in 0 .. (Cardinality(S) - 1)
  BY <1>1, RankBounds
<1>. HIDE DEF below, m
<1>6. /\ page \in Seq(S) /\ Len(page) = m
      /\ \A i \in 1 .. m : page[i] \in S /\ Cardinality(below[page[i]]) = i - 1
      /\ \A i \in 1 .. m : \A a \in S : Cardinality(below[a]) = i - 1 => a = page[i]
      /\ \A i, j \in 1 .. m : i < j => page[i] \in below[page[j]]
  BY <1>1, <1>3, <1>4, RankOrder
<1>7. DOMAIN page = 1 .. m /\ History!ToSet(page) \subseteq S
  BY <1>6, <1>3 DEF History!ToSet
<1>8. ASSUME n # 0, page = <<>> PROVE S = {}
  BY <1>8, <1>6, <1>3, FS_EmptySet
<1>9. ASSUME page # <<>>
      PROVE  /\ History!Last(page) \in History!ToSet(page)
             /\ \A e \in History!ToSet(page) : key[e] >= key[History!Last(page)]
             /\ \A e \in S \ History!ToSet(page) : key[e] <= key[History!Last(page)]
  <2>1. m \in 1 .. m /\ History!Last(page) = page[m] /\ page[m] \in S
    BY <1>9, <1>6, <1>3 DEF History!Last
  <2>2. page[m] \in History!ToSet(page)
    BY <2>1, <1>7 DEF History!ToSet
  <2>3. ASSUME NEW e \in History!ToSet(page) PROVE key[e] >= key[page[m]]
    <3>1. PICK i \in 1 .. m : e = page[i]
      BY <1>7 DEF History!ToSet
    <3>2. i = m \/ i < m
      BY <1>3
    <3>3. page[m] \in S /\ page[i] \in S
      BY <2>1, <1>6
    <3>4. key[page[m]] \in Nat
      BY <3>3
    <3>5. CASE i = m
      BY <3>5, <3>1, <3>4
    <3>6. CASE i < m
      BY <3>6, <3>1, <3>3, <2>1, <1>6, <1>5
    <3>. QED
      BY <3>2, <3>5, <3>6
  <2>4. ASSUME NEW e \in S, e \notin History!ToSet(page) PROVE key[e] <= key[page[m]]
    <3>1. e # page[m]
      BY <2>2, <2>4
    <3>2. SUFFICES ASSUME e \in below[page[m]] PROVE FALSE
      <4>1. e \in below[page[m]] \/ page[m] \in below[e]
        BY <3>1, <2>1, <1>10
      <4>. QED
        BY <4>1, <2>1, <1>5
    <3>3. Cardinality(below[e]) < m - 1 /\ Cardinality(below[e]) \in Nat
      BY <3>2, <2>1, <1>1, <1>6, RankGrows
    <3> DEFINE i == Cardinality(below[e]) + 1
    <3>4. i \in 1 .. m
      BY <3>3, <1>3
    <3>5. e = page[i]
      BY <3>4, <3>3, <1>6
    <3>. QED
      BY <3>4, <3>5, <2>4, <1>7 DEF History!ToSet
  <2>. QED
    BY <2>1, <2>2, <2>3, <2>4
<1>. QED
  BY <1>6, <1>7, <1>8, <1>9

(* The stream positions: no greater than the number of events that are stored, and for an event that is not, than
   the number with it. *)
StoredOnce ==
  /\ stored \in SUBSET Events /\ position \in [Events -> Nat]
  /\ \A e \in stored : position[e] <= Cardinality(stored) /\ (position[e] = 0 <=> e \in Unordered)
  /\ \A e \in Events \ stored : position[e] <= Cardinality(stored) + 1 /\ (e \in Unordered => position[e] = 0)

LEMMA StoredBounds ==
  ASSUME StoredOnce
  PROVE  /\ stored \subseteq Events /\ IsFiniteSet(stored) /\ stored \subseteq Nat
         /\ Cardinality(stored) \in Nat /\ Cardinality(stored) <= Cardinality(Events)
<1>1. stored \subseteq Events
  BY DEF StoredOnce
<1>. QED
  BY <1>1, HistoryAssumption, FS_Subset, FS_CardinalityType

LEMMA PositionBounds ==
  ASSUME StoredOnce, NEW e \in stored
  PROVE  /\ position[e] \in Nat /\ position[e] <= Cardinality(Events)
         /\ position[e] = 0 <=> e \in Unordered
<1>1. Cardinality(Events) \in Nat
  BY HistoryAssumption, FS_CardinalityType
<1>. QED
  BY <1>1, StoredBounds DEF StoredOnce

(* The highest of the positions is there. *)
LEMMA HighestPosition ==
  ASSUME NEW S \in SUBSET Nat, S # {}, NEW n \in Nat, \A x \in S : x <= n
  PROVE  History!Max(S) \in S /\ \A x \in S : x <= History!Max(S)
<1> DEFINE Above(x) == (x + 1) .. n
           All == {Above(x) : x \in S}
<1>1. ASSUME NEW x \in S PROVE Above(x) \in FiniteSubsetsOf(Nat)
  BY FS_Interval DEF FiniteSubsetsOf
<1>2. \E x \in All : \A y \in All : ~(<<y, x>> \in StrictSubsetOrdering(Nat))
  <2>1. All \subseteq FiniteSubsetsOf(Nat) /\ All # {}
    BY <1>1
  <2>. HIDE DEF All
  <2>. QED
    BY <2>1, FS_StrictSubsetOrderingWellFounded, WFMin
<1>3. PICK x \in S : \A y \in All : ~(<<y, Above(x)>> \in StrictSubsetOrdering(Nat))
  BY <1>2
<1>4. ASSUME NEW y \in S, x < y PROVE FALSE
  <2>1. Above(y) \subseteq Above(x) /\ Above(x) \subseteq Nat
    BY <1>4
  <2>2. y \in Above(x) /\ y \notin Above(y)
    BY <1>4
  <2>3. <<Above(y), Above(x)>> \in StrictSubsetOrdering(Nat)
    BY <2>1, <2>2 DEF StrictSubsetOrdering
  <2>. QED
    BY <1>3, <2>3
<1>5. \A y \in S : x >= y
  BY <1>4
<1>6. \E z \in S : \A y \in S : z >= y
  BY <1>5
<1>. QED
  BY <1>6 DEF History!Max

(* SELECT MAX: what is stored stays as it is. *)
LEMMA ReadOrderingKeeps ==
  ASSUME StoredOnce, NEW f \in Events, History!ReadOrdering(f)
  PROVE  /\ StoredOnce' /\ stored' = stored /\ reader' = reader
         /\ \A e \in stored : position'[e] = position[e]
<1> DEFINE S == {position[e] : e \in stored} \cup {0}
           m == History!Max(S)
<1>1. f \notin stored /\ f \notin Unordered /\ stored' = stored /\ reader' = reader
        /\ position' = [position EXCEPT ![f] = m + 1]
  BY DEF History!ReadOrdering
<1>2. S \in SUBSET Nat /\ S # {} /\ Cardinality(stored) \in Nat /\ \A x \in S : x <= Cardinality(stored)
  BY StoredBounds DEF StoredOnce
<1>. HIDE DEF S
<1>3. m \in S
  BY <1>2, HighestPosition
<1>4. m \in Nat /\ m <= Cardinality(stored)
  BY <1>2, <1>3
<1>. HIDE DEF m
<1>. QED
  BY <1>1, <1>2, <1>4 DEF StoredOnce

LEMMA StoreKeeps ==
  ASSUME StoredOnce, NEW f \in Events, History!StoreEvent(f)
  PROVE  /\ StoredOnce' /\ stored' = stored \cup {f} /\ reader' = reader
         /\ \A e \in stored : position'[e] = position[e]
<1>1. f \notin stored /\ (f \in Unordered \/ position[f] # 0) /\ stored' = stored \cup {f}
        /\ position' = position /\ reader' = reader
  BY DEF History!StoreEvent
<1>2. Cardinality(stored') = Cardinality(stored) + 1 /\ Cardinality(stored) \in Nat
  BY <1>1, StoredBounds, FS_AddElement
<1>. QED
  BY <1>1, <1>2 DEF StoredOnce

LEMMA InSequence ==
  ASSUME NEW S, IsFiniteSet(S)
  PROVE  History!SetToSeq(S) \in Seq(S) /\ History!ToSet(History!SetToSeq(S)) = S
<1> DEFINE n == Cardinality(S)
<1>1. n \in Nat /\ ExistsBijection(1 .. n, S)
  BY FS_CardinalityType
<1>2. \E f \in [1 .. n -> S] : IsInjective(f)
  BY <1>1 DEF ExistsBijection, Bijection, Injection
<1>3. History!SetToSeq(S) \in [1 .. n -> S] /\ IsInjective(History!SetToSeq(S))
  BY <1>2, SameSize DEF History!SetToSeq, History!IsInjective, IsInjective
<1>4. History!SetToSeq(S) \in Injection(1 .. n, S)
  BY <1>3 DEF Injection
<1>5. Cardinality(1 .. n) = n
  BY <1>1, FS_Interval
<1>. HIDE DEF n
<1>6. History!SetToSeq(S) \in Surjection(1 .. n, S)
  BY <1>4, <1>5, FS_Injection DEF n
<1>7. History!ToSet(History!SetToSeq(S)) = S
  BY <1>3, <1>6 DEF Surjection, History!ToSet
<1>. QED
  BY <1>1, <1>3, <1>7

(* A request has these fields, by its kind. *)
ReaderTypes ==
  /\ reader = [op |-> reader.op, step |-> reader.step, dir |-> reader.dir, limit |-> reader.limit,
               token |-> reader.token, target |-> reader.target, first |-> reader.first,
               earliest |-> reader.earliest, from |-> reader.from, todo |-> reader.todo,
               visited |-> reader.visited, seen |-> reader.seen, base |-> reader.base, again |-> reader.again,
               cuts |-> reader.cuts]
  /\ reader.base \subseteq stored
  /\ reader.op = "messages" =>
       /\ reader.step \in {"page", "done"} /\ reader.dir \in {"b", "f"} /\ reader.limit \in PageLimits
       /\ reader.token \in Nat /\ reader.seen \subseteq stored /\ reader.again \in BOOLEAN
  /\ reader.op = "context" =>
       /\ reader.step \in {"before", "after", "around", "done"} /\ reader.limit \in PageLimits
       /\ reader.step \in {"before", "after"} => reader.target \in stored
       /\ reader.step = "around" /\ reader.token # 0 =>
            reader.token \in Nat /\ reader.token > Cardinality(Events)
       /\ reader.step = "after" /\ reader.token # 0 =>
            reader.token \in Nat /\ reader.token > Cardinality(Events)
  /\ reader.op = "backfill" =>
       /\ reader.step \in {"page", "done"} /\ reader.limit \in PageLimits
       /\ reader.target \in stored \cup {0} /\ reader.from \in stored \cup {0}
       /\ reader.seen \subseteq stored
  /\ reader.op \in {"missing", "auth", "state"} =>
       /\ reader.step \in {"walk", "done"} /\ reader.todo \in Seq(Events)
       /\ reader.seen \subseteq Events /\ reader.limit \in Nat
  /\ reader.op = "none" => reader.step = "none"
  /\ reader.op = "state_ids" => reader.step = "done"
  /\ reader.op = "relations" => reader.step = "failed"
  /\ reader.op \in {"none", "messages", "context", "backfill", "missing", "auth", "state",
                    "state_ids", "relations"}

(* An event is in a page, or shares its position with the last event of one. *)
Has(e) == e \in reader.seen \/ position[e] \in reader.cuts

(* What is not in the pages yet is beyond the token, and what is in them is not, unless an event
   without a position was. *)
PagingInv ==
  reader.op = "messages" =>
    /\ reader.dir = "f" =>
         \A e \in reader.base \ Unordered : Has(e) \/ position[e] > reader.token
    /\ reader.dir = "b" =>
         \A e \in reader.base \ Unordered :
           Has(e) \/ reader.token = 0 \/ position[e] < reader.token
    /\ reader.seen \cap Unordered = {} =>
         \A e \in reader.seen :
           /\ reader.token # 0
           /\ reader.dir = "f" => position[e] <= reader.token
           /\ reader.dir = "b" => position[e] >= reader.token
    /\ reader.step = "done" => \A e \in reader.base \ Unordered : Has(e)
    /\ reader.again => reader.seen \cap Unordered # {}

(* What is below the first event and of no depth that was sent is below the last event that was. *)
BackfillInv ==
  reader.op = "backfill" =>
    \A e \in reader.base : (reader.from # 0 => Depth[e] < Depth[reader.from]) =>
      \/ \E f \in reader.seen : Depth[f] = Depth[e]
      \/ reader.step = "page" /\ (reader.target # 0 => Depth[e] < Depth[reader.target])

(* What a walk refers to is sent, left out on purpose, or still to be looked up. *)
WalkInv ==
  reader.op \in {"missing", "auth", "state"} =>
    /\ reader.base \cap reader.visited \subseteq reader.seen \cup reader.earliest
    /\ reader.step = "walk" \/ Cardinality(reader.seen) < reader.limit =>
         LET wanted == reader.first \cup UNION {History!References(reader.op, e) : e \in reader.seen} IN
         reader.base \cap wanted \subseteq reader.seen \cup reader.earliest \cup History!ToSet(reader.todo)
    /\ reader.step = "done" => reader.todo = <<>> \/ ~(Cardinality(reader.seen) < reader.limit)

HistoryInv == StoredOnce /\ ReaderTypes /\ PagingInv /\ BackfillInv /\ WalkInv

LEMMA HistoryBegins == History!HistoryInit => HistoryInv
<1>. SUFFICES ASSUME History!HistoryInit PROVE HistoryInv
  OBVIOUS
<1>1. PICK e \in Events \ Unordered : stored = {e} /\ position = [f \in Events |-> IF f = e THEN 1 ELSE 0]
  BY DEF History!HistoryInit
<1>2. StoredOnce
  <2>1. Cardinality(stored) = 1
    BY <1>1, FS_Singleton
  <2>. QED
    BY <1>1, <2>1 DEF StoredOnce
<1>3. reader = History!NoReader
  BY DEF History!HistoryInit
<1>4. ReaderTypes
  BY <1>3 DEF History!NoReader, ReaderTypes
<1>. QED
  BY <1>2, <1>3, <1>4 DEF HistoryInv, History!NoReader, PagingInv, BackfillInv, WalkInv

(* Another event leaves everything a request knows of earlier ones as it is. *)
LEMMA StoreEventKeeps ==
  ASSUME HistoryInv, NEW f \in Events, History!ReadOrdering(f) \/ History!StoreEvent(f)
  PROVE  HistoryInv'
<1>1. /\ StoredOnce' /\ stored \subseteq stored' /\ reader' = reader
      /\ \A e \in stored : position'[e] = position[e]
  BY ReadOrderingKeeps, StoreKeeps DEF HistoryInv
<1>2. ReaderTypes'
  BY <1>1 DEF HistoryInv, ReaderTypes
<1>3. PagingInv'
  <2>1. SUFFICES ASSUME reader.op = "messages" PROVE PagingInv'
    BY <1>1 DEF PagingInv
  <2>2. reader.base \subseteq stored /\ reader.seen \subseteq stored
    BY <2>1 DEF HistoryInv, ReaderTypes
  <2>. QED
    BY <1>1, <2>1, <2>2 DEF HistoryInv, PagingInv, Has
<1>4. BackfillInv' /\ WalkInv'
  BY <1>1 DEF HistoryInv, BackfillInv, WalkInv, History!References
<1>. QED
  BY <1>1, <1>2, <1>3, <1>4 DEF HistoryInv

(* Readers change nothing. *)
LEMMA SameStored ==
  ASSUME stored' = stored /\ position' = position
  PROVE  StoredOnce <=> StoredOnce'
BY SameSize DEF StoredOnce

(* A request begins with what is stored, and knows nothing of it. *)
LEMMA ReaderBegins ==
  ASSUME NEW op, NEW limit
  PROVE  History!Request(op, limit) =
           [op |-> op, step |-> "page", dir |-> "b", limit |-> limit, token |-> 0, target |-> 0, first |-> {},
            earliest |-> {}, from |-> 0, todo |-> <<>>, visited |-> {}, seen |-> {}, base |-> stored,
              again |-> FALSE, cuts |-> {}]
<1>1. PICK none : none = History!NoReader
  OBVIOUS
<1>2. none = [op |-> "none", step |-> "none", dir |-> "b", limit |-> 0, token |-> 0, target |-> 0,
             first |-> {}, earliest |-> {}, from |-> 0, todo |-> <<>>, visited |-> {}, seen |-> {},
               base |-> {}, again |-> FALSE, cuts |-> {}]
  BY <1>1 DEF History!NoReader
<1>3. History!Request(op, limit) = [none EXCEPT !.op = op, !.step = "page", !.limit = limit,
        !.base = stored]
  BY <1>1 DEF History!Request
<1>. QED
  BY <1>2, <1>3

LEMMA OpenMessagesKeeps ==
  ASSUME HistoryInv, NEW dir \in {"b", "f"}, NEW limit \in PageLimits, History!OpenMessages(dir, limit)
  PROVE  HistoryInv'
<1>1. StoredOnce' /\ stored' = stored /\ position' = position
      /\ reader' = [op |-> "messages", step |-> "page", dir |-> dir, limit |-> limit, token |-> 0, target |-> 0,
           first |-> {}, earliest |-> {}, from |-> 0, todo |-> <<>>, visited |-> {}, seen |-> {},
             base |-> stored,
           again |-> FALSE, cuts |-> {}]
  <2>1. stored' = stored /\ position' = position /\ reader' = [History!Request("messages", limit) EXCEPT !.dir = dir]
    BY DEF History!OpenMessages
  <2>2. PICK r : r = History!Request("messages", limit)
    OBVIOUS
  <2>3. r = [op |-> "messages", step |-> "page", dir |-> "b", limit |-> limit, token |-> 0, target |-> 0,
          first |-> {},
             earliest |-> {}, from |-> 0, todo |-> <<>>, visited |-> {}, seen |-> {}, base |-> stored,
               again |-> FALSE, cuts |-> {}]
    BY <2>2, ReaderBegins
  <2>4. reader' = [r EXCEPT !.dir = dir]
    BY <2>1, <2>2
  <2>. QED
    BY <2>1, <2>3, <2>4, SameStored DEF HistoryInv
<1>2. ReaderTypes'
  BY <1>1 DEF ReaderTypes
<1>3. PagingInv'
  <2>1. \A e \in stored \ Unordered : position[e] > 0
    BY PositionBounds DEF HistoryInv
  <2>. QED
    BY <1>1, <2>1 DEF PagingInv
<1>4. BackfillInv' /\ WalkInv'
  BY <1>1 DEF BackfillInv, WalkInv
<1>. QED
  BY <1>1, <1>2, <1>3, <1>4 DEF HistoryInv

(* A page of messages. *)
LEMMA MessagesKeeps ==
  ASSUME HistoryInv, History!Messages
  PROVE  HistoryInv'
<1> DEFINE page == History!GetRoomEvents(reader.dir, reader.token, reader.limit)
           back == {e \in stored : reader.token # 0 => position[e] # 0 /\ position[e] < reader.token}
           forth == {e \in stored : reader.token # 0 => position[e] > reader.token}
<1>1. reader.op = "messages" /\ reader.step = "page" /\ stored' = stored /\ position' = position
      /\ reader' = IF page = <<>> THEN [reader EXCEPT !.step = "done"]
                   ELSE [reader EXCEPT !.token = position[History!Last(page)],
                     !.seen = @ \cup History!ToSet(page),
                                       !.again = @ \/ History!ToSet(page) \cap reader.seen # {},
                                       !.cuts = @ \cup {position[History!Last(page)]}]
  BY DEF History!Messages
<1>2. StoredOnce /\ StoredOnce' /\ stored' = stored /\ position' = position
  BY <1>1, SameStored DEF HistoryInv
<1>3. /\ reader.dir \in {"b", "f"} /\ reader.limit \in Nat /\ reader.limit # 0 /\ reader.token \in Nat
      /\ reader.seen \subseteq stored /\ reader.base \subseteq stored /\ reader.again \in BOOLEAN
  BY <1>1, HistoryAssumption DEF HistoryInv, ReaderTypes
<1>4. stored \in SUBSET Nat /\ IsFiniteSet(stored)
        /\ \A e \in stored : position[e] \in Nat /\ (position[e] = 0 <=> e \in Unordered)
  BY <1>2, StoredBounds, PositionBounds
<1>5. back \in SUBSET Nat /\ IsFiniteSet(back) /\ forth \in SUBSET Nat /\ IsFiniteSet(forth)
      /\ (\A e \in back : position[e] \in Nat) /\ (\A e \in forth : position[e] \in Nat)
  BY <1>4, FS_Subset
<1>6. /\ reader.dir = "f" => page = History!Ascending(forth, position, reader.limit)
      /\ reader.dir = "b" => page = History!Descending(back, position, reader.limit)
  BY <1>3 DEF History!GetRoomEvents
<1>. HIDE DEF back, forth, page
<1>7. reader.dir = "f" =>
        /\ History!ToSet(page) \subseteq forth /\ (page = <<>> => forth = {})
        /\ page # <<>> =>
             /\ History!Last(page) \in History!ToSet(page)
             /\ \A e \in History!ToSet(page) : position[e] <= position[History!Last(page)]
             /\ \A e \in forth \ History!ToSet(page) : position[e] >= position[History!Last(page)]
  BY <1>3, <1>5, <1>6, AscendingPage
<1>8. reader.dir = "b" =>
        /\ History!ToSet(page) \subseteq back /\ (page = <<>> => back = {})
        /\ page # <<>> =>
             /\ History!Last(page) \in History!ToSet(page)
             /\ \A e \in History!ToSet(page) : position[e] >= position[History!Last(page)]
             /\ \A e \in back \ History!ToSet(page) : position[e] <= position[History!Last(page)]
  BY <1>3, <1>5, <1>6, DescendingPage
<1>9. CASE page = <<>>
  <2>1. reader' = [reader EXCEPT !.step = "done"]
    BY <1>1, <1>9
  <2>2. ReaderTypes'
    BY <1>1, <1>2, <2>1 DEF HistoryInv, ReaderTypes
  <2>3. \A e \in reader.base \ Unordered : Has(e)
    <3>1. SUFFICES ASSUME NEW e \in reader.base \ Unordered, ~Has(e) PROVE FALSE
      OBVIOUS
    <3>2. CASE reader.dir = "f"
      <4>1. position[e] > reader.token
        BY <1>1, <3>1, <3>2 DEF HistoryInv, PagingInv
      <4>2. e \in forth
        BY <4>1, <3>1, <1>3 DEF forth
      <4>. QED
        BY <4>2, <1>7, <3>2, <1>9
    <3>3. CASE reader.dir = "b"
      <4>1. reader.token = 0 \/ position[e] < reader.token
        BY <1>1, <3>1, <3>3 DEF HistoryInv, PagingInv
      <4>2. e \in back
        BY <4>1, <3>1, <1>3, <1>4 DEF back
      <4>. QED
        BY <4>2, <1>8, <3>3, <1>9
    <3>. QED
      BY <1>3, <3>2, <3>3
  <2>4. PagingInv'
    BY <1>1, <1>2, <2>1, <2>3 DEF HistoryInv, PagingInv, ReaderTypes, Has
  <2>5. BackfillInv' /\ WalkInv'
    BY <1>1, <2>1 DEF HistoryInv, BackfillInv, WalkInv, ReaderTypes
  <2>. QED
    BY <1>2, <2>2, <2>4, <2>5 DEF HistoryInv
<1>10. CASE page # <<>>
  <2> DEFINE final == History!Last(page)
  <2>1. reader' = [reader EXCEPT !.token = position[final], !.seen = @ \cup History!ToSet(page),
                                 !.again = @ \/ History!ToSet(page) \cap reader.seen # {},
                                 !.cuts = @ \cup {position[final]}]
    BY <1>1, <1>10
  <2>2. History!ToSet(page) \subseteq stored /\ final \in History!ToSet(page) /\ final \in stored
    BY <1>3, <1>7, <1>8, <1>10 DEF forth, back
  <2>. HIDE DEF final
  <2>3. /\ reader'.op = "messages" /\ reader'.step = "page" /\ reader'.dir = reader.dir
           /\ reader'.base = reader.base
        /\ reader'.token = position[final] /\ reader'.seen = reader.seen \cup History!ToSet(page)
        /\ reader'.again = (reader.again \/ History!ToSet(page) \cap reader.seen # {})
        /\ reader'.cuts = reader.cuts \cup {position[final]}
    BY <2>1, <1>1 DEF HistoryInv, ReaderTypes
  <2>4. ReaderTypes'
    <3>1. position[final] \in Nat
      BY <2>2, <1>4
    <3>2. reader.seen \cup History!ToSet(page) \subseteq stored
      BY <2>2, <1>3
    <3>. QED
      BY <1>1, <1>2, <2>1, <2>3, <3>1, <3>2 DEF HistoryInv, ReaderTypes
  <2>5. reader.dir = "f" => \A e \in reader.base \ Unordered : Has(e)' \/ position[e] > reader'.token
    <3>1. SUFFICES ASSUME reader.dir = "f", NEW e \in reader.base \ Unordered, ~Has(e),
                            e \notin History!ToSet(page), position[e] # position[final]
                   PROVE  position[e] > position[final]
      BY <1>2, <2>3 DEF Has
    <3>2. position[e] > reader.token /\ e \in stored
      BY <1>1, <1>3, <3>1 DEF HistoryInv, PagingInv
    <3>3. position[e] >= position[final]
      BY <3>1, <3>2, <1>7, <1>10 DEF forth, final
    <3>4. position[e] \in Nat /\ position[final] \in Nat
      BY <3>2, <2>2, <1>4
    <3>. QED
      BY <3>1, <3>3, <3>4
  <2>6. reader.dir = "b" =>
          \A e \in reader.base \ Unordered : Has(e)' \/ reader'.token = 0
            \/ position[e] < reader'.token
    <3>1. SUFFICES ASSUME reader.dir = "b", NEW e \in reader.base \ Unordered, ~Has(e),
                            e \notin History!ToSet(page), position[e] # position[final],
                          position[final] # 0
                   PROVE  position[e] < position[final]
      BY <1>2, <2>3 DEF Has
    <3>2. (reader.token = 0 \/ position[e] < reader.token) /\ e \in stored
      BY <1>1, <1>3, <3>1 DEF HistoryInv, PagingInv
    <3>3. position[e] <= position[final]
      BY <3>1, <3>2, <1>4, <1>8, <1>10 DEF back, final
    <3>4. position[e] \in Nat /\ position[final] \in Nat
      BY <3>2, <2>2, <1>4
    <3>. QED
      BY <3>1, <3>3, <3>4
  <2>7. ASSUME reader'.seen \cap Unordered = {}
        PROVE  /\ \A e \in reader'.seen :
                    /\ reader'.token # 0
                    /\ reader.dir = "f" => position[e] <= reader'.token
                    /\ reader.dir = "b" => position[e] >= reader'.token
               /\ ~reader'.again
    <3>1. final \notin Unordered /\ reader.seen \cap Unordered = {} /\ History!ToSet(page) \cap Unordered = {}
      BY <2>7, <2>3, <2>2
    <3>2. position[final] # 0 /\ position[final] \in Nat
      BY <3>1, <2>2, <1>4
    <3>3. \A e \in reader.seen : /\ reader.token # 0 /\ e \in stored
                                 /\ reader.dir = "f" => position[e] <= reader.token
                                 /\ reader.dir = "b" => position[e] >= reader.token
      BY <1>1, <1>3, <3>1 DEF HistoryInv, PagingInv
    <3>4. ~reader.again
      BY <1>1, <3>1 DEF HistoryInv, PagingInv
    <3>5. CASE reader.dir = "f"
      <4>1. \A e \in History!ToSet(page) : e \in stored
              /\ (reader.token # 0 => position[e] > reader.token)
                 /\ position[e] <= position[final]
        BY <3>5, <1>7, <1>10 DEF forth, final
      <4>2. ASSUME NEW e \in reader.seen
            PROVE  e \notin History!ToSet(page) /\ position[e] <= position[final]
        <5>1. reader.token # 0 /\ e \in stored /\ position[e] <= reader.token
                /\ position[e] \in Nat
          BY <3>3, <3>5, <1>4
        <5>2. position[final] > reader.token
          BY <5>1, <4>1, <2>2
        <5>3. e \notin History!ToSet(page)
          BY <5>1, <4>1, <1>3
        <5>. QED
          BY <5>1, <5>2, <5>3, <3>2, <1>3
      <4>. QED
        BY <2>3, <3>2, <3>4, <3>5, <4>1, <4>2
    <3>6. CASE reader.dir = "b"
      <4>1. \A e \in History!ToSet(page) : e \in stored
              /\ (reader.token # 0 => position[e] < reader.token)
                 /\ position[e] >= position[final]
        BY <3>6, <1>8, <1>10 DEF back, final
      <4>2. ASSUME NEW e \in reader.seen
            PROVE  e \notin History!ToSet(page) /\ position[e] >= position[final]
        <5>1. reader.token # 0 /\ e \in stored /\ position[e] >= reader.token
                /\ position[e] \in Nat
          BY <3>3, <3>6, <1>4
        <5>2. position[final] < reader.token
          BY <5>1, <4>1, <2>2
        <5>3. e \notin History!ToSet(page)
          BY <5>1, <4>1, <1>3
        <5>. QED
          BY <5>1, <5>2, <5>3, <3>2, <1>3
      <4>. QED
        BY <2>3, <3>2, <3>4, <3>6, <4>1, <4>2
    <3>. QED
      BY <1>3, <3>5, <3>6
  <2>8. PagingInv'
    BY <1>2, <2>3, <2>5, <2>6, <2>7 DEF PagingInv
  <2>9. BackfillInv' /\ WalkInv'
    BY <2>3 DEF BackfillInv, WalkInv
  <2>. QED
    BY <1>2, <2>4, <2>8, <2>9 DEF HistoryInv
<1>. QED
  BY <1>9, <1>10

(* Paging, backfill and walks say nothing of another request. *)
OtherOps == {"none", "context", "state_ids", "relations"}
LEMMA OtherReadersKeep ==
  ASSUME HistoryInv, stored' = stored /\ position' = position, reader'.op \in OtherOps, ReaderTypes'
  PROVE  HistoryInv'
<1>1. StoredOnce'
  BY SameStored DEF HistoryInv
<1>. QED
  BY <1>1 DEF HistoryInv, OtherOps, PagingInv, BackfillInv, WalkInv

(* A jump finds an event that is stored, if it finds one. *)
LEMMA ClosestStored ==
  ASSUME StoredOnce, NEW dir \in {"b", "f"}, NEW ts \in Nat, History!Closest(dir, ts) # <<>>
  PROVE  History!Closest(dir, ts)[1] \in stored
<1> DEFINE after == {e \in stored : Ts[e] >= ts}
           before == {e \in stored : Ts[e] <= ts}
           page == History!Closest(dir, ts)
<1>1. after \in SUBSET Nat /\ IsFiniteSet(after) /\ before \in SUBSET Nat /\ IsFiniteSet(before)
      /\ (\A e \in after : Ts[e] \in Nat) /\ (\A e \in before : Ts[e] \in Nat)
  BY StoredBounds, HistoryAssumption, FS_Subset
<1>2. page = History!Ascending(after, Ts, 1) \/ page = History!Descending(before, Ts, 1)
  BY DEF History!Closest
<1>. HIDE DEF after, before, page
<1>3. page \in Seq(after) \/ page \in Seq(before)
  BY <1>1, <1>2, AscendingPage, DescendingPage
<1>4. page # <<>>
  BY DEF page
<1>5. page[1] \in after \/ page[1] \in before
  BY <1>3, <1>4
<1>. QED
  BY <1>5 DEF page, after, before

LEMMA JumpKeeps ==
  ASSUME HistoryInv, NEW dir \in {"b", "f"}, NEW e \in Events, NEW limit \in PageLimits,
         History!Jump(dir, Ts[e], limit)
  PROVE  HistoryInv'
<1>1. stored' = stored /\ position' = position
  BY DEF History!Jump
<1>2. PICK r : r = History!Request("context", limit)
  OBVIOUS
<1>3. r = [op |-> "context", step |-> "page", dir |-> "b", limit |-> limit, token |-> 0, target |-> 0,
        first |-> {},
           earliest |-> {}, from |-> 0, todo |-> <<>>, visited |-> {}, seen |-> {}, base |-> stored,
             again |-> FALSE, cuts |-> {}]
  BY <1>2, ReaderBegins
<1>4. PICK found : found = History!Closest(dir, Ts[e])
  OBVIOUS
<1>5. reader' = IF found = <<>> THEN [r EXCEPT !.step = "done"]
                ELSE [r EXCEPT !.step = "before", !.target = found[1]]
  BY <1>2, <1>4 DEF History!Jump
<1>6. found # <<>> => found[1] \in stored
  BY <1>4, ClosestStored, HistoryAssumption DEF HistoryInv
<1>7. stored' = stored /\ position' = position
  BY <1>1
<1>8. CASE found = <<>>
  <2>1. reader' = [op |-> "context", step |-> "done", dir |-> "b", limit |-> limit, token |-> 0, target |-> 0,
           first |-> {}, earliest |-> {}, from |-> 0, todo |-> <<>>, visited |-> {}, seen |-> {},
             base |-> stored,
           again |-> FALSE, cuts |-> {}]
    BY <1>3, <1>5, <1>8
  <2>2. ReaderTypes'
    BY <1>7, <2>1 DEF ReaderTypes
  <2>. QED
    BY <1>1, <2>1, <2>2, OtherReadersKeep DEF OtherOps
<1>9. CASE found # <<>>
  <2>1. reader' = [op |-> "context", step |-> "before", dir |-> "b", limit |-> limit, token |-> 0,
          target |-> found[1],
           first |-> {}, earliest |-> {}, from |-> 0, todo |-> <<>>, visited |-> {}, seen |-> {},
             base |-> stored,
           again |-> FALSE, cuts |-> {}]
    BY <1>3, <1>5, <1>9
  <2>2. ReaderTypes'
    BY <1>6, <1>7, <1>9, <2>1 DEF ReaderTypes
  <2>. QED
    BY <1>1, <2>1, <2>2, OtherReadersKeep DEF OtherOps
<1>. QED
  BY <1>8, <1>9

(* The token of /context is a time, above every position. *)
LEMMA ContextBeforeKeeps ==
  ASSUME HistoryInv, History!ContextBefore
  PROVE  HistoryInv'
<1> DEFINE before == {e \in stored : Ts[e] < Ts[reader.target]}
           page == History!Descending(before, Ts, reader.limit \div 2)
<1>1. /\ reader.op = "context" /\ reader.step = "before" /\ stored' = stored /\ position' = position
      /\ reader' = [reader EXCEPT !.step = "after", !.seen = {reader.target} \cup History!ToSet(page),
                                  !.token = IF page = <<>> THEN 0 ELSE Ts[History!Last(page)]]
  BY DEF History!ContextBefore
<1>2. reader.limit \div 2 \in Nat
  BY <1>1, HistoryAssumption DEF HistoryInv, ReaderTypes
<1>3. before \in SUBSET Nat /\ IsFiniteSet(before) /\ (\A e \in before : Ts[e] \in Nat)
        /\ before \subseteq Events
  BY StoredBounds, HistoryAssumption, FS_Subset DEF HistoryInv
<1>. HIDE DEF before
<1>4. History!ToSet(page) \subseteq before /\ (page # <<>> => History!Last(page) \in History!ToSet(page))
  BY <1>2, <1>3, DescendingPage
<1>5. page # <<>> => Ts[History!Last(page)] \in Nat /\ Ts[History!Last(page)] > Cardinality(Events)
  BY <1>3, <1>4, HistoryAssumption
<1>. HIDE DEF page
<1>6. PICK start : start = IF page = <<>> THEN 0 ELSE Ts[History!Last(page)]
  OBVIOUS
<1>7. start # 0 => start \in Nat /\ start > Cardinality(Events)
  BY <1>5, <1>6
<1>8. reader' = [reader EXCEPT !.step = "after", !.seen = {reader.target} \cup History!ToSet(page),
        !.token = start]
  BY <1>1, <1>6
<1>9. stored' = stored /\ position' = position
  BY <1>1
<1>10. ReaderTypes'
  BY <1>1, <1>7, <1>8, <1>9 DEF HistoryInv, ReaderTypes
<1>11. reader'.op = "context"
  BY <1>1, <1>8 DEF HistoryInv, ReaderTypes
<1>. QED
  BY <1>1, <1>10, <1>11, OtherReadersKeep DEF OtherOps

LEMMA ContextAfterKeeps ==
  ASSUME HistoryInv, History!ContextAfter
  PROVE  HistoryInv'
<1>1. reader.op = "context" /\ reader.step = "after" /\ stored' = stored /\ position' = position
  BY DEF History!ContextAfter
<1>2. PICK page : reader' = [reader EXCEPT !.step = "around", !.seen = @ \cup History!ToSet(page)]
  BY DEF History!ContextAfter
<1>3. stored' = stored /\ position' = position
  BY <1>1
<1>4. ReaderTypes'
  BY <1>1, <1>2, <1>3 DEF HistoryInv, ReaderTypes
<1>5. reader'.op = "context"
  BY <1>1, <1>2 DEF HistoryInv, ReaderTypes
<1>. QED
  BY <1>1, <1>4, <1>5, OtherReadersKeep DEF OtherOps

LEMMA PageFromContextKeeps ==
  ASSUME HistoryInv, History!PageFromContext
  PROVE  HistoryInv'
<1>1. reader.step = "around" /\ reader.token # 0 /\ stored' = stored /\ position' = position
      /\ reader' = [History!Request("messages", reader.limit) EXCEPT !.token = reader.token]
  BY DEF History!PageFromContext
<1>2. reader.op = "context"
  BY <1>1 DEF HistoryInv, ReaderTypes
<1>3. reader.limit \in PageLimits /\ reader.token \in Nat /\ reader.token > Cardinality(Events)
  BY <1>1, <1>2 DEF HistoryInv, ReaderTypes
<1>4. PICK r, limit, start : r = History!Request("messages", limit) /\ limit = reader.limit
             /\ start = reader.token
  OBVIOUS
<1>5. r = [op |-> "messages", step |-> "page", dir |-> "b", limit |-> limit, token |-> 0, target |-> 0,
        first |-> {},
           earliest |-> {}, from |-> 0, todo |-> <<>>, visited |-> {}, seen |-> {}, base |-> stored,
             again |-> FALSE, cuts |-> {}]
  BY <1>4, ReaderBegins
<1>6. reader' = [r EXCEPT !.token = start]
  BY <1>1, <1>4
<1>7. reader' = [op |-> "messages", step |-> "page", dir |-> "b", limit |-> limit, token |-> start,
        target |-> 0,
         first |-> {}, earliest |-> {}, from |-> 0, todo |-> <<>>, visited |-> {}, seen |-> {},
           base |-> stored, again |-> FALSE, cuts |-> {}]
  BY <1>5, <1>6
<1>8. StoredOnce' /\ stored' = stored /\ position' = position
  BY <1>1, SameStored DEF HistoryInv
<1>9. ReaderTypes'
  BY <1>3, <1>4, <1>7, <1>8 DEF ReaderTypes
<1>10. \A e \in stored : position[e] < start
  <2>1. \A e \in stored : position[e] \in Nat /\ position[e] <= Cardinality(Events)
    BY PositionBounds DEF HistoryInv
  <2>2. Cardinality(Events) \in Nat
    BY HistoryAssumption, FS_CardinalityType
  <2>. QED
    BY <2>1, <2>2, <1>3, <1>4
<1>11. PagingInv'
  BY <1>7, <1>8, <1>10 DEF PagingInv
<1>. QED
  BY <1>7, <1>8, <1>9, <1>11 DEF HistoryInv, BackfillInv, WalkInv

LEMMA RelationsKeeps ==
  ASSUME HistoryInv, History!Relations
  PROVE  HistoryInv'
<1>1. stored' = stored /\ position' = position /\ reader' = [History!Request("relations", 0) EXCEPT !.step = "failed"]
  BY DEF History!Relations
<1>2. PICK r : r = History!Request("relations", 0)
  OBVIOUS
<1>3. r = [op |-> "relations", step |-> "page", dir |-> "b", limit |-> 0, token |-> 0, target |-> 0,
        first |-> {},
           earliest |-> {}, from |-> 0, todo |-> <<>>, visited |-> {}, seen |-> {}, base |-> stored,
             again |-> FALSE, cuts |-> {}]
  BY <1>2, ReaderBegins
<1>4. reader' = [r EXCEPT !.step = "failed"]
  BY <1>1, <1>2
<1>5. reader' = [op |-> "relations", step |-> "failed", dir |-> "b", limit |-> 0, token |-> 0, target |-> 0,
        first |-> {},
           earliest |-> {}, from |-> 0, todo |-> <<>>, visited |-> {}, seen |-> {}, base |-> stored,
             again |-> FALSE, cuts |-> {}]
  BY <1>3, <1>4
<1>6. ReaderTypes'
  BY <1>1, <1>5 DEF ReaderTypes
<1>. QED
  BY <1>1, <1>5, <1>6, OtherReadersKeep DEF OtherOps

LEMMA CloseReaderKeeps ==
  ASSUME HistoryInv, History!Close
  PROVE  HistoryInv'
<1>1. stored' = stored /\ position' = position /\ reader' = History!NoReader
  BY DEF History!Close
<1>2. reader' = [op |-> "none", step |-> "none", dir |-> "b", limit |-> 0, token |-> 0, target |-> 0,
             first |-> {}, earliest |-> {}, from |-> 0, todo |-> <<>>, visited |-> {}, seen |-> {},
               base |-> {}, again |-> FALSE, cuts |-> {}]
  BY <1>1 DEF History!NoReader
<1>3. ReaderTypes'
  BY <1>2 DEF ReaderTypes
<1>. QED
  BY <1>1, <1>2, <1>3, OtherReadersKeep DEF OtherOps

LEMMA OpenBackfillKeeps ==
  ASSUME HistoryInv, NEW v, NEW limit \in PageLimits, History!OpenBackfill(v, limit)
  PROVE  HistoryInv'
<1>1. stored' = stored /\ position' = position /\ v \in stored \cup {0}
      /\ reader' = [History!Request("backfill", limit) EXCEPT !.target = v, !.from = v]
  BY DEF History!OpenBackfill
<1>2. PICK r : r = History!Request("backfill", limit)
  OBVIOUS
<1>3. r = [op |-> "backfill", step |-> "page", dir |-> "b", limit |-> limit, token |-> 0, target |-> 0,
        first |-> {},
           earliest |-> {}, from |-> 0, todo |-> <<>>, visited |-> {}, seen |-> {}, base |-> stored,
             again |-> FALSE, cuts |-> {}]
  BY <1>2, ReaderBegins
<1>4. reader' = [r EXCEPT !.target = v, !.from = v]
  BY <1>1, <1>2
<1>5. reader' = [op |-> "backfill", step |-> "page", dir |-> "b", limit |-> limit, token |-> 0, target |-> v,
           first |-> {}, earliest |-> {}, from |-> v, todo |-> <<>>, visited |-> {}, seen |-> {},
             base |-> stored, again |-> FALSE, cuts |-> {}]
  BY <1>3, <1>4
<1>6. StoredOnce' /\ stored' = stored /\ position' = position
  BY <1>1, SameStored DEF HistoryInv
<1>7. ReaderTypes'
  <2>1. v \in stored \cup {0}
    BY <1>1
  <2>. QED
    BY <2>1, <1>5, <1>6 DEF ReaderTypes
<1>8. BackfillInv'
  BY <1>5 DEF BackfillInv
<1>. QED
  BY <1>5, <1>6, <1>7, <1>8 DEF HistoryInv, PagingInv, WalkInv

LEMMA BackfillKeeps ==
  ASSUME HistoryInv, History!Backfill
  PROVE  HistoryInv'
<1> DEFINE rows == {e \in stored : reader.target # 0 => Depth[e] < Depth[reader.target]}
           page == History!BackfillPage(reader.target, reader.limit)
<1>1. reader.op = "backfill" /\ reader.step = "page" /\ stored' = stored /\ position' = position
      /\ reader' = IF page = <<>> THEN [reader EXCEPT !.step = "done"]
                   ELSE [reader EXCEPT !.target = History!Last(page), !.seen = @ \cup History!ToSet(page)]
  BY DEF History!Backfill
<1>2. reader.limit \in Nat /\ reader.limit # 0 /\ reader.target \in stored \cup {0}
        /\ reader.seen \subseteq stored
      /\ reader.base \subseteq stored
  BY <1>1, HistoryAssumption DEF HistoryInv, ReaderTypes
<1>3. rows \in SUBSET Nat /\ IsFiniteSet(rows) /\ (\A e \in rows : Depth[e] \in Nat)
        /\ (\A e \in stored : Depth[e] \in Nat)
  BY StoredBounds, HistoryAssumption, FS_Subset DEF HistoryInv
<1>4. page = History!Descending(rows, Depth, reader.limit)
  BY DEF History!BackfillPage
<1>. HIDE DEF rows, page
<1>5. /\ History!ToSet(page) \subseteq rows /\ (page = <<>> => rows = {})
      /\ page # <<>> =>
           /\ History!Last(page) \in History!ToSet(page)
           /\ \A e \in rows \ History!ToSet(page) : Depth[e] <= Depth[History!Last(page)]
  <2>1. reader.limit \in Nat /\ reader.limit # 0
    BY <1>2
  <2>2. rows \in SUBSET Nat /\ IsFiniteSet(rows) /\ (\A e \in rows : Depth[e] \in Nat)
    BY <1>3
  <2>3. PICK n, list : n = reader.limit /\ list = page
    OBVIOUS
  <2>4. n \in Nat /\ list = History!Descending(rows, Depth, n)
    BY <2>1, <2>3, <1>4
  <2>5. /\ History!ToSet(list) \subseteq rows /\ (n # 0 /\ list = <<>> => rows = {})
        /\ list # <<>> =>
             /\ History!Last(list) \in History!ToSet(list)
             /\ \A e \in rows \ History!ToSet(list) : Depth[e] <= Depth[History!Last(list)]
    BY <2>2, <2>4, DescendingPage
  <2>. QED
    BY <2>1, <2>3, <2>5
<1>6. StoredOnce' /\ stored' = stored /\ position' = position
  BY <1>1, SameStored DEF HistoryInv
<1>7. CASE page = <<>>
  <2>1. reader' = [reader EXCEPT !.step = "done"]
    BY <1>1, <1>7
  <2>2. ReaderTypes'
    BY <1>1, <1>6, <2>1 DEF HistoryInv, ReaderTypes
  <2>3. reader'.op = "backfill" /\ reader'.seen = reader.seen /\ reader'.base = reader.base
          /\ reader'.from = reader.from
    BY <1>1, <2>1 DEF HistoryInv, ReaderTypes
  <2>4. ASSUME NEW e \in reader.base, reader.from # 0 => Depth[e] < Depth[reader.from]
        PROVE  \E f \in reader.seen : Depth[f] = Depth[e]
    BY <1>1, <1>2, <1>5, <1>7, <2>4 DEF HistoryInv, BackfillInv, rows
  <2>5. BackfillInv'
    BY <2>3, <2>4 DEF BackfillInv
  <2>. QED
    BY <1>6, <2>2, <2>3, <2>5 DEF HistoryInv, PagingInv, WalkInv
<1>8. CASE page # <<>>
  <2>1. reader' = [reader EXCEPT !.target = History!Last(page), !.seen = @ \cup History!ToSet(page)]
    BY <1>1, <1>8
  <2>2. History!Last(page) \in stored /\ History!ToSet(page) \subseteq stored
          /\ History!Last(page) \in History!ToSet(page)
    BY <1>5, <1>8 DEF rows
  <2>3. /\ reader'.op = "backfill" /\ reader'.step = "page" /\ reader'.target = History!Last(page)
        /\ reader'.seen = reader.seen \cup History!ToSet(page) /\ reader'.base = reader.base
           /\ reader'.from = reader.from
    BY <1>1, <2>1 DEF HistoryInv, ReaderTypes
  <2>4. ReaderTypes'
    BY <1>1, <1>6, <2>1, <2>2, <2>3 DEF HistoryInv, ReaderTypes
  <2>5. ASSUME NEW e \in reader.base, reader.from # 0 => Depth[e] < Depth[reader.from]
        PROVE  (\E f \in reader.seen \cup History!ToSet(page) : Depth[f] = Depth[e])
                 \/ Depth[e] < Depth[History!Last(page)]
    <3>1. CASE \E f \in reader.seen : Depth[f] = Depth[e]
      BY <3>1
    <3>2. CASE reader.target # 0 => Depth[e] < Depth[reader.target]
      <4>1. e \in rows
        BY <3>2, <1>2 DEF rows
      <4>2. e \in History!ToSet(page) \/ Depth[e] <= Depth[History!Last(page)]
        BY <4>1, <1>5, <1>8
      <4>3. Depth[e] \in Nat /\ Depth[History!Last(page)] \in Nat
        BY <4>1, <2>2, <1>3
      <4>. QED
        BY <4>2, <4>3, <2>2
    <3>. QED
      BY <1>1, <2>5, <3>1, <3>2 DEF HistoryInv, BackfillInv
  <2>6. BackfillInv'
    BY <2>3, <2>5 DEF BackfillInv
  <2>. QED
    BY <1>6, <2>3, <2>4, <2>6 DEF HistoryInv, PagingInv, WalkInv
<1>. QED
  BY <1>7, <1>8

-----------------------------------------------------------------------------
LEMMA WalkBegins ==
  ASSUME HistoryInv, stored' = stored /\ position' = position, NEW op \in {"missing", "auth", "state"}, NEW limit \in Nat,
         NEW first \in SUBSET Events, NEW earliest \in SUBSET Events, NEW list, list = History!SetToSeq(first),
         reader' = [op |-> op, step |-> "walk", dir |-> "b", limit |-> limit, token |-> 0, target |-> 0,
           first |-> first,
                    earliest |-> earliest, from |-> 0, todo |-> list, visited |-> earliest, seen |-> {},
                    base |-> stored, again |-> FALSE, cuts |-> {}]
  PROVE  HistoryInv'
<1>1. StoredOnce' /\ stored' = stored /\ position' = position
  BY SameStored DEF HistoryInv
<1>2. IsFiniteSet(first)
  BY HistoryAssumption, FS_Subset
<1>3. list \in Seq(Events) /\ History!ToSet(list) = first
  <2>1. list \in Seq(first) /\ History!ToSet(list) = first
    BY <1>2, InSequence
  <2>. QED
    BY <2>1
<1>4. ReaderTypes'
  BY <1>1, <1>3 DEF ReaderTypes
<1>5. WalkInv'
  BY <1>3 DEF WalkInv
<1>. QED
  BY <1>1, <1>4, <1>5 DEF HistoryInv, PagingInv, BackfillInv

LEMMA OpenMissingKeeps ==
  ASSUME HistoryInv, NEW e \in Events, NEW f \in Events, NEW limit \in PageLimits, History!OpenMissing({e},
           {f}, limit)
  PROVE  HistoryInv'
<1>1. PICK r, first, earliest, list : r = History!Request("missing", limit) /\ first = {e} /\ earliest = {f}
             /\ list = History!SetToSeq(first)
  OBVIOUS
<1>2. r = [op |-> "missing", step |-> "page", dir |-> "b", limit |-> limit, token |-> 0, target |-> 0,
        first |-> {},
             earliest |-> {}, from |-> 0, todo |-> <<>>, visited |-> {}, seen |-> {}, base |-> stored,
               again |-> FALSE, cuts |-> {}]
  BY <1>1, ReaderBegins
<1>3. reader' = [r EXCEPT !.step = "walk", !.first = first, !.earliest = earliest, !.todo = list,
        !.visited = earliest]
  BY <1>1 DEF History!OpenMissing
<1>4. reader' = [op |-> "missing", step |-> "walk", dir |-> "b", limit |-> limit, token |-> 0, target |-> 0,
        first |-> first,
        earliest |-> earliest, from |-> 0, todo |-> list, visited |-> earliest, seen |-> {},
          base |-> stored, again |-> FALSE, cuts |-> {}]
  BY <1>2, <1>3
<1>5. limit \in Nat /\ first \in SUBSET Events /\ earliest \in SUBSET Events /\ list = History!SetToSeq(first)
  BY <1>1, HistoryAssumption
<1>6. stored' = stored /\ position' = position
  BY DEF History!OpenMissing
<1>. QED
  BY <1>4, <1>5, <1>6, WalkBegins

LEMMA OpenChainKeeps ==
  ASSUME HistoryInv, NEW e \in Events, History!OpenEventAuth(e) \/ History!OpenState(e)
  PROVE  HistoryInv'
<1>1. PICK op \in {"auth", "state"}, n \in {Cardinality(Events)} :
        /\ stored' = stored /\ position' = position
        /\ reader' = [History!Request(op, n) EXCEPT !.step = "walk", !.first = Auth[e],
           !.todo = History!SetToSeq(Auth[e])]
  BY SameSize DEF History!OpenEventAuth, History!OpenState
<1>2. PICK r, first, list : r = History!Request(op, n) /\ first = Auth[e] /\ list = History!SetToSeq(first)
  OBVIOUS
<1>3. r = [op |-> op, step |-> "page", dir |-> "b", limit |-> n, token |-> 0, target |-> 0, first |-> {},
             earliest |-> {}, from |-> 0, todo |-> <<>>, visited |-> {}, seen |-> {}, base |-> stored,
               again |-> FALSE, cuts |-> {}]
  BY <1>2, ReaderBegins
<1>4. reader' = [r EXCEPT !.step = "walk", !.first = first, !.todo = list]
  BY <1>1, <1>2
<1>5. reader' = [op |-> op, step |-> "walk", dir |-> "b", limit |-> n, token |-> 0, target |-> 0,
        first |-> first,
        earliest |-> {}, from |-> 0, todo |-> list, visited |-> {}, seen |-> {}, base |-> stored,
          again |-> FALSE, cuts |-> {}]
  BY <1>3, <1>4
<1>6. n \in Nat /\ first \in SUBSET Events /\ list = History!SetToSeq(first)
  BY <1>1, <1>2, HistoryAssumption, FS_CardinalityType
<1>7. stored' = stored /\ position' = position
  BY DEF History!OpenEventAuth, History!OpenState
<1>. QED
  BY <1>5, <1>6, <1>7, WalkBegins

LEMMA OpenStateIdsKeeps ==
  ASSUME HistoryInv, NEW e \in Events, History!OpenStateIds(e)
  PROVE  HistoryInv'
<1>1. PICK r, ids : r = History!Request("state_ids", 0) /\ ids = Auth[e]
  OBVIOUS
<1>2. r = [op |-> "state_ids", step |-> "page", dir |-> "b", limit |-> 0, token |-> 0, target |-> 0,
        first |-> {},
             earliest |-> {}, from |-> 0, todo |-> <<>>, visited |-> {}, seen |-> {}, base |-> stored,
               again |-> FALSE, cuts |-> {}]
  BY <1>1, ReaderBegins
<1>3. reader' = [r EXCEPT !.step = "done", !.seen = ids]
  BY <1>1 DEF History!OpenStateIds
<1>4. reader' = [op |-> "state_ids", step |-> "done", dir |-> "b", limit |-> 0, token |-> 0, target |-> 0,
        first |-> {},
             earliest |-> {}, from |-> 0, todo |-> <<>>, visited |-> {}, seen |-> ids, base |-> stored,
               again |-> FALSE, cuts |-> {}]
  BY <1>2, <1>3
<1>5. stored' = stored /\ position' = position
  BY DEF History!OpenStateIds
<1>6. ReaderTypes'
  BY <1>4, <1>5 DEF ReaderTypes
<1>. QED
  BY <1>4, <1>5, <1>6, OtherReadersKeep DEF OtherOps

(* A SELECT of a walk. *)
LEMMA WalkKeeps ==
  ASSUME HistoryInv, History!Walk
  PROVE  HistoryInv'
<1>1. /\ reader.step = "walk" /\ reader.todo # <<>> /\ stored' = stored /\ position' = position
      /\ reader' = IF Head(reader.todo) \in reader.visited THEN [reader EXCEPT !.todo = Tail(reader.todo)]
           ELSE IF Head(reader.todo) \notin stored
                THEN [reader EXCEPT !.todo = Tail(reader.todo), !.visited = @ \cup {Head(reader.todo)}]
           ELSE [reader EXCEPT !.visited = @ \cup {Head(reader.todo)}, !.seen = @ \cup {Head(reader.todo)},
                   !.todo = Tail(reader.todo) \o
                     History!SetToSeq(History!References(reader.op,
                       Head(reader.todo)) \ (reader.visited \cup {Head(reader.todo)}))]
  BY DEF History!Walk
<1>2. reader.op \in {"missing", "auth", "state"}
  BY <1>1 DEF HistoryInv, ReaderTypes
<1>3. reader.todo \in Seq(Events) /\ reader.seen \subseteq Events /\ reader.base \subseteq stored
  BY <1>2 DEF HistoryInv, ReaderTypes
<1>4. StoredOnce' /\ stored' = stored /\ position' = position
  BY <1>1, SameStored DEF HistoryInv
<1> DEFINE Wanted(s) == reader.first \cup UNION {History!References(reader.op, x) : x \in s}
<1>5. /\ reader.base \cap reader.visited \subseteq reader.seen \cup reader.earliest
      /\ reader.base \cap Wanted(reader.seen) \subseteq reader.seen \cup reader.earliest \cup History!ToSet(reader.todo)
  BY <1>1, <1>2 DEF HistoryInv, WalkInv
<1>6. PICK e, rest : e = Head(reader.todo) /\ rest = Tail(reader.todo)
  OBVIOUS
<1>7. e \in Events /\ rest \in Seq(Events) /\ History!ToSet(reader.todo) = {e} \cup History!ToSet(rest)
  <2>1. /\ e = reader.todo[1] /\ e \in Events /\ rest \in Seq(Events) /\ Len(reader.todo) \in Nat \ {0}
        /\ Len(rest) = Len(reader.todo) - 1 /\ \A i \in 1 .. Len(rest) : rest[i] = reader.todo[i + 1]
    BY <1>1, <1>3, <1>6
  <2>2. DOMAIN reader.todo = 1 .. Len(reader.todo) /\ DOMAIN rest = 1 .. Len(rest)
    BY <2>1, <1>3
  <2>3. ASSUME NEW i \in DOMAIN reader.todo PROVE reader.todo[i] \in {e} \cup History!ToSet(rest)
    <3>1. CASE i = 1
      BY <3>1, <2>1
    <3>2. CASE i # 1
      <4>1. i - 1 \in 1 .. Len(rest) /\ rest[i - 1] = reader.todo[i]
        BY <3>2, <2>1, <2>2
      <4>. QED
        BY <4>1, <2>2 DEF History!ToSet
    <3>. QED
      BY <3>1, <3>2
  <2>4. e \in History!ToSet(reader.todo)
    BY <2>1, <2>2 DEF History!ToSet
  <2>5. ASSUME NEW i \in DOMAIN rest PROVE rest[i] \in History!ToSet(reader.todo)
    <3>1. i + 1 \in DOMAIN reader.todo /\ rest[i] = reader.todo[i + 1]
      BY <2>1, <2>2
    <3>. QED
      BY <3>1 DEF History!ToSet
  <2>. QED
    BY <2>1, <2>3, <2>4, <2>5 DEF History!ToSet
<1>8. CASE e \in reader.visited
  <2>1. reader' = [reader EXCEPT !.todo = rest]
    BY <1>1, <1>6, <1>8
  <2>2. ReaderTypes'
    BY <1>2, <1>4, <1>7, <2>1 DEF HistoryInv, ReaderTypes
  <2>3. /\ reader'.op = reader.op /\ reader'.step = "walk" /\ reader'.first = reader.first
           /\ reader'.base = reader.base
        /\ reader'.earliest = reader.earliest /\ reader'.seen = reader.seen /\ reader'.visited = reader.visited
        /\ reader'.todo = rest
    BY <1>1, <2>1 DEF HistoryInv, ReaderTypes
  <2>4. reader.base \cap Wanted(reader.seen) \subseteq reader.seen \cup reader.earliest \cup History!ToSet(rest)
    BY <1>5, <1>7, <1>8
  <2>5. WalkInv'
    BY <2>3, <2>4, <1>2, <1>5 DEF WalkInv, History!References
  <2>. QED
    BY <1>2, <1>4, <2>2, <2>3, <2>5 DEF HistoryInv, PagingInv, BackfillInv
<1>9. CASE e \notin reader.visited /\ e \notin stored
  <2>1. reader' = [reader EXCEPT !.todo = rest, !.visited = @ \cup {e}]
    BY <1>1, <1>6, <1>9
  <2>2. ReaderTypes'
    BY <1>2, <1>4, <1>7, <2>1 DEF HistoryInv, ReaderTypes
  <2>3. /\ reader'.op = reader.op /\ reader'.step = "walk" /\ reader'.first = reader.first
           /\ reader'.base = reader.base
        /\ reader'.earliest = reader.earliest /\ reader'.seen = reader.seen
           /\ reader'.visited = reader.visited \cup {e}
        /\ reader'.todo = rest
    BY <1>1, <2>1 DEF HistoryInv, ReaderTypes
  <2>4. /\ reader.base \cap Wanted(reader.seen) \subseteq reader.seen \cup reader.earliest \cup History!ToSet(rest)
        /\ reader.base \cap (reader.visited \cup {e}) \subseteq reader.seen \cup reader.earliest
    BY <1>3, <1>5, <1>7, <1>9
  <2>5. WalkInv'
    BY <2>3, <2>4, <1>2 DEF WalkInv, History!References
  <2>. QED
    BY <1>2, <1>4, <2>2, <2>3, <2>5 DEF HistoryInv, PagingInv, BackfillInv
<1>10. CASE e \notin reader.visited /\ e \in stored
  <2> DEFINE more == History!References(reader.op, e) \ (reader.visited \cup {e})
  <2>1. PICK list : list = History!SetToSeq(more)
    OBVIOUS
  <2>2. reader' = [reader EXCEPT !.visited = @ \cup {e}, !.seen = @ \cup {e}, !.todo = rest \o list]
    BY <1>1, <1>6, <1>10, <2>1
  <2>3. more \subseteq Events /\ IsFiniteSet(more)
    <3>1. more \subseteq Events
      BY <1>2, <1>7, HistoryAssumption DEF History!References
    <3>. QED
      BY <3>1, HistoryAssumption, FS_Subset
  <2>4. list \in Seq(Events) /\ History!ToSet(list) = more
    <3>1. list \in Seq(more) /\ History!ToSet(list) = more
      BY <2>1, <2>3, InSequence
    <3>. QED
      BY <3>1, <2>3
  <2>. HIDE DEF more
  <2>5. rest \o list \in Seq(Events)
          /\ History!ToSet(rest \o list) = History!ToSet(rest) \cup History!ToSet(list)
    <3>1. /\ rest \o list \in Seq(Events) /\ Len(rest) \in Nat /\ Len(list) \in Nat
          /\ DOMAIN (rest \o list) = 1 .. (Len(rest) + Len(list)) /\ DOMAIN rest = 1 .. Len(rest)
             /\ DOMAIN list = 1 .. Len(list)
          /\ \A i \in 1 .. (Len(rest) + Len(list)) : (rest \o list)[i] = IF i <= Len(rest) THEN rest[i] ELSE list[i - Len(rest)]
      BY <1>7, <2>4
    <3>2. ASSUME NEW i \in DOMAIN (rest \o list) PROVE (rest \o list)[i] \in History!ToSet(rest) \cup History!ToSet(list)
      <4>1. CASE i <= Len(rest)
        BY <4>1, <3>1 DEF History!ToSet
      <4>2. CASE ~(i <= Len(rest))
        <5>1. i - Len(rest) \in DOMAIN list /\ (rest \o list)[i] = list[i - Len(rest)]
          BY <4>2, <3>1
        <5>. QED
          BY <5>1 DEF History!ToSet
      <4>. QED
        BY <4>1, <4>2
    <3>3. ASSUME NEW i \in DOMAIN rest PROVE rest[i] \in History!ToSet(rest \o list)
      <4>1. i \in DOMAIN (rest \o list) /\ (rest \o list)[i] = rest[i]
        BY <3>1
      <4>. QED
        BY <4>1 DEF History!ToSet
    <3>4. ASSUME NEW i \in DOMAIN list PROVE list[i] \in History!ToSet(rest \o list)
      <4>1. i + Len(rest) \in DOMAIN (rest \o list) /\ (rest \o list)[i + Len(rest)] = list[i]
        BY <3>1
      <4>. QED
        BY <4>1 DEF History!ToSet
    <3>. QED
      BY <3>1, <3>2, <3>3, <3>4 DEF History!ToSet
  <2>6. PICK queue : queue = rest \o list
    OBVIOUS
  <2>7. reader' = [reader EXCEPT !.visited = @ \cup {e}, !.seen = @ \cup {e}, !.todo = queue]
    BY <2>2, <2>6
  <2>8. ReaderTypes'
    BY <1>2, <1>4, <1>7, <2>5, <2>6, <2>7 DEF HistoryInv, ReaderTypes
  <2>9. /\ reader'.op = reader.op /\ reader'.step = "walk" /\ reader'.first = reader.first
           /\ reader'.base = reader.base
        /\ reader'.earliest = reader.earliest /\ reader'.seen = reader.seen \cup {e}
        /\ reader'.visited = reader.visited \cup {e} /\ reader'.todo = queue
    BY <1>1, <2>7 DEF HistoryInv, ReaderTypes
  <2>10. Wanted(reader.seen \cup {e}) = Wanted(reader.seen) \cup History!References(reader.op, e)
    OBVIOUS
  <2>11. History!References(reader.op, e) \subseteq more \cup reader.visited \cup {e}
    BY DEF more
  <2>12. /\ reader.base \cap Wanted(reader.seen \cup {e}) \subseteq (reader.seen \cup {e}) \cup reader.earliest \cup History!ToSet(queue)
         /\ reader.base \cap (reader.visited \cup {e}) \subseteq (reader.seen \cup {e}) \cup reader.earliest
    BY <1>5, <1>7, <2>4, <2>5, <2>6, <2>10, <2>11
  <2>13. WalkInv'
    BY <2>9, <2>12, <1>2 DEF WalkInv, History!References
  <2>. QED
    BY <1>2, <1>4, <2>8, <2>9, <2>13 DEF HistoryInv, PagingInv, BackfillInv
<1>. QED
  BY <1>8, <1>9, <1>10

LEMMA EndWalkKeeps ==
  ASSUME HistoryInv, History!EndWalk
  PROVE  HistoryInv'
<1>1. /\ reader.step = "walk" /\ (reader.todo = <<>> \/ Cardinality(reader.seen) >= reader.limit)
      /\ stored' = stored /\ position' = position /\ reader' = [reader EXCEPT !.step = "done"]
  BY SameSize DEF History!EndWalk
<1>2. reader.op \in {"missing", "auth", "state"}
  BY <1>1 DEF HistoryInv, ReaderTypes
<1>3. reader.limit \in Nat /\ reader.seen \subseteq Events
  BY <1>2 DEF HistoryInv, ReaderTypes
<1>4. Cardinality(reader.seen) \in Nat
  BY <1>3, HistoryAssumption, FS_Subset, FS_CardinalityType
<1>5. StoredOnce' /\ stored' = stored /\ position' = position
  BY <1>1, SameStored DEF HistoryInv
<1>6. ReaderTypes'
  BY <1>1, <1>2, <1>5 DEF HistoryInv, ReaderTypes
<1>7. /\ reader'.op = reader.op /\ reader'.step = "done" /\ reader'.first = reader.first
         /\ reader'.base = reader.base
      /\ reader'.earliest = reader.earliest /\ reader'.seen = reader.seen /\ reader'.visited = reader.visited
      /\ reader'.todo = reader.todo /\ reader'.limit = reader.limit
  BY <1>1 DEF HistoryInv, ReaderTypes
<1>8. WalkInv'
  BY <1>1, <1>2, <1>3, <1>4, <1>7 DEF HistoryInv, WalkInv, History!References
<1>. QED
  BY <1>2, <1>5, <1>6, <1>7, <1>8 DEF HistoryInv, PagingInv, BackfillInv

LEMMA HistoryStep ==
  ASSUME HistoryInv, [History!HistoryNext]_(History!historyVars)
  PROVE  HistoryInv'
<1>1. CASE UNCHANGED History!historyVars
  <2>1. stored' = stored /\ position' = position /\ reader' = reader
    BY <1>1 DEF History!historyVars
  <2>2. StoredOnce'
    BY <2>1, SameStored DEF HistoryInv
  <2>. QED
    BY <2>1, <2>2 DEF HistoryInv, ReaderTypes, PagingInv, Has, BackfillInv, WalkInv, History!References
<1>2. CASE History!HistoryNext
  <2>1. ASSUME NEW e \in Events, History!ReadOrdering(e) \/ History!StoreEvent(e)
                 \/ History!OpenEventAuth(e) \/ History!OpenState(e) \/ History!OpenStateIds(e) PROVE HistoryInv'
    BY <2>1, StoreEventKeeps, OpenChainKeeps, OpenStateIdsKeeps
  <2>2. ASSUME NEW limit \in PageLimits, NEW dir \in {"b", "f"},
               History!OpenMessages(dir, limit) \/ \E e \in Events : History!Jump(dir, Ts[e], limit)
        PROVE  HistoryInv'
    BY <2>2, OpenMessagesKeeps, JumpKeeps
  <2>3. ASSUME NEW limit \in PageLimits, NEW v \in Events \cup {0}, History!OpenBackfill(v,
                 limit) PROVE HistoryInv'
    BY <2>3, OpenBackfillKeeps
  <2>4. ASSUME NEW limit \in PageLimits, NEW e \in Events, NEW f \in Events, History!OpenMissing({e}, {f},
                 limit) PROVE HistoryInv'
    BY <2>4, OpenMissingKeeps
  <2>5. ASSUME History!Messages \/ History!ContextBefore \/ History!ContextAfter
                 \/ History!PageFromContext PROVE HistoryInv'
    BY <2>5, MessagesKeeps, ContextBeforeKeeps, ContextAfterKeeps, PageFromContextKeeps
  <2>6. ASSUME History!Backfill \/ History!Walk \/ History!EndWalk \/ History!Relations
                 \/ History!Close PROVE HistoryInv'
    BY <2>6, BackfillKeeps, WalkKeeps, EndWalkKeeps, RelationsKeeps, CloseReaderKeeps
  <2>. QED
    BY <1>2, <2>1, <2>2, <2>3, <2>4, <2>5, <2>6 DEF History!HistoryNext
<1>. QED
  BY <1>1, <1>2

LEMMA HistoryInvComplete == HistoryInv => History!ReadersComplete
<1>. SUFFICES ASSUME HistoryInv PROVE History!ReadersComplete
  OBVIOUS
<1>1. History!PagingComplete
  BY DEF HistoryInv, PagingInv, Has, History!PagingComplete
<1>2. History!BackfillComplete
  BY DEF HistoryInv, BackfillInv, History!BackfillComplete
<1>3. History!WalksClosed
  <2>1. SUFFICES ASSUME reader.step = "done", reader.op \in {"missing", "auth", "state"},
                        Cardinality(reader.seen) < reader.limit
                 PROVE  History!WalksClosed
    BY SameSize DEF History!WalksClosed
  <2>2. reader.todo = <<>>
    BY <2>1 DEF HistoryInv, WalkInv
  <2>3. History!ToSet(reader.todo) = {}
    BY <2>2 DEF History!ToSet
  <2>. QED
    BY <2>1, <2>3 DEF HistoryInv, WalkInv, History!WalksClosed
<1>. QED
  BY <1>1, <1>2, <1>3 DEF History!ReadersComplete

LEMMA HistoryInvariance == History!HistorySpec => []HistoryInv
<1>1. HistoryInv /\ [History!HistoryNext]_(History!historyVars) => HistoryInv'
  BY HistoryStep
<1>. QED
  BY HistoryBegins, <1>1, PTL DEF History!HistorySpec

-----------------------------------------------------------------------------
(* RoomDirectory: pages of rooms. *)

(* A page cut out of a sorted set. *)
RowsOf(S, below, o, l) == {a \in S : o <= Cardinality(below[a]) /\ Cardinality(below[a]) < o + l}
CutOut(S, rows, list, page) ==
  /\ Len(list) = Cardinality(S) /\ page \in Seq(S)
  /\ Directory!ToSet(page) = rows
  /\ \A i, j \in DOMAIN page : page[i] = page[j] => i = j

LEMMA PageByRank ==
  ASSUME NEW S, NEW below, Ordering(S, below), NEW o \in Nat, NEW l \in Nat,
         NEW list, list = ByRank(S, below, Cardinality(S)), NEW page, page = Directory!Page(list, o, l)
  PROVE  CutOut(S, RowsOf(S, below, o, l), list, page)
<1>0. PICK n, m : n = Cardinality(S) /\ m = IF n < o + l THEN n ELSE o + l
  OBVIOUS
<1>1. n \in Nat /\ \A a \in S : Cardinality(below[a]) \in 0 .. (n - 1)
  BY <1>0, RankBounds, FS_CardinalityType DEF Ordering
<1>2. /\ list \in Seq(S) /\ Len(list) = n
      /\ \A i \in 1 .. n : list[i] \in S /\ Cardinality(below[list[i]]) = i - 1
      /\ \A i \in 1 .. n : \A a \in S : Cardinality(below[a]) = i - 1 => a = list[i]
  <2>1. n \in Nat /\ n <= Cardinality(S) /\ list = ByRank(S, below, n)
    BY <1>0, <1>1
  <2>. QED
    BY <1>0, <1>1, <2>1, RankOrder
<1>3. page = SubSeq(list, o + 1, m)
  BY <1>0, <1>2 DEF Directory!Page
<1>4. m \in Nat /\ m <= n /\ m <= o + l /\ (m = n \/ m = o + l)
  BY <1>0, <1>1
<1>5. /\ page \in Seq(S) /\ Len(page) = IF o + 1 <= m THEN m - o ELSE 0
      /\ \A i \in 1 .. Len(page) : page[i] = list[o + i]
  <2>1. \A i \in (o + 1) .. m : list[i] \in S
    BY <1>1, <1>2, <1>4
  <2>2. /\ SubSeq(list, o + 1, m) \in Seq(S)
           /\ Len(SubSeq(list, o + 1, m)) = IF o + 1 <= m THEN m - (o + 1) + 1 ELSE 0
        /\ \A i \in 1 .. (m - (o + 1) + 1) : SubSeq(list, o + 1, m)[i] = list[o + 1 + i - 1]
    BY <2>1, <1>4, SubSeqProperties
  <2>. QED
    BY <2>2, <1>3, <1>4
<1>6. DOMAIN page = 1 .. Len(page) /\ Len(page) \in Nat
  BY <1>5
<1>7. ASSUME NEW i \in DOMAIN page
      PROVE  page[i] \in S /\ Cardinality(below[page[i]]) = o + i - 1 /\ o + i - 1 < o + l
  <2>1. o + i \in 1 .. n /\ o + i <= m /\ page[i] = list[o + i]
    BY <1>1, <1>4, <1>5, <1>6
  <2>. QED
    BY <2>1, <1>2, <1>4, <1>6
<1>8. ASSUME NEW a \in S, o <= Cardinality(below[a]), Cardinality(below[a]) < o + l
      PROVE  \E i \in DOMAIN page : page[i] = a
  <2> DEFINE i == Cardinality(below[a]) + 1
  <2>1. i \in 1 .. n /\ i <= m /\ i >= o + 1 /\ a = list[i]
    BY <1>1, <1>2, <1>4, <1>8
  <2>. HIDE DEF i
  <2>2. i - o \in DOMAIN page /\ page[i - o] = list[i]
    BY <2>1, <1>4, <1>5, <1>6
  <2>. QED
    BY <2>1, <2>2
<1>9. Directory!ToSet(page) = {a \in S : o <= Cardinality(below[a]) /\ Cardinality(below[a]) < o + l}
  <2>1. ASSUME NEW a \in Directory!ToSet(page) PROVE a \in S /\ o <= Cardinality(below[a])
                 /\ Cardinality(below[a]) < o + l
    <3>1. PICK i \in DOMAIN page : a = page[i]
      BY DEF Directory!ToSet
    <3>. QED
      BY <3>1, <1>6, <1>7
  <2>2. ASSUME NEW a \in S, o <= Cardinality(below[a]),
                 Cardinality(below[a]) < o + l PROVE a \in Directory!ToSet(page)
    BY <2>2, <1>8 DEF Directory!ToSet
  <2>. QED
    BY <2>1, <2>2
<1>10. ASSUME NEW i \in DOMAIN page, NEW j \in DOMAIN page, page[i] = page[j] PROVE i = j
  <2>1. o + i - 1 = o + j - 1
    BY <1>7, <1>10
  <2>. QED
    BY <2>1, <1>6
<1>. QED
  BY <1>0, <1>2, <1>5, <1>9, <1>10 DEF CutOut, RowsOf

LEMMA ListOrders ==
  ASSUME NEW S \in SUBSET Nat, IsFiniteSet(S)
  PROVE  /\ Ordering(S, [r \in S |-> Directory!Above(S, r)]) /\ Ordering(S, [r \in S |-> Directory!Below(S, r)])
         /\ Directory!Newest(S) = ByRank(S, [r \in S |-> Directory!Above(S, r)], Cardinality(S))
         /\ Directory!Oldest(S) = ByRank(S, [r \in S |-> Directory!Below(S, r)], Cardinality(S))
<1>1. Ordering(S, [r \in S |-> Directory!Above(S, r)])
  <2>1. [r \in S |-> Directory!Above(S, r)] \in [S -> SUBSET S]
    BY DEF Directory!Above
  <2>. QED
    BY <2>1 DEF Ordering, Directory!Above
<1>2. Ordering(S, [r \in S |-> Directory!Below(S, r)])
  <2>1. [r \in S |-> Directory!Below(S, r)] \in [S -> SUBSET S]
    BY DEF Directory!Below
  <2>. QED
    BY <2>1 DEF Ordering, Directory!Below
<1>3. Directory!Newest(S) = ByRank(S, [r \in S |-> Directory!Above(S, r)], Cardinality(S))
  BY SameSize DEF Directory!Newest, ByRank
<1>4. Directory!Oldest(S) = ByRank(S, [r \in S |-> Directory!Below(S, r)], Cardinality(S))
  BY SameSize DEF Directory!Oldest, ByRank
<1>. QED
  BY <1>1, <1>2, <1>3, <1>4

NewestRows(S, o,
  l) == {a \in S : o <= Cardinality(Directory!Above(S, a)) /\ Cardinality(Directory!Above(S, a)) < o + l}
OldestRows(S, o,
  l) == {a \in S : o <= Cardinality(Directory!Below(S, a)) /\ Cardinality(Directory!Below(S, a)) < o + l}

LEMMA NewestPage ==
  ASSUME NEW S \in SUBSET Nat, IsFiniteSet(S), NEW o \in Nat, NEW l \in Nat,
         NEW page, page = Directory!Page(Directory!Newest(S), o, l)
  PROVE  CutOut(S, NewestRows(S, o, l), Directory!Newest(S), page)
<1>1. PICK above, list : above = [r \in S |-> Directory!Above(S, r)] /\ list = Directory!Newest(S)
  OBVIOUS
<1>2. Ordering(S, above) /\ list = ByRank(S, above, Cardinality(S)) /\ page = Directory!Page(list, o, l)
  BY <1>1, ListOrders
<1>3. CutOut(S, RowsOf(S, above, o, l), list, page)
  BY <1>2, PageByRank
<1>4. \A a \in S : above[a] = Directory!Above(S, a)
  BY <1>1
<1>5. RowsOf(S, above, o, l) = NewestRows(S, o, l)
  BY <1>4 DEF RowsOf, NewestRows
<1>. QED
  BY <1>1, <1>3, <1>5

LEMMA OldestPage ==
  ASSUME NEW S \in SUBSET Nat, IsFiniteSet(S), NEW o \in Nat, NEW l \in Nat,
         NEW page, page = Directory!Page(Directory!Oldest(S), o, l)
  PROVE  CutOut(S, OldestRows(S, o, l), Directory!Oldest(S), page)
<1>1. PICK below, list : below = [r \in S |-> Directory!Below(S, r)] /\ list = Directory!Oldest(S)
  OBVIOUS
<1>2. Ordering(S, below) /\ list = ByRank(S, below, Cardinality(S)) /\ page = Directory!Page(list, o, l)
  BY <1>1, ListOrders
<1>3. CutOut(S, RowsOf(S, below, o, l), list, page)
  BY <1>2, PageByRank
<1>4. \A a \in S : below[a] = Directory!Below(S, a)
  BY <1>1
<1>5. RowsOf(S, below, o, l) = OldestRows(S, o, l)
  BY <1>4 DEF RowsOf, OldestRows
<1>. QED
  BY <1>1, <1>3, <1>5

(* A list of a set has the set. *)
LEMMA OldestAll ==
  ASSUME NEW S \in SUBSET Nat, IsFiniteSet(S), NEW list, list = Directory!Oldest(S)
  PROVE  list \in Seq(S) /\ Directory!ToSet(list) = S
<1>1. PICK below : below = [r \in S |-> Directory!Below(S, r)]
  OBVIOUS
<1>2. Ordering(S, below) /\ list = ByRank(S, below, Cardinality(S))
  BY <1>1, ListOrders
<1>3. Cardinality(S) \in Nat /\ \A a \in S : Cardinality(below[a]) \in 0 .. (Cardinality(S) - 1)
  BY <1>2, RankBounds, FS_CardinalityType
<1>4. /\ list \in Seq(S) /\ Len(list) = Cardinality(S)
      /\ \A i \in 1 .. Cardinality(S) : \A a \in S : Cardinality(below[a]) = i - 1 => a = list[i]
  BY <1>2, <1>3, RankOrder
<1>5. ASSUME NEW a \in S PROVE a \in Directory!ToSet(list)
  <2> DEFINE i == Cardinality(below[a]) + 1
  <2>1. i \in 1 .. Cardinality(S) /\ a = list[i]
    BY <1>3, <1>4
  <2>. HIDE DEF i
  <2>. QED
    BY <2>1, <1>4 DEF Directory!ToSet
<1>6. Directory!ToSet(list) \subseteq S
  BY <1>4 DEF Directory!ToSet
<1>. QED
  BY <1>4, <1>5, <1>6

(* Ranks in a set that changes. *)
LEMMA RankMoves ==
  ASSUME NEW S \in SUBSET Rooms, NEW T \in SUBSET Rooms, S \subseteq T, NEW r
  PROVE  /\ Cardinality(Directory!Above(S, r)) <= Cardinality(Directory!Above(T, r))
            /\ Cardinality(Directory!Below(S, r)) <= Cardinality(Directory!Below(T, r))
         /\ Cardinality(Directory!Above(S, r)) \in Nat /\ Cardinality(Directory!Below(S, r)) \in Nat
         /\ Cardinality(Directory!Above(T, r)) \in Nat /\ Cardinality(Directory!Below(T, r)) \in Nat
<1>1. Directory!Above(S, r) \subseteq Directory!Above(T, r)
        /\ Directory!Below(S, r) \subseteq Directory!Below(T, r)
  BY DEF Directory!Above, Directory!Below
<1>2. IsFiniteSet(T)
  BY DirectoryAssumption, FS_Subset
<1>3. IsFiniteSet(Directory!Above(T, r)) /\ IsFiniteSet(Directory!Below(T, r))
  BY <1>2, FS_Subset DEF Directory!Above, Directory!Below
<1>4. IsFiniteSet(Directory!Above(S, r)) /\ IsFiniteSet(Directory!Below(S, r))
  BY <1>1, <1>3, FS_Subset
<1>. QED
  BY <1>1, <1>3, <1>4, FS_Subset, FS_CardinalityType

LEMMA RankBelowSize ==
  ASSUME NEW S \in SUBSET Rooms, NEW r \in S
  PROVE  /\ Cardinality(S) \in Nat
         /\ Cardinality(Directory!Above(S, r)) \in Nat /\ Cardinality(Directory!Above(S, r)) < Cardinality(S)
         /\ Cardinality(Directory!Below(S, r)) \in Nat /\ Cardinality(Directory!Below(S, r)) < Cardinality(S)
<1>1. S \in SUBSET Nat /\ IsFiniteSet(S)
  BY DirectoryAssumption, FS_Subset
<1>2. PICK above, below : above = [q \in S |-> Directory!Above(S, q)]
             /\ below = [q \in S |-> Directory!Below(S, q)]
  OBVIOUS
<1>3. Ordering(S, above) /\ Ordering(S, below)
  BY <1>1, <1>2, ListOrders
<1>4. Cardinality(above[r]) \in 0 .. (Cardinality(S) - 1) /\ Cardinality(below[r]) \in 0 .. (Cardinality(S) - 1)
      /\ Cardinality(S) \in Nat
  BY <1>3, RankBounds
<1>. QED
  BY <1>2, <1>4

(* A list that is read has these fields. *)
ListerTypes ==
  /\ lister = [op |-> lister.op, step |-> lister.step, limit |-> lister.limit, offset |-> lister.offset,
               todo |-> lister.todo, more |-> lister.more, seen |-> lister.seen, twice |-> lister.twice,
               ghosts |-> lister.ghosts, base |-> lister.base, left |-> lister.left, came |-> lister.came]
  /\ lister.op \in {"none", "directory", "client directory", "client search", "space", "client space"}
  /\ lister.step \in {"none", "select", "info", "done"}
  /\ lister.op = "none" => lister = Directory!Idle
  /\ lister.op = "client search" => lister.step = "done"
  /\ lister.limit \in Nat /\ lister.offset \in Nat /\ lister.todo \in Seq(Rooms) /\ lister.more \in BOOLEAN
  /\ lister.seen \subseteq Rooms /\ lister.ghosts \subseteq Rooms /\ lister.twice \in BOOLEAN
  /\ lister.base \subseteq Rooms /\ lister.left \subseteq Rooms /\ lister.came \subseteq Rooms
  /\ lister.step # "info" => lister.todo = <<>>

RoomTypes ==
  /\ exists \subseteq Rooms /\ public \subseteq exists
  /\ kids \in [Rooms -> {"none", "via", "emptied"}]

(* The row up to which the pages went. *)
PageEnd(l) == IF l.step = "select" THEN l.offset ELSE l.offset + l.limit
KnownRows(l) == l.seen \cup Directory!ToSet(l.todo)

(* While nothing leaves the directory, what was in it is in the pages or behind them. *)
NothingLost(l, listed) ==
  l.left = {} =>
    /\ l.base \subseteq listed
    /\ \A r \in l.base : r \in KnownRows(l)
       \/ (l.step \in {"select", "info"} /\ Cardinality(Directory!Above(listed, r)) >= PageEnd(l))
    /\ l.step = "info" /\ ~l.more => l.base \subseteq KnownRows(l)

(* While nothing is added, what is in the pages is not behind them. *)
NothingTwice(l, listed) ==
  l.came = {} =>
    /\ ~l.twice
    /\ l.step \in {"select", "info"}
       => \A r \in KnownRows(l) \cap listed : Cardinality(Directory!Above(listed, r)) < PageEnd(l)
    /\ \A i, j \in DOMAIN l.todo : l.todo[i] = l.todo[j] => i = j
    /\ Directory!ToSet(l.todo) \cap l.seen = {}

DirectoryInv ==
  lister.op = "directory" =>
    NothingLost(lister, public) /\ NothingTwice(lister, public)

(* One page for a client: the rooms are those there were and those that came. *)
ClientInv ==
  lister.op = "client directory" =>
    /\ public \subseteq lister.base \cup lister.came /\ lister.base \ lister.left \subseteq public
    /\ lister.step \in {"info", "done"} /\ Cardinality(lister.base \cup lister.came) <= ClientLimit =>
         lister.base \ lister.left \subseteq KnownRows(lister)
    /\ ~lister.more /\ lister.offset = 0

ViaRooms == {r \in Rooms : kids[r] = "via"}

(* The rows of a space only grow. *)
SpaceInv ==
  lister.op = "space" =>
    /\ lister.base \ lister.left \subseteq ViaRooms
    /\ \A r \in lister.base \ lister.left :
         r \in KnownRows(lister)
           \/ (lister.step \in {"select", "info"} /\ Cardinality(Directory!Below(Directory!ChildRows,
              r)) >= PageEnd(lister))
    /\ lister.step = "info" /\ ~lister.more => lister.base \ lister.left \subseteq KnownRows(lister)

ClientSpaceInv ==
  lister.op = "client space" =>
    /\ lister.base \ lister.left \subseteq ViaRooms
    /\ lister.step \in {"info", "done"} /\ ~lister.more =>
         \A r \in lister.base \ (lister.left \cup lister.came) : r \in KnownRows(lister) \/ r \notin exists

ListInv == RoomTypes /\ ListerTypes /\ DirectoryInv /\ ClientInv /\ SpaceInv /\ ClientSpaceInv

LEMMA ListBegins == Directory!DirectoryInit => ListInv
<1>. SUFFICES ASSUME Directory!DirectoryInit PROVE ListInv
  OBVIOUS
<1>1. RoomTypes
  BY DEF Directory!DirectoryInit, RoomTypes
<1>2. lister = Directory!Idle
  BY DEF Directory!DirectoryInit
<1>3. ListerTypes
  BY <1>2 DEF ListerTypes, Directory!Idle
<1>. QED
  BY <1>1, <1>2, <1>3 DEF ListInv, Directory!Idle, DirectoryInv, ClientInv, SpaceInv, ClientSpaceInv

LEMMA EndNat ==
  ASSUME ListerTypes
  PROVE  PageEnd(lister) \in Nat
<1>1. lister.offset \in Nat /\ lister.limit \in Nat
  BY DEF ListerTypes
<1>. QED
  BY <1>1 DEF PageEnd

LEMMA SmallerUnion ==
  ASSUME NEW S, NEW T \in SUBSET Rooms, S \subseteq T
  PROVE  Cardinality(T) <= ClientLimit => Cardinality(S) <= ClientLimit
<1>1. IsFiniteSet(T)
  BY DirectoryAssumption, FS_Subset
<1>2. IsFiniteSet(S) /\ Cardinality(S) <= Cardinality(T)
  BY <1>1, FS_Subset
<1>3. Cardinality(S) \in Nat /\ Cardinality(T) \in Nat
  BY <1>1, <1>2, FS_CardinalityType
<1>. QED
  BY <1>2, <1>3, DirectoryAssumption

(* A room that leaves or comes is remembered by whoever reads. *)
SameList(l, m) ==
  /\ m.op = l.op /\ m.step = l.step /\ m.limit = l.limit /\ m.offset = l.offset /\ m.todo = l.todo
     /\ m.more = l.more
  /\ m.seen = l.seen /\ m.twice = l.twice /\ m.ghosts = l.ghosts /\ m.base = l.base

LEMMA Remembers ==
  ASSUME ListerTypes, NEW r \in Rooms, lister.op # "none"
  PROVE  /\ Directory!Leaves(r) => SameList(lister, lister') /\ lister'.left = lister.left \cup {r}
            /\ lister'.came = lister.came
         /\ Directory!Comes(r) => SameList(lister, lister') /\ lister'.came = lister.came \cup {r}
            /\ lister'.left = lister.left
<1>1. lister # Directory!Idle
  BY DEF Directory!Idle
<1>2. ASSUME Directory!Leaves(r) PROVE lister' = [lister EXCEPT !.left = lister.left \cup {r}]
  BY <1>1, <1>2 DEF Directory!Leaves
<1>3. ASSUME Directory!Comes(r) PROVE lister' = [lister EXCEPT !.came = lister.came \cup {r}]
  BY <1>1, <1>3 DEF Directory!Comes
<1>4. ASSUME Directory!Leaves(r) PROVE SameList(lister, lister') /\ lister'.left = lister.left \cup {r}
               /\ lister'.came = lister.came
  BY <1>2, <1>4 DEF ListerTypes, SameList
<1>5. ASSUME Directory!Comes(r) PROVE SameList(lister, lister') /\ lister'.came = lister.came \cup {r}
               /\ lister'.left = lister.left
  BY <1>3, <1>5 DEF ListerTypes, SameList
<1>. QED
  BY <1>4, <1>5

LEMMA RememberTypes ==
  ASSUME ListerTypes, NEW r \in Rooms, Directory!Leaves(r) \/ Directory!Comes(r)
  PROVE  ListerTypes' /\ lister'.op = lister.op
<1>1. CASE lister.op = "none"
  <2>1. lister = [op |-> "none", step |-> "none", limit |-> 0, offset |-> 0, todo |-> <<>>, more |-> FALSE,
         seen |-> {}, twice |-> FALSE, ghosts |-> {}, base |-> {}, left |-> {},
           came |-> {}] /\ lister = Directory!Idle
    BY <1>1 DEF ListerTypes, Directory!Idle
  <2>2. lister' = [lister EXCEPT !.left = {}] \/ lister' = [lister EXCEPT !.came = {}]
    BY <2>1 DEF Directory!Leaves, Directory!Comes
  <2>3. lister' = lister
    BY <2>1, <2>2
  <2>. QED
    BY <1>1, <2>3 DEF ListerTypes
<1>2. CASE lister.op # "none"
  <2>1. lister # Directory!Idle
    BY <1>2 DEF Directory!Idle
  <2>2. PICK left, came : lister' = [lister EXCEPT !.left = left] \/ lister' = [lister EXCEPT !.came = came]
    BY DEF Directory!Leaves, Directory!Comes
  <2>3. lister' = [op |-> lister'.op, step |-> lister'.step, limit |-> lister'.limit, offset |-> lister'.offset,
               todo |-> lister'.todo, more |-> lister'.more, seen |-> lister'.seen, twice |-> lister'.twice,
               ghosts |-> lister'.ghosts, base |-> lister'.base, left |-> lister'.left, came |-> lister'.came]
    BY <2>2 DEF ListerTypes
  <2>4. /\ SameList(lister, lister')
        /\ lister'.left \in {lister.left, lister.left \cup {r}}
           /\ lister'.came \in {lister.came, lister.came \cup {r}}
    BY <1>2, Remembers
  <2>5. lister'.left \subseteq Rooms /\ lister'.came \subseteq Rooms
    BY <2>4 DEF ListerTypes
  <2>6. lister.op # "none" /\ ListerTypes
    BY <1>2
  <2>. QED
    BY <2>3, <2>4, <2>5, <2>6 DEF ListerTypes, SameList
<1>. QED
  BY <1>1, <1>2

(* The directory grows or shrinks. *)
LEMMA DirectoryMoves ==
  ASSUME ListInv, NEW r \in Rooms, RoomTypes', lister.op = "directory",
         \/ Directory!Leaves(r) /\ public' \subseteq public
         \/ Directory!Comes(r) /\ public \subseteq public'
  PROVE  DirectoryInv'
<1>1. /\ NothingLost(lister, public) /\ NothingTwice(lister, public) /\ ListerTypes
      /\ public \subseteq Rooms /\ public' \subseteq Rooms
  BY DEF ListInv, DirectoryInv, RoomTypes
<1>2. SameList(lister, lister')
  BY <1>1, Remembers
<1>3. KnownRows(lister') = KnownRows(lister) /\ PageEnd(lister') = PageEnd(lister)
        /\ Directory!ToSet(lister'.todo) = Directory!ToSet(lister.todo)
  BY <1>2 DEF SameList, KnownRows, PageEnd
<1>4. PageEnd(lister) \in Nat
  BY <1>1 DEF ListerTypes, PageEnd
<1>5. CASE Directory!Leaves(r) /\ public' \subseteq public
  <2>1. lister'.left = lister.left \cup {r} /\ lister'.came = lister.came
    BY <1>1, <1>5, Remembers
  <2>2. NothingLost(lister', public')
    BY <2>1 DEF NothingLost
  <2>3. \A q : Cardinality(Directory!Above(public', q)) <= Cardinality(Directory!Above(public, q))
               /\ Cardinality(Directory!Above(public', q)) \in Nat
                  /\ Cardinality(Directory!Above(public, q)) \in Nat
    BY <1>1, <1>5, RankMoves
  <2>4. NothingTwice(lister', public')
    BY <1>1, <1>2, <1>3, <1>4, <1>5, <2>1, <2>3 DEF NothingTwice, SameList
  <2>. QED
    BY <2>2, <2>4 DEF DirectoryInv
<1>6. CASE Directory!Comes(r) /\ public \subseteq public'
  <2>1. lister'.came = lister.came \cup {r} /\ lister'.left = lister.left
    BY <1>1, <1>6, Remembers
  <2>2. NothingTwice(lister', public')
    BY <2>1 DEF NothingTwice
  <2>3. \A q : Cardinality(Directory!Above(public, q)) <= Cardinality(Directory!Above(public', q))
               /\ Cardinality(Directory!Above(public', q)) \in Nat
                  /\ Cardinality(Directory!Above(public, q)) \in Nat
    BY <1>1, <1>6, RankMoves
  <2>4. NothingLost(lister', public')
    BY <1>1, <1>2, <1>3, <1>4, <1>6, <2>1, <2>3 DEF NothingLost, SameList
  <2>. QED
    BY <2>2, <2>4 DEF DirectoryInv
<1>. QED
  BY <1>5, <1>6

LEMMA ClientMoves ==
  ASSUME ListInv, NEW r \in Rooms, RoomTypes', lister.op = "client directory",
         \/ Directory!Leaves(r) /\ public' \in {public, public \ {r}}
         \/ Directory!Comes(r) /\ public' \in {public, public \cup {r}}
  PROVE  ClientInv'
<1>1. ListerTypes /\ ClientInv /\ lister.op # "none"
  BY DEF ListInv
<1>2. SameList(lister, lister')
  BY <1>1, Remembers
<1>3. KnownRows(lister') = KnownRows(lister)
  BY <1>2 DEF SameList, KnownRows
<1>4. \/ lister'.left = lister.left \cup {r} /\ lister'.came = lister.came /\ public' \in {public, public \ {r}}
      \/ lister'.came = lister.came \cup {r} /\ lister'.left = lister.left
         /\ public' \in {public, public \cup {r}}
  BY <1>1, Remembers
<1>5. lister'.base \cup lister'.came \in SUBSET Rooms
  BY <1>1, <1>2, <1>4 DEF ListerTypes, SameList
<1>6. lister.base \cup lister.came \subseteq lister'.base \cup lister'.came
  BY <1>2, <1>4 DEF SameList
<1>7. public' \subseteq lister'.base \cup lister'.came /\ lister'.base \ lister'.left \subseteq public'
      /\ lister'.base \ lister'.left \subseteq lister.base \ lister.left
  BY <1>1, <1>2, <1>4 DEF ClientInv, SameList
<1>8. Cardinality(lister'.base \cup lister'.came) <= ClientLimit
        => Cardinality(lister.base \cup lister.came) <= ClientLimit
  BY <1>5, <1>6, SmallerUnion
<1>9. ~lister'.more /\ lister'.offset = 0 /\ lister'.step = lister.step
  BY <1>1, <1>2 DEF ClientInv, SameList
<1>. QED
  BY <1>1, <1>3, <1>7, <1>8, <1>9 DEF ClientInv

LEMMA SpaceMoves ==
  ASSUME ListInv, NEW r \in Rooms, RoomTypes', lister.op \in {"space", "client space"},
         Directory!ChildRows \subseteq Directory!ChildRows',
         \/ Directory!Leaves(r) /\ exists' \subseteq exists /\ ViaRooms \ {r} \subseteq ViaRooms'
         \/ Directory!Comes(r) /\ exists' \subseteq exists \cup {r} /\ ViaRooms \subseteq ViaRooms'
  PROVE  SpaceInv' /\ ClientSpaceInv'
<1>1. ListerTypes /\ SpaceInv /\ ClientSpaceInv /\ lister.op # "none"
  BY DEF ListInv
<1>2. SameList(lister, lister')
  BY <1>1, Remembers
<1>3. KnownRows(lister') = KnownRows(lister) /\ PageEnd(lister') = PageEnd(lister)
  BY <1>2 DEF SameList, KnownRows, PageEnd
<1>4. \/ lister'.left = lister.left \cup {r} /\ lister'.came = lister.came /\ exists' \subseteq exists
         /\ ViaRooms \ {r} \subseteq ViaRooms'
      \/ lister'.came = lister.came \cup {r} /\ lister'.left = lister.left
         /\ exists' \subseteq exists \cup {r} /\ ViaRooms \subseteq ViaRooms'
  BY <1>1, Remembers
<1>5. \A q : Cardinality(Directory!Below(Directory!ChildRows,
        q)) <= Cardinality(Directory!Below(Directory!ChildRows', q))
             /\ Cardinality(Directory!Below(Directory!ChildRows, q)) \in Nat
                /\ Cardinality(Directory!Below(Directory!ChildRows', q)) \in Nat
  <2>1. Directory!ChildRows \in SUBSET Rooms /\ Directory!ChildRows' \in SUBSET Rooms
    BY DEF Directory!ChildRows
  <2>. QED
    BY <2>1, RankMoves
<1>6. PageEnd(lister) \in Nat
  BY <1>1, EndNat
<1>7. lister.base \ lister.left \subseteq ViaRooms /\ lister'.base \ lister'.left \subseteq ViaRooms'
  BY <1>1, <1>2, <1>4 DEF SpaceInv, ClientSpaceInv, SameList
<1>8. SpaceInv'
  BY <1>1, <1>2, <1>3, <1>4, <1>5, <1>6, <1>7 DEF SpaceInv, SameList
<1>9. ClientSpaceInv'
  BY <1>1, <1>2, <1>3, <1>4, <1>7 DEF ClientSpaceInv, SameList
<1>. QED
  BY <1>8, <1>9

LEMMA RoomsMove ==
  ASSUME ListInv, NEW r \in Rooms, RoomTypes', Directory!ChildRows \subseteq Directory!ChildRows',
         \/ /\ Directory!Leaves(r) /\ exists' \in {exists, exists \ {r}} /\ public' \in {public, public \ {r}}
            /\ ViaRooms \ {r} \subseteq ViaRooms'
         \/ /\ Directory!Comes(r) /\ exists' \in {exists, exists \cup {r}}
            /\ public' \in {public, public \cup {r}}
            /\ ViaRooms \subseteq ViaRooms'
  PROVE  ListInv'
<1>1. ListerTypes' /\ lister'.op = lister.op
  BY RememberTypes DEF ListInv
<1>2. lister.op = "directory" => DirectoryInv'
  <2>1. \/ Directory!Leaves(r) /\ public' \subseteq public
        \/ Directory!Comes(r) /\ public \subseteq public'
    OBVIOUS
  <2>. QED
    BY <2>1, DirectoryMoves
<1>3. lister.op = "client directory" => ClientInv'
  <2>1. \/ Directory!Leaves(r) /\ public' \in {public, public \ {r}}
        \/ Directory!Comes(r) /\ public' \in {public, public \cup {r}}
    OBVIOUS
  <2>. QED
    BY <2>1, ClientMoves
<1>4. lister.op \in {"space", "client space"} => SpaceInv' /\ ClientSpaceInv'
  <2>1. \/ Directory!Leaves(r) /\ exists' \subseteq exists /\ ViaRooms \ {r} \subseteq ViaRooms'
        \/ Directory!Comes(r) /\ exists' \subseteq exists \cup {r} /\ ViaRooms \subseteq ViaRooms'
    OBVIOUS
  <2>. QED
    BY <2>1, SpaceMoves
<1>5. DirectoryInv' /\ ClientInv' /\ SpaceInv' /\ ClientSpaceInv'
  BY <1>1, <1>2, <1>3, <1>4 DEF DirectoryInv, ClientInv, SpaceInv, ClientSpaceInv
<1>. QED
  BY <1>1, <1>5 DEF ListInv

LEMMA SameKids ==
  ASSUME kids' = kids
  PROVE  Directory!ChildRows' = Directory!ChildRows /\ ViaRooms' = ViaRooms
BY DEF Directory!ChildRows, ViaRooms

LEMMA SameLists ==
  ASSUME ListInv, exists' = exists, public' = public, kids' = kids, lister' = lister
  PROVE  ListInv'
BY DEF ListInv, RoomTypes, ListerTypes, Directory!Idle, DirectoryInv, NothingLost, NothingTwice, ClientInv,
       SpaceInv, ClientSpaceInv, KnownRows, PageEnd, ViaRooms, Directory!ChildRows

LEMMA RoomChangesKeep ==
  ASSUME ListInv, NEW r \in Rooms,
         (\E listed \in BOOLEAN : Directory!CreateRoom(r, listed)) \/ Directory!CreateEvents(r)
           \/ Directory!PurgeEvents(r) \/ Directory!PurgeRoom(r) \/ Directory!SetVisibility(r)
           \/ (\E v \in {"via", "emptied"} : Directory!SetChild(r, v))
  PROVE  ListInv'
<1>1. RoomTypes
  BY DEF ListInv
<1>2. CASE \E listed \in BOOLEAN : Directory!CreateRoom(r, listed)
  <2>1. /\ Directory!Comes(r) /\ exists' = exists \cup {r} /\ public' \in {public, public \cup {r}}
           /\ kids' = kids
    BY <1>2 DEF Directory!CreateRoom
  <2>2. RoomTypes'
    BY <1>1, <2>1 DEF RoomTypes
  <2>. QED
    BY <2>1, <2>2, SameKids, RoomsMove
<1>3. CASE Directory!PurgeRoom(r)
  <2>1. /\ Directory!Leaves(r) /\ exists' = exists \ {r} /\ public' = public \ {r} /\ kids' = kids
    BY <1>3 DEF Directory!PurgeRoom
  <2>2. RoomTypes'
    BY <1>1, <2>1 DEF RoomTypes
  <2>. QED
    BY <2>1, <2>2, SameKids, RoomsMove
<1>4. CASE Directory!SetVisibility(r)
  <2>1. /\ (Directory!Leaves(r) /\ public' = public \ {r}) \/ (Directory!Comes(r) /\ public' = public \cup {r})
        /\ exists' = exists /\ kids' = kids /\ r \in exists
    BY <1>4 DEF Directory!SetVisibility
  <2>2. RoomTypes'
    BY <1>1, <2>1 DEF RoomTypes
  <2>. QED
    BY <2>1, <2>2, SameKids, RoomsMove
<1>5. CASE \E v \in {"via", "emptied"} : Directory!SetChild(r, v)
  <2>1. PICK v \in {"via", "emptied"} : Directory!SetChild(r, v)
    BY <1>5
  <2>2. kids' = [kids EXCEPT ![r] = v] /\ exists' = exists /\ public' = public
        /\ (v = "via" => Directory!Comes(r)) /\ (v = "emptied" => Directory!Leaves(r))
    BY <2>1 DEF Directory!SetChild
  <2>3. RoomTypes'
    BY <1>1, <2>2 DEF RoomTypes
  <2>4. Directory!ChildRows \subseteq Directory!ChildRows' /\ ViaRooms \ {r} \subseteq ViaRooms'
          /\ (v = "via" => ViaRooms \subseteq ViaRooms')
    BY <1>1, <2>2 DEF RoomTypes, Directory!ChildRows, ViaRooms
  <2>. QED
    BY <2>2, <2>3, <2>4, RoomsMove
<1>6. CASE Directory!CreateEvents(r) \/ Directory!PurgeEvents(r)
  <2>1. exists' = exists /\ public' = public /\ kids' = kids /\ lister' = lister
    BY <1>6 DEF Directory!CreateEvents, Directory!PurgeEvents
  <2>. QED
    BY <2>1, SameLists
<1>. QED
  BY <1>2, <1>3, <1>4, <1>5, <1>6

-----------------------------------------------------------------------------
(* Readers leave the rooms alone. *)
ListReading == exists' = exists /\ public' = public /\ kids' = kids

LEMMA ListReadingKeeps ==
  ASSUME ListInv, ListReading
  PROVE  RoomTypes /\ RoomTypes' /\ Directory!ChildRows' = Directory!ChildRows /\ ViaRooms' = ViaRooms
           /\ ListerTypes
BY SameKids DEF ListInv, ListReading, RoomTypes

LEMMA NoRows ==
  ASSUME NEW rows \in Seq(Rooms), rows = <<>>
  PROVE  Directory!ToSet(rows) = {}
BY DEF Directory!ToSet

LEMMA RankNat ==
  ASSUME NEW S \in SUBSET Rooms, NEW r
  PROVE  Cardinality(Directory!Below(S, r)) >= 0
<1>1. Cardinality(Directory!Below(S, r)) \in Nat
  BY RankMoves
<1>. QED
  BY <1>1

LEMMA OpenListKeeps ==
  ASSUME ListInv, NEW op \in {"directory", "client directory", "space", "client space"},
           NEW limit \in ListLimits,
         Directory!Open(op, limit)
  PROVE  ListInv'
<1>1. ListReading
  BY DEF Directory!Open, ListReading
<1>2. PICK idle, base : idle = Directory!Idle /\ base = IF op \in {"directory", "client directory"} THEN public
                                              ELSE {r \in Rooms : kids[r] = "via"}
  OBVIOUS
<1>3. idle = [op |-> "none", step |-> "none", limit |-> 0, offset |-> 0, todo |-> <<>>, more |-> FALSE,
         seen |-> {}, twice |-> FALSE, ghosts |-> {}, base |-> {}, left |-> {}, came |-> {}]
  BY <1>2 DEF Directory!Idle
<1>4. lister' = [idle EXCEPT !.op = op, !.step = "select", !.limit = limit, !.base = base]
  BY <1>2 DEF Directory!Open
<1>5. lister' = [op |-> op, step |-> "select", limit |-> limit, offset |-> 0, todo |-> <<>>, more |-> FALSE,
         seen |-> {}, twice |-> FALSE, ghosts |-> {}, base |-> base, left |-> {}, came |-> {}]
  BY <1>3, <1>4
<1>6. RoomTypes /\ RoomTypes' /\ Directory!ChildRows' = Directory!ChildRows /\ ViaRooms' = ViaRooms
        /\ public' = public /\ exists' = exists
  BY <1>1, ListReadingKeeps DEF ListReading
<1>7. limit \in Nat /\ base \subseteq Rooms
  BY <1>2, <1>6, DirectoryAssumption DEF RoomTypes
<1>8. ListerTypes'
  <2>1. op # "none" /\ op # "client search"
          /\ op \in {"none", "directory", "client directory", "client search", "space", "client space"}
    OBVIOUS
  <2>2. <<>> \in Seq(Rooms) /\ 0 \in Nat
    BY EmptySeq
  <2>. QED
    BY <1>5, <1>7, <2>1, <2>2 DEF ListerTypes
<1>9. lister'.todo = <<>> /\ Directory!ToSet(lister'.todo) = {}
  <2>1. lister'.todo = <<>>
    BY <1>5
  <2>2. lister'.todo \in Seq(Rooms)
    BY <1>8 DEF ListerTypes
  <2>. QED
    BY <2>1, <2>2, NoRows
<1>10. \A r : Cardinality(Directory!Above(public, r)) \in Nat
         /\ Cardinality(Directory!Below(Directory!ChildRows, r)) \in Nat
  BY <1>6, RankMoves DEF RoomTypes, Directory!ChildRows
<1>14. KnownRows(lister') = {}
  BY <1>5, <1>9 DEF KnownRows
<1>11. DirectoryInv'
  BY <1>2, <1>5, <1>6, <1>9, <1>10 DEF DirectoryInv, NothingLost, NothingTwice, KnownRows, PageEnd
<1>12. ClientInv'
  BY <1>2, <1>5, <1>6 DEF ClientInv
<1>13. SpaceInv' /\ ClientSpaceInv'
  <2>1. /\ lister'.step = "select" /\ lister'.left = {} /\ lister'.base = base /\ lister'.offset = 0
           /\ lister'.op = op
    BY <1>5
  <2>2. op \in {"space", "client space"} => base = ViaRooms
    BY <1>2 DEF ViaRooms
  <2>3. PageEnd(lister') = 0
    BY <2>1 DEF PageEnd
  <2>4. \A r : Cardinality(Directory!Below(Directory!ChildRows', r)) >= 0
    <3>1. Directory!ChildRows' \in SUBSET Rooms
      BY DEF Directory!ChildRows
    <3>. QED
      BY <3>1, RankNat
  <2>. QED
    BY <1>6, <2>1, <2>2, <2>3, <2>4 DEF SpaceInv, ClientSpaceInv
<1>. QED
  BY <1>6, <1>8, <1>11, <1>12, <1>13 DEF ListInv

LEMMA SearchKeeps ==
  ASSUME ListInv, Directory!SearchForClient
  PROVE  ListInv'
<1>1. ListReading
  BY DEF Directory!SearchForClient, ListReading
<1>2. PICK idle : idle = Directory!Idle
  OBVIOUS
<1>3. idle = [op |-> "none", step |-> "none", limit |-> 0, offset |-> 0, todo |-> <<>>, more |-> FALSE,
         seen |-> {}, twice |-> FALSE, ghosts |-> {}, base |-> {}, left |-> {}, came |-> {}]
  BY <1>2 DEF Directory!Idle
<1>4. lister' = [idle EXCEPT !.op = "client search", !.step = "done"]
  BY <1>2 DEF Directory!SearchForClient
<1>5. lister' = [op |-> "client search", step |-> "done", limit |-> 0, offset |-> 0, todo |-> <<>>,
        more |-> FALSE,
         seen |-> {}, twice |-> FALSE, ghosts |-> {}, base |-> {}, left |-> {}, came |-> {}]
  BY <1>3, <1>4
<1>6. ListerTypes'
  <2>1. <<>> \in Seq(Rooms) /\ 0 \in Nat
    BY EmptySeq
  <2>. QED
    BY <1>5, <2>1 DEF ListerTypes
<1>. QED
  BY <1>1, <1>5, <1>6, ListReadingKeeps DEF ListInv, DirectoryInv, ClientInv, SpaceInv, ClientSpaceInv

LEMMA CloseListKeeps ==
  ASSUME ListInv, Directory!Close
  PROVE  ListInv'
<1>1. ListReading /\ lister' = Directory!Idle
  BY DEF Directory!Close, ListReading
<1>2. lister' = [op |-> "none", step |-> "none", limit |-> 0, offset |-> 0, todo |-> <<>>, more |-> FALSE,
         seen |-> {}, twice |-> FALSE, ghosts |-> {}, base |-> {}, left |-> {}, came |-> {}]
  BY <1>1 DEF Directory!Idle
<1>3. ListerTypes'
  <2>1. lister' = Directory!Idle /\ Directory!Idle' = Directory!Idle
    BY <1>1 DEF Directory!Idle
  <2>. QED
    BY <1>2, <2>1 DEF ListerTypes
<1>4. lister'.op = "none"
  BY <1>2
<1>. QED
  BY <1>1, <1>3, <1>4, ListReadingKeeps DEF ListInv, DirectoryInv, ClientInv, SpaceInv, ClientSpaceInv

(* A page that was selected. *)
LEMMA SelectTypes ==
  ASSUME ListInv, NEW rows \in Seq(Rooms), NEW more \in BOOLEAN, lister.step = "select",
           Directory!Selected(rows, more)
  PROVE  /\ ListerTypes'
         /\ lister'.op = lister.op /\ lister'.step = "info" /\ lister'.limit = lister.limit
            /\ lister'.offset = lister.offset
         /\ lister'.todo = rows /\ lister'.more = more /\ lister'.seen = lister.seen
            /\ lister'.twice = lister.twice
         /\ lister'.ghosts = lister.ghosts /\ lister'.base = lister.base /\ lister'.left = lister.left
         /\ lister'.came = lister.came
<1>1. lister' = [lister EXCEPT !.step = "info", !.todo = rows, !.more = more]
  BY DEF Directory!Selected
<1>3. ListerTypes
  BY DEF ListInv
<1>2. lister.op # "none"
  <2>1. Directory!Idle.step = "none"
    BY DEF Directory!Idle
  <2>. QED
    BY <1>3, <2>1 DEF ListerTypes
<1>. QED
  BY <1>1, <1>2, <1>3 DEF ListerTypes

LEMMA SelectDirectoryKeeps ==
  ASSUME ListInv, Directory!SelectDirectory
  PROVE  ListInv'
<1>1. lister.op = "directory" /\ lister.step = "select" /\ ListReading
  BY DEF Directory!SelectDirectory, ListReading
<1>2. PICK page, more, o, l : /\ page = Directory!Page(Directory!Newest(public), o, l)
                                 /\ more = (Len(Directory!Newest(public)) > o + l)
                              /\ o = lister.offset /\ l = lister.limit
  OBVIOUS
<1>3. more \in BOOLEAN /\ Directory!Selected(page, more)
  <2>1. Directory!Selected(Directory!Page(Directory!Newest(public), o, l),
          Len(Directory!Newest(public)) > o + l)
    BY <1>2 DEF Directory!SelectDirectory
  <2>. QED
    BY <1>2, <2>1
<1>4. /\ RoomTypes /\ RoomTypes' /\ public' = public /\ exists' = exists /\ ListerTypes
      /\ public \subseteq Rooms /\ public \subseteq exists
  BY <1>1, ListReadingKeeps DEF ListReading, RoomTypes
<1>5. public \in SUBSET Nat /\ IsFiniteSet(public) /\ o \in Nat /\ l \in Nat
  BY <1>2, <1>4, DirectoryAssumption, FS_Subset DEF ListerTypes
<1>6. /\ Len(Directory!Newest(public)) = Cardinality(public) /\ page \in Seq(public)
      /\ Directory!ToSet(page) = NewestRows(public, o, l)
      /\ \A i, j \in DOMAIN page : page[i] = page[j] => i = j
  <2>1. page = Directory!Page(Directory!Newest(public), o, l)
    BY <1>2
  <2>2. CutOut(public, NewestRows(public, o, l), Directory!Newest(public), page)
    BY <2>1, <1>5, NewestPage
  <2>. QED
    BY <2>2 DEF CutOut
<1>7. page \in Seq(Rooms)
  BY <1>4, <1>6
<1>8. /\ ListerTypes'
      /\ lister'.op = "directory" /\ lister'.step = "info" /\ lister'.limit = l /\ lister'.offset = o
      /\ lister'.todo = page /\ lister'.more = more /\ lister'.seen = lister.seen
         /\ lister'.twice = lister.twice
      /\ lister'.ghosts = lister.ghosts /\ lister'.base = lister.base /\ lister'.left = lister.left
      /\ lister'.came = lister.came
  BY <1>1, <1>2, <1>3, <1>7, SelectTypes
<1>9. DirectoryInv /\ lister.todo = <<>> /\ Directory!ToSet(lister.todo) = {}
  BY <1>1, <1>4 DEF ListInv, ListerTypes, Directory!ToSet
<1>10. KnownRows(lister) = lister.seen /\ KnownRows(lister') = lister.seen \cup Directory!ToSet(page)
       /\ PageEnd(lister) = o /\ PageEnd(lister') = o + l
  BY <1>1, <1>2, <1>8, <1>9 DEF KnownRows, PageEnd
<1>11. \A r \in public : Cardinality(Directory!Above(public, r)) \in Nat
         /\ Cardinality(Directory!Above(public, r)) < Cardinality(public)
       /\ Cardinality(public) \in Nat
  BY <1>4, RankBelowSize
<1>12. NothingLost(lister', public')
  <2>1. SUFFICES ASSUME lister.left = {} PROVE NothingLost(lister', public')
    BY <1>8 DEF NothingLost
  <2>2. lister.base \subseteq public /\ \A r \in lister.base : r \in lister.seen
          \/ Cardinality(Directory!Above(public, r)) >= o
    BY <1>1, <1>9, <1>10, <2>1 DEF DirectoryInv, NothingLost
  <2>3. ASSUME NEW r \in lister.base
        PROVE  /\ r \in lister.seen \/ r \in Directory!ToSet(page)
                  \/ Cardinality(Directory!Above(public, r)) >= o + l
               /\ ~more => ~(Cardinality(Directory!Above(public, r)) >= o + l)
    <3>1. PICK k, n : k = Cardinality(Directory!Above(public, r)) /\ n = Cardinality(public)
      OBVIOUS
    <3>2. r \in public /\ (r \in lister.seen \/ k >= o) /\ k \in Nat /\ n \in Nat /\ k < n
      BY <1>11, <2>2, <2>3, <3>1
    <3>3. r \in Directory!ToSet(page) <=> o <= k /\ k < o + l
      BY <1>6, <3>1, <3>2 DEF NewestRows
    <3>4. ~more => ~(n > o + l)
      BY <1>2, <1>6, <3>1
    <3>5. r \in lister.seen \/ r \in Directory!ToSet(page) \/ k >= o + l
      BY <1>5, <3>2, <3>3
    <3>6. ~more => ~(k >= o + l)
      BY <1>5, <3>2, <3>4
    <3>. QED
      BY <3>1, <3>5, <3>6
  <2>. QED
    BY <1>4, <1>8, <1>10, <2>2, <2>3 DEF NothingLost
<1>13. NothingTwice(lister', public')
  <2>1. SUFFICES ASSUME lister.came = {} PROVE NothingTwice(lister', public')
    BY <1>8 DEF NothingTwice
  <2>2. ~lister.twice /\ \A r \in lister.seen \cap public : Cardinality(Directory!Above(public, r)) < o
    BY <1>1, <1>9, <1>10, <2>1 DEF DirectoryInv, NothingTwice
  <2>3. \A r \in (lister.seen \cup Directory!ToSet(page)) \cap public : Cardinality(Directory!Above(public,
          r)) < o + l
    <3>1. ASSUME NEW r \in public, r \in lister.seen \/ r \in Directory!ToSet(page)
          PROVE  Cardinality(Directory!Above(public, r)) < o + l
      <4>1. PICK k : k = Cardinality(Directory!Above(public, r))
        OBVIOUS
      <4>2. k < o \/ k < o + l
        BY <1>6, <2>2, <3>1, <4>1 DEF NewestRows
      <4>3. k \in Nat
        BY <1>11, <3>1, <4>1
      <4>. QED
        BY <1>5, <4>1, <4>2, <4>3
    <3>. QED
      BY <3>1
  <2>4. Directory!ToSet(page) \cap lister.seen = {}
    <3>1. ASSUME NEW r \in Directory!ToSet(page), r \in lister.seen PROVE FALSE
      <4>1. PICK k : k = Cardinality(Directory!Above(public, r))
        OBVIOUS
      <4>2. r \in public /\ o <= k
        BY <1>6, <3>1, <4>1 DEF NewestRows
      <4>3. k < o /\ k \in Nat
        BY <1>11, <2>2, <3>1, <4>1, <4>2
      <4>. QED
        BY <1>5, <4>2, <4>3
    <3>. QED
      BY <3>1
  <2>. QED
    BY <1>4, <1>6, <1>8, <1>10, <2>2, <2>3, <2>4 DEF NothingTwice
<1>14. DirectoryInv'
  BY <1>12, <1>13 DEF DirectoryInv
<1>. QED
  BY <1>4, <1>8, <1>14 DEF ListInv, ClientInv, SpaceInv, ClientSpaceInv

LEMMA SelectForClientKeeps ==
  ASSUME ListInv, Directory!SelectForClient
  PROVE  ListInv'
<1>1. lister.op = "client directory" /\ lister.step = "select" /\ ListReading
  BY DEF Directory!SelectForClient, ListReading
<1>2. PICK page, zero : page = Directory!Page(Directory!Oldest(public), zero, ClientLimit) /\ zero = 0
             /\ zero \in Nat
  <2>1. 0 \in Nat
    OBVIOUS
  <2>. QED
    BY <2>1
<1>3. Directory!Selected(page, FALSE)
  BY <1>2 DEF Directory!SelectForClient
<1>4. /\ RoomTypes /\ RoomTypes' /\ public' = public /\ exists' = exists /\ ListerTypes /\ ClientInv
      /\ public \subseteq Rooms
  BY <1>1, ListReadingKeeps DEF ListReading, RoomTypes, ListInv
<1>5. public \in SUBSET Nat /\ IsFiniteSet(public)
  BY <1>4, DirectoryAssumption, FS_Subset
<1>6. /\ page \in Seq(public)
      /\ Directory!ToSet(page) = OldestRows(public, zero, ClientLimit)
  <2>1. page = Directory!Page(Directory!Oldest(public), zero, ClientLimit) /\ zero \in Nat
          /\ ClientLimit \in Nat
    BY <1>2, DirectoryAssumption
  <2>2. CutOut(public, OldestRows(public, zero, ClientLimit), Directory!Oldest(public), page)
    BY <2>1, <1>5, OldestPage
  <2>. QED
    BY <2>2 DEF CutOut
<1>7. page \in Seq(Rooms)
  BY <1>4, <1>6
<1>8. /\ ListerTypes'
      /\ lister'.op = "client directory" /\ lister'.step = "info" /\ lister'.offset = lister.offset
      /\ lister'.todo = page /\ lister'.more = FALSE /\ lister'.seen = lister.seen
      /\ lister'.base = lister.base /\ lister'.left = lister.left /\ lister'.came = lister.came
  BY <1>1, <1>3, <1>7, SelectTypes
<1>9. Cardinality(lister.base \cup lister.came) <= ClientLimit => public \subseteq Directory!ToSet(page)
  <2>1. SUFFICES ASSUME Cardinality(lister.base \cup lister.came) <= ClientLimit,
                          NEW r \in public PROVE r \in Directory!ToSet(page)
    OBVIOUS
  <2>2. lister.base \cup lister.came \in SUBSET Rooms /\ public \subseteq lister.base \cup lister.came
    BY <1>1, <1>4 DEF ListerTypes, ClientInv
  <2>3. Cardinality(public) <= ClientLimit
    BY <2>1, <2>2, SmallerUnion
  <2>4. Cardinality(Directory!Below(public, r)) \in Nat
          /\ Cardinality(Directory!Below(public, r)) < Cardinality(public) /\ Cardinality(public) \in Nat
    BY <1>4, RankBelowSize
  <2>. QED
    BY <1>2, <1>6, <2>3, <2>4, DirectoryAssumption DEF OldestRows
<1>10. ClientInv'
  BY <1>1, <1>4, <1>8, <1>9 DEF ClientInv, KnownRows
<1>. QED
  BY <1>4, <1>8, <1>10 DEF ListInv, DirectoryInv, SpaceInv, ClientSpaceInv

LEMMA SelectChildrenKeeps ==
  ASSUME ListInv, Directory!SelectChildren
  PROVE  ListInv'
<1>1. lister.op = "space" /\ lister.step = "select" /\ ListReading
  BY DEF Directory!SelectChildren, ListReading
<1>2. PICK page, live, rows, more, o, l :
        /\ page = Directory!Page(Directory!Oldest(Directory!ChildRows), o, l)
           /\ live = {r \in Directory!ToSet(page) : kids[r] = "via"} /\ rows = Directory!Oldest(live)
        /\ more = (Len(Directory!Oldest(Directory!ChildRows)) > o + l) /\ o = lister.offset /\ l = lister.limit
  OBVIOUS
<1>3. more \in BOOLEAN /\ Directory!Selected(rows, more)
  <2>1. Directory!Selected(
          Directory!Oldest({r \in Directory!ToSet(Directory!Page(Directory!Oldest(Directory!ChildRows), o, l)) :
                              kids[r] = "via"}),
          Len(Directory!Oldest(Directory!ChildRows)) > o + l)
    BY <1>2 DEF Directory!SelectChildren
  <2>. QED
    BY <1>2, <2>1
<1>4. RoomTypes /\ RoomTypes' /\ Directory!ChildRows' = Directory!ChildRows /\ ViaRooms' = ViaRooms
        /\ ListerTypes
  BY <1>1, ListReadingKeeps
<1>5. Directory!ChildRows \in SUBSET Rooms /\ Directory!ChildRows \in SUBSET Nat
        /\ IsFiniteSet(Directory!ChildRows) /\ o \in Nat /\ l \in Nat
  <2>1. Directory!ChildRows \in SUBSET Rooms
    BY DEF Directory!ChildRows
  <2>. QED
    BY <1>2, <1>4, <2>1, DirectoryAssumption, FS_Subset DEF ListerTypes
<1>6. Len(Directory!Oldest(Directory!ChildRows)) = Cardinality(Directory!ChildRows)
        /\ Directory!ToSet(page) = OldestRows(Directory!ChildRows, o, l)
  <2>1. page = Directory!Page(Directory!Oldest(Directory!ChildRows), o, l)
    BY <1>2
  <2>2. CutOut(Directory!ChildRows, OldestRows(Directory!ChildRows, o, l),
          Directory!Oldest(Directory!ChildRows), page)
    BY <2>1, <1>5, OldestPage
  <2>. QED
    BY <2>2 DEF CutOut
<1>7. live \in SUBSET Rooms /\ rows \in Seq(Rooms) /\ Directory!ToSet(rows) = live
  <2>1. live \subseteq Directory!ChildRows
    BY <1>2, <1>6 DEF OldestRows
  <2>2. live \in SUBSET Nat /\ IsFiniteSet(live) /\ live \in SUBSET Rooms
    BY <1>5, <2>1, FS_Subset
  <2>3. rows \in Seq(live) /\ Directory!ToSet(rows) = live
    BY <1>2, <2>2, OldestAll
  <2>4. live \subseteq Rooms
    BY <2>2
  <2>5. rows \in Seq(Rooms)
    BY <2>3, <2>4
  <2>. QED
    BY <2>3, <2>4, <2>5
<1>8. /\ ListerTypes'
      /\ lister'.op = "space" /\ lister'.step = "info" /\ lister'.limit = l /\ lister'.offset = o
      /\ lister'.todo = rows /\ lister'.more = more /\ lister'.seen = lister.seen
      /\ lister'.base = lister.base /\ lister'.left = lister.left
  BY <1>1, <1>2, <1>3, <1>7, SelectTypes
<1>9. SpaceInv /\ Directory!ToSet(lister.todo) = {}
  BY <1>1, <1>4, NoRows DEF ListInv, ListerTypes
<1>10. KnownRows(lister) = lister.seen /\ KnownRows(lister') = lister.seen \cup live
       /\ PageEnd(lister) = o /\ PageEnd(lister') = o + l
  BY <1>1, <1>2, <1>7, <1>8, <1>9 DEF KnownRows, PageEnd
<1>11. lister.base \ lister.left \subseteq ViaRooms
  BY <1>1, <1>9 DEF SpaceInv
<1>12. ASSUME NEW r \in lister.base \ lister.left
       PROVE  /\ r \in lister.seen \/ r \in live
                 \/ Cardinality(Directory!Below(Directory!ChildRows, r)) >= o + l
              /\ ~more => r \in lister.seen \/ r \in live
  <2>1. PICK k, n : k = Cardinality(Directory!Below(Directory!ChildRows, r))
               /\ n = Cardinality(Directory!ChildRows)
    OBVIOUS
  <2>2. r \in Directory!ChildRows /\ kids[r] = "via"
    BY <1>11 DEF ViaRooms, Directory!ChildRows
  <2>3. k \in Nat /\ n \in Nat /\ k < n
    BY <1>5, <2>1, <2>2, RankBelowSize
  <2>4. r \in lister.seen \/ k >= o
    BY <1>1, <1>9, <1>10, <2>1 DEF SpaceInv
  <2>5. r \in live <=> o <= k /\ k < o + l
    BY <1>2, <1>6, <2>1, <2>2 DEF OldestRows
  <2>6. ~more => ~(n > o + l)
    BY <1>2, <1>6, <2>1
  <2>7. r \in lister.seen \/ r \in live \/ k >= o + l
    BY <1>5, <2>3, <2>4, <2>5
  <2>8. ~more => ~(k >= o + l)
    BY <1>5, <2>3, <2>6
  <2>. QED
    BY <2>1, <2>7, <2>8
<1>13. SpaceInv'
  BY <1>4, <1>8, <1>10, <1>11, <1>12 DEF SpaceInv
<1>. QED
  BY <1>4, <1>8, <1>13 DEF ListInv, DirectoryInv, ClientInv, ClientSpaceInv

LEMMA SelectSpaceKeeps ==
  ASSUME ListInv, Directory!SelectSpace
  PROVE  ListInv'
<1>1. lister.op = "client space" /\ lister.step = "select" /\ ListReading
  BY DEF Directory!SelectSpace, ListReading
<1>2. PICK via, rows : via = {r \in Rooms : kids[r] = "via"} /\ rows = Directory!Oldest(via)
  OBVIOUS
<1>3. Directory!Selected(rows, FALSE)
  BY <1>2 DEF Directory!SelectSpace
<1>4. RoomTypes /\ RoomTypes' /\ ViaRooms' = ViaRooms /\ ListerTypes
  BY <1>1, ListReadingKeeps
<1>5. via \in SUBSET Rooms /\ via = ViaRooms
  BY <1>2 DEF ViaRooms
<1>6. rows \in Seq(Rooms) /\ Directory!ToSet(rows) = ViaRooms
  <2>1. via \in SUBSET Nat /\ IsFiniteSet(via)
    BY <1>5, DirectoryAssumption, FS_Subset
  <2>2. rows \in Seq(via) /\ Directory!ToSet(rows) = via
    BY <1>2, <2>1, OldestAll
  <2>. QED
    BY <1>5, <2>2
<1>7. /\ ListerTypes' /\ lister'.op = "client space" /\ lister'.todo = rows /\ lister'.seen = lister.seen
      /\ lister'.base = lister.base /\ lister'.left = lister.left
  BY <1>1, <1>3, <1>6, SelectTypes
<1>8. lister.base \ lister.left \subseteq ViaRooms
  BY <1>1 DEF ListInv, ClientSpaceInv
<1>9. ClientSpaceInv'
  BY <1>4, <1>6, <1>7, <1>8 DEF ClientSpaceInv, KnownRows
<1>. QED
  BY <1>4, <1>7, <1>9 DEF ListInv, DirectoryInv, ClientInv, SpaceInv

-----------------------------------------------------------------------------
(* The first row of a page, and the rest. *)
Distinct(rows) == \A i, j \in DOMAIN rows : rows[i] = rows[j] => i = j

LEMMA HeadAndTail ==
  ASSUME NEW rows \in Seq(Rooms), rows # <<>>, NEW r, r = Head(rows), NEW rest, rest = Tail(rows)
  PROVE  /\ r \in Rooms /\ rest \in Seq(Rooms) /\ Directory!ToSet(rows) = {r} \cup Directory!ToSet(rest)
         /\ Distinct(rows) => Distinct(rest) /\ r \notin Directory!ToSet(rest)
<1>1. Len(rows) \in Nat \ {0} /\ rest \in Seq(Rooms) /\ Len(rest) = Len(rows) - 1
      /\ \A i \in 1 .. Len(rest) : rest[i] = rows[i + 1]
  BY EmptySeq, HeadTailProperties
<1>2. r = rows[1] /\ DOMAIN rows = 1 .. Len(rows) /\ DOMAIN rest = 1 .. Len(rest)
  BY <1>1
<1>3. r \in Rooms /\ 1 \in DOMAIN rows
  BY <1>1, <1>2
<1>4. ASSUME NEW q \in Directory!ToSet(rows) PROVE q = r \/ q \in Directory!ToSet(rest)
  <2>1. PICK i \in DOMAIN rows : q = rows[i]
    BY DEF Directory!ToSet
  <2>2. i = 1 \/ (i - 1 \in DOMAIN rest /\ rest[i - 1] = rows[i])
    BY <1>1, <1>2
  <2>. QED
    BY <1>2, <2>1, <2>2 DEF Directory!ToSet
<1>5. \A i \in DOMAIN rest : i + 1 \in DOMAIN rows /\ rest[i] = rows[i + 1] /\ i \in Nat /\ i >= 1
  BY <1>1, <1>2
<1>6. Directory!ToSet(rest) \subseteq Directory!ToSet(rows) /\ r \in Directory!ToSet(rows)
  BY <1>2, <1>3, <1>5 DEF Directory!ToSet
<1>7. ASSUME \A i, j \in DOMAIN rows : rows[i] = rows[j] => i = j
      PROVE  (\A i, j \in DOMAIN rest : rest[i] = rest[j] => i = j) /\ r \notin Directory!ToSet(rest)
  <2>1. ASSUME NEW i \in DOMAIN rest, NEW j \in DOMAIN rest, rest[i] = rest[j] PROVE i = j
    <3>1. i + 1 = j + 1
      BY <1>5, <1>7, <2>1
    <3>. QED
      BY <1>5, <3>1
  <2>2. ASSUME r \in Directory!ToSet(rest) PROVE FALSE
    <3>1. PICK i \in DOMAIN rest : rest[i] = r
      BY <2>2 DEF Directory!ToSet
    <3>2. i + 1 = 1
      BY <1>2, <1>3, <1>5, <1>7, <3>1
    <3>. QED
      BY <1>5, <3>2
  <2>. QED
    BY <2>1, <2>2
<1>. QED
  BY <1>1, <1>3, <1>4, <1>6, <1>7 DEF Distinct

LEMMA ReadInfoKeeps ==
  ASSUME ListInv, Directory!ReadInfo
  PROVE  ListInv'
<1>1. lister.step = "info" /\ lister.todo # <<>> /\ ListReading
  BY DEF Directory!ReadInfo, ListReading
<1>2. PICK ghosts : ghosts = lister.ghosts \cup Directory!Unknown(Head(lister.todo))
  OBVIOUS
<1>3. lister' = [lister EXCEPT !.ghosts = ghosts]
  BY <1>2 DEF Directory!ReadInfo
<1>4. RoomTypes /\ RoomTypes' /\ Directory!ChildRows' = Directory!ChildRows /\ ViaRooms' = ViaRooms
        /\ public' = public /\ exists' = exists /\ ListerTypes
  BY <1>1, ListReadingKeeps DEF ListReading
<1>5. ghosts \subseteq Rooms
  <2>1. Head(lister.todo) \in Rooms
    BY <1>1, <1>4, HeadAndTail DEF ListerTypes
  <2>. QED
    BY <1>2, <1>4, <2>1 DEF ListerTypes, Directory!Unknown
<1>6. lister.op # "none"
  <2>1. Directory!Idle.step = "none"
    BY DEF Directory!Idle
  <2>. QED
    BY <1>1, <1>4, <2>1 DEF ListerTypes
<1>7. /\ lister'.op = lister.op /\ lister'.step = "info" /\ lister'.limit = lister.limit
         /\ lister'.offset = lister.offset
      /\ lister'.todo = lister.todo /\ lister'.more = lister.more /\ lister'.seen = lister.seen
         /\ lister'.twice = lister.twice
      /\ lister'.ghosts = ghosts /\ lister'.base = lister.base /\ lister'.left = lister.left
         /\ lister'.came = lister.came
  BY <1>1, <1>3, <1>4 DEF ListerTypes
<1>8. ListerTypes'
  <2>1. lister' = [op |-> lister'.op, step |-> lister'.step, limit |-> lister'.limit, offset |-> lister'.offset,
               todo |-> lister'.todo, more |-> lister'.more, seen |-> lister'.seen, twice |-> lister'.twice,
               ghosts |-> lister'.ghosts, base |-> lister'.base, left |-> lister'.left, came |-> lister'.came]
    BY <1>3, <1>4 DEF ListerTypes
  <2>2. lister'.more \in BOOLEAN /\ lister'.twice \in BOOLEAN
    BY <1>4, <1>7, Zenon DEF ListerTypes
  <2>3. lister.op # "client search"
    BY <1>1, <1>4 DEF ListerTypes
  <2>4. /\ lister'.limit \in Nat /\ lister'.offset \in Nat /\ lister'.todo \in Seq(Rooms)
        /\ lister'.seen \subseteq Rooms /\ lister'.ghosts \subseteq Rooms
        /\ lister'.base \subseteq Rooms /\ lister'.left \subseteq Rooms /\ lister'.came \subseteq Rooms
    BY <1>4, <1>5, <1>7 DEF ListerTypes
  <2>5. /\ lister'.op \in {"none", "directory", "client directory", "client search", "space", "client space"}
        /\ lister'.step = "info" /\ lister'.op # "none" /\ lister'.op # "client search"
    BY <1>4, <1>6, <1>7, <2>3 DEF ListerTypes
  <2>. QED
    BY <2>1, <2>2, <2>4, <2>5 DEF ListerTypes
<1>9. KnownRows(lister') = KnownRows(lister) /\ PageEnd(lister') = PageEnd(lister)
  BY <1>1, <1>7 DEF KnownRows, PageEnd
<1>10. DirectoryInv'
  BY <1>1, <1>4, <1>7, <1>9 DEF ListInv, DirectoryInv, NothingLost, NothingTwice
<1>11. ClientInv' /\ SpaceInv' /\ ClientSpaceInv'
  BY <1>1, <1>4, <1>7, <1>9 DEF ListInv, ClientInv, SpaceInv, ClientSpaceInv
<1>. QED
  BY <1>4, <1>8, <1>10, <1>11 DEF ListInv

LEMMA PublicInfoKeeps ==
  ASSUME ListInv, Directory!PublicInfo
  PROVE  ListInv'
<1>1. lister.op # "client space" /\ lister.step = "info" /\ lister.todo # <<>> /\ ListReading
  BY DEF Directory!PublicInfo, ListReading
<1>2. PICK r, rest, seen, twice, ghosts :
        /\ r = Head(lister.todo) /\ rest = Tail(lister.todo) /\ seen = lister.seen \cup {r}
        /\ twice = (lister.twice \/ r \in lister.seen)
        /\ ghosts = lister.ghosts \cup Directory!Unknown(r)
  OBVIOUS
<1>3. lister' = [lister EXCEPT !.todo = rest, !.seen = seen, !.twice = twice, !.ghosts = ghosts]
  BY <1>2 DEF Directory!PublicInfo
<1>4. RoomTypes /\ RoomTypes' /\ Directory!ChildRows' = Directory!ChildRows /\ ViaRooms' = ViaRooms
        /\ public' = public /\ exists' = exists /\ ListerTypes
  BY <1>1, ListReadingKeeps DEF ListReading
<1>5. lister.todo \in Seq(Rooms)
  BY <1>4 DEF ListerTypes
<1>6. /\ r \in Rooms /\ rest \in Seq(Rooms) /\ Directory!ToSet(lister.todo) = {r} \cup Directory!ToSet(rest)
      /\ Distinct(lister.todo) => Distinct(rest) /\ r \notin Directory!ToSet(rest)
  BY <1>1, <1>2, <1>5, HeadAndTail
<1>7. lister.op # "none"
  <2>1. Directory!Idle.step = "none"
    BY DEF Directory!Idle
  <2>. QED
    BY <1>1, <1>4, <2>1 DEF ListerTypes
<1>8. twice \in BOOLEAN /\ seen \subseteq Rooms /\ ghosts \subseteq Rooms
  BY <1>2, <1>4, <1>6 DEF ListerTypes, Directory!Unknown
<1>9. /\ lister'.op = lister.op /\ lister'.step = "info" /\ lister'.limit = lister.limit
         /\ lister'.offset = lister.offset
      /\ lister'.todo = rest /\ lister'.more = lister.more /\ lister'.seen = seen /\ lister'.twice = twice
      /\ lister'.ghosts = ghosts /\ lister'.base = lister.base /\ lister'.left = lister.left
         /\ lister'.came = lister.came
  BY <1>1, <1>3, <1>4 DEF ListerTypes
<1>10. ListerTypes'
  <2>1. lister' = [op |-> lister'.op, step |-> lister'.step, limit |-> lister'.limit, offset |-> lister'.offset,
               todo |-> lister'.todo, more |-> lister'.more, seen |-> lister'.seen, twice |-> lister'.twice,
               ghosts |-> lister'.ghosts, base |-> lister'.base, left |-> lister'.left, came |-> lister'.came]
    BY <1>3, <1>4 DEF ListerTypes
  <2>. QED
    BY <1>1, <1>4, <1>6, <1>7, <1>8, <1>9, <2>1 DEF ListerTypes
<1>11. KnownRows(lister') = KnownRows(lister) /\ PageEnd(lister') = PageEnd(lister)
  BY <1>1, <1>2, <1>6, <1>9 DEF KnownRows, PageEnd
<1>12. DirectoryInv'
  <2>1. SUFFICES ASSUME lister.op = "directory" PROVE DirectoryInv'
    BY <1>9 DEF DirectoryInv
  <2>2. NothingLost(lister, public) /\ NothingTwice(lister, public)
    BY <2>1 DEF ListInv, DirectoryInv
  <2>3. NothingLost(lister', public')
    BY <1>1, <1>4, <1>9, <1>11, <2>2 DEF NothingLost
  <2>4. NothingTwice(lister', public')
    BY <1>1, <1>2, <1>4, <1>6, <1>9, <1>11, <2>2 DEF NothingTwice, Distinct
  <2>. QED
    BY <2>3, <2>4 DEF DirectoryInv
<1>13. ClientInv'
  BY <1>1, <1>4, <1>9, <1>11 DEF ListInv, ClientInv
<1>14. SpaceInv'
  BY <1>1, <1>4, <1>9, <1>11 DEF ListInv, SpaceInv
<1>. QED
  BY <1>1, <1>4, <1>9, <1>10, <1>12, <1>13, <1>14 DEF ListInv, ClientSpaceInv

LEMMA SpaceInfoKeeps ==
  ASSUME ListInv, Directory!SpaceInfo
  PROVE  ListInv'
<1>1. lister.op = "client space" /\ lister.step = "info" /\ lister.todo # <<>> /\ ListReading
  BY DEF Directory!SpaceInfo, ListReading
<1>2. PICK r, rest, room, seen, more :
        /\ r = Head(lister.todo) /\ rest = Tail(lister.todo) /\ room = Cardinality(lister.seen) + 1
        /\ seen = IF r \in exists /\ room < lister.limit THEN lister.seen \cup {r} ELSE lister.seen
        /\ more = (lister.more \/ (r \in exists /\ room >= lister.limit))
  OBVIOUS
<1>3. lister' = [lister EXCEPT !.todo = rest, !.seen = seen, !.more = more]
  BY <1>2, SameSize DEF Directory!SpaceInfo
<1>4. RoomTypes /\ RoomTypes' /\ ViaRooms' = ViaRooms /\ exists' = exists /\ ListerTypes
  BY <1>1, ListReadingKeeps DEF ListReading
<1>5. lister.todo \in Seq(Rooms)
  BY <1>4 DEF ListerTypes
<1>6. r \in Rooms /\ rest \in Seq(Rooms) /\ Directory!ToSet(lister.todo) = {r} \cup Directory!ToSet(rest)
  BY <1>1, <1>2, <1>5, HeadAndTail
<1>7. more \in BOOLEAN /\ seen \subseteq Rooms /\ lister.seen \subseteq seen
  BY <1>2, <1>4, <1>6 DEF ListerTypes
<1>8. /\ lister'.op = "client space" /\ lister'.step = "info" /\ lister'.limit = lister.limit
         /\ lister'.offset = lister.offset
      /\ lister'.todo = rest /\ lister'.more = more /\ lister'.seen = seen /\ lister'.twice = lister.twice
      /\ lister'.ghosts = lister.ghosts /\ lister'.base = lister.base /\ lister'.left = lister.left
      /\ lister'.came = lister.came
  BY <1>1, <1>3, <1>4 DEF ListerTypes
<1>9. ListerTypes'
  <2>1. lister' = [op |-> lister'.op, step |-> lister'.step, limit |-> lister'.limit, offset |-> lister'.offset,
               todo |-> lister'.todo, more |-> lister'.more, seen |-> lister'.seen, twice |-> lister'.twice,
               ghosts |-> lister'.ghosts, base |-> lister'.base, left |-> lister'.left, came |-> lister'.came]
    BY <1>3, <1>4 DEF ListerTypes
  <2>. QED
    BY <1>1, <1>4, <1>6, <1>7, <1>8, <2>1 DEF ListerTypes
<1>10. ~more => ~lister.more /\ (r \in seen \/ r \notin exists)
  <2>1. room \in Nat \/ ~(r \in exists)
    <3>1. IsFiniteSet(lister.seen)
      BY <1>4, DirectoryAssumption, FS_Subset DEF ListerTypes
    <3>. QED
      BY <1>2, <3>1, FS_CardinalityType
  <2>2. lister.limit \in Nat
    BY <1>4 DEF ListerTypes
  <2>3. r \notin exists \/ room < lister.limit \/ room >= lister.limit
    BY <2>1, <2>2
  <2>4. r \in exists /\ room < lister.limit => r \in seen
    BY <1>2
  <2>. QED
    BY <1>2, <2>3, <2>4
<1>11. ~more => KnownRows(lister) \subseteq KnownRows(lister') \cup {r}
  BY <1>6, <1>7, <1>8 DEF KnownRows
<1>12. r \in seen => r \in KnownRows(lister')
  BY <1>8 DEF KnownRows
<1>13. ClientSpaceInv'
  BY <1>1, <1>4, <1>8, <1>10, <1>11, <1>12 DEF ListInv, ClientSpaceInv
<1>. QED
  BY <1>4, <1>8, <1>9, <1>13 DEF ListInv, DirectoryInv, ClientInv, SpaceInv

LEMMA AnswerPageKeeps ==
  ASSUME ListInv, Directory!AnswerPage
  PROVE  ListInv'
<1>1. lister.step = "info" /\ lister.todo = <<>> /\ ListReading
  BY DEF Directory!AnswerPage, ListReading
<1>2. PICK on, offset : on = (lister.more /\ lister.op # "client space")
             /\ offset = lister.offset + lister.limit
  OBVIOUS
<1>3. lister' = IF on THEN [lister EXCEPT !.step = "select",
        !.offset = offset] ELSE [lister EXCEPT !.step = "done"]
  BY <1>2 DEF Directory!AnswerPage
<1>4. RoomTypes /\ RoomTypes' /\ Directory!ChildRows' = Directory!ChildRows /\ ViaRooms' = ViaRooms
        /\ public' = public /\ exists' = exists /\ ListerTypes
  BY <1>1, ListReadingKeeps DEF ListReading
<1>5. on => lister.more /\ lister.op # "client space"
  BY <1>2
<1>6. ~on => ~lister.more \/ lister.op = "client space"
  BY <1>2
<1>7. lister.op # "none"
  <2>1. Directory!Idle.step = "none"
    BY DEF Directory!Idle
  <2>. QED
    BY <1>1, <1>4, <2>1 DEF ListerTypes
<1>8. offset \in Nat
  <2>1. PageEnd(lister) = offset
    BY <1>1, <1>2 DEF PageEnd
  <2>. QED
    BY <1>4, <2>1, EndNat
<1>9. /\ lister'.op = lister.op /\ lister'.limit = lister.limit
      /\ lister'.todo = <<>> /\ lister'.todo = lister.todo /\ lister'.more = lister.more
         /\ lister'.seen = lister.seen
      /\ lister'.twice = lister.twice /\ lister'.ghosts = lister.ghosts /\ lister'.base = lister.base
      /\ lister'.left = lister.left /\ lister'.came = lister.came
      /\ on => lister'.step = "select" /\ lister'.offset = offset
      /\ ~on => lister'.step = "done" /\ lister'.offset = lister.offset
  BY <1>1, <1>3, <1>4 DEF ListerTypes
<1>10. ListerTypes'
  <2>1. lister' = [op |-> lister'.op, step |-> lister'.step, limit |-> lister'.limit, offset |-> lister'.offset,
               todo |-> lister'.todo, more |-> lister'.more, seen |-> lister'.seen, twice |-> lister'.twice,
               ghosts |-> lister'.ghosts, base |-> lister'.base, left |-> lister'.left, came |-> lister'.came]
    BY <1>3, <1>4 DEF ListerTypes
  <2>2. lister'.offset \in Nat /\ lister'.step \in {"select", "done"}
    BY <1>4, <1>8, <1>9 DEF ListerTypes
  <2>3. lister.op # "client search"
    BY <1>1, <1>4 DEF ListerTypes
  <2>. QED
    BY <1>4, <1>7, <1>9, <2>1, <2>2, <2>3 DEF ListerTypes
<1>11. KnownRows(lister') = KnownRows(lister)
  BY <1>9 DEF KnownRows
<1>12. PageEnd(lister) = offset /\ (on => PageEnd(lister') = offset)
  BY <1>1, <1>2, <1>9 DEF PageEnd
<1>13. DirectoryInv'
  <2>1. SUFFICES ASSUME lister.op = "directory" PROVE DirectoryInv'
    BY <1>9 DEF DirectoryInv
  <2>2. NothingLost(lister, public) /\ NothingTwice(lister, public)
    BY <2>1 DEF ListInv, DirectoryInv
  <2>3. NothingLost(lister', public')
    BY <1>1, <1>4, <1>6, <1>9, <1>11, <1>12, <2>1, <2>2 DEF NothingLost
  <2>4. NothingTwice(lister', public')
    BY <1>1, <1>4, <1>9, <1>11, <1>12, <2>2 DEF NothingTwice
  <2>. QED
    BY <2>3, <2>4 DEF DirectoryInv
<1>14. ClientInv'
  BY <1>1, <1>4, <1>5, <1>9, <1>11 DEF ListInv, ClientInv
<1>15. SpaceInv'
  BY <1>1, <1>4, <1>6, <1>9, <1>11, <1>12 DEF ListInv, SpaceInv
<1>16. ClientSpaceInv'
  BY <1>1, <1>4, <1>9, <1>11 DEF ListInv, ClientSpaceInv
<1>. QED
  BY <1>4, <1>10, <1>13, <1>14, <1>15, <1>16 DEF ListInv

LEMMA ListStep == ListInv /\ [Directory!DirectoryNext]_(Directory!directoryVars) => ListInv'
<1>1. ASSUME ListInv, UNCHANGED Directory!directoryVars PROVE ListInv'
  BY <1>1, SameLists DEF Directory!directoryVars
<1>2. ASSUME ListInv, Directory!DirectoryNext PROVE ListInv'
  <2>1. CASE \E r \in Rooms : \/ \E listed \in BOOLEAN : Directory!CreateRoom(r, listed)
                              \/ Directory!CreateEvents(r) \/ Directory!PurgeEvents(r)
                              \/ Directory!PurgeRoom(r) \/ Directory!SetVisibility(r)
                              \/ \E v \in {"via", "emptied"} : Directory!SetChild(r, v)
    BY <1>2, <2>1, RoomChangesKeep
  <2>2. CASE \E op \in {"directory", "client directory", "space", "client space"},
          limit \in ListLimits : Directory!Open(op, limit)
    BY <1>2, <2>2, OpenListKeeps
  <2>3. CASE Directory!SelectDirectory \/ Directory!SelectForClient \/ Directory!SearchForClient
          \/ Directory!SelectChildren \/ Directory!SelectSpace
    BY <1>2, <2>3, SelectDirectoryKeeps, SelectForClientKeeps, SearchKeeps, SelectChildrenKeeps,
         SelectSpaceKeeps
  <2>4. CASE Directory!ReadInfo \/ Directory!PublicInfo \/ Directory!SpaceInfo \/ Directory!AnswerPage
               \/ Directory!Close
    BY <1>2, <2>4, ReadInfoKeeps, PublicInfoKeeps, SpaceInfoKeeps, AnswerPageKeeps, CloseListKeeps
  <2>. QED
    BY <1>2, <2>1, <2>2, <2>3, <2>4 DEF Directory!DirectoryNext
<1>. QED
  BY <1>1, <1>2

-----------------------------------------------------------------------------
(* What a page can say of its rooms. *)

(* A room whose creation or deletion is unfinished while a list is read is remembered, and of any other room that
   is in the list, or was when its page was selected, all is there. *)
UnfinishedInv ==
  /\ making \subseteq exists /\ purging \subseteq exists /\ making \cap purging = {}
  /\ lister.op # "none" => making \cup purging \subseteq busy
  /\ lister.op = "directory" =>
       lister.ghosts \subseteq busy /\ Directory!ToSet(lister.todo) \subseteq exists \cup busy

LEMMA RoomChangesRemembered ==
  ASSUME ListInv, UnfinishedInv, NEW r \in Rooms,
         (\E listed \in BOOLEAN : Directory!CreateRoom(r, listed)) \/ Directory!CreateEvents(r)
           \/ Directory!PurgeEvents(r) \/ Directory!PurgeRoom(r) \/ Directory!SetVisibility(r)
           \/ (\E v \in {"via", "emptied"} : Directory!SetChild(r, v))
  PROVE  UnfinishedInv'
<1>1. ListerTypes
  BY DEF ListInv
<1>2. lister.op # "none" => lister # Directory!Idle
  BY DEF Directory!Idle
<1>3. ASSUME Directory!Leaves(r) \/ Directory!Comes(r)
      PROVE  /\ lister'.op = lister.op
             /\ lister.op # "none" => lister'.ghosts = lister.ghosts /\ lister'.todo = lister.todo
  BY <1>1, <1>3, RememberTypes, Remembers DEF SameList
<1>4. CASE \E listed \in BOOLEAN : Directory!CreateRoom(r, listed)
  <2>1. /\ r \notin exists /\ exists' = exists \cup {r} /\ making' = making \cup {r} /\ purging' = purging
        /\ Directory!Comes(r) /\ (lister.op # "none" => busy' = busy \cup {r})
    BY <1>2, <1>4 DEF Directory!CreateRoom, Directory!Busy
  <2>. QED
    BY <1>3, <2>1 DEF UnfinishedInv
<1>5. CASE Directory!CreateEvents(r)
  BY <1>5 DEF Directory!CreateEvents, UnfinishedInv
<1>6. CASE Directory!PurgeEvents(r)
  <2>1. /\ r \in exists /\ exists' = exists /\ making' = making \ {r} /\ purging' = purging \cup {r}
        /\ lister' = lister /\ (lister.op # "none" => busy' = busy \cup {r})
    BY <1>2, <1>6 DEF Directory!PurgeEvents, Directory!Busy
  <2>. QED
    BY <2>1 DEF UnfinishedInv
<1>7. CASE Directory!PurgeRoom(r)
  <2>1. /\ r \in purging /\ exists' = exists \ {r} /\ making' = making /\ purging' = purging \ {r}
        /\ Directory!Leaves(r) /\ busy' = busy
    BY <1>7 DEF Directory!PurgeRoom
  <2>. QED
    BY <1>3, <2>1 DEF UnfinishedInv
<1>8. CASE Directory!SetVisibility(r)
  <2>1. (Directory!Leaves(r) \/ Directory!Comes(r)) /\ exists' = exists /\ making' = making
          /\ purging' = purging /\ busy' = busy
    BY <1>8 DEF Directory!SetVisibility
  <2>. QED
    BY <1>3, <2>1 DEF UnfinishedInv
<1>9. CASE \E v \in {"via", "emptied"} : Directory!SetChild(r, v)
  <2>1. (Directory!Leaves(r) \/ Directory!Comes(r)) /\ exists' = exists /\ making' = making
          /\ purging' = purging /\ busy' = busy
    BY <1>9 DEF Directory!SetChild
  <2>. QED
    BY <1>3, <2>1 DEF UnfinishedInv
<1>. QED
  BY <1>4, <1>5, <1>6, <1>7, <1>8, <1>9

(* A page of the directory has rooms with a row. *)
LEMMA SelectedExist ==
  ASSUME ListInv, Directory!SelectDirectory
  PROVE  lister'.ghosts = lister.ghosts /\ lister'.op = lister.op /\ Directory!ToSet(lister'.todo) \subseteq exists
<1>1. PICK page, more, o, l : /\ page = Directory!Page(Directory!Newest(public), o, l)
                              /\ more = (Len(Directory!Newest(public)) > o + l)
                              /\ o = lister.offset /\ l = lister.limit
  OBVIOUS
<1>2. Directory!Selected(page, more)
  BY <1>1 DEF Directory!SelectDirectory
<1>3. ListerTypes /\ public \subseteq exists /\ public \in SUBSET Nat /\ IsFiniteSet(public)
  BY DirectoryAssumption, FS_Subset DEF ListInv, RoomTypes
<1>4. o \in Nat /\ l \in Nat
  BY <1>1, <1>3 DEF ListerTypes
<1>5. CutOut(public, NewestRows(public, o, l), Directory!Newest(public), page)
  BY <1>1, <1>3, <1>4, NewestPage
<1>6. Directory!ToSet(page) \subseteq public
  BY <1>5 DEF CutOut, NewestRows
<1>7. lister' = [lister EXCEPT !.step = "info", !.todo = page, !.more = more]
  BY <1>2 DEF Directory!Selected
<1>8. lister'.todo = page /\ lister'.ghosts = lister.ghosts /\ lister'.op = lister.op
  BY <1>3, <1>7 DEF ListerTypes
<1>. QED
  BY <1>3, <1>6, <1>8

(* An entry without all of a room is of a room whose creation or deletion is, or was, unfinished. *)
LEMMA InfoRemembered ==
  ASSUME ListInv, UnfinishedInv, Directory!ReadInfo \/ Directory!PublicInfo
  PROVE  UnfinishedInv'
<1>1. lister.todo # <<>> /\ lister.step = "info" /\ exists' = exists /\ making' = making /\ purging' = purging
        /\ busy' = busy
  BY DEF Directory!ReadInfo, Directory!PublicInfo
<1>2. PICK r, rest, unknown, seen, twice : /\ r = Head(lister.todo) /\ rest = Tail(lister.todo)
             /\ unknown = lister.ghosts \cup Directory!Unknown(r)
             /\ seen = lister.seen \cup {r} /\ twice = (lister.twice \/ r \in lister.seen)
  OBVIOUS
<1>3. \/ lister' = [lister EXCEPT !.ghosts = unknown]
      \/ lister' = [lister EXCEPT !.todo = rest, !.seen = seen, !.twice = twice, !.ghosts = unknown]
  BY <1>2 DEF Directory!ReadInfo, Directory!PublicInfo
<1>4. ListerTypes /\ lister.todo \in Seq(Rooms)
  BY DEF ListInv, ListerTypes
<1>5. Directory!ToSet(lister.todo) = {r} \cup Directory!ToSet(rest)
  BY <1>1, <1>2, <1>4, HeadAndTail
<1>6. lister'.op = lister.op /\ lister'.ghosts = unknown /\ lister'.todo \in {lister.todo, rest}
  BY <1>3, <1>4 DEF ListerTypes
<1>7. lister.op = "directory" => Directory!Unknown(r) \subseteq busy
  BY <1>5 DEF UnfinishedInv, Directory!Unknown, Directory!Known
<1>. QED
  BY <1>1, <1>2, <1>5, <1>6, <1>7 DEF UnfinishedInv

LEMMA ReadersRemember ==
  ASSUME ListInv, UnfinishedInv, ListReading, making' = making, purging' = purging, busy' = busy,
         lister'.op = lister.op,
         lister.op = "directory" => lister'.ghosts = lister.ghosts /\ lister'.todo = lister.todo
  PROVE  UnfinishedInv'
BY DEF ListReading, UnfinishedInv

LEMMA UnfinishedStep ==
  ListInv /\ UnfinishedInv /\ [Directory!DirectoryNext]_(Directory!directoryVars) => UnfinishedInv'
<1>. SUFFICES ASSUME ListInv, UnfinishedInv, [Directory!DirectoryNext]_(Directory!directoryVars)
              PROVE  UnfinishedInv'
  OBVIOUS
<1>1. CASE UNCHANGED Directory!directoryVars
  BY <1>1 DEF Directory!directoryVars, UnfinishedInv
<1>2. CASE \E r \in Rooms : \/ \E listed \in BOOLEAN : Directory!CreateRoom(r, listed)
                            \/ Directory!CreateEvents(r) \/ Directory!PurgeEvents(r)
                            \/ Directory!PurgeRoom(r) \/ Directory!SetVisibility(r)
                            \/ \E v \in {"via", "emptied"} : Directory!SetChild(r, v)
  BY <1>2, RoomChangesRemembered
<1>3. CASE \E op \in {"directory", "client directory", "space", "client space"},
             limit \in ListLimits : Directory!Open(op, limit)
  <2>1. PICK op \in {"directory", "client directory", "space", "client space"}, limit \in ListLimits :
          Directory!Open(op, limit)
    BY <1>3
  <2>2. PICK idle, base : idle = Directory!Idle /\ base = IF op \in {"directory", "client directory"} THEN public
                                                ELSE {r \in Rooms : kids[r] = "via"}
    OBVIOUS
  <2>8. lister' = [idle EXCEPT !.op = op, !.step = "select", !.limit = limit, !.base = base]
    BY <2>1, <2>2 DEF Directory!Open
  <2>3. idle = [op |-> "none", step |-> "none", limit |-> 0, offset |-> 0, todo |-> <<>>, more |-> FALSE,
         seen |-> {}, twice |-> FALSE, ghosts |-> {}, base |-> {}, left |-> {}, came |-> {}]
    BY <2>2 DEF Directory!Idle
  <2>4. lister'.ghosts = {} /\ lister'.todo = <<>>
    <3>1. lister' = [op |-> op, step |-> "select", limit |-> limit, offset |-> 0, todo |-> <<>>, more |-> FALSE,
             seen |-> {}, twice |-> FALSE, ghosts |-> {}, base |-> base, left |-> {}, came |-> {}]
      BY <2>3, <2>8
    <3>. QED
      BY <3>1
  <2>5. lister'.todo \in Seq(Rooms)
    BY <2>4, EmptySeq
  <2>7. Directory!ToSet(lister'.todo) = {}
    BY <2>4, <2>5, NoRows
  <2>6. exists' = exists /\ making' = making /\ purging' = purging /\ busy' = making \cup purging
    BY <2>1 DEF Directory!Open
  <2>. QED
    BY <2>4, <2>6, <2>7 DEF UnfinishedInv
<1>4. CASE Directory!SelectDirectory
  <2>1. exists' = exists /\ making' = making /\ purging' = purging /\ busy' = busy
    BY <1>4 DEF Directory!SelectDirectory
  <2>. QED
    BY <1>4, <2>1, SelectedExist DEF UnfinishedInv
<1>5. CASE Directory!SelectForClient \/ Directory!SelectChildren \/ Directory!SelectSpace
  <2>1. PICK rows, more : Directory!Selected(rows, more)
    BY <1>5 DEF Directory!SelectForClient, Directory!SelectChildren, Directory!SelectSpace
  <2>2. lister.op # "directory" /\ ListReading /\ making' = making /\ purging' = purging /\ busy' = busy
    BY <1>5 DEF Directory!SelectForClient, Directory!SelectChildren, Directory!SelectSpace, ListReading
  <2>3. lister'.op = lister.op
    BY <2>1 DEF Directory!Selected, ListInv, ListerTypes
  <2>. QED
    BY <2>2, <2>3, ReadersRemember
<1>6. CASE Directory!SearchForClient
  <2>1. PICK idle : lister' = [idle EXCEPT !.op = "client search", !.step = "done"] /\ idle = Directory!Idle
    BY <1>6 DEF Directory!SearchForClient
  <2>2. lister'.op = "client search"
    BY <2>1 DEF Directory!Idle
  <2>3. exists' = exists /\ making' = making /\ purging' = purging /\ busy' = making \cup purging
    BY <1>6 DEF Directory!SearchForClient
  <2>. QED
    BY <2>2, <2>3 DEF UnfinishedInv
<1>7. CASE Directory!ReadInfo \/ Directory!PublicInfo
  BY <1>7, InfoRemembered
<1>8. CASE Directory!SpaceInfo
  <2>1. PICK rest, seen, more : lister' = [lister EXCEPT !.todo = rest, !.seen = seen, !.more = more]
    BY <1>8, SameSize DEF Directory!SpaceInfo
  <2>2. lister'.op = lister.op
    BY <2>1 DEF ListInv, ListerTypes
  <2>3. lister.op = "client space" /\ ListReading /\ making' = making /\ purging' = purging /\ busy' = busy
    BY <1>8 DEF Directory!SpaceInfo, ListReading
  <2>. QED
    BY <2>2, <2>3, ReadersRemember
<1>9. CASE Directory!AnswerPage
  <2>1. PICK offset : \/ lister' = [lister EXCEPT !.step = "select", !.offset = offset]
                      \/ lister' = [lister EXCEPT !.step = "done"]
    BY <1>9 DEF Directory!AnswerPage
  <2>2. lister'.op = lister.op /\ lister'.ghosts = lister.ghosts /\ lister'.todo = lister.todo
    BY <2>1 DEF ListInv, ListerTypes
  <2>3. ListReading /\ making' = making /\ purging' = purging /\ busy' = busy
    BY <1>9 DEF Directory!AnswerPage, ListReading
  <2>. QED
    BY <2>2, <2>3, ReadersRemember
<1>10. CASE Directory!Close
  <2>1. exists' = exists /\ making' = making /\ purging' = purging /\ lister'.op = "none"
    BY <1>10 DEF Directory!Close, Directory!Idle
  <2>. QED
    BY <2>1 DEF UnfinishedInv
<1>. QED
  BY <1>1, <1>2, <1>3, <1>4, <1>5, <1>6, <1>7, <1>8, <1>9, <1>10 DEF Directory!DirectoryNext

(* A list that is done has no rows left to answer. *)
LEMMA ListInvComplete == ListInv /\ UnfinishedInv => Directory!ListsComplete
<1>. SUFFICES ASSUME ListInv, UnfinishedInv, lister.step = "done" PROVE Directory!ListsComplete
  BY DEF Directory!ListsComplete, Directory!DirectoryComplete, Directory!SpaceComplete
<1>1. ListerTypes /\ lister.todo = <<>> /\ lister.todo \in Seq(Rooms)
  BY DEF ListInv, ListerTypes
<1>2. KnownRows(lister) = lister.seen
  BY <1>1, NoRows DEF KnownRows
<1>3. lister.op = "directory" =>
        /\ lister.base \ lister.left \subseteq lister.seen \/ lister.left # {}
        /\ lister.twice => lister.came # {}
        /\ lister.ghosts \subseteq busy
  BY <1>2 DEF ListInv, DirectoryInv, NothingLost, NothingTwice, UnfinishedInv
<1>4. lister.op = "client directory" /\ Cardinality(lister.base \cup lister.came) <= ClientLimit =>
        lister.base \ lister.left \subseteq lister.seen
  BY <1>2 DEF ListInv, ClientInv
<1>5. Directory!SpaceComplete
  BY <1>2 DEF ListInv, SpaceInv, ClientSpaceInv, Directory!SpaceComplete
<1>. QED
  BY <1>3, <1>4, <1>5, SameSize DEF Directory!ListsComplete, Directory!DirectoryComplete

LEMMA ListInvariance == Directory!DirectorySpec => [](ListInv /\ UnfinishedInv)
<1>1. Directory!DirectoryInit => UnfinishedInv
  <2>. SUFFICES ASSUME Directory!DirectoryInit PROVE UnfinishedInv
    OBVIOUS
  <2>1. making = {} /\ purging = {} /\ lister.op = "none"
    BY DEF Directory!DirectoryInit, Directory!Idle
  <2>. QED
    BY <2>1 DEF UnfinishedInv
<1>. QED
  BY <1>1, ListBegins, ListStep, UnfinishedStep, PTL DEF Directory!DirectorySpec

-----------------------------------------------------------------------------
(* The services: every step of theirs is a step of each part, or leaves it alone. *)

LEMMA MembershipRuns == ServicesSpec => Membership!MemberSpec
<1>1. ServicesInit => Membership!MemberInit
  BY DEF ServicesInit
<1>2. [ServicesNext]_servicesVars => [Membership!MemberNext]_(Membership!memberVars)
  BY DEF ServicesNext, servicesVars, roomVars, memberVars, Membership!memberVars
<1>. QED
  BY <1>1, <1>2, PTL DEF ServicesSpec, Membership!MemberSpec

LEMMA UpgradeRuns == ServicesSpec => Upgrade!UpgradeSpec
<1>1. ServicesInit => Upgrade!UpgradeInit
  BY DEF ServicesInit
<1>2. [ServicesNext]_servicesVars => [Upgrade!UpgradeNext]_(Upgrade!upgradeVars)
  BY DEF ServicesNext, servicesVars, roomVars, upgradeVars, Upgrade!upgradeVars
<1>. QED
  BY <1>1, <1>2, PTL DEF ServicesSpec, Upgrade!UpgradeSpec

LEMMA HistoryRuns == ServicesSpec => History!HistorySpec
<1>1. ServicesInit => History!HistoryInit
  BY DEF ServicesInit
<1>2. [ServicesNext]_servicesVars => [History!HistoryNext]_(History!historyVars)
  BY DEF ServicesNext, servicesVars, roomVars, historyVars, History!historyVars
<1>. QED
  BY <1>1, <1>2, PTL DEF ServicesSpec, History!HistorySpec

LEMMA DirectoryRuns == ServicesSpec => Directory!DirectorySpec
<1>1. ServicesInit => Directory!DirectoryInit
  BY DEF ServicesInit
<1>2. [ServicesNext]_servicesVars => [Directory!DirectoryNext]_(Directory!directoryVars)
  BY DEF ServicesNext, servicesVars, roomVars, directoryVars, Directory!directoryVars
<1>. QED
  BY <1>1, <1>2, PTL DEF ServicesSpec, Directory!DirectorySpec

(* The two tables of memberships agree and a third-party invitation serves once, for any guests
   and requests of their servers, unless a write failed or crossed another one. *)
THEOREM GuestsAreSound == ServicesSpec => []GuestsSound
<1>1. MemberInv => GuestsSound
  BY InvGuestsSound DEF GuestsSound
<1>. QED
  BY <1>1, MembershipRuns, MemberInvariance, PTL

(* For any guests and requests a knock ends no ban, unless it was checked before the ban. *)
THEOREM KnocksEndNoBan == ServicesSpec => BansOutlastKnocks
<1>1. MemberInv /\ [Membership!MemberNext]_(Membership!memberVars)
      => [\A g \in Guests : row[g].m = "ban" /\ row'[g].m = "knock" => g \in late \cup torn]_(Membership!memberVars)
  BY KnockSparesBan
<1>. QED
  BY <1>1, MembershipRuns, MemberInvariance, PTL
  DEF BansOutlastKnocks, Membership!BansOutlastKnocks, Membership!MemberSpec

(* What a client was told of an upgrade, a message or a redaction is done, for any members and
   requests, retries of requests that stopped half-way included. *)
THEOREM AnswersAreTrue == ServicesSpec => []AnswersHold
<1>1. UpgradeInv => AnswersHold
  BY InvAnswersHold DEF AnswersHold
<1>. QED
  BY <1>1, UpgradeRuns, UpgradeInvariance, PTL

(* Every member of the old room keeps the level it was last given through any upgrades, stopped,
   repeated and overlapping ones included, unless one of them was between reading and writing the levels then. *)
THEOREM LevelsSurviveUpgrades == ServicesSpec => []UpgradeKeepsLevels
<1>1. UpgradeInv => UpgradeKeepsLevels
  BY LevelsAreKept DEF UpgradeKeepsLevels
<1>. QED
  BY <1>1, UpgradeRuns, UpgradeInvariance, PTL

(* Pages of any size and walks through any room's history, while any events are stored meanwhile,
   miss nothing that the order they are cut by can give. *)
THEOREM ReadersAreComplete == ServicesSpec => []ReadersComplete
<1>1. HistoryInv => ReadersComplete
  BY HistoryInvComplete DEF ReadersComplete
<1>. QED
  BY <1>1, HistoryRuns, HistoryInvariance, PTL

(* A server that reads the directory or a space in pages of any size, while rooms come and go,
   has every room that stayed, as far as offsets into a list that moves can give it. *)
THEOREM ListsAreComplete == ServicesSpec => []ListsComplete
<1>1. ListInv /\ UnfinishedInv => ListsComplete
  BY ListInvComplete DEF ListsComplete
<1>. QED
  BY <1>1, DirectoryRuns, ListInvariance, PTL
=============================================================================
