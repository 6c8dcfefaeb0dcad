---------------------------- MODULE UserServices ----------------------------
(***************************************************************************)
(* Parts of a user's API that share no state within these models, side by  *)
(* side: the first state chooses the part that then runs alone, and its    *)
(* properties are those of its module.                                     *)
(***************************************************************************)
EXTENDS Naturals, SequencesExt

CONSTANTS
  RuleWriters, MaxRuleCalls,                                                   \* PushRules
  Notified, PushKeys, Apps, BatchSize, PushRetries, Setters, MaxErrors,        \* PushDelivery
  DataRequests, Tags, NoContent,                                               \* AccountData
  EphemeralRequests, Messages, MaxClock,                                       \* RoomEphemeral
  GrantRequests, OAuthClients, Identities, Names, NoName, MaxGrantFaults,      \* OAuth
  AddressRequests, Owners, NoOwner, MaxAttempt, MaxAddressFaults,              \* Threepids
  FileRequests, MaxFileFaults,                                                 \* Media
  MaxOpen

(* A batch has a member. *)
ASSUME DeliveryAssumption == IsFiniteSet(Notified) /\ BatchSize \in Nat /\ BatchSize > 0

(* A tag is not a type of account data, and what stands for none is none. *)
ASSUME DataAssumption == NoContent \notin DataRequests /\ Tags \cap {"m.secret_storage", "m.direct"} = {}

(* 0 stands for no event. *)
ASSUME EphemeralAssumption == Messages \subseteq Nat \ {0} /\ Messages # {}

(* The ids of the requests' sessions are not those of the first sessions, from 101 on. *)
ASSUME AddressAssumption ==
  IsFiniteSet(Owners) /\ NoOwner \notin Owners /\ AddressRequests \subseteq 1 .. 100 /\ MaxAttempt \in Nat

(* 0 stands for no content. *)
ASSUME FileAssumption == FileRequests \subseteq Nat \ {0}

VARIABLES
  part,
  ruleRows, ruleWrites, ruleCalls, wish, revived,                              \* PushRules
  stage, from, work, queue, attempts, pushers, muted, posts, history, setter,  \* PushDelivery
  errors, steady, broken, silent, loose,
  held, earlier, listed, tags, changes, counter, op, at, read, floor, last, alone,   \* AccountData
  stored, oldRow, cache, loaded, marker, typing, row, entry, lagging, clock,   \* RoomEphemeral
  step, actions, asked, latest, typed, lastOf, unmixed,
  clients, asks, codes, states, refreshes, dropped, access, devices, users,    \* OAuth
  links, req, has, revoked, spent, raced, moved, faults,
  bound, sessions, expired, mailed, mailReq, sid, added, proved, ended, mailMet, mailFaults,   \* Threepids
  object, empty, fileRow, thumb, fileReq, answered, gone, given, fileMet, fileFaults           \* Media

rulesVars == <<ruleRows, ruleWrites, ruleCalls, wish, revived>>
deliveryVars == <<stage, from, work, queue, attempts, pushers, muted, posts, history, setter, errors, steady,
                  broken, silent, loose>>
dataVars == <<held, earlier, listed, tags, changes, counter, op, at, read, floor, last, alone>>
ephemeralVars == <<stored, oldRow, cache, loaded, marker, typing, row, entry, lagging, clock, step, actions, asked, latest,
                   typed, lastOf, unmixed>>
grantVars == <<clients, asks, codes, states, refreshes, dropped, access, devices, users, links, req, has, revoked,
               spent, raced, moved, faults>>
addressVars == <<bound, sessions, expired, mailed, mailReq, sid, added, proved, ended, mailMet, mailFaults>>
fileVars == <<object, empty, fileRow, thumb, fileReq, answered, gone, given, fileMet, fileFaults>>

Rules == INSTANCE PushRules WITH
  Writers <- RuleWriters, MaxCalls <- MaxRuleCalls, rows <- ruleRows, pending <- ruleWrites, calls <- ruleCalls

(* The SELECT gives the members in some order. *)
Delivery == INSTANCE PushDelivery WITH
  Members <- SetToSeq(Notified), Keys <- PushKeys, Retries <- PushRetries, at <- stage, todo <- queue

Data == INSTANCE AccountData WITH Requests <- DataRequests, NoData <- NoContent

Ephemeral == INSTANCE RoomEphemeral WITH
  Requests <- EphemeralRequests, Events <- Messages, at <- step, todo <- actions, last <- lastOf, alone <- unmixed

Grants == INSTANCE OAuth WITH
  Requests <- GrantRequests, Clients <- OAuthClients, MaxFaults <- MaxGrantFaults, deleted <- dropped

(* A request is none of 0, which names what is there in the beginning, and no id; what stands for no name is none. *)
ASSUME GrantAssumption == GrantRequests \subseteq Nat \ {0, Grants!NoId} /\ NoName \notin Names

Addresses == INSTANCE Threepids WITH
  Requests <- AddressRequests, Users <- Owners, NoUser <- NoOwner, MaxFaults <- MaxAddressFaults,
  rows <- sessions, req <- mailReq, met <- mailMet, faults <- mailFaults

Files == INSTANCE Media WITH
  Requests <- FileRequests, MaxFaults <- MaxFileFaults, row <- fileRow, req <- fileReq, met <- fileMet,
  faults <- fileFaults

servicesVars == <<part, rulesVars, deliveryVars, dataVars, ephemeralVars, grantVars, addressVars, fileVars>>

(* What does not run has one first state. *)
ServicesInit ==
  /\ part \in {"rules", "delivery", "data", "ephemeral", "grants", "addresses", "files"}
  /\ Rules!RulesInit /\ Delivery!DeliveryInit /\ Data!DataInit /\ Ephemeral!EphemeralInit
  /\ Grants!OAuthInit /\ Addresses!ThreepidsInit /\ Files!MediaInit
  /\ part # "delivery" => \A p \in pushers : p[3] = CHOOSE a \in Apps : TRUE
  /\ part # "ephemeral" => oldRow = 0
  /\ part # "grants" => clients = {}
  /\ part # "addresses" => sessions = {} /\ bound = NoOwner

ServicesNext ==
  \/ /\ part = "rules" /\ Rules!RulesNext
     /\ UNCHANGED <<part, deliveryVars, dataVars, ephemeralVars, grantVars, addressVars, fileVars>>
  \/ /\ part = "delivery" /\ Delivery!DeliveryNext
     /\ UNCHANGED <<part, rulesVars, dataVars, ephemeralVars, grantVars, addressVars, fileVars>>
  \/ /\ part = "data" /\ Data!DataNext
     /\ UNCHANGED <<part, rulesVars, deliveryVars, ephemeralVars, grantVars, addressVars, fileVars>>
  \/ /\ part = "ephemeral" /\ Ephemeral!EphemeralNext
     /\ UNCHANGED <<part, rulesVars, deliveryVars, dataVars, grantVars, addressVars, fileVars>>
  \/ /\ part = "grants" /\ Grants!OAuthNext
     /\ UNCHANGED <<part, rulesVars, deliveryVars, dataVars, ephemeralVars, addressVars, fileVars>>
  \/ /\ part = "addresses" /\ Addresses!ThreepidsNext
     /\ UNCHANGED <<part, rulesVars, deliveryVars, dataVars, ephemeralVars, grantVars, fileVars>>
  \/ /\ part = "files" /\ Files!MediaNext
     /\ UNCHANGED <<part, rulesVars, deliveryVars, dataVars, ephemeralVars, grantVars, addressVars>>

ServicesSpec == ServicesInit /\ [][ServicesNext]_servicesVars

-----------------------------------------------------------------------------
(* Properties *)

(* The rules of pushes are as the user asked, and the master rule silences (push.ts). *)
RulesAsAsked == part = "rules" => Rules!RulesAsAsked

(* A notification reaches every pusher, once but for named retries (PushNotificationWorkflow.ts, push.ts). *)
DeliverySound == part = "delivery" => Delivery!DeliverySound

(* What was put last is what is there, in every store (account-data.ts, tags.ts). *)
DataKept == part = "data" => Data!DataKept

(* Receipts, typing users, marker and presence are those of the last request (RoomDurableObject.ts, presence.ts). *)
EphemeralSound == part = "ephemeral" => Ephemeral!EphemeralSound

(* A grant serves once, and only the user who holds the identity (oauth.ts, oidc-auth.ts). *)
GrantsSound == part = "grants" => Grants!GrantsSound

(* An address is the user's who proved it, until it is deleted (account.ts, email.ts). *)
AddressesSound == part = "addresses" => Addresses!AddressesSound

(* A file stays as uploaded until it is deleted, and is then gone (media.ts, admin.ts). *)
MediaSound == part = "files" => Files!MediaSound
=============================================================================
