--------------------------- MODULE DeviceServices ---------------------------
(***************************************************************************)
(* A device's keys (DeviceKeys), the account it belongs to (Accounts) and  *)
(* the account's cross-signing keys (CrossSigning), which share no state   *)
(* within these models, side by side: the first state chooses the one that *)
(* then runs.                                                              *)
(***************************************************************************)
EXTENDS DeviceKeys

CONSTANTS
  AccountRequests, Devices, FirstDevice, MaxAccountFaults,   \* Accounts
  IdentityRequests, Payloads, MaxIdentityFaults              \* CrossSigning

(* A request is none of 0, which names no key, and 1, which names the session that is there in the beginning. *)
ASSUME IdentityAssumption ==
  IdentityRequests \subseteq Nat \ {0, 1} /\ Payloads \subseteq SUBSET {"master", "self_signing", "user_signing"}

VARIABLES
  part,
  user, devices, access, refreshes, deleted, loginTokens, req, has, ended,       \* Accounts
  troubled, raced, late, faults,
  object, rows, told, sessions, before, claimed, served, cancelled, agreed, mixed, met, metReset, stale, stopped,
  unasked, trouble                                                               \* CrossSigning

accountVars == <<user, devices, access, refreshes, deleted, loginTokens, req, has, ended, troubled, raced, late,
                 faults>>
crossVars == <<object, rows, told, sessions, before, claimed, served, cancelled, agreed, mixed, met, metReset, stale,
               stopped, unasked, trouble>>
devicesVars == <<part, vars, accountVars, crossVars>>

Account == INSTANCE Accounts WITH Requests <- AccountRequests, MaxFaults <- MaxAccountFaults

(* A request is none of 0, which names the session that is there in the beginning, and no token. *)
ASSUME AccountAssumption == AccountRequests \subseteq Nat \ {0, Account!NoToken}

Cross == INSTANCE CrossSigning WITH
  Requests <- IdentityRequests, MaxFaults <- MaxIdentityFaults, req <- claimed, raced <- mixed, faults <- trouble

DevicesInit ==
  /\ part \in {"keys", "account", "identity"}
  /\ Init /\ Account!AccountInit /\ Cross!CrossInit
  /\ part # "account" => user = "absent"                  \* one first state of what does not run
  /\ part # "identity" => told = 0

(* The requests have all ended, so that only a request that is stuck is a deadlock. *)
AllEnded ==
  /\ \/ part = "account" /\ \A q \in AccountRequests : req[q].phase = "done"
     \/ part = "identity" /\ \A q \in IdentityRequests : claimed[q].op = "done"
  /\ UNCHANGED devicesVars

DevicesNext ==
  \/ part = "keys" /\ Next /\ UNCHANGED <<part, accountVars, crossVars>>
  \/ part = "account" /\ Account!AccountNext /\ UNCHANGED <<part, vars, crossVars>>
  \/ part = "identity" /\ Cross!CrossNext /\ UNCHANGED <<part, vars, accountVars>>
  \/ AllEnded

DevicesSpec == DevicesInit /\ [][DevicesNext]_devicesVars

-----------------------------------------------------------------------------
(* Properties *)

(* A token serves once, and a client that was not logged out stays logged in (login.ts, devices.ts). *)
AccountSound == part = "account" => Account!AccountSound

(* The cross-signing keys are those that were last uploaded with the user's consent (keys.ts, oauth.ts, oidc-auth.ts). *)
IdentitySound == part = "identity" => Cross!IdentitySound
=============================================================================
