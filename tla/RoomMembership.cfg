\* Every operation by a creator and a moderator: four requests one after the other, or three of which
\* two run at a time and one may stop half-way.
\* The instance comes to rest when its last request has ended.
CHECK_DEADLOCK FALSE
SPECIFICATION Spec
CONSTANTS
  alice = alice  bob = bob
  Users = {alice, bob}
  Creator = alice
  InitialRule = "public"
  InitialPower <- MCInitialPower
  PowerContents <- MCPowerContents
  Levels = {0, 50, 100}
  NoLevel = NoLevel
  Nobody = Nobody
  KnockingSupported = TRUE
  RestrictedJoinsSupported = TRUE
  Operations = {"join", "leave", "knock", "invite", "kick", "ban", "unban", "forget", "put_member", "put_rule", "put_power"}
  MaxRequests = 4
  MaxOverlapping = 3
  MaxActive = 2
  MaxStops = 1
INVARIANTS
  RowsSound
  HandlersAuthorize
  BansHold
