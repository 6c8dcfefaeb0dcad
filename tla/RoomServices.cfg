\* AuthRoom: a creator, one who can become a moderator or the creator's equal, a plain user.
SPECIFICATION ServicesSpec
\* Requests end; a room its last member left may take no event any more.
CHECK_DEADLOCK FALSE
CONSTANTS
  alice = alice  bob = bob  carol = carol
  Users = {alice, bob, carol}
  Creator = alice
  Preset = "private_chat"
  Levels <- MCLevels
  NoLevel = NoLevel
  Nobody = Nobody
  KnockingSupported = TRUE
  RestrictedJoinsSupported = TRUE
  PowerContents <- MCPowerContents
\* RoomUpgrade: two members, one of whom made the room, its only alias, two requests at a time.
  q1 = q1  q2 = q2
  u1 = u1  u2 = u2
  Members = {u1, u2}
  Owner = u1
  UpgradeRequests = {q1, q2}
  OldRoom = OldRoom
  Aliases = {"a"}
  None = None
  TxnOf <- MCTxnOf
  MaxOpen = 2
  MaxPowerChanges = 1
  MaxStops = 1
\* FederatedMembership: one guest with two calls of its server at a time.
  Guests = {"g"}
  Calls = {1, 2}
  MaxLocal = 2
  MaxFailures = 1
\* RoomHistory
  Events = {1, 2, 3, 4, 5}
  Prev <- MCPrev
  Auth <- MCAuth
  Depth <- MCDepth
  Ts <- MCTs
  Unordered = {5}
  PageLimits = {1, 2}
\* RoomDirectory: five rooms with the space, and clients' pages of three.
  Rooms = {1, 2, 3, 4, 5}
  ListLimits = {1, 2}
  ClientLimit = 3
  MaxListChanges = 2
INVARIANTS
  AnswersHold
  UpgradeKeepsLevels
  GuestsSound
  ReadersComplete
  ListsComplete
PROPERTIES
  PowerNeverRises
  BansLiftedByModerators
  BansOutlastKnocks
