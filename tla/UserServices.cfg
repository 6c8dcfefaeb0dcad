SPECIFICATION ServicesSpec
\* Requests and workflows end.
CHECK_DEADLOCK FALSE
CONSTANTS
  RuleWriters = {1, 2}
  MaxRuleCalls = 4
\* PushDelivery: two members, each a batch; two apps with one pushkey; every batch is repeated once.
  Notified = {"u1", "u2"}
  PushKeys = {"k"}
  Apps = {"a", "b"}
  BatchSize = 1
  PushRetries = 1
  Setters = {1, 2}
  MaxErrors = 1
\* AccountData: three requests, so that one may overlap the end of another and the beginning of a third; two tags.
  DataRequests = {1, 2, 3}
  Tags = {"x", "y"}
  NoContent = 0
\* RoomEphemeral: two requests; two events; the clock passes both lifetimes.
  EphemeralRequests = {1, 2}
  Messages = {1, 2}
  MaxClock = 3
\* OAuth: three requests, two clients of one identity that either of two users may be; one fault.
  GrantRequests = {1, 2, 3}
  OAuthClients = {"c", "d"}
  Identities = {"x"}
  Names = {"u", "v"}
  NoName = "none"
  MaxGrantFaults = 1
\* Threepids: three requests of two users about one address; one fault.
  AddressRequests = {1, 2, 3}
  Owners = {"u", "v"}
  NoOwner = "none"
  MaxAttempt = 2
  MaxAddressFaults = 1
\* Media: four requests about one file; one fault.
  FileRequests = {1, 2, 3, 4}
  MaxFileFaults = 1
\* AccountData, OAuth and Threepids: two requests under way at a time.
  MaxOpen = 2
INVARIANTS
  RulesAsAsked
  DeliverySound
  DataKept
  EphemeralSound
  GrantsSound
  AddressesSound
  MediaSound
