\* One client in both rooms, three events, one lost response: every interleaving, and what follows from the fairness of the client.
CONSTANTS
  e1 = e1  e2 = e2  e3 = e3
  r1 = r1  r2 = r2
  c1 = c1  c2 = c2
  Events = {e1, e2, e3}
  Rooms = {r1, r2}
  Clients = {c1}
  RoomOf <- MCRoomOf
  Joined <- MCJoined
  PageLimit = 1
  MaxLost = 1
SPECIFICATION FairSpec
INVARIANTS
  GapsExplained
PROPERTY
  EventuallyReceived
