\* Two rooms and one new row, or one room and two, one lost response or other fault, pages of one row:
\* every interleaving of two requests.
CONSTANTS
  r1 = r1  r2 = r2
  Rooms = {r1, r2}
  MaxRequests = 2
  Profiles <- MCProfiles
  RangeEnd = 2
  TimelineLimit = 1
  MaxRows = 3
  ReadElsewhere = {r1}
  MaxTrouble = 1
SPECIFICATION Spec
CHECK_DEADLOCK FALSE
INVARIANTS
  SkipsExplained
PROPERTY
  CatchesUp
