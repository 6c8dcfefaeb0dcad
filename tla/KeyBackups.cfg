\* Two rooms with a session each; two uploads, a deletion of keys and one of a version; two versions.
SPECIFICATION Spec
CONSTANTS
  r1 = r1  r2 = r2
  k1 = k1
  p1 = p1  p2 = p2
  d1 = d1
  x1 = x1
  c1 = c1
  Rooms = {r1, r2}
  SessionIds = {k1}
  Puts = {p1, p2}
  Deletes = {d1}
  Removals = {x1}
  Clients = {c1}
  NoData = NoData
  Fresh = Fresh
  MaxVersions = 2
  MaxStops = 1
SYMMETRY Interchangeable
INVARIANTS
  EtagTells
  CountIsRows
  DeletedVersionsEmpty
CHECK_DEADLOCK FALSE
