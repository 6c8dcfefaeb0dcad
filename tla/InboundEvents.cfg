\* Three transactions of four events, one of them with several predecessors; three attempts; one fault.
SPECIFICATION Spec
CONSTANTS
  bob = bob  carol = carol
  t1 = t1  t2 = t2  t3 = t3
  a1 = a1  a2 = a2  a3 = a3
  Users = {bob, carol}
  Levels = {0, 50, 100}
  NoLevel = NoLevel
  Nobody = Nobody
  KnockingSupported = FALSE
  RestrictedJoinsSupported = FALSE
  Events <- MCEvents
  Initial = {1, 2, 3, 4}
  Algorithms = {"v1", "v2"}
  Txns <- MCTxns
  Relayed <- MCRelayed
  Attempts = {a1, a2, a3}
  MaxFaults = 1
SYMMETRY Interchangeable
INVARIANTS
  AcceptedIsApplied
PROPERTY
  NoReverts
CHECK_DEADLOCK FALSE
