\* An event and an EDU, two overlapping runs, two restarts, a request of the remote server.
\* Once everything was sent and no retry is set the object has nothing to do.
CHECK_DEADLOCK FALSE
SPECIFICATION FairSpec
CONSTANTS
  Pdus = {p1}
  Edus = {d1}
  Runs = {r1, r2}
  MaxCrashes = 2
  MaxReceives = 1
INVARIANTS
  RetryArmed
PROPERTIES
  AtLeastOnce
  EventuallyReceived
