\* A send and its retry, overlapping or interrupted, and a notice to one device that keeps
\* syncing, with any one fault.
SPECIFICATION FairSpec
CONSTANTS
  d1 = d1
  t1 = t1
  s1 = s1  s3 = s3
  n1 = n1
  Devices = {d1}
  Readers = {d1}
  Txns = {t1}
  Puts = {s1, s3}
  Notices = {n1}
  Targets <- MCTargets
  TxnOf <- MCTxnOf
  Recipients <- MCRecipients
  Limit = 1
  MaxFaults = 1
INVARIANTS
  LossesExplained
  AnsweredIsStored
PROPERTY
  EventuallySeen
