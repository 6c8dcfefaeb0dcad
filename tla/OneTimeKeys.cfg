\* Two uploads that share a key and the fallback key, three claims, one stop, one stale read.
\* When every request was answered nothing is left to do.
CHECK_DEADLOCK FALSE
SPECIFICATION Spec
CONSTANTS
  k1 = k1  k2 = k2
  f1 = f1
  u1 = u1  u2 = u2
  c1 = c1  c2 = c2  c3 = c3
  None = None
  Keys = {k1, k2}
  Fallbacks = {f1}
  Uploads = {u1, u2}
  KeysOf <- MCKeysOf
  FallbackOf <- MCFallbackOf
  Claims = {c1, c2, c3}
  MaxStops = 1
  MaxStale = 1
INVARIANTS
  ReuseExplained
  FallbackIsLast
SYMMETRY
  MCSymmetry
