SPECIFICATION Spec
CONSTANTS
  Syncs = {s1, s2}
  Workers = {w1, w2}
  Requests = {q1}
  NoSync = NoSync
  MaxAttempts = 2
  MaxGrants = 2
  Expiring = TRUE
PROPERTIES RevocationHolds
SYMMETRY Interchangeable
