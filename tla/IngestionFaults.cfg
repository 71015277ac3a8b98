SPECIFICATION Spec
CONSTANTS
  j1 = j1  j2 = j2  a = a  b = b  u1 = u1  u2 = u2
  Jobs = {j1, j2}
  Workers = {w1, w2}
  Versions = {a, b}
  Users = {u1, u2}
  NoJob = NoJob
  NoWorker = NoWorker
  NoVersion = NoVersion
  RootOf <- SameRoot
  Links <- LinksToOther
  OwnerOf <- OneEach
  Private = {a}
  MaxErasures = 1
  MaxAttempts = 2
  MaxExtractions = 2
  Faults = {"crash", "lease", "call", "commit"}
INVARIANTS TypeOK ExtractionExclusive OwnedVersions
PROPERTIES SucceededIsFinal
CHECK_DEADLOCK FALSE
SYMMETRY Symmetry
