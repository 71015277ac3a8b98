SPECIFICATION Spec
CONSTANTS
  Workers = {w1, w2}
  Jobs = {j1, j2}
  NoJob = NoJob
  Grain = 2
INVARIANTS TypeOK DeadOnlyIfDisturbed
SYMMETRY Interchangeable
