SPECIFICATION PgSpec
CONSTANTS
  j1 = j1  j2 = j2  j3 = j3  nobody = nobody  t1 = t1  t2 = t2  u1 = u1  u2 = u2
  Jobs = {j1}
  Workers = {w1, w2}
  Tenants = {t1, t2}
  Users = {u1}
  NoWorker = NoWorker
  NoJob = NoJob
  TenantOf <- MCTenantOf
  TypeOf <- MCTypeOf
  OwnerOf <- MCOwnerOf
  MaxAttempts = 2
  LeaseSeconds = 3
  Delays = {0}
  RetryDelay <- BackoffSeconds
  ClocksAgree = FALSE
SYMMETRY WorkerSymmetry
INVARIANT FencedAttempts
PROPERTIES SettledByHolder
