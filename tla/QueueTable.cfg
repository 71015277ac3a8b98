SPECIFICATION CountedSpec
CONSTANTS
  j1 = j1  j2 = j2  j3 = j3  nobody = nobody  t1 = t1  t2 = t2  u1 = u1  u2 = u2
  Jobs = {j1, j2, j3}
  Workers = {w1}
  Tenants = {t1, t2}
  Users = {u2}
  NoWorker = NoWorker
  NoJob = NoJob
  TenantOf <- MCTenantOf
  TypeOf <- MCTypeOf
  OwnerOf <- MCOwnerOf
  MaxAttempts = 2
  LeaseSeconds = 2
  Delays = {0}
  RetryDelay <- BackoffSeconds
  ClocksAgree = FALSE
INVARIANTS AttemptsBounded ScreenshotOnlyWhileRunnable OvertakenAtMostOnce
PROPERTIES ImplementsLifecycle
