------------------------------ MODULE JobQueue ------------------------------
(***************************************************************************)
(* The jobs table and the operations of the queue on it, as the SQLite     *)
(* adapter and the SQL functions of the Postgres adapter define them.      *)
(*                                                                         *)
(* Time.  The code stores instants (available_at, leased_until) and        *)
(* compares them with the clock.  The model stores the time LEFT until     *)
(* the instant, which Aged decreases at every tick of the clock, so that   *)
(* no horizon bounds a behaviour:                                          *)
(*    wait = 0           available_at <= now                               *)
(*    left > 0           leased_until > now                                *)
(*    left = 0           leased_until = now                                *)
(*    left = Expired     leased_until < now, or leased_until is null       *)
(* Two instants are equal iff the times left are, up to Expired; every     *)
(* comparison of lease tokens in the code also requires leased_until > now.*)
(*                                                                         *)
(* created_at and last_leased_at are used only to order, so the model      *)
(* keeps the orders themselves.                                            *)
(***************************************************************************)
EXTENDS Integers

CONSTANTS
  Jobs,           \* (tenant, type, idempotency key) triples: stableId's domain
  Workers,        \* worker processes
  Tenants,
  Users,          \* members of a tenant: (tenant, user) pairs
  NoWorker,       \* leased_by is null
  TenantOf,       \* [Jobs -> Tenants]
  TypeOf,         \* [Jobs -> Types]
  OwnerOf,        \* the userId of the payload; absent from privacy.reconcile's
  MaxAttempts,    \* max_attempts (5 unless the caller says otherwise)
  LeaseSeconds,   \* the lease the worker asks for (60)
  Delays,         \* how far in the future a caller may place available_at
  RetryDelay(_)   \* back-off after the n-th attempt

Types == {"ingest.url", "ingest.screenshot", "connector.sync", "privacy.reconcile"}

ASSUME QueueAssumptions ==
  /\ NoWorker \notin Workers
  /\ TenantOf \in [Jobs -> Tenants]
  /\ TypeOf \in [Jobs -> Types]
  /\ MaxAttempts \in Nat \ {0}
  /\ LeaseSeconds \in Nat \ {0}
  /\ Delays \subseteq Nat
  /\ \A n \in 1 .. MaxAttempts : RetryDelay(n) \in Nat

VARIABLES
  jobs,           \* the jobs table, one row per job
  older,          \* pairs <<j, k>>: row j was created before row k
  served,         \* pairs <<s, t>>: last_leased_at of s is before that of t
  erased          \* users whose account was erased

queueVars == <<jobs, older, served, erased>>

Expired == -1

Pending  == {"queued", "retryable_failed"}
Finished == {"succeeded", "dead_letter"}
Terminal == Finished \union {"cancelled"}
Statuses == Pending \union Terminal \union {"absent", "running"}

Row == [status   : Statuses,
        attempts : 0 .. MaxAttempts,
        wait     : Nat,
        leasedBy : Workers \union {NoWorker},
        left     : Expired .. LeaseSeconds,
        redacted : BOOLEAN]

\* No row with this id in the table.
Absent == [status |-> "absent", attempts |-> 0, wait |-> 0,
           leasedBy |-> NoWorker, left |-> Expired, redacted |-> FALSE]

Exists(j) == jobs[j].status # "absent"

QueueInit ==
  /\ jobs = [j \in Jobs |-> Absent]
  /\ older = {}
  /\ served = {}
  /\ erased = {}

-----------------------------------------------------------------------------
(* enqueue and cancelPending *)

\* A row as `insert` writes it and as `on conflict do update` resets it.
Queued(delay) ==
  [status |-> "queued", attempts |-> 0, wait |-> delay,
   leasedBy |-> NoWorker, left |-> Expired, redacted |-> FALSE]

\* Mutant: `on conflict do update` without its condition revives any row
\* that has ended.
EnqueueRevivesAll(j, delay) ==
  /\ jobs[j].status \in Terminal \union {"absent"}
  /\ jobs' = [jobs EXCEPT ![j] = Queued(delay)]
  /\ UNCHANGED <<older, served, erased>>

\* A conflicting row is left alone unless it was cancelled; a revived row
\* keeps its created_at.
Enqueue(j, delay) ==
  /\ jobs[j].status \in {"absent", "cancelled"}
  /\ jobs' = [jobs EXCEPT ![j] = Queued(delay)]
  /\ older' = IF Exists(j) THEN older
              ELSE older \union {<<k, j>> : k \in {i \in Jobs : Exists(i)}}
  /\ UNCHANGED <<served, erased>>

\* A row that goes to the given status and gives its lease up.
Released(row, status, wait, redacted) ==
  [status |-> status, attempts |-> row.attempts, wait |-> wait,
   leasedBy |-> NoWorker, left |-> Expired, redacted |-> redacted]

\* Terminal screenshot rows lose the image in their payload.
Redacts(j) == TypeOf[j] = "ingest.screenshot"

Cancellable(t, u, j) ==
  /\ TenantOf[j] = t /\ OwnerOf[j] = u /\ TypeOf[j] = "connector.sync"
  /\ jobs[j].status \in Pending
  /\ ~jobs[j].redacted

Cancelled(row) == Released(row, "cancelled", row.wait, row.redacted)

\* Called by connector revocation for the user's sync jobs of one provider.
CancelPending(t, u) ==
  /\ \E j \in Jobs : Cancellable(t, u, j)
  /\ jobs' = [j \in Jobs |-> IF Cancellable(t, u, j) THEN Cancelled(jobs[j]) ELSE jobs[j]]
  /\ UNCHANGED <<older, served, erased>>

-----------------------------------------------------------------------------
(* leaseNext / app.lease_job *)

\* Mutants: the sweep misses the last attempt, or takes live leases too.
OutOfAttemptsOffByOne(row) ==
  row.status = "running" /\ row.left < 0 /\ row.attempts > MaxAttempts

OutOfAttemptsHeld(row) == row.status = "running" /\ row.attempts >= MaxAttempts

\* The sweep that opens every lease: expired final attempts are dead-lettered.
OutOfAttempts(row) ==
  row.status = "running" /\ row.left < 0 /\ row.attempts >= MaxAttempts

\* Mutant: only success redacts.
DeadLetteredUnredacted(j, row) == Released(row, "dead_letter", row.wait, row.redacted)

DeadLettered(j, row) ==
  Released(row, "dead_letter", row.wait, row.redacted \/ Redacts(j))

Swept == [j \in Jobs |-> IF OutOfAttempts(jobs[j]) THEN DeadLettered(j, jobs[j]) ELSE jobs[j]]

\* Mutant: running rows are recovered while their lease is still good.
LeasableWhileHeld(row) ==
  \/ row.status \in Pending /\ row.wait = 0 /\ row.left < 0
  \/ row.status = "running" /\ row.attempts < MaxAttempts

\* The rows the CTE `ranked` reads.
Leasable(row) ==
  \/ row.status \in Pending /\ row.wait = 0 /\ row.left < 0
  \/ row.status = "running" /\ row.left < 0 /\ row.attempts < MaxAttempts

\* Account erasure enqueues its reconciliation ahead of everything else.
Priority(j) == IF TypeOf[j] = "privacy.reconcile" THEN 10 ELSE 100

Precedes(j, k) ==
  \/ Priority(j) < Priority(k)
  \/ Priority(j) = Priority(k) /\ <<j, k>> \in older

\* tenant_rank = 1
TenantHead(q, j) ==
  /\ Leasable(q[j])
  /\ \A k \in Jobs \ {j} : Leasable(q[k]) /\ TenantOf[k] = TenantOf[j] => Precedes(j, k)

\* order by coalesce(last_leased_at, epoch), priority, created_at
ServedFirst(j, k) ==
  \/ <<TenantOf[j], TenantOf[k]>> \in served
  \/ <<TenantOf[k], TenantOf[j]>> \notin served /\ Precedes(j, k)

Selected(q, j) ==
  /\ TenantHead(q, j)
  /\ \A k \in Jobs \ {j} : TenantHead(q, k) => ServedFirst(j, k)

\* Mutant: the attempt is not counted.
LeasedUncounted(row, w) ==
  [row EXCEPT !.status = "running", !.leasedBy = w, !.left = LeaseSeconds]

Leased(row, w) ==
  [status |-> "running", attempts |-> row.attempts + 1, wait |-> row.wait,
   leasedBy |-> w, left |-> LeaseSeconds, redacted |-> row.redacted]

\* Mutant: last_leased_at is not updated.
TouchedNever(t) == served

\* tenant_queue_state: t becomes the tenant served last.
Touched(t) ==
  {p \in served : p[1] # t} \union {<<s, t>> : s \in Tenants \ {t}}

-----------------------------------------------------------------------------
(* renewLease, complete, fail *)

\* Mutant: the token is leased_until alone, without leased_by.
HoldsToken(j, w, left) ==
  jobs[j].status = "running" /\ jobs[j].left = left /\ jobs[j].left > 0

\* The predicate of every operation that presents a lease token.
HoldsLease(j, w, left) ==
  /\ jobs[j].status = "running"
  /\ jobs[j].leasedBy = w
  /\ jobs[j].left = left
  /\ jobs[j].left > 0

Renewed(row) == [row EXCEPT !.left = LeaseSeconds]

Succeeded(j, row) ==
  Released(row, "succeeded", row.wait, row.redacted \/ Redacts(j))

RetryLater(row) ==
  Released(row, "retryable_failed", RetryDelay(row.attempts), row.redacted)

\* RetryDelay as the code computes it: min(900, 2 ** min(attempt, 9)).
BackoffSeconds(n) ==
  LET d == 2 ^ (IF n < 9 THEN n ELSE 9) IN IF d < 900 THEN d ELSE 900

\* Mutant: the last attempt is granted a retry.
FailedOffByOne(j, row) ==
  IF row.attempts > MaxAttempts THEN DeadLettered(j, row) ELSE RetryLater(row)

\* The adapter of Postgres reads the row's attempt count, SQLite's the
\* worker's copy: Worker!FencedAttempts shows that they agree.
Failed(j, row) ==
  IF row.attempts >= MaxAttempts THEN DeadLettered(j, row) ELSE RetryLater(row)

-----------------------------------------------------------------------------
(* Account erasure and retention, as far as they touch the jobs table *)

\* The payload of a redacted row no longer names its user.
ErasedWith(u, j) == Exists(j) /\ OwnerOf[j] = u /\ ~jobs[j].redacted

\* The same transaction inserts a reconciliation R for the organization whose
\* private sources it deleted, if any.
EraseAccount(u, R) ==
  /\ u \notin erased
  /\ \A r \in R : TypeOf[r] = "privacy.reconcile" /\ ~Exists(r)
  /\ jobs' = [j \in Jobs |-> IF j \in R THEN Queued(0)
                             ELSE IF ErasedWith(u, j) THEN Absent ELSE jobs[j]]
  /\ older' = {p \in older : ~ErasedWith(u, p[1]) /\ ~ErasedWith(u, p[2])}
              \union ({i \in Jobs : Exists(i) /\ ~ErasedWith(u, i)} \X R)
  /\ erased' = erased \union {u}
  /\ UNCHANGED served

\* run_maintenance redacts terminal payloads; which rows are 30 days old is
\* left open.
RunMaintenance(j) ==
  /\ jobs[j].status \in Terminal
  /\ ~jobs[j].redacted
  /\ jobs' = [jobs EXCEPT ![j].redacted = TRUE]
  /\ UNCHANGED <<older, served, erased>>

-----------------------------------------------------------------------------
(* The clock *)

Sooner(n, floor) == IF n > floor THEN n - 1 ELSE floor

Aged(row) == [row EXCEPT !.wait = Sooner(@, 0), !.left = Sooner(@, Expired)]
=============================================================================
