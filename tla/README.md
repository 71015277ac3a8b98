# Recruiting OS: a TLA+ verification project

Recruiting OS collects what student organizations publish about recruiting
(web pages, screenshots, mail, group chats, social posts), extracts dated
claims from it with a language model, and resolves the claims into
opportunities. It runs as several API processes and several worker processes
over one Postgres database (SQLite in development). Processes meet only in the
database; this project is about what may happen between their calls.

Paths below are relative to the repository.

## Inventory

| Component | State | Operations | Interacts with |
|---|---|---|---|
| Job queue (`src/infrastructure/queue/*`, `migrations/001, 004, 006, 008`) | `jobs`, `tenant_queue_state` | enqueue, cancelPending, leaseNext (sweep, selection, lease, fairness record), renewLease, complete, fail | routes and the scheduler enqueue and cancel; workers lease and settle; erasure and retention delete and redact rows |
| Worker loop (`src/bootstrap/worker.ts`) | the current job | lease, dispatch by type, settle | queue, ingestion, connectors, credentials, scheduler |
| Lease heartbeat (`src/application/queue/job-lease-heartbeat.ts`) | its copy of the job, `lost`, the renewal in flight | start, beginRenewal, renew, stop | queue, concurrently with the handler |
| Ingestion (`src/ingest.ts`, source versions in `src/store.ts` and `postgres-store.ts`) | `sources`, `source_versions`, `claims`, `opportunities` | stageSource, markSourceProcessing, extract, the storing transaction, markSourceFailed, following links | run inside jobs; versions are shared by all jobs of a tenant |
| Connector credentials (`refreshing-credential-service.ts`, `encrypted-credential-vault.ts`, the credential repositories, `provider-oauth-service.ts`) | `credentials` (payload, `revoked_at`) | put, get, revoke, refresh | routes and running syncs write the same row |
| Connector routes and schedule (`routes/connectors.ts`, `connector-sync-scheduler.ts`) | none of their own | connect, callback, disconnect, sync, scheduleAfter | credentials, then the queue, in separate calls |
| Provider connectors (`src/connectors/*`) | `connector_state` cursors (Gmail, GroupMe) | synchronize | run inside sync jobs before ingestion; the syncs of a user share the cursor |
| Provider HTTP client (`provider-http-client.ts`) | failure counter and circuit, per provider and process | fetch with retries | connectors; a rejected call uses up an attempt of the job |
| Resolver (`src/resolver.ts`) | `opportunities` | resolveOrganization | inside the ingestion and the override transaction, and in reconciliation jobs |
| Recruiting routes (`routes/recruiting.ts`) | `opportunity_overrides` | review, enqueue ingestion, read | resolver, queue |
| Sessions and sign-in (`session-service.ts`, the auth repositories) | `sessions`, `memberships`, `users` with `membership_count` | issue, authenticate, revoke, expire | every request; erasure |
| Account erasure and export (`infrastructure/privacy/*`, `migrations/007`) | all rows of a user | eraseAccount, export | one transaction over every table, concurrent with everything |
| Retention (`app.run_maintenance`) | old texts, payloads, sessions | run_maintenance | jobs, source versions, claims, sessions |
| Rate limiters | buckets | consume | API |
| Extraction, URL and date classification, safe HTTP, configuration, migrations, logging, metrics, UI | none that outlives a call | | |

What is hard in this code, and therefore what the properties are about
(`PROJECT.json` lists each hazard at its line):

- a job may be leased again while its old holder still runs; the lease token
  (`leased_by`, `leased_until`) is the only fence;
- the heartbeat's renewals race the handler, the expiry and each other's lost
  answers, and are judged by two different clocks;
- `app.lease_job` decides in a snapshot and locks later;
- `ingest()` is a chain of separate database calls; only the status of the
  version keeps two workers apart and only the job brings anybody back;
- routes and syncs check the credential in one call and act in the next, and a
  refreshed token is stored by whoever was given it;
- cursors move before what they cover is ingested, and overlapping syncs move
  the same one;
- resolutions of one organization read, delete and insert in separate
  statements under READ COMMITTED, and no lock orders them;
- sign-in, erasure, requests and jobs of one account meet in six tables, held
  together by row locks, foreign keys and a trigger that counts memberships;
- an open circuit rejects attempts as fast as the back-off allows them.

For each component the properties that make it correct: a job is attempted at
most `max_attempts` times, by one accepted holder at a time, ends, and is not
starved by another tenant; content is extracted by one worker at a time, stays
extracted, and is not given up silently; a disconnected user's credential and
schedule stay dead, and a connected user's token stays usable; no message is
passed by a cursor unseen; an outage kills no job that begins after it; the
opportunities are what the evidence says and cite nothing that was never
stored; an identity lives exactly as long as its memberships, its old tokens
and its private evidence end with it; a screenshot does not outlive its job.

## Modules

| Module | Models | State and actions |
|---|---|---|
| `JobLifecycle` | what the queue promises about one row | `status`, `attempts`, `holder`; Enqueue, Cancel, Attempt, Succeed, Retry, GiveUp, Delete |
| `JobQueue` | the `jobs` table and the queue's operations on it | `jobs`, `older` (the order of `created_at`), `served` (the order of `last_leased_at`), `erased`; operators for each operation |
| `Worker` | worker processes over `JobQueue`, with an atomic `leaseNext` (SQLite's `begin immediate`) | `ws`: phase, the worker's copy of the job, the renewal in flight; one action per step of the loop and of the heartbeat |
| `PostgresLeasing` | `Worker` with `app.lease_job` in its two steps | `heads`: the snapshot of a lease in progress; LeaseSnapshot, LeaseLock, LeaseSkipped |
| `TenantFairness` | `Worker` with a history variable | `overtaken` |
| `Ingestion` | `ingest()` run by jobs that are reclaimed, while contributors are erased | `members`, `versions` with their contributors, `jobs` (as `JobLifecycle` describes them), `runs`: the await each worker is suspended in; `erasures` counts; `torn` and `overwritten` are history |
| `ConnectorSync` | one user's connection to one provider, with the refresh and rotation of its tokens | `credential`, `grants`, `jobs`, `runs`, `rotates`, `requests`: the await each route is suspended in; `mishaps` is history |
| `Cursors` | a Gmail or GroupMe cursor and the syncs that share it | `arrived`, `cursor`, `runs`, `ingested`; one action per call to the provider, the cursor's save and each ingestion; `fetched`, `skipped` are history |
| `Circuit` | `ProviderHttpClient` in each worker under the queue's back-off, with the code's own numbers | `jobs`, `calls`, `failures`, `openFor`; `disturbed` is history |
| `Resolution` | one organization's claims, overrides and opportunities | the three tables, `versions`, `reconciles`, `txns`: the statement each Postgres transaction, and each SQLite reconciliation, is at; `raced` is history |
| `Accounts` | accounts from sign-in to erasure | `members`, `identity`, `sessions`, `credentials`, `jobs`, `links`, `evidence`; `signIns` and `requests` say where each is; `stale`, `overlapped` and the requests' `early`, `late` are history |
| `WorkerProofs`, `LeasingProofs`, `IngestionProofs`, `ConnectorProofs`, `CursorsProofs`, `CircuitProofs`, `ResolutionProofs`, `AccountsProofs` | theorems | |
| `MC*` | the small instances | |

`Worker` extends `JobQueue`; `PostgresLeasing` and `TenantFairness` extend
`Worker`; `Worker` instantiates `JobLifecycle` for every row.

How state corresponds to the code:

- **Time.** `available_at` and `leased_until` are kept as the time left, which
  the clock's `Tick` decreases. No horizon bounds a behaviour and the state
  space stays finite. A lease that has run out for good is `Expired`, which is
  also what a null `leased_until` is to every test of the code. Unequal tokens
  that have both run out look equal, but each test of a token also asks for
  `leased_until > now`.
- **Clocks.** `ClocksAgree = FALSE` lets the worker's own comparisons
  (`stop()`, the catch of `renew()`) come out either way.
- **Calls.** Every await ends an action. A renewal is sent, executed and
  answered in separate steps, and its answer may be lost at each of them; a
  settlement may never arrive. A renewal that the client gave up on and the
  database executes later is not modelled.
- **Processes.** A crashed worker is replaced by one that has no job. The code
  draws a new random worker id; the model reuses the name, which only gives a
  stale row more chances to look owned.
- **Orders.** Ties of `created_at` or `last_leased_at` within one millisecond
  are taken as ordered.
- **Users** are memberships: a user of two tenants is two of them, and a user
  has one provider in `CancelPending`. An erasure enqueues at most one
  reconciliation in a step.
- **JobLifecycle** describes the lease as SQLite executes it. Postgres' lock step
  repeats neither the test of the status nor of the attempts, so the refinement
  is stated and proved for `Worker`, not for `PostgresLeasing`.
- **Ingestion.** The transaction of `stageSource` is one step (SQLite's
  `begin immediate`, in Postgres the lock of the `sources` row its upsert
  takes), so that the status `received` is never seen from outside. Links of
  links are members of `Links` like the others, and any link may be passed
  over, its fetch having failed. `Faults` says which faults happen. An erasure
  is one step: it deletes the user's jobs and the private versions nobody else
  contributed, whatever their status and whoever is at work on them. A worker
  whose version is erased under it is `torn`: it goes on and takes the error
  path of `markSourceProcessing` (`NotReady`), stores nothing, or writes on the
  row another contributor has staged under the same id since. A worker that
  joins a torn one at a version counts as torn too.
- **ConnectorSync.** The callback exchanges its code in one step and stores the
  tokens in another, which may fail, and any number of callbacks may be between
  the two (`grants.inFlight`). The names of rows that have ended stand for later slots of
  the schedule. A lease is lost only by a crash. What a sync fetches and
  ingests is one step that may fail. A provider replaces the refresh token on
  every refresh or on none (`rotates`); a token is `fresh` while the provider
  would accept it. With a provider that replaces it only now and then, a late
  put could store an old token over a newer one, which this model does not
  show.
- **Cursors.** Message m is the m-th to arrive. A GroupMe cursor is the last
  message in the order of `created_at` in seconds, and of those of one second
  any may be last. `faulty` is chosen initially, so that one run has both the
  behaviours with failures and those without.
- **Circuit.** A tick is 2 seconds and divides every delay of the code (2, 4, 8,
  16, 30, 60). The pauses between the tries of a call take no time, which only
  lets attempts follow each other faster. Workers and database have one clock.
- **Resolution.** A claim's score, its date's being past and the id of the event
  it announces are constants: the clock stands still. `Resolved` is the set of
  the results the rules allow, as ties may be broken either way. SQLite
  executes a transaction in one step: it begins with `begin immediate`, and
  inside it the only awaits are those of synchronous statements, whose
  continuations run before any other work of the process, so that no other
  request joins an open transaction through `transactionDepth`. The
  reconciliation job has no transaction around it (`worker.ts:118`): its reads,
  its delete and each of its inserts commit by themselves, other processes on
  the file commit in between, and it may die after any of them.
- **Accounts.** A behaviour is about one of two worlds, a user of two tenants or
  two users of one. Rows deleted by a transaction disappear for others at its
  commit; whoever inserts below a locked membership or version waits. A
  deadlock between a sign-in and an erasure is an action that ends one of the
  two, as Postgres does. An authentication reads the session in one step and
  the membership in the next, and the request records on which side of an
  erasure of its account each of them fell (`early`, `late`). One set, `links`,
  stands for contributions and connector cursors, which both go with the
  membership.

## Runs

| Run | Result | What it shows |
|---|---|---|
| `lease_races` | passes | two workers, one job, lost and late renewals, disagreeing clocks, crashes, cancellation, erasure: a heartbeat that counts on its lease is right, tokens fence attempts, leased jobs are left alone, and every enqueued job ends |
| `queue_table` | passes | three jobs of two tenants with cancellation, revival, erasure and reconciliation: every row implements `JobLifecycle`, attempts are bounded, screenshots are redacted exactly at the end, a waiting tenant is overtaken at most once by another |
| `postgres_fencing` | passes | although Postgres may lease one row to two workers, an accepted token is of the row's present attempt, and a running job is settled only by the holder of its unexpired lease or by the sweep |
| `ingestion_faults` | passes | under crashes, lost leases, failing calls, lost answers of commits and erasures extraction is exclusive, versions are owned, and success is final; the exceptions are workers whose version was erased under them, and for the last also one that takes its unanswered commit for a failure |
| `ingestion_crash` | violation | a crash after staging loses the content behind a successful job |
| `connector_quiet` | passes | with refreshes, rotation, crashes, reconnections: the stored token is usable unless its successor was lost, it is of the newest consent that was stored unless a refresh or an earlier callback had tokens on their way, and a disconnected user's schedule ends |
| `connector_refresh` | violation | a refresh under way un-revokes a credential |
| `cursors` | passes | overlapping and failing syncs: the cursor passes only what was fetched or is left out by design, and without faults every other message is ingested in the end |
| `circuit` | passes | circuits left open by an outage do not use up the attempts of a job that began after it |
| `resolution` | passes | in SQLite and Postgres the opportunities are what the rules make of the tables unless resolutions overlapped, a reconciliation is due or one was given up, and cite only evidence that was stored |
| `resolution_repeat` | violation | two sources that announce one event make every resolution fail on a duplicate id |
| `accounts` | passes | sign-ins, requests, erasures and jobs interleaved by statement: counted identities, no links of non-members, no orphaned evidence, no old token that authenticates a request begun after the erasure, nothing left of a user who is no member anywhere |

The violations are disagreements with what the repository's documents and
pages say; `PROJECT.json` quotes them under `findings`.

Several exceptions in the properties describe what the code really allows, and
removing one gives the counterexample: `~raced` in `CurrentUnlessRaced` (the
resolution that read first writes last; in SQLite a reconciliation, between
whose statements an override was committed), and there the reconciliations that
were given up; `torn` in the properties of `Ingestion` (an erasure deletes the
version a worker is at, another contributor's job stages it again, and two
workers are at one id); `mishaps` in `UsableUnlessLost` and
`NewestGrantUnlessOvertaken` (of two callbacks under way the earlier consent is
stored last, or a refresh overwrites a new one); `overlapped` in
`TokensEndWithAccount` (a session inserted behind the erasure's delete lives on
while the user is a member of another tenant) and `early` there (a request has
read its session, the account is erased, the user signs in again, and the
request finds the new membership: the deleted token is let through for the new
account); `~faulty` in `KeptWithoutFaults` (a message whose ingestion
fails lies behind the cursor and is not fetched again), `skipped` (what follows
the first page of a Gmail history).

More results come from changing a constant or a property of a run:

- `AttemptsBounded` added to `PostgresFencing.cfg` fails: `app.lease_job`
  leases a row again that was leased a moment ago and counts beyond
  `max_attempts`, against `docs/RUNBOOK.md:21`.
- `IngestionCrash.cfg` with `Faults = {}` or `{"commit"}` passes, and with
  `{"call"}` fails as with `{"crash"}`: a database call that throws between
  staging and the recorded outcome has the effect of a crash. With
  `RootOf <- RootsApart` and without `SYMMETRY` it fails without any fault: the swallowed failure of a
  link (`ingest.ts:91`) loses the root of another job, which has returned
  `unchanged` meanwhile.
- The queue may hold a sync that was scheduled behind a disconnection, because
  `scheduleAfter` checks the credential and enqueues in two calls
  (`tests/queue.test.ts:252` tests the order without the race); `ScheduleEnds`
  shows that it runs out.
- With `Expiring = FALSE`, where no token is ever refreshed,
  `connector_refresh` passes.

**Bounds.** Two workers are enough for every race over a job: a holder and its
successor (a third would only repeat the successor's part). `MaxAttempts = 2`
has a first, a retried and a last attempt in one. `LeaseSeconds` of 2 or 3
stands for 60: with 3 the stop margin (a third of the lease) is 1 and a lease
has an instant above, at and below it; 2 is used where the heartbeat is not
the question. One job in `lease_races` means that `EventuallyTerminal` says
nothing of other tenants' jobs, which may be revived again and again; that they
do not starve it is `OvertakenAtMostOnce`. Back-off is the code's own function of the attempt.
`queue_table` uses one worker and three jobs, so that ranks, priorities and
tenants matter. Ingestion has two jobs of two users with one private root and a page
it links to, so that both levels are raced for; one erasure suffices for a
version to be deleted, staged again by the other user and met by its first
worker. `MaxExtractions = 2` stands for 5. Connector runs have two workers, two
slots, two grants, which may both be between exchange and put, and one request
at a time. `cursors` has three messages, two of them of the same second, and
pages of two: a page can be full, overlap another and leave something out.
`circuit` uses the code's own thresholds and delays, with two workers, whose
circuits open independently, and two jobs, one to open a circuit while the
other waits. `resolution` has three sources whose claims conflict over
deadline, reopening and event, one of them private, two processes that resolve,
two attempts and one override. `accounts` has three sign-ins (one before, one
during and one after an erasure) and two requests, and worlds of two accounts,
the smallest where a user outlives an erasure in another tenant or a version its
contributor; users and tenants are symmetric too. State counts: `ingestion_faults` 2.8 million distinct states,
`accounts` 1.3 million, `resolution` 640 thousand, `connector_quiet` 226
thousand. Workers, resolvers, sign-ins
and requests are symmetric where no liveness is checked. Deadlock is checked
except in ingestion, resolution and accounts, where all jobs and sign-ins end
and nothing remains to be done.

**Fairness.** `lease_races`: the clock runs; the database executes a renewal
that was sent and an event loop runs the continuation of an answer; a handler
returns, all its outbound calls having timeouts; a supervisor restarts a dead
worker (the Kubernetes deployment does). Leasing is strongly fair: a worker
that keeps crashing and coming back completes `leaseNext` sooner or later.
No fairness is assumed of users, erasure, maintenance, crashes or lost
messages. `connector_quiet` assumes the same of leases, of syncs and of the
second call of a route, whose failure is one of its outcomes. `cursors` assumes
that a worker goes on with the next call of its sync, as every call has a
timeout, and that it begins a next sync, as a sync that succeeds schedules one;
`Delivered` speaks only of behaviours in which none fails. Nothing is assumed of
arriving messages or of failures.

## Proofs

Proved with TLAPS, for every number of jobs, workers, tenants, messages,
sign-ins and so on, every attempt budget and every lease duration, from the
assumptions on the constants alone. These say what the code fixes: that budgets
and durations are natural numbers (positive where the code has a positive
constant), that names which mean "none" are not among the names they are told
apart from, that every job has a tenant and a type and every claim a version,
a field, a time and a score, that messages arrive in the order of their
seconds, that patches patch only what the route accepts, and, for `Accounts`,
that a world of accounts is finite. TLC evaluates each of
them in the runs.

- `WorkerProofs`: `TypeCorrect`, `AttemptsStayBounded`,
  `BeliefImpliesOwnership`, `TokensFenceAttempts`, `ScreenshotsDiscarded`;
  the action property `LeasesRespected`; and `EveryRowImplementsLifecycle`, the
  refinement of `JobLifecycle`.
- `LeasingProofs`: `NobodyOvertakenTwice` for `TenantFairness`;
  `PostgresTokensFence` and the action property `PostgresSettledByHolder` for
  `PostgresLeasing`.
- `IngestionProofs`: `TypeCorrect`, `ExtractionIsExclusive`,
  `VersionsAreOwned` and `SuccessIsFinal`, under every set of faults and any
  number of erasures.
- `ConnectorProofs`: `ConnectorTypes`, `StoredTokenUsable`,
  `NewestConsentInUse`, and `RevocationHoldsWithoutRefresh`: the property that
  `connector_refresh` violates does hold where tokens do not expire, so that
  no sync but one that refreshes brings a revoked credential back. The put of a
  callback may do so too, its code having been exchanged before or after the
  disconnection; the property admits it, as the user has consented.
- `CursorsProofs`: `CursorTypes`, `CursorsPassNothingUnseen`,
  `FetchedMessagesAreKept`.
- `CircuitProofs`: `CircuitTypes` and `CircuitsDoNotKill`, also for every grain
  of time.
- `ResolutionProofs`: `ResolutionTypes`, `RowsCiteRealEvidence`,
  `RowsAreCurrent`, and `SqliteRowsAreCurrent`: in SQLite, before the first
  erasure queues a reconciliation, the transactions of ingestions and reviews
  keep the rows current without any exception.
- `AccountsProofs`: `AccountTypes`, `UsersRowCountsMemberships`,
  `ErasureLeavesNothing`, `ContributorsAreMembers`, `EvidenceHasContributors`,
  `TokensDieWithAccount`.

The inductive invariant of `Worker` (`IndInv`) adds to the types: a row counts
its attempts and names a worker exactly while it runs (`RowsConsistent`); a
busy worker has a job and only a busy worker renews (`ProcessesConsistent`); a
row that names a busy worker is at that worker's attempt (`CopiesCurrent`); and
what a worker knows of its lease, or is about to learn from an answer under
way, is covered by the row (`LeasesCovered`). `BeliefIsOwnership` alone is not
inductive: between the execution of a renewal and its answer the row is ahead
of the worker, and the answer is a promise the row must keep. `FencedAttempts`
needs `CopiesCurrent`, which speaks of the row's holder and not of the token,
because tokens change with every renewal while attempts do not.

The invariant of `TenantFairness` (`FairInv`) adds to `IndInv`: a tenant that
has overtaken another was served after it (`CountsServed`), of two tenants at
most one was served before the other (`ServedOrdered`), and among any rows of
the table one was created first (`CreationOrdered`). The last is what makes
`tenant_rank = 1` exist for every tenant that waits; stated for all sets of rows
it is kept by each insertion and deletion, and no assumption that the table is
finite is needed. The argument: a tenant that could be overtaken a second time
was served before the one about to be served, and has a head of its own, so the
selection prefers that head.

The invariant of `PostgresLeasing` (`PgInv`) can use neither the attempt budget
nor `BeliefIsOwnership`, as `LeaseLock` breaks both. It keeps weaker types,
`ProcessesConsistent` and `CopiesCurrent`: whichever row is leased again, the
new holder counts as the row does and every other copy is of another holder.

The invariant of `Ingestion` joins `ExtractionExclusive` and `OwnedVersions`,
each of which needs the other: a version in the status its worker left it in is
not taken by `stageSource`, and a version that one worker has is not changed by
another. Both except the torn workers; what makes this inductive is that
staging a version at which a torn worker still is makes the newcomer torn, so
that two workers at one version are both torn.
`AttemptsLeft` keeps the counter in range, but for a row on which a torn worker
recorded its own attempt.

The invariant of `ConnectorSync` says who holds a token the provider accepts:
a worker about to store one is the only holder of it, the row's own token and
the copies of the others being refused once the provider has rotated
(`SoleHolder`); a provider that does not rotate refuses nothing
(`NoneRefused`); tokens of older grants are in use, or on
their way from a refresh or a callback, only after an overtaking
(`CopiesNewest`); and no token in use is one a callback has yet to store
(`GrantsKnown`). `UsableUnlessLost` needs the first two, since whether the
stored token is good depends on what a refresh under way has been given.

The invariant of `Cursors` makes a promise of every position that may still be
saved: what a sync starts from, or is about to save, covers only messages that
were seen (`PositionsSeen`). Cursors may then be saved in any order, backwards
too. `HandsEmpty` keeps the messages in hand apart from sync to sync.

The invariant of `Circuit` (`IInv`) relates time on both sides: for a job that
is pending, begun and undisturbed, no circuit stays open longer than the job's
own wait and the delays after it (`CircuitsCloseInTime`). Each rejected attempt
uses up one delay, and after the fourth nothing is left, so that the fifth
attempt finds every circuit closed. `DeadOnlyIfDisturbed` alone says nothing of
the attempts before. `CallsRun` ties the calls to running jobs, so that no job
is run by two workers.

The invariant of `Resolution` describes a transaction half-way: what it has
read was stored, or is its own, or was erased (`ReadsReal`), and as long as
nobody has committed since it is exactly what the tables hold (`ReadsCurrent`),
so that a commit that was not overtaken writes the resolution of the tables. Of
a reconciliation in SQLite that is inserting and undisturbed, the rows in the
table and those it has left to insert are together the resolution.
`JobsHeld` keeps two workers from one job. The rules themselves enter through
lemmas on `Resolved`: its rows cite only the claims given to it, and an
overridden field has the value of the latest override, which exists because a
bounded set of natural numbers has a greatest element.

The invariant of `Accounts` is about row locks: an erasure under way has its
membership for itself (`MembershipsHeld`), no two of them delete from one
version at a time (`VersionsHeld`), one that leaves the version has found
another contributor who stays (`SharersStay`), and one has found all sessions
but those created since (`SessionsFound`). A session that is still there after
the erasure of its account was therefore created during it (`StaleOverlapped`),
and a request under way has read such a session or one from before the erasure
(`RequestsBegun`). `NoOrphanedEvidence` fails without
the middle two: each of two contributors erased at once would count on the
other. The counts use the theorems of the library on cardinality, for which
worlds must be finite.

A theorem's last step is propositional temporal logic over these facts.

**Only model-checked.** The liveness properties (`EventuallyTerminal`,
`ScheduleEnds`, `Delivered`), because the prover has no reasoning for fairness
and ENABLED. Every invariant and every action property of a passing run is
proved.

## Not modelled, and the plan

Done, in the order of the plan: (1) queue and worker, (2) Postgres leasing and
tenant fairness, (3) ingestion, (4) credentials with rotation, and the recurring
schedule, (5) cursors, (6) resolution, (7) accounts from sign-in to erasure,
(8) the circuit breaker, (9) the theorems above.

Next: refinements worth stating and proving beyond `JobLifecycle`, such as the
jobs of `Ingestion` and `ConnectorSync` as instances of it, and the absence of
the violations under the conditions listed above (`IngestionCrash.cfg` with
`Faults = {}` or `{"commit"}`), as `RevocationHoldsWithoutRefresh` does for the
refresh.

Left out:

- Rate limiters: a counter per key and window on whose state nothing else
  depends; a refused request is a choice in `Accounts`.
- The redaction of old texts and evidence by `app.run_maintenance`: it
  overwrites columns that no modelled component reads again.
- The OIDC exchange, role checks, organization upserts and reads.
- Extraction by the language model (its outcome is a choice in `Ingestion`),
  the classification of URLs and dates, the address checks and limits of
  outbound requests, encryption of credentials, configuration, migrations and
  grants, logging, metrics, audit rows and the user interface. None of them
  keeps state that another component's correctness depends on.
- The heartbeat's interval: when a renewal is sent is left open, which includes
  every timing the code's 20 seconds could have.
