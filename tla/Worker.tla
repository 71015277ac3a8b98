------------------------------- MODULE Worker -------------------------------
(***************************************************************************)
(* Worker processes against the job queue: the loop of bootstrap/worker.ts *)
(* with the JobLeaseHeartbeat it starts for every job.  Calls to the queue *)
(* cross a network: a renewal is sent, executed by the database, and       *)
(* answered in three steps, between which anything else may happen, and    *)
(* its answer may be lost.  A process may die at any step; its successor   *)
(* starts with no job, as the random workerId of a new process does.       *)
(*                                                                         *)
(* leaseNext is one atomic step here: `begin immediate` in SQLite.         *)
(* PostgresLeasing.tla replaces it by the two steps of app.lease_job.      *)
(***************************************************************************)
EXTENDS JobQueue

CONSTANTS
  NoJob,
  ClocksAgree     \* whether a worker's Date.now() is the database's now()

ASSUME WorkerAssumptions ==
  /\ NoJob \notin Jobs
  /\ ClocksAgree \in BOOLEAN

VARIABLE ws       \* the state of each worker process

vars == <<jobs, older, served, erased, ws>>

\* The remaining time under which stop() renews once more.
StopMargin == IF LeaseSeconds \div 3 < 5 THEN LeaseSeconds \div 3 ELSE 5

Phases   == {"idle", "leasing", "working", "stopping", "renewing", "settling", "dead"}
Renewals == {"none", "sent", "granted", "refused", "failed"}
Busy     == {"working", "stopping", "renewing", "settling"}

Process == [phase    : Phases,
            job      : Jobs \union {NoJob},     \* current.id
            attempts : 0 .. MaxAttempts,        \* current.attemptCount
            left     : Expired .. LeaseSeconds, \* current.leasedUntil
            lost     : BOOLEAN,
            renewal  : Renewals,                \* the renewal promise
            reply    : Expired .. LeaseSeconds] \* leasedUntil in its answer

InPhase(phase) ==
  [phase |-> phase, job |-> NoJob, attempts |-> 0, left |-> Expired, lost |-> FALSE,
   renewal |-> "none", reply |-> Expired]

Idle == InPhase("idle")
Dead == InPhase("dead")

Init == QueueInit /\ ws = [w \in Workers |-> Idle]

-----------------------------------------------------------------------------
(* Taking a job *)

\* Mutant: leaseNext returns the attempt count it read, not the one it wrote.
StartedFromSelect(j, row) ==
  [phase |-> "working", job |-> j, attempts |-> row.attempts - 1, left |-> row.left,
   lost |-> FALSE, renewal |-> "none", reply |-> Expired]

\* The job as leaseNext returns it, with a heartbeat started on it.
Started(j, row) ==
  [phase |-> "working", job |-> j, attempts |-> row.attempts, left |-> row.left,
   lost |-> FALSE, renewal |-> "none", reply |-> Expired]

\* The sweep, the lease and the fairness record are one transaction.
LeaseNext(w) ==
  /\ ws[w].phase = "idle"
  /\ \E j \in Jobs :
       /\ Selected(Swept, j)
       /\ jobs' = [Swept EXCEPT ![j] = Leased(@, w)]
       /\ served' = Touched(TenantOf[j])
       /\ ws' = [ws EXCEPT ![w] = Started(j, Leased(jobs[j], w))]
  /\ UNCHANGED <<older, erased>>

\* leaseNext finds nothing: the sweep alone is committed and the loop sleeps.
LeaseNothing(w) ==
  /\ ws[w].phase = "idle"
  /\ \A j \in Jobs : ~Leasable(Swept[j])
  /\ jobs' = Swept
  /\ UNCHANGED <<older, served, erased, ws>>

-----------------------------------------------------------------------------
(* The heartbeat *)

\* The interval fires and beginRenewal finds no renewal in flight.  When it
\* fires is left open: a busy event loop delays it at will.
BeginRenewal(w) ==
  /\ ws[w].phase = "working" /\ ws[w].renewal = "none" /\ ~ws[w].lost
  /\ ws' = [ws EXCEPT ![w].renewal = "sent"]
  /\ UNCHANGED queueVars

Answered(p, renewal, reply) == [p EXCEPT !.renewal = renewal, !.reply = reply]

\* The database executes a renewal.
ExecuteRenewal(w) ==
  LET j == ws[w].job IN
  /\ ws[w].renewal = "sent"
  /\ IF HoldsLease(j, w, ws[w].left)
       THEN /\ jobs' = [jobs EXCEPT ![j] = Renewed(@)]
            /\ ws' = [ws EXCEPT ![w] = Answered(@, "granted", LeaseSeconds)]
       ELSE /\ ws' = [ws EXCEPT ![w] = Answered(@, "refused", Expired)]
            /\ UNCHANGED jobs
  /\ UNCHANGED <<older, served, erased>>

\* The call throws, before or after the database executed it.
LoseRenewal(w) ==
  /\ ws[w].renewal \in {"sent", "granted", "refused"}
  /\ ws' = [ws EXCEPT ![w] = Answered(@, "failed", Expired)]
  /\ UNCHANGED queueVars

\* What a comparison with the worker's own clock may yield.
LocalReadings(reading) == {b \in BOOLEAN : ClocksAgree => (b <=> reading)}

\* renew() after its await: a refusal loses the lease, an exception only
\* when the lease the worker knows of seems to have run out.
AfterRenewal(p, seemsExpired) ==
  [p EXCEPT !.renewal = "none",
            !.left = IF p.renewal = "granted" THEN p.reply ELSE @,
            !.reply = Expired,
            !.lost = @ \/ p.renewal = "refused" \/ (p.renewal = "failed" /\ seemsExpired)]

FinishRenewal(w) ==
  /\ ws[w].phase \in {"working", "stopping"}
  /\ ws[w].renewal \in {"granted", "refused", "failed"}
  /\ \E seemsExpired \in LocalReadings(ws[w].left <= 0) :
       ws' = [ws EXCEPT ![w] = AfterRenewal(@, seemsExpired)]
  /\ UNCHANGED queueVars

\* The handler returns or throws; stop() clears the interval.
FinishWork(w) ==
  /\ ws[w].phase = "working"
  /\ ws' = [ws EXCEPT ![w].phase = "stopping"]
  /\ UNCHANGED queueVars

\* stop() once the renewal in flight is over: give the job up, renew a lease
\* about to run out, or go on to settle.
StopHeartbeat(w) ==
  /\ ws[w].phase = "stopping" /\ ws[w].renewal = "none"
  /\ IF ws[w].lost
       THEN ws' = [ws EXCEPT ![w] = Idle]
       ELSE \E short \in LocalReadings(ws[w].left <= StopMargin) :
              ws' = [ws EXCEPT ![w].phase = IF short THEN "renewing" ELSE "settling",
                               ![w].renewal = IF short THEN "sent" ELSE "none"]
  /\ UNCHANGED queueVars

\* The last renewal of stop() is answered.
FinishLastRenewal(w) ==
  /\ ws[w].phase = "renewing"
  /\ ws[w].renewal \in {"granted", "refused", "failed"}
  /\ \E seemsExpired \in LocalReadings(ws[w].left <= 0) :
       LET p == AfterRenewal(ws[w], seemsExpired) IN
       ws' = [ws EXCEPT ![w] = IF p.lost THEN Idle ELSE [p EXCEPT !.phase = "settling"]]
  /\ UNCHANGED queueVars

-----------------------------------------------------------------------------
(* Settling *)

Settled(j, row, failed) == IF failed THEN Failed(j, row) ELSE Succeeded(j, row)

\* Mutant: settling asks for no lease.
SettleUnfenced(w) ==
  LET j == ws[w].job IN
  /\ ws[w].phase = "settling"
  /\ Exists(j)
  /\ \E failed \in BOOLEAN : jobs' = [jobs EXCEPT ![j] = Settled(j, @, failed)]
  /\ ws' = [ws EXCEPT ![w] = Idle]
  /\ UNCHANGED <<older, served, erased>>

\* complete() or, after an error of the handler or of scheduleAfter, fail().
\* Without the lease the call throws and the loop goes on; so it does when
\* only the answer is lost.
Settle(w) ==
  LET j == ws[w].job IN
  /\ ws[w].phase = "settling"
  /\ IF HoldsLease(j, w, ws[w].left)
       THEN \E failed \in BOOLEAN : jobs' = [jobs EXCEPT ![j] = Settled(j, @, failed)]
       ELSE UNCHANGED jobs
  /\ ws' = [ws EXCEPT ![w] = Idle]
  /\ UNCHANGED <<older, served, erased>>

\* complete() or fail() never reaches the database.
LoseSettlement(w) ==
  /\ ws[w].phase = "settling"
  /\ ws' = [ws EXCEPT ![w] = Idle]
  /\ UNCHANGED queueVars

-----------------------------------------------------------------------------
(* Processes come and go; the clock advances *)

\* Killed, stopped by SIGTERM between two jobs, or ended by an exception of
\* leaseNext, which no handler of the loop catches.
Crash(w) ==
  /\ ws[w].phase # "dead"
  /\ ws' = [ws EXCEPT ![w] = Dead]
  /\ UNCHANGED queueVars

Restart(w) ==
  /\ ws[w].phase = "dead"
  /\ ws' = [ws EXCEPT ![w] = Idle]
  /\ UNCHANGED queueVars

OlderProcess(p) ==
  [p EXCEPT !.left = Sooner(@, Expired), !.reply = Sooner(@, Expired)]

Tick ==
  /\ jobs' = [j \in Jobs |-> Aged(jobs[j])]
  /\ ws' = [w \in Workers |-> OlderProcess(ws[w])]
  /\ UNCHANGED <<older, served, erased>>

-----------------------------------------------------------------------------

\* What a worker does with a job it has leased.
WorkerStep(w) ==
  \/ BeginRenewal(w) \/ ExecuteRenewal(w) \/ LoseRenewal(w) \/ FinishRenewal(w)
  \/ FinishWork(w) \/ StopHeartbeat(w) \/ FinishLastRenewal(w)
  \/ Settle(w) \/ LoseSettlement(w)
  \/ Crash(w) \/ Restart(w)

\* What users, operators and the scheduler of connector syncs do.
RequestStep ==
  \/ \E j \in Jobs, d \in Delays :
       TypeOf[j] # "privacy.reconcile" /\ Enqueue(j, d) /\ UNCHANGED ws
  \/ \E t \in Tenants, u \in Users : CancelPending(t, u) /\ UNCHANGED ws
  \/ \E u \in Users, R \in {{}} \union {{r} : r \in Jobs} : EraseAccount(u, R) /\ UNCHANGED ws
  \/ \E j \in Jobs : RunMaintenance(j) /\ UNCHANGED ws

Next ==
  \/ \E w \in Workers : LeaseNext(w) \/ LeaseNothing(w) \/ WorkerStep(w)
  \/ RequestStep
  \/ Tick

Spec == Init /\ [][Next]_vars

\* The clock runs; the event loop runs what it can run; a handler returns,
\* its outbound calls all having timeouts; a supervisor restarts a worker,
\* and one that keeps being restarted sooner or later completes leaseNext.
\* Nothing makes a user, an erasure, maintenance or a crash happen.
Fairness ==
  /\ WF_vars(Tick)
  /\ \A w \in Workers :
       /\ SF_vars(LeaseNext(w)) /\ SF_vars(LeaseNothing(w))
       /\ WF_vars(ExecuteRenewal(w)) /\ WF_vars(FinishRenewal(w))
       /\ WF_vars(FinishWork(w))
       /\ WF_vars(StopHeartbeat(w)) /\ WF_vars(FinishLastRenewal(w))
       /\ WF_vars(Settle(w)) /\ WF_vars(Restart(w))

FairSpec == Spec /\ Fairness

-----------------------------------------------------------------------------
(* Properties *)

TypeOK ==
  /\ jobs \in [Jobs -> Row]
  /\ older \subseteq Jobs \X Jobs
  /\ served \subseteq Tenants \X Tenants
  /\ erased \subseteq Users
  /\ ws \in [Workers -> Process]

\* A waiting job has an attempt left and a running one has used between one
\* and max_attempts: neither a retry nor the recovery of an expired lease
\* ever exceeds the budget of the job (lease_job's attempt_count tests).
AttemptsBounded ==
  \A j \in Jobs :
    /\ jobs[j].status \in Pending => jobs[j].attempts < MaxAttempts
    /\ jobs[j].status = "running" => jobs[j].attempts \in 1 .. MaxAttempts

\* w is working for job j under a lease that has not run out, as far as its
\* own heartbeat can tell.
Believes(w, j) ==
  /\ ws[w].phase \in Busy /\ ws[w].job = j
  /\ ~ws[w].lost /\ ws[w].left > 0

\* A worker whose heartbeat still counts on its lease owns the row: no other
\* worker has it, it is not settled, and the database will not hand it out
\* before the worker's own deadline.  Only the erasure of the job's owner
\* takes the row away from under it (renewal, recovery and settlement).
BeliefIsOwnership ==
  \A w \in Workers, j \in Jobs :
    Believes(w, j) /\ OwnerOf[j] \notin erased =>
      /\ jobs[j].status = "running"
      /\ jobs[j].leasedBy = w
      /\ jobs[j].left >= ws[w].left

\* A token the database would accept comes from the row's present attempt:
\* fail() may count attempts on the worker's copy (SQLite) or on the row
\* (Postgres) with the same result, and a stale worker settles nothing.
FencedAttempts ==
  \A w \in Workers :
    LET j == ws[w].job IN
    ws[w].phase \in Busy /\ HoldsLease(j, w, ws[w].left)
      => ws[w].attempts = jobs[j].attempts

\* The image of a screenshot job is kept exactly as long as an attempt may
\* still need it: never in a terminal row, always in a runnable one.
ScreenshotOnlyWhileRunnable ==
  \A j \in Jobs :
    TypeOf[j] = "ingest.screenshot" /\ Exists(j) =>
      (jobs[j].redacted <=> jobs[j].status \in Terminal)

\* A running job whose lease has not run out stays with its holder and its
\* attempt until that holder, about to settle, settles it, or its owner is
\* erased: neither the sweep nor another lease nor a cancellation touches it.
LeaseKept(j) ==
  jobs[j].status = "running" /\ jobs[j].left >= 0 =>
    \/ /\ jobs'[j].status = "running"
       /\ jobs'[j].leasedBy = jobs[j].leasedBy
       /\ jobs'[j].attempts = jobs[j].attempts
    \/ \E w \in Workers :
         /\ w = jobs[j].leasedBy /\ ws[w].phase = "settling" /\ ws[w].job = j
         /\ jobs'[j].status \in Finished \union {"retryable_failed"}
    \/ OwnerOf[j] \in erased'

LeaseRespected == [][\A j \in Jobs : LeaseKept(j)]_vars

\* A job that was enqueued does not wait or run forever: it succeeds, is
\* dead-lettered, is cancelled or disappears with its owner, whatever the
\* workers' crashes, the lost answers and the times it is cancelled and
\* revived.  The run has one job: that the others, which may be revived again
\* and again, do not starve it is left to OvertakenAtMostOnce.
EventuallyTerminal ==
  \A j \in Jobs :
    jobs[j].status \in Pending \union {"running"}
      ~> jobs[j].status \in Terminal \union {"absent"}

Lifecycle(j) ==
  INSTANCE JobLifecycle WITH status   <- jobs[j].status,
                             attempts <- jobs[j].attempts,
                             holder   <- jobs[j].leasedBy

\* Every row of the table lives the life JobLifecycle describes, whatever
\* the sweep, several workers and the clock do in one step: succeeded and
\* dead-lettered jobs never run again, attempts only grow until a revival.
ImplementsLifecycle ==
  /\ \A j \in Jobs : Lifecycle(j)!Init
  /\ [][\A j \in Jobs : Lifecycle(j)!Next \/ UNCHANGED Lifecycle(j)!vars]_vars
-----------------------------------------------------------------------------
(* The inductive invariant behind the properties (proved in WorkerProofs) *)

\* A row counts its attempts and names a worker while it runs, only then.
RowsConsistent ==
  \A j \in Jobs :
    /\ jobs[j].status \in Pending => jobs[j].attempts < MaxAttempts
    /\ jobs[j].status = "running" =>
         jobs[j].attempts \in 1 .. MaxAttempts /\ jobs[j].leasedBy \in Workers
    /\ jobs[j].status # "running" => jobs[j].leasedBy = NoWorker

\* A busy worker has a job, and only a busy worker renews.
ProcessesConsistent ==
  \A w \in Workers :
    /\ ws[w].phase \in Busy => ws[w].job \in Jobs
    /\ ws[w].renewal # "none" => ws[w].phase \in Busy

\* A row that names a busy worker as its holder is at that worker's attempt.
CopiesCurrent ==
  \A w \in Workers :
    LET row == jobs[ws[w].job] IN
    ws[w].phase \in Busy /\ row.status = "running" /\ row.leasedBy = w
      => ws[w].attempts = row.attempts

Covers(row, w, left) ==
  row.status = "running" /\ row.leasedBy = w /\ row.left >= left

\* What a worker knows of its lease, or is about to learn from an answer
\* under way, is covered by the row.
LeasesCovered ==
  \A w \in Workers :
    ws[w].phase \in Busy /\ OwnerOf[ws[w].job] \notin erased =>
      /\ ~ws[w].lost /\ ws[w].left > 0 => Covers(jobs[ws[w].job], w, ws[w].left)
      /\ ws[w].renewal = "granted" /\ ws[w].reply > 0 => Covers(jobs[ws[w].job], w, ws[w].reply)

IndInv ==
  /\ TypeOK /\ RowsConsistent /\ ProcessesConsistent
  /\ CopiesCurrent /\ LeasesCovered /\ ScreenshotOnlyWhileRunnable
=============================================================================
