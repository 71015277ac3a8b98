------------------------------ MODULE Ingestion ------------------------------
(***************************************************************************)
(* IngestionService.ingest run by the workers of the job queue: the life   *)
(* of a source version from staging to extracted claims, for the source a  *)
(* job names (its root) and the linked sources it discovers.               *)
(*                                                                         *)
(* Every await of ingest() ends an action: other workers run in between.   *)
(* The job rows are those of JobLifecycle (Worker.tla implements it): only *)
(* the current holder settles, and the job of a worker that died or lost   *)
(* its lease is leased again.  An account may be erased while workers are  *)
(* at its content; Accounts models the erasure's own statements.           *)
(***************************************************************************)
EXTENDS Integers

CONSTANTS
  Jobs, Workers, Versions, Users,
  NoJob, NoWorker, NoVersion,
  RootOf,          \* the source version a job's fetch yields
  Links,           \* the versions behind the links a root discovers
  OwnerOf,         \* the userId of a job's payload
  Private,         \* the versions of a private source type
  MaxAttempts,     \* max_attempts of a job
  MaxExtractions,  \* extraction attempts of a version (5)
  MaxErasures,     \* bound: erasures of accounts
  Faults           \* what may come between, of FaultKinds

\* "crash": a worker dies; "lease": a living worker's lease runs out;
\* "call": a database call throws, executed or not; "commit": the commit of
\* the extraction's transaction is executed and its answer lost.
FaultKinds == {"crash", "lease", "call", "commit"}

ASSUME IngestionAssumptions ==
  /\ NoJob \notin Jobs /\ NoWorker \notin Workers /\ NoVersion \notin Versions
  /\ RootOf \in [Jobs -> Versions]
  /\ Links \in [Versions -> SUBSET Versions]
  /\ \A v \in Versions : v \notin Links[v]     \* a link to itself is unchanged content
  /\ OwnerOf \in [Jobs -> Users]
  /\ Private \subseteq Versions
  /\ \A v \in Versions : Links[v] \intersect Private = {}     \* links lead to web pages
  /\ MaxAttempts \in Nat \ {0}
  /\ MaxExtractions \in Nat \ {0}
  /\ MaxErasures \in Nat
  /\ Faults \subseteq FaultKinds

VARIABLES
  members,         \* memberships: the users that have an account
  versions,        \* source_versions, with the contributors of each
  jobs,            \* the jobs table, as JobLifecycle sees it
  runs,            \* what each worker is doing
  erasures         \* how many accounts were erased

vars == <<members, versions, jobs, runs, erasures>>

VersionStatuses ==
  {"absent", "queued", "processing", "succeeded", "retryable_failed", "terminal_failed"}
Unfinished == {"queued", "processing", "retryable_failed"}

Version == [status      : VersionStatuses,
            attempts    : Nat,
            by          : SUBSET Users,   \* source_version_contributors
            overwritten : BOOLEAN]        \* history: see MarkFailed

NoRow == [status |-> "absent", attempts |-> 0, by |-> {}, overwritten |-> FALSE]

JobStatuses == {"absent", "queued", "running", "retryable_failed", "succeeded", "dead_letter"}

JobRow == [status : JobStatuses, attempts : 0 .. MaxAttempts, holder : Workers \union {NoWorker}]

NoJobRow == [status |-> "absent", attempts |-> 0, holder |-> NoWorker]

\* The awaits of the handler and of ingest() a worker can be suspended in.
Points == {"idle", "fetch", "stage", "mark", "extract", "store", "fail", "links", "settle"}

Run == [at      : Points,
        job     : Jobs \union {NoJob},
        version : Versions \union {NoVersion},     \* the argument of ingest()
        attempt : Nat,                             \* markSourceProcessing's result
        todo    : SUBSET Versions,                 \* links not yet followed
        failed  : BOOLEAN,                         \* processingError is set
        torn    : BOOLEAN]                         \* history: see Erase and Stage

FreshRun(point, job) ==
  [at |-> point, job |-> job, version |-> NoVersion, attempt |-> 0, todo |-> {},
   failed |-> FALSE, torn |-> FALSE]

Resting == FreshRun("idle", NoJob)

Init ==
  /\ members = Users /\ erasures = 0
  /\ versions = [v \in Versions |-> NoRow]
  /\ jobs = [j \in Jobs |-> NoJobRow]
  /\ runs = [w \in Workers |-> Resting]

IsRoot(w) == runs[w].version = RootOf[runs[w].job]

\* Where an exception takes the worker: out of the handler for the root; for
\* a link, to the next link, the catch block around it being empty.
Thrown(w) ==
  [runs EXCEPT ![w].at = IF IsRoot(w) THEN "settle" ELSE "links", ![w].failed = IsRoot(w)]

\* From the moment stageSource hands it a version until it has recorded the
\* outcome, the worker is at work on the version.
Owning == {"mark", "extract", "store", "fail"}

At(w, v) == runs[w].at \in Owning /\ runs[w].version = v

-----------------------------------------------------------------------------
(* The job *)

\* A request that its session admitted enqueues the job, be the account
\* erased meanwhile.
Submit(j) ==
  /\ jobs[j].status = "absent"
  /\ jobs' = [jobs EXCEPT ![j].status = "queued"]
  /\ UNCHANGED <<members, erasures, versions, runs>>

\* The lease of a running job can run out: its holder no longer works on it,
\* or is too slow to renew it.
Expires(j) ==
  /\ jobs[j].status = "running"
  /\ "lease" \in Faults \/ runs[jobs[j].holder].job # j

\* leaseNext: a waiting job, or one whose lease has run out.
Lease(w, j) ==
  /\ runs[w].at = "idle"
  /\ \/ jobs[j].status \in {"queued", "retryable_failed"}
     \/ Expires(j)
  /\ jobs[j].attempts < MaxAttempts
  /\ jobs' = [jobs EXCEPT ![j] = [status |-> "running", attempts |-> @.attempts + 1, holder |-> w]]
  /\ runs' = [runs EXCEPT ![w] = FreshRun("fetch", j)]
  /\ UNCHANGED <<members, erasures, versions>>

\* The sweep of leaseNext, after a lease of the last attempt was lost.
GiveUp(j) ==
  /\ Expires(j) /\ jobs[j].attempts = MaxAttempts
  /\ jobs' = [jobs EXCEPT ![j].status = "dead_letter", ![j].holder = NoWorker]
  /\ UNCHANGED <<members, erasures, versions, runs>>

\* fetchSource, screenshotSource or a connector call: it may fail.
Fetch(w) ==
  /\ runs[w].at = "fetch"
  /\ \/ runs' = [runs EXCEPT ![w].at = "stage", ![w].version = RootOf[runs[w].job]]
     \/ runs' = [runs EXCEPT ![w].at = "settle", ![w].failed = TRUE]
  /\ UNCHANGED <<members, erasures, versions, jobs>>

\* complete() or fail(), which only the holder's row accepts.
Outcome(w) ==
  IF ~runs[w].failed THEN "succeeded"
  ELSE IF jobs[runs[w].job].attempts < MaxAttempts THEN "retryable_failed" ELSE "dead_letter"

Settle(w) ==
  LET j == runs[w].job IN
  /\ runs[w].at = "settle"
  /\ jobs' = IF jobs[j].status = "running" /\ jobs[j].holder = w
             THEN [jobs EXCEPT ![j] = [status   |-> Outcome(w),
                                       attempts |-> @.attempts,
                                       holder   |-> NoWorker]]
             ELSE jobs
  /\ runs' = [runs EXCEPT ![w] = Resting]
  /\ UNCHANGED <<members, erasures, versions>>

-----------------------------------------------------------------------------
(* ingest(source) *)

\* Mutants: stageSource takes versions over from other workers too, once they
\* are queued or in any unfinished status.
ShouldProcessQueued(v) == versions[v].status \in {"absent", "queued", "retryable_failed"}

ShouldProcessUnfinished(v) == versions[v].status \in Unfinished \union {"absent"}

\* Mutant: unchanged content is processed again.
ShouldProcessAgain(v) == versions[v].status \in {"absent", "retryable_failed", "succeeded"}

\* stageSource: a version never seen, or one that failed, is queued for
\* processing; any other is left to whoever has it.  The job's user becomes a
\* contributor.
ShouldProcess(v) == versions[v].status \in {"absent", "retryable_failed"}

Contributor(w) == OwnerOf[runs[w].job]

Staged(w) ==
  LET v == runs[w].version IN
  [versions EXCEPT ![v].status = IF ShouldProcess(v) THEN "queued" ELSE @,
                   ![v].by = @ \union {Contributor(w)}]

\* An unchanged root returns at once, its links unvisited.  History: a worker
\* that stages a version while a torn worker is still at it is torn too.
Stage(w) ==
  LET v == runs[w].version IN
  /\ runs[w].at = "stage" /\ Contributor(w) \in members
  /\ versions' = Staged(w)
  /\ runs' = [runs EXCEPT ![w].at = IF ShouldProcess(v) THEN "mark"
                                    ELSE IF IsRoot(w) THEN "settle" ELSE "links",
                          ![w].torn = \E u \in Workers : At(u, v) /\ runs[u].torn]
  /\ UNCHANGED <<members, erasures, jobs>>

\* 'Source contributor is not a tenant member': stageSource rolls back.
StageRefused(w) ==
  /\ runs[w].at = "stage" /\ Contributor(w) \notin members
  /\ runs' = Thrown(w)
  /\ UNCHANGED <<members, erasures, versions, jobs>>

\* markSourceProcessing
Ready(v) == versions[v].status \in {"queued", "retryable_failed"}

Processing(v) ==
  [versions EXCEPT ![v].status = "processing", ![v].attempts = @ + 1]

MarkProcessing(w) ==
  LET v == runs[w].version IN
  /\ runs[w].at = "mark" /\ Ready(v)
  /\ versions' = Processing(v)
  /\ runs' = [runs EXCEPT ![w].at = "extract", ![w].attempt = versions[v].attempts + 1]
  /\ UNCHANGED <<members, erasures, jobs>>

\* 'Source version is not ready for processing', outside the try block
NotReady(w) ==
  /\ runs[w].at = "mark" /\ ~Ready(runs[w].version)
  /\ runs' = Thrown(w)
  /\ UNCHANGED <<members, erasures, versions, jobs>>

Extract(w) ==
  /\ runs[w].at = "extract"
  /\ \E next \in {"store", "fail"} : runs' = [runs EXCEPT ![w].at = next]
  /\ UNCHANGED <<members, erasures, versions, jobs>>

\* markSourceSucceeded and markSourceFailed: an update by id, whatever the
\* row's status and whoever staged it; without the row, of nothing.
Recorded(v, status) ==
  IF versions[v].status = "absent" THEN versions ELSE [versions EXCEPT ![v].status = status]

\* The transaction: claims, resolution and success together.  A root goes on
\* to its links.  (Without the row, this is an extraction that found no claims.)
StoreClaims(w) ==
  /\ runs[w].at = "store"
  /\ versions' = Recorded(runs[w].version, "succeeded")
  /\ runs' = [runs EXCEPT ![w].at = "links",
                          ![w].todo = IF IsRoot(w) THEN Links[runs[w].version] ELSE @]
  /\ UNCHANGED <<members, erasures, jobs>>

\* The transaction rolls back: a call fails, or the claims of an erased
\* version violate their foreign key.
StoreAborted(w) ==
  /\ runs[w].at = "store"
  /\ runs' = [runs EXCEPT ![w].at = "fail"]
  /\ UNCHANGED <<members, erasures, versions, jobs>>

\* Mutant: one attempt too many is retryable.
FailedStatusOffByOne(attempt) ==
  IF attempt <= MaxExtractions THEN "retryable_failed" ELSE "terminal_failed"

\* markSourceFailed counts by the attempt of the worker that calls it.
FailedStatus(attempt) == IF attempt < MaxExtractions THEN "retryable_failed" ELSE "terminal_failed"

\* History: a torn worker writes on a row whose attempts it did not count.
MarkFailed(w) ==
  LET v == runs[w].version
      recorded == Recorded(v, FailedStatus(runs[w].attempt))
  IN
  /\ runs[w].at = "fail"
  /\ versions' = [recorded EXCEPT ![v].overwritten = @ \/ (runs[w].torn /\ recorded # versions)]
  /\ runs' = Thrown(w)
  /\ UNCHANGED <<members, erasures, jobs>>

\* The next link is fetched and ingested, or its fetch fails and it is passed
\* over; in the end the handler returns.
FollowLink(w) ==
  /\ runs[w].at = "links"
  /\ \E v \in runs[w].todo :
       \/ runs' = [runs EXCEPT ![w].at = "stage", ![w].version = v, ![w].todo = @ \ {v}]
       \/ runs' = [runs EXCEPT ![w].todo = @ \ {v}]
  /\ UNCHANGED <<members, erasures, versions, jobs>>

LinksDone(w) ==
  /\ runs[w].at = "links" /\ runs[w].todo = {}
  /\ runs' = [runs EXCEPT ![w].at = "settle"]
  /\ UNCHANGED <<members, erasures, versions, jobs>>

-----------------------------------------------------------------------------
(* Faults *)

\* The process dies; its successor starts with nothing.
Crash(w) ==
  /\ "crash" \in Faults /\ runs[w].at # "idle"
  /\ runs' = [runs EXCEPT ![w] = Resting]
  /\ UNCHANGED <<members, erasures, versions, jobs>>

\* stageSource, markSourceProcessing or markSourceFailed throws (a failure
\* recorded before the exception is MarkFailed).
CallThrows(w) ==
  /\ "call" \in Faults
  /\ \/ runs[w].at \in {"stage", "mark", "fail"} /\ versions' = versions
     \/ runs[w].at = "stage" /\ Contributor(w) \in members /\ versions' = Staged(w)
     \/ runs[w].at = "mark" /\ Ready(runs[w].version) /\ versions' = Processing(runs[w].version)
  /\ runs' = Thrown(w)
  /\ UNCHANGED <<members, erasures, jobs>>

\* The transaction is committed but transaction() throws: ingest() takes the
\* path of a failed extraction.
CommitUnanswered(w) ==
  /\ "commit" \in Faults /\ runs[w].at = "store"
  /\ versions' = Recorded(runs[w].version, "succeeded")
  /\ runs' = [runs EXCEPT ![w].at = "fail"]
  /\ UNCHANGED <<members, erasures, jobs>>

\* eraseAccount: the user's jobs, contributions and membership go, and with
\* them the private versions nobody else contributed, whatever their status.
\* History: the workers at such a version are torn from it.
Orphaned(u) ==
  {v \in Private : u \in versions[v].by /\ versions[v].by \subseteq {u}}

Erase(u) ==
  /\ u \in members /\ erasures < MaxErasures
  /\ erasures' = erasures + 1
  /\ members' = members \ {u}
  /\ versions' = [v \in Versions |-> IF v \in Orphaned(u) THEN NoRow
                                     ELSE [versions[v] EXCEPT !.by = @ \ {u}]]
  /\ jobs' = [j \in Jobs |-> IF OwnerOf[j] = u THEN NoJobRow ELSE jobs[j]]
  /\ runs' = [w \in Workers |->
                [runs[w] EXCEPT !.torn = @ \/ \E v \in Orphaned(u) : At(w, v)]]

\* The user signs in again.
SignIn(u) ==
  /\ u \notin members
  /\ members' = members \union {u}
  /\ UNCHANGED <<versions, jobs, runs, erasures>>

-----------------------------------------------------------------------------

WorkerStep(w) ==
  \/ \E j \in Jobs : Lease(w, j)
  \/ Fetch(w) \/ Settle(w) \/ Stage(w) \/ StageRefused(w) \/ MarkProcessing(w) \/ NotReady(w)
  \/ Extract(w) \/ StoreClaims(w) \/ StoreAborted(w) \/ MarkFailed(w)
  \/ FollowLink(w) \/ LinksDone(w)
  \/ Crash(w) \/ CallThrows(w) \/ CommitUnanswered(w)

Next ==
  \/ \E w \in Workers : WorkerStep(w)
  \/ \E j \in Jobs : Submit(j) \/ GiveUp(j)
  \/ \E u \in Users : Erase(u) \/ SignIn(u)

Spec == Init /\ [][Next]_vars

-----------------------------------------------------------------------------
(* Properties *)

\* A version is attempted at most MaxExtractions times, unless a worker whose
\* version was erased recorded its failure on the row staged in its place.
TypeOK ==
  /\ members \subseteq Users /\ erasures \in 0 .. MaxErasures
  /\ versions \in [Versions -> Version]
  /\ \A v \in Versions : versions[v].overwritten \/ versions[v].attempts <= MaxExtractions
  /\ jobs \in [Jobs -> JobRow]
  /\ runs \in [Workers -> Run]

\* No two workers extract the same content, though leases are lost, jobs are
\* reclaimed while their old holder still runs, and two jobs lead to the same
\* content: stageSource alone arbitrates, no lock is held over the extraction.
\* Only an erasure breaks it: it deletes the row under a worker, and until the
\* workers at that version are done another may stage it anew and join them.
ExtractionExclusive ==
  \A u, w \in Workers :
    /\ runs[u].at \in Owning /\ runs[w].at \in Owning
    /\ runs[u].version = runs[w].version
    => u = w \/ (runs[u].torn /\ runs[w].torn)

\* What a worker at work on a version has left in its row.
Finds(run, v) ==
  /\ run.at = "mark" => v.status = "queued"
  /\ run.at \in {"extract", "store"} => v.status = "processing"
  /\ run.at = "fail" => \/ v.status = "processing"
                        \/ v.status = "succeeded" /\ "commit" \in Faults
  /\ run.at \in {"extract", "store", "fail"} => v.attempts = run.attempt

\* A worker at work on a version finds it as it left it: ready when it marks
\* it, its attempt counted by nobody else until the outcome is recorded.  So
\* 'not ready for processing' is thrown only where an erasure came between.
OwnedVersions ==
  \A w \in Workers : runs[w].torn \/ Finds(runs[w], versions[runs[w].version])

\* A worker records a failure of the version, which another has extracted
\* since an erasure, or whose commit was executed and went unanswered.
RecordsFailure(v) ==
  \E w \in Workers :
    /\ runs[w].at = "fail" /\ runs[w].version = v /\ runs'[w].at # "fail"
    /\ runs[w].torn \/ "commit" \in Faults

\* Extracted claims stay, until an erasure deletes the version: staging the
\* content again is a no-op, and no late failure of another attempt, recorded
\* by an unconditional update, turns a succeeded version back.  Only a worker
\* does that does not learn that its transaction was committed, or whose own
\* version was erased.
SucceededIsFinal ==
  [][\A v \in Versions :
       versions[v].status = "succeeded" =>
         \/ versions'[v].status = "succeeded"
         \/ \E u \in members \ members' : v \in Orphaned(u)
         \/ RecordsFailure(v)]_vars

\* Content that was asked for and is not finished has a worker at it, a job
\* that will still come back to it, or a dead-lettered one an operator can
\* see: no content is given up behind jobs that all report success.
NoSilentLoss ==
  \A v \in Versions :
    LET roots == {j \in Jobs : RootOf[j] = v /\ jobs[j].status # "absent"} IN
    versions[v].status \in Unfinished /\ roots # {}
      => \/ \E w \in Workers : runs[w].at \in Owning /\ runs[w].version = v
         \/ \E j \in roots : jobs[j].status # "succeeded"

-----------------------------------------------------------------------------
(* The inductive invariant of IngestionProofs *)

\* A version that can still be processed has an attempt left.
AttemptsLeft ==
  \A v \in Versions :
    versions[v].status \in {"absent", "queued", "retryable_failed"}
      => versions[v].overwritten \/ versions[v].attempts < MaxExtractions

\* A worker that is not idle has a job, and a version once it ingests one.
RunsConsistent ==
  \A w \in Workers :
    /\ runs[w].at # "idle" => runs[w].job \in Jobs
    /\ runs[w].at \in Owning \union {"stage"} => runs[w].version \in Versions

IndInv == TypeOK /\ AttemptsLeft /\ RunsConsistent /\ OwnedVersions /\ ExtractionExclusive
=============================================================================
