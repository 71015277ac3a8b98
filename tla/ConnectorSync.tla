---------------------------- MODULE ConnectorSync ----------------------------
(***************************************************************************)
(* One user's connection to one provider: the stored credential, the       *)
(* routes that connect, disconnect and ask for a sync, and the workers     *)
(* that run connector.sync jobs, refresh the credential and schedule the   *)
(* next sync.                                                              *)
(*                                                                         *)
(* Every await ends an action: routes and workers are different processes  *)
(* that meet only in the credentials and jobs tables.  Syncs are names for *)
(* the rows of recurring jobs; the name of a row that has ended stands for *)
(* a later slot of the schedule.  A lease is lost here only by a crash:    *)
(* a second run of the same job races like the run of another one.         *)
(***************************************************************************)
EXTENDS Integers

CONSTANTS
  Syncs, Workers,
  Requests,      \* requests in flight at once
  NoSync,
  MaxAttempts,
  MaxGrants,     \* bound on how often the user connects
  Expiring       \* whether the provider's tokens have an expiry

ASSUME ConnectorAssumptions ==
  /\ NoSync \notin Syncs
  /\ MaxAttempts \in Nat \ {0}
  /\ MaxGrants \in Nat
  /\ Expiring \in BOOLEAN

VARIABLES
  credential,    \* the row of credentials: revoked_at, the grant its tokens stem from,
                 \* and whether the provider would still accept its refresh token
  grants,        \* the user's consents: how many codes were exchanged, which callbacks
                 \* hold tokens they have yet to store, the newest grant ever stored
  mishaps,       \* history: grants whose newest refresh token never reached the vault,
                 \* and whether the newest was stored while older tokens were on their way
  jobs,          \* the user's connector.sync rows
  runs,          \* what each worker is doing
  rotates,       \* whether the provider answers every refresh with a new refresh token
  requests       \* where each route in flight is suspended

vars == <<credential, grants, mishaps, jobs, runs, rotates, requests>>

Credential == [status : {"absent", "live", "revoked"}, grant : 0 .. MaxGrants, fresh : BOOLEAN]
Grants     == [given : 0 .. MaxGrants, inFlight : SUBSET (1 .. MaxGrants), stored : 0 .. MaxGrants]
Mishaps    == [lost : SUBSET (1 .. MaxGrants), overtaken : BOOLEAN]
JobRow     == [status : {"none", "pending", "running", "cancelled"}, attempts : 0 .. MaxAttempts]
Points     == {"idle", "get", "refresh", "put", "sync", "check", "schedule", "settle"}
Run        == [at : Points, job : Syncs \union {NoSync}, failed : BOOLEAN,
               grant : 0 .. MaxGrants, fresh : BOOLEAN]

Ended   == [status |-> "none", attempts |-> 0]
Resting == [at |-> "idle", job |-> NoSync, failed |-> FALSE, grant |-> 0, fresh |-> FALSE]

Init ==
  /\ credential = [status |-> "absent", grant |-> 0, fresh |-> FALSE]
  /\ grants = [given |-> 0, inFlight |-> {}, stored |-> 0]
  /\ mishaps = [lost |-> {}, overtaken |-> FALSE]
  /\ jobs = [s \in Syncs |-> Ended]
  /\ runs = [w \in Workers |-> Resting]
  /\ rotates \in BOOLEAN
  /\ requests = [q \in Requests |-> "idle"]

-----------------------------------------------------------------------------
(* The vault and the queue *)

\* save(): the upsert clears revoked_at, whoever calls it.
Saved(grant, fresh) == [status |-> "live", grant |-> grant, fresh |-> fresh]

\* Mutant: get() does not look at revokedAt.
ConnectedEver == credential.status # "absent"

\* get() returns a credential.
Connected == credential.status = "live"

Revoked == IF credential.status = "absent" THEN credential
           ELSE [credential EXCEPT !.status = "revoked"]

\* enqueue(): a row under way is left alone.
Enqueued(s) ==
  IF jobs[s].status \in {"none", "cancelled"}
    THEN [jobs EXCEPT ![s] = [status |-> "pending", attempts |-> 0]]
    ELSE jobs

CancelledPending ==
  [s \in Syncs |-> IF jobs[s].status = "pending"
                   THEN [jobs[s] EXCEPT !.status = "cancelled"] ELSE jobs[s]]

-----------------------------------------------------------------------------
(* The routes *)

Refreshing(w) == runs[w].at \in {"refresh", "put"}

\* GET callback: the user has granted access, and the provider exchanges the
\* code for the tokens of a new grant (an exchange that fails changes nothing).
Exchange ==
  /\ grants.given < MaxGrants
  /\ grants' = [grants EXCEPT !.given = @ + 1, !.inFlight = @ \union {grants.given + 1}]
  /\ UNCHANGED <<credential, mishaps, jobs, runs, requests, rotates>>

\* The put of grant g no longer being awaited
Landed(g) == [grants EXCEPT !.inFlight = @ \ {g}, !.stored = IF g > @ THEN g ELSE @]

\* Tokens of another grant are on their way to the vault.
OthersOnTheirWay(g) ==
  \/ \E w \in Workers : Refreshing(w)
  \/ \E h \in grants.inFlight : h < g

\* Mutant: the insert of a credential that exists does nothing.
StoreOnce(g) ==
  /\ g \in grants.inFlight
  /\ credential' = IF Connected THEN credential ELSE Saved(g, TRUE)
  /\ grants' = Landed(g)
  /\ mishaps' = [mishaps EXCEPT !.overtaken = IF g > grants.stored THEN OthersOnTheirWay(g) ELSE @]
  /\ UNCHANGED <<jobs, runs, requests, rotates>>

\* GET callback: vault.put, whatever was stored or revoked since the exchange.
StoreGrant(g) ==
  /\ g \in grants.inFlight
  /\ credential' = Saved(g, TRUE)
  /\ grants' = Landed(g)
  /\ mishaps' = [mishaps EXCEPT !.overtaken = IF g > grants.stored THEN OthersOnTheirWay(g) ELSE @]
  /\ UNCHANGED <<jobs, runs, requests, rotates>>

\* The server dies before the put, or the put throws.
StoreFails(g) ==
  /\ g \in grants.inFlight
  /\ grants' = [grants EXCEPT !.inFlight = @ \ {g}]
  /\ UNCHANGED <<credential, mishaps, jobs, runs, requests, rotates>>

\* DELETE: vault.revoke, then queue.cancelPending.
RevokeCredential(q) ==
  /\ requests[q] = "idle"
  /\ credential' = Revoked
  /\ requests' = [requests EXCEPT ![q] = "revoking"]
  /\ UNCHANGED <<grants, mishaps, jobs, runs, rotates>>

CancelSyncs(q) ==
  /\ requests[q] = "revoking"
  /\ jobs' = CancelledPending
  /\ requests' = [requests EXCEPT ![q] = "idle"]
  /\ UNCHANGED <<credential, grants, mishaps, runs, rotates>>

\* POST sync: vault.get, or 409, then queue.enqueue.
AskForSync(q) ==
  /\ requests[q] = "idle"
  /\ Connected
  /\ requests' = [requests EXCEPT ![q] = "enqueueing"]
  /\ UNCHANGED <<credential, grants, mishaps, jobs, runs, rotates>>

EnqueueSync(q, s) ==
  /\ requests[q] = "enqueueing"
  /\ jobs' = Enqueued(s)
  /\ requests' = [requests EXCEPT ![q] = "idle"]
  /\ UNCHANGED <<credential, grants, mishaps, runs, rotates>>

\* The server dies, or the second call of the route throws.
RequestFails(q) ==
  /\ requests[q] # "idle"
  /\ requests' = [requests EXCEPT ![q] = "idle"]
  /\ UNCHANGED <<credential, grants, mishaps, jobs, runs, rotates>>

-----------------------------------------------------------------------------
(* A connector.sync job *)

Orphaned(s) == jobs[s].status = "running" /\ \A w \in Workers : runs[w].job # s

\* Mutant: an expired lease is recovered whatever the attempts.
LeaseUnbounded(w, s) ==
  /\ runs[w].at = "idle"
  /\ jobs[s].status = "pending" \/ Orphaned(s)
  /\ jobs' = [jobs EXCEPT ![s] = [status |-> "running", attempts |-> @.attempts + 1]]
  /\ runs' = [runs EXCEPT ![w] = [Resting EXCEPT !.at = "get", !.job = s]]
  /\ UNCHANGED <<credential, grants, mishaps, requests, rotates>>

Lease(w, s) ==
  /\ runs[w].at = "idle"
  /\ jobs[s].status = "pending" \/ Orphaned(s)
  /\ jobs[s].attempts < MaxAttempts
  /\ jobs' = [jobs EXCEPT ![s] = [status |-> "running", attempts |-> @.attempts + 1]]
  /\ runs' = [runs EXCEPT ![w] = [Resting EXCEPT !.at = "get", !.job = s]]
  /\ UNCHANGED <<credential, grants, mishaps, requests, rotates>>

\* leaseNext's sweep: the last attempt died with its worker.
GiveUp(s) ==
  /\ Orphaned(s) /\ jobs[s].attempts = MaxAttempts
  /\ jobs' = [jobs EXCEPT ![s] = Ended]
  /\ UNCHANGED <<credential, grants, mishaps, runs, requests, rotates>>

Goes(w, from, to) == runs[w].at = from /\ runs' = [runs EXCEPT ![w].at = to]

Thrown(w) == [Resting EXCEPT !.at = "settle", !.job = runs[w].job, !.failed = TRUE]

Throws(w, from) == runs[w].at = from /\ runs' = [runs EXCEPT ![w] = Thrown(w)]

\* What needsRefresh may find: whether the token is about to expire is open.
NeedsRefresh == IF Expiring THEN BOOLEAN ELSE {FALSE}

\* getValid(): vault.get; without a credential the job fails.
GetCredential(w) ==
  /\ runs[w].at = "get"
  /\ IF Connected
       THEN \E refresh \in NeedsRefresh :
              runs' = [runs EXCEPT ![w] = IF refresh
                         THEN [@ EXCEPT !.at = "refresh", !.grant = credential.grant,
                                        !.fresh = credential.fresh]
                         ELSE [@ EXCEPT !.at = "sync"]]
       ELSE Throws(w, "get")
  /\ UNCHANGED <<credential, grants, mishaps, jobs, requests, rotates>>

\* A provider that rotates refresh tokens has replaced the one of a grant:
\* every copy of the old one is worthless.
RowRefused(grant) == [credential EXCEPT !.fresh = @ /\ credential.grant # grant]
CopiesRefused(grant) ==
  [v \in Workers |-> [runs[v] EXCEPT !.fresh = @ /\ runs[v].grant # grant]]

\* Mutant: refresh() returns the refresh token it was given, whatever the answer.
RefreshKeepsToken(w) ==
  /\ rotates
  /\ runs[w].at = "refresh" /\ runs[w].fresh
  /\ credential' = RowRefused(runs[w].grant)
  /\ runs' = [CopiesRefused(runs[w].grant) EXCEPT ![w].at = "put"]
  /\ UNCHANGED <<grants, mishaps, jobs, requests, rotates>>

\* oauth.refresh: the provider accepts the refresh token and answers, without
\* a new refresh token or with one, which w is the only one to hold.
RefreshToken(w) ==
  /\ runs[w].at = "refresh" /\ runs[w].fresh
  /\ \/ ~rotates /\ Goes(w, "refresh", "put") /\ UNCHANGED credential
     \/ /\ rotates
        /\ credential' = RowRefused(runs[w].grant)
        /\ runs' = [CopiesRefused(runs[w].grant) EXCEPT ![w] = [runs[w] EXCEPT !.at = "put"]]
  /\ UNCHANGED <<grants, mishaps, jobs, requests, rotates>>

\* The call throws: the token is refused, or there is no answer, in which case
\* the provider may have rotated the token all the same.
RefreshFails(w) ==
  /\ runs[w].at = "refresh"
  /\ \/ Throws(w, "refresh") /\ UNCHANGED <<credential, mishaps>>
     \/ /\ rotates /\ runs[w].fresh
        /\ credential' = RowRefused(runs[w].grant)
        /\ runs' = [CopiesRefused(runs[w].grant) EXCEPT ![w] = Thrown(w)]
        /\ mishaps' = [mishaps EXCEPT !.lost = @ \union {runs[w].grant}]
  /\ UNCHANGED <<grants, jobs, requests, rotates>>

\* vault.put of the refreshed tokens
PutRefreshed(w) ==
  /\ runs[w].at = "put"
  /\ runs' = [runs EXCEPT ![w] = [@ EXCEPT !.at = "sync", !.grant = 0, !.fresh = FALSE]]
  /\ credential' = Saved(runs[w].grant, runs[w].fresh)
  /\ UNCHANGED <<grants, mishaps, jobs, requests, rotates>>

\* What becomes of the tokens of a worker that does not get to store them
Dropped(w) ==
  mishaps' = IF runs[w].at = "put" THEN [mishaps EXCEPT !.lost = @ \union {runs[w].grant}]
             ELSE mishaps

PutFails(w) ==
  /\ Throws(w, "put")
  /\ Dropped(w)
  /\ UNCHANGED <<credential, grants, jobs, requests, rotates>>

\* The connector and the ingestion of what it fetched; a recurring sync that
\* went well goes on to scheduleAfter.
Synchronize(w) ==
  /\ Goes(w, "sync", "check") \/ Goes(w, "sync", "settle") \/ Throws(w, "sync")
  /\ UNCHANGED <<credential, grants, mishaps, jobs, requests, rotates>>

\* scheduleAfter: vault.get, then queue.enqueue of the next slot.
CheckConnected(w) ==
  /\ Goes(w, "check", IF Connected THEN "schedule" ELSE "settle")
  /\ UNCHANGED <<credential, grants, mishaps, jobs, requests, rotates>>

ScheduleNext(w, s) ==
  /\ s # runs[w].job
  /\ Goes(w, "schedule", "settle")
  /\ jobs' = Enqueued(s)
  /\ UNCHANGED <<credential, grants, mishaps, requests, rotates>>

Settle(w) ==
  LET s == runs[w].job IN
  /\ runs[w].at = "settle"
  /\ jobs' = IF runs[w].failed /\ jobs[s].attempts < MaxAttempts
             THEN [jobs EXCEPT ![s].status = "pending"]
             ELSE [jobs EXCEPT ![s] = Ended]
  /\ runs' = [runs EXCEPT ![w] = Resting]
  /\ UNCHANGED <<credential, grants, mishaps, requests, rotates>>

\* The worker dies; its successor starts with nothing.
Crash(w) ==
  /\ runs[w].at # "idle"
  /\ runs' = [runs EXCEPT ![w] = Resting]
  /\ Dropped(w)
  /\ UNCHANGED <<credential, grants, jobs, requests, rotates>>

-----------------------------------------------------------------------------

RouteStep(q) ==
  \/ RevokeCredential(q) \/ CancelSyncs(q) \/ AskForSync(q) \/ RequestFails(q)
  \/ \E s \in Syncs : EnqueueSync(q, s)

WorkerStep(w) ==
  \/ GetCredential(w) \/ RefreshToken(w) \/ RefreshFails(w) \/ PutRefreshed(w) \/ PutFails(w)
  \/ Synchronize(w)
  \/ CheckConnected(w) \/ Settle(w)
  \/ \E s \in Syncs : ScheduleNext(w, s)

Next ==
  \/ Exchange
  \/ \E g \in 1 .. MaxGrants : StoreGrant(g) \/ StoreFails(g)
  \/ \E q \in Requests : RouteStep(q)
  \/ \E w \in Workers : WorkerStep(w) \/ Crash(w) \/ \E s \in Syncs : Lease(w, s)
  \/ \E s \in Syncs : GiveUp(s)

Spec == Init /\ [][Next]_vars

\* Workers lease what is ready and finish what they have begun, every call
\* they make having a timeout; users and crashes are free.
Fairness ==
  /\ \A w \in Workers : WF_vars(WorkerStep(w))
  /\ \A w \in Workers, s \in Syncs : WF_vars(Lease(w, s))
  /\ \A s \in Syncs : WF_vars(GiveUp(s))
  /\ \A q \in Requests : WF_vars(CancelSyncs(q) \/ RequestFails(q) \/ \E s \in Syncs : EnqueueSync(q, s))

FairSpec == Spec /\ Fairness

-----------------------------------------------------------------------------
(* Properties *)

TypeOK ==
  /\ credential \in Credential
  /\ grants \in Grants
  /\ mishaps \in Mishaps
  /\ jobs \in [Syncs -> JobRow]
  /\ runs \in [Workers -> Run]
  /\ rotates \in BOOLEAN
  /\ requests \in [Requests -> {"idle", "revoking", "enqueueing"}]

\* A credential the user has revoked comes to life again only through the
\* callback of a consent, whatever a sync under way does with the tokens it
\* read before ("This revokes the stored credential").
RevocationHolds ==
  [][credential.status = "revoked" /\ credential'.status = "live"
       => credential'.grant \in grants.inFlight \ grants'.inFlight]_vars

\* However syncs overlap, and whether or not the provider replaces the refresh
\* token on every refresh, the stored one is one the provider accepts, or the worker that was
\* given its successor is about to store it, unless a successor was lost: its
\* worker died, or its put failed, or the provider's answer did not arrive.
UsableUnlessLost ==
  credential.status = "live"
    => \/ credential.fresh
       \/ credential.grant \in mishaps.lost
       \/ \E w \in Workers : runs[w].at = "put" /\ runs[w].fresh /\ runs[w].grant = credential.grant

\* The tokens in use are those of the newest consent whose callback got to
\* store them, unless a refresh or the callback of an earlier consent had
\* tokens on their way to the vault when it did.
NewestGrantUnlessOvertaken ==
  credential.status = "live" => credential.grant = grants.stored \/ mishaps.overtaken

\* A disconnected user's syncs come to an end: once the credential stays
\* revoked, what was running, being retried or slipped into the queue behind
\* the cancellation runs out, and nothing schedules another sync.
ScheduleEnds ==
  <>[](credential.status # "live")
    => <>[](\A s \in Syncs : jobs[s].status \in {"none", "cancelled"})
=============================================================================
