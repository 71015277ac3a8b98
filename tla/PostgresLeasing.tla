--------------------------- MODULE PostgresLeasing ---------------------------
(***************************************************************************)
(* Worker with leaseNext as Postgres runs it.  app.lease_job is one        *)
(* READ COMMITTED statement after the sweep: the CTE `ranked` reads the    *)
(* jobs table in the statement's snapshot, and only then does `candidate`  *)
(* lock the rows it prefers.  When a row has changed since the snapshot,   *)
(* Postgres repeats, on the row's newest version, the conditions of the    *)
(* query that locks it - r.id = j.id and r.tenant_rank = 1 - but not the   *)
(* conditions inside `ranked`, where the status and lease tests are.       *)
(***************************************************************************)
EXTENDS Worker

VARIABLE heads    \* the rows of tenant_rank 1 in the snapshot of a lease_job

pgVars == <<vars, heads>>

PgInit == Init /\ heads = [w \in Workers |-> {}]

\* The sweep, then the snapshot of the leasing statement.
LeaseSnapshot(w) ==
  /\ ws[w].phase = "idle"
  /\ \E j \in Jobs : TenantHead(Swept, j)
  /\ jobs' = Swept
  /\ heads' = [heads EXCEPT ![w] = {j \in Jobs : TenantHead(Swept, j)}]
  /\ ws' = [ws EXCEPT ![w] = InPhase("leasing")]
  /\ UNCHANGED <<older, served, erased>>

\* `for update of j skip locked`: the first head no other transaction holds
\* (which ones are held is left open), leased whatever has become of it.
LeaseLock(w) ==
  /\ ws[w].phase = "leasing"
  /\ \E j \in heads[w] :
       /\ Exists(j)
       /\ jobs' = [jobs EXCEPT ![j] = Leased(@, w)]
       /\ served' = Touched(TenantOf[j])
       /\ ws' = [ws EXCEPT ![w] = Started(j, Leased(jobs[j], w))]
  /\ heads' = [heads EXCEPT ![w] = {}]
  /\ UNCHANGED <<older, erased>>

\* Every head was locked by others or has been deleted.
LeaseSkipped(w) ==
  /\ ws[w].phase = "leasing"
  /\ ws' = [ws EXCEPT ![w] = Idle]
  /\ heads' = [heads EXCEPT ![w] = {}]
  /\ UNCHANGED <<jobs, older, served, erased>>

PgLeaseStep(w) == LeaseSnapshot(w) \/ LeaseLock(w) \/ LeaseSkipped(w)

\* A worker that leaves the leasing phase by dying takes its snapshot along.
PgOtherStep ==
  /\ \/ \E w \in Workers : LeaseNothing(w) \/ WorkerStep(w)
     \/ RequestStep
     \/ Tick
  /\ heads' = [w \in Workers |-> IF ws'[w].phase = "leasing" THEN heads[w] ELSE {}]

PgNext == (\E w \in Workers : PgLeaseStep(w)) \/ PgOtherStep

PgSpec == PgInit /\ [][PgNext]_pgVars

-----------------------------------------------------------------------------
(* Properties *)

\* A job is finished or sent back for a retry only by the worker that holds
\* its unexpired lease, out of the settling phase, or by the sweep once the
\* lease of its last attempt has run out (finish_job's re-read under lock).
SettledByHolder ==
  [][\A j \in Jobs :
       jobs[j].status = "running" /\ jobs'[j].status \in Finished \union {"retryable_failed"} =>
         \/ \E w \in Workers :
              ws[w].phase = "settling" /\ ws[w].job = j /\ HoldsLease(j, w, ws[w].left)
         \/ OutOfAttempts(jobs[j]) /\ jobs'[j].status = "dead_letter"]_pgVars
=============================================================================
