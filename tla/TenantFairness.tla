--------------------------- MODULE TenantFairness ---------------------------
(***************************************************************************)
(* Worker with a history variable that counts, for every tenant with a job *)
(* ready to be leased, how often each other tenant was served meanwhile.   *)
(***************************************************************************)
EXTENDS Worker

VARIABLE overtaken   \* overtaken[t][s]: leases of s since t has been waiting

fairVars == <<vars, overtaken>>

Waiting(t) == \E j \in Jobs : TenantOf[j] = t /\ Leasable(jobs[j])

\* The tenants whose jobs the step leases.
ServedNow ==
  {TenantOf[j] : j \in {k \in Jobs : /\ jobs'[k].status = "running"
                                     /\ jobs'[k].attempts > jobs[k].attempts}}

\* Counting stops at 2, one more than the property allows.
CountedTo2(n) == IF n < 2 THEN n + 1 ELSE 2

Count ==
  overtaken' = [t \in Tenants |-> [s \in Tenants |->
    IF ~Waiting(t) \/ ~Waiting(t)' \/ t \in ServedNow THEN 0
    ELSE IF s \in ServedNow THEN CountedTo2(overtaken[t][s])
    ELSE overtaken[t][s]]]

CountedInit == Init /\ overtaken = [t \in Tenants |-> [s \in Tenants |-> 0]]

CountedSpec == CountedInit /\ [][Next /\ Count]_fairVars

\* While a tenant has a job ready, every other tenant is served at most once
\* before it: a tenant with many jobs, or with jobs that keep failing, cannot
\* crowd out another (tenant_queue_state in leaseNext).
OvertakenAtMostOnce == \A s, t \in Tenants : overtaken[t][s] <= 1
=============================================================================
