--------------------------- MODULE LeasingProofs ---------------------------
(***************************************************************************)
(* Proofs about the two refinements of leasing: TenantFairness, which      *)
(* counts who overtakes whom, and PostgresLeasing, which reads and locks   *)
(* in two steps.  Any number of jobs, workers, tenants and users.          *)
(***************************************************************************)
EXTENDS WorkerProofs, TenantFairness, PostgresLeasing

-----------------------------------------------------------------------------
(* TenantFairness: the inductive invariant *)

\* Among any rows of the table one was created first.
CreationOrdered ==
  \A S \in SUBSET {j \in Jobs : Exists(j)} :
    S # {} => \E m \in S : \A k \in S \ {m} : <<m, k>> \in older

\* Of two tenants at most one was served before the other.
ServedOrdered == \A s, t \in Tenants : <<s, t>> \in served => <<t, s>> \notin served

\* A tenant that has overtaken t did so once, and was served after t.
CountsServed ==
  \A s, t \in Tenants :
    /\ overtaken[t][s] \in {0, 1}
    /\ overtaken[t][s] = 1 => <<t, s>> \in served

FairInv == IndInv /\ CreationOrdered /\ ServedOrdered /\ CountsServed

-----------------------------------------------------------------------------
(* What a step does to the order of the rows and to the tenants served *)

\* A step that neither inserts nor deletes rows keeps their order.
LEMMA SameOrder ==
  ASSUME CreationOrdered, older' = older,
         \A j \in Jobs : jobs'[j].status # "absent" => jobs[j].status # "absent"
  PROVE  CreationOrdered'
  <1> SUFFICES ASSUME NEW S \in SUBSET {j \in Jobs : Exists(j)'}, S # {}
               PROVE  \E m \in S : \A k \in S \ {m} : <<m, k>> \in older'
    BY DEF CreationOrdered
  <1>1. S \in SUBSET {j \in Jobs : Exists(j)}
    BY DEF Exists
  <1> QED BY <1>1 DEF CreationOrdered

\* A row inserted after all others is the youngest, whatever was deleted.
LEMMA YoungestInserted ==
  ASSUME CreationOrdered, NEW n \in Jobs,
         \A j \in Jobs \ {n} : jobs'[j].status # "absent" => jobs[j].status # "absent",
         \A j, k \in Jobs \ {n} :
           Exists(j)' /\ Exists(k)' /\ <<j, k>> \in older => <<j, k>> \in older',
         \A j \in Jobs \ {n} : Exists(j)' => <<j, n>> \in older'
  PROVE  CreationOrdered'
  <1> SUFFICES ASSUME NEW S \in SUBSET {j \in Jobs : Exists(j)'}, S # {}
               PROVE  \E m \in S : \A k \in S \ {m} : <<m, k>> \in older'
    BY DEF CreationOrdered
  <1>1. CASE S = {n}
    BY <1>1
  <1>2. CASE S # {n}
    <2> DEFINE T == S \ {n}
    <2>1. T # {} /\ T \in SUBSET {j \in Jobs : Exists(j)}
      BY <1>2 DEF Exists
    <2>2. PICK m \in T : \A k \in T \ {m} : <<m, k>> \in older
      BY <2>1 DEF CreationOrdered
    <2>3. \A k \in S \ {m} : <<m, k>> \in older'
      BY <2>2
    <2> QED BY <2>2, <2>3
  <1> QED BY <1>1, <1>2

\* A step that starts no attempt.
NoAttempt ==
  /\ \A j \in Jobs : jobs'[j].status = "running" => jobs'[j].attempts = jobs[j].attempts
  /\ served' = served

\* Requests start no attempt and keep the rows in order.
LEMMA RequestOrder ==
  ASSUME IndInv, CreationOrdered, RequestStep
  PROVE  NoAttempt /\ CreationOrdered'
  <1>a. jobs \in [Jobs -> Row]
    BY DEF IndInv, TypeOK
  <1>1. ASSUME NEW i \in Jobs, NEW d \in Delays, Enqueue(i, d)
        PROVE  NoAttempt /\ CreationOrdered'
    <2>1. /\ jobs'[i].status = "queued" /\ served' = served
          /\ \A k \in Jobs \ {i} : jobs'[k] = jobs[k]
      BY <1>1, <1>a DEF Enqueue, Queued
    <2>2. NoAttempt
      BY <2>1 DEF NoAttempt
    <2>3. CASE Exists(i)
      <3>1. older' = older
        BY <1>1, <2>3 DEF Enqueue
      <3> QED BY <2>1, <2>2, <2>3, <3>1, SameOrder DEF Exists
    <2>4. CASE ~Exists(i)
      <3>1. older' = older \union {<<k, i>> : k \in {l \in Jobs : Exists(l)}}
        BY <1>1, <2>4 DEF Enqueue
      <3>2. \A j \in Jobs \ {i} : Exists(j)' => <<j, i>> \in older'
        BY <2>1, <3>1 DEF Exists
      <3> QED BY <2>1, <2>2, <3>1, <3>2, YoungestInserted
    <2> QED BY <2>3, <2>4
  <1>2. ASSUME NEW t \in Tenants, NEW u \in Users, CancelPending(t, u)
        PROVE  NoAttempt /\ CreationOrdered'
    <2>1. \A j \in Jobs : IF Cancellable(t, u, j) THEN jobs'[j].status = "cancelled"
                                                  ELSE jobs'[j] = jobs[j]
      BY <1>2, <1>a DEF CancelPending, Cancelled, Released
    <2>2. \A j \in Jobs : Cancellable(t, u, j) => jobs[j].status # "absent"
      BY DEF Cancellable, Pending
    <2>3. older' = older /\ served' = served
      BY <1>2 DEF CancelPending
    <2> QED BY <2>1, <2>2, <2>3, SameOrder DEF NoAttempt
  <1>3. ASSUME NEW u \in Users, NEW R \in {{}} \union {{r} : r \in Jobs}, EraseAccount(u, R)
        PROVE  NoAttempt /\ CreationOrdered'
    <2>1. \A j \in Jobs : /\ j \in R => jobs'[j].status = "queued"
                          /\ j \notin R /\ ErasedWith(u, j) => jobs'[j].status = "absent"
                          /\ j \notin R /\ ~ErasedWith(u, j) => jobs'[j] = jobs[j]
      BY <1>3, <1>a DEF EraseAccount, Queued, Absent
    <2>2. NoAttempt
      BY <1>3, <2>1 DEF NoAttempt, EraseAccount
    <2>3. \A j \in Jobs \ R : Exists(j)' => Exists(j) /\ ~ErasedWith(u, j)
      BY <2>1 DEF Exists
    <2>4. older' = {p \in older : ~ErasedWith(u, p[1]) /\ ~ErasedWith(u, p[2])}
                   \union ({i \in Jobs : Exists(i) /\ ~ErasedWith(u, i)} \X R)
      BY <1>3 DEF EraseAccount
    <2>5. \A j, k \in Jobs \ R : Exists(j)' /\ Exists(k)' /\ <<j, k>> \in older
                                   => <<j, k>> \in older'
      BY <2>3, <2>4
    <2>6. CASE R = {}
      <3> SUFFICES ASSUME NEW S \in SUBSET {j \in Jobs : Exists(j)'}, S # {}
                   PROVE  \E m \in S : \A k \in S \ {m} : <<m, k>> \in older'
        BY <2>2 DEF CreationOrdered
      <3>1. S \in SUBSET {j \in Jobs : Exists(j)}
        BY <2>3, <2>6
      <3>2. PICK m \in S : \A k \in S \ {m} : <<m, k>> \in older
        BY <3>1 DEF CreationOrdered
      <3> QED BY <2>5, <2>6, <3>2
    <2>7. ASSUME NEW r \in Jobs, R = {r}
          PROVE  CreationOrdered'
      <3>1. \A j \in Jobs \ {r} : Exists(j)' => <<j, r>> \in older'
        BY <2>3, <2>4, <2>7
      <3> QED BY <2>3, <2>5, <2>7, <3>1, YoungestInserted DEF Exists
    <2> QED BY <2>2, <2>6, <2>7
  <1>4. ASSUME NEW i \in Jobs, RunMaintenance(i)
        PROVE  NoAttempt /\ CreationOrdered'
    <2>1. \A j \in Jobs : jobs'[j].status = jobs[j].status /\ jobs'[j].attempts = jobs[j].attempts
      BY <1>4, <1>a DEF RunMaintenance, Row
    <2>2. older' = older /\ served' = served
      BY <1>4 DEF RunMaintenance
    <2> QED BY <2>1, <2>2, SameOrder DEF NoAttempt
  <1> QED BY <1>1, <1>2, <1>3, <1>4 DEF RequestStep

\* So do the sweep, the steps of a worker that has its job, and the clock.
LEMMA OtherOrder ==
  ASSUME IndInv, CreationOrdered,
         Tick \/ \E w \in Workers : LeaseNothing(w) \/ WorkerStep(w)
  PROVE  NoAttempt /\ CreationOrdered'
  <1>a. jobs \in [Jobs -> Row]
    BY DEF IndInv, TypeOK
  <1> SUFFICES /\ older' = older /\ served' = served
               /\ \A j \in Jobs :
                    /\ jobs'[j].status = "running" => jobs'[j].attempts = jobs[j].attempts
                    /\ jobs'[j].status # "absent" => jobs[j].status # "absent"
    BY SameOrder DEF NoAttempt
  <1>1. CASE Tick
    BY <1>1, <1>a, AgedFields DEF Tick
  <1>2. ASSUME NEW w \in Workers, LeaseNothing(w)
        PROVE  /\ older' = older /\ served' = served
               /\ \A j \in Jobs :
                    /\ jobs'[j].status = "running" => jobs'[j].attempts = jobs[j].attempts
                    /\ jobs'[j].status # "absent" => jobs[j].status # "absent"
    BY <1>2, SweptRows DEF LeaseNothing, OutOfAttempts
  <1>3. ASSUME NEW w \in Workers, ExecuteRenewal(w)
        PROVE  /\ older' = older /\ served' = served
               /\ \A j \in Jobs :
                    /\ jobs'[j].status = "running" => jobs'[j].attempts = jobs[j].attempts
                    /\ jobs'[j].status # "absent" => jobs[j].status # "absent"
    <2>1. \/ jobs' = jobs
          \/ \E i \in Jobs : jobs' = [jobs EXCEPT ![i] = Renewed(jobs[i])]
      BY <1>3 DEF ExecuteRenewal, IndInv, ProcessesConsistent
    <2>2. \A i \in Jobs : /\ Renewed(jobs[i]).status = jobs[i].status
                          /\ Renewed(jobs[i]).attempts = jobs[i].attempts
      BY <1>a DEF Renewed, Row
    <2> QED BY <1>3, <1>a, <2>1, <2>2 DEF ExecuteRenewal
  <1>4. ASSUME NEW w \in Workers, Settle(w)
        PROVE  /\ older' = older /\ served' = served
               /\ \A j \in Jobs :
                    /\ jobs'[j].status = "running" => jobs'[j].attempts = jobs[j].attempts
                    /\ jobs'[j].status # "absent" => jobs[j].status # "absent"
    <2>1. CASE jobs' = jobs
      BY <1>4, <2>1 DEF Settle
    <2>2. CASE jobs' # jobs
      <3> DEFINE i == ws[w].job
      <3>1. i \in Jobs /\ jobs[i].status = "running"
        BY <1>4, <2>2 DEF Settle, HoldsLease, IndInv, ProcessesConsistent, Busy
      <3>2. PICK failed \in BOOLEAN : jobs' = [jobs EXCEPT ![i] = Settled(i, jobs[i], failed)]
        BY <1>4, <2>2 DEF Settle
      <3>3. Settled(i, jobs[i], failed).status \in {"succeeded", "dead_letter", "retryable_failed"}
        BY DEF Settled, Failed, Succeeded, DeadLettered, RetryLater, Released
      <3> QED BY <1>4, <1>a, <3>1, <3>2, <3>3 DEF Settle
    <2> QED BY <2>1, <2>2
  <1>5. CASE UNCHANGED queueVars
    BY <1>5 DEF queueVars
  <1> QED
    BY <1>1, <1>2, <1>3, <1>4, <1>5
       DEF WorkerStep, BeginRenewal, LoseRenewal, FinishRenewal, FinishWork, StopHeartbeat,
           FinishLastRenewal, LoseSettlement, Crash, Restart

\* A step that starts no attempt serves nobody.
LEMMA NobodyServed ==
  ASSUME IndInv, NoAttempt
  PROVE  ServedNow = {}
  <1>1. \A j \in Jobs : jobs[j].attempts \in Nat
    BY Bounds DEF IndInv, TypeOK, Row
  <1>2. \A j \in Jobs : ~(jobs'[j].status = "running" /\ jobs'[j].attempts > jobs[j].attempts)
    BY <1>1 DEF NoAttempt
  <1> QED BY <1>2 DEF ServedNow

\* leaseNext serves the tenant of the job it selects, and records it.
LEMMA LeaseServes ==
  ASSUME IndInv, CreationOrdered, NEW w \in Workers, LeaseNext(w)
  PROVE  /\ CreationOrdered'
         /\ \E j \in Jobs : /\ Selected(Swept, j)
                            /\ ServedNow = {TenantOf[j]}
                            /\ served' = Touched(TenantOf[j])
  <1>1. PICK j \in Jobs :
          /\ Selected(Swept, j)
          /\ jobs' = [Swept EXCEPT ![j] = Leased(Swept[j], w)]
          /\ served' = Touched(TenantOf[j])
    BY DEF LeaseNext
  <1>2. Swept[j] = jobs[j] /\ jobs[j].status # "absent" /\ jobs[j].attempts \in Nat
    BY <1>1, LeasableRow DEF Selected, TenantHead, Pending, IndInv, TypeOK, Row
  <1>3. jobs'[j].status = "running" /\ jobs'[j].attempts = jobs[j].attempts + 1
    BY <1>1, <1>2, SweptRows DEF Leased
  <1>4. \A k \in Jobs \ {j} : jobs'[k] = Swept[k] /\ jobs[k].attempts \in Nat
    BY <1>1, SweptRows DEF IndInv, TypeOK, Row
  <1>5. \A k \in Jobs \ {j} :
          ~(jobs'[k].status = "running" /\ jobs'[k].attempts > jobs[k].attempts)
    BY <1>4, SweptRows
  <1>6. {k \in Jobs : jobs'[k].status = "running" /\ jobs'[k].attempts > jobs[k].attempts} = {j}
    BY <1>2, <1>3, <1>5
  <1>7. ServedNow = {TenantOf[j]}
    BY <1>6 DEF ServedNow
  <1>8. \A k \in Jobs : jobs'[k].status # "absent" => jobs[k].status # "absent"
    BY <1>2, <1>4, SweptRows DEF OutOfAttempts
  <1>9. CreationOrdered'
    BY <1>8, SameOrder DEF LeaseNext
  <1> QED BY <1>1, <1>7, <1>9

-----------------------------------------------------------------------------
(* Why nobody is overtaken twice *)

\* Every tenant with a job ready has one of tenant_rank 1.
LEMMA HeadExists ==
  ASSUME IndInv, CreationOrdered, NEW k \in Jobs, Leasable(Swept[k])
  PROVE  \E h \in Jobs : TenantHead(Swept, h) /\ TenantOf[h] = TenantOf[k]
  <1> DEFINE T == {i \in Jobs : Leasable(Swept[i]) /\ TenantOf[i] = TenantOf[k]}
             P == {i \in T : TypeOf[i] = "privacy.reconcile"}
  <1>1. T \in SUBSET {i \in Jobs : Exists(i)}
    BY LeasableRow DEF Exists, Pending
  <1>2. CASE P # {}
    <2>1. PICK m \in P : \A i \in P \ {m} : <<m, i>> \in older
      BY <1>1, <1>2 DEF CreationOrdered
    <2>2. \A i \in T : Priority(i) = IF i \in P THEN 10 ELSE 100
      BY DEF Priority
    <2>3. \A i \in T \ {m} : Precedes(m, i)
      <3> SUFFICES ASSUME NEW i \in T \ {m} PROVE Precedes(m, i)
        OBVIOUS
      <3>1. CASE i \in P
        BY <2>1, <2>2, <3>1 DEF Precedes
      <3>2. CASE i \notin P
        <4>1. Priority(m) = 10 /\ Priority(i) = 100
          BY <2>2, <3>2
        <4> QED BY <4>1 DEF Precedes
      <3> QED BY <3>1, <3>2
    <2> QED BY <2>1, <2>3 DEF TenantHead
  <1>3. CASE P = {}
    <2>1. PICK m \in T : \A i \in T \ {m} : <<m, i>> \in older
      BY <1>1 DEF CreationOrdered
    <2>2. \A i \in T : Priority(i) = 100
      BY <1>3 DEF Priority
    <2>3. \A i \in T \ {m} : Precedes(m, i)
      BY <2>1, <2>2 DEF Precedes
    <2> QED BY <2>1, <2>3 DEF TenantHead
  <1> QED BY <1>2, <1>3

\* The tenant served is not behind any other tenant that waits.
LEMMA NotServedBefore ==
  ASSUME IndInv, CreationOrdered, ServedOrdered, NEW j \in Jobs, Selected(Swept, j),
         NEW t \in Tenants, t # TenantOf[j], Waiting(t)
  PROVE  <<t, TenantOf[j]>> \notin served
  <1>1. PICK k \in Jobs : TenantOf[k] = t /\ Leasable(jobs[k])
    BY DEF Waiting
  <1>2. Leasable(Swept[k])
    <2>1. jobs[k].attempts \in Nat
      BY DEF IndInv, TypeOK, Row
    <2>2. ~OutOfAttempts(jobs[k])
      BY <1>1, <2>1, Bounds DEF Leasable, OutOfAttempts, Pending
    <2> QED BY <1>1, <2>2, SweptRows
  <1>3. PICK h \in Jobs : TenantHead(Swept, h) /\ TenantOf[h] = t
    BY <1>1, <1>2, HeadExists
  <1>4. ServedFirst(j, h)
    BY <1>3 DEF Selected
  <1>5. TenantOf[j] \in Tenants
    BY QueueAssumptions
  <1> QED BY <1>3, <1>4, <1>5 DEF ServedFirst, ServedOrdered

\* Every step keeps the invariant.
LEMMA FairStep ==
  ASSUME FairInv, Next, Count
  PROVE  FairInv'
  <1> USE DEF FairInv
  <1>1. IndInv'
    BY NextIndInv
  <1>2. CASE NoAttempt /\ CreationOrdered'
    <2>1. ServedNow = {} /\ served' = served
      BY <1>2, NobodyServed DEF NoAttempt
    <2>2. \A s, t \in Tenants : overtaken'[t][s] \in {0, overtaken[t][s]}
      BY <2>1 DEF Count
    <2>3. CountsServed'
      BY <2>1, <2>2 DEF CountsServed
    <2>4. ServedOrdered'
      BY <2>1 DEF ServedOrdered
    <2> QED BY <1>1, <1>2, <2>3, <2>4
  <1>3. ASSUME NEW w \in Workers, LeaseNext(w)
        PROVE  FairInv'
    <2>1. PICK j \in Jobs : /\ Selected(Swept, j)
                            /\ ServedNow = {TenantOf[j]}
                            /\ served' = Touched(TenantOf[j])
      BY <1>3, LeaseServes
    <2> DEFINE x == TenantOf[j]
    <2>2. x \in Tenants
      BY QueueAssumptions
    <2>3. CreationOrdered'
      BY <1>3, LeaseServes
    <2>4. \A s, t \in Tenants :
            <<s, t>> \in served' <=> s # x /\ (t = x \/ <<s, t>> \in served)
      BY <2>1 DEF Touched
    <2>5. ServedOrdered'
      BY <2>4 DEF ServedOrdered
    <2>6. CountsServed'
      <3> SUFFICES ASSUME NEW s \in Tenants, NEW t \in Tenants
                   PROVE  /\ overtaken'[t][s] \in {0, 1}
                          /\ overtaken'[t][s] = 1 => <<t, s>> \in served'
        BY DEF CountsServed
      <3>1. /\ overtaken[t][s] \in {0, 1}
            /\ overtaken[t][s] = 1 => <<t, s>> \in served
        BY DEF CountsServed
      <3>2. CASE ~Waiting(t) \/ ~Waiting(t)' \/ t = x
        BY <2>1, <3>2 DEF Count
      <3>3. CASE Waiting(t) /\ Waiting(t)' /\ t # x /\ s # x
        BY <2>1, <2>4, <3>1, <3>3 DEF Count
      <3>4. CASE Waiting(t) /\ Waiting(t)' /\ t # x /\ s = x
        <4>1. <<t, s>> \notin served
          BY <2>1, <3>4, NotServedBefore
        <4>2. overtaken[t][s] = 0
          BY <3>1, <4>1
        <4>3. overtaken'[t][s] = CountedTo2(0)
          BY <2>1, <3>4, <4>2 DEF Count
        <4>4. overtaken'[t][s] = 1
          BY <4>3 DEF CountedTo2
        <4> QED BY <2>4, <3>4, <4>4
      <3> QED BY <3>2, <3>3, <3>4
    <2> QED BY <1>1, <2>3, <2>5, <2>6
  <1> QED BY <1>2, <1>3, RequestOrder, OtherOrder DEF Next

\* However many tenants, jobs and workers there are, and whatever fails,
\* no tenant is served twice while another has a job ready (leaseNext's
\* order by last_leased_at).
THEOREM NobodyOvertakenTwice == CountedSpec => []OvertakenAtMostOnce
  <1>1. CountedInit => FairInv
    <2> SUFFICES ASSUME CountedInit PROVE FairInv
      OBVIOUS
    <2>1. IndInv
      BY InitIndInv DEF CountedInit
    <2>2. CreationOrdered
      BY DEF CountedInit, Init, QueueInit, CreationOrdered, Exists, Absent
    <2>3. ServedOrdered
      BY DEF CountedInit, Init, QueueInit, ServedOrdered
    <2>4. CountsServed
      BY DEF CountedInit, CountsServed
    <2> QED BY <2>1, <2>2, <2>3, <2>4 DEF FairInv
  <1>2. FairInv /\ [Next /\ Count]_fairVars => FairInv'
    <2> SUFFICES ASSUME FairInv, [Next /\ Count]_fairVars PROVE FairInv'
      OBVIOUS
    <2>1. CASE Next /\ Count
      BY <2>1, FairStep
    <2>2. CASE UNCHANGED fairVars
      <3>1. IndInv'
        BY <2>2, NextIndInv DEF fairVars, FairInv
      <3> QED BY <2>2, <3>1 DEF fairVars, vars, FairInv, CreationOrdered, ServedOrdered,
                                CountsServed, Exists
    <2> QED BY <2>1, <2>2
  <1>3. FairInv => OvertakenAtMostOnce
    <2> SUFFICES ASSUME FairInv, NEW s \in Tenants, NEW t \in Tenants
                 PROVE  overtaken[t][s] <= 1
      BY DEF OvertakenAtMostOnce
    <2>1. overtaken[t][s] = 0 \/ overtaken[t][s] = 1
      BY DEF FairInv, CountsServed
    <2> QED BY <2>1
  <1> QED BY <1>1, <1>2, <1>3, PTL DEF CountedSpec

-----------------------------------------------------------------------------
(* PostgresLeasing: the inductive invariant.  LeaseLock may lease a row    *)
(* that is leased, finished or out of attempts by then, so that neither    *)
(* the attempt budget nor BeliefIsOwnership can be part of it.             *)

AnyRow == [status : Statuses, attempts : Nat, wait : Nat,
           leasedBy : Workers \union {NoWorker}, left : Int, redacted : BOOLEAN]

AnyProcess == [phase : Phases, job : Jobs \union {NoJob}, attempts : Nat, left : Int,
               lost : BOOLEAN, renewal : Renewals, reply : Int]

PgTypes ==
  /\ jobs \in [Jobs -> AnyRow]
  /\ ws \in [Workers -> AnyProcess]
  /\ heads \in [Workers -> SUBSET Jobs]

\* A running row counts the attempt that runs.
AttemptCounted == \A j \in Jobs : jobs[j].status = "running" => jobs[j].attempts > 0

PgInv == PgTypes /\ AttemptCounted /\ ProcessesConsistent /\ CopiesCurrent

-----------------------------------------------------------------------------
(* What a step does to a process *)

\* The process goes on with the attempt it has, or without one.
GoesOn(q, p) ==
  /\ q \in AnyProcess
  /\ q.renewal # "none" => q.phase \in Busy
  /\ q.phase \in Busy => p.phase \in Busy /\ q.job = p.job /\ q.attempts = p.attempts

SameAttempt(q, p) ==
  /\ q \in AnyProcess
  /\ q.phase = p.phase /\ q.job = p.job /\ q.attempts = p.attempts

\* One field of a process replaced.
LEMMA OneField ==
  ASSUME NEW p \in AnyProcess
  PROVE  /\ \A x \in Phases :
              LET q == [p EXCEPT !.phase = x] IN
              /\ q \in AnyProcess /\ q.phase = x /\ q.renewal = p.renewal
              /\ q.job = p.job /\ q.attempts = p.attempts
         /\ \A x \in Renewals :
              LET q == [p EXCEPT !.renewal = x] IN SameAttempt(q, p) /\ q.renewal = x
         /\ \A x \in Int :
              LET q == [p EXCEPT !.left = x] IN
              SameAttempt(q, p) /\ q.renewal = p.renewal /\ q.reply = p.reply
         /\ \A x \in Int :
              LET q == [p EXCEPT !.reply = x] IN SameAttempt(q, p) /\ q.renewal = p.renewal
         /\ \A x \in BOOLEAN :
              LET q == [p EXCEPT !.lost = x] IN SameAttempt(q, p) /\ q.renewal = p.renewal
  <1>1. ASSUME NEW x \in Phases
        PROVE  LET q == [p EXCEPT !.phase = x] IN
               /\ q \in AnyProcess /\ q.phase = x /\ q.renewal = p.renewal
               /\ q.job = p.job /\ q.attempts = p.attempts
    BY DEF AnyProcess
  <1>2. ASSUME NEW x \in Renewals
        PROVE  LET q == [p EXCEPT !.renewal = x] IN SameAttempt(q, p) /\ q.renewal = x
    BY DEF AnyProcess, SameAttempt
  <1>3. ASSUME NEW x \in Int
        PROVE  LET q == [p EXCEPT !.left = x] IN
               SameAttempt(q, p) /\ q.renewal = p.renewal /\ q.reply = p.reply
    BY DEF AnyProcess, SameAttempt
  <1>4. ASSUME NEW x \in Int
        PROVE  LET q == [p EXCEPT !.reply = x] IN SameAttempt(q, p) /\ q.renewal = p.renewal
    BY DEF AnyProcess, SameAttempt
  <1>5. ASSUME NEW x \in BOOLEAN
        PROVE  LET q == [p EXCEPT !.lost = x] IN SameAttempt(q, p) /\ q.renewal = p.renewal
    BY DEF AnyProcess, SameAttempt
  <1> QED BY <1>1, <1>2, <1>3, <1>4, <1>5

\* The answer of a renewal belongs to the same attempt,
LEMMA AnsweredSame ==
  ASSUME NEW p \in AnyProcess, NEW r \in Renewals, NEW l \in Int
  PROVE  SameAttempt(Answered(p, r, l), p) /\ Answered(p, r, l).renewal = r
  <1> DEFINE q == [p EXCEPT !.renewal = r]
  <1>1. SameAttempt(q, p) /\ q.renewal = r
    BY OneField
  <1>2. Answered(p, r, l) = [q EXCEPT !.reply = l]
    BY DEF Answered
  <1> HIDE DEF q
  <1>3. q \in AnyProcess
    BY <1>1 DEF SameAttempt
  <1>4. SameAttempt([q EXCEPT !.reply = l], q) /\ [q EXCEPT !.reply = l].renewal = q.renewal
    BY <1>3, OneField
  <1> QED BY <1>1, <1>2, <1>4 DEF SameAttempt

\* so does the process after the answer,
LEMMA AfterRenewalSame ==
  ASSUME NEW p \in AnyProcess, NEW b \in BOOLEAN
  PROVE  SameAttempt(AfterRenewal(p, b), p) /\ AfterRenewal(p, b).renewal = "none"
  <1> DEFINE l == IF p.renewal = "granted" THEN p.reply ELSE p.left
             o == p.lost \/ p.renewal = "refused" \/ (p.renewal = "failed" /\ b)
             q1 == [p EXCEPT !.renewal = "none"]
             q2 == [q1 EXCEPT !.left = l]
             q3 == [q2 EXCEPT !.reply = Expired]
             q4 == [q3 EXCEPT !.lost = o]
  <1>1. "none" \in Renewals /\ l \in Int /\ o \in BOOLEAN /\ Expired \in Int
    BY DEF AnyProcess, Renewals, Expired
  <1>2. AfterRenewal(p, b) = q4
    BY DEF AfterRenewal
  <1> HIDE DEF l, o
  <1>3. SameAttempt(q1, p) /\ q1.renewal = "none" /\ q1 \in AnyProcess
    BY <1>1, OneField DEF SameAttempt
  <1> HIDE DEF q1
  <1>4. SameAttempt(q2, q1) /\ q2.renewal = "none" /\ q2 \in AnyProcess
    BY <1>1, <1>3, OneField DEF SameAttempt
  <1> HIDE DEF q2
  <1>5. SameAttempt(q3, q2) /\ q3.renewal = "none" /\ q3 \in AnyProcess
    BY <1>1, <1>4, OneField DEF SameAttempt
  <1> HIDE DEF q3
  <1>6. SameAttempt(q4, q3) /\ q4.renewal = "none"
    BY <1>1, <1>5, OneField DEF SameAttempt
  <1> HIDE DEF q4
  <1> QED BY <1>2, <1>3, <1>4, <1>5, <1>6 DEF SameAttempt

\* and so does the process a tick later.
LEMMA OlderSame ==
  ASSUME NEW p \in AnyProcess
  PROVE  SameAttempt(OlderProcess(p), p) /\ OlderProcess(p).renewal = p.renewal
  <1> DEFINE l == Sooner(p.left, Expired)
             y == Sooner(p.reply, Expired)
             q == [p EXCEPT !.left = l]
  <1>1. l \in Int /\ y \in Int
    BY DEF AnyProcess, Expired, Sooner
  <1>2. OlderProcess(p) = [q EXCEPT !.reply = y]
    BY DEF OlderProcess
  <1> HIDE DEF l, y
  <1>3. SameAttempt(q, p) /\ q.renewal = p.renewal /\ q \in AnyProcess
    BY <1>1, OneField DEF SameAttempt
  <1> HIDE DEF q
  <1>4. SameAttempt([q EXCEPT !.reply = y], q) /\ [q EXCEPT !.reply = y].renewal = q.renewal
    BY <1>1, <1>3, OneField
  <1> QED BY <1>2, <1>3, <1>4 DEF SameAttempt

\* Processes without a job.
LEMMA AnyResting ==
  ASSUME NEW x \in Phases \ Busy
  PROVE  InPhase(x) \in AnyProcess /\ InPhase(x).phase = x /\ InPhase(x).renewal = "none"
  BY DEF InPhase, AnyProcess, Renewals, Expired

\* Whatever a worker does with its job, it goes on with the same attempt or
\* gives it up.
LEMMA WorkerGoesOn ==
  ASSUME PgInv, NEW w \in Workers, WorkerStep(w)
  PROVE  \E q : ws' = [ws EXCEPT ![w] = q] /\ GoesOn(q, ws[w])
  <1> DEFINE p == ws[w]
  <1>a. p \in AnyProcess /\ ws \in [Workers -> AnyProcess]
    BY DEF PgInv, PgTypes
  <1>b. p.renewal # "none" => p.phase \in Busy
    BY DEF PgInv, ProcessesConsistent
  <1>c. Expired \in Int /\ LeaseSeconds \in Int
    BY Bounds DEF Expired
  <1>d. /\ {"sent", "failed", "granted", "refused", "none"} \subseteq Renewals
        /\ {"stopping", "settling", "renewing"} \subseteq Phases \intersect Busy
    BY DEF Renewals, Phases, Busy
  <1>e. \A q : q = Idle \/ q = Dead => GoesOn(q, p)
    <2>1. "idle" \in Phases \ Busy /\ "dead" \in Phases \ Busy
      BY DEF Phases, Busy
    <2> QED BY <2>1, AnyResting DEF Idle, Dead, GoesOn
  <1>1. CASE BeginRenewal(w)
    <2> DEFINE q == [p EXCEPT !.renewal = "sent"]
    <2>1. SameAttempt(q, p)
      BY <1>a, <1>d, OneField
    <2>2. ws' = [ws EXCEPT ![w] = q] /\ p.phase \in Busy
      BY <1>1, <1>a DEF BeginRenewal, Busy
    <2> HIDE DEF q
    <2> QED BY <2>1, <2>2 DEF GoesOn, SameAttempt
  <1>2. CASE ExecuteRenewal(w) \/ LoseRenewal(w)
    <2>1. PICK r \in Renewals, l \in Int : ws' = [ws EXCEPT ![w] = Answered(p, r, l)]
      BY <1>2, <1>a, <1>c, <1>d DEF ExecuteRenewal, LoseRenewal
    <2>2. p.phase \in Busy
      BY <1>2, <1>b DEF ExecuteRenewal, LoseRenewal
    <2>3. SameAttempt(Answered(p, r, l), p)
      BY <1>a, AnsweredSame
    <2> QED BY <2>1, <2>2, <2>3 DEF GoesOn, SameAttempt
  <1>3. CASE FinishRenewal(w)
    <2>1. PICK b \in BOOLEAN : ws' = [ws EXCEPT ![w] = AfterRenewal(p, b)]
      BY <1>3, ReadingsBoolean DEF FinishRenewal
    <2>2. SameAttempt(AfterRenewal(p, b), p) /\ AfterRenewal(p, b).renewal = "none"
      BY <1>a, AfterRenewalSame
    <2> QED BY <2>1, <2>2 DEF GoesOn, SameAttempt
  <1>4. CASE FinishWork(w)
    <2> DEFINE q == [p EXCEPT !.phase = "stopping"]
    <2>1. /\ q \in AnyProcess /\ q.phase = "stopping" /\ q.job = p.job
          /\ q.attempts = p.attempts
      BY <1>a, <1>d, OneField
    <2>2. ws' = [ws EXCEPT ![w] = q] /\ p.phase \in Busy
      BY <1>4, <1>a DEF FinishWork, Busy
    <2> HIDE DEF q
    <2> QED BY <1>d, <2>1, <2>2 DEF GoesOn
  <1>5. CASE StopHeartbeat(w)
    <2>1. CASE p.lost
      BY <1>5, <1>e, <2>1 DEF StopHeartbeat
    <2>2. CASE ~p.lost
      <3>1. PICK b \in BOOLEAN :
              ws' = [ws EXCEPT ![w].phase = IF b THEN "renewing" ELSE "settling",
                               ![w].renewal = IF b THEN "sent" ELSE "none"]
        BY <1>5, <2>2, ReadingsBoolean DEF StopHeartbeat
      <3> DEFINE ph == IF b THEN "renewing" ELSE "settling"
                 r == IF b THEN "sent" ELSE "none"
                 q1 == [p EXCEPT !.phase = ph]
                 q == [q1 EXCEPT !.renewal = r]
      <3>2. ws' = [ws EXCEPT ![w] = q]
        BY <3>1, <1>a
      <3>3. ph \in Phases /\ ph \in Busy /\ r \in Renewals
        BY DEF Phases, Busy, Renewals
      <3> HIDE DEF ph, r
      <3>4. q1 \in AnyProcess /\ q1.phase = ph /\ q1.job = p.job /\ q1.attempts = p.attempts
        BY <1>a, <3>3, OneField
      <3> HIDE DEF q1
      <3>5. SameAttempt(q, q1)
        BY <3>3, <3>4, OneField
      <3>6. p.phase \in Busy
        BY <1>5 DEF StopHeartbeat, Busy
      <3> HIDE DEF q
      <3> QED BY <3>2, <3>3, <3>4, <3>5, <3>6 DEF GoesOn, SameAttempt
    <2> QED BY <2>1, <2>2
  <1>6. CASE FinishLastRenewal(w)
    <2>1. PICK b \in BOOLEAN :
            ws' = [ws EXCEPT ![w] = IF AfterRenewal(p, b).lost THEN Idle
                                    ELSE [AfterRenewal(p, b) EXCEPT !.phase = "settling"]]
      BY <1>6, ReadingsBoolean DEF FinishLastRenewal
    <2> DEFINE a == AfterRenewal(p, b)
               q == [a EXCEPT !.phase = "settling"]
    <2>2. a \in AnyProcess /\ a.job = p.job /\ a.attempts = p.attempts
      BY <1>a, AfterRenewalSame DEF SameAttempt
    <2>3. p.phase \in Busy
      BY <1>6 DEF FinishLastRenewal, Busy
    <2>4. ws' = [ws EXCEPT ![w] = IF a.lost THEN Idle ELSE q]
      BY <2>1
    <2> HIDE DEF a
    <2>5. q \in AnyProcess /\ q.phase = "settling" /\ q.job = p.job /\ q.attempts = p.attempts
      BY <2>2, <1>d, OneField
    <2> HIDE DEF q
    <2>6. GoesOn(q, p)
      BY <1>d, <2>3, <2>5 DEF GoesOn
    <2> QED BY <1>e, <2>4, <2>6
  <1>7. CASE Settle(w) \/ LoseSettlement(w) \/ Crash(w) \/ Restart(w)
    BY <1>7, <1>e DEF Settle, LoseSettlement, Crash, Restart
  <1> QED BY <1>1, <1>2, <1>3, <1>4, <1>5, <1>6, <1>7 DEF WorkerStep

-----------------------------------------------------------------------------
(* What a step does to a row *)

\* The body of SettledByHolder.
EndsRightly(j) ==
  jobs[j].status = "running" /\ jobs'[j].status \in Finished \union {"retryable_failed"} =>
    \/ \E w \in Workers :
         ws[w].phase = "settling" /\ ws[w].job = j /\ HoldsLease(j, w, ws[w].left)
    \/ OutOfAttempts(jobs[j]) /\ jobs'[j].status = "dead_letter"

\* The row does not begin an attempt, and ends one only as it may.
RunsOn(j) ==
  /\ jobs'[j] \in AnyRow
  /\ jobs'[j].status = "running" =>
       /\ jobs[j].status = "running"
       /\ jobs'[j].attempts = jobs[j].attempts /\ jobs'[j].leasedBy = jobs[j].leasedBy
  /\ EndsRightly(j)

\* A row that keeps status, attempts and holder.
LEMMA SameRunsOn ==
  ASSUME NEW j \in Jobs, jobs'[j] \in AnyRow, Same(j)
  PROVE  RunsOn(j)
  BY DEF RunsOn, EndsRightly, Same, Finished

\* A row that gives its lease up.
LEMMA ReleasedRow ==
  ASSUME NEW row \in AnyRow, NEW status \in Statuses, NEW wait \in Nat, NEW b \in BOOLEAN
  PROVE  Released(row, status, wait, b) \in AnyRow /\ Released(row, status, wait, b).status = status
  BY DEF Released, AnyRow, Expired

\* Requests end no attempt.
LEMMA RequestRunsOn ==
  ASSUME PgInv, RequestStep, NEW j \in Jobs
  PROVE  RunsOn(j)
  <1>a. jobs \in [Jobs -> AnyRow] /\ jobs[j] \in AnyRow
    BY DEF PgInv, PgTypes
  <1>q. \A d \in Nat : Queued(d) \in AnyRow /\ Queued(d).status = "queued"
    BY DEF Queued, AnyRow, Expired, Statuses, Pending
  <1>1. ASSUME NEW i \in Jobs, NEW d \in Delays, Enqueue(i, d)
        PROVE  RunsOn(j)
    <2>1. CASE i = j
      <3>1. jobs'[j] = Queued(d) /\ d \in Nat
        BY <1>1, <1>a, <2>1, QueueAssumptions DEF Enqueue
      <3> QED BY <1>q, <3>1 DEF RunsOn, EndsRightly, Finished
    <2>2. CASE i # j
      BY <1>1, <1>a, <2>2, SameRunsOn DEF Enqueue, Same
    <2> QED BY <2>1, <2>2
  <1>2. ASSUME NEW t \in Tenants, NEW u \in Users, CancelPending(t, u)
        PROVE  RunsOn(j)
    <2>1. CASE Cancellable(t, u, j)
      <3>1. jobs'[j] = Released(jobs[j], "cancelled", jobs[j].wait, jobs[j].redacted)
        BY <1>2, <2>1 DEF CancelPending, Cancelled
      <3>2. "cancelled" \in Statuses /\ jobs[j].wait \in Nat /\ jobs[j].redacted \in BOOLEAN
        BY <1>a DEF AnyRow, Statuses, Terminal
      <3>3. jobs'[j] \in AnyRow /\ jobs'[j].status = "cancelled"
        BY <1>a, <3>1, <3>2, ReleasedRow
      <3> QED BY <3>3 DEF RunsOn, EndsRightly, Finished
    <2>2. CASE ~Cancellable(t, u, j)
      BY <1>2, <1>a, <2>2, SameRunsOn DEF CancelPending, Same
    <2> QED BY <2>1, <2>2
  <1>3. ASSUME NEW u \in Users, NEW R \in SUBSET Jobs, EraseAccount(u, R)
        PROVE  RunsOn(j)
    <2>1. CASE j \in R
      <3>1. jobs'[j] = Queued(0)
        BY <1>3, <2>1 DEF EraseAccount
      <3> QED BY <1>q, <3>1 DEF RunsOn, EndsRightly, Finished
    <2>2. CASE j \notin R /\ ErasedWith(u, j)
      <3>1. jobs'[j] = Absent
        BY <1>3, <2>2 DEF EraseAccount
      <3>2. jobs'[j] \in AnyRow /\ jobs'[j].status = "absent"
        BY <3>1 DEF Absent, AnyRow, Expired, Statuses
      <3> QED BY <3>2 DEF RunsOn, EndsRightly, Finished
    <2>3. CASE j \notin R /\ ~ErasedWith(u, j)
      BY <1>3, <1>a, <2>3, SameRunsOn DEF EraseAccount, Same
    <2> QED BY <2>1, <2>2, <2>3
  <1>4. ASSUME NEW i \in Jobs, RunMaintenance(i)
        PROVE  RunsOn(j)
    BY <1>4, <1>a, SameRunsOn DEF RunMaintenance, Same, AnyRow
  <1> QED BY <1>1, <1>2, <1>3, <1>4 DEF RequestStep

\* The sweep ends only expired last attempts.
LEMMA SweepRunsOn ==
  ASSUME PgInv, jobs' = Swept, NEW j \in Jobs
  PROVE  RunsOn(j)
  <1>a. jobs[j] \in AnyRow
    BY DEF PgInv, PgTypes
  <1>1. CASE OutOfAttempts(jobs[j])
    <2> DEFINE b == jobs[j].redacted \/ Redacts(j)
    <2>1. jobs'[j] = Released(jobs[j], "dead_letter", jobs[j].wait, b)
      BY <1>1 DEF Swept, DeadLettered
    <2>2. b \in BOOLEAN
      OBVIOUS
    <2> HIDE DEF b
    <2>3. jobs'[j] \in AnyRow /\ jobs'[j].status = "dead_letter"
      BY <1>a, <2>1, <2>2, ReleasedRow DEF AnyRow, Statuses, Terminal, Finished
    <2> QED BY <1>1, <2>3 DEF RunsOn, EndsRightly
  <1>2. CASE ~OutOfAttempts(jobs[j])
    BY <1>a, <1>2, SameRunsOn DEF Swept, Same
  <1> QED BY <1>1, <1>2

\* complete() and fail() end the attempt of the worker that calls them.
LEMMA SettleRunsOn ==
  ASSUME PgInv, NEW w \in Workers, Settle(w), NEW j \in Jobs
  PROVE  RunsOn(j)
  <1>a. jobs \in [Jobs -> AnyRow] /\ jobs[j] \in AnyRow
    BY DEF PgInv, PgTypes
  <1>1. CASE ws[w].job = j /\ HoldsLease(j, w, ws[w].left)
    <2> DEFINE b == jobs[j].redacted \/ Redacts(j)
    <2>1. PICK failed \in BOOLEAN : jobs'[j] = Settled(j, jobs[j], failed)
      BY <1>1, <1>a DEF Settle
    <2>b. b \in BOOLEAN
      OBVIOUS
    <2>2. jobs[j].redacted \in BOOLEAN /\ jobs[j].wait \in Nat
      BY <1>a DEF AnyRow
    <2>3. ws[w].phase = "settling" /\ jobs[j].attempts \in Nat /\ jobs[j].attempts > 0
      BY <1>1, <1>a DEF Settle, PgInv, AttemptCounted, HoldsLease, AnyRow
    <2>4. \/ jobs'[j] = Released(jobs[j], "succeeded", jobs[j].wait, b)
          \/ jobs'[j] = Released(jobs[j], "dead_letter", jobs[j].wait, b)
          \/ /\ jobs[j].attempts < MaxAttempts
             /\ jobs'[j] = Released(jobs[j], "retryable_failed", RetryDelay(jobs[j].attempts),
                                    jobs[j].redacted)
      BY <2>1, <2>3, Bounds DEF Settled, Succeeded, Failed, DeadLettered, RetryLater
    <2>5. jobs[j].attempts < MaxAttempts => RetryDelay(jobs[j].attempts) \in Nat
      BY <2>3, Bounds, QueueAssumptions
    <2>6. /\ "succeeded" \in Statuses /\ "dead_letter" \in Statuses
          /\ "retryable_failed" \in Statuses
      BY DEF Statuses, Terminal, Finished, Pending
    <2> HIDE DEF b
    <2>7. jobs'[j] \in AnyRow /\ jobs'[j].status # "running"
      <3>1. CASE jobs'[j] = Released(jobs[j], "succeeded", jobs[j].wait, b)
        BY <1>a, <2>6, <2>b, <3>1 DEF Released, AnyRow, Expired
      <3>2. CASE jobs'[j] = Released(jobs[j], "dead_letter", jobs[j].wait, b)
        BY <1>a, <2>6, <2>b, <3>2 DEF Released, AnyRow, Expired
      <3>3. CASE /\ jobs[j].attempts < MaxAttempts
                 /\ jobs'[j] = Released(jobs[j], "retryable_failed",
                                        RetryDelay(jobs[j].attempts), jobs[j].redacted)
        <4> DEFINE d == RetryDelay(jobs[j].attempts)
        <4>1. d \in Nat /\ "retryable_failed" \in Statuses
          BY <2>5, <2>6, <3>3
        <4>2. jobs'[j] = Released(jobs[j], "retryable_failed", d, jobs[j].redacted)
          BY <3>3
        <4> HIDE DEF d
        <4> QED BY <1>a, <2>2, <4>1, <4>2, ReleasedRow
      <3> QED BY <2>4, <3>1, <3>2, <3>3
    <2> QED BY <1>1, <2>3, <2>7 DEF RunsOn, EndsRightly
  <1>2. CASE ~(ws[w].job = j /\ HoldsLease(j, w, ws[w].left))
    BY <1>2, <1>a, SameRunsOn DEF Settle, Same
  <1> QED BY <1>1, <1>2

\* A tick changes the times of a row and nothing else.
LEMMA AgedSame ==
  ASSUME NEW row \in AnyRow
  PROVE  LET r == Aged(row) IN
         /\ r \in AnyRow /\ r.status = row.status
         /\ r.attempts = row.attempts /\ r.leasedBy = row.leasedBy
  <1> DEFINE sooner == [row EXCEPT !.wait = Sooner(row.wait, 0)]
  <1>1. Sooner(row.wait, 0) \in Nat /\ Sooner(row.left, Expired) \in Int
    BY DEF Sooner, AnyRow, Expired
  <1>2. /\ sooner \in AnyRow /\ sooner.left = row.left /\ sooner.status = row.status
        /\ sooner.attempts = row.attempts /\ sooner.leasedBy = row.leasedBy
    BY <1>1 DEF AnyRow
  <1>3. Aged(row) = [sooner EXCEPT !.left = Sooner(row.left, Expired)]
    BY DEF Aged
  <1> HIDE DEF sooner
  <1> QED BY <1>1, <1>2, <1>3 DEF AnyRow

\* Every step but the lock begins no attempt, and ends one only rightly.
LEMMA OtherRunsOn ==
  ASSUME PgInv, NEW j \in Jobs,
         \/ \E w \in Workers : LeaseSnapshot(w) \/ LeaseSkipped(w)
         \/ \E w \in Workers : LeaseNothing(w) \/ WorkerStep(w)
         \/ RequestStep
         \/ Tick
  PROVE  RunsOn(j)
  <1>a. jobs \in [Jobs -> AnyRow] /\ jobs[j] \in AnyRow
    BY DEF PgInv, PgTypes
  <1>1. CASE Tick
    BY <1>1, <1>a, AgedSame, SameRunsOn DEF Tick, Same
  <1>2. CASE \E w \in Workers : LeaseSnapshot(w) \/ LeaseNothing(w)
    BY <1>2, SweepRunsOn DEF LeaseSnapshot, LeaseNothing
  <1>3. ASSUME NEW w \in Workers, ExecuteRenewal(w)
        PROVE  RunsOn(j)
    <2>1. \/ jobs'[j] = jobs[j]
          \/ jobs'[j] = Renewed(jobs[j])
      BY <1>3, <1>a DEF ExecuteRenewal
    <2>2. /\ Renewed(jobs[j]) \in AnyRow /\ Renewed(jobs[j]).status = jobs[j].status
          /\ Renewed(jobs[j]).attempts = jobs[j].attempts
          /\ Renewed(jobs[j]).leasedBy = jobs[j].leasedBy
      BY <1>a, Bounds DEF Renewed, AnyRow
    <2> QED BY <1>a, <2>1, <2>2, SameRunsOn DEF Same
  <1>4. CASE jobs' = jobs
    BY <1>a, <1>4, SameRunsOn DEF Same
  <1> QED
    BY <1>1, <1>2, <1>3, <1>4, SettleRunsOn, RequestRunsOn
       DEF WorkerStep, BeginRenewal, LoseRenewal, FinishRenewal, FinishWork, StopHeartbeat,
           FinishLastRenewal, LoseSettlement, Crash, Restart, queueVars, LeaseSkipped

-----------------------------------------------------------------------------
(* The theorems about PostgresLeasing *)

\* Processes that go on beside rows that run on keep the invariant.
LEMMA GoingOn ==
  ASSUME PgInv, \A j \in Jobs : RunsOn(j), heads' \in [Workers -> SUBSET Jobs],
         jobs' = [j \in Jobs |-> jobs'[j]],
         ws' = [w \in Workers |-> ws'[w]],
         \A w \in Workers : GoesOn(ws'[w], ws[w])
  PROVE  PgInv'
  <1>1. PgTypes'
    <2>1. jobs' \in [Jobs -> AnyRow]
      BY DEF RunsOn
    <2>2. ws' \in [Workers -> AnyProcess]
      BY DEF GoesOn
    <2> QED BY <2>1, <2>2 DEF PgTypes
  <1>2. AttemptCounted'
    BY DEF PgInv, AttemptCounted, RunsOn
  <1>3. ProcessesConsistent'
    BY DEF PgInv, ProcessesConsistent, GoesOn
  <1>4. CopiesCurrent'
    <2> SUFFICES ASSUME NEW w \in Workers, ws'[w].phase \in Busy,
                        jobs'[ws'[w].job].status = "running", jobs'[ws'[w].job].leasedBy = w
                 PROVE  ws'[w].attempts = jobs'[ws'[w].job].attempts
      BY DEF CopiesCurrent
    <2>1. /\ ws[w].phase \in Busy /\ ws'[w].job = ws[w].job
          /\ ws'[w].attempts = ws[w].attempts /\ ws[w].job \in Jobs
      BY DEF GoesOn, PgInv, ProcessesConsistent
    <2> QED BY <2>1 DEF PgInv, CopiesCurrent, RunsOn
  <1> QED BY <1>1, <1>2, <1>3, <1>4 DEF PgInv

\* A process whose worker does nothing goes on.
LEMMA Undisturbed ==
  ASSUME PgInv, NEW w \in Workers
  PROVE  GoesOn(ws[w], ws[w])
  BY DEF PgInv, PgTypes, ProcessesConsistent, GoesOn

\* The lock begins an attempt: the row and the copy count it alike, and any
\* other copy is of another holder.
LEMMA LockStep ==
  ASSUME PgInv, NEW w \in Workers, LeaseLock(w)
  PROVE  PgInv' /\ \A j \in Jobs : EndsRightly(j)
  <1>a. /\ jobs \in [Jobs -> AnyRow] /\ ws \in [Workers -> AnyProcess]
        /\ heads \in [Workers -> SUBSET Jobs]
    BY DEF PgInv, PgTypes
  <1>1. PICK j \in Jobs :
          /\ jobs' = [jobs EXCEPT ![j] = Leased(jobs[j], w)]
          /\ ws' = [ws EXCEPT ![w] = Started(j, Leased(jobs[j], w))]
    BY <1>a DEF LeaseLock
  <1> DEFINE row == Leased(jobs[j], w)
             p == Started(j, row)
  <1>2. /\ row \in AnyRow /\ row.status = "running" /\ row.leasedBy = w
        /\ row.attempts = jobs[j].attempts + 1 /\ row.attempts > 0
    BY <1>a, Bounds DEF Leased, AnyRow, Statuses
  <1> HIDE DEF row
  <1>3. /\ p \in AnyProcess /\ p.phase = "working" /\ p.job = j
        /\ p.attempts = row.attempts /\ p.renewal = "none"
    BY <1>2 DEF Started, AnyProcess, AnyRow, Phases, Renewals, Expired
  <1> HIDE DEF p
  <1>4. /\ jobs' \in [Jobs -> AnyRow] /\ jobs'[j] = row
        /\ \A k \in Jobs \ {j} : jobs'[k] = jobs[k]
    BY <1>1, <1>2, <1>a DEF row
  <1>5. /\ ws' \in [Workers -> AnyProcess] /\ ws'[w] = p
        /\ \A v \in Workers \ {w} : ws'[v] = ws[v]
    BY <1>1, <1>3, <1>a DEF row, p
  <1>6. heads' \in [Workers -> SUBSET Jobs]
    BY <1>a DEF LeaseLock
  <1>7. AttemptCounted' /\ ProcessesConsistent'
    BY <1>2, <1>3, <1>4, <1>5 DEF PgInv, AttemptCounted, ProcessesConsistent, Busy
  <1>8. CopiesCurrent'
    <2> SUFFICES ASSUME NEW v \in Workers, ws'[v].phase \in Busy,
                        jobs'[ws'[v].job].status = "running", jobs'[ws'[v].job].leasedBy = v
                 PROVE  ws'[v].attempts = jobs'[ws'[v].job].attempts
      BY DEF CopiesCurrent
    <2>1. CASE v = w
      BY <1>3, <1>4, <1>5, <2>1
    <2>2. CASE v # w
      <3>1. ws'[v] = ws[v] /\ ws[v].job \in Jobs
        BY <1>5, <2>2 DEF PgInv, ProcessesConsistent
      <3>2. ws[v].job # j
        BY <1>2, <1>4, <2>2, <3>1
      <3> QED BY <1>4, <3>1, <3>2 DEF PgInv, CopiesCurrent
    <2> QED BY <2>1, <2>2
  <1>9. \A k \in Jobs : EndsRightly(k)
    BY <1>2, <1>4 DEF EndsRightly, Finished
  <1> QED BY <1>4, <1>5, <1>6, <1>7, <1>8, <1>9 DEF PgInv, PgTypes

\* Every step keeps the invariant and ends attempts rightly.
LEMMA PgStep ==
  ASSUME PgInv, PgNext
  PROVE  PgInv' /\ \A j \in Jobs : EndsRightly(j)
  <1>a. /\ jobs \in [Jobs -> AnyRow] /\ ws \in [Workers -> AnyProcess]
        /\ heads \in [Workers -> SUBSET Jobs]
    BY DEF PgInv, PgTypes
  <1>1. ASSUME NEW w \in Workers, LeaseSnapshot(w) \/ LeaseSkipped(w)
        PROVE  PgInv' /\ \A j \in Jobs : EndsRightly(j)
    <2>1. \A j \in Jobs : RunsOn(j)
      BY <1>1, OtherRunsOn
    <2>2. PICK x \in Phases \ Busy : ws' = [ws EXCEPT ![w] = InPhase(x)]
      BY <1>1 DEF LeaseSnapshot, LeaseSkipped, Idle, Phases, Busy
    <2>3. GoesOn(InPhase(x), ws[w])
      BY <2>2, AnyResting DEF GoesOn
    <2>4. \A v \in Workers : GoesOn(ws'[v], ws[v])
      BY <1>a, <2>2, <2>3, Undisturbed
    <2>5. heads' \in [Workers -> SUBSET Jobs]
      BY <1>1, <1>a DEF LeaseSnapshot, LeaseSkipped
    <2>6. jobs' = Swept \/ jobs' = jobs
      BY <1>1 DEF LeaseSnapshot, LeaseSkipped
    <2>7. jobs' = [j \in Jobs |-> jobs'[j]]
      BY <1>a, <2>6 DEF Swept
    <2>8. ws' = [v \in Workers |-> ws'[v]]
      BY <1>a, <2>2
    <2>9. PgInv'
      BY <2>1, <2>4, <2>5, <2>7, <2>8, GoingOn
    <2> QED BY <2>1, <2>9 DEF RunsOn
  <1>2. ASSUME PgOtherStep
        PROVE  PgInv' /\ \A j \in Jobs : EndsRightly(j)
    <2>1. \A j \in Jobs : RunsOn(j)
      BY <1>2, OtherRunsOn DEF PgOtherStep
    <2>2. heads' \in [Workers -> SUBSET Jobs]
      BY <1>2, <1>a DEF PgOtherStep
    <2>3. /\ ws' = [v \in Workers |-> ws'[v]]
          /\ \A v \in Workers : GoesOn(ws'[v], ws[v])
      <3>1. ASSUME NEW w \in Workers, WorkerStep(w)
            PROVE  /\ ws' = [v \in Workers |-> ws'[v]]
                   /\ \A v \in Workers : GoesOn(ws'[v], ws[v])
        <4>1. PICK q : ws' = [ws EXCEPT ![w] = q] /\ GoesOn(q, ws[w])
          BY <3>1, WorkerGoesOn
        <4> QED BY <1>a, <4>1, Undisturbed
      <3>2. CASE Tick
        <4>1. ws' = [w \in Workers |-> OlderProcess(ws[w])]
          BY <3>2 DEF Tick
        <4>2. \A v \in Workers : /\ SameAttempt(OlderProcess(ws[v]), ws[v])
                                 /\ OlderProcess(ws[v]).renewal = ws[v].renewal
          BY <1>a, OlderSame
        <4>3. \A v \in Workers : GoesOn(OlderProcess(ws[v]), ws[v])
          BY <4>2 DEF GoesOn, SameAttempt, PgInv, ProcessesConsistent
        <4> QED BY <4>1, <4>3
      <3>3. CASE ws' = ws
        BY <1>a, <3>3, Undisturbed
      <3> QED BY <1>2, <3>1, <3>2, <3>3 DEF PgOtherStep, RequestStep, LeaseNothing
    <2>4. jobs' = [j \in Jobs |-> jobs'[j]]
      BY <1>2, <1>a
         DEF PgOtherStep, RequestStep, LeaseNothing, Swept, Tick, Enqueue, CancelPending,
             EraseAccount, RunMaintenance, WorkerStep, BeginRenewal, ExecuteRenewal, LoseRenewal,
             FinishRenewal, FinishWork, StopHeartbeat, FinishLastRenewal, Settle,
             LoseSettlement, Crash, Restart, queueVars
    <2>5. PgInv'
      BY <2>1, <2>2, <2>3, <2>4, GoingOn
    <2> QED BY <2>1, <2>5 DEF RunsOn
  <1> QED BY <1>1, <1>2, LockStep DEF PgNext, PgLeaseStep

\* The invariant holds in every reachable state.
LEMMA AlwaysPgInv == PgSpec => []PgInv
  <1>1. PgInit => PgInv
    <2> SUFFICES ASSUME PgInit PROVE PgInv
      OBVIOUS
    <2>1. "idle" \in Phases \ Busy
      BY DEF Phases, Busy
    <2>2. Absent \in AnyRow /\ Absent.status = "absent"
      BY DEF Absent, AnyRow, Expired, Statuses
    <2>3. Idle \in AnyProcess /\ Idle.phase \notin Busy /\ Idle.renewal = "none"
      BY <2>1, AnyResting DEF Idle
    <2> QED BY <2>2, <2>3 DEF PgInit, Init, QueueInit, PgInv, PgTypes, AttemptCounted,
                              ProcessesConsistent, CopiesCurrent
  <1>2. PgInv /\ [PgNext]_pgVars => PgInv'
    <2> SUFFICES ASSUME PgInv, [PgNext]_pgVars PROVE PgInv'
      OBVIOUS
    <2>1. CASE UNCHANGED pgVars
      BY <2>1 DEF pgVars, vars, PgInv, PgTypes, AttemptCounted, ProcessesConsistent, CopiesCurrent
    <2> QED BY <2>1, PgStep
  <1> QED BY <1>1, <1>2, PTL DEF PgSpec

\* Even where lease_job hands one row to two workers, a token the database
\* accepts is of the row's present attempt: a worker that was overtaken
\* cannot renew or settle on behalf of a later one.
THEOREM PostgresTokensFence == PgSpec => []FencedAttempts
  <1>1. PgInv => FencedAttempts
    BY DEF PgInv, CopiesCurrent, FencedAttempts, HoldsLease
  <1> QED BY <1>1, AlwaysPgInv, PTL

\* A running job is finished or sent back only by the holder of its
\* unexpired lease, or by the sweep once its last lease has run out.
THEOREM PostgresSettledByHolder == PgSpec => SettledByHolder
  <1>1. PgInv /\ [PgNext]_pgVars => [\A j \in Jobs : EndsRightly(j)]_pgVars
    BY PgStep
  <1>2. [\A j \in Jobs : EndsRightly(j)]_pgVars
          => [\A j \in Jobs :
                jobs[j].status = "running"
                /\ jobs'[j].status \in Finished \union {"retryable_failed"} =>
                  \/ \E w \in Workers :
                       ws[w].phase = "settling" /\ ws[w].job = j /\ HoldsLease(j, w, ws[w].left)
                  \/ OutOfAttempts(jobs[j]) /\ jobs'[j].status = "dead_letter"]_pgVars
    BY DEF EndsRightly
  <1> QED BY <1>1, <1>2, AlwaysPgInv, PTL DEF PgSpec, SettledByHolder
=============================================================================
