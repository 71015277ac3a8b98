---------------------------- MODULE CircuitProofs ----------------------------
(***************************************************************************)
(* DeadOnlyIfDisturbed for any number of workers and jobs.  The induction  *)
(* needs how much longer a circuit may be open than a waiting job has      *)
(* delays left: not at all.                                                *)
(***************************************************************************)
EXTENDS Circuit, TLAPS

\* The delays after the n-th attempt's own.
DelaysLeft(n) == <<28, 24, 16, 0, 0>>[n]

CallsRun ==
  /\ \A w \in Workers : calls[w] # NoCall =>
       /\ calls[w].job \in Jobs /\ calls[w].try >= 1
       /\ jobs[calls[w].job].status = "running" /\ jobs[calls[w].job].attempts >= 1
  /\ \A v, w \in Workers :
       v # w /\ calls[v] # NoCall /\ calls[w] # NoCall => calls[v].job # calls[w].job

CircuitsCloseInTime ==
  \A j \in Jobs \ disturbed :
    jobs[j].status = "pending" /\ jobs[j].attempts >= 1 =>
      \A w \in Workers : openFor[w] <= jobs[j].wait + DelaysLeft(jobs[j].attempts)

IInv == TypeOK /\ CallsRun /\ CircuitsCloseInTime /\ DeadOnlyIfDisturbed

\* Constants of the code, as numbers.
LEMMA Numbers ==
  /\ MaxAttempts = 5 /\ MaxTries = 3 /\ Threshold = 5 /\ OpenSeconds = 30 /\ LeaseSeconds = 60
BY DEF MaxAttempts, MaxTries, Threshold, OpenSeconds, LeaseSeconds

\* A delay and those after it are what was left before it.
LEMMA DelaysAddUp ==
  /\ \A n \in 1 .. 4 : RetryDelay(n) \in 0 .. 60
  /\ RetryDelay(1) + DelaysLeft(1) = 30
  /\ \A n \in 1 .. 3 : RetryDelay(n + 1) + DelaysLeft(n + 1) = DelaysLeft(n)
  /\ DelaysLeft(4) = 0
  /\ \A n \in 1 .. 5 : DelaysLeft(n) \in Nat
BY DEF RetryDelay, DelaysLeft

\* The fields of a job.
LEMMA JobFields ==
  ASSUME NEW job \in Job
  PROVE  job.attempts \in 0 .. 5 /\ job.wait \in 0 .. 60
BY DEF Job, MaxAttempts, LeaseSeconds

\* The rows of the jobs table, with the code's own numbers.
LEMMA JobRows ==
  Job = [status : {"pending", "running", "succeeded", "dead_letter"},
         attempts : 0 .. 5, wait : 0 .. 60]
BY DEF Job, MaxAttempts, LeaseSeconds

\* A job that is leased.
LEMMA LeasedRow ==
  ASSUME NEW job \in Job, job.attempts \in 0 .. 4
  PROVE  /\ Leased(job) \in Job /\ Leased(job).status = "running"
         /\ Leased(job).attempts = job.attempts + 1
<1>1. job.attempts + 1 \in 0 .. 5
  OBVIOUS
<1> QED
  BY <1>1, JobRows DEF Leased

\* A worker without a call has no job.
LEMMA NoCallType == NoCall \in Call /\ NoCall.job = NoJob
BY DEF NoCall, Call, MaxTries

\* The invariant holds initially.
LEMMA InitInv == Init => IInv
<1> SUFFICES ASSUME Init PROVE IInv
  OBVIOUS
<1>1. TypeOK
  BY NoCallType, Numbers DEF Init, TypeOK, Job
<1>2. CallsRun /\ CircuitsCloseInTime /\ DeadOnlyIfDisturbed
  BY DEF Init, CallsRun, CircuitsCloseInTime, DeadOnlyIfDisturbed
<1> QED
  BY <1>1, <1>2 DEF IInv

\* What fail() does to a row.
LEMMA FailedRow ==
  ASSUME NEW job \in Job, job.attempts >= 1
  PROVE  /\ Failed(job) \in Job
         /\ Failed(job).attempts = job.attempts
         /\ \/ job.attempts = 5 /\ Failed(job).status = "dead_letter"
            \/ /\ job.attempts \in 1 .. 4
               /\ Failed(job).status = "pending"
               /\ Failed(job).wait = RetryDelay(job.attempts)
<1>1. CASE job.attempts = 5
  BY <1>1, Numbers DEF Failed, Job
<1>2. CASE job.attempts \in 1 .. 4
  <2> DEFINE d == RetryDelay(job.attempts)
  <2>1. d \in 0 .. 60
    BY <1>2, DelaysAddUp
  <2>2. Failed(job) = [job EXCEPT !.status = "pending", !.wait = d]
    BY <1>2, Numbers DEF Failed, Job
  <2> HIDE DEF d
  <2>3. /\ [job EXCEPT !.status = "pending", !.wait = d] \in Job
        /\ [job EXCEPT !.status = "pending", !.wait = d].attempts = job.attempts
        /\ [job EXCEPT !.status = "pending", !.wait = d].status = "pending"
        /\ [job EXCEPT !.status = "pending", !.wait = d].wait = d
    BY <2>1, Numbers DEF Job
  <2> QED
    BY <1>2, <2>2, <2>3 DEF d
<1> QED
  BY <1>1, <1>2, Numbers DEF Job

\* A tick brings every instant nearer, by the same amount unless it is past.
LEMMA LessType == ASSUME NEW a \in Nat PROVE Less(a) \in 0 .. a
BY CircuitAssumptions DEF Less

\* Two times that pass together keep their order.
LEMMA LessIsMonotone ==
  ASSUME NEW a \in Nat, NEW b \in Nat, NEW c \in Nat, a <= b + c
  PROVE  Less(a) <= Less(b) + c
BY CircuitAssumptions DEF Less

\* The clock advances jobs and circuits alike.
LEMMA TickInv == IInv /\ Tick => IInv'
<1> SUFFICES ASSUME IInv, Tick PROVE IInv'
  OBVIOUS
<1> USE DEF IInv
<1>1. \A j \in Jobs : jobs[j] \in Job /\ jobs'[j] = [jobs[j] EXCEPT !.wait = Less(@)]
  BY DEF Tick, TypeOK
<1>2. \A j \in Jobs : /\ jobs'[j] \in Job
                      /\ jobs'[j].status = jobs[j].status
                      /\ jobs'[j].attempts = jobs[j].attempts
                      /\ jobs'[j].wait = Less(jobs[j].wait)
  <2> TAKE j \in Jobs
  <2>0. jobs[j] \in Job
    BY <1>1
  <2>1. jobs[j].wait \in 0 .. 60 /\ Less(jobs[j].wait) \in 0 .. jobs[j].wait
    BY <2>0, LessType, JobFields
  <2> DEFINE d == Less(jobs[j].wait)
  <2>2. jobs'[j] = [jobs[j] EXCEPT !.wait = d]
    BY <1>1
  <2>3. d \in 0 .. 60
    BY <2>1
  <2> HIDE DEF d
  <2>4. /\ jobs'[j] \in Job
        /\ jobs'[j].status = jobs[j].status
        /\ jobs'[j].attempts = jobs[j].attempts
        /\ jobs'[j].wait = d
    BY <1>1, <2>2, <2>3, Numbers DEF Job
  <2> QED
    BY <2>4 DEF d
<1>3. \A w \in Workers : openFor'[w] = Less(openFor[w]) /\ openFor'[w] \in 0 .. OpenSeconds
  <2> TAKE w \in Workers
  <2>1. openFor[w] \in 0 .. 30 /\ openFor'[w] = Less(openFor[w])
    BY Numbers DEF Tick, TypeOK
  <2>2. Less(openFor[w]) \in 0 .. openFor[w]
    BY <2>1, LessType
  <2> QED
    BY <2>1, <2>2, Numbers
<1>4. TypeOK'
  BY <1>2, <1>3 DEF Tick, TypeOK
<1>5. CallsRun'
  BY <1>2 DEF Tick, CallsRun
<1>6. CircuitsCloseInTime'
  <2> SUFFICES ASSUME NEW j \in Jobs \ disturbed, NEW w \in Workers,
                      jobs'[j].status = "pending", jobs'[j].attempts >= 1
               PROVE  openFor'[w] <= jobs'[j].wait + DelaysLeft(jobs'[j].attempts)
    BY DEF Tick, CircuitsCloseInTime
  <2>1. openFor[w] <= jobs[j].wait + DelaysLeft(jobs[j].attempts)
    BY <1>2 DEF CircuitsCloseInTime
  <2>2. jobs[j].wait \in Nat /\ jobs[j].attempts \in 1 .. 5 /\ openFor[w] \in Nat
    BY <1>1, <1>2, Numbers DEF Job, TypeOK
  <2>3. DelaysLeft(jobs[j].attempts) \in Nat
    BY <2>2, DelaysAddUp
  <2> QED
    BY <1>2, <1>3, <2>1, <2>2, <2>3, LessIsMonotone
<1>7. DeadOnlyIfDisturbed'
  BY <1>2 DEF Tick, DeadOnlyIfDisturbed
<1> QED
  BY <1>4, <1>5, <1>6, <1>7

\* Leasing a job whose circuit is closed.
LEMMA AskInv ==
  ASSUME IInv, NEW w \in Workers, NEW j \in Jobs, Ask(w, j)
  PROVE  IInv'
<1> USE DEF IInv
<1>1. /\ jobs[j] \in Job /\ jobs[j].status = "pending" /\ jobs[j].attempts \in 0 .. 4
      /\ calls[w] = NoCall
  BY Numbers DEF Ask, Leasable, TypeOK, Job
<1>2. /\ Leased(jobs[j]) \in Job /\ Leased(jobs[j]).status = "running"
      /\ Leased(jobs[j]).attempts >= 1
  BY <1>1, LeasedRow
<1>3. [job |-> j, try |-> 1] \in Call /\ [job |-> j, try |-> 1] # NoCall
  BY CircuitAssumptions, Numbers DEF Call, NoCall
<1>4. /\ jobs' = [jobs EXCEPT ![j] = Leased(jobs[j])]
      /\ calls' = [calls EXCEPT ![w] = [job |-> j, try |-> 1]]
      /\ UNCHANGED <<failures, openFor, disturbed>>
  BY DEF Ask
<1>5. TypeOK'
  BY <1>2, <1>3, <1>4 DEF TypeOK
<1>6. CallsRun'
  <2>1. \A v \in Workers : v # w /\ calls[v] # NoCall => calls[v].job # j
    BY <1>1 DEF CallsRun
  <2>2. calls \in [Workers -> Call] /\ jobs \in [Jobs -> Job]
    BY DEF TypeOK
  <2> QED
    BY <1>2, <1>4, <2>1, <2>2 DEF CallsRun
<1>7. CircuitsCloseInTime'
  BY <1>2, <1>4 DEF TypeOK, CircuitsCloseInTime
<1>8. DeadOnlyIfDisturbed'
  BY <1>2, <1>4 DEF TypeOK, DeadOnlyIfDisturbed
<1> QED
  BY <1>5, <1>6, <1>7, <1>8

\* An attempt used up by an open circuit is never the last of a job that no
\* failed call has disturbed.
LEMMA RejectInv ==
  ASSUME IInv, NEW w \in Workers, NEW j \in Jobs, Reject(w, j)
  PROVE  IInv'
<1> USE DEF IInv
<1> DEFINE leased == Leased(jobs[j])
           failed == Failed(leased)
<1>1. /\ jobs[j] \in Job /\ jobs[j].status = "pending" /\ jobs[j].wait = 0
      /\ jobs[j].attempts \in 0 .. 4 /\ openFor[w] \in 1 .. 30
  BY Numbers DEF Reject, Leasable, TypeOK, Job
<1>2. leased \in Job /\ leased.attempts = jobs[j].attempts + 1
  BY <1>1, LeasedRow
<1>3. leased.attempts >= 1
  BY <1>1, <1>2
<1> HIDE DEF leased
<1>4. /\ failed \in Job /\ failed.attempts = jobs[j].attempts + 1
      /\ \/ jobs[j].attempts = 4 /\ failed.status = "dead_letter"
         \/ /\ jobs[j].attempts \in 0 .. 3
            /\ failed.status = "pending" /\ failed.wait = RetryDelay(jobs[j].attempts + 1)
  BY <1>1, <1>2, <1>3, FailedRow
<1> HIDE DEF failed
<1>5. jobs' = [jobs EXCEPT ![j] = failed] /\ UNCHANGED <<calls, failures, openFor, disturbed>>
  BY DEF Reject, failed, leased
<1>6. TypeOK'
  BY <1>4, <1>5 DEF TypeOK
<1>7. CallsRun'
  BY <1>1, <1>5 DEF TypeOK, CallsRun
<1>8. CASE j \in disturbed
  BY <1>5, <1>6, <1>7, <1>8 DEF TypeOK, CircuitsCloseInTime, DeadOnlyIfDisturbed
<1>9. CASE j \notin disturbed
  <2>1. jobs[j].attempts >= 1 =>
          \A v \in Workers : openFor[v] <= 0 + DelaysLeft(jobs[j].attempts)
    BY <1>1, <1>9 DEF CircuitsCloseInTime
  <2>2. jobs[j].attempts # 4
    BY <1>1, <2>1, DelaysAddUp
  <2>3. jobs[j].attempts \in 0 .. 3 /\ failed.status = "pending"
    BY <1>4, <2>2
  <2>4. ASSUME NEW v \in Workers
        PROVE  openFor[v] <= failed.wait + DelaysLeft(failed.attempts)
    <3>1. CASE jobs[j].attempts = 0
      <4>1. openFor[v] <= 30
        BY Numbers DEF TypeOK
      <4> QED
        BY <1>4, <3>1, <4>1, DelaysAddUp
    <3>2. CASE jobs[j].attempts \in 1 .. 3
      <4>1. RetryDelay(jobs[j].attempts + 1) + DelaysLeft(jobs[j].attempts + 1)
              = DelaysLeft(jobs[j].attempts)
        BY <3>2, DelaysAddUp
      <4>2. openFor[v] <= DelaysLeft(jobs[j].attempts)
        BY <2>1, <3>2, DelaysAddUp DEF TypeOK
      <4> QED
        BY <1>4, <3>2, <4>1, <4>2
    <3> QED
      BY <2>3, <3>1, <3>2
  <2>5. CircuitsCloseInTime'
    BY <1>5, <2>4 DEF TypeOK, CircuitsCloseInTime
  <2>6. DeadOnlyIfDisturbed'
    BY <1>5, <2>3 DEF TypeOK, DeadOnlyIfDisturbed
  <2> QED
    BY <1>6, <1>7, <2>5, <2>6
<1> QED
  BY <1>8, <1>9

\* The job of a call and the call end together.
LEMMA EndJobInv ==
  ASSUME IInv, NEW w \in Workers, calls[w] # NoCall, NEW job \in Job, EndJob(w, job)
  PROVE  /\ jobs' \in [Jobs -> Job] /\ calls' \in [Workers -> Call]
         /\ CallsRun'
         /\ jobs'[calls[w].job] = job
         /\ \A i \in Jobs : i # calls[w].job => jobs'[i] = jobs[i]
<1> USE DEF IInv
<1>1. calls[w].job \in Jobs
  BY DEF CallsRun
<1>2. calls \in [Workers -> Call] /\ jobs \in [Jobs -> Job]
  BY DEF TypeOK
<1>3. /\ calls' = [calls EXCEPT ![w] = NoCall]
      /\ jobs' = [jobs EXCEPT ![calls[w].job] = job]
  BY DEF EndJob
<1>4. \A v \in Workers : v # w /\ calls[v] # NoCall => calls[v].job # calls[w].job
  BY DEF CallsRun
<1>5. CallsRun'
  BY <1>1, <1>2, <1>3, <1>4 DEF CallsRun
<1> QED
  BY <1>1, <1>2, <1>3, <1>5, NoCallType

\* The failure counters after a reset.
LEMMA FailuresReset ==
  ASSUME TypeOK, NEW w \in Workers
  PROVE  [failures EXCEPT ![w] = 0] \in [Workers -> 0 .. Threshold - 1]
BY DEF TypeOK, Threshold

\* A call that fails for good, and may open the circuit.
LEMMA GiveUpInv == ASSUME IInv, NEW w \in Workers, GiveUp(w) PROVE IInv'
<1> USE DEF IInv
<1> DEFINE j == calls[w].job
<1>0. /\ calls[w] # NoCall /\ j \in Jobs /\ jobs[j] \in Job
      /\ jobs[j].status = "running" /\ jobs[j].attempts >= 1
  BY DEF GiveUp, CallsRun, TypeOK
<1>1. j \in Begun
  BY <1>0, JobFields DEF Begun
<1>3. Failed(jobs[j]) \in Job /\ EndJob(w, Failed(jobs[j]))
  BY <1>0, FailedRow DEF GiveUp
<1>4. /\ jobs' \in [Jobs -> Job] /\ calls' \in [Workers -> Call] /\ CallsRun'
      /\ \A i \in Jobs : i # j => jobs'[i] = jobs[i]
  BY <1>0, <1>3, EndJobInv
<1>5. disturbed' = disturbed \union Begun /\ disturbed' \subseteq Jobs
  BY DEF GiveUp, TypeOK, Begun
<1>6. failures' \in [Workers -> 0 .. Threshold - 1] /\ openFor' \in [Workers -> 0 .. OpenSeconds]
  BY DEF GiveUp, CountFailure, TypeOK, Threshold, OpenSeconds
<1>7. TypeOK'
  BY <1>4, <1>5, <1>6 DEF TypeOK
<1>8. ASSUME NEW i \in Jobs \ disturbed'
      PROVE  /\ ~ (jobs'[i].status = "pending" /\ jobs'[i].attempts >= 1)
             /\ jobs'[i].status # "dead_letter"
  <2>1. i # j /\ i \notin Begun /\ i \notin disturbed /\ jobs'[i] = jobs[i]
    BY <1>0, <1>1, <1>4, <1>5
  <2>2. jobs[i].attempts \in 0 .. 5
    BY JobFields DEF TypeOK
  <2> QED
    BY <2>1, <2>2 DEF Begun, DeadOnlyIfDisturbed
<1>9. CircuitsCloseInTime' /\ DeadOnlyIfDisturbed'
  BY <1>8 DEF CircuitsCloseInTime, DeadOnlyIfDisturbed
<1> QED
  BY <1>4, <1>7, <1>9

\* The last call of a job is answered.
LEMMA AnswerLastInv == ASSUME IInv, NEW w \in Workers, AnswerLast(w) PROVE IInv'
<1> USE DEF IInv
<1> DEFINE j == calls[w].job
           job == [jobs[j] EXCEPT !.status = "succeeded"]
<1>1. calls[w] # NoCall /\ j \in Jobs /\ jobs[j] \in Job
  BY DEF AnswerLast, CallsRun, TypeOK
<1>2. job \in Job /\ job.status = "succeeded"
  BY <1>1 DEF Job
<1>3. EndJob(w, job)
  BY DEF AnswerLast
<1> HIDE DEF job
<1>4. /\ jobs' \in [Jobs -> Job] /\ calls' \in [Workers -> Call] /\ CallsRun'
      /\ jobs'[j] = job /\ \A i \in Jobs : i # j => jobs'[i] = jobs[i]
  BY <1>1, <1>2, <1>3, EndJobInv
<1>5. TypeOK'
  BY <1>4, FailuresReset DEF AnswerLast, TypeOK
<1>6. CircuitsCloseInTime' /\ DeadOnlyIfDisturbed'
  BY <1>1, <1>2, <1>4 DEF AnswerLast, CircuitsCloseInTime, DeadOnlyIfDisturbed
<1> QED
  BY <1>4, <1>5, <1>6

\* A job that fails for another reason.
LEMMA FailOtherwiseInv == ASSUME IInv, NEW w \in Workers, FailOtherwise(w) PROVE IInv'
<1> USE DEF IInv
<1> DEFINE j == calls[w].job
<1>1. calls[w] # NoCall /\ j \in Jobs /\ jobs[j] \in Job /\ jobs[j].attempts >= 1
  BY DEF FailOtherwise, CallsRun, TypeOK
<1>2. Failed(jobs[j]) \in Job /\ EndJob(w, Failed(jobs[j]))
  BY <1>1, FailedRow DEF FailOtherwise
<1>3. /\ jobs' \in [Jobs -> Job] /\ calls' \in [Workers -> Call] /\ CallsRun'
      /\ \A i \in Jobs : i # j => jobs'[i] = jobs[i]
  BY <1>1, <1>2, EndJobInv
<1>4. j \in disturbed' /\ disturbed \subseteq disturbed' /\ disturbed' \subseteq Jobs
  BY <1>1 DEF FailOtherwise, TypeOK
<1>5. TypeOK'
  BY <1>3, <1>4, FailuresReset DEF FailOtherwise, TypeOK
<1>6. CircuitsCloseInTime' /\ DeadOnlyIfDisturbed'
  BY <1>3, <1>4 DEF FailOtherwise, CircuitsCloseInTime, DeadOnlyIfDisturbed
<1> QED
  BY <1>3, <1>5, <1>6

\* A call that is tried again, or answered and followed by another.
LEMMA GoOnInv ==
  ASSUME IInv, NEW w \in Workers, Retry(w) \/ AnswerAndCallAgain(w) PROVE IInv'
<1> USE DEF IInv
<1>1. calls[w] \in Call /\ calls[w] # NoCall /\ calls[w].job \in Jobs /\ calls[w].try \in 1 .. 3
  BY DEF Retry, AnswerAndCallAgain, TypeOK, Call, CallsRun, MaxTries
<1>2. \E n \in 1 .. 3 : calls' = [calls EXCEPT ![w].try = n]
  BY <1>1 DEF Retry, AnswerAndCallAgain, MaxTries
<1>3. PICK m \in 1 .. 3 : calls' = [calls EXCEPT ![w].try = m]
  BY <1>2
<1>4. /\ calls' \in [Workers -> Call] /\ calls'[w].job = calls[w].job /\ calls'[w].try >= 1
      /\ \A v \in Workers : v # w => calls'[v] = calls[v]
  BY <1>1, <1>3 DEF TypeOK, Call, MaxTries
<1>5. jobs' = jobs /\ openFor' = openFor /\ disturbed' = disturbed
      /\ failures' \in [Workers -> 0 .. Threshold - 1]
  BY Numbers DEF Retry, AnswerAndCallAgain, TypeOK
<1>6. TypeOK'
  BY <1>4, <1>5 DEF TypeOK
<1>7. CallsRun'
  BY <1>1, <1>4, <1>5 DEF CallsRun
<1>8. CircuitsCloseInTime' /\ DeadOnlyIfDisturbed'
  BY <1>5 DEF CircuitsCloseInTime, DeadOnlyIfDisturbed
<1> QED
  BY <1>6, <1>7, <1>8

\* A worker that dies forgets its circuit.
LEMMA CrashInv == ASSUME IInv, NEW w \in Workers, Crash(w) PROVE IInv'
<1> USE DEF IInv
<1>1. /\ openFor' \in [Workers -> 0 .. 30]
      /\ \A v \in Workers : openFor'[v] <= openFor[v] /\ openFor'[v] <= 30
  BY DEF Crash, TypeOK, OpenSeconds
<1>2. failures' \in [Workers -> 0 .. Threshold - 1] /\ calls' = [calls EXCEPT ![w] = NoCall]
  BY FailuresReset DEF Crash
<1>3. CASE calls[w] = NoCall
  <2>1. jobs' = jobs /\ disturbed' = disturbed /\ calls' = calls
    BY <1>2, <1>3 DEF Crash, TypeOK
  <2>2. TypeOK' /\ CallsRun' /\ DeadOnlyIfDisturbed'
    BY <1>1, <1>2, <2>1, Numbers DEF TypeOK, CallsRun, DeadOnlyIfDisturbed
  <2>3. CircuitsCloseInTime'
    <3> SUFFICES ASSUME NEW j \in Jobs \ disturbed, NEW v \in Workers,
                        jobs[j].status = "pending", jobs[j].attempts >= 1
                 PROVE  openFor'[v] <= jobs[j].wait + DelaysLeft(jobs[j].attempts)
      BY <2>1 DEF CircuitsCloseInTime
    <3>1. openFor[v] <= jobs[j].wait + DelaysLeft(jobs[j].attempts)
      BY DEF CircuitsCloseInTime
    <3>2. jobs[j] \in Job /\ openFor[v] \in Nat
      BY Numbers DEF TypeOK
    <3>3. jobs[j].wait \in Nat /\ jobs[j].attempts \in 1 .. 5
      BY <3>2, JobFields
    <3>4. DelaysLeft(jobs[j].attempts) \in Nat
      BY <3>3, DelaysAddUp
    <3> QED
      BY <1>1, <3>1, <3>2, <3>3, <3>4
  <2> QED
    BY <2>2, <2>3
<1>4. CASE calls[w] # NoCall
  <2> DEFINE j == calls[w].job
             back == [status |-> "pending", attempts |-> jobs[j].attempts, wait |-> LeaseSeconds]
             dead == [jobs[j] EXCEPT !.status = "dead_letter"]
  <2>1. j \in Jobs /\ jobs[j] \in Job /\ jobs[j].attempts >= 1
    BY <1>4 DEF CallsRun, TypeOK
  <2>2. /\ back \in Job /\ back.wait = 60 /\ back.attempts = jobs[j].attempts
        /\ dead \in Job /\ dead.status = "dead_letter"
    <3>1. back = [status |-> "pending", attempts |-> jobs[j].attempts, wait |-> 60]
      BY DEF LeaseSeconds
    <3>2. jobs[j].attempts \in 0 .. 5 /\ jobs[j].wait \in 0 .. 60
      BY <2>1, JobFields
    <3>3. [status |-> "pending", attempts |-> jobs[j].attempts, wait |-> 60] \in Job
      BY <3>2, JobRows
    <3>4. dead = [status |-> "dead_letter", attempts |-> jobs[j].attempts, wait |-> jobs[j].wait]
      BY <2>1 DEF Job
    <3>5. dead \in Job
      BY <3>2, <3>4, JobRows
    <3> QED
      BY <3>1, <3>3, <3>4, <3>5
  <2>3. \/ jobs' = [jobs EXCEPT ![j] = back] /\ disturbed' = disturbed
        \/ jobs' = [jobs EXCEPT ![j] = dead] /\ disturbed' = disturbed \union {j}
    BY <1>4, <2>1 DEF Crash, TypeOK
  <2> HIDE DEF back, dead
  <2>4. \E job \in Job : EndJob(w, job)
    BY <1>2, <2>2, <2>3 DEF EndJob
  <2>5. /\ jobs' \in [Jobs -> Job] /\ calls' \in [Workers -> Call] /\ CallsRun'
        /\ \A i \in Jobs : i # j => jobs'[i] = jobs[i]
    BY <1>4, <2>4, EndJobInv
  <2>6. TypeOK'
    BY <1>1, <1>2, <2>1, <2>3, <2>5, Numbers DEF TypeOK
  <2>7. ASSUME NEW i \in Jobs \ disturbed', NEW v \in Workers,
               jobs'[i].status = "pending", jobs'[i].attempts >= 1
        PROVE  openFor'[v] <= jobs'[i].wait + DelaysLeft(jobs'[i].attempts)
    <3>1. jobs'[i].wait \in Nat /\ jobs'[i].attempts \in 1 .. 5
      BY <2>5, <2>7, JobFields
    <3>2. DelaysLeft(jobs'[i].attempts) \in Nat
      BY <3>1, DelaysAddUp
    <3>3. CASE i = j
      <4>1. jobs'[j].wait = 60
        BY <2>1, <2>2, <2>3, <2>7, <3>3 DEF TypeOK
      <4> QED
        BY <1>1, <3>2, <3>3, <4>1
    <3>4. CASE i # j
      <4>1. jobs'[i] = jobs[i] /\ i \notin disturbed
        BY <2>3, <2>5, <3>4
      <4>2. openFor[v] <= jobs[i].wait + DelaysLeft(jobs[i].attempts) /\ openFor[v] \in Nat
        BY <2>7, <4>1, Numbers DEF CircuitsCloseInTime, TypeOK
      <4> QED
        BY <1>1, <3>1, <3>2, <4>1, <4>2
    <3> QED
      BY <3>3, <3>4
  <2>8. CircuitsCloseInTime'
    BY <2>7 DEF CircuitsCloseInTime
  <2>9. DeadOnlyIfDisturbed'
    <3> SUFFICES ASSUME NEW i \in Jobs, jobs'[i].status = "dead_letter"
                 PROVE  i \in disturbed'
      BY DEF DeadOnlyIfDisturbed
    <3>1. CASE i = j
      <4>1. back.status = "pending"
        BY <2>1 DEF back, Job
      <4> QED
        BY <2>1, <2>3, <3>1, <4>1 DEF TypeOK
    <3>2. CASE i # j
      BY <2>3, <2>5, <3>2 DEF DeadOnlyIfDisturbed
    <3> QED
      BY <3>1, <3>2
  <2> QED
    BY <2>5, <2>6, <2>8, <2>9
<1> QED
  BY <1>3, <1>4

\* Every step keeps the invariant.
LEMMA StepInv == IInv /\ [Next]_vars => IInv'
<1> SUFFICES ASSUME IInv, [Next]_vars PROVE IInv'
  OBVIOUS
<1>1. CASE Tick
  BY <1>1, TickInv
<1>2. CASE \E w \in Workers, j \in Jobs : Ask(w, j) \/ Reject(w, j)
  BY <1>2, AskInv, RejectInv
<1>3. CASE \E w \in Workers : Retry(w) \/ AnswerAndCallAgain(w)
  BY <1>3, GoOnInv
<1>4. CASE \E w \in Workers : GiveUp(w) \/ AnswerLast(w) \/ FailOtherwise(w) \/ Crash(w)
  BY <1>4, GiveUpInv, AnswerLastInv, FailOtherwiseInv, CrashInv
<1>5. CASE UNCHANGED vars
  BY <1>5 DEF IInv, TypeOK, CallsRun, CircuitsCloseInTime, DeadOnlyIfDisturbed, vars
<1> QED
  BY <1>1, <1>2, <1>3, <1>4, <1>5 DEF Next

\* Whatever the number of workers and jobs, the counter of failed calls stays
\* below the threshold and a circuit is open for 30 seconds at most
\* (ProviderHttpClient.fetch).
THEOREM CircuitTypes == Spec => []TypeOK
<1>1. IInv => TypeOK
  BY DEF IInv
<1> QED
  BY <1>1, InitInv, StepInv, PTL DEF Spec

\* Whatever the number of workers and jobs, no job is dead-lettered by
\* circuits alone: the delays of fail() outlast the open circuit of
\* ProviderHttpClient.fetch.
THEOREM CircuitsDoNotKill == Spec => []DeadOnlyIfDisturbed
<1>1. IInv => DeadOnlyIfDisturbed
  BY DEF IInv
<1> QED
  BY <1>1, InitInv, StepInv, PTL DEF Spec
=============================================================================
