------------------------------- MODULE Circuit -------------------------------
(***************************************************************************)
(* ProviderHttpClient's retries and circuit breaker under the back-off of  *)
(* the jobs whose calls go through them.                                   *)
(*                                                                         *)
(* Every worker process has one client for each provider; the model is of  *)
(* one provider.  A worker runs one job at a time and a job makes one call *)
(* after the other, so a client has at most one call under way.  A call    *)
(* may fail at any time: the provider is unavailable, does not answer      *)
(* within the timeout, or answers with too much.                           *)
(*                                                                         *)
(* Instants (available_at, circuitOpenUntil) are kept as the seconds left  *)
(* until them.  Workers and database have one clock.                       *)
(***************************************************************************)
EXTENDS Integers

CONSTANTS
  Workers,
  Jobs,
  NoJob,
  Grain          \* seconds of a tick; every delay of the code is a multiple of 2

ASSUME CircuitAssumptions == NoJob \notin Jobs /\ Grain \in Nat \ {0}

VARIABLES
  jobs,          \* status, attempt_count and seconds until available_at
  calls,         \* the job a worker runs and which try its call is at
  failures,      \* failed calls since the last answered one, by worker
  openFor,       \* seconds until circuitOpenUntil, by worker
  disturbed      \* jobs since whose first attempt a call has failed (no variable
                 \* of the program)

vars == <<jobs, calls, failures, openFor, disturbed>>

MaxAttempts == 5
MaxTries == 3
Threshold == 5
OpenSeconds == 30
LeaseSeconds == 60

\* Mutant: the first retry waits one second, the next two ...
RetryDelayFromOne(n) == <<1, 2, 4, 8, 16>>[n]

\* min(900, 2^min(n, 9)) for the attempts a job has
RetryDelay(n) == <<2, 4, 8, 16, 32>>[n]

Job == [status : {"pending", "running", "succeeded", "dead_letter"},
        attempts : 0 .. MaxAttempts, wait : 0 .. LeaseSeconds]

Call == [job : Jobs \union {NoJob}, try : 0 .. MaxTries]

NoCall == [job |-> NoJob, try |-> 0]

Init ==
  /\ jobs = [j \in Jobs |-> [status |-> "pending", attempts |-> 0, wait |-> 0]]
  /\ calls = [w \in Workers |-> NoCall]
  /\ failures = [w \in Workers |-> 0]
  /\ openFor = [w \in Workers |-> 0]
  /\ disturbed = {}

Less(seconds) == IF seconds < Grain THEN 0 ELSE seconds - Grain

Tick ==
  /\ jobs' = [j \in Jobs |-> [jobs[j] EXCEPT !.wait = Less(@)]]
  /\ openFor' = [w \in Workers |-> Less(openFor[w])]
  /\ UNCHANGED <<calls, failures, disturbed>>

\* Jobs that have begun and not ended
Begun == {j \in Jobs : jobs[j].attempts > 0 /\ jobs[j].status \in {"pending", "running"}}

-----------------------------------------------------------------------------
(* The job of a call *)

\* fail(): back-off, or the dead letter after the last attempt
Failed(job) ==
  IF job.attempts >= MaxAttempts THEN [job EXCEPT !.status = "dead_letter"]
  ELSE [job EXCEPT !.status = "pending", !.wait = RetryDelay(job.attempts)]

Leased(job) == [status |-> "running", attempts |-> job.attempts + 1, wait |-> 0]

Leasable(w, j) ==
  /\ calls[w] = NoCall
  /\ jobs[j].status = "pending" /\ jobs[j].wait = 0 /\ jobs[j].attempts < MaxAttempts

\* The circuit is closed: the request is sent.
Ask(w, j) ==
  /\ Leasable(w, j) /\ openFor[w] = 0
  /\ jobs' = [jobs EXCEPT ![j] = Leased(@)]
  /\ calls' = [calls EXCEPT ![w] = [job |-> j, try |-> 1]]
  /\ UNCHANGED <<failures, openFor, disturbed>>

\* "Provider circuit is open": the attempt is used up at once.
Reject(w, j) ==
  /\ Leasable(w, j) /\ openFor[w] > 0
  /\ jobs' = [jobs EXCEPT ![j] = Failed(Leased(@))]
  /\ UNCHANGED <<calls, failures, openFor, disturbed>>

-----------------------------------------------------------------------------
(* A call under way *)

\* 429, 5xx, no connection or the timeout: after a pause, another try
Retry(w) ==
  /\ calls[w] # NoCall /\ calls[w].try < MaxTries
  /\ calls' = [calls EXCEPT ![w].try = @ + 1]
  /\ UNCHANGED <<jobs, failures, openFor, disturbed>>

\* Mutant: one failure too many is counted before the circuit opens.
CountFailureLate(w) ==
  IF failures[w] >= Threshold
  THEN /\ openFor' = [openFor EXCEPT ![w] = OpenSeconds]
       /\ failures' = [failures EXCEPT ![w] = 0]
  ELSE /\ failures' = [failures EXCEPT ![w] = @ + 1]
       /\ UNCHANGED openFor

\* The fifth failed call in a row opens the circuit.
CountFailure(w) ==
  IF failures[w] + 1 >= Threshold
  THEN /\ openFor' = [openFor EXCEPT ![w] = OpenSeconds]
       /\ failures' = [failures EXCEPT ![w] = 0]
  ELSE /\ failures' = [failures EXCEPT ![w] = @ + 1]
       /\ UNCHANGED openFor

EndJob(w, job) ==
  /\ jobs' = [jobs EXCEPT ![calls[w].job] = job]
  /\ calls' = [calls EXCEPT ![w] = NoCall]

\* The last try fails, or an answer is too large, which is not tried again.
GiveUp(w) ==
  /\ calls[w] # NoCall
  /\ CountFailure(w)
  /\ EndJob(w, Failed(jobs[calls[w].job]))
  /\ disturbed' = disturbed \union Begun

\* Any other status is an answer; the job goes on to its next call ...
AnswerAndCallAgain(w) ==
  /\ calls[w] # NoCall
  /\ failures' = [failures EXCEPT ![w] = 0]
  /\ calls' = [calls EXCEPT ![w].try = 1]
  /\ UNCHANGED <<jobs, openFor, disturbed>>

\* ... or has made its last one.
AnswerLast(w) ==
  /\ calls[w] # NoCall
  /\ failures' = [failures EXCEPT ![w] = 0]
  /\ EndJob(w, [jobs[calls[w].job] EXCEPT !.status = "succeeded"])
  /\ UNCHANGED <<openFor, disturbed>>

\* The job fails although its calls are answered: a 401, a failed ingest().
FailOtherwise(w) ==
  /\ calls[w] # NoCall
  /\ failures' = [failures EXCEPT ![w] = 0]
  /\ EndJob(w, Failed(jobs[calls[w].job]))
  /\ disturbed' = disturbed \union {calls[w].job}
  /\ UNCHANGED openFor

\* The process dies and another takes its place.  Its job is leased again
\* when the lease has run out, unless that was its last attempt.
Crash(w) ==
  /\ failures' = [failures EXCEPT ![w] = 0]
  /\ openFor' = [openFor EXCEPT ![w] = 0]
  /\ calls' = [calls EXCEPT ![w] = NoCall]
  /\ IF calls[w] = NoCall THEN UNCHANGED <<jobs, disturbed>>
     ELSE LET j == calls[w].job IN
          IF jobs[j].attempts < MaxAttempts
          THEN /\ jobs' = [jobs EXCEPT ![j] = [status |-> "pending", attempts |-> @.attempts,
                                               wait |-> LeaseSeconds]]
               /\ UNCHANGED disturbed
          ELSE /\ jobs' = [jobs EXCEPT ![j].status = "dead_letter"]
               /\ disturbed' = disturbed \union {j}

-----------------------------------------------------------------------------

Next ==
  \/ Tick
  \/ \E w \in Workers, j \in Jobs : Ask(w, j) \/ Reject(w, j)
  \/ \E w \in Workers :
       \/ Retry(w) \/ GiveUp(w) \/ AnswerAndCallAgain(w) \/ AnswerLast(w)
       \/ FailOtherwise(w) \/ Crash(w)

Spec == Init /\ [][Next]_vars

-----------------------------------------------------------------------------
(* Properties *)

\* The counter stays below the threshold that resets it, and a circuit is
\* open for 30 seconds at most.
TypeOK ==
  /\ jobs \in [Jobs -> Job] /\ calls \in [Workers -> Call]
  /\ failures \in [Workers -> 0 .. Threshold - 1]
  /\ openFor \in [Workers -> 0 .. OpenSeconds]
  /\ disturbed \subseteq Jobs

\* A circuit left open by an earlier outage rejects attempt after attempt of
\* a job at once, whichever worker leases it, but never all of them: a job
\* whose first attempt began after the last failed call of the provider is
\* not dead-lettered.  The four delays add up to the 30 seconds of the
\* circuit and not to a second more.
DeadOnlyIfDisturbed ==
  \A j \in Jobs : jobs[j].status = "dead_letter" => j \in disturbed
=============================================================================
