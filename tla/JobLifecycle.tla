---------------------------- MODULE JobLifecycle ----------------------------
(***************************************************************************)
(* What the job queue promises about ONE row of the jobs table, without    *)
(* clocks, tenants, priorities or heartbeats: a job is attempted at most   *)
(* MaxAttempts times, each attempt belongs to one holder, and a job that   *)
(* has succeeded or was dead-lettered never runs again.                    *)
(* Worker.tla is shown to implement this module for every row.             *)
(***************************************************************************)
EXTENDS Integers

CONSTANTS Workers, NoWorker, MaxAttempts

VARIABLES status, attempts, holder

vars == <<status, attempts, holder>>

Init == status = "absent" /\ attempts = 0 /\ holder = NoWorker

\* A new job, or a cancelled one revived with a fresh attempt budget.
Enqueue ==
  /\ status \in {"absent", "cancelled"}
  /\ status' = "queued" /\ attempts' = 0 /\ holder' = NoWorker

\* Connector revocation cancels what has not started.
Cancel ==
  /\ status \in {"queued", "retryable_failed"}
  /\ status' = "cancelled" /\ UNCHANGED <<attempts, holder>>

\* One more attempt, by w: of a waiting job, or of one whose holder let its
\* lease run out.
Attempt(w) ==
  /\ status \in {"queued", "retryable_failed", "running"}
  /\ attempts < MaxAttempts
  /\ status' = "running" /\ attempts' = attempts + 1 /\ holder' = w

\* The holder reports success.
Succeed ==
  /\ status = "running"
  /\ status' = "succeeded" /\ holder' = NoWorker /\ UNCHANGED attempts

\* The holder reports failure and attempts remain.
Retry ==
  /\ status = "running" /\ attempts < MaxAttempts
  /\ status' = "retryable_failed" /\ holder' = NoWorker /\ UNCHANGED attempts

\* The last attempt failed, or its lease ran out.
GiveUp ==
  /\ status = "running" /\ attempts = MaxAttempts
  /\ status' = "dead_letter" /\ holder' = NoWorker /\ UNCHANGED attempts

\* Account erasure deletes the row whatever its status.
Delete ==
  /\ status # "absent"
  /\ status' = "absent" /\ attempts' = 0 /\ holder' = NoWorker

Next ==
  \/ Enqueue \/ Cancel \/ Succeed \/ Retry \/ GiveUp \/ Delete
  \/ \E w \in Workers : Attempt(w)

Spec == Init /\ [][Next]_vars
=============================================================================
