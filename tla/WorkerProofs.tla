---------------------------- MODULE WorkerProofs ----------------------------
(***************************************************************************)
(* Proofs about Worker for any number of jobs, workers, tenants and users, *)
(* any attempt budget, lease and back-off, and clocks that may disagree.   *)
(***************************************************************************)
EXTENDS Worker, TLAPS

-----------------------------------------------------------------------------
(* What the operations on a row and on a process return *)

\* Durations and budgets are natural numbers.
LEMMA Bounds == LeaseSeconds \in Nat \ {0} /\ MaxAttempts \in Nat \ {0}
  BY QueueAssumptions

\* A settled row is a row.
LEMMA SettledRow ==
  ASSUME NEW j \in Jobs, NEW row \in Row, row.attempts \in 1 .. MaxAttempts, NEW failed \in BOOLEAN
  PROVE  Settled(j, row, failed) \in Row
  <1> USE Bounds DEF Row, Expired, Statuses, Pending, Terminal, Finished, Released
  <1>1. Succeeded(j, row) \in Row /\ DeadLettered(j, row) \in Row
    BY DEF Succeeded, DeadLettered, Redacts
  <1>2. RetryLater(row) \in Row
    <2>1. RetryDelay(row.attempts) \in Nat
      BY QueueAssumptions
    <2> QED BY <2>1 DEF RetryLater
  <1> QED BY <1>1, <1>2 DEF Settled, Failed

\* The row erasure leaves behind.
LEMMA AbsentRow == Absent \in Row
  BY Bounds DEF Absent, Row, Expired, Statuses, Pending, Terminal, Finished

\* The row enqueue writes.
LEMMA QueuedRow ==
  ASSUME NEW d \in Nat
  PROVE  Queued(d) \in Row
  BY QueueAssumptions DEF Queued, Row, Expired, Statuses, Pending, Terminal, Finished

\* A process with one field replaced.
LEMMA SetPhase ==
  ASSUME NEW p \in Process, NEW x \in Phases
  PROVE  LET q == [p EXCEPT !.phase = x] IN
         /\ q \in Process
         /\ q.phase = x /\ q.job = p.job /\ q.attempts = p.attempts /\ q.left = p.left
         /\ q.lost = p.lost /\ q.renewal = p.renewal /\ q.reply = p.reply
  BY DEF Process

\* The same for the renewal under way,
LEMMA SetRenewal ==
  ASSUME NEW p \in Process, NEW x \in Renewals
  PROVE  LET q == [p EXCEPT !.renewal = x] IN
         /\ q \in Process
         /\ q.phase = p.phase /\ q.job = p.job /\ q.attempts = p.attempts /\ q.left = p.left
         /\ q.lost = p.lost /\ q.renewal = x /\ q.reply = p.reply
  BY DEF Process

\* for the deadline the process knows,
LEMMA SetLeft ==
  ASSUME NEW p \in Process, NEW x \in Expired .. LeaseSeconds
  PROVE  LET q == [p EXCEPT !.left = x] IN
         /\ q \in Process
         /\ q.phase = p.phase /\ q.job = p.job /\ q.attempts = p.attempts /\ q.left = x
         /\ q.lost = p.lost /\ q.renewal = p.renewal /\ q.reply = p.reply
  BY DEF Process

\* for the deadline in an answer,
LEMMA SetReply ==
  ASSUME NEW p \in Process, NEW x \in Expired .. LeaseSeconds
  PROVE  LET q == [p EXCEPT !.reply = x] IN
         /\ q \in Process
         /\ q.phase = p.phase /\ q.job = p.job /\ q.attempts = p.attempts /\ q.left = p.left
         /\ q.lost = p.lost /\ q.renewal = p.renewal /\ q.reply = x
  BY DEF Process

\* and for the loss of the lease.
LEMMA SetLost ==
  ASSUME NEW p \in Process, NEW x \in BOOLEAN
  PROVE  LET q == [p EXCEPT !.lost = x] IN
         /\ q \in Process
         /\ q.phase = p.phase /\ q.job = p.job /\ q.attempts = p.attempts /\ q.left = p.left
         /\ q.lost = x /\ q.renewal = p.renewal /\ q.reply = p.reply
  BY DEF Process

\* Idle and dead processes have no job and no renewal.
LEMMA Resting ==
  /\ Idle \in Process /\ Idle.phase \notin Busy /\ Idle.renewal = "none"
  /\ Dead \in Process /\ Dead.phase \notin Busy /\ Dead.renewal = "none"
  BY Bounds DEF Idle, Dead, InPhase, Busy, Process, Phases, Renewals, Expired

\* Whatever the worker's clock says of its lease, it says yes or no.
LEMMA ReadingsBoolean ==
  ASSUME NEW p
  PROVE  /\ LocalReadings(p.left <= 0) \subseteq BOOLEAN
         /\ LocalReadings(p.left <= StopMargin) \subseteq BOOLEAN
  BY DEF LocalReadings

\* The answer of a renewal changes nothing but the renewal.
LEMMA AnsweredFields ==
  ASSUME NEW p \in Process, NEW r \in Renewals, NEW l \in Expired .. LeaseSeconds
  PROVE  LET q == Answered(p, r, l) IN
         /\ q \in Process
         /\ q.phase = p.phase /\ q.job = p.job /\ q.attempts = p.attempts
         /\ q.left = p.left /\ q.lost = p.lost
         /\ q.renewal = r /\ q.reply = l
  <1> DEFINE q == [p EXCEPT !.renewal = r]
  <1>1. /\ q \in Process /\ q.phase = p.phase /\ q.job = p.job /\ q.attempts = p.attempts
        /\ q.left = p.left /\ q.lost = p.lost /\ q.renewal = r
    BY SetRenewal
  <1>2. Answered(p, r, l) = [q EXCEPT !.reply = l]
    BY DEF Answered
  <1> HIDE DEF q
  <1> QED BY <1>1, <1>2, SetReply

\* After its answer a renewal is over; the lease is the one granted, if any.
LEMMA AfterRenewalFields ==
  ASSUME NEW p \in Process, NEW b \in BOOLEAN
  PROVE  LET q == AfterRenewal(p, b) IN
         /\ q \in Process
         /\ q.phase = p.phase /\ q.job = p.job /\ q.attempts = p.attempts
         /\ q.left = IF p.renewal = "granted" THEN p.reply ELSE p.left
         /\ p.lost => q.lost
         /\ q.renewal = "none" /\ q.reply = Expired
  <1> DEFINE l == IF p.renewal = "granted" THEN p.reply ELSE p.left
             o == p.lost \/ p.renewal = "refused" \/ (p.renewal = "failed" /\ b)
             q1 == [p EXCEPT !.renewal = "none"]
             q2 == [q1 EXCEPT !.left = l]
             q3 == [q2 EXCEPT !.reply = Expired]
             q4 == [q3 EXCEPT !.lost = o]
  <1>1. "none" \in Renewals /\ l \in Expired .. LeaseSeconds /\ o \in BOOLEAN
        /\ Expired \in Expired .. LeaseSeconds /\ (p.lost => o)
    BY Bounds DEF Process, Renewals, Expired
  <1>2. AfterRenewal(p, b) = q4
    BY DEF AfterRenewal
  <1> HIDE DEF l, o
  <1>3. /\ q1 \in Process /\ q1.renewal = "none"
        /\ q1.phase = p.phase /\ q1.job = p.job /\ q1.attempts = p.attempts
    BY <1>1, SetRenewal
  <1> HIDE DEF q1
  <1>4. /\ q2 \in Process /\ q2.renewal = "none" /\ q2.left = l
        /\ q2.phase = p.phase /\ q2.job = p.job /\ q2.attempts = p.attempts
    BY <1>1, <1>3, SetLeft
  <1> HIDE DEF q2
  <1>5. /\ q3 \in Process /\ q3.renewal = "none" /\ q3.left = l /\ q3.reply = Expired
        /\ q3.phase = p.phase /\ q3.job = p.job /\ q3.attempts = p.attempts
    BY <1>1, <1>4, SetReply
  <1> HIDE DEF q3
  <1>6. /\ q4 \in Process /\ q4.renewal = "none" /\ q4.left = l /\ q4.reply = Expired
        /\ q4.phase = p.phase /\ q4.job = p.job /\ q4.attempts = p.attempts /\ q4.lost = o
    BY <1>1, <1>5, SetLost
  <1> QED BY <1>1, <1>2, <1>6 DEF l

\* A tick changes the times of a process and nothing else.
LEMMA OlderProcessFields ==
  ASSUME NEW p \in Process
  PROVE  LET q == OlderProcess(p) IN
         /\ q \in Process
         /\ q.phase = p.phase /\ q.job = p.job /\ q.attempts = p.attempts
         /\ q.lost = p.lost /\ q.renewal = p.renewal
         /\ q.left = Sooner(p.left, Expired) /\ q.reply = Sooner(p.reply, Expired)
  <1> DEFINE l == Sooner(p.left, Expired)
             y == Sooner(p.reply, Expired)
             q == [p EXCEPT !.left = l]
  <1>1. l \in Expired .. LeaseSeconds /\ y \in Expired .. LeaseSeconds
    BY Bounds DEF Process, Expired, Sooner
  <1>2. OlderProcess(p) = [q EXCEPT !.reply = y]
    BY DEF OlderProcess
  <1> HIDE DEF l, y
  <1>3. /\ q \in Process /\ q.phase = p.phase /\ q.job = p.job /\ q.attempts = p.attempts
        /\ q.lost = p.lost /\ q.renewal = p.renewal /\ q.left = l /\ q.reply = p.reply
    BY <1>1, SetLeft
  <1> HIDE DEF q
  <1> QED BY <1>1, <1>2, <1>3, SetReply DEF l, y

\* A tick changes the times of a row and nothing else.
LEMMA AgedFields ==
  ASSUME NEW row \in Row
  PROVE  LET r == Aged(row) IN
         /\ r \in Row
         /\ r.status = row.status /\ r.attempts = row.attempts
         /\ r.leasedBy = row.leasedBy /\ r.redacted = row.redacted
         /\ r.left = Sooner(row.left, Expired)
  <1> DEFINE sooner == [row EXCEPT !.wait = Sooner(row.wait, 0)]
  <1>1. Sooner(row.wait, 0) \in Nat /\ Sooner(row.left, Expired) \in Expired .. LeaseSeconds
    BY Bounds DEF Sooner, Row, Expired
  <1>2. /\ sooner \in Row /\ sooner.left = row.left
        /\ sooner.status = row.status /\ sooner.attempts = row.attempts
        /\ sooner.leasedBy = row.leasedBy /\ sooner.redacted = row.redacted
    BY <1>1 DEF Row
  <1>3. Aged(row) = [sooner EXCEPT !.left = Sooner(row.left, Expired)]
    BY DEF Aged
  <1> HIDE DEF sooner
  <1> QED BY <1>1, <1>2, <1>3 DEF Row

-----------------------------------------------------------------------------
(* Steps of one worker that leave the table alone, steps of the table that *)
(* leave the workers alone                                                 *)

\* A worker that only moves on with the job it has, and claims no lease that
\* it did not already count on or was granted, keeps the invariant.
LEMMA ProcessStep ==
  ASSUME IndInv, NEW w \in Workers, NEW q \in Process,
         ws' = [ws EXCEPT ![w] = q], UNCHANGED queueVars,
         q.renewal # "none" => q.phase \in Busy,
         q.phase \in Busy =>
           /\ ws[w].phase \in Busy
           /\ q.job = ws[w].job /\ q.attempts = ws[w].attempts
           /\ ~q.lost /\ q.left > 0 =>
                \/ ~ws[w].lost /\ q.left = ws[w].left
                \/ ws[w].renewal = "granted" /\ q.left = ws[w].reply
           /\ q.renewal = "granted" => ws[w].renewal = "granted" /\ q.reply = ws[w].reply
  PROVE  IndInv'
  <1>1. /\ ws' \in [Workers -> Process] /\ ws'[w] = q
        /\ \A v \in Workers \ {w} : ws'[v] = ws[v]
        /\ jobs' = jobs /\ erased' = erased
    BY DEF IndInv, TypeOK, queueVars
  <1>2. TypeOK' /\ RowsConsistent' /\ ScreenshotOnlyWhileRunnable'
    BY <1>1 DEF IndInv, TypeOK, queueVars, RowsConsistent, ScreenshotOnlyWhileRunnable, Exists
  <1>3. ProcessesConsistent'
    BY <1>1 DEF IndInv, ProcessesConsistent
  <1>4. CopiesCurrent'
    BY <1>1 DEF IndInv, CopiesCurrent
  <1>5. LeasesCovered'
    BY <1>1 DEF IndInv, LeasesCovered, Covers
  <1> QED BY <1>2, <1>3, <1>4, <1>5 DEF IndInv

\* A change of the table that starts no attempt, and lets go of a running row
\* under lease only for an erased owner, keeps the invariant.
LEMMA TableStep ==
  ASSUME IndInv, UNCHANGED ws, TypeOK', RowsConsistent', ScreenshotOnlyWhileRunnable',
         erased \subseteq erased',
         \A j \in Jobs : jobs'[j].status = "running" => jobs'[j] = jobs[j],
         \A j \in Jobs : jobs[j].status = "running" /\ jobs[j].left >= 0 /\ OwnerOf[j] \notin erased'
                           => jobs'[j] = jobs[j]
  PROVE  IndInv'
  <1>1. ProcessesConsistent'
    BY DEF IndInv, ProcessesConsistent
  <1>2. CopiesCurrent'
    BY DEF IndInv, CopiesCurrent, ProcessesConsistent
  <1>3. LeasesCovered'
    <2> SUFFICES ASSUME NEW w \in Workers,
                        ws[w].phase \in Busy, OwnerOf[ws[w].job] \notin erased'
                 PROVE  /\ ~ws[w].lost /\ ws[w].left > 0 => Covers(jobs'[ws[w].job], w, ws[w].left)
                        /\ ws[w].renewal = "granted" /\ ws[w].reply > 0
                             => Covers(jobs'[ws[w].job], w, ws[w].reply)
      BY DEF LeasesCovered
    <2> DEFINE j == ws[w].job
    <2>1. j \in Jobs /\ OwnerOf[j] \notin erased
      BY DEF IndInv, ProcessesConsistent
    <2>2. jobs[j].left \in Int /\ ws[w].left \in Int /\ ws[w].reply \in Int
      BY <2>1, Bounds DEF IndInv, TypeOK, Row, Process, Expired
    <2>3. ASSUME NEW l \in Int, l > 0, Covers(jobs[j], w, l)
          PROVE  Covers(jobs'[j], w, l)
      <3>1. jobs[j].status = "running" /\ jobs[j].left >= 0
        BY <2>2, <2>3 DEF Covers
      <3>2. jobs'[j] = jobs[j]
        BY <2>1, <3>1
      <3> QED BY <2>3, <3>2 DEF Covers
    <2> QED BY <2>1, <2>2, <2>3 DEF IndInv, LeasesCovered
  <1> QED BY <1>1, <1>2, <1>3 DEF IndInv

-----------------------------------------------------------------------------
(* One lemma per group of actions *)

\* An empty table and idle processes satisfy the invariant.
LEMMA InitIndInv == Init => IndInv
  <1> SUFFICES ASSUME Init PROVE IndInv
    OBVIOUS
  <1> USE DEF Init, QueueInit
  <1>1. TypeOK
    BY Resting, AbsentRow DEF TypeOK
  <1>2. RowsConsistent /\ ScreenshotOnlyWhileRunnable
    BY DEF RowsConsistent, ScreenshotOnlyWhileRunnable, Absent, Exists, Pending
  <1>3. ProcessesConsistent /\ CopiesCurrent /\ LeasesCovered
    BY DEF ProcessesConsistent, CopiesCurrent, LeasesCovered, Idle, InPhase, Busy
  <1> QED BY <1>1, <1>2, <1>3 DEF IndInv

\* The heartbeat, the end of a handler and the life of a process.
LEMMA QuietSteps ==
  ASSUME IndInv, NEW w \in Workers,
         \/ BeginRenewal(w) \/ LoseRenewal(w) \/ FinishRenewal(w) \/ FinishWork(w)
         \/ StopHeartbeat(w) \/ FinishLastRenewal(w) \/ LoseSettlement(w)
         \/ Crash(w) \/ Restart(w)
  PROVE  IndInv'
  <1> DEFINE p == ws[w]
  <1>a. p \in Process /\ ws \in [Workers -> Process]
    BY DEF IndInv, TypeOK
  <1>b. p.renewal # "none" => p.phase \in Busy
    BY DEF IndInv, ProcessesConsistent
  <1>c. Expired \in Expired .. LeaseSeconds
    BY Bounds DEF Expired
  <1>d. "sent" \in Renewals /\ "failed" \in Renewals /\ "stopping" \in Phases /\ "settling" \in Phases
    BY DEF Renewals, Phases
  <1>1. CASE BeginRenewal(w)
    <2> DEFINE q == [p EXCEPT !.renewal = "sent"]
    <2>1. /\ q \in Process /\ q.phase = p.phase /\ q.job = p.job /\ q.attempts = p.attempts
          /\ q.left = p.left /\ q.lost = p.lost /\ q.renewal = "sent"
      BY <1>a, <1>d, SetRenewal
    <2>2. ws' = [ws EXCEPT ![w] = q] /\ UNCHANGED queueVars /\ p.phase = "working"
      BY <1>1, <1>a DEF BeginRenewal
    <2> HIDE DEF q
    <2> QED BY <2>1, <2>2, ProcessStep DEF Busy
  <1>2. CASE LoseRenewal(w)
    <2> DEFINE q == Answered(p, "failed", Expired)
    <2>1. /\ q \in Process /\ q.phase = p.phase /\ q.job = p.job /\ q.attempts = p.attempts
          /\ q.left = p.left /\ q.lost = p.lost /\ q.renewal = "failed"
      BY <1>a, <1>c, <1>d, AnsweredFields
    <2>2. ws' = [ws EXCEPT ![w] = q] /\ UNCHANGED queueVars /\ p.phase \in Busy
      BY <1>2, <1>b DEF LoseRenewal
    <2> HIDE DEF q
    <2> QED BY <2>1, <2>2, ProcessStep
  <1>3. CASE FinishRenewal(w)
    <2>1. PICK b \in BOOLEAN : ws' = [ws EXCEPT ![w] = AfterRenewal(p, b)]
      BY <1>3, ReadingsBoolean DEF FinishRenewal
    <2> DEFINE q == AfterRenewal(p, b)
    <2>2. /\ q \in Process /\ q.phase = p.phase /\ q.job = p.job /\ q.attempts = p.attempts
          /\ q.left = IF p.renewal = "granted" THEN p.reply ELSE p.left
          /\ (p.lost => q.lost) /\ q.renewal = "none"
      BY <1>a, AfterRenewalFields
    <2>3. UNCHANGED queueVars /\ p.phase \in Busy
      BY <1>3, <1>b DEF FinishRenewal
    <2> HIDE DEF q
    <2> QED BY <2>1, <2>2, <2>3, ProcessStep DEF q
  <1>4. CASE FinishWork(w)
    <2> DEFINE q == [p EXCEPT !.phase = "stopping"]
    <2>1. /\ q \in Process /\ q.phase = "stopping" /\ q.job = p.job /\ q.attempts = p.attempts
          /\ q.left = p.left /\ q.lost = p.lost /\ q.renewal = p.renewal /\ q.reply = p.reply
      BY <1>a, <1>d, SetPhase
    <2>2. ws' = [ws EXCEPT ![w] = q] /\ UNCHANGED queueVars /\ p.phase = "working"
      BY <1>4, <1>a DEF FinishWork
    <2> HIDE DEF q
    <2> QED BY <2>1, <2>2, ProcessStep DEF Busy
  <1>5. CASE StopHeartbeat(w)
    <2>1. CASE p.lost
      <3>1. ws' = [ws EXCEPT ![w] = Idle] /\ UNCHANGED queueVars
        BY <1>5, <2>1 DEF StopHeartbeat
      <3> QED BY <3>1, Resting, ProcessStep
    <2>2. CASE ~p.lost
      <3>1. PICK b \in BOOLEAN :
              ws' = [ws EXCEPT ![w].phase = IF b THEN "renewing" ELSE "settling",
                               ![w].renewal = IF b THEN "sent" ELSE "none"]
        BY <1>5, <2>2, ReadingsBoolean DEF StopHeartbeat
      <3> DEFINE ph == IF b THEN "renewing" ELSE "settling"
                 r == IF b THEN "sent" ELSE "none"
                 q1 == [p EXCEPT !.phase = ph]
                 q == [q1 EXCEPT !.renewal = r]
      <3>2. ws' = [ws EXCEPT ![w] = q]
        BY <3>1, <1>a
      <3>3. ph \in Phases /\ ph \in Busy /\ r \in Renewals /\ r # "granted"
        BY DEF Phases, Busy, Renewals
      <3> HIDE DEF ph, r
      <3>4. /\ q1 \in Process /\ q1.phase = ph /\ q1.job = p.job /\ q1.attempts = p.attempts
            /\ q1.left = p.left /\ q1.lost = p.lost
        BY <1>a, <3>3, SetPhase
      <3> HIDE DEF q1
      <3>5. /\ q \in Process /\ q.phase = ph /\ q.job = p.job /\ q.attempts = p.attempts
            /\ q.left = p.left /\ q.lost = p.lost /\ q.renewal = r
        BY <3>3, <3>4, SetRenewal
      <3>6. UNCHANGED queueVars /\ p.phase \in Busy
        BY <1>5 DEF StopHeartbeat, Busy
      <3> HIDE DEF q
      <3> QED BY <3>2, <3>3, <3>5, <3>6, ProcessStep
    <2> QED BY <2>1, <2>2
  <1>6. CASE FinishLastRenewal(w)
    <2>1. PICK b \in BOOLEAN :
            ws' = [ws EXCEPT ![w] = IF AfterRenewal(p, b).lost THEN Idle
                                    ELSE [AfterRenewal(p, b) EXCEPT !.phase = "settling"]]
      BY <1>6, ReadingsBoolean DEF FinishLastRenewal
    <2> DEFINE a == AfterRenewal(p, b)
               q == [a EXCEPT !.phase = "settling"]
    <2>2. /\ a \in Process /\ a.job = p.job /\ a.attempts = p.attempts
          /\ a.left = IF p.renewal = "granted" THEN p.reply ELSE p.left
          /\ (p.lost => a.lost) /\ a.renewal = "none"
      BY <1>a, AfterRenewalFields
    <2>3. UNCHANGED queueVars /\ p.phase \in Busy
      BY <1>6 DEF FinishLastRenewal, Busy
    <2>4. ws' = [ws EXCEPT ![w] = IF a.lost THEN Idle ELSE q]
      BY <2>1
    <2> HIDE DEF a
    <2>5. /\ q \in Process /\ q.phase = "settling" /\ q.job = p.job /\ q.attempts = p.attempts
          /\ q.left = a.left /\ q.lost = a.lost /\ q.renewal = "none"
      BY <2>2, <1>d, SetPhase
    <2>6. CASE a.lost
      BY <2>3, <2>4, <2>6, Resting, ProcessStep
    <2>7. CASE ~a.lost
      <3> HIDE DEF q
      <3> QED BY <2>2, <2>3, <2>4, <2>5, <2>7, ProcessStep
    <2> QED BY <2>6, <2>7
  <1>7. CASE LoseSettlement(w) \/ Restart(w)
    <2>1. ws' = [ws EXCEPT ![w] = Idle] /\ UNCHANGED queueVars
      BY <1>7 DEF LoseSettlement, Restart
    <2> QED BY <2>1, Resting, ProcessStep
  <1>8. CASE Crash(w)
    <2>1. ws' = [ws EXCEPT ![w] = Dead] /\ UNCHANGED queueVars
      BY <1>8 DEF Crash
    <2> QED BY <2>1, Resting, ProcessStep
  <1> QED BY <1>1, <1>2, <1>3, <1>4, <1>5, <1>6, <1>7, <1>8

\* Requests, account erasure and maintenance.
LEMMA RequestSteps ==
  ASSUME IndInv, RequestStep
  PROVE  IndInv'
  <1>a. jobs \in [Jobs -> Row] /\ RowsConsistent /\ ScreenshotOnlyWhileRunnable
    BY DEF IndInv, TypeOK
  <1>b. UNCHANGED ws
    BY DEF RequestStep
  <1>1. ASSUME NEW j \in Jobs, NEW d \in Delays, Enqueue(j, d)
        PROVE  IndInv'
    <2>1. /\ jobs' \in [Jobs -> Row] /\ jobs'[j] = Queued(d)
          /\ \A k \in Jobs \ {j} : jobs'[k] = jobs[k]
      BY <1>1, <1>a, QueuedRow, QueueAssumptions DEF Enqueue
    <2>2. /\ Queued(d).status = "queued" /\ Queued(d).attempts = 0
          /\ Queued(d).leasedBy = NoWorker /\ Queued(d).redacted = FALSE
      BY DEF Queued
    <2>3. jobs[j].status \in {"absent", "cancelled"} /\ erased' = erased
      BY <1>1 DEF Enqueue
    <2>4. TypeOK'
      BY <1>1, <1>b, <2>1 DEF Enqueue, IndInv, TypeOK
    <2>5. RowsConsistent'
      BY <1>a, <2>1, <2>2, Bounds DEF RowsConsistent
    <2>6. ScreenshotOnlyWhileRunnable'
      BY <1>a, <2>1, <2>2 DEF ScreenshotOnlyWhileRunnable, Exists, Terminal, Finished
    <2> QED BY <1>b, <2>1, <2>2, <2>3, <2>4, <2>5, <2>6, TableStep
  <1>2. ASSUME NEW t \in Tenants, NEW u \in Users, CancelPending(t, u)
        PROVE  IndInv'
    <2>1. /\ jobs' \in [Jobs -> Row]
          /\ \A j \in Jobs : \/ jobs'[j] = jobs[j]
                             \/ /\ jobs'[j] = Cancelled(jobs[j])
                                /\ jobs[j].status \in Pending
                                /\ TypeOf[j] = "connector.sync"
      <3>1. \A j \in Jobs : Cancelled(jobs[j]) \in Row
        BY <1>a, Bounds DEF Cancelled, Released, Row, Expired, Statuses, Terminal
      <3> QED BY <1>2, <1>a, <3>1 DEF CancelPending, Cancellable
    <2>2. \A j \in Jobs : /\ Cancelled(jobs[j]).status = "cancelled"
                          /\ Cancelled(jobs[j]).leasedBy = NoWorker
      BY DEF Cancelled, Released
    <2>3. erased' = erased
      BY <1>2 DEF CancelPending
    <2>4. TypeOK'
      BY <1>2, <1>b, <2>1 DEF CancelPending, IndInv, TypeOK
    <2>5. RowsConsistent'
      BY <1>a, <2>1, <2>2 DEF RowsConsistent, Pending
    <2>6. ScreenshotOnlyWhileRunnable'
      BY <1>a, <2>1, <2>2 DEF ScreenshotOnlyWhileRunnable, Exists
    <2> QED BY <1>b, <2>1, <2>2, <2>3, <2>4, <2>5, <2>6, TableStep DEF Pending
  <1>3. ASSUME NEW u \in Users, NEW R \in SUBSET Jobs, EraseAccount(u, R)
        PROVE  IndInv'
    <2>1. /\ jobs' \in [Jobs -> Row]
          /\ \A j \in Jobs : \/ jobs'[j] = jobs[j]
                             \/ jobs'[j] = Absent /\ OwnerOf[j] = u
                             \/ /\ jobs'[j] = Queued(0) /\ jobs[j].status = "absent"
                                /\ TypeOf[j] = "privacy.reconcile"
      BY <1>3, <1>a, AbsentRow, QueuedRow DEF EraseAccount, ErasedWith, Exists
    <2>2. /\ Absent.status = "absent" /\ Absent.leasedBy = NoWorker
          /\ Queued(0).status = "queued" /\ Queued(0).attempts = 0
          /\ Queued(0).leasedBy = NoWorker
      BY DEF Absent, Queued
    <2>3. erased' = erased \union {u}
      BY <1>3 DEF EraseAccount
    <2>4. TypeOK'
      BY <1>3, <1>b, <2>1 DEF EraseAccount, IndInv, TypeOK
    <2>5. RowsConsistent'
      BY <1>a, <2>1, <2>2, Bounds DEF RowsConsistent, Pending
    <2>6. ScreenshotOnlyWhileRunnable'
      BY <1>a, <2>1, <2>2 DEF ScreenshotOnlyWhileRunnable, Exists
    <2> QED BY <1>b, <2>1, <2>2, <2>3, <2>4, <2>5, <2>6, TableStep
  <1>4. ASSUME NEW j \in Jobs, RunMaintenance(j)
        PROVE  IndInv'
    <2> DEFINE row == [jobs[j] EXCEPT !.redacted = TRUE]
    <2>1. /\ row \in Row /\ row.status = jobs[j].status /\ row.attempts = jobs[j].attempts
          /\ row.leasedBy = jobs[j].leasedBy /\ row.redacted
      BY <1>a DEF Row
    <2>2. jobs' = [jobs EXCEPT ![j] = row] /\ jobs[j].status \in Terminal /\ erased' = erased
      BY <1>4, <1>a DEF RunMaintenance
    <2> HIDE DEF row
    <2>3. /\ jobs' \in [Jobs -> Row] /\ jobs'[j] = row
          /\ \A k \in Jobs \ {j} : jobs'[k] = jobs[k]
      BY <1>a, <2>1, <2>2
    <2>4. TypeOK'
      BY <1>4, <1>b, <2>3 DEF RunMaintenance, IndInv, TypeOK
    <2>5. RowsConsistent'
      BY <1>a, <2>1, <2>3 DEF RowsConsistent
    <2>6. ScreenshotOnlyWhileRunnable'
      BY <1>a, <2>1, <2>2, <2>3 DEF ScreenshotOnlyWhileRunnable, Exists
    <2>7. jobs[j].status # "running"
      BY <2>2 DEF Terminal, Finished
    <2> QED BY <1>b, <2>1, <2>2, <2>3, <2>4, <2>5, <2>6, <2>7, TableStep
  <1> QED BY <1>1, <1>2, <1>3, <1>4 DEF RequestStep

\* The sweep dead-letters expired final attempts and touches nothing else.
LEMMA SweptRows ==
  ASSUME IndInv
  PROVE  /\ Swept \in [Jobs -> Row]
         /\ \A j \in Jobs : ~OutOfAttempts(jobs[j]) => Swept[j] = jobs[j]
         /\ \A j \in Jobs : OutOfAttempts(jobs[j]) =>
              /\ Swept[j].status = "dead_letter" /\ Swept[j].leasedBy = NoWorker
              /\ Swept[j].redacted = (jobs[j].redacted \/ Redacts(j))
              /\ Swept[j].attempts = jobs[j].attempts
  <1>1. jobs \in [Jobs -> Row]
    BY DEF IndInv, TypeOK
  <1>2. \A j \in Jobs : DeadLettered(j, jobs[j]) \in Row
    BY <1>1, Bounds DEF DeadLettered, Released, Redacts, Row, Expired, Statuses, Terminal, Finished
  <1>3. \A j \in Jobs :
          /\ DeadLettered(j, jobs[j]).status = "dead_letter"
          /\ DeadLettered(j, jobs[j]).leasedBy = NoWorker
          /\ DeadLettered(j, jobs[j]).redacted = (jobs[j].redacted \/ Redacts(j))
          /\ DeadLettered(j, jobs[j]).attempts = jobs[j].attempts
    BY DEF DeadLettered, Released
  <1> QED BY <1>1, <1>2, <1>3 DEF Swept

\* The table after the sweep is consistent.
LEMMA SweptConsistent ==
  ASSUME IndInv, NEW j \in Jobs
  PROVE  /\ Swept[j].status \in Pending => Swept[j].attempts < MaxAttempts
         /\ Swept[j].status = "running" =>
              Swept[j].attempts \in 1 .. MaxAttempts /\ Swept[j].leasedBy \in Workers
         /\ Swept[j].status # "running" => Swept[j].leasedBy = NoWorker
         /\ TypeOf[j] = "ingest.screenshot" /\ Swept[j].status # "absent" =>
              (Swept[j].redacted <=> Swept[j].status \in Terminal)
         /\ Swept[j].status = "running" => Swept[j] = jobs[j]
         /\ jobs[j].status = "running" /\ jobs[j].left >= 0 => Swept[j] = jobs[j]
  <1>1. jobs[j].left \in Int
    BY Bounds DEF IndInv, TypeOK, Row, Expired
  <1>2. CASE ~OutOfAttempts(jobs[j])
    BY <1>2, SweptRows DEF IndInv, RowsConsistent, ScreenshotOnlyWhileRunnable, Exists
  <1>3. CASE OutOfAttempts(jobs[j])
    <2>1. Swept[j].status = "dead_letter" /\ Swept[j].leasedBy = NoWorker
      BY <1>3, SweptRows
    <2>2. TypeOf[j] = "ingest.screenshot" => Swept[j].redacted
      BY <1>3, SweptRows, Zenon DEF Redacts
    <2>3. jobs[j].left < 0
      BY <1>3 DEF OutOfAttempts
    <2> QED BY <1>1, <2>1, <2>2, <2>3 DEF Pending, Terminal, Finished
  <1> QED BY <1>2, <1>3

\* A poll that finds nothing to lease.
LEMMA LeaseNothingStep ==
  ASSUME IndInv, NEW w \in Workers, LeaseNothing(w)
  PROVE  IndInv'
  <1>1. jobs' = Swept /\ UNCHANGED <<older, served, erased, ws>>
    BY DEF LeaseNothing
  <1>2. TypeOK'
    BY <1>1, SweptRows DEF IndInv, TypeOK
  <1>3. RowsConsistent' /\ ScreenshotOnlyWhileRunnable'
    BY <1>1, SweptConsistent DEF RowsConsistent, ScreenshotOnlyWhileRunnable, Exists
  <1> QED BY <1>1, <1>2, <1>3, SweptConsistent, TableStep

\* What leaseNext takes: a row that waits, or one whose lease has run out,
\* with an attempt to spare.
LEMMA LeasableRow ==
  ASSUME IndInv, NEW j \in Jobs, Leasable(Swept[j])
  PROVE  /\ Swept[j] = jobs[j]
         /\ jobs[j].status \in Pending \union {"running"}
         /\ jobs[j].attempts \in 0 .. MaxAttempts - 1
         /\ jobs[j].left < 0
         /\ TypeOf[j] = "ingest.screenshot" => ~jobs[j].redacted
  <1>1. Swept[j] = jobs[j]
    <2>1. Swept[j].status # "dead_letter"
      BY DEF Leasable, Pending
    <2> QED BY <2>1, SweptRows
  <1>2. jobs[j].status \in Pending \union {"running"} /\ jobs[j].left < 0
    BY <1>1 DEF Leasable
  <1>3. jobs[j].attempts < MaxAttempts
    BY <1>1 DEF Leasable, IndInv, RowsConsistent
  <1>4. jobs[j].attempts \in 0 .. MaxAttempts - 1
    BY <1>3, Bounds DEF IndInv, TypeOK, Row
  <1>5. TypeOf[j] = "ingest.screenshot" => ~jobs[j].redacted
    BY <1>2 DEF IndInv, ScreenshotOnlyWhileRunnable, Exists, Terminal, Finished, Pending
  <1> QED BY <1>1, <1>2, <1>4, <1>5

\* A lease: the sweep and one more attempt of a leasable row.
LEMMA LeaseNextStep ==
  ASSUME IndInv, NEW w \in Workers, LeaseNext(w)
  PROVE  IndInv'
  <1>1. PICK j \in Jobs :
          /\ Selected(Swept, j)
          /\ jobs' = [Swept EXCEPT ![j] = Leased(Swept[j], w)]
          /\ served' = Touched(TenantOf[j])
          /\ ws' = [ws EXCEPT ![w] = Started(j, Leased(jobs[j], w))]
    BY DEF LeaseNext
  <1> DEFINE row == Leased(jobs[j], w)
             p == Started(j, row)
  <1>2. /\ Swept[j] = jobs[j] /\ jobs[j].status \in Pending \union {"running"}
        /\ jobs[j].attempts \in 0 .. MaxAttempts - 1 /\ jobs[j].left < 0
        /\ (TypeOf[j] = "ingest.screenshot" => ~jobs[j].redacted)
    BY <1>1, LeasableRow DEF Selected, TenantHead
  <1>3. jobs[j] \in Row /\ ws \in [Workers -> Process] /\ ws[w].phase = "idle"
        /\ UNCHANGED <<older, erased>>
    BY DEF IndInv, TypeOK, LeaseNext
  <1>4. row \in Row
    BY <1>2, <1>3, Bounds DEF Leased, Row, Expired, Statuses
  <1>5. /\ row.status = "running" /\ row.attempts = jobs[j].attempts + 1 /\ row.leasedBy = w
        /\ row.left = LeaseSeconds /\ row.redacted = jobs[j].redacted
    BY DEF Leased
  <1> HIDE DEF row
  <1>6. p \in Process
    BY <1>4, Bounds DEF Started, Process, Phases, Renewals, Expired, Row
  <1>7. /\ p.phase = "working" /\ p.job = j /\ p.attempts = row.attempts /\ p.left = row.left
        /\ p.lost = FALSE /\ p.renewal = "none"
    BY DEF Started
  <1> HIDE DEF p
  <1>8. /\ jobs' \in [Jobs -> Row] /\ jobs'[j] = row
        /\ \A k \in Jobs \ {j} : jobs'[k] = Swept[k]
    BY <1>1, <1>2, <1>4, SweptRows DEF row
  <1>9. /\ ws' \in [Workers -> Process] /\ ws'[w] = p
        /\ \A v \in Workers \ {w} : ws'[v] = ws[v]
    BY <1>1, <1>3, <1>6 DEF row, p
  <1>10. TypeOK'
    <2>1. served' \subseteq Tenants \X Tenants
      BY <1>1, QueueAssumptions DEF Touched, IndInv, TypeOK
    <2> QED BY <1>3, <1>8, <1>9, <2>1 DEF IndInv, TypeOK
  <1>11. RowsConsistent'
    <2>1. row.attempts \in 1 .. MaxAttempts
      BY <1>2, <1>5, Bounds
    <2>2. row.status \notin Pending
      BY <1>5 DEF Pending
    <2> QED BY <1>5, <1>8, <2>1, <2>2, SweptConsistent DEF RowsConsistent
  <1>12. ScreenshotOnlyWhileRunnable'
    <2>1. row.status \notin Terminal
      BY <1>5 DEF Terminal, Finished
    <2> QED BY <1>2, <1>5, <1>8, <2>1, SweptConsistent DEF ScreenshotOnlyWhileRunnable, Exists
  <1>13. ProcessesConsistent'
    BY <1>7, <1>9 DEF IndInv, ProcessesConsistent, Busy
  <1>14. CopiesCurrent'
    <2> SUFFICES ASSUME NEW v \in Workers, ws'[v].phase \in Busy,
                        jobs'[ws'[v].job].status = "running", jobs'[ws'[v].job].leasedBy = v
                 PROVE  ws'[v].attempts = jobs'[ws'[v].job].attempts
      BY DEF CopiesCurrent
    <2>1. CASE v = w
      BY <1>7, <1>8, <1>9, <2>1
    <2>2. CASE v # w
      <3>1. ws'[v] = ws[v] /\ ws[v].job \in Jobs /\ ws[v].phase \in Busy
        BY <1>9, <2>2 DEF IndInv, ProcessesConsistent
      <3>2. ws[v].job # j
        BY <1>5, <1>8, <2>2, <3>1
      <3>3. jobs'[ws[v].job] = jobs[ws[v].job]
        BY <1>8, <3>1, <3>2, SweptConsistent
      <3> QED BY <3>1, <3>3 DEF IndInv, CopiesCurrent
    <2> QED BY <2>1, <2>2
  <1>15. LeasesCovered'
    <2> SUFFICES ASSUME NEW v \in Workers, ws'[v].phase \in Busy,
                        OwnerOf[ws'[v].job] \notin erased'
                 PROVE  /\ ~ws'[v].lost /\ ws'[v].left > 0 => Covers(jobs'[ws'[v].job], v, ws'[v].left)
                        /\ ws'[v].renewal = "granted" /\ ws'[v].reply > 0
                             => Covers(jobs'[ws'[v].job], v, ws'[v].reply)
      BY DEF LeasesCovered, Covers
    <2>1. CASE v = w
      <3>1. row.left >= p.left
        BY <1>5, <1>7, Bounds
      <3> QED BY <1>5, <1>7, <1>8, <1>9, <2>1, <3>1 DEF Covers
    <2>2. CASE v # w
      <3> DEFINE k == ws[v].job
      <3>1. ws'[v] = ws[v] /\ k \in Jobs /\ ws[v].phase \in Busy /\ OwnerOf[k] \notin erased
        BY <1>3, <1>9, <2>2 DEF IndInv, ProcessesConsistent
      <3>2. jobs[k].left \in Int /\ ws[v].left \in Int /\ ws[v].reply \in Int
        BY <3>1, Bounds DEF IndInv, TypeOK, Row, Process, Expired
      <3>3. ASSUME NEW l \in Int, l > 0, Covers(jobs[k], v, l)
            PROVE  Covers(jobs'[k], v, l)
        <4>1. jobs[k].status = "running" /\ jobs[k].left >= 0 /\ k # j
          BY <1>2, <3>2, <3>3 DEF Covers
        <4>2. jobs'[k] = jobs[k]
          BY <1>8, <3>1, <4>1, SweptConsistent
        <4> QED BY <3>3, <4>2 DEF Covers
      <3>4. /\ ~ws[v].lost /\ ws[v].left > 0 => Covers(jobs[k], v, ws[v].left)
            /\ ws[v].renewal = "granted" /\ ws[v].reply > 0 => Covers(jobs[k], v, ws[v].reply)
        BY <3>1 DEF IndInv, LeasesCovered
      <3>5. /\ ~ws[v].lost /\ ws[v].left > 0 => Covers(jobs'[k], v, ws[v].left)
            /\ ws[v].renewal = "granted" /\ ws[v].reply > 0 => Covers(jobs'[k], v, ws[v].reply)
        BY <3>2, <3>3, <3>4
      <3> QED BY <3>1, <3>5 DEF Covers
    <2> QED BY <2>1, <2>2
  <1> QED BY <1>10, <1>11, <1>12, <1>13, <1>14, <1>15 DEF IndInv

\* The database executes a renewal: it prolongs the lease of its holder, or
\* changes no row.
LEMMA ExecuteRenewalStep ==
  ASSUME IndInv, NEW w \in Workers, ExecuteRenewal(w)
  PROVE  IndInv'
  <1> DEFINE p == ws[w]
             j == p.job
  <1>1. /\ p \in Process /\ p.renewal = "sent" /\ p.phase \in Busy /\ j \in Jobs
        /\ ws \in [Workers -> Process] /\ jobs \in [Jobs -> Row]
    BY DEF ExecuteRenewal, IndInv, ProcessesConsistent, TypeOK
  <1>2. CASE ~HoldsLease(j, w, p.left)
    <2> DEFINE q == Answered(p, "refused", Expired)
    <2>1. ws' = [ws EXCEPT ![w] = q] /\ UNCHANGED queueVars
      BY <1>2 DEF ExecuteRenewal, queueVars
    <2>2. "refused" \in Renewals /\ Expired \in Expired .. LeaseSeconds
      BY Bounds DEF Renewals, Expired
    <2>3. /\ q \in Process /\ q.phase = p.phase /\ q.job = p.job /\ q.attempts = p.attempts
          /\ q.left = p.left /\ q.lost = p.lost /\ q.renewal = "refused"
      BY <1>1, <2>2, AnsweredFields
    <2> HIDE DEF q
    <2> QED BY <1>1, <2>1, <2>3, ProcessStep
  <1>3. CASE HoldsLease(j, w, p.left)
    <2> DEFINE q == Answered(p, "granted", LeaseSeconds)
               row == Renewed(jobs[j])
    <2>1. /\ ws' = [ws EXCEPT ![w] = q] /\ jobs' = [jobs EXCEPT ![j] = row]
          /\ UNCHANGED <<older, served, erased>>
      BY <1>3 DEF ExecuteRenewal
    <2>2. "granted" \in Renewals /\ LeaseSeconds \in Expired .. LeaseSeconds
      BY Bounds DEF Renewals, Expired
    <2>3. /\ q \in Process /\ q.phase = p.phase /\ q.job = j /\ q.attempts = p.attempts
          /\ q.left = p.left /\ q.lost = p.lost /\ q.renewal = "granted" /\ q.reply = LeaseSeconds
      BY <1>1, <2>2, AnsweredFields
    <2>4. /\ row \in Row /\ row.status = jobs[j].status /\ row.attempts = jobs[j].attempts
          /\ row.leasedBy = jobs[j].leasedBy /\ row.redacted = jobs[j].redacted
          /\ row.left = LeaseSeconds /\ jobs[j].left <= LeaseSeconds
      BY <1>1, Bounds DEF Renewed, Row, Expired
    <2>5. jobs[j].status = "running" /\ jobs[j].leasedBy = w
      BY <1>3 DEF HoldsLease
    <2> HIDE DEF q, row
    <2>6. /\ jobs' \in [Jobs -> Row] /\ jobs'[j] = row
          /\ \A k \in Jobs \ {j} : jobs'[k] = jobs[k]
      BY <1>1, <2>1, <2>4
    <2>7. /\ ws' \in [Workers -> Process] /\ ws'[w] = q
          /\ \A v \in Workers \ {w} : ws'[v] = ws[v]
      BY <1>1, <2>1, <2>3
    <2>8. TypeOK'
      BY <2>1, <2>6, <2>7 DEF IndInv, TypeOK
    <2>9. RowsConsistent' /\ ScreenshotOnlyWhileRunnable'
      BY <1>1, <2>4, <2>6 DEF IndInv, RowsConsistent, ScreenshotOnlyWhileRunnable, Exists
    <2>10. ProcessesConsistent'
      BY <1>1, <2>3, <2>7 DEF IndInv, ProcessesConsistent
    <2>11. CopiesCurrent'
      BY <1>1, <2>3, <2>4, <2>6, <2>7 DEF IndInv, CopiesCurrent, ProcessesConsistent
    <2>12. LeasesCovered'
      <3> SUFFICES ASSUME NEW v \in Workers, ws'[v].phase \in Busy,
                          OwnerOf[ws'[v].job] \notin erased'
                   PROVE  /\ ~ws'[v].lost /\ ws'[v].left > 0
                               => Covers(jobs'[ws'[v].job], v, ws'[v].left)
                          /\ ws'[v].renewal = "granted" /\ ws'[v].reply > 0
                               => Covers(jobs'[ws'[v].job], v, ws'[v].reply)
        BY DEF LeasesCovered
      <3>1. CASE v = w
        <4>1. p.left <= LeaseSeconds
          BY <1>1, Bounds DEF Process, Expired
        <4> QED BY <2>3, <2>4, <2>5, <2>6, <2>7, <3>1, <4>1, Bounds DEF Covers
      <3>2. CASE v # w
        <4>1. ws'[v] = ws[v] /\ ws[v].job \in Jobs /\ OwnerOf[ws[v].job] \notin erased
          BY <2>1, <2>7, <3>2 DEF IndInv, ProcessesConsistent
        <4>2. ASSUME NEW l, Covers(jobs[ws[v].job], v, l)
              PROVE  Covers(jobs'[ws[v].job], v, l)
          BY <2>5, <2>6, <3>2, <4>1, <4>2 DEF Covers
        <4> QED BY <4>1, <4>2 DEF IndInv, LeasesCovered
      <3> QED BY <3>1, <3>2
    <2> QED BY <2>8, <2>9, <2>10, <2>11, <2>12 DEF IndInv
  <1> QED BY <1>2, <1>3

\* Settlement: the holder's job is finished or sent back, no other row moves.
LEMMA SettleStep ==
  ASSUME IndInv, NEW w \in Workers, Settle(w)
  PROVE  IndInv'
  <1> DEFINE j == ws[w].job
  <1>1. /\ ws[w].phase \in Busy /\ j \in Jobs
        /\ ws \in [Workers -> Process] /\ jobs \in [Jobs -> Row]
    BY DEF Settle, Busy, IndInv, ProcessesConsistent, TypeOK
  <1>2. ws' = [ws EXCEPT ![w] = Idle] /\ UNCHANGED <<older, served, erased>>
    BY DEF Settle
  <1>3. CASE ~HoldsLease(j, w, ws[w].left)
    <2>1. UNCHANGED queueVars
      BY <1>2, <1>3 DEF Settle, queueVars
    <2> QED BY <1>2, <2>1, Resting, ProcessStep
  <1>4. CASE HoldsLease(j, w, ws[w].left)
    <2>1. PICK failed \in BOOLEAN : jobs' = [jobs EXCEPT ![j] = Settled(j, jobs[j], failed)]
      BY <1>4 DEF Settle
    <2> DEFINE row == Settled(j, jobs[j], failed)
    <2>2. jobs[j].status = "running" /\ jobs[j].leasedBy = w
      BY <1>4 DEF HoldsLease
    <2>3. jobs[j].attempts \in 1 .. MaxAttempts /\ (TypeOf[j] = "ingest.screenshot" => ~jobs[j].redacted)
      BY <1>1, <2>2 DEF IndInv, RowsConsistent, ScreenshotOnlyWhileRunnable, Exists, Terminal, Finished
    <2>4. row \in Row
      BY <1>1, <2>3, SettledRow
    <2>5. /\ row.status \in Finished \union {"retryable_failed"} /\ row.leasedBy = NoWorker
          /\ row.attempts = jobs[j].attempts
          /\ row.status \in Pending => row.attempts < MaxAttempts
      BY <2>3, Bounds DEF Settled, Succeeded, Failed, DeadLettered, RetryLater, Released, Finished, Pending
    <2>6. TypeOf[j] = "ingest.screenshot" => (row.redacted <=> row.status \in Terminal)
      <3>1. CASE ~failed
        BY <3>1 DEF Settled, Succeeded, Released, Redacts, Terminal, Finished
      <3>2. CASE failed /\ jobs[j].attempts >= MaxAttempts
        BY <3>2 DEF Settled, Failed, DeadLettered, Released, Redacts, Terminal, Finished
      <3>3. CASE failed /\ ~(jobs[j].attempts >= MaxAttempts)
        BY <2>3, <3>3 DEF Settled, Failed, RetryLater, Released, Terminal, Finished
      <3> QED BY <3>1, <3>2, <3>3
    <2> HIDE DEF row
    <2>7. /\ jobs' \in [Jobs -> Row] /\ jobs'[j] = row
          /\ \A k \in Jobs \ {j} : jobs'[k] = jobs[k]
      BY <1>1, <2>1, <2>4 DEF row
    <2>8. /\ ws' \in [Workers -> Process] /\ ws'[w].phase \notin Busy /\ ws'[w].renewal = "none"
          /\ \A v \in Workers \ {w} : ws'[v] = ws[v]
      BY <1>1, <1>2, Resting
    <2>9. TypeOK'
      BY <1>2, <2>7, <2>8 DEF IndInv, TypeOK
    <2>10. row.status # "running"
      BY <2>5 DEF Finished
    <2>11. RowsConsistent'
      BY <2>5, <2>7, <2>10 DEF IndInv, RowsConsistent
    <2>12. ScreenshotOnlyWhileRunnable'
      BY <2>6, <2>7 DEF IndInv, ScreenshotOnlyWhileRunnable, Exists
    <2>13. ProcessesConsistent'
      BY <2>8 DEF IndInv, ProcessesConsistent
    <2>14. ASSUME NEW v \in Workers, ws'[v].phase \in Busy
           PROVE  v # w /\ ws'[v] = ws[v] /\ ws[v].phase \in Busy /\ ws[v].job \in Jobs
      BY <2>8, <2>14 DEF IndInv, ProcessesConsistent
    <2>15. CopiesCurrent'
      BY <2>7, <2>10, <2>14 DEF IndInv, CopiesCurrent
    <2>16. LeasesCovered'
      BY <1>2, <2>2, <2>7, <2>14 DEF IndInv, LeasesCovered, Covers
    <2> QED BY <2>9, <2>11, <2>12, <2>13, <2>15, <2>16 DEF IndInv
  <1> QED BY <1>3, <1>4

\* The clock: what a worker counts on and what the row grants shrink alike.
LEMMA TickStep ==
  ASSUME IndInv, Tick
  PROVE  IndInv'
  <1>1. jobs \in [Jobs -> Row] /\ ws \in [Workers -> Process]
    BY DEF IndInv, TypeOK
  <1>2. \A j \in Jobs :
          /\ jobs'[j] \in Row
          /\ jobs'[j].status = jobs[j].status /\ jobs'[j].attempts = jobs[j].attempts
          /\ jobs'[j].leasedBy = jobs[j].leasedBy /\ jobs'[j].redacted = jobs[j].redacted
          /\ jobs'[j].left = Sooner(jobs[j].left, Expired)
    BY <1>1, AgedFields DEF Tick
  <1>3. \A w \in Workers :
          /\ ws'[w] \in Process
          /\ ws'[w].phase = ws[w].phase /\ ws'[w].job = ws[w].job
          /\ ws'[w].attempts = ws[w].attempts
          /\ ws'[w].lost = ws[w].lost /\ ws'[w].renewal = ws[w].renewal
          /\ ws'[w].left = Sooner(ws[w].left, Expired)
          /\ ws'[w].reply = Sooner(ws[w].reply, Expired)
    BY <1>1, OlderProcessFields DEF Tick
  <1>4. /\ jobs' \in [Jobs -> Row] /\ ws' \in [Workers -> Process]
        /\ UNCHANGED <<older, served, erased>>
    BY <1>2, <1>3 DEF Tick
  <1>5. TypeOK'
    BY <1>4 DEF IndInv, TypeOK
  <1>6. RowsConsistent' /\ ScreenshotOnlyWhileRunnable'
    BY <1>2 DEF IndInv, RowsConsistent, ScreenshotOnlyWhileRunnable, Exists
  <1>7. ProcessesConsistent'
    BY <1>3 DEF IndInv, ProcessesConsistent
  <1>8. CopiesCurrent'
    BY <1>2, <1>3 DEF IndInv, CopiesCurrent, ProcessesConsistent
  <1>9. LeasesCovered'
    <2> SUFFICES ASSUME NEW w \in Workers, ws'[w].phase \in Busy,
                        OwnerOf[ws'[w].job] \notin erased'
                 PROVE  /\ ~ws'[w].lost /\ ws'[w].left > 0
                             => Covers(jobs'[ws'[w].job], w, ws'[w].left)
                        /\ ws'[w].renewal = "granted" /\ ws'[w].reply > 0
                             => Covers(jobs'[ws'[w].job], w, ws'[w].reply)
      BY DEF LeasesCovered
    <2> DEFINE j == ws[w].job
    <2>1. ws'[w].job = j /\ j \in Jobs /\ ws[w].phase \in Busy /\ OwnerOf[j] \notin erased
      BY <1>3, <1>4 DEF IndInv, ProcessesConsistent
    <2>2. jobs[j].left \in Int /\ ws[w].left \in Int /\ ws[w].reply \in Int
      BY <1>1, <2>1, Bounds DEF Row, Process, Expired
    <2>3. ASSUME NEW l \in Int, Sooner(l, Expired) > 0, l > 0 => Covers(jobs[j], w, l)
          PROVE  Covers(jobs'[j], w, Sooner(l, Expired))
      <3>1. l > 0 /\ Covers(jobs[j], w, l)
        BY <2>3 DEF Sooner, Expired
      <3>2. Sooner(jobs[j].left, Expired) >= Sooner(l, Expired)
        BY <2>2, <3>1 DEF Covers, Sooner, Expired
      <3> QED BY <1>2, <2>1, <3>1, <3>2 DEF Covers
    <2> QED BY <1>3, <2>1, <2>2, <2>3 DEF IndInv, LeasesCovered
  <1> QED BY <1>5, <1>6, <1>7, <1>8, <1>9 DEF IndInv

-----------------------------------------------------------------------------
(* The theorems *)

\* Every step of the specification keeps the inductive invariant.
LEMMA NextIndInv ==
  ASSUME IndInv, [Next]_vars
  PROVE  IndInv'
  <1>1. CASE UNCHANGED vars
    BY <1>1 DEF vars, IndInv, TypeOK, RowsConsistent, ProcessesConsistent, CopiesCurrent,
                LeasesCovered, ScreenshotOnlyWhileRunnable, Exists
  <1>2. ASSUME NEW w \in Workers, WorkerStep(w)
        PROVE  IndInv'
    BY <1>2, QuietSteps, ExecuteRenewalStep, SettleStep DEF WorkerStep
  <1> QED BY <1>1, <1>2, LeaseNextStep, LeaseNothingStep, RequestSteps, TickStep DEF Next

\* The invariant holds in every reachable state.
LEMMA AlwaysIndInv == Spec => []IndInv
  <1>1. Init => IndInv
    BY InitIndInv
  <1>2. IndInv /\ [Next]_vars => IndInv'
    BY NextIndInv
  <1> QED BY <1>1, <1>2, PTL DEF Spec

\* Rows and processes keep their types; in particular no attempt counter
\* leaves 0 .. max_attempts and no lease exceeds its length.
THEOREM TypeCorrect == Spec => []TypeOK
  <1>1. IndInv => TypeOK
    BY DEF IndInv
  <1> QED BY <1>1, AlwaysIndInv, PTL

\* No job is attempted more often than its budget allows.
THEOREM AttemptsStayBounded == Spec => []AttemptsBounded
  <1>1. IndInv => AttemptsBounded
    BY DEF IndInv, RowsConsistent, AttemptsBounded
  <1> QED BY <1>1, AlwaysIndInv, PTL

\* A worker that still counts on its lease owns the row.
THEOREM BeliefImpliesOwnership == Spec => []BeliefIsOwnership
  <1>1. IndInv => BeliefIsOwnership
    BY DEF IndInv, LeasesCovered, Covers, BeliefIsOwnership, Believes
  <1> QED BY <1>1, AlwaysIndInv, PTL

\* An accepted token belongs to the row's present attempt.
THEOREM TokensFenceAttempts == Spec => []FencedAttempts
  <1>1. IndInv => FencedAttempts
    BY DEF IndInv, CopiesCurrent, FencedAttempts, HoldsLease
  <1> QED BY <1>1, AlwaysIndInv, PTL

\* Screenshot images live exactly as long as an attempt may need them.
THEOREM ScreenshotsDiscarded == Spec => []ScreenshotOnlyWhileRunnable
  <1>1. IndInv => ScreenshotOnlyWhileRunnable
    BY DEF IndInv
  <1> QED BY <1>1, AlwaysIndInv, PTL

-----------------------------------------------------------------------------
(* What one step does to one row: every row follows the abstract           *)
(* JobLifecycle, and a lease that has not run out is respected.            *)

Same(j) ==
  /\ jobs'[j].status = jobs[j].status
  /\ jobs'[j].attempts = jobs[j].attempts
  /\ jobs'[j].leasedBy = jobs[j].leasedBy

\* The step of row j, seen as a step of JobLifecycle.
Life(j) == Lifecycle(j)!Next \/ UNCHANGED Lifecycle(j)!vars

\* A row that keeps status, attempts and holder takes a stuttering step.
LEMMA SameRow ==
  ASSUME NEW j \in Jobs, Same(j)
  PROVE  LeaseKept(j) /\ Life(j)
  BY DEF Same, LeaseKept, Life, Lifecycle!vars

\* Requests, erasure and maintenance.
LEMMA RequestRows ==
  ASSUME IndInv, RequestStep, NEW j \in Jobs
  PROVE  LeaseKept(j) /\ Life(j)
  <1>a. jobs \in [Jobs -> Row]
    BY DEF IndInv, TypeOK
  <1>1. ASSUME NEW i \in Jobs, NEW d \in Delays, Enqueue(i, d)
        PROVE  LeaseKept(j) /\ Life(j)
    <2>1. CASE i = j
      <3>1. /\ jobs[j].status \in {"absent", "cancelled"} /\ jobs'[j].status = "queued"
            /\ jobs'[j].attempts = 0 /\ jobs'[j].leasedBy = NoWorker
        BY <1>1, <1>a, <2>1 DEF Enqueue, Queued
      <3>2. Lifecycle(j)!Enqueue
        BY <3>1 DEF Lifecycle!Enqueue
      <3> QED BY <3>1, <3>2 DEF LeaseKept, Life, Lifecycle!Next
    <2>2. CASE i # j
      BY <1>1, <1>a, <2>2, SameRow DEF Enqueue, Same
    <2> QED BY <2>1, <2>2
  <1>2. ASSUME NEW t \in Tenants, NEW u \in Users, CancelPending(t, u)
        PROVE  LeaseKept(j) /\ Life(j)
    <2>1. CASE Cancellable(t, u, j)
      <3>1. jobs[j].status \in Pending /\ jobs[j].leasedBy = NoWorker
        BY <2>1 DEF Cancellable, IndInv, RowsConsistent, Pending
      <3>2. /\ jobs'[j].status = "cancelled" /\ jobs'[j].attempts = jobs[j].attempts
            /\ jobs'[j].leasedBy = NoWorker
        BY <1>2, <1>a, <2>1 DEF CancelPending, Cancelled, Released
      <3>3. Lifecycle(j)!Cancel
        BY <3>1, <3>2 DEF Lifecycle!Cancel, Pending
      <3> QED BY <3>1, <3>3 DEF LeaseKept, Life, Lifecycle!Next, Pending
    <2>2. CASE ~Cancellable(t, u, j)
      BY <1>2, <1>a, <2>2, SameRow DEF CancelPending, Same
    <2> QED BY <2>1, <2>2
  <1>3. ASSUME NEW u \in Users, NEW R \in SUBSET Jobs, EraseAccount(u, R)
        PROVE  LeaseKept(j) /\ Life(j)
    <2>0. CASE j \in R
      <3>1. /\ jobs[j].status = "absent" /\ jobs'[j].status = "queued"
            /\ jobs'[j].attempts = 0 /\ jobs'[j].leasedBy = NoWorker
        BY <1>3, <1>a, <2>0 DEF EraseAccount, Exists, Queued
      <3>2. Lifecycle(j)!Enqueue
        BY <3>1 DEF Lifecycle!Enqueue
      <3> QED BY <3>1, <3>2 DEF LeaseKept, Life, Lifecycle!Next
    <2>1. CASE j \notin R /\ ErasedWith(u, j)
      <3>1. /\ jobs[j].status # "absent" /\ jobs'[j].status = "absent"
            /\ jobs'[j].attempts = 0 /\ jobs'[j].leasedBy = NoWorker
            /\ OwnerOf[j] \in erased'
        BY <1>3, <1>a, <2>1 DEF EraseAccount, ErasedWith, Exists, Absent
      <3>2. Lifecycle(j)!Delete
        BY <3>1 DEF Lifecycle!Delete
      <3> QED BY <3>1, <3>2 DEF LeaseKept, Life, Lifecycle!Next
    <2>2. CASE j \notin R /\ ~ErasedWith(u, j)
      BY <1>3, <1>a, <2>2, SameRow DEF EraseAccount, Same
    <2> QED BY <2>0, <2>1, <2>2
  <1>4. ASSUME NEW i \in Jobs, RunMaintenance(i)
        PROVE  LeaseKept(j) /\ Life(j)
    BY <1>4, <1>a, SameRow DEF RunMaintenance, Same, Row
  <1> QED BY <1>1, <1>2, <1>3, <1>4 DEF RequestStep

\* A row that the sweep of a lease touches, or leaves as it was.
LEMMA SweptRow ==
  ASSUME IndInv, NEW j \in Jobs, jobs'[j] = Swept[j]
  PROVE  LeaseKept(j) /\ Life(j)
  <1>1. CASE ~OutOfAttempts(jobs[j])
    BY <1>1, SweptRows, SameRow DEF Same
  <1>2. CASE OutOfAttempts(jobs[j])
    <2>1. /\ jobs'[j].status = "dead_letter" /\ jobs'[j].leasedBy = NoWorker
          /\ jobs'[j].attempts = jobs[j].attempts
      BY <1>2, SweptRows
    <2>2. /\ jobs[j].status = "running" /\ jobs[j].left < 0 /\ jobs[j].left \in Int
          /\ jobs[j].attempts = MaxAttempts
      BY <1>2, Bounds DEF OutOfAttempts, IndInv, TypeOK, Row, Expired
    <2>3. Lifecycle(j)!GiveUp
      BY <2>1, <2>2 DEF Lifecycle!GiveUp
    <2> QED BY <2>2, <2>3 DEF LeaseKept, Life, Lifecycle!Next
  <1> QED BY <1>1, <1>2

\* leaseNext: the row leased, and the rows swept beside it.
LEMMA LeaseRows ==
  ASSUME IndInv, NEW w \in Workers, LeaseNext(w), NEW j \in Jobs
  PROVE  LeaseKept(j) /\ Life(j)
  <1>1. PICK i \in Jobs :
          Selected(Swept, i) /\ jobs' = [Swept EXCEPT ![i] = Leased(Swept[i], w)]
    BY DEF LeaseNext
  <1>2. CASE i = j
    <2>1. /\ Swept[j] = jobs[j] /\ jobs[j].status \in Pending \union {"running"}
          /\ jobs[j].attempts \in 0 .. MaxAttempts - 1 /\ jobs[j].left < 0
          /\ jobs[j].left \in Int
      BY <1>1, <1>2, LeasableRow, Bounds DEF Selected, TenantHead, IndInv, TypeOK, Row, Expired
    <2>2. /\ jobs'[j].status = "running" /\ jobs'[j].leasedBy = w
          /\ jobs'[j].attempts = jobs[j].attempts + 1
      BY <1>1, <1>2, <2>1, SweptRows DEF Leased
    <2>3. Lifecycle(j)!Attempt(w)
      BY <2>1, <2>2, Bounds DEF Lifecycle!Attempt, Pending
    <2> QED BY <2>1, <2>3 DEF LeaseKept, Life, Lifecycle!Next
  <1>3. CASE i # j
    BY <1>1, <1>3, SweptRows, SweptRow
  <1> QED BY <1>2, <1>3

\* complete() and fail().
LEMMA SettleRows ==
  ASSUME IndInv, NEW w \in Workers, Settle(w), NEW j \in Jobs
  PROVE  LeaseKept(j) /\ Life(j)
  <1>a. jobs \in [Jobs -> Row]
    BY DEF IndInv, TypeOK
  <1>1. CASE ws[w].job = j /\ HoldsLease(j, w, ws[w].left)
    <2>1. PICK failed \in BOOLEAN : jobs'[j] = Settled(j, jobs[j], failed)
      BY <1>1, <1>a DEF Settle
    <2>2. /\ jobs[j].status = "running" /\ jobs[j].leasedBy = w
          /\ ws[w].phase = "settling" /\ jobs[j].attempts \in 1 .. MaxAttempts
      BY <1>1 DEF HoldsLease, Settle, IndInv, RowsConsistent
    <2>3. CASE ~failed
      <3>1. /\ jobs'[j].status = "succeeded" /\ jobs'[j].leasedBy = NoWorker
            /\ jobs'[j].attempts = jobs[j].attempts
        BY <2>1, <2>3 DEF Settled, Succeeded, Released
      <3>2. Lifecycle(j)!Succeed
        BY <2>2, <3>1 DEF Lifecycle!Succeed
      <3> QED BY <1>1, <2>2, <3>1, <3>2 DEF LeaseKept, Life, Lifecycle!Next, Finished
    <2>4. CASE failed /\ jobs[j].attempts >= MaxAttempts
      <3>1. /\ jobs'[j].status = "dead_letter" /\ jobs'[j].leasedBy = NoWorker
            /\ jobs'[j].attempts = jobs[j].attempts
        BY <2>1, <2>4 DEF Settled, Failed, DeadLettered, Released
      <3>2. Lifecycle(j)!GiveUp
        BY <2>2, <2>4, <3>1, Bounds DEF Lifecycle!GiveUp
      <3> QED BY <1>1, <2>2, <3>1, <3>2 DEF LeaseKept, Life, Lifecycle!Next, Finished
    <2>5. CASE failed /\ ~(jobs[j].attempts >= MaxAttempts)
      <3>1. /\ jobs'[j].status = "retryable_failed" /\ jobs'[j].leasedBy = NoWorker
            /\ jobs'[j].attempts = jobs[j].attempts
        BY <2>1, <2>5 DEF Settled, Failed, RetryLater, Released
      <3>2. Lifecycle(j)!Retry
        BY <2>2, <2>5, <3>1, Bounds DEF Lifecycle!Retry
      <3> QED BY <1>1, <2>2, <3>1, <3>2 DEF LeaseKept, Life, Lifecycle!Next
    <2> QED BY <2>3, <2>4, <2>5
  <1>2. CASE ~(ws[w].job = j /\ HoldsLease(j, w, ws[w].left))
    BY <1>2, <1>a, SameRow DEF Settle, Same
  <1> QED BY <1>1, <1>2

\* Every other step leaves status, attempts and holder of every row alone.
LEMMA OtherRows ==
  ASSUME IndInv, NEW j \in Jobs,
         \/ Tick
         \/ \E w \in Workers :
              \/ BeginRenewal(w) \/ ExecuteRenewal(w) \/ LoseRenewal(w) \/ FinishRenewal(w)
              \/ FinishWork(w) \/ StopHeartbeat(w) \/ FinishLastRenewal(w)
              \/ LoseSettlement(w) \/ Crash(w) \/ Restart(w)
  PROVE  LeaseKept(j) /\ Life(j)
  <1>a. jobs \in [Jobs -> Row]
    BY DEF IndInv, TypeOK
  <1>1. CASE Tick
    BY <1>1, <1>a, AgedFields, SameRow DEF Tick, Same
  <1>2. CASE \E w \in Workers : ExecuteRenewal(w)
    <2>1. \/ jobs' = jobs
          \/ \E i \in Jobs : jobs' = [jobs EXCEPT ![i] = Renewed(jobs[i])]
      BY <1>2 DEF ExecuteRenewal, IndInv, ProcessesConsistent
    <2>2. \A i \in Jobs : /\ Renewed(jobs[i]).status = jobs[i].status
                          /\ Renewed(jobs[i]).attempts = jobs[i].attempts
                          /\ Renewed(jobs[i]).leasedBy = jobs[i].leasedBy
      BY <1>a DEF Renewed, Row
    <2> QED BY <1>a, <2>1, <2>2, SameRow DEF Same
  <1>3. CASE jobs' = jobs
    BY <1>3, SameRow DEF Same
  <1> QED
    BY <1>1, <1>2, <1>3
       DEF BeginRenewal, LoseRenewal, FinishRenewal, FinishWork, StopHeartbeat,
           FinishLastRenewal, LoseSettlement, Crash, Restart, queueVars

\* Every step treats every row as its lease and its life allow.
LEMMA NextRows ==
  ASSUME IndInv, Next, NEW j \in Jobs
  PROVE  LeaseKept(j) /\ Life(j)
  <1>1. ASSUME NEW w \in Workers, LeaseNothing(w)
        PROVE  LeaseKept(j) /\ Life(j)
    BY <1>1, SweptRow DEF LeaseNothing
  <1>2. ASSUME NEW w \in Workers, WorkerStep(w)
        PROVE  LeaseKept(j) /\ Life(j)
    BY <1>2, SettleRows, OtherRows DEF WorkerStep
  <1> QED BY <1>1, <1>2, LeaseRows, RequestRows, OtherRows DEF Next

-----------------------------------------------------------------------------

\* A lease that has not run out is taken from its holder by no one: the
\* action property LeaseRespected, for every instance.
THEOREM LeasesRespected == Spec => LeaseRespected
  <1>1. IndInv /\ [Next]_vars => [\A j \in Jobs : LeaseKept(j)]_vars
    BY NextRows
  <1> QED BY <1>1, AlwaysIndInv, PTL DEF Spec, LeaseRespected

\* Worker implements JobLifecycle for every row of the table.
THEOREM EveryRowImplementsLifecycle == Spec => ImplementsLifecycle
  <1>1. Init => \A j \in Jobs : Lifecycle(j)!Init
    <2> SUFFICES ASSUME Init, NEW j \in Jobs PROVE Lifecycle(j)!Init
      OBVIOUS
    <2>1. jobs[j] = Absent
      BY DEF Init, QueueInit
    <2>2. jobs[j].status = "absent" /\ jobs[j].attempts = 0 /\ jobs[j].leasedBy = NoWorker
      BY <2>1 DEF Absent
    <2> QED BY <2>2 DEF Lifecycle!Init
  <1>2. IndInv /\ [Next]_vars
          => [\A j \in Jobs : Lifecycle(j)!Next \/ UNCHANGED Lifecycle(j)!vars]_vars
    BY NextRows DEF Life
  <1> QED BY <1>1, <1>2, AlwaysIndInv, PTL DEF Spec, ImplementsLifecycle
=============================================================================
