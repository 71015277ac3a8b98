--------------------------- MODULE IngestionProofs ---------------------------
(***************************************************************************)
(* Proofs about Ingestion: IndInv is inductive, whatever the faults and    *)
(* erasures, and gives type correctness, the exclusiveness of extraction   *)
(* and the finality of success, each but for the workers that an erasure   *)
(* has torn from their version.                                            *)
(***************************************************************************)
EXTENDS Ingestion, TLAPS

\* A run keeps its worker's claim on a version, or gives it up.
Keeps(old, new) ==
  new.at \in Owning => /\ old.at \in Owning /\ old.version = new.version
                       /\ old.torn => new.torn

\* A run that is where Points and its fields allow it to be.
Consistent(r) ==
  /\ r \in Run
  /\ r.at # "idle" => r.job \in Jobs
  /\ r.at \in Owning \union {"stage"} => r.version \in Versions

\* A row that TypeOK and AttemptsLeft allow.
Sound(row) ==
  /\ row \in Version
  /\ row.overwritten \/ row.attempts <= MaxExtractions
  /\ row.status \in {"absent", "queued", "retryable_failed"}
       => row.overwritten \/ row.attempts < MaxExtractions

\* The rows differ in their contributors at most.
Alike(old, new) ==
  /\ new \in Version
  /\ new.status = old.status /\ new.attempts = old.attempts
  /\ new.overwritten = old.overwritten

\* The types of what the steps of ingest() leave alone.
Rest ==
  /\ members \subseteq Users /\ erasures \in 0 .. MaxErasures
  /\ jobs \in [Jobs -> JobRow]

\* TypeOK and AttemptsLeft, row by row.
LEMMA SoundRows ==
  IndInv => /\ versions \in [Versions -> Version]
            /\ \A v \in Versions : Sound(versions[v])
BY DEF IndInv, TypeOK, AttemptsLeft, Sound

\* An unchanged table is alike.
LEMMA SameRows ==
  ASSUME TypeOK, versions' = versions
  PROVE  versions' \in [Versions -> Version] /\ \A x \in Versions : Alike(versions[x], versions'[x])
BY DEF TypeOK, Alike

\* Rest holds after a step that leaves its variables alone.
LEMMA SameRest ==
  ASSUME TypeOK, UNCHANGED <<members, erasures, jobs>>
  PROVE  Rest'
BY DEF TypeOK, Rest

\* A step of one worker that leaves the versions alone, but for contributors,
\* preserves the invariant if the worker claims no version it did not have.
LEMMA RunStep ==
  ASSUME IndInv, NEW w \in Workers, NEW r,
         runs' = [runs EXCEPT ![w] = r],
         versions' \in [Versions -> Version],
         \A x \in Versions : Alike(versions[x], versions'[x]),
         Rest', Consistent(r), Keeps(runs[w], r),
         r.torn \/ Finds(r, versions[r.version])
  PROVE  IndInv'
<1>1. \A u \in Workers : runs'[u] = IF u = w THEN r ELSE runs[u]
  BY DEF IndInv, TypeOK
<1>2. TypeOK'
  <2>1. runs' \in [Workers -> Run]
    BY DEF IndInv, TypeOK, Consistent
  <2>2. \A x \in Versions : versions'[x].overwritten \/ versions'[x].attempts <= MaxExtractions
    BY SoundRows DEF Alike, Sound
  <2> QED BY <2>1, <2>2 DEF TypeOK, Rest
<1>3. AttemptsLeft'
  BY SoundRows DEF AttemptsLeft, Alike, Sound
<1>4. RunsConsistent'
  BY <1>1 DEF IndInv, RunsConsistent, Consistent
<1>5. OwnedVersions'
  <2> SUFFICES ASSUME NEW u \in Workers
               PROVE  runs'[u].torn \/ Finds(runs'[u], versions'[runs'[u].version])
    BY DEF OwnedVersions, Finds
  <2>1. runs'[u].torn \/ Finds(runs'[u], versions[runs'[u].version])
    BY <1>1 DEF IndInv, OwnedVersions
  <2>2. CASE runs'[u].at \in Owning
    <3>1. runs'[u].version \in Versions
      BY <1>4, <2>2 DEF RunsConsistent
    <3> QED BY <2>1, <3>1 DEF Finds, Alike
  <2>3. CASE runs'[u].at \notin Owning
    BY <2>3 DEF Finds, Owning
  <2> QED BY <2>2, <2>3
<1>6. ExtractionExclusive'
  BY <1>1 DEF IndInv, ExtractionExclusive, Keeps
<1> QED BY <1>2, <1>3, <1>4, <1>5, <1>6 DEF IndInv

\* Whoever else is at the version is torn, and so is the worker that stays
\* beside it.
Alone(w, v, r) ==
  \A u \in Workers \ {w} : At(u, v) => runs[u].torn /\ (r.at \in Owning => r.torn)

\* A step of one worker that writes one version preserves the invariant if
\* no other worker, unless torn, has claimed that version.
LEMMA VersionStep ==
  ASSUME IndInv, NEW w \in Workers, NEW r, NEW v \in Versions, NEW row,
         runs' = [runs EXCEPT ![w] = r], versions' = [versions EXCEPT ![v] = row],
         Rest', Consistent(r), r.version = v, Sound(row),
         r.torn \/ Finds(r, row), Alone(w, v, r)
  PROVE  IndInv'
<1>1. \A u \in Workers : runs'[u] = IF u = w THEN r ELSE runs[u]
  BY DEF IndInv, TypeOK
<1>a. \A x \in Versions : versions'[x] = IF x = v THEN row ELSE versions[x]
  BY SoundRows
<1>b. \A x \in Versions : Sound(versions'[x])
  BY <1>a, SoundRows
<1>2. TypeOK'
  <2>1. runs' \in [Workers -> Run]
    BY DEF IndInv, TypeOK, Consistent
  <2>2. versions' \in [Versions -> Version]
    BY SoundRows DEF Sound
  <2>3. \A x \in Versions : versions'[x].overwritten \/ versions'[x].attempts <= MaxExtractions
    BY <1>b DEF Sound
  <2> QED BY <2>1, <2>2, <2>3 DEF TypeOK, Rest
<1>3. AttemptsLeft'
  BY <1>b DEF AttemptsLeft, Sound
<1>4. RunsConsistent'
  BY <1>1 DEF IndInv, RunsConsistent, Consistent
<1>5. OwnedVersions'
  <2> SUFFICES ASSUME NEW u \in Workers
               PROVE  runs'[u].torn \/ Finds(runs'[u], versions'[runs'[u].version])
    BY DEF OwnedVersions, Finds
  <2>1. runs[u].torn \/ Finds(runs[u], versions[runs[u].version])
    BY DEF IndInv, OwnedVersions
  <2>2. CASE u = w
    BY <1>1, <1>a, <2>2
  <2>3. CASE u # w /\ At(u, v)
    BY <1>1, <2>3 DEF Alone
  <2>4. CASE u # w /\ runs[u].at \in Owning /\ runs[u].version # v
    <3>1. runs[u].version \in Versions
      BY <2>4 DEF IndInv, RunsConsistent
    <3> QED BY <1>1, <1>a, <2>1, <2>4, <3>1
  <2>5. CASE u # w /\ runs[u].at \notin Owning
    BY <1>1, <2>5 DEF Finds, Owning
  <2> QED BY <2>2, <2>3, <2>4, <2>5 DEF At
<1>6. ExtractionExclusive'
  <2> SUFFICES ASSUME NEW u \in Workers, NEW x \in Workers, u # x,
                      runs'[u].at \in Owning, runs'[x].at \in Owning,
                      runs'[u].version = runs'[x].version
               PROVE  runs'[u].torn /\ runs'[x].torn
    BY DEF ExtractionExclusive
  <2>1. CASE u # w /\ x # w
    BY <1>1, <2>1 DEF IndInv, ExtractionExclusive
  <2>2. CASE u = w
    BY <1>1, <2>2 DEF Alone, At
  <2>3. CASE x = w
    BY <1>1, <2>3 DEF Alone, At
  <2> QED BY <2>1, <2>2, <2>3
<1> QED BY <1>2, <1>3, <1>4, <1>5, <1>6 DEF IndInv

-----------------------------------------------------------------------------

\* Moving a worker to another point touches nothing else of its run.
LEMMA Moved ==
  ASSUME TypeOK, NEW w \in Workers, NEW p \in Points,
         runs' = [runs EXCEPT ![w].at = p]
  PROVE  LET r == runs'[w] IN
         /\ runs' = [runs EXCEPT ![w] = r]
         /\ r \in Run /\ r.at = p
         /\ r.job = runs[w].job /\ r.version = runs[w].version
         /\ r.attempt = runs[w].attempt /\ r.torn = runs[w].torn
BY DEF TypeOK, Run

\* An exception leaves the version alone and gives up the claim on it.
LEMMA ThrownRun ==
  ASSUME IndInv, NEW w \in Workers, runs[w].at # "idle", runs' = Thrown(w)
  PROVE  LET r == runs'[w] IN
         /\ runs' = [runs EXCEPT ![w] = r]
         /\ Consistent(r) /\ r.at \in {"settle", "links"}
         /\ r.version = runs[w].version
<1>1. runs \in [Workers -> Run] /\ runs[w].job \in Jobs
  BY DEF IndInv, TypeOK, RunsConsistent
<1>2. IsRoot(w) \in BOOLEAN
  BY DEF IsRoot
<1>3. runs'[w] = [runs[w] EXCEPT !.at = IF IsRoot(w) THEN "settle" ELSE "links",
                                 !.failed = IsRoot(w)]
  BY <1>1 DEF Thrown
<1>4. runs' = [runs EXCEPT ![w] = runs'[w]]
  BY <1>1 DEF Thrown
<1>5. runs'[w] \in Run
  BY <1>1, <1>2, <1>3 DEF Run, Points
<1>6. /\ runs'[w].at \in {"settle", "links"}
      /\ runs'[w].job = runs[w].job /\ runs'[w].version = runs[w].version
  BY <1>1, <1>3 DEF Run
<1> QED BY <1>1, <1>4, <1>5, <1>6 DEF Consistent, Owning

\* A step that leaves runs and versions alone preserves the invariant.
LEMMA JobStep ==
  ASSUME IndInv, UNCHANGED <<versions, runs>>, Rest'
  PROVE  IndInv'
<1>1. TypeOK'
  BY DEF IndInv, TypeOK, Rest
<1>2. AttemptsLeft' /\ RunsConsistent' /\ OwnedVersions' /\ ExtractionExclusive'
  BY DEF IndInv, AttemptsLeft, RunsConsistent, OwnedVersions, Finds, ExtractionExclusive
<1> QED BY <1>1, <1>2 DEF IndInv

\* Submit only writes the row of a job that did not exist.
LEMMA SubmitIndInv ==
  ASSUME IndInv, NEW j \in Jobs, Submit(j)
  PROVE  IndInv'
<1>1. jobs' \in [Jobs -> JobRow]
  BY DEF IndInv, TypeOK, Submit, JobRow, JobStatuses
<1>2. Rest'
  BY <1>1 DEF IndInv, TypeOK, Submit, Rest
<1> QED BY <1>2, JobStep DEF Submit

\* Giving up a job leaves the versions and the workers alone.
LEMMA GiveUpIndInv ==
  ASSUME IndInv, NEW j \in Jobs, GiveUp(j)
  PROVE  IndInv'
<1>1. jobs' \in [Jobs -> JobRow]
  <2>1. jobs \in [Jobs -> JobRow]
    BY DEF IndInv, TypeOK
  <2> DEFINE row == [jobs[j] EXCEPT !.status = "dead_letter", !.holder = NoWorker]
  <2>2. row \in JobRow
    BY <2>1 DEF JobRow, JobStatuses
  <2>3. jobs' = [jobs EXCEPT ![j] = row]
    BY <2>1 DEF GiveUp
  <2> QED BY <2>1, <2>2, <2>3
<1>2. Rest'
  BY <1>1 DEF IndInv, TypeOK, GiveUp, Rest
<1> QED BY <1>2, JobStep DEF GiveUp

\* A leased job starts a run that has claimed nothing.
LEMMA LeaseIndInv ==
  ASSUME IndInv, NEW w \in Workers, NEW j \in Jobs, Lease(w, j)
  PROVE  IndInv'
<1> DEFINE r == FreshRun("fetch", j)
<1>1. jobs' \in [Jobs -> JobRow]
  BY IngestionAssumptions DEF IndInv, TypeOK, Lease, JobRow, JobStatuses
<1>2. Consistent(r) /\ r.at = "fetch"
  <2>3. r.at = "fetch" /\ r.job = j
    BY DEF FreshRun
  <2>4. r \in Run
    BY DEF Run, Points, FreshRun
  <2> QED BY <2>3, <2>4 DEF Consistent, Owning
<1>3. Keeps(runs[w], r) /\ Finds(r, versions[r.version])
  BY <1>2 DEF Keeps, Finds, Owning
<1>4. Rest' /\ TypeOK /\ versions' = versions /\ runs' = [runs EXCEPT ![w] = r]
  BY <1>1 DEF Lease, Rest, IndInv, TypeOK
<1> HIDE DEF r
<1> QED BY <1>2, <1>3, <1>4, SameRows, RunStep

\* A dead worker claims nothing.
LEMMA CrashIndInv ==
  ASSUME IndInv, NEW w \in Workers, Crash(w)
  PROVE  IndInv'
<1>2. Consistent(Resting) /\ Resting.at = "idle"
  BY IngestionAssumptions DEF Consistent, Run, Points, Resting, FreshRun, Owning
<1>3. Keeps(runs[w], Resting) /\ Finds(Resting, versions[Resting.version])
  BY <1>2 DEF Keeps, Finds, Owning
<1>4. Rest' /\ TypeOK /\ versions' = versions /\ runs' = [runs EXCEPT ![w] = Resting]
  BY DEF Crash, Rest, IndInv, TypeOK
<1> QED BY <1>2, <1>3, <1>4, SameRows, RunStep

\* Settling writes the row of the worker's job and ends its run.
LEMMA SettleIndInv ==
  ASSUME IndInv, NEW w \in Workers, Settle(w)
  PROVE  IndInv'
<1>1. jobs' \in [Jobs -> JobRow]
  <2>1. runs[w].job \in Jobs /\ jobs \in [Jobs -> JobRow]
    BY DEF Settle, IndInv, TypeOK, RunsConsistent
  <2>2. Outcome(w) \in JobStatuses
    BY DEF Outcome, JobStatuses
  <2> QED BY <2>1, <2>2 DEF Settle, JobRow
<1>2. Consistent(Resting) /\ Resting.at = "idle"
  BY IngestionAssumptions DEF Consistent, Run, Points, Resting, FreshRun, Owning
<1>3. Keeps(runs[w], Resting) /\ Finds(Resting, versions[Resting.version])
  BY <1>2 DEF Keeps, Finds, Owning
<1>4. Rest' /\ TypeOK /\ versions' = versions /\ runs' = [runs EXCEPT ![w] = Resting]
  BY <1>1 DEF Settle, Rest, IndInv, TypeOK
<1> QED BY <1>2, <1>3, <1>4, SameRows, RunStep

\* A fetch names the version to stage or ends the run.
LEMMA FetchIndInv ==
  ASSUME IndInv, NEW w \in Workers, Fetch(w)
  PROVE  IndInv'
<1> DEFINE r == runs'[w]
<1>1. TypeOK /\ runs[w].job \in Jobs /\ runs[w] \in Run
  BY DEF IndInv, TypeOK, RunsConsistent, Fetch
<1>2. RootOf[runs[w].job] \in Versions
  BY <1>1, IngestionAssumptions
<1>3. runs' = [runs EXCEPT ![w] = r]
  BY <1>1 DEF Fetch, TypeOK
<1>4. CASE r = [runs[w] EXCEPT !.at = "stage", !.version = RootOf[runs[w].job]]
  <2>1. r \in Run
    BY <1>1, <1>2, <1>4 DEF Run, Points
  <2>2. r.at = "stage" /\ r.job \in Jobs /\ r.version \in Versions
    BY <1>1, <1>2, <1>4 DEF Run
  <2>3. Consistent(r) /\ Keeps(runs[w], r) /\ Finds(r, versions[r.version])
    BY <2>1, <2>2 DEF Consistent, Keeps, Finds, Owning
  <2>4. Rest' /\ versions' = versions
    BY <1>1, SameRest DEF Fetch
  <2> HIDE DEF r
  <2> QED BY <1>1, <1>3, <2>3, <2>4, SameRows, RunStep
<1>5. CASE r = [runs[w] EXCEPT !.at = "settle", !.failed = TRUE]
  <2>1. r \in Run
    BY <1>1, <1>5 DEF Run, Points
  <2>2. r.at = "settle" /\ r.job \in Jobs
    BY <1>1, <1>5 DEF Run
  <2>3. Consistent(r) /\ Keeps(runs[w], r) /\ Finds(r, versions[r.version])
    BY <2>1, <2>2 DEF Consistent, Keeps, Finds, Owning
  <2>4. Rest' /\ versions' = versions
    BY <1>1, SameRest DEF Fetch
  <2> HIDE DEF r
  <2> QED BY <1>1, <1>3, <2>3, <2>4, SameRows, RunStep
<1> QED BY <1>1, <1>4, <1>5 DEF Fetch, TypeOK

\* LinksDone, Extract and StoreAborted only move the worker, and never to a
\* claim it did not have.
LEMMA MoveIndInv ==
  ASSUME IndInv, NEW w \in Workers, NEW p \in Points,
         runs[w].at # "idle",
         runs' = [runs EXCEPT ![w].at = p],
         UNCHANGED <<members, erasures, versions, jobs>>,
         \/ p = "settle"
         \/ runs[w].at = "extract" /\ p \in {"store", "fail"}
         \/ runs[w].at = "store" /\ p = "fail"
  PROVE  IndInv'
<1> DEFINE r == runs'[w]
<1>1. TypeOK
  BY DEF IndInv
<1>2. /\ runs' = [runs EXCEPT ![w] = r]
      /\ r \in Run /\ r.at = p
      /\ r.job = runs[w].job /\ r.version = runs[w].version
      /\ r.attempt = runs[w].attempt /\ r.torn = runs[w].torn
  BY <1>1, Moved
<1>3. Consistent(r)
  BY <1>2 DEF IndInv, RunsConsistent, Consistent, Owning
<1>4. Keeps(runs[w], r)
  BY <1>2 DEF Keeps, Owning
<1>5. r.torn \/ Finds(r, versions[r.version])
  BY <1>2 DEF IndInv, OwnedVersions, Finds
<1>6. Rest' /\ versions' = versions /\ runs' = [runs EXCEPT ![w] = r]
  BY <1>1, <1>2, SameRest
<1> HIDE DEF r
<1> QED BY <1>1, <1>3, <1>4, <1>5, <1>6, SameRows, RunStep

\* An exception that writes nothing only gives up the claim.
LEMMA ThrownIndInv ==
  ASSUME IndInv, NEW w \in Workers, runs[w].at # "idle", runs' = Thrown(w),
         UNCHANGED <<members, erasures, versions, jobs>>
  PROVE  IndInv'
<1> DEFINE r == runs'[w]
<1>1. TypeOK
  BY DEF IndInv
<1>2. /\ runs' = [runs EXCEPT ![w] = r]
      /\ Consistent(r) /\ r.at \in {"settle", "links"}
  BY ThrownRun
<1>3. Keeps(runs[w], r) /\ Finds(r, versions[r.version])
  BY <1>2 DEF Keeps, Finds, Owning
<1>4. Rest' /\ versions' = versions
  BY <1>1, SameRest
<1>5. runs' = [runs EXCEPT ![w] = r] /\ Consistent(r)
  BY <1>2
<1> HIDE DEF r
<1> QED BY <1>1, <1>3, <1>4, <1>5, SameRows, RunStep

\* Following a link names the version to stage or passes it over.
LEMMA FollowLinkIndInv ==
  ASSUME IndInv, NEW w \in Workers, FollowLink(w)
  PROVE  IndInv'
<1> DEFINE r == runs'[w]
<1>1. TypeOK /\ runs[w].job \in Jobs /\ runs[w] \in Run /\ runs[w].at = "links"
  BY DEF IndInv, TypeOK, RunsConsistent, FollowLink
<1>2. PICK v \in runs[w].todo :
        \/ runs' = [runs EXCEPT ![w].at = "stage", ![w].version = v, ![w].todo = @ \ {v}]
        \/ runs' = [runs EXCEPT ![w].todo = @ \ {v}]
  BY DEF FollowLink
<1>3. runs' = [runs EXCEPT ![w] = r]
  BY <1>1, <1>2 DEF TypeOK
<1>4. v \in Versions /\ runs[w].todo \ {v} \in SUBSET Versions
  BY <1>1 DEF Run
<1>5. CASE r = [runs[w] EXCEPT !.at = "stage", !.version = v, !.todo = @ \ {v}]
  <2>1. r \in Run
    BY <1>1, <1>4, <1>5 DEF Run, Points
  <2>2. r.at = "stage" /\ r.job \in Jobs /\ r.version \in Versions
    BY <1>1, <1>4, <1>5 DEF Run
  <2>3. Consistent(r) /\ Keeps(runs[w], r) /\ Finds(r, versions[r.version])
    BY <2>1, <2>2 DEF Consistent, Keeps, Finds, Owning
  <2>4. Rest' /\ versions' = versions
    BY <1>1, SameRest DEF FollowLink
  <2> HIDE DEF r
  <2> QED BY <1>1, <1>3, <2>3, <2>4, SameRows, RunStep
<1>6. CASE r = [runs[w] EXCEPT !.todo = @ \ {v}]
  <2>1. r \in Run
    BY <1>1, <1>4, <1>6 DEF Run, Points
  <2>2. r.at = "links" /\ r.job \in Jobs
    BY <1>1, <1>6 DEF Run
  <2>3. Consistent(r) /\ Keeps(runs[w], r) /\ Finds(r, versions[r.version])
    BY <2>1, <2>2 DEF Consistent, Keeps, Finds, Owning
  <2>4. Rest' /\ versions' = versions
    BY <1>1, SameRest DEF FollowLink
  <2> HIDE DEF r
  <2> QED BY <1>1, <1>3, <2>3, <2>4, SameRows, RunStep
<1> QED BY <1>1, <1>2, <1>5, <1>6 DEF TypeOK

\* Whoever else is at a claimed version is torn, as is its claimant.
LEMMA ClaimedAlone ==
  ASSUME IndInv, NEW w \in Workers, NEW r, runs[w].at \in Owning,
         r.at \in Owning => (runs[w].torn => r.torn)
  PROVE  Alone(w, runs[w].version, r)
BY DEF IndInv, ExtractionExclusive, Alone, At

\* Whoever is at a version that stageSource would queue is torn.
LEMMA UnclaimedTorn ==
  ASSUME IndInv, NEW v \in Versions, ShouldProcess(v), NEW u \in Workers, At(u, v)
  PROVE  runs[u].torn
BY DEF IndInv, OwnedVersions, Finds, Owning, ShouldProcess, At

\* What stageSource writes: the contributor, and the status of a version that
\* should be processed.
LEMMA StagedRow ==
  ASSUME IndInv, NEW w \in Workers, runs[w].version \in Versions, runs[w].job \in Jobs,
         versions' = Staged(w)
  PROVE  LET v == runs[w].version
             row == versions'[v] IN
         /\ versions' = [versions EXCEPT ![v] = row]
         /\ versions' \in [Versions -> Version]
         /\ Sound(row)
         /\ ShouldProcess(v) => row.status = "queued"
         /\ ~ShouldProcess(v) => \A x \in Versions : Alike(versions[x], versions'[x])
<1> DEFINE v == runs[w].version
           old == versions[v]
           row == versions'[v]
           s == IF ShouldProcess(v) THEN "queued" ELSE old.status
           by == old.by \union {Contributor(w)}
<1>1. versions \in [Versions -> Version] /\ old \in Version /\ Sound(old)
  BY SoundRows
<1>2. Contributor(w) \in Users
  BY IngestionAssumptions DEF Contributor
<1>3. s \in VersionStatuses /\ by \in SUBSET Users
  BY <1>1, <1>2 DEF Version, VersionStatuses
<1>4. row = [old EXCEPT !.status = s, !.by = by]
  BY <1>1 DEF Staged
<1>5. versions' = [versions EXCEPT ![v] = row]
  BY <1>1 DEF Staged
<1>6. /\ row \in Version /\ row.status = s
      /\ row.attempts = old.attempts /\ row.overwritten = old.overwritten
  <2> HIDE DEF s, by, row, old
  <2> QED BY <1>1, <1>3, <1>4 DEF Version
<1>7. versions' \in [Versions -> Version]
  BY <1>1, <1>5, <1>6
<1>8. Sound(row)
  <2>1. ShouldProcess(v) => old.overwritten \/ old.attempts < MaxExtractions
    BY <1>1 DEF ShouldProcess, Sound
  <2> HIDE DEF row
  <2> QED BY <1>1, <1>6, <2>1 DEF Sound
<1>9. ~ShouldProcess(v) => \A x \in Versions : Alike(versions[x], versions'[x])
  <2>1. ~ShouldProcess(v) => Alike(old, row)
    BY <1>6 DEF Alike
  <2>2. \A x \in Versions : x # v => versions'[x] = versions[x]
    BY <1>1, <1>5
  <2>3. \A x \in Versions : Alike(versions[x], versions[x])
    BY <1>1 DEF Alike
  <2> QED BY <2>1, <2>2, <2>3
<1> QED BY <1>5, <1>6, <1>7, <1>8, <1>9

\* Staging claims a version no other worker has, unless torn.
LEMMA StageIndInv ==
  ASSUME IndInv, NEW w \in Workers, Stage(w)
  PROVE  IndInv'
<1> DEFINE v == runs[w].version
           r == runs'[w]
           row == versions'[v]
           p == IF ShouldProcess(v) THEN "mark" ELSE IF IsRoot(w) THEN "settle" ELSE "links"
           torn == \E u \in Workers : At(u, v) /\ runs[u].torn
<1>1. TypeOK /\ v \in Versions /\ runs[w].at = "stage" /\ runs[w] \in Run /\ runs[w].job \in Jobs
  BY DEF IndInv, TypeOK, RunsConsistent, Stage
<1>2. /\ versions' = [versions EXCEPT ![v] = row]
      /\ versions' \in [Versions -> Version] /\ Sound(row)
      /\ ShouldProcess(v) => row.status = "queued"
      /\ ~ShouldProcess(v) => \A x \in Versions : Alike(versions[x], versions'[x])
  BY <1>1, StagedRow DEF Stage
<1>3. r = [runs[w] EXCEPT !.at = p, !.torn = torn] /\ runs' = [runs EXCEPT ![w] = r]
  BY <1>1 DEF Stage, TypeOK
<1>4. p \in Points /\ torn \in BOOLEAN
  BY DEF Points
<1>5. r \in Run /\ r.at = p /\ r.job = runs[w].job /\ r.version = v /\ (r.torn <=> torn)
  <2> HIDE DEF p, torn, r
  <2> QED BY <1>1, <1>3, <1>4 DEF Run
<1>6. Consistent(r) /\ r.version = v
  BY <1>1, <1>5 DEF Consistent
<1>7. Rest' /\ runs' = [runs EXCEPT ![w] = r]
  BY <1>1, <1>3, SameRest DEF Stage
<1>8. CASE ~ShouldProcess(v)
  <2>1. r.at \in {"settle", "links"}
    BY <1>5, <1>8
  <2>2. Keeps(runs[w], r) /\ Finds(r, versions[r.version])
    BY <2>1 DEF Keeps, Finds, Owning
  <2>3. versions' \in [Versions -> Version] /\ \A x \in Versions : Alike(versions[x], versions'[x])
    BY <1>2, <1>8
  <2> HIDE DEF r, row, v
  <2> QED BY <1>6, <1>7, <2>2, <2>3, RunStep
<1>9. CASE ShouldProcess(v)
  <2>1. Finds(r, row)
    BY <1>2, <1>5, <1>9 DEF Finds
  <2>2. Alone(w, v, r)
    <3> SUFFICES ASSUME NEW u \in Workers \ {w}, At(u, v)
                 PROVE  runs[u].torn /\ r.torn
      BY DEF Alone
    <3>1. runs[u].torn
      BY <1>1, <1>9, UnclaimedTorn
    <3> QED BY <1>5, <3>1
  <2>3. versions' = [versions EXCEPT ![v] = row] /\ Sound(row) /\ v \in Versions
    BY <1>1, <1>2
  <2> HIDE DEF r, row, v
  <2> QED BY <1>6, <1>7, <2>1, <2>2, <2>3, VersionStep
<1> QED BY <1>8, <1>9

\* Counting an attempt of a version that is ready keeps the rows consistent.
LEMMA ProcessingRow ==
  ASSUME IndInv, NEW v \in Versions, Ready(v), versions' = Processing(v)
  PROVE  LET row == versions'[v] IN
         /\ versions' = [versions EXCEPT ![v] = row]
         /\ Sound(row) /\ row.status = "processing"
         /\ row.attempts = versions[v].attempts + 1
<1> DEFINE old == versions[v]
           row == versions'[v]
           n == old.attempts + 1
<1>1. versions \in [Versions -> Version] /\ old \in Version /\ Sound(old)
  BY SoundRows
<1>2. old.overwritten \/ old.attempts < MaxExtractions
  BY <1>1 DEF Ready, Sound
<1>3. n \in Nat /\ old.attempts \in Nat
  BY <1>1 DEF Version
<1>4. row = [old EXCEPT !.status = "processing", !.attempts = n]
  BY <1>1 DEF Processing
<1>5. versions' = [versions EXCEPT ![v] = row]
  BY <1>1 DEF Processing
<1>6. /\ row \in Version /\ row.status = "processing"
      /\ row.attempts = n /\ row.overwritten = old.overwritten
  <2> HIDE DEF n, row, old
  <2> QED BY <1>1, <1>3, <1>4 DEF Version, VersionStatuses
<1>7. Sound(row)
  <2> HIDE DEF row
  <2>1. old.overwritten \/ n <= MaxExtractions
    BY <1>2, <1>3, IngestionAssumptions
  <2> QED BY <1>6, <2>1 DEF Sound
<1> QED BY <1>5, <1>6, <1>7

\* markSourceProcessing counts an attempt of a version its worker has claimed.
LEMMA MarkProcessingIndInv ==
  ASSUME IndInv, NEW w \in Workers, MarkProcessing(w)
  PROVE  IndInv'
<1> DEFINE v == runs[w].version
           r == runs'[w]
           row == versions'[v]
           n == versions[v].attempts + 1
<1>1. TypeOK /\ v \in Versions /\ runs[w].at = "mark" /\ runs[w] \in Run /\ runs[w].job \in Jobs
  BY DEF IndInv, TypeOK, RunsConsistent, MarkProcessing, Owning
<1>2. /\ versions' = [versions EXCEPT ![v] = row]
      /\ Sound(row) /\ row.status = "processing" /\ row.attempts = n
  BY <1>1, ProcessingRow DEF MarkProcessing
<1>3. n \in Nat
  BY <1>1 DEF TypeOK, Version
<1>4. r = [runs[w] EXCEPT !.at = "extract", !.attempt = n] /\ runs' = [runs EXCEPT ![w] = r]
  BY <1>1 DEF MarkProcessing, TypeOK
<1>5. /\ r \in Run /\ r.at = "extract" /\ r.job = runs[w].job /\ r.version = v
      /\ r.attempt = n /\ r.torn = runs[w].torn
  <2> HIDE DEF n, r
  <2> QED BY <1>1, <1>3, <1>4 DEF Run, Points
<1>6. Consistent(r) /\ Finds(r, row) /\ r.version = v
  BY <1>1, <1>2, <1>5 DEF Consistent, Finds
<1>7. Alone(w, v, r)
  BY <1>1, <1>5, ClaimedAlone DEF Owning
<1>8. Rest' /\ runs' = [runs EXCEPT ![w] = r] /\ v \in Versions
  BY <1>1, <1>4, SameRest DEF MarkProcessing
<1> HIDE DEF r, row, v
<1> QED BY <1>2, <1>6, <1>7, <1>8, VersionStep

\* Recording an outcome changes the status of the row, if there is one.
LEMMA RecordedRow ==
  ASSUME IndInv, NEW v \in Versions, NEW s \in VersionStatuses \ {"absent"},
         versions[v].status # "absent", versions' = Recorded(v, s)
  PROVE  LET row == versions'[v] IN
         /\ versions' = [versions EXCEPT ![v] = row]
         /\ row \in Version /\ row.status = s /\ row.attempts = versions[v].attempts
         /\ row.overwritten = versions[v].overwritten
         /\ row.overwritten \/ row.attempts <= MaxExtractions
<1>1. versions \in [Versions -> Version] /\ Sound(versions[v])
  BY SoundRows
<1>2. versions' = [versions EXCEPT ![v].status = s]
  BY DEF Recorded
<1>3. /\ versions' = [versions EXCEPT ![v] = versions'[v]]
      /\ versions'[v] \in Version /\ versions'[v].status = s
      /\ versions'[v].attempts = versions[v].attempts
      /\ versions'[v].overwritten = versions[v].overwritten
  BY <1>1, <1>2 DEF Version
<1> QED BY <1>1, <1>3 DEF Sound

\* Storing the claims finishes a version its worker has claimed.
LEMMA StoreClaimsIndInv ==
  ASSUME IndInv, NEW w \in Workers, StoreClaims(w)
  PROVE  IndInv'
<1> DEFINE v == runs[w].version
           r == runs'[w]
           row == versions'[v]
           todo == IF IsRoot(w) THEN Links[v] ELSE runs[w].todo
<1>1. TypeOK /\ v \in Versions /\ runs[w].at = "store" /\ runs[w] \in Run /\ runs[w].job \in Jobs
  BY DEF IndInv, TypeOK, RunsConsistent, StoreClaims, Owning
<1>2. r = [runs[w] EXCEPT !.at = "links", !.todo = todo] /\ runs' = [runs EXCEPT ![w] = r]
  BY <1>1 DEF StoreClaims, TypeOK
<1>3. todo \in SUBSET Versions
  BY <1>1, IngestionAssumptions DEF Run
<1>4. r \in Run /\ r.at = "links" /\ r.job = runs[w].job /\ r.version = v
  <2> HIDE DEF todo
  <2> QED BY <1>1, <1>2, <1>3 DEF Run, Points
<1>5. Consistent(r) /\ Finds(r, row) /\ Finds(r, versions[r.version]) /\ Keeps(runs[w], r)
  BY <1>1, <1>4 DEF Consistent, Finds, Keeps, Owning
<1>6. Rest' /\ runs' = [runs EXCEPT ![w] = r] /\ v \in Versions /\ r.version = v
  BY <1>1, <1>2, <1>4, SameRest DEF StoreClaims
<1>7. CASE versions[v].status = "absent"
  <2>1. versions' = versions
    BY <1>7 DEF StoreClaims, Recorded
  <2> HIDE DEF r, row, v
  <2> QED BY <1>1, <1>5, <1>6, <2>1, SameRows, RunStep
<1>8. CASE versions[v].status # "absent"
  <2>1. versions' = [versions EXCEPT ![v] = row] /\ Sound(row)
    BY <1>1, <1>8, RecordedRow DEF StoreClaims, VersionStatuses, Sound
  <2>2. Alone(w, v, r)
    BY <1>1, <1>4, ClaimedAlone DEF Owning
  <2> HIDE DEF r, row, v
  <2> QED BY <1>5, <1>6, <2>1, <2>2, VersionStep
<1> QED BY <1>7, <1>8

\* An unanswered commit finishes the version, which stays claimed.
LEMMA CommitUnansweredIndInv ==
  ASSUME IndInv, NEW w \in Workers, CommitUnanswered(w)
  PROVE  IndInv'
<1> DEFINE v == runs[w].version
           r == runs'[w]
           row == versions'[v]
<1>1. TypeOK /\ v \in Versions /\ runs[w].at = "store" /\ runs[w].job \in Jobs
  BY DEF IndInv, RunsConsistent, CommitUnanswered, Owning
<1>2. runs' = [runs EXCEPT ![w].at = "fail"] /\ "fail" \in Points
  BY DEF CommitUnanswered, Points
<1>3. /\ runs' = [runs EXCEPT ![w] = r]
      /\ r \in Run /\ r.at = "fail" /\ r.job = runs[w].job /\ r.version = v
      /\ r.attempt = runs[w].attempt /\ r.torn = runs[w].torn
  BY <1>1, <1>2, Moved
<1>4. runs[w].torn \/ Finds(runs[w], versions[v])
  BY DEF IndInv, OwnedVersions
<1>5. Consistent(r) /\ Keeps(runs[w], r) /\ r.version = v
  BY <1>1, <1>3 DEF Consistent, Keeps, Owning
<1>6. Rest' /\ runs' = [runs EXCEPT ![w] = r] /\ v \in Versions
  BY <1>1, <1>3, SameRest DEF CommitUnanswered
<1>7. CASE versions[v].status = "absent"
  <2>1. versions' = versions
    BY <1>7 DEF CommitUnanswered, Recorded
  <2>2. r.torn
    BY <1>1, <1>3, <1>4, <1>7 DEF Finds
  <2> HIDE DEF r, row, v
  <2> QED BY <1>1, <1>5, <1>6, <2>1, <2>2, SameRows, RunStep
<1>8. CASE versions[v].status # "absent"
  <2>1. /\ versions' = [versions EXCEPT ![v] = row] /\ Sound(row)
        /\ row.status = "succeeded" /\ row.attempts = versions[v].attempts
    BY <1>1, <1>8, RecordedRow DEF CommitUnanswered, VersionStatuses, Sound
  <2>2. r.torn \/ Finds(r, row)
    BY <1>1, <1>3, <1>4, <2>1 DEF Finds, CommitUnanswered
  <2>3. Alone(w, v, r)
    BY <1>1, <1>3, ClaimedAlone DEF Owning
  <2> HIDE DEF r, row, v
  <2> QED BY <1>5, <1>6, <2>1, <2>2, <2>3, VersionStep
<1> QED BY <1>7, <1>8

\* markSourceFailed records the outcome of the version its worker is at.
LEMMA MarkFailedIndInv ==
  ASSUME IndInv, NEW w \in Workers, MarkFailed(w)
  PROVE  IndInv'
<1> DEFINE v == runs[w].version
           r == runs'[w]
           old == versions[v]
           row == versions'[v]
           s == FailedStatus(runs[w].attempt)
           recorded == Recorded(v, s)
           ow == old.overwritten \/ (runs[w].torn /\ recorded # versions)
<1>1. /\ TypeOK /\ v \in Versions /\ runs[w].at = "fail" /\ runs[w] \in Run
      /\ versions \in [Versions -> Version] /\ old \in Version /\ Sound(old)
  BY SoundRows DEF IndInv, TypeOK, RunsConsistent, MarkFailed, Owning
<1>2. s \in {"retryable_failed", "terminal_failed"} /\ s \in VersionStatuses
  BY DEF FailedStatus, VersionStatuses
<1>3. runs[w].at # "idle" /\ runs' = Thrown(w)
  BY <1>1 DEF MarkFailed
<1>4. /\ runs' = [runs EXCEPT ![w] = r]
      /\ Consistent(r) /\ r.at \in {"settle", "links"} /\ r.version = v
  BY <1>3, ThrownRun
<1>5. Finds(r, row) /\ Finds(r, versions[r.version]) /\ Keeps(runs[w], r)
  BY <1>4 DEF Finds, Keeps, Owning
<1>6. Rest' /\ runs' = [runs EXCEPT ![w] = r] /\ Consistent(r) /\ r.version = v /\ v \in Versions
  BY <1>1, <1>4, SameRest DEF MarkFailed
<1>7. versions' = [recorded EXCEPT ![v].overwritten = @ \/ (runs[w].torn /\ recorded # versions)]
  BY DEF MarkFailed
<1>8. CASE recorded = versions
  <2>1. versions' = [versions EXCEPT ![v].overwritten = @ \/ FALSE]
    BY <1>7, <1>8
  <2>2. old.overwritten \in BOOLEAN
    BY <1>1 DEF Version
  <2>3. versions' \in [Versions -> Version] /\ \A x \in Versions : Alike(versions[x], versions'[x])
    BY <1>1, <2>1, <2>2 DEF Version, Alike
  <2> HIDE DEF r, row, v, recorded
  <2> QED BY <1>5, <1>6, <2>3, RunStep
<1>9. CASE recorded # versions
  <2>1. recorded = [versions EXCEPT ![v].status = s]
    BY <1>9 DEF Recorded
  <2>2. ow \in BOOLEAN /\ (ow <=> old.overwritten \/ runs[w].torn)
    BY <1>1, <1>9 DEF Version, Run
  <2>3. row = [old EXCEPT !.status = s, !.overwritten = ow]
    <3> HIDE DEF s
    <3> QED BY <1>1, <1>7, <2>1 DEF Version
  <2>4. versions' = [versions EXCEPT ![v] = row]
    <3> HIDE DEF s
    <3> QED BY <1>1, <1>7, <2>1
  <2>5. /\ row \in Version /\ row.status = s /\ row.attempts = old.attempts
        /\ row.overwritten = ow
    <3> HIDE DEF s, ow, row, old
    <3> QED BY <1>1, <1>2, <2>2, <2>3 DEF Version
  <2>6. Sound(row)
    <3>1. runs[w].torn \/ old.attempts = runs[w].attempt
      BY <1>1 DEF IndInv, OwnedVersions, Finds
    <3>2. s \in {"absent", "queued", "retryable_failed"} => runs[w].attempt < MaxExtractions
      BY DEF FailedStatus
    <3>3. old.overwritten \/ old.attempts <= MaxExtractions
      BY <1>1 DEF Sound
    <3> HIDE DEF s, ow, row, old
    <3> QED BY <2>2, <2>5, <3>1, <3>2, <3>3 DEF Sound
  <2>7. Alone(w, v, r)
    BY <1>1, <1>4, ClaimedAlone DEF Owning
  <2> HIDE DEF r, row, v
  <2> QED BY <1>5, <1>6, <2>4, <2>6, <2>7, VersionStep
<1> QED BY <1>8, <1>9

\* A call that throws writes what it would have written, or nothing, and
\* gives up the claim.
LEMMA CallThrowsIndInv ==
  ASSUME IndInv, NEW w \in Workers, CallThrows(w)
  PROVE  IndInv'
<1> DEFINE v == runs[w].version
           r == runs'[w]
           row == versions'[v]
<1>1. /\ TypeOK /\ v \in Versions /\ runs[w].at \in {"stage", "mark", "fail"}
      /\ runs[w].job \in Jobs /\ runs' = Thrown(w) /\ UNCHANGED <<members, erasures, jobs>>
  BY DEF IndInv, RunsConsistent, CallThrows, Owning
<1>2. /\ runs' = [runs EXCEPT ![w] = r]
      /\ Consistent(r) /\ r.at \in {"settle", "links"} /\ r.version = v
  BY <1>1, ThrownRun
<1>3. Finds(r, versions[r.version]) /\ Finds(r, row) /\ Keeps(runs[w], r)
  BY <1>2 DEF Finds, Keeps, Owning
<1>4. Rest' /\ runs' = [runs EXCEPT ![w] = r] /\ Consistent(r) /\ r.version = v /\ v \in Versions
  BY <1>1, <1>2, SameRest
<1>5. CASE versions' = versions
  BY <1>1, <1>5, ThrownIndInv
<1>6. CASE runs[w].at = "stage" /\ versions' = Staged(w)
  <2>1. /\ versions' = [versions EXCEPT ![v] = row]
        /\ versions' \in [Versions -> Version] /\ Sound(row)
        /\ ~ShouldProcess(v) => \A x \in Versions : Alike(versions[x], versions'[x])
    BY <1>1, <1>6, StagedRow
  <2>2. CASE ~ShouldProcess(v)
    <3>1. versions' \in [Versions -> Version] /\ \A x \in Versions : Alike(versions[x], versions'[x])
      BY <2>1, <2>2
    <3> HIDE DEF r, row, v
    <3> QED BY <1>3, <1>4, <3>1, RunStep
  <2>3. CASE ShouldProcess(v)
    <3>1. Alone(w, v, r)
      BY <1>1, <1>2, <2>3, UnclaimedTorn DEF Alone, Owning
    <3> HIDE DEF r, row, v
    <3> QED BY <1>3, <1>4, <2>1, <3>1, VersionStep
  <2> QED BY <2>2, <2>3
<1>7. CASE runs[w].at = "mark" /\ Ready(v) /\ versions' = Processing(v)
  <2>1. versions' = [versions EXCEPT ![v] = row] /\ Sound(row)
    BY <1>1, <1>7, ProcessingRow
  <2>2. Alone(w, v, r)
    BY <1>2, <1>7, ClaimedAlone DEF Owning
  <2> HIDE DEF r, row, v
  <2> QED BY <1>3, <1>4, <2>1, <2>2, VersionStep
<1> QED BY <1>5, <1>6, <1>7 DEF CallThrows

\* An erasure tears the workers from the versions it deletes.
LEMMA EraseIndInv ==
  ASSUME IndInv, NEW a \in Users, Erase(a)
  PROVE  IndInv'
<1>1. /\ versions \in [Versions -> Version] /\ \A v \in Versions : Sound(versions[v])
      /\ runs \in [Workers -> Run] /\ jobs \in [Jobs -> JobRow]
  BY SoundRows DEF IndInv, TypeOK
<1>2. NoRow \in Version /\ Sound(NoRow)
  BY IngestionAssumptions DEF NoRow, Version, VersionStatuses, Sound
<1>3. \A v \in Versions :
        versions'[v] = IF v \in Orphaned(a) THEN NoRow
                       ELSE [versions[v] EXCEPT !.by = versions[v].by \ {a}]
  BY DEF Erase
<1>4. \A v \in Versions : v \notin Orphaned(a) => Alike(versions[v], versions'[v])
  <2> SUFFICES ASSUME NEW v \in Versions, v \notin Orphaned(a)
               PROVE  Alike(versions[v], versions'[v])
    OBVIOUS
  <2> DEFINE by == versions[v].by \ {a}
  <2>1. versions[v] \in Version /\ by \in SUBSET Users
    BY <1>1 DEF Version
  <2>2. versions'[v] = [versions[v] EXCEPT !.by = by]
    BY <1>3
  <2> HIDE DEF by
  <2> QED BY <2>1, <2>2 DEF Alike, Version
<1>5. \A v \in Versions : Sound(versions'[v])
  <2> SUFFICES ASSUME NEW v \in Versions PROVE Sound(versions'[v])
    OBVIOUS
  <2>1. CASE v \in Orphaned(a)
    BY <1>2, <1>3, <2>1
  <2>2. CASE v \notin Orphaned(a)
    BY <1>1, <1>4, <2>2 DEF Alike, Sound
  <2> QED BY <2>1, <2>2
<1>6. versions' \in [Versions -> Version]
  <2>1. versions' = [v \in Versions |-> versions'[v]]
    BY DEF Erase
  <2> QED BY <1>5, <2>1 DEF Sound
<1>7. \A w \in Workers :
        /\ runs'[w] \in Run
        /\ runs'[w].at = runs[w].at /\ runs'[w].job = runs[w].job
        /\ runs'[w].version = runs[w].version /\ runs'[w].attempt = runs[w].attempt
        /\ runs'[w].torn <=> (runs[w].torn \/ \E v \in Orphaned(a) : At(w, v))
  <2> SUFFICES ASSUME NEW w \in Workers
               PROVE  /\ runs'[w] \in Run
                      /\ runs'[w].at = runs[w].at /\ runs'[w].job = runs[w].job
                      /\ runs'[w].version = runs[w].version /\ runs'[w].attempt = runs[w].attempt
                      /\ runs'[w].torn <=> (runs[w].torn \/ \E v \in Orphaned(a) : At(w, v))
    OBVIOUS
  <2> DEFINE torn == runs[w].torn \/ \E v \in Orphaned(a) : At(w, v)
  <2>1. torn \in BOOLEAN /\ runs[w] \in Run
    BY <1>1 DEF Run
  <2>2. runs'[w] = [runs[w] EXCEPT !.torn = torn]
    BY DEF Erase
  <2>3. /\ runs'[w] \in Run
        /\ runs'[w].at = runs[w].at /\ runs'[w].job = runs[w].job
        /\ runs'[w].version = runs[w].version /\ runs'[w].attempt = runs[w].attempt
        /\ runs'[w].torn = torn
    <3> HIDE DEF torn
    <3> QED BY <2>1, <2>2 DEF Run
  <2> QED BY <2>3
<1>8. runs' \in [Workers -> Run]
  <2>1. runs' = [w \in Workers |-> runs'[w]]
    BY DEF Erase
  <2> QED BY <1>7, <2>1
<1>9. Rest'
  <2>1. jobs' \in [Jobs -> JobRow]
    BY <1>1, IngestionAssumptions DEF Erase, NoJobRow, JobRow, JobStatuses
  <2>2. members' \subseteq Users /\ erasures' \in 0 .. MaxErasures
    BY IngestionAssumptions DEF Erase, IndInv, TypeOK
  <2> QED BY <2>1, <2>2 DEF Rest
<1>10. TypeOK'
  BY <1>5, <1>6, <1>8, <1>9 DEF TypeOK, Rest, Sound
<1>11. AttemptsLeft'
  BY <1>5 DEF AttemptsLeft, Sound
<1>12. RunsConsistent'
  BY <1>7 DEF IndInv, RunsConsistent
<1>13. OwnedVersions'
  <2> SUFFICES ASSUME NEW w \in Workers, ~runs'[w].torn
               PROVE  Finds(runs'[w], versions'[runs'[w].version])
    BY DEF OwnedVersions, Finds
  <2>1. Finds(runs[w], versions[runs[w].version])
    BY <1>7 DEF IndInv, OwnedVersions
  <2>2. CASE runs[w].at \in Owning
    <3>1. runs[w].version \in Versions /\ runs[w].version \notin Orphaned(a)
      BY <1>7, <2>2 DEF IndInv, RunsConsistent, At
    <3> QED BY <1>4, <1>7, <2>1, <3>1 DEF Finds, Alike
  <2>3. CASE runs[w].at \notin Owning
    BY <1>7, <2>3 DEF Finds, Owning
  <2> QED BY <2>2, <2>3
<1>14. ExtractionExclusive'
  BY <1>7 DEF IndInv, ExtractionExclusive
<1> QED BY <1>10, <1>11, <1>12, <1>13, <1>14 DEF IndInv

\* The invariant holds initially.
LEMMA InitIndInv == Init => IndInv
<1> SUFFICES ASSUME Init PROVE IndInv
  OBVIOUS
<1>1. Resting \in Run /\ Resting.at = "idle"
  BY IngestionAssumptions DEF Resting, FreshRun, Run, Points
<1>2. \A w \in Workers : runs[w] = Resting
  BY DEF Init
<1>3. TypeOK
  BY <1>1, IngestionAssumptions
  DEF Init, TypeOK, NoRow, Version, VersionStatuses, NoJobRow, JobRow, JobStatuses
<1>4. AttemptsLeft
  BY IngestionAssumptions DEF Init, AttemptsLeft, NoRow
<1>5. RunsConsistent /\ OwnedVersions /\ ExtractionExclusive
  BY <1>1, <1>2 DEF RunsConsistent, OwnedVersions, Finds, ExtractionExclusive, Owning
<1> QED BY <1>3, <1>4, <1>5 DEF IndInv

\* Every step of every actor preserves the invariant.
LEMMA NextIndInv == IndInv /\ [Next]_vars => IndInv'
<1> SUFFICES ASSUME IndInv, [Next]_vars PROVE IndInv'
  OBVIOUS
<1>1. CASE UNCHANGED vars
  BY <1>1, JobStep, SameRest DEF vars, IndInv
<1>2. ASSUME NEW j \in Jobs, Submit(j) \/ GiveUp(j) PROVE IndInv'
  BY <1>2, SubmitIndInv, GiveUpIndInv
<1>3. ASSUME NEW w \in Workers, WorkerStep(w) PROVE IndInv'
  <2>1. CASE \E j \in Jobs : Lease(w, j)
    BY <2>1, LeaseIndInv
  <2>2. CASE Fetch(w)
    BY <2>2, FetchIndInv
  <2>3. CASE Settle(w)
    BY <2>3, SettleIndInv
  <2>4. CASE Stage(w)
    BY <2>4, StageIndInv
  <2>5. CASE MarkProcessing(w)
    BY <2>5, MarkProcessingIndInv
  <2>6. CASE Extract(w)
    BY <2>6, MoveIndInv DEF Extract, Points
  <2>7. CASE StoreClaims(w)
    BY <2>7, StoreClaimsIndInv
  <2>8. CASE StoreAborted(w)
    BY <2>8, MoveIndInv DEF StoreAborted, Points
  <2>9. CASE MarkFailed(w)
    BY <2>9, MarkFailedIndInv
  <2>10. CASE FollowLink(w)
    BY <2>10, FollowLinkIndInv
  <2>11. CASE LinksDone(w)
    BY <2>11, MoveIndInv DEF LinksDone, Points
  <2>12. CASE Crash(w)
    BY <2>12, CrashIndInv
  <2>13. CASE CallThrows(w)
    BY <2>13, CallThrowsIndInv
  <2>14. CASE CommitUnanswered(w)
    BY <2>14, CommitUnansweredIndInv
  <2>15. CASE StageRefused(w)
    BY <2>15, ThrownIndInv DEF StageRefused
  <2>16. CASE NotReady(w)
    BY <2>16, ThrownIndInv DEF NotReady
  <2> QED BY <1>3, <2>1, <2>2, <2>3, <2>4, <2>5, <2>6, <2>7, <2>8, <2>9, <2>10, <2>11,
             <2>12, <2>13, <2>14, <2>15, <2>16 DEF WorkerStep
<1>4. ASSUME NEW u \in Users, SignIn(u) PROVE IndInv'
  <2>1. Rest'
    BY <1>4 DEF SignIn, Rest, IndInv, TypeOK
  <2> QED BY <1>4, <2>1, JobStep DEF SignIn
<1>5. ASSUME NEW u \in Users, Erase(u) PROVE IndInv'
  BY <1>5, EraseIndInv
<1> QED BY <1>1, <1>2, <1>3, <1>4, <1>5 DEF Next

\* The invariant holds in every reachable state.
LEMMA AlwaysIndInv == Spec => []IndInv
BY InitIndInv, NextIndInv, PTL DEF Spec

-----------------------------------------------------------------------------

\* The rows of source_versions and jobs, and what each worker knows, keep
\* their types, and no version is attempted more than MaxExtractions times,
\* unless a worker torn from it by an erasure recorded its failure.
THEOREM TypeCorrect == Spec => []TypeOK
BY AlwaysIndInv, PTL DEF IndInv

\* No two workers of the fleet are ever extracting the same content, however
\* many leases run out, workers die and calls fail, unless an erasure deleted
\* the version under a worker that is still at it: then both are torn.
THEOREM ExtractionIsExclusive == Spec => []ExtractionExclusive
BY AlwaysIndInv, PTL DEF IndInv

\* A worker finds the version it works on as it left it, and
\* markSourceProcessing throws 'not ready for processing' only to a worker
\* whose version, or that of a worker it joined, was erased meanwhile.
THEOREM VersionsAreOwned == Spec => []OwnedVersions
BY AlwaysIndInv, PTL DEF IndInv

\* A step keeps succeeded versions succeeded, unless the version is erased or
\* a worker records a failure it should not.
LEMMA NextKeepsSucceeded ==
  ASSUME IndInv, [Next]_vars, NEW v \in Versions, versions[v].status = "succeeded"
  PROVE  \/ versions'[v].status = "succeeded"
         \/ \E u \in members \ members' : v \in Orphaned(u)
         \/ RecordsFailure(v)
<1>1. versions[v] \in Version /\ versions \in [Versions -> Version]
  BY DEF IndInv, TypeOK
<1>2. ASSUME versions' # versions
      PROVE  \/ \E w \in Workers : Stage(w) \/ MarkProcessing(w) \/ StoreClaims(w)
                                   \/ MarkFailed(w) \/ CallThrows(w) \/ CommitUnanswered(w)
             \/ \E u \in Users : Erase(u)
  BY <1>2 DEF Next, WorkerStep, vars, Submit, GiveUp, SignIn, Lease, Fetch, Settle, Extract,
     StoreAborted, StageRefused, NotReady, FollowLink, LinksDone, Crash
<1>3. ASSUME NEW w \in Workers,
             \/ Stage(w) \/ MarkProcessing(w) \/ StoreClaims(w) \/ MarkFailed(w)
             \/ CallThrows(w) \/ CommitUnanswered(w)
      PROVE  versions'[v].status = "succeeded" \/ RecordsFailure(v)
  <2> DEFINE x == runs[w].version
  <2>1. versions' = Staged(w) => versions'[v].status = "succeeded"
    BY <1>1 DEF Staged, ShouldProcess, Version
  <2>2. Ready(x) /\ versions' = Processing(x) => versions'[v].status = "succeeded"
    BY <1>1 DEF Ready, Processing
  <2>3. versions' = Recorded(x, "succeeded") => versions'[v].status = "succeeded"
    BY <1>1 DEF Recorded, Version
  <2>4. CASE MarkFailed(w)
    <3>1. \/ runs[w].torn
          \/ versions[x].status = "processing"
          \/ versions[x].status = "succeeded" /\ "commit" \in Faults
      BY <2>4 DEF MarkFailed, IndInv, OwnedVersions, Finds
    <3>2. CASE x # v
      BY <1>1, <2>4, <3>2 DEF MarkFailed, Recorded
    <3>3. CASE x = v
      <4>1. /\ runs[w].torn \/ "commit" \in Faults
            /\ runs[w].at = "fail" /\ runs \in [Workers -> Run]
        BY <2>4, <3>1, <3>3 DEF MarkFailed, IndInv, TypeOK
      <4>2. runs'[w].at # "fail"
        BY <2>4, <4>1 DEF MarkFailed, Thrown, Run
      <4> QED BY <3>3, <4>1, <4>2 DEF RecordsFailure
    <3> QED BY <3>2, <3>3
  <2> QED BY <1>3, <2>1, <2>2, <2>3, <2>4
          DEF Stage, MarkProcessing, StoreClaims, CallThrows, CommitUnanswered
<1>4. ASSUME NEW u \in Users, Erase(u)
      PROVE  versions'[v].status = "succeeded" \/ \E a \in members \ members' : v \in Orphaned(a)
  <2>1. CASE v \in Orphaned(u)
    BY <1>4, <2>1 DEF Erase
  <2>2. CASE v \notin Orphaned(u)
    BY <1>1, <1>4, <2>2 DEF Erase, Version
  <2> QED BY <2>1, <2>2
<1> QED BY <1>2, <1>3, <1>4

\* Extracted content stays extracted under any faults until it is erased,
\* unless the worker that extracted it does not learn that its transaction was
\* committed, or one whose version was erased is still at it: beyond these,
\* markSourceFailed, which tests no status, never undoes a success.
THEOREM SuccessIsFinal == Spec => SucceededIsFinal
<1>1. IndInv /\ [Next]_vars
      => [\A v \in Versions :
            versions[v].status = "succeeded" =>
              \/ versions'[v].status = "succeeded"
              \/ \E u \in members \ members' : v \in Orphaned(u)
              \/ RecordsFailure(v)]_vars
  BY NextKeepsSucceeded
<1> QED
  BY <1>1, AlwaysIndInv, PTL DEF Spec, SucceededIsFinal
=============================================================================
