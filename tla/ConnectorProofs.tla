--------------------------- MODULE ConnectorProofs ---------------------------
(***************************************************************************)
(* Proofs about ConnectorSync for any number of workers, syncs, requests,  *)
(* attempts and grants.                                                    *)
(***************************************************************************)
EXTENDS ConnectorSync, TLAPS

-----------------------------------------------------------------------------
(* The inductive invariant *)

\* A worker that is not idle works for a job.
AtWork == \A w \in Workers : runs[w].at # "idle" => runs[w].job \in Syncs

\* Every token in use stems from a grant the user has given, and is not one a
\* callback has yet to store.
GrantsKnown ==
  /\ grants.stored <= grants.given /\ \A h \in grants.inFlight : h <= grants.given
  /\ credential.grant <= grants.given /\ credential.grant \notin grants.inFlight
  /\ \A w \in Workers : Refreshing(w) =>
       runs[w].grant \in 1 .. grants.given /\ runs[w].grant \notin grants.inFlight
  /\ credential.status # "absent" => credential.grant >= 1

\* A provider that does not rotate refuses nothing.
NoneRefused ==
  ~rotates => /\ credential.status # "absent" => credential.fresh
              /\ \A w \in Workers : Refreshing(w) => runs[w].fresh

\* A worker about to store an answer holds a token the provider accepts, and
\* when the provider rotates it is the only one that does: the row's token and
\* the copies of the other workers are refused.
SoleHolder ==
  \A w \in Workers : runs[w].at = "put" =>
    /\ runs[w].fresh
    /\ rotates => /\ credential.grant = runs[w].grant => ~credential.fresh
                  /\ \A v \in Workers \ {w} :
                       Refreshing(v) /\ runs[v].grant = runs[w].grant => ~runs[v].fresh

\* Tokens older than the newest stored are on their way only after an overtaking.
CopiesNewest ==
  /\ \A w \in Workers : Refreshing(w) => runs[w].grant = grants.stored \/ mishaps.overtaken
  /\ \A h \in grants.inFlight : h > grants.stored \/ mishaps.overtaken

IInv == /\ TypeOK /\ AtWork /\ GrantsKnown /\ NoneRefused /\ SoleHolder /\ CopiesNewest
        /\ UsableUnlessLost /\ NewestGrantUnlessOvertaken

-----------------------------------------------------------------------------
(* Records *)

\* The bounds are natural numbers.
LEMMA Numbers == MaxAttempts \in Nat \ {0} /\ MaxGrants \in Nat /\ NoSync \notin Syncs
  BY ConnectorAssumptions

\* What a record of each kind consists of.
LEMMA RunShape ==
  ASSUME NEW r \in Run
  PROVE  /\ r.at \in Points /\ r.job \in Syncs \union {NoSync} /\ r.failed \in BOOLEAN
         /\ r.grant \in 0 .. MaxGrants /\ r.fresh \in BOOLEAN
         /\ r = [at |-> r.at, job |-> r.job, failed |-> r.failed, grant |-> r.grant,
                 fresh |-> r.fresh]
  BY DEF Run

\* A run goes to another point, has its token refused, or takes other tokens.
LEMMA RunMoved ==
  ASSUME NEW r \in Run, NEW at \in Points
  PROVE  LET moved == [r EXCEPT !.at = at] IN
         /\ moved \in Run /\ moved.at = at /\ moved.job = r.job
         /\ moved.grant = r.grant /\ moved.fresh = r.fresh
  BY RunShape DEF Run

\* A run whose token is, or is no longer, accepted by the provider.
LEMMA RunRefused ==
  ASSUME NEW r \in Run, NEW fresh \in BOOLEAN
  PROVE  LET refused == [r EXCEPT !.fresh = fresh] IN
         /\ refused \in Run /\ refused.at = r.at /\ refused.job = r.job
         /\ refused.grant = r.grant /\ refused.fresh = fresh
  BY RunShape DEF Run

Given(r, at, grant, fresh) == [r EXCEPT !.at = at, !.grant = grant, !.fresh = fresh]

\* A run that was given a token.
LEMMA RunGranted ==
  ASSUME NEW r \in Run, NEW at \in Points, NEW grant \in 0 .. MaxGrants, NEW fresh \in BOOLEAN
  PROVE  /\ Given(r, at, grant, fresh) \in Run /\ Given(r, at, grant, fresh).at = at
         /\ Given(r, at, grant, fresh).job = r.job
         /\ Given(r, at, grant, fresh).grant = grant /\ Given(r, at, grant, fresh).fresh = fresh
  <1> DEFINE first == [r EXCEPT !.at = at]
             second == [first EXCEPT !.grant = grant]
             third == [second EXCEPT !.fresh = fresh]
  <1>1. first \in Run /\ first.at = at /\ first.job = r.job
    BY RunMoved
  <1> HIDE DEF first
  <1>2. second \in Run /\ second.at = at /\ second.job = r.job /\ second.grant = grant
    BY <1>1 DEF Run
  <1> HIDE DEF second
  <1>3. /\ third \in Run /\ third.at = at /\ third.job = r.job
        /\ third.grant = grant /\ third.fresh = fresh
    BY <1>2 DEF Run
  <1>4. third = Given(r, at, grant, fresh)
    BY DEF first, second, Given
  <1> HIDE DEF third
  <1> QED BY <1>3, <1>4

\* The runs a worker starts with, ends with, or is left with by an error.
LEMMA RestingShape ==
  /\ Resting \in Run /\ Resting.at = "idle"
  /\ \A s \in Syncs : LET r == [Resting EXCEPT !.at = "get", !.job = s] IN
       r \in Run /\ r.at = "get" /\ r.job = s
  <1>1. Resting \in Run /\ Resting.at = "idle"
    BY Numbers DEF Resting, Run, Points
  <1>2. ASSUME NEW s \in Syncs
        PROVE  LET r == [Resting EXCEPT !.at = "get", !.job = s] IN
               r \in Run /\ r.at = "get" /\ r.job = s
    <2> DEFINE first == [Resting EXCEPT !.at = "get"]
               second == [first EXCEPT !.job = s]
    <2>1. first \in Run /\ first.at = "get"
      BY <1>1, RunMoved DEF Points
    <2> HIDE DEF first
    <2>2. second \in Run /\ second.at = "get" /\ second.job = s
      BY <2>1 DEF Run
    <2>3. second = [Resting EXCEPT !.at = "get", !.job = s]
      BY DEF first
    <2> HIDE DEF second
    <2> QED BY <2>2, <2>3
  <1> QED BY <1>1, <1>2

\* What an exception of a sync leaves behind.
LEMMA ThrownShape ==
  ASSUME TypeOK, NEW w \in Workers
  PROVE  /\ Thrown(w) \in Run /\ Thrown(w).at = "settle" /\ Thrown(w).job = runs[w].job
         /\ Thrown(w).fresh = FALSE
  <1> DEFINE first == [Resting EXCEPT !.at = "settle"]
             second == [first EXCEPT !.job = runs[w].job]
             third == [second EXCEPT !.failed = TRUE]
  <1>1. runs[w].job \in Syncs \union {NoSync}
    BY RunShape DEF TypeOK
  <1>2. first \in Run /\ first.at = "settle" /\ first.fresh = FALSE
    BY RestingShape, RunMoved DEF Points, Resting
  <1> HIDE DEF first
  <1>3. second \in Run /\ second.at = "settle" /\ second.job = runs[w].job /\ second.fresh = FALSE
    BY <1>1, <1>2 DEF Run
  <1> HIDE DEF second
  <1>4. third \in Run /\ third.at = "settle" /\ third.job = runs[w].job /\ third.fresh = FALSE
    BY <1>3 DEF Run
  <1>5. third = Thrown(w)
    BY DEF first, second, Thrown
  <1> HIDE DEF third
  <1> QED BY <1>4, <1>5

\* The row and the copies after a rotation of grant g.
LEMMA Refusals ==
  ASSUME TypeOK, NEW g \in 0 .. MaxGrants
  PROVE  /\ RowRefused(g) \in Credential
         /\ RowRefused(g).status = credential.status /\ RowRefused(g).grant = credential.grant
         /\ RowRefused(g).fresh <=> credential.fresh /\ credential.grant # g
         /\ CopiesRefused(g) \in [Workers -> Run]
         /\ \A v \in Workers :
              /\ CopiesRefused(g)[v].at = runs[v].at /\ CopiesRefused(g)[v].job = runs[v].job
              /\ CopiesRefused(g)[v].grant = runs[v].grant
              /\ CopiesRefused(g)[v].fresh <=> runs[v].fresh /\ runs[v].grant # g
  <1>1. /\ RowRefused(g) \in Credential
        /\ RowRefused(g).status = credential.status /\ RowRefused(g).grant = credential.grant
        /\ RowRefused(g).fresh <=> credential.fresh /\ credential.grant # g
    BY DEF TypeOK, Credential, RowRefused
  <1>2. ASSUME NEW v \in Workers
        PROVE  LET copy == [runs[v] EXCEPT !.fresh = @ /\ runs[v].grant # g] IN
               /\ copy \in Run /\ copy.at = runs[v].at /\ copy.job = runs[v].job
               /\ copy.grant = runs[v].grant
               /\ copy.fresh <=> runs[v].fresh /\ runs[v].grant # g
    <2> DEFINE fresh == runs[v].fresh /\ runs[v].grant # g
    <2>1. runs[v] \in Run /\ fresh \in BOOLEAN
      BY DEF TypeOK
    <2> HIDE DEF fresh
    <2>2. LET copy == [runs[v] EXCEPT !.fresh = fresh] IN
          /\ copy \in Run /\ copy.at = runs[v].at /\ copy.job = runs[v].job
          /\ copy.grant = runs[v].grant /\ copy.fresh = fresh
      BY <2>1, RunRefused
    <2> QED BY <2>2 DEF fresh
  <1>3. \A v \in Workers : CopiesRefused(g)[v] = [runs[v] EXCEPT !.fresh = @ /\ runs[v].grant # g]
    BY DEF CopiesRefused
  <1>4. CopiesRefused(g) \in [Workers -> Run]
    BY <1>2 DEF CopiesRefused
  <1> QED BY <1>1, <1>2, <1>3, <1>4

-----------------------------------------------------------------------------
(* Steps *)

\* The jobs table keeps its type, whoever writes it.
LEMMA JobsKeepType ==
  ASSUME TypeOK
  PROVE  /\ CancelledPending \in [Syncs -> JobRow]
         /\ \A s \in Syncs : Enqueued(s) \in [Syncs -> JobRow]
         /\ \A s \in Syncs : [jobs EXCEPT ![s] = Ended] \in [Syncs -> JobRow]
         /\ \A s \in Syncs : [jobs EXCEPT ![s].status = "pending"] \in [Syncs -> JobRow]
         /\ \A s \in Syncs : jobs[s].attempts < MaxAttempts =>
              [jobs EXCEPT ![s] = [status |-> "running", attempts |-> @.attempts + 1]]
                \in [Syncs -> JobRow]
  <1>1. jobs \in [Syncs -> JobRow] /\ Ended \in JobRow
    BY Numbers DEF TypeOK, JobRow, Ended
  <1>2. CancelledPending \in [Syncs -> JobRow]
    BY <1>1 DEF CancelledPending, JobRow
  <1>3. ASSUME NEW s \in Syncs
        PROVE  /\ Enqueued(s) \in [Syncs -> JobRow]
               /\ [jobs EXCEPT ![s] = Ended] \in [Syncs -> JobRow]
               /\ [jobs EXCEPT ![s].status = "pending"] \in [Syncs -> JobRow]
               /\ jobs[s].attempts < MaxAttempts =>
                    [jobs EXCEPT ![s] = [status |-> "running", attempts |-> @.attempts + 1]]
                      \in [Syncs -> JobRow]
    <2>1. [status |-> "pending", attempts |-> 0] \in JobRow
      BY Numbers DEF JobRow
    <2>2. jobs[s].attempts < MaxAttempts
            => [status |-> "running", attempts |-> jobs[s].attempts + 1] \in JobRow
      BY <1>1, Numbers DEF JobRow
    <2>3. [jobs[s] EXCEPT !.status = "pending"] \in JobRow
      BY <1>1 DEF JobRow
    <2> QED BY <1>1, <2>1, <2>2, <2>3 DEF Enqueued
  <1> QED BY <1>2, <1>3

\* A worker that holds no tokens after its step, and has accounted for the
\* ones it was about to store, keeps the invariant.
LEMMA QuietStep ==
  ASSUME IInv, NEW w \in Workers, NEW r \in Run,
         r.at \notin {"refresh", "put"}, r.at # "idle" => r.job \in Syncs,
         runs' = [runs EXCEPT ![w] = r],
         UNCHANGED <<credential, grants, rotates, requests>>,
         jobs' \in [Syncs -> JobRow], mishaps' \in Mishaps,
         mishaps'.overtaken = mishaps.overtaken, mishaps.lost \subseteq mishaps'.lost,
         runs[w].at = "put" => runs[w].grant \in mishaps'.lost
  PROVE  IInv'
  <1>1. TypeOK'
    BY DEF IInv, TypeOK
  <1>2. runs'[w] = r /\ \A v \in Workers : v # w => runs'[v] = runs[v]
    BY DEF IInv, TypeOK
  <1>3. (AtWork /\ GrantsKnown /\ NoneRefused /\ CopiesNewest /\ NewestGrantUnlessOvertaken)'
    BY <1>2 DEF IInv, AtWork, GrantsKnown, NoneRefused, CopiesNewest, Refreshing,
       NewestGrantUnlessOvertaken
  <1>4. SoleHolder'
    BY <1>2 DEF IInv, SoleHolder, Refreshing
  <1>5. UsableUnlessLost'
    BY <1>2 DEF IInv, UsableUnlessLost
  <1> QED BY <1>1, <1>3, <1>4, <1>5 DEF IInv

\* Routes that leave the tokens alone keep the invariant.
LEMMA RouteKeeps ==
  ASSUME IInv, NEW q \in Requests, RouteStep(q)
  PROVE  IInv'
  <1>1. TypeOK
    BY DEF IInv
  <1>2. /\ Revoked \in Credential /\ Revoked.grant = credential.grant
        /\ Revoked.fresh = credential.fresh
        /\ Revoked.status # "live" \/ Revoked = credential
        /\ Revoked.status = "absent" => credential.status = "absent"
        /\ credential.status = "absent" => Revoked.status = "absent"
    BY <1>1 DEF TypeOK, Credential, Revoked
  <1>3. /\ UNCHANGED <<grants, mishaps, runs, rotates>>
        /\ credential' \in {credential, Revoked} /\ jobs' \in [Syncs -> JobRow]
        /\ requests' \in [Requests -> {"idle", "revoking", "enqueueing"}]
    BY <1>1, JobsKeepType DEF RouteStep, RevokeCredential, CancelSyncs, AskForSync, EnqueueSync,
       RequestFails, TypeOK
  <1>4. TypeOK'
    BY <1>1, <1>2, <1>3 DEF TypeOK
  <1>5. /\ credential'.grant = credential.grant /\ credential'.fresh = credential.fresh
        /\ credential'.status = "live" => credential.status = "live"
        /\ credential'.status # "absent" => credential.status # "absent"
    BY <1>1, <1>2, <1>3 DEF TypeOK, Credential, Revoked
  <1> QED BY <1>3, <1>4, <1>5 DEF IInv, AtWork, GrantsKnown, NoneRefused, SoleHolder,
             CopiesNewest, UsableUnlessLost, NewestGrantUnlessOvertaken, Refreshing

\* What the numbers of the grants are.
LEMMA GrantShape ==
  ASSUME TypeOK
  PROVE  /\ grants.given \in 0 .. MaxGrants /\ grants.stored \in 0 .. MaxGrants
         /\ grants.inFlight \in SUBSET (1 .. MaxGrants)
         /\ credential.grant \in 0 .. MaxGrants
         /\ \A w \in Workers : runs[w].grant \in 0 .. MaxGrants
  <1>1. grants \in Grants /\ credential \in Credential /\ \A w \in Workers : runs[w] \in Run
    BY DEF TypeOK
  <1>2. /\ grants.given \in 0 .. MaxGrants /\ grants.stored \in 0 .. MaxGrants
        /\ grants.inFlight \in SUBSET (1 .. MaxGrants)
    BY <1>1 DEF Grants
  <1>3. credential.grant \in 0 .. MaxGrants
    BY <1>1 DEF Credential
  <1> QED BY <1>1, <1>2, <1>3, RunShape

\* The exchange of a code: the tokens of the new grant are nobody's copy.
LEMMA ExchangeKeeps ==
  ASSUME IInv, Exchange
  PROVE  IInv'
  <1> DEFINE n == grants.given + 1
             flight == grants.inFlight \union {n}
  <1>1. TypeOK /\ UNCHANGED <<credential, mishaps, jobs, runs, requests, rotates>>
    BY DEF IInv, Exchange
  <1>2. /\ n \in 1 .. MaxGrants /\ n \in 0 .. MaxGrants /\ flight \in SUBSET (1 .. MaxGrants)
        /\ grants.given \in Nat /\ grants.stored \in 0 .. MaxGrants
    BY <1>1, GrantShape, Numbers DEF Exchange
  <1>3. /\ grants' \in Grants /\ grants'.given = n /\ grants'.inFlight = flight
        /\ grants'.stored = grants.stored
    <2>1. grants' = [grants EXCEPT !.given = n, !.inFlight = flight] /\ grants \in Grants
      BY <1>1 DEF Exchange, TypeOK
    <2> HIDE DEF n, flight
    <2> QED BY <1>2, <2>1 DEF Grants
  <1>4. TypeOK'
    BY <1>1, <1>3 DEF TypeOK
  <1>5. (AtWork /\ NoneRefused /\ SoleHolder /\ UsableUnlessLost /\ NewestGrantUnlessOvertaken)'
    BY <1>1, <1>3 DEF IInv, AtWork, NoneRefused, SoleHolder, UsableUnlessLost,
       NewestGrantUnlessOvertaken, Refreshing
  <1>6. GrantsKnown'
    <2>1. credential.grant <= grants.given /\ credential.grant \in Nat
      BY <1>1, GrantShape, Numbers DEF IInv, GrantsKnown
    <2>2. \A w \in Workers : Refreshing(w) =>
            runs[w].grant \in 1 .. grants.given /\ runs[w].grant \notin grants.inFlight
      BY DEF IInv, GrantsKnown
    <2> QED BY <1>1, <1>2, <1>3, <2>1, <2>2, GrantShape, Numbers
            DEF IInv, GrantsKnown, Refreshing
  <1>7. CopiesNewest'
    <2>1. n > grants.stored
      BY <1>1, <1>2, GrantShape, Numbers DEF IInv, GrantsKnown
    <2> QED BY <1>1, <1>3, <2>1 DEF IInv, CopiesNewest, Refreshing
  <1> QED BY <1>4, <1>5, <1>6, <1>7 DEF IInv

\* A callback stores its tokens: of a newer grant than any before, or of an
\* older one that an overtaking has been noted for.
LEMMA StoreKeeps ==
  ASSUME IInv, NEW g \in 1 .. MaxGrants, StoreGrant(g)
  PROVE  IInv'
  <1> DEFINE flight == grants.inFlight \ {g}
             top == IF g > grants.stored THEN g ELSE grants.stored
             over == IF g > grants.stored THEN OthersOnTheirWay(g) ELSE mishaps.overtaken
  <1>1. TypeOK /\ g \in grants.inFlight /\ UNCHANGED <<jobs, runs, requests, rotates>>
    BY DEF IInv, StoreGrant
  <1>2. /\ g \in Nat /\ g >= 1 /\ g \in 0 .. MaxGrants
        /\ grants.given \in Nat /\ grants.stored \in Nat /\ g <= grants.given
        /\ top \in 0 .. MaxGrants /\ flight \in SUBSET (1 .. MaxGrants)
    BY <1>1, GrantShape, Numbers DEF IInv, GrantsKnown
  <1>3. /\ grants' \in Grants /\ grants'.given = grants.given /\ grants'.inFlight = flight
        /\ grants'.stored = top
    <2>1. grants' = [grants EXCEPT !.inFlight = flight, !.stored = top] /\ grants \in Grants
      BY <1>1 DEF StoreGrant, Landed, TypeOK
    <2> HIDE DEF top, flight
    <2> QED BY <1>2, <2>1 DEF Grants
  <1>4. /\ credential' \in Credential
        /\ credential'.status = "live" /\ credential'.grant = g /\ credential'.fresh = TRUE
    BY <1>2 DEF StoreGrant, Saved, Credential
  <1>5. mishaps' \in Mishaps /\ mishaps'.lost = mishaps.lost /\ (mishaps'.overtaken <=> over)
    <2>1. mishaps' = [mishaps EXCEPT !.overtaken = over] /\ mishaps \in Mishaps
      BY <1>1 DEF StoreGrant, TypeOK
    <2>2. over \in BOOLEAN
      BY <2>1 DEF OthersOnTheirWay, Mishaps
    <2> HIDE DEF over
    <2> QED BY <2>1, <2>2 DEF Mishaps
  <1>6. TypeOK'
    BY <1>1, <1>3, <1>4, <1>5 DEF TypeOK
  <1>7. (AtWork /\ NoneRefused /\ UsableUnlessLost)'
    BY <1>1, <1>4 DEF IInv, AtWork, NoneRefused, UsableUnlessLost, Refreshing
  <1>8. \A w \in Workers : Refreshing(w) =>
          /\ runs[w].grant \in 1 .. grants.given /\ runs[w].grant \notin grants.inFlight
          /\ runs[w].grant # g
    BY <1>1 DEF IInv, GrantsKnown
  <1>9. GrantsKnown'
    BY <1>1, <1>2, <1>3, <1>4, <1>8 DEF IInv, GrantsKnown, Refreshing
  <1>10. SoleHolder'
    BY <1>1, <1>4, <1>8 DEF IInv, SoleHolder, Refreshing
  <1>11. CopiesNewest' /\ NewestGrantUnlessOvertaken'
    <2>1. CASE g > grants.stored
      <3>1. \A w \in Workers : Refreshing(w) => mishaps'.overtaken
        BY <1>5, <2>1 DEF OthersOnTheirWay
      <3>2. \A h \in flight : h > top \/ mishaps'.overtaken
        <4> SUFFICES ASSUME NEW h \in flight, h <= g PROVE mishaps'.overtaken
          BY <1>1, <1>2, <2>1, GrantShape, Numbers
        <4>1. h < g
          BY <1>1, <1>2, GrantShape, Numbers
        <4> QED BY <1>5, <2>1, <4>1 DEF OthersOnTheirWay
      <3> QED BY <1>1, <1>3, <1>4, <2>1, <3>1, <3>2
              DEF CopiesNewest, NewestGrantUnlessOvertaken, Refreshing
    <2>2. CASE ~(g > grants.stored)
      <3>1. mishaps.overtaken
        BY <1>1, <2>2 DEF IInv, CopiesNewest
      <3> QED BY <1>5, <2>2, <3>1 DEF CopiesNewest, NewestGrantUnlessOvertaken
    <2> QED BY <2>1, <2>2
  <1> QED BY <1>6, <1>7, <1>9, <1>10, <1>11 DEF IInv

\* A callback that fails leaves the row as it is.
LEMMA StoreFailsKeeps ==
  ASSUME IInv, NEW g \in 1 .. MaxGrants, StoreFails(g)
  PROVE  IInv'
  <1>1. /\ TypeOK /\ UNCHANGED <<credential, mishaps, jobs, runs, requests, rotates>>
        /\ grants' = [grants EXCEPT !.inFlight = @ \ {g}] /\ grants \in Grants
    BY DEF IInv, StoreFails, TypeOK
  <1>2. /\ grants' \in Grants /\ grants'.given = grants.given /\ grants'.stored = grants.stored
        /\ grants'.inFlight = grants.inFlight \ {g}
    BY <1>1 DEF Grants
  <1>3. TypeOK'
    BY <1>1, <1>2 DEF TypeOK
  <1> QED BY <1>1, <1>2, <1>3 DEF IInv, AtWork, GrantsKnown, NoneRefused, SoleHolder,
             CopiesNewest, UsableUnlessLost, NewestGrantUnlessOvertaken, Refreshing

\* A worker is given a copy of the row.
LEMMA GetKeeps ==
  ASSUME IInv, NEW w \in Workers, GetCredential(w)
  PROVE  IInv'
  <1> DEFINE copy == [runs[w] EXCEPT !.at = "refresh", !.grant = credential.grant,
                                     !.fresh = credential.fresh]
             on == [runs[w] EXCEPT !.at = "sync"]
  <1>1. /\ TypeOK /\ runs[w] \in Run /\ runs[w].at = "get" /\ runs[w].job \in Syncs
        /\ credential.grant \in 0 .. MaxGrants /\ credential.fresh \in BOOLEAN
    BY DEF IInv, TypeOK, AtWork, GetCredential, Credential
  <1>2. /\ copy \in Run /\ copy.at = "refresh" /\ copy.job = runs[w].job
        /\ copy.grant = credential.grant /\ copy.fresh = credential.fresh
    <2>1. copy = Given(runs[w], "refresh", credential.grant, credential.fresh)
      BY DEF Given
    <2>2. "refresh" \in Points
      BY DEF Points
    <2> DEFINE g == Given(runs[w], "refresh", credential.grant, credential.fresh)
    <2>3. g \in Run
      BY <1>1, <2>2, RunGranted
    <2>4. g.at = "refresh" /\ g.job = runs[w].job /\ g.grant = credential.grant
      BY <1>1, <2>2, RunGranted
    <2>5. g.fresh = credential.fresh
      BY <1>1, <2>2, RunGranted
    <2> HIDE DEF copy, g
    <2> QED BY <2>1, <2>3, <2>4, <2>5 DEF g
  <1>3. on \in Run /\ on.at = "sync" /\ on.job = runs[w].job
    BY <1>1, RunMoved DEF Points
  <1>4. /\ UNCHANGED <<credential, grants, mishaps, jobs, requests, rotates>>
        /\ \/ Connected /\ runs' = [runs EXCEPT ![w] = copy]
           \/ runs' = [runs EXCEPT ![w] = on]
           \/ runs' = [runs EXCEPT ![w] = Thrown(w)]
    BY DEF GetCredential, Throws
  <1> HIDE DEF copy, on
  <1>5. CASE runs' = [runs EXCEPT ![w] = on]
    BY <1>1, <1>3, <1>4, <1>5, QuietStep DEF TypeOK, IInv
  <1>6. CASE runs' = [runs EXCEPT ![w] = Thrown(w)]
    BY <1>1, <1>4, <1>6, ThrownShape, QuietStep DEF TypeOK, IInv
  <1>7. CASE Connected /\ runs' = [runs EXCEPT ![w] = copy]
    <2>1. TypeOK'
      BY <1>1, <1>2, <1>4, <1>7 DEF TypeOK
    <2>2. runs'[w] = copy /\ \A v \in Workers : v # w => runs'[v] = runs[v]
      BY <1>1, <1>7 DEF TypeOK
    <2>3. credential.status = "live" /\ grants.given \in Nat
      BY <1>1, <1>7, GrantShape, Numbers DEF Connected
    <2>4. (AtWork /\ GrantsKnown /\ NoneRefused)'
      BY <1>1, <1>2, <1>4, <2>2, <2>3, Numbers DEF IInv, AtWork, GrantsKnown, NoneRefused, Refreshing
    <2>5. (CopiesNewest /\ NewestGrantUnlessOvertaken /\ UsableUnlessLost)'
      BY <1>1, <1>2, <1>4, <2>2, <2>3 DEF IInv, CopiesNewest, NewestGrantUnlessOvertaken,
         UsableUnlessLost, Refreshing
    <2>6. SoleHolder'
      BY <1>2, <1>4, <2>2 DEF IInv, SoleHolder, Refreshing
    <2> QED BY <2>1, <2>4, <2>5, <2>6 DEF IInv
  <1> QED BY <1>4, <1>5, <1>6, <1>7

\* A rotating provider replaces the token w shows it: w, if it is answered,
\* holds the only good one, and otherwise nobody does.
LEMMA RotationKeeps ==
  ASSUME IInv, NEW w \in Workers, NEW r \in Run,
         rotates, runs[w].at = "refresh", runs[w].fresh, r.job = runs[w].job,
         credential' = RowRefused(runs[w].grant),
         runs' = [CopiesRefused(runs[w].grant) EXCEPT ![w] = r],
         UNCHANGED <<grants, jobs, requests, rotates>>,
         mishaps' \in Mishaps, mishaps'.overtaken = mishaps.overtaken,
         mishaps.lost \subseteq mishaps'.lost,
         \/ r.at = "put" /\ r.fresh /\ r.grant = runs[w].grant
         \/ r.at = "settle" /\ runs[w].grant \in mishaps'.lost
  PROVE  IInv'
  <1> DEFINE g == runs[w].grant
  <1>1. TypeOK /\ g \in 0 .. MaxGrants /\ g \in 1 .. grants.given
    BY RunShape DEF IInv, TypeOK, GrantsKnown, Refreshing
  <1> HIDE DEF g
  <1>2. /\ credential' \in Credential
        /\ credential'.status = credential.status /\ credential'.grant = credential.grant
        /\ credential'.fresh <=> credential.fresh /\ credential.grant # g
    BY <1>1, Refusals DEF g
  <1>3. /\ runs' \in [Workers -> Run] /\ runs'[w] = r
        /\ \A v \in Workers : v # w =>
             /\ runs'[v].at = runs[v].at /\ runs'[v].job = runs[v].job
             /\ runs'[v].grant = runs[v].grant
             /\ runs'[v].fresh <=> runs[v].fresh /\ runs[v].grant # g
    BY <1>1, Refusals DEF g
  <1>4. TypeOK'
    BY <1>1, <1>2, <1>3 DEF TypeOK
  <1>5. AtWork'
    BY <1>3 DEF IInv, AtWork
  <1>6. GrantsKnown'
    BY <1>1, <1>2, <1>3 DEF IInv, GrantsKnown, Refreshing, g
  <1>7. NoneRefused'
    BY DEF NoneRefused
  <1>8. (CopiesNewest /\ NewestGrantUnlessOvertaken)'
    BY <1>2, <1>3 DEF IInv, CopiesNewest, NewestGrantUnlessOvertaken, Refreshing, g
  <1>9. ASSUME NEW v \in Workers, v # w, runs[v].at = "put"
        PROVE  runs[v].grant # g
    BY <1>9 DEF IInv, SoleHolder, Refreshing, g
  <1>10. SoleHolder'
    <2>1. ASSUME NEW v \in Workers, runs'[v].at = "put"
          PROVE  /\ runs'[v].fresh
                 /\ credential'.grant = runs'[v].grant => ~credential'.fresh
                 /\ \A u \in Workers \ {v} :
                      Refreshing(u)' /\ runs'[u].grant = runs'[v].grant => ~runs'[u].fresh
      <3>1. CASE v = w
        BY <1>2, <1>3, <2>1, <3>1 DEF g
      <3>2. CASE v # w
        BY <1>2, <1>3, <1>9, <2>1, <3>2 DEF IInv, SoleHolder, Refreshing, g
      <3> QED BY <3>1, <3>2
    <2> QED BY <2>1 DEF SoleHolder
  <1>11. UsableUnlessLost'
    <2>1. CASE credential.grant = g
      BY <1>2, <1>3, <2>1 DEF UsableUnlessLost, g
    <2>2. CASE credential.grant # g
      BY <1>2, <1>3, <1>9, <2>2 DEF IInv, UsableUnlessLost, g
    <2> QED BY <2>1, <2>2
  <1> QED BY <1>4, <1>5, <1>6, <1>7, <1>8, <1>10, <1>11 DEF IInv

\* The provider answers a refresh, and may rotate the token.
LEMMA RefreshKeeps ==
  ASSUME IInv, NEW w \in Workers, RefreshToken(w) \/ RefreshFails(w)
  PROVE  IInv'
  <1> DEFINE moved == [runs[w] EXCEPT !.at = "put"]
  <1>1. /\ TypeOK /\ runs[w] \in Run /\ runs[w].at = "refresh" /\ runs[w].job \in Syncs
        /\ runs[w].grant \in 1 .. grants.given /\ runs[w].grant \in 1 .. MaxGrants
    BY Numbers, GrantShape DEF IInv, TypeOK, AtWork, RefreshToken, RefreshFails, GrantsKnown, Refreshing
  <1>2. /\ moved \in Run /\ moved.at = "put" /\ moved.job = runs[w].job
        /\ moved.grant = runs[w].grant /\ moved.fresh = runs[w].fresh
    BY <1>1, RunMoved DEF Points
  <1>3. runs' = [runs EXCEPT ![w].at = "put"] => runs' = [runs EXCEPT ![w] = moved]
    OBVIOUS
  <1> HIDE DEF moved
  <1>4. CASE RefreshToken(w) /\ ~rotates
    <2>1. /\ runs[w].fresh /\ runs' = [runs EXCEPT ![w] = moved]
          /\ UNCHANGED <<credential, grants, mishaps, jobs, requests, rotates>>
      BY <1>3, <1>4 DEF RefreshToken, Goes
    <2>2. TypeOK'
      BY <1>1, <1>2, <2>1 DEF TypeOK
    <2>3. runs'[w] = moved /\ \A v \in Workers : v # w => runs'[v] = runs[v]
      BY <1>1, <2>1 DEF TypeOK
    <2>4. (AtWork /\ GrantsKnown /\ NoneRefused /\ CopiesNewest)'
      BY <1>1, <1>2, <2>1, <2>3 DEF IInv, AtWork, GrantsKnown, NoneRefused, CopiesNewest, Refreshing
    <2>5. SoleHolder'
      BY <1>2, <1>4, <2>1, <2>3 DEF IInv, SoleHolder
    <2>6. (UsableUnlessLost /\ NewestGrantUnlessOvertaken)'
      BY <1>1, <2>1, <2>3 DEF IInv, UsableUnlessLost, NewestGrantUnlessOvertaken
    <2> QED BY <2>2, <2>4, <2>5, <2>6 DEF IInv
  <1>5. CASE RefreshToken(w) /\ rotates
    <2>1. /\ runs[w].fresh /\ credential' = RowRefused(runs[w].grant)
          /\ runs' = [CopiesRefused(runs[w].grant) EXCEPT ![w] = moved]
          /\ UNCHANGED <<grants, mishaps, jobs, requests, rotates>>
      BY <1>5 DEF RefreshToken, moved
    <2> QED BY <1>1, <1>2, <1>5, <2>1, RotationKeeps DEF TypeOK
  <1>6. CASE RefreshFails(w)
    <2>1. CASE Throws(w, "refresh") /\ UNCHANGED <<credential, mishaps>>
      <3>1. /\ runs' = [runs EXCEPT ![w] = Thrown(w)]
            /\ UNCHANGED <<credential, grants, mishaps, jobs, requests, rotates>>
        BY <1>6, <2>1 DEF RefreshFails, Throws
      <3> QED BY <1>1, <3>1, ThrownShape, QuietStep DEF TypeOK
    <2>2. CASE /\ rotates /\ runs[w].fresh
               /\ credential' = RowRefused(runs[w].grant)
               /\ runs' = [CopiesRefused(runs[w].grant) EXCEPT ![w] = Thrown(w)]
               /\ mishaps' = [mishaps EXCEPT !.lost = @ \union {runs[w].grant}]
      <3>1. /\ mishaps' \in Mishaps /\ mishaps'.overtaken = mishaps.overtaken
            /\ mishaps'.lost = mishaps.lost \union {runs[w].grant}
        BY <1>1, <2>2 DEF TypeOK, Mishaps
      <3>2. UNCHANGED <<grants, jobs, requests, rotates>>
        BY <1>6 DEF RefreshFails
      <3> QED BY <1>1, <2>2, <3>1, <3>2, ThrownShape, RotationKeeps
    <2> QED BY <1>6, <2>1, <2>2 DEF RefreshFails
  <1> QED BY <1>4, <1>5, <1>6

\* The answer is stored: by SoleHolder no other worker is about to store
\* tokens of the same grant.
LEMMA PutKeeps ==
  ASSUME IInv, NEW w \in Workers, PutRefreshed(w)
  PROVE  IInv'
  <1> DEFINE r == [runs[w] EXCEPT !.at = "sync", !.grant = 0, !.fresh = FALSE]
  <1>1. /\ TypeOK /\ runs[w] \in Run /\ runs[w].at = "put" /\ runs[w].job \in Syncs
        /\ runs[w].grant \in 1 .. grants.given /\ runs[w].grant \in 1 .. MaxGrants /\ runs[w].fresh
    BY Numbers, GrantShape DEF IInv, TypeOK, AtWork, PutRefreshed, GrantsKnown, Refreshing, SoleHolder
  <1>2. r \in Run /\ r.at = "sync" /\ r.job = runs[w].job
    <2> DEFINE none == FALSE
               g == Given(runs[w], "sync", 0, none)
    <2>1. r = g /\ none \in BOOLEAN
      BY DEF Given
    <2>2. "sync" \in Points /\ 0 \in 0 .. MaxGrants
      BY Numbers DEF Points
    <2> HIDE DEF none
    <2>3. g \in Run
      BY <1>1, <2>1, <2>2, RunGranted
    <2>4. g.at = "sync" /\ g.job = runs[w].job
      BY <1>1, <2>1, <2>2, RunGranted
    <2> HIDE DEF r, g
    <2> QED BY <2>1, <2>3, <2>4
  <1>3. runs' = [runs EXCEPT ![w] = r] /\ UNCHANGED <<grants, mishaps, jobs, requests, rotates>>
    BY DEF PutRefreshed
  <1> HIDE DEF r
  <1>4. /\ credential' \in Credential /\ credential'.status = "live"
        /\ credential'.grant = runs[w].grant /\ credential'.fresh
    BY <1>1 DEF PutRefreshed, Saved, Credential
  <1>5. TypeOK'
    BY <1>1, <1>2, <1>3, <1>4 DEF TypeOK
  <1>6. runs'[w] = r /\ \A v \in Workers : v # w => runs'[v] = runs[v]
    BY <1>1, <1>3 DEF TypeOK
  <1>7. (AtWork /\ GrantsKnown /\ NoneRefused /\ CopiesNewest)'
    BY <1>1, <1>2, <1>3, <1>4, <1>6 DEF IInv, AtWork, GrantsKnown, NoneRefused, CopiesNewest,
       Refreshing, TypeOK
  <1>8. (UsableUnlessLost /\ NewestGrantUnlessOvertaken)'
    BY <1>1, <1>3, <1>4 DEF IInv, UsableUnlessLost, NewestGrantUnlessOvertaken, CopiesNewest,
       Refreshing
  <1>9. SoleHolder'
    <2>1. ASSUME NEW v \in Workers, runs'[v].at = "put", rotates
          PROVE  runs[v].grant # runs[w].grant
      BY <1>1, <1>2, <1>6, <2>1 DEF IInv, SoleHolder, Refreshing
    <2> QED BY <1>2, <1>3, <1>4, <1>6, <2>1 DEF IInv, SoleHolder, Refreshing
  <1> QED BY <1>5, <1>7, <1>8, <1>9 DEF IInv

\* Steps that hold no tokens afterwards.
LEMMA OtherSteps ==
  ASSUME IInv, NEW w \in Workers,
         \/ PutFails(w) \/ Synchronize(w) \/ CheckConnected(w) \/ Settle(w) \/ Crash(w)
         \/ \E s \in Syncs : ScheduleNext(w, s) \/ Lease(w, s)
  PROVE  IInv'
  <1>1. /\ TypeOK /\ runs[w] \in Run /\ mishaps \in Mishaps
        /\ runs[w].at # "idle" => runs[w].job \in Syncs
    BY DEF IInv, TypeOK, AtWork
  <1>2. \A at \in Points : /\ [runs[w] EXCEPT !.at = at] \in Run
                           /\ [runs[w] EXCEPT !.at = at].at = at
                           /\ [runs[w] EXCEPT !.at = at].job = runs[w].job
    BY <1>1, RunMoved
  <1>3. Dropped(w) => /\ mishaps' \in Mishaps /\ mishaps'.overtaken = mishaps.overtaken
                      /\ mishaps.lost \subseteq mishaps'.lost
                      /\ runs[w].at = "put" => runs[w].grant \in mishaps'.lost
    <2>1. runs[w].at = "put" => runs[w].grant \in 1 .. MaxGrants
      BY <1>1, Numbers, GrantShape DEF IInv, GrantsKnown, Refreshing
    <2> QED BY <1>1, <2>1 DEF Dropped, Mishaps
  <1>4. CASE PutFails(w)
    <2>1. /\ runs' = [runs EXCEPT ![w] = Thrown(w)] /\ Dropped(w) /\ runs[w].at = "put"
          /\ UNCHANGED <<credential, grants, jobs, requests, rotates>>
      BY <1>4 DEF PutFails, Throws
    <2> QED BY <1>1, <1>3, <2>1, ThrownShape, QuietStep DEF TypeOK
  <1>5. CASE Crash(w)
    <2>1. /\ runs' = [runs EXCEPT ![w] = Resting] /\ Dropped(w)
          /\ UNCHANGED <<credential, grants, jobs, requests, rotates>>
      BY <1>5 DEF Crash
    <2> QED BY <1>1, <1>3, <2>1, RestingShape, QuietStep DEF TypeOK
  <1>6. CASE Settle(w)
    <2>1. /\ runs' = [runs EXCEPT ![w] = Resting] /\ runs[w].at = "settle"
          /\ UNCHANGED <<credential, grants, mishaps, requests, rotates>>
      BY <1>6 DEF Settle
    <2>2. jobs' \in [Syncs -> JobRow]
      BY <1>1, <1>6, <2>1, JobsKeepType DEF Settle
    <2> QED BY <1>1, <2>1, <2>2, RestingShape, QuietStep
  <1>7. ASSUME NEW s \in Syncs, Lease(w, s)
        PROVE  IInv'
    <2> DEFINE r == [Resting EXCEPT !.at = "get", !.job = s]
    <2>1. /\ runs' = [runs EXCEPT ![w] = r] /\ runs[w].at = "idle"
          /\ UNCHANGED <<credential, grants, mishaps, requests, rotates>>
      BY <1>7 DEF Lease
    <2>2. jobs' \in [Syncs -> JobRow]
      BY <1>1, <1>7, JobsKeepType DEF Lease
    <2>3. r \in Run /\ r.at = "get" /\ r.job = s
      BY RestingShape
    <2> HIDE DEF r
    <2> QED BY <1>1, <2>1, <2>2, <2>3, QuietStep
  <1>8. CASE Synchronize(w) \/ CheckConnected(w) \/ \E s \in Syncs : ScheduleNext(w, s)
    <2>1. /\ UNCHANGED <<credential, grants, mishaps, requests, rotates>>
          /\ jobs' \in [Syncs -> JobRow]
          /\ runs[w].at \in {"sync", "check", "schedule"}
          /\ \/ runs' = [runs EXCEPT ![w] = Thrown(w)]
             \/ \E at \in {"check", "schedule", "settle"} : runs' = [runs EXCEPT ![w].at = at]
      BY <1>1, <1>8, JobsKeepType DEF Synchronize, CheckConnected, ScheduleNext, Goes, Throws, TypeOK
    <2>2. CASE runs' = [runs EXCEPT ![w] = Thrown(w)]
      BY <1>1, <2>1, <2>2, ThrownShape, QuietStep
    <2>3. ASSUME NEW at \in {"check", "schedule", "settle"}, runs' = [runs EXCEPT ![w].at = at]
          PROVE  IInv'
      <3> DEFINE r == [runs[w] EXCEPT !.at = at]
      <3>1. runs' = [runs EXCEPT ![w] = r]
        BY <2>3
      <3>2. r \in Run /\ r.at = at /\ r.job = runs[w].job
        BY <1>2 DEF Points
      <3> HIDE DEF r
      <3> QED BY <1>1, <2>1, <3>1, <3>2, QuietStep
    <2> QED BY <2>1, <2>2, <2>3
  <1> QED BY <1>4, <1>5, <1>6, <1>7, <1>8

\* It holds at first, and every step keeps it.
LEMMA InitIInv == Init => IInv
  <1> SUFFICES ASSUME Init PROVE IInv
    OBVIOUS
  <1>1. /\ credential \in Credential /\ mishaps \in Mishaps /\ jobs \in [Syncs -> JobRow]
        /\ credential.status = "absent" /\ credential.grant = 0
        /\ grants \in Grants /\ grants.given = 0 /\ grants.stored = 0 /\ grants.inFlight = {}
    BY Numbers DEF Init, Grants, Credential, Mishaps, JobRow, Ended
  <1>2. runs \in [Workers -> Run] /\ \A w \in Workers : runs[w].at = "idle"
    BY RestingShape DEF Init
  <1>3. TypeOK
    BY <1>1, <1>2, Numbers DEF Init, TypeOK
  <1> QED BY <1>1, <1>2, <1>3 DEF IInv, AtWork, GrantsKnown, NoneRefused, SoleHolder,
             CopiesNewest, UsableUnlessLost, NewestGrantUnlessOvertaken, Refreshing

\* Every step keeps the invariant.
LEMMA NextIInv == IInv /\ [Next]_vars => IInv'
  <1> SUFFICES ASSUME IInv, [Next]_vars PROVE IInv'
    OBVIOUS
  <1>1. ASSUME NEW w \in Workers, WorkerStep(w) \/ Crash(w) \/ \E s \in Syncs : Lease(w, s)
        PROVE  IInv'
    BY <1>1, GetKeeps, RefreshKeeps, PutKeeps, OtherSteps DEF WorkerStep
  <1>2. ASSUME NEW s \in Syncs, GiveUp(s)
        PROVE  IInv'
    <2>1. jobs' \in [Syncs -> JobRow] /\ UNCHANGED <<credential, grants, mishaps, runs, requests, rotates>>
      BY <1>2, JobsKeepType DEF GiveUp, IInv
    <2> QED BY <2>1 DEF IInv, TypeOK, AtWork, GrantsKnown, NoneRefused, SoleHolder,
               CopiesNewest, UsableUnlessLost, NewestGrantUnlessOvertaken, Refreshing
  <1>3. CASE UNCHANGED vars
    BY <1>3 DEF vars, IInv, TypeOK, AtWork, GrantsKnown, NoneRefused, SoleHolder,
       CopiesNewest, UsableUnlessLost, NewestGrantUnlessOvertaken, Refreshing
  <1> QED BY <1>1, <1>2, <1>3, RouteKeeps, ExchangeKeeps, StoreKeeps, StoreFailsKeeps DEF Next

\* The invariant holds always.
LEMMA AlwaysIInv == Spec => []IInv
  BY InitIInv, NextIInv, PTL DEF Spec

-----------------------------------------------------------------------------

\* The state keeps its types: no sync is tried more often than maxAttempts.
THEOREM ConnectorTypes == Spec => []TypeOK
  <1>1. IInv => TypeOK
    BY DEF IInv
  <1> QED BY <1>1, AlwaysIInv, PTL

\* However many syncs refresh one credential at once, the stored refresh token
\* is good or its successor is about to be stored, unless a successor was lost
\* (getValid and vault.put).
THEOREM StoredTokenUsable == Spec => []UsableUnlessLost
  <1>1. IInv => UsableUnlessLost
    BY DEF IInv
  <1> QED BY <1>1, AlwaysIInv, PTL

\* Only a refresh, or the callback of an earlier consent, that was under way
\* when the newest consent was stored can put older tokens in its place (the
\* callback route, getValid and vault.put).
THEOREM NewestConsentInUse == Spec => []NewestGrantUnlessOvertaken
  <1>1. IInv => NewestGrantUnlessOvertaken
    BY DEF IInv
  <1> QED BY <1>1, AlwaysIInv, PTL

\* Nobody refreshes a credential whose tokens do not expire.
NobodyRefreshes == \A w \in Workers : ~Refreshing(w)

\* For a provider whose tokens do not expire a revoked credential stays
\* revoked until the callback of a consent stores its tokens, be it one whose
\* exchange the disconnection overtook: besides the callbacks, only the put of
\* a refresh revives it (vault.revoke, needsRefresh and vault.put).
THEOREM RevocationHoldsWithoutRefresh ==
  ASSUME ~Expiring
  PROVE  Spec => RevocationHolds
  <1>1. Init => NobodyRefreshes
    <2>1. Init => \A w \in Workers : runs[w] = Resting
      BY DEF Init
    <2> QED BY <2>1, RestingShape DEF NobodyRefreshes, Refreshing
  <1>2. IInv /\ NobodyRefreshes /\ [Next]_vars => NobodyRefreshes'
    <2> SUFFICES ASSUME IInv, NobodyRefreshes, [Next]_vars PROVE NobodyRefreshes'
      OBVIOUS
    <2>1. runs \in [Workers -> Run]
      BY DEF IInv, TypeOK
    <2>2. CASE UNCHANGED runs
      BY <2>2 DEF NobodyRefreshes, Refreshing
    <2>3. ASSUME NEW w \in Workers, NEW r, runs' = [runs EXCEPT ![w] = r],
                 r.at \notin {"refresh", "put"}
          PROVE  NobodyRefreshes'
      BY <2>1, <2>3 DEF NobodyRefreshes, Refreshing
    <2>4. ASSUME NEW w \in Workers, WorkerStep(w) \/ Crash(w) \/ \E s \in Syncs : Lease(w, s)
          PROVE  NobodyRefreshes'
      <3>1. runs[w] \in Run /\ runs[w].at \notin {"refresh", "put"}
        BY <2>1 DEF NobodyRefreshes, Refreshing
      <3>2. \A at \in Points : [runs[w] EXCEPT !.at = at].at = at
        BY <3>1, RunMoved
      <3>3. Thrown(w).at = "settle" /\ Resting.at = "idle"
        BY ThrownShape, RestingShape DEF IInv
      <3>4. \/ runs' = [runs EXCEPT ![w] = Thrown(w)]
            \/ runs' = [runs EXCEPT ![w] = Resting]
            \/ \E s \in Syncs : runs' = [runs EXCEPT ![w] = [Resting EXCEPT !.at = "get", !.job = s]]
            \/ \E at \in {"sync", "check", "schedule", "settle"} :
                 runs' = [runs EXCEPT ![w] = [@ EXCEPT !.at = at]]
        <4>1. NeedsRefresh = {FALSE}
          BY DEF NeedsRefresh
        <4>2. ~(RefreshToken(w) \/ RefreshFails(w) \/ PutRefreshed(w) \/ PutFails(w))
          BY <3>1 DEF RefreshToken, RefreshFails, PutRefreshed, PutFails, Throws
        <4>3. CASE GetCredential(w)
          BY <4>1, <4>3 DEF GetCredential, Throws
        <4>4. CASE Crash(w) \/ Settle(w)
          BY <4>4 DEF Crash, Settle
        <4>5. CASE Synchronize(w)
          BY <4>5 DEF Synchronize, Goes, Throws
        <4>6. CASE CheckConnected(w) \/ \E s \in Syncs : ScheduleNext(w, s)
          BY <4>6 DEF CheckConnected, ScheduleNext, Goes
        <4>7. CASE \E s \in Syncs : Lease(w, s)
          BY <4>7 DEF Lease
        <4> QED BY <2>4, <4>2, <4>3, <4>4, <4>5, <4>6, <4>7 DEF WorkerStep
      <3>5. CASE runs' = [runs EXCEPT ![w] = Thrown(w)] \/ runs' = [runs EXCEPT ![w] = Resting]
        BY <2>3, <3>3, <3>5
      <3>6. ASSUME NEW s \in Syncs,
                   runs' = [runs EXCEPT ![w] = [Resting EXCEPT !.at = "get", !.job = s]]
            PROVE  NobodyRefreshes'
        BY <2>3, <3>6, RestingShape
      <3>7. ASSUME NEW at \in {"sync", "check", "schedule", "settle"},
                   runs' = [runs EXCEPT ![w] = [@ EXCEPT !.at = at]]
            PROVE  NobodyRefreshes'
        BY <2>3, <3>2, <3>7 DEF Points
      <3> QED BY <3>4, <3>5, <3>6, <3>7
    <2>5. CASE \/ Exchange \/ \E g \in 1 .. MaxGrants : StoreGrant(g) \/ StoreFails(g)
               \/ UNCHANGED vars \/ \E q \in Requests : RouteStep(q)
               \/ \E s \in Syncs : GiveUp(s)
      BY <2>2, <2>5 DEF Exchange, StoreGrant, StoreFails, vars, RouteStep, RevokeCredential, CancelSyncs, AskForSync,
         EnqueueSync, RequestFails, GiveUp
    <2> QED BY <2>4, <2>5 DEF Next
  <1>3. IInv /\ NobodyRefreshes /\ [Next]_vars
          => [credential.status = "revoked" /\ credential'.status = "live"
                => credential'.grant \in grants.inFlight \ grants'.inFlight]_vars
    <2> SUFFICES ASSUME IInv, NobodyRefreshes, Next,
                        credential.status = "revoked", credential'.status = "live"
                 PROVE  credential'.grant \in grants.inFlight \ grants'.inFlight
      BY DEF vars
    <2>1. grants \in Grants
      BY DEF IInv, TypeOK
    <2>2. ASSUME NEW g \in 1 .. MaxGrants, StoreGrant(g)
          PROVE  credential'.grant \in grants.inFlight \ grants'.inFlight
      <3>1. credential'.grant = g /\ g \in grants.inFlight
        BY <2>2 DEF StoreGrant, Saved
      <3>2. g \notin grants'.inFlight
        BY <2>1, <2>2 DEF StoreGrant, Landed, Grants
      <3> QED BY <3>1, <3>2
    <2>6. CASE Exchange \/ \E g \in 1 .. MaxGrants : StoreFails(g)
      BY <2>6 DEF Exchange, StoreFails
    <2>3. ASSUME NEW q \in Requests, RouteStep(q)
          PROVE  FALSE
      BY <2>3 DEF RouteStep, RevokeCredential, CancelSyncs, AskForSync, EnqueueSync, RequestFails,
         Revoked, IInv, TypeOK, Credential
    <2>4. ASSUME NEW w \in Workers, WorkerStep(w) \/ Crash(w) \/ \E s \in Syncs : Lease(w, s)
          PROVE  FALSE
      <3>1. ~(RefreshToken(w) \/ RefreshFails(w) \/ PutRefreshed(w))
        BY DEF NobodyRefreshes, Refreshing, RefreshToken, RefreshFails, PutRefreshed
      <3> QED BY <2>4, <3>1 DEF WorkerStep, GetCredential, PutFails, Synchronize, CheckConnected,
                 Settle, ScheduleNext, Crash, Lease
    <2>5. ASSUME NEW s \in Syncs, GiveUp(s)
          PROVE  FALSE
      BY <2>5 DEF GiveUp
    <2> QED BY <2>2, <2>3, <2>4, <2>5, <2>6 DEF Next
  <1> QED BY <1>1, <1>2, <1>3, AlwaysIInv, PTL DEF Spec, RevocationHolds

=============================================================================
