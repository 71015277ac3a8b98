----------------------------- MODULE Resolution ------------------------------
(***************************************************************************)
(* One organization's evidence and what is derived from it: the claims of  *)
(* its source versions, the overrides of its reviewers, and the rows of    *)
(* opportunities that resolveOrganization replaces.  Three callers resolve:*)
(* ingest() and the override route, inside a transaction with the rows     *)
(* they add, and the privacy.reconcile job, which account erasure queues.  *)
(*                                                                         *)
(* SQLite runs a transaction as one step (`begin immediate`, one writer),  *)
(* but a reconciliation is in none: each of its statements commits by      *)
(* itself, and the other processes on the file commit between them.  In    *)
(* Postgres every statement is a step, and what it sees and waits for is   *)
(* what READ COMMITTED says: the rows committed when it starts, its own    *)
(* transaction's, and no row another one is deleting.                      *)
(*                                                                         *)
(* The clock stands still (Past says which dates have passed), a score is  *)
(* a number with the source's authority in it, and a version has one job.  *)
(***************************************************************************)
EXTENDS Integers, FiniteSets

CONSTANTS
  Versions, Claims, NoVersion, NoClaim,
  VersionOf, FieldOf, \* the source version and the field of a claim
  TimeOf,             \* publishedAt ?? extractedAt
  ScoreOf,            \* confidence * authority * recency
  OrphanScoreOf,      \* the same, with the authority 0.5 of a source that is gone
  Past,               \* the deadline and event claims whose date has passed
  EventOf,            \* title and start of an event claim: the id of its row
  Private,            \* the versions that erasing their contributor deletes
  Patches,            \* the patches a reviewer may ask for
  Dates, Null,        \* the deadlines a reviewer may set; JSON's null
  Resolvers,          \* workers and API requests, each one transaction at a time
  Backends,           \* of {"sqlite", "postgres"}
  Failing,            \* whether statements fail and processes die
  MaxTries, MaxOverrides

OppIds == {"application"} \union {EventOf[c] : c \in Claims}
Fields == {"deadline", "url", "open", "closed", "event"}
Application == "application"

ASSUME ResolutionAssumptions ==
  /\ NoClaim \notin Claims /\ NoVersion \notin Versions
  /\ VersionOf \in [Claims -> Versions]
  /\ FieldOf \in [Claims -> Fields]
  /\ TimeOf \in [Claims -> Nat]
  /\ ScoreOf \in [Claims -> Nat] /\ OrphanScoreOf \in [Claims -> Nat]
  /\ Past \subseteq Claims /\ Private \subseteq Versions
  /\ \A c \in Claims : EventOf[c] # Application
  /\ \A p \in Patches : /\ DOMAIN p \subseteq {"deadline", "stale"}
                        /\ "deadline" \in DOMAIN p => p["deadline"] \in Dates \union {Null}
                        /\ "stale" \in DOMAIN p => p["stale"] \in BOOLEAN
  /\ Backends \subseteq {"sqlite", "postgres"}
  /\ Failing \in BOOLEAN
  /\ MaxTries \in Nat \ {0} /\ MaxOverrides \in Nat

VARIABLES
  backend,        \* DATABASE_DRIVER
  claims,         \* the claims table
  overrides,      \* opportunity_overrides, n being the order of created_at
  opportunities,  \* the opportunities table
  versions,       \* what has become of each source version
  reconciles,     \* the privacy.reconcile job of an erased version
  tries,          \* attempts of a version's job so far
  asked,          \* overrides asked for so far
  txns,           \* the resolution each process is in
  raced           \* whether the rows were derived from a read that was out of
                  \* date at their commit (no variable of the program)

tables == <<claims, overrides, opportunities>>
vars == <<backend, claims, overrides, opportunities, versions, reconciles, tries, asked, txns, raced>>

-----------------------------------------------------------------------------
(* The resolver's rules *)

\* scoreClaim, sources being the versions getSource still finds
Score(c, sources) == IF VersionOf[c] \in sources THEN ScoreOf[c] ELSE OrphanScoreOf[c]

\* listClaims orders by time and the sorts are stable: of equal scores the
\* oldest claim wins, and of claims equal in both any may come first.
Best(C, sources) ==
  {c \in C : \A d \in C : \/ Score(c, sources) > Score(d, sources)
                          \/ Score(c, sources) = Score(d, sources) /\ TimeOf[c] <= TimeOf[d]}

newest(C) == {c \in C : \A d \in C : TimeOf[c] >= TimeOf[d]}

OrNone(C) == IF C = {} THEN {NoClaim} ELSE C

Row(id, deadline, url, stale, cites) ==
  [id |-> id, deadline |-> deadline, url |-> url, stale |-> stale, cites |-> cites]

\* The application row of a chosen deadline d, URL u and newest claim o that
\* applications are open or closed, if there is a d or an o.
ApplicationRow(d, u, o) ==
  LET claimed  == IF d = NoClaim THEN 0 ELSE TimeOf[d]
      closed   == o # NoClaim /\ FieldOf[o] = "closed" /\ TimeOf[o] >= claimed
      reopened == o # NoClaim /\ FieldOf[o] = "open" /\ TimeOf[o] > claimed
  IN  IF d = NoClaim /\ o = NoClaim THEN {}
      ELSE {Row(Application, IF reopened THEN NoClaim ELSE d, u,
                closed \/ (~reopened /\ d \in Past), {d, u, o} \ {NoClaim})}

EventRows(C) ==
  {Row(EventOf[c], NoClaim, NoClaim, c \in Past, {c}) : c \in {e \in C : FieldOf[e] = "event"}}

\* The overrides in the order of created_at: of each field the last patch holds.
Setting(ovs, id, field, otherwise) ==
  LET set == {v \in ovs : v.opp = id /\ field \in DOMAIN v.patch}
  IN  IF set = {} THEN otherwise
      ELSE (CHOOSE v \in set : \A w \in set : v.n >= w.n).patch[field]

Reviewed(row, ovs) ==
  [row EXCEPT !.deadline = Setting(ovs, row.id, "deadline", @),
              !.stale = Setting(ovs, row.id, "stale", @)]

\* What resolveOrganization may hand to replaceOpportunities.
Resolved(C, sources, ovs) ==
  LET of(fields) == {c \in C : FieldOf[c] \in fields}
  IN  {{Reviewed(row, ovs) : row \in ApplicationRow(d, u, o) \union EventRows(C)} :
         d \in OrNone(Best(of({"deadline"}), sources)),
         u \in OrNone(Best(of({"url"}), sources)),
         o \in OrNone(newest(of({"open", "closed"})))}

\* Two claims of the same event give two rows of one id: the insert fails.
Insertable(C) ==
  \A c, d \in C : FieldOf[c] = "event" /\ FieldOf[d] = "event" /\ EventOf[c] = EventOf[d] => c = d

-----------------------------------------------------------------------------
(* State *)

Sources == {v \in Versions : versions[v] # "erased"}
Evidence(v) == {c \in Claims : VersionOf[c] = v}

\* The route keeps the fields of the patch that JSON keeps: a null is dropped.
Stored(patch) == [f \in {g \in DOMAIN patch : patch[g] # Null} |-> patch[f]]

Overrides == [n : 1 .. MaxOverrides, opp : OppIds, patch : {Stored(p) : p \in Patches}]
Rows == [id : OppIds, deadline : Claims \union Dates \union {NoClaim},
         url : Claims \union {NoClaim}, stale : BOOLEAN, cites : SUBSET Claims]

\* A resolution under way: the version its job is about, the override it adds,
\* what it has read, the rows its delete has found and, in SQLite, the rows it
\* has still to insert.
Txn == [at      : {"idle", "checked", "listed", "scored", "deleting", "deleted", "inserting"},
        kind    : {"none", "ingest", "reconcile", "override"},
        version : Versions \union {NoVersion},
        own     : SUBSET Overrides,
        read    : SUBSET Claims,
        sources : SUBSET Versions,
        ovs     : SUBSET Overrides,
        doomed  : SUBSET Rows,
        left    : SUBSET Rows,
        fresh   : BOOLEAN]

Started(point, kind, v) ==
  [at |-> point, kind |-> kind, version |-> v, own |-> {}, read |-> {}, sources |-> {},
   ovs |-> {}, doomed |-> {}, left |-> {}, fresh |-> TRUE]

Idle == Started("idle", "none", NoVersion)

Init ==
  /\ backend \in Backends
  /\ claims = {} /\ overrides = {} /\ opportunities = {}
  /\ versions = [v \in Versions |-> "new"]
  /\ reconciles = [v \in Versions |-> "none"]
  /\ tries = [v \in Versions |-> 0]
  /\ asked = 0
  /\ txns = [r \in Resolvers |-> Idle]
  /\ raced = FALSE

\* Mutant: a job is leased however often it has failed.
JobReadyAgain(kind, v) ==
  /\ CASE kind = "ingest"    -> versions[v] = "new"
       [] kind = "reconcile" -> reconciles[v] \in {"pending", "dead"}
  /\ \A r \in Resolvers : txns[r].version # v

\* A job can be leased: the content of a new version was extracted, or an
\* erasure asks for reconciliation; each has one worker at a time.
JobReady(kind, v) ==
  /\ CASE kind = "ingest"    -> versions[v] = "new"
       [] kind = "reconcile" -> reconciles[v] = "pending"
  /\ tries[v] < MaxTries
  /\ \A r \in Resolvers : txns[r].version # v

\* The route answers 404 unless listOpportunities has the row.
Reviewable(id) == \E row \in opportunities : row.id = id

Override(id, patch) == [n |-> asked + 1, opp |-> id, patch |-> Stored(patch)]

\* What a resolution adds to the tables besides the rows it derives.
Added(kind, v) == IF kind = "ingest" THEN Evidence(v) ELSE {}

Succeeded(kind, v) ==
  /\ versions'   = IF kind = "ingest" THEN [versions EXCEPT ![v] = "ingested"] ELSE versions
  /\ reconciles' = IF kind = "reconcile" THEN [reconciles EXCEPT ![v] = "done"] ELSE reconciles
  /\ UNCHANGED tries

\* markSourceFailed or queue.fail: another try, or the end.
Failed(kind, v) ==
  /\ tries' = IF kind = "override" THEN tries ELSE [tries EXCEPT ![v] = @ + 1]
  /\ versions' = IF kind = "ingest" /\ tries[v] + 1 = MaxTries
                 THEN [versions EXCEPT ![v] = "failed"] ELSE versions
  /\ reconciles' = IF kind = "reconcile" /\ tries[v] + 1 = MaxTries
                   THEN [reconciles EXCEPT ![v] = "dead"] ELSE reconciles

-----------------------------------------------------------------------------
(* What both databases do alike *)

\* A statement that changes no table before a commit.
Unseen(r, txn) ==
  /\ txns' = [txns EXCEPT ![r] = txn]
  /\ UNCHANGED <<backend, tables, versions, reconciles, tries, raced>>

\* reconcile: listClaims.  ingest, in Postgres: begin, putClaims and listClaims.
BeginJob(r, kind, v) ==
  /\ kind = "reconcile" \/ backend = "postgres"
  /\ txns[r].at = "idle"
  /\ JobReady(kind, v)
  /\ Unseen(r, [Started("listed", kind, v) EXCEPT !.read = claims \union Added(kind, v)])
  /\ UNCHANGED asked

\* The override route: listOpportunities.
Review(r, id, patch) ==
  /\ txns[r].at = "idle"
  /\ asked < MaxOverrides /\ Reviewable(id)
  /\ asked' = asked + 1
  /\ Unseen(r, [Started("checked", "override", NoVersion) EXCEPT !.own = {Override(id, patch)}])

\* getSource of every claim, then listOpportunityOverrides.
ScoreClaims(r) ==
  /\ txns[r].at = "listed"
  /\ Unseen(r, [txns[r] EXCEPT !.at = "scored", !.sources = Sources,
                               !.ovs = overrides \union txns[r].own])
  /\ UNCHANGED asked

Ids(rows) == {row.id : row \in rows}

-----------------------------------------------------------------------------
(* SQLite: a transaction is one step, a reconciliation several *)

\* What the others have read is out of date.
Outdated(r) ==
  [s \in Resolvers |-> IF s = r THEN Idle ELSE [txns[s] EXCEPT !.fresh = FALSE]]

\* The transaction of an ingestion or of r's review.
AtOnce(r, kind, v, own) ==
  LET C == claims \union Added(kind, v) IN
  /\ backend = "sqlite"
  /\ Insertable(C)
  /\ opportunities' \in Resolved(C, Sources, overrides \union own)
  /\ claims' = C /\ overrides' = overrides \union own
  /\ Succeeded(kind, v)
  /\ txns' = Outdated(r)
  /\ raced' = FALSE
  /\ UNCHANGED <<backend, asked>>

SqliteIngest(r, v) ==
  /\ txns[r].at = "idle" /\ JobReady("ingest", v)
  /\ AtOnce(r, "ingest", v, {})

SqliteOverride(r) ==
  /\ txns[r].at = "checked"
  /\ AtOnce(r, "override", NoVersion, txns[r].own)

\* The transaction of an ingestion fails, and nothing has changed.
SqliteIngestFails(v) ==
  /\ backend = "sqlite" /\ JobReady("ingest", v)
  /\ Failing \/ ~Insertable(claims \union Evidence(v))
  /\ Failed("ingest", v)
  /\ UNCHANGED <<backend, tables, asked, txns, raced>>

\* A reconciliation has written to the table: another one that is inserting
\* will not leave there what it has read.
Disturbed(r, txn) ==
  [s \in Resolvers |-> IF s = r THEN txn
                       ELSE IF txns[s].at = "inserting" THEN [txns[s] EXCEPT !.fresh = FALSE]
                       ELSE txns[s]]

\* replaceOpportunities, in no transaction: the delete is committed at once, ...
SqliteDelete(r) ==
  LET t == txns[r] IN
  /\ backend = "sqlite" /\ t.at = "scored"
  /\ opportunities' = {}
  /\ \E rows \in Resolved(t.read, t.sources, t.ovs) :
       txns' = Disturbed(r, [t EXCEPT !.at = "inserting", !.left = rows])
  /\ UNCHANGED <<backend, claims, overrides, versions, reconciles, tries, asked, raced>>

\* ... then every insert, the application first and the events in the order of
\* their claims.
Precedes(x, y) ==
  \/ x.id = Application
  \/ y.id # Application /\ \A c \in x.cites, d \in y.cites : TimeOf[c] < TimeOf[d]

Following(rows) == {y \in rows : \A x \in rows \ {y} : ~Precedes(x, y)}

SqliteInsert(r) ==
  LET t == txns[r] IN
  /\ t.at = "inserting"
  /\ \E row \in Following(t.left) :
       /\ row.id \notin Ids(opportunities)
       /\ opportunities' = opportunities \union {row}
       /\ txns' = Disturbed(r, [t EXCEPT !.left = @ \ {row}])
  /\ UNCHANGED <<backend, claims, overrides, versions, reconciles, tries, asked, raced>>

\* The job is completed, whatever became of the rows since they were inserted.
SqliteReconciled(r) ==
  LET t == txns[r] IN
  /\ t.at = "inserting" /\ t.left = {}
  /\ Succeeded("reconcile", t.version)
  /\ txns' = [txns EXCEPT ![r] = Idle]
  /\ raced' = ~t.fresh
  /\ UNCHANGED <<backend, tables, asked>>

-----------------------------------------------------------------------------
(* Postgres: a resolution is a sequence of statements *)

\* The override route: begin, putOpportunityOverride and listClaims.
BeginOverride(r) ==
  /\ backend = "postgres" /\ txns[r].at = "checked"
  /\ Unseen(r, [txns[r] EXCEPT !.at = "listed", !.read = claims, !.fresh = TRUE])
  /\ UNCHANGED asked

\* replaceOpportunities: the delete finds the rows committed by now ...
DeleteRows(r) ==
  /\ backend = "postgres" /\ txns[r].at = "scored"
  /\ Unseen(r, [txns[r] EXCEPT !.at = "deleting", !.doomed = opportunities])
  /\ UNCHANGED asked

\* ... and waits for the transactions that are deleting some of them already.
LockRows(r) ==
  /\ txns[r].at = "deleting"
  /\ \A s \in Resolvers : txns[s].at = "deleted" => txns[s].doomed \intersect txns[r].doomed = {}
  /\ Unseen(r, [txns[r] EXCEPT !.at = "deleted"])
  /\ UNCHANGED asked

\* After a commit: its rows are gone, and what others have read is out of date.
Overtaken(r, doomed) ==
  [s \in Resolvers |-> IF s = r THEN Idle
                       ELSE [txns[s] EXCEPT !.doomed = @ \ doomed, !.fresh = FALSE]]

\* The inserts meet no row of their ids that the delete has not seen; commit.
Commit(r) ==
  LET t == txns[r]
      kept == opportunities \ t.doomed
  IN  /\ t.at = "deleted" /\ Insertable(t.read)
      /\ \E rows \in Resolved(t.read, t.sources, t.ovs) :
           /\ Ids(rows) \intersect Ids(kept) = {}
           /\ opportunities' = kept \union rows
      /\ claims' = claims \union Added(t.kind, t.version)
      /\ overrides' = overrides \union t.own
      /\ Succeeded(t.kind, t.version)
      /\ txns' = Overtaken(r, t.doomed)
      /\ raced' = ~t.fresh
      /\ UNCHANGED <<backend, asked>>

\* Mutant: no transaction around putClaims and the resolution.
AbandonKeepsRows(r) ==
  LET t == txns[r] IN
  /\ t.at # "idle"
  /\ opportunities' \in IF t.at = "deleted" THEN Resolved(t.read, t.sources, t.ovs)
                        ELSE {opportunities}
  /\ Failed(t.kind, t.version)
  /\ txns' = [txns EXCEPT ![r] = Idle]
  /\ UNCHANGED <<backend, claims, overrides, asked, raced>>

\* An insert fails on an id, a statement times out or the process dies.  A
\* transaction is rolled back; what a reconciliation of SQLite has deleted and
\* inserted stays as it is.
Abandon(r) ==
  LET t == txns[r] IN
  /\ t.at # "idle"
  /\ \/ Failing
     \/ backend = "sqlite" /\ t.at = "checked" /\ ~Insertable(claims)
     \/ t.at = "inserting" /\ \E row \in Following(t.left) : row.id \in Ids(opportunities)
     \/ t.at = "deleted" /\ ~Insertable(t.read)
     \/ /\ t.at = "deleted"
        /\ \E rows \in Resolved(t.read, t.sources, t.ovs) :
             Ids(rows) \intersect Ids(opportunities \ t.doomed) # {}
  /\ Failed(t.kind, t.version)
  /\ txns' = [txns EXCEPT ![r] = Idle]
  /\ UNCHANGED <<backend, tables, asked, raced>>

-----------------------------------------------------------------------------
(* Account erasure *)

\* Mutant: no reconciliation is queued.
EraseSilently(v) ==
  /\ v \in Private /\ versions[v] # "erased"
  /\ \A r \in Resolvers : txns[r].version # v
  /\ claims' = claims \ Evidence(v)
  /\ versions' = [versions EXCEPT ![v] = "erased"]
  /\ tries' = [tries EXCEPT ![v] = 0]
  /\ txns' = [s \in Resolvers |-> [txns[s] EXCEPT !.fresh = FALSE]]
  /\ UNCHANGED <<backend, overrides, opportunities, reconciles, asked, raced>>

\* eraseAccount of the last contributor of a private version: one transaction
\* that waits for an ingestion of the version, whose claims refer to its row.
Erase(v) ==
  /\ v \in Private /\ versions[v] # "erased"
  /\ \A r \in Resolvers : txns[r].version # v
  /\ claims' = claims \ Evidence(v)
  /\ versions' = [versions EXCEPT ![v] = "erased"]
  /\ reconciles' = [reconciles EXCEPT ![v] = "pending"]
  /\ tries' = [tries EXCEPT ![v] = 0]
  /\ txns' = [s \in Resolvers |-> [txns[s] EXCEPT !.fresh = FALSE]]
  /\ UNCHANGED <<backend, overrides, opportunities, asked, raced>>

-----------------------------------------------------------------------------

CommonNext(r) ==
  \/ \E v \in Versions, kind \in {"ingest", "reconcile"} : BeginJob(r, kind, v)
  \/ \E id \in OppIds, patch \in Patches : Review(r, id, patch)
  \/ ScoreClaims(r) \/ Abandon(r)

SqliteNext(r) ==
  \/ \E v \in Versions : SqliteIngest(r, v) \/ SqliteIngestFails(v)
  \/ SqliteOverride(r) \/ SqliteDelete(r) \/ SqliteInsert(r) \/ SqliteReconciled(r)

PostgresNext(r) ==
  BeginOverride(r) \/ DeleteRows(r) \/ LockRows(r) \/ Commit(r)

Next ==
  \/ \E r \in Resolvers : CommonNext(r) \/ SqliteNext(r) \/ PostgresNext(r)
  \/ \E v \in Versions : Erase(v)

Spec == Init /\ [][Next]_vars

-----------------------------------------------------------------------------
(* Properties *)

TypeOK ==
  /\ backend \in Backends
  /\ claims \subseteq Claims
  /\ overrides \subseteq Overrides
  /\ opportunities \subseteq Rows
  /\ versions \in [Versions -> {"new", "ingested", "failed", "erased"}]
  /\ reconciles \in [Versions -> {"none", "pending", "done", "dead"}]
  /\ tries \in [Versions -> 0 .. MaxTries]
  /\ asked \in 0 .. MaxOverrides
  /\ txns \in [Resolvers -> Txn]
  /\ raced \in BOOLEAN

\* The rows students see are what the rules make of the claims and overrides
\* in the tables, whichever of ingestion, review, erasure and reconciliation
\* came last and however often one of them failed half-way.  Excepted are the
\* rows while a reconciliation is due or once one was given up, and the rows
\* that a resolution leaves which had read before another one committed:
\* neither isolation level nor lock of the code excludes that in Postgres, nor
\* in SQLite for a reconciliation (worker.ts:118), which is in no transaction.
CurrentUnlessRaced ==
  /\ ~raced
  /\ \A v \in Versions : reconciles[v] \notin {"pending", "dead"}
  => opportunities \in Resolved(claims, Sources, overrides) /\ Insertable(claims)

\* No row rests on evidence that was never there: a claim it cites is in the
\* table, or was erased with its version; the claims of an ingestion that was
\* rolled back are cited by nothing.
CitesRealEvidence ==
  \A row \in opportunities : \A c \in row.cites :
    c \in claims \/ versions[VersionOf[c]] = "erased"

\* A source is not lost because of what other sources say: while no statement
\* fails and no process dies every version handed to ingest() is ingested
\* ("no lost or duplicated source versions").
NoVersionLost == Failing \/ \A v \in Versions : versions[v] # "failed"
=============================================================================
