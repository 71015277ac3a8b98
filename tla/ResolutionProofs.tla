--------------------------- MODULE ResolutionProofs ---------------------------
(***************************************************************************)
(* Proofs about Resolution for any evidence, reviewers' patches, number of *)
(* processes and attempts, and for either backend.                         *)
(***************************************************************************)
EXTENDS Resolution, WellFoundedInduction, TLAPS

-----------------------------------------------------------------------------
(* The inductive invariant *)

Reading == {"listed", "scored", "deleting", "deleted"}
Scoring == {"scored", "deleting", "deleted"}
Emptying == {"deleting", "deleted"}
JobKinds == {"ingest", "reconcile"}

\* A process that is idle has nothing in hand; in SQLite only a reconciliation
\* is suspended, and its job is due until it ends.
Held(t) ==
  /\ t.at = "idle" => t.kind = "none" /\ t.read = {}
  /\ t.at # "inserting" => t.left = {}
  /\ t.at # "idle" => t.kind # "none"
  /\ t.at = "checked" => t.kind = "override"
  /\ t.at \in Emptying => backend = "postgres"
  /\ t.at = "inserting" => backend = "sqlite"
  /\ backend = "sqlite" /\ t.at \notin {"idle", "checked"} => t.kind = "reconcile"
  /\ t.kind # "override" => t.own = {}
  /\ t.kind \in {"none", "override"} => t.version = NoVersion
  /\ t.kind \in JobKinds => t.version \in Versions /\ tries[t.version] < MaxTries
  /\ t.kind = "ingest" => versions[t.version] = "new"
  /\ t.kind = "reconcile" => reconciles[t.version] = "pending"

\* No job is worked on by two.
JobsHeld ==
  \A r \in Resolvers :
    /\ Held(txns[r])
    /\ txns[r].kind \in JobKinds =>
         \A s \in Resolvers : txns[s].version = txns[r].version => s = r

\* What a process has read was in the table, or is its own, or was erased.
Real(t) ==
  /\ \A c \in t.read : \/ c \in claims \/ versions[VersionOf[c]] = "erased"
                       \/ c \in Added(t.kind, t.version)
  /\ \A row \in t.left : row.cites \subseteq t.read

ReadsReal == \A r \in Resolvers : Real(txns[r])

DistinctIds(rows) == \A x, y \in rows : x.id = y.id => x = y

\* While nobody commits, what a process has read is what the tables hold; and
\* a reconciliation of SQLite that is inserting has the other rows in place.
AsRead(t) ==
  /\ t.at \in Reading => t.read = claims \union Added(t.kind, t.version)
  /\ t.at \in Scoring => t.sources = Sources /\ t.ovs = overrides \union t.own
  /\ t.at \in Emptying => t.doomed = opportunities
  /\ t.at = "inserting" => /\ opportunities \union t.left \in Resolved(claims, Sources, overrides)
                           /\ DistinctIds(opportunities)

ReadsCurrent == \A r \in Resolvers : txns[r].fresh => AsRead(txns[r])

IInv == /\ TypeOK /\ JobsHeld /\ ReadsReal /\ ReadsCurrent
        /\ CitesRealEvidence /\ CurrentUnlessRaced
-----------------------------------------------------------------------------
(* What the resolver's rules return *)

\* Every set of natural numbers has a least element.
LEMMA Least ==
  ASSUME NEW T, T \subseteq Nat, T # {}
  PROVE  \E x \in T : \A y \in T : x <= y
  <1> DEFINE R == OpToRel(<, Nat)
  <1>1. IsWellFoundedOn(R, Nat)
    BY NatLessThanWellFounded
  <1>2. \A x, y \in Nat : <<y, x>> \in R <=> y < x
    BY DEF OpToRel
  <1> HIDE DEF R
  <1>3. PICK x \in T : \A y \in T : ~ (<<y, x>> \in R)
    BY <1>1, WFMin
  <1>4. ASSUME NEW y \in T
        PROVE  x <= y
    <2>1. x \in Nat /\ y \in Nat
      OBVIOUS
    <2>2. ~(y < x)
      BY <1>2, <1>3, <2>1
    <2> QED BY <2>1, <2>2
  <1> QED BY <1>4

\* A bounded set of natural numbers has a greatest element.
LEMMA Greatest ==
  ASSUME NEW T, NEW m \in Nat, T \subseteq 0 .. m, T # {}
  PROVE  \E x \in T : \A y \in T : x >= y
  <1> DEFINE L == {m - x : x \in T}
  <1>1. L \subseteq Nat /\ L # {}
    <2>1. \A x \in T : m - x \in Nat
      OBVIOUS
    <2>2. L \subseteq Nat
      BY <2>1
    <2>3. PICK x \in T : TRUE
      OBVIOUS
    <2>4. m - x \in L
      OBVIOUS
    <2> QED BY <2>2, <2>4
  <1>2. PICK l \in L : \A k \in L : l <= k
    BY <1>1, Least
  <1>3. PICK x \in T : l = m - x
    BY <1>2
  <1>4. ASSUME NEW y \in T
        PROVE  x >= y
    <2>1. m - y \in L
      OBVIOUS
    <2> QED BY <1>2, <1>3, <2>1
  <1> QED BY <1>4

\* A stored patch sets a deadline to a date and nothing else.
LEMMA PatchShape ==
  ASSUME NEW v \in Overrides
  PROVE  /\ "deadline" \in DOMAIN v.patch => v.patch["deadline"] \in Dates
         /\ "stale" \in DOMAIN v.patch => v.patch["stale"] \in BOOLEAN
         /\ v.n \in 1 .. MaxOverrides
  <1>1. v.patch \in {Stored(p) : p \in Patches} /\ v.n \in 1 .. MaxOverrides
    BY DEF Overrides
  <1>2. PICK p \in Patches : v.patch = Stored(p)
    BY <1>1
  <1>3. /\ DOMAIN v.patch = {g \in DOMAIN p : p[g] # Null}
        /\ \A f \in DOMAIN v.patch : v.patch[f] = p[f]
    BY <1>2 DEF Stored
  <1>4. /\ "deadline" \in DOMAIN p => p["deadline"] \in Dates \union {Null}
        /\ "stale" \in DOMAIN p => p["stale"] \in BOOLEAN
    BY ResolutionAssumptions
  <1> QED BY <1>1, <1>3, <1>4

\* What a field is after the overrides: what it was, or what one of them says.
LEMMA SettingIs ==
  ASSUME NEW ovs \in SUBSET Overrides, NEW id, NEW field, NEW otherwise
  PROVE  \/ Setting(ovs, id, field, otherwise) = otherwise
         \/ \E v \in ovs : /\ field \in DOMAIN v.patch
                           /\ Setting(ovs, id, field, otherwise) = v.patch[field]
  <1> DEFINE set == {v \in ovs : v.opp = id /\ field \in DOMAIN v.patch}
             last == CHOOSE v \in set : \A w \in set : v.n >= w.n
  <1>1. CASE set = {}
    BY <1>1 DEF Setting
  <1>2. CASE set # {}
    <2>1. \A v \in set : v.n \in 1 .. MaxOverrides
      BY PatchShape
    <2>2. \E v \in set : \A w \in set : v.n >= w.n
      <3> DEFINE numbers == {v.n : v \in set}
      <3> HIDE DEF set
      <3>1. numbers \subseteq 0 .. MaxOverrides /\ MaxOverrides \in Nat
        BY <2>1, ResolutionAssumptions
      <3>2. PICK v \in set : TRUE
        BY <1>2
      <3>3. v.n \in numbers
        OBVIOUS
      <3>4. numbers # {}
        BY <3>3
      <3> HIDE DEF numbers
      <3>5. PICK x \in numbers : \A y \in numbers : x >= y
        BY <3>1, <3>4, Greatest
      <3>6. PICK l \in set : x = l.n
        BY <3>5 DEF numbers
      <3>7. \A w \in set : w.n \in numbers
        BY DEF numbers
      <3> QED BY <3>5, <3>6, <3>7
    <2>3. last \in set
      BY <2>2
    <2>4. Setting(ovs, id, field, otherwise) = last.patch[field]
      BY <1>2 DEF Setting
    <2> HIDE DEF last
    <2> QED BY <2>3, <2>4
  <1> QED BY <1>1, <1>2

\* Overrides change the deadline and the staleness of a row, not its evidence.
LEMMA ReviewedShape ==
  ASSUME NEW ovs \in SUBSET Overrides, NEW row \in Rows
  PROVE  /\ Reviewed(row, ovs) \in Rows /\ Reviewed(row, ovs).cites = row.cites
         /\ Reviewed(row, ovs).id = row.id
  <1> DEFINE d == Setting(ovs, row.id, "deadline", row.deadline)
             s == Setting(ovs, row.id, "stale", row.stale)
             dated == [row EXCEPT !.deadline = d]
  <1>1. row.deadline \in Claims \union Dates \union {NoClaim} /\ row.stale \in BOOLEAN
    BY DEF Rows
  <1>2. d \in Claims \union Dates \union {NoClaim}
    BY <1>1, SettingIs, PatchShape
  <1>3. s \in BOOLEAN
    BY <1>1, SettingIs, PatchShape
  <1>4. Reviewed(row, ovs) = [dated EXCEPT !.stale = s]
    BY DEF Reviewed
  <1> HIDE DEF d, s
  <1>5. dated \in Rows /\ dated.cites = row.cites /\ dated.id = row.id
    BY <1>2 DEF Rows
  <1> HIDE DEF dated
  <1> QED BY <1>3, <1>4, <1>5 DEF Rows

\* The rows of the rules, and what they cite.
LEMMA RuleRows ==
  ASSUME NEW C \in SUBSET Claims, NEW d \in C \union {NoClaim}, NEW u \in C \union {NoClaim},
         NEW o \in C \union {NoClaim},
         NEW row \in ApplicationRow(d, u, o) \union EventRows(C)
  PROVE  row \in Rows /\ row.cites \subseteq C
  <1>2. CASE row \in EventRows(C)
    <2>1. PICK c \in C : row = Row(EventOf[c], NoClaim, NoClaim, c \in Past, {c})
      BY <1>2 DEF EventRows
    <2> DEFINE past == c \in Past
    <2>2. EventOf[c] \in OppIds /\ past \in BOOLEAN /\ {c} \in SUBSET C
      BY DEF OppIds
    <2>3. row = Row(EventOf[c], NoClaim, NoClaim, past, {c})
      BY <2>1
    <2> HIDE DEF past
    <2> QED BY <2>2, <2>3 DEF Row, Rows
  <1>3. CASE row \in ApplicationRow(d, u, o)
    <2> DEFINE claimed  == IF d = NoClaim THEN 0 ELSE TimeOf[d]
               closed   == o # NoClaim /\ FieldOf[o] = "closed" /\ TimeOf[o] >= claimed
               reopened == o # NoClaim /\ FieldOf[o] = "open" /\ TimeOf[o] > claimed
               stale == closed \/ (~reopened /\ d \in Past)
               shown == IF reopened THEN NoClaim ELSE d
               cites == {d, u, o} \ {NoClaim}
    <2>1. row = Row(Application, shown, u, stale, cites)
      BY <1>3 DEF ApplicationRow
    <2>2. /\ Application \in OppIds /\ shown \in C \union {NoClaim} /\ stale \in BOOLEAN
          /\ cites \in SUBSET C
      BY DEF OppIds, Application
    <2> HIDE DEF stale, shown, cites
    <2> QED BY <2>1, <2>2 DEF Row, Rows
  <1> QED BY <1>2, <1>3

\* What resolveOrganization derives from the claims C cites claims of C.
LEMMA ResolvedRows ==
  ASSUME NEW C \in SUBSET Claims, NEW sources, NEW ovs \in SUBSET Overrides,
         NEW rows \in Resolved(C, sources, ovs)
  PROVE  rows \in SUBSET Rows /\ \A row \in rows : row.cites \subseteq C
  <1> DEFINE of(fields) == {c \in C : FieldOf[c] \in fields}
  <1>1. PICK d \in OrNone(Best(of({"deadline"}), sources)),
             u \in OrNone(Best(of({"url"}), sources)),
             o \in OrNone(newest(of({"open", "closed"}))) :
          rows = {Reviewed(row, ovs) : row \in ApplicationRow(d, u, o) \union EventRows(C)}
    BY DEF Resolved
  <1>2. d \in C \union {NoClaim} /\ u \in C \union {NoClaim} /\ o \in C \union {NoClaim}
    BY DEF OrNone, Best, newest
  <1>3. ASSUME NEW row \in rows
        PROVE  row \in Rows /\ row.cites \subseteq C
    <2>1. PICK rule \in ApplicationRow(d, u, o) \union EventRows(C) : row = Reviewed(rule, ovs)
      BY <1>1
    <2>2. rule \in Rows /\ rule.cites \subseteq C
      BY <1>2, RuleRows
    <2> QED BY <2>1, <2>2, ReviewedShape
  <1> QED BY <1>3

\* If no two rows derived from the claims C have one id, no two claims of C are
\* about one event.
LEMMA DistinctEvents ==
  ASSUME NEW C \in SUBSET Claims, NEW sources, NEW ovs \in SUBSET Overrides,
         NEW rows \in Resolved(C, sources, ovs), DistinctIds(rows)
  PROVE  Insertable(C)
  <1> DEFINE of(fields) == {c \in C : FieldOf[c] \in fields}
             Rule(c) == Row(EventOf[c], NoClaim, NoClaim, c \in Past, {c})
  <1>1. PICK d \in OrNone(Best(of({"deadline"}), sources)),
             u \in OrNone(Best(of({"url"}), sources)),
             o \in OrNone(newest(of({"open", "closed"}))) :
          rows = {Reviewed(row, ovs) : row \in ApplicationRow(d, u, o) \union EventRows(C)}
    BY DEF Resolved
  <1>2. ASSUME NEW c \in C, FieldOf[c] = "event"
        PROVE  /\ Reviewed(Rule(c), ovs) \in rows /\ Reviewed(Rule(c), ovs).id = EventOf[c]
               /\ Reviewed(Rule(c), ovs).cites = {c}
    <2>1. Rule(c) \in EventRows(C)
      BY <1>2 DEF EventRows
    <2>2. Rule(c).id = EventOf[c] /\ Rule(c).cites = {c}
      BY DEF Row
    <2> HIDE DEF Rule
    <2>3. Rule(c) \in Rows
      <3>1. NoClaim \in C \union {NoClaim} /\ Rule(c) \in ApplicationRow(NoClaim, NoClaim, NoClaim) \union EventRows(C)
        BY <2>1
      <3> QED BY <3>1, RuleRows
    <2>4. Reviewed(Rule(c), ovs) \in rows
      BY <1>1, <2>1
    <2> QED BY <2>2, <2>3, <2>4, ReviewedShape
  <1>3. ASSUME NEW c \in C, NEW d2 \in C, FieldOf[c] = "event", FieldOf[d2] = "event",
               EventOf[c] = EventOf[d2]
        PROVE  c = d2
    <2> HIDE DEF Rule
    <2>1. Reviewed(Rule(c), ovs) = Reviewed(Rule(d2), ovs)
      BY <1>2, <1>3 DEF DistinctIds
    <2>2. {c} = {d2}
      BY <1>2, <1>3, <2>1
    <2> QED BY <2>2
  <1> QED BY <1>3 DEF Insertable

\* Without evidence there are no rows.
LEMMA NothingResolved ==
  ASSUME NEW sources
  PROVE  {} \in Resolved({}, sources, {}) /\ Insertable({})
  <1> DEFINE of(fields) == {c \in {} : FieldOf[c] \in fields}
  <1>1. /\ NoClaim \in OrNone(Best(of({"deadline"}), sources))
        /\ NoClaim \in OrNone(Best(of({"url"}), sources))
        /\ NoClaim \in OrNone(newest(of({"open", "closed"})))
    BY DEF OrNone, Best, newest
  <1>2. ApplicationRow(NoClaim, NoClaim, NoClaim) \union EventRows({}) = {}
    BY DEF ApplicationRow, EventRows
  <1>3. {Reviewed(row, {}) : row \in ApplicationRow(NoClaim, NoClaim, NoClaim) \union EventRows({})} = {}
    BY <1>2
  <1> QED BY <1>1, <1>3 DEF Resolved, Insertable

-----------------------------------------------------------------------------
(* Transactions *)

Stages == {"idle", "checked", "listed", "scored", "deleting", "deleted", "inserting"}
Kinds == {"none", "ingest", "reconcile", "override"}

\* u is about the same job or review as t, and has the same rows to insert.
Continues(u, t) ==
  u.kind = t.kind /\ u.version = t.version /\ u.own = t.own /\ u.left = t.left

\* A transaction as it begins,
LEMMA StartedShape ==
  ASSUME NEW at \in Stages, NEW kind \in Kinds, NEW v \in Versions \union {NoVersion},
         NEW t, t = Started(at, kind, v)
  PROVE  /\ t \in Txn /\ t.at = at /\ t.kind = kind /\ t.version = v /\ t.own = {} /\ t.read = {}
         /\ t.left = {} /\ t.fresh = TRUE
  BY DEF Started, Txn, Stages, Kinds

\* and one that has ended.
LEMMA IdleShape ==
  /\ Idle \in Txn /\ Idle.at = "idle" /\ Idle.kind = "none" /\ Idle.version = NoVersion
  /\ Idle.read = {} /\ Idle.left = {} /\ Idle.own = {}
  BY DEF Idle, Started, Txn

\* A transaction with one field replaced: where it is,
LEMMA SetAt ==
  ASSUME NEW t \in Txn, NEW at \in Stages, NEW u, u = [t EXCEPT !.at = at]
  PROVE  /\ u \in Txn /\ u.at = at /\ Continues(u, t) /\ u.read = t.read
         /\ u.sources = t.sources /\ u.ovs = t.ovs /\ u.doomed = t.doomed /\ u.fresh = t.fresh
  BY DEF Txn, Stages, Continues

\* the claims it has read,
LEMMA SetRead ==
  ASSUME NEW t \in Txn, NEW read \in SUBSET Claims, NEW u, u = [t EXCEPT !.read = read]
  PROVE  /\ u \in Txn /\ u.at = t.at /\ Continues(u, t) /\ u.read = read /\ u.fresh = t.fresh
  BY DEF Txn, Continues

\* the override it writes itself,
LEMMA SetOwn ==
  ASSUME NEW t \in Txn, NEW own \in SUBSET Overrides, NEW u, u = [t EXCEPT !.own = own]
  PROVE  /\ u \in Txn /\ u.at = t.at /\ u.kind = t.kind /\ u.version = t.version
         /\ u.own = own /\ u.read = t.read /\ u.left = t.left
  BY DEF Txn

\* that what it read is what the tables hold,
LEMMA SetFresh ==
  ASSUME NEW t \in Txn, NEW u, u = [t EXCEPT !.fresh = TRUE]
  PROVE  u \in Txn /\ u.at = t.at /\ Continues(u, t) /\ u.read = t.read /\ u.fresh = TRUE
  BY DEF Txn, Continues

\* that it no longer is,
LEMMA SetOutdated ==
  ASSUME NEW t \in Txn, NEW u, u = [t EXCEPT !.fresh = FALSE]
  PROVE  u \in Txn /\ u.at = t.at /\ Continues(u, t) /\ u.read = t.read /\ ~u.fresh
  BY DEF Txn, Continues

\* the sources it has read,
LEMMA SetSources ==
  ASSUME NEW t \in Txn, NEW sources \in SUBSET Versions, NEW u, u = [t EXCEPT !.sources = sources]
  PROVE  /\ u \in Txn /\ u.at = t.at /\ Continues(u, t) /\ u.read = t.read
         /\ u.sources = sources /\ u.fresh = t.fresh
  BY DEF Txn, Continues

\* the overrides it has read,
LEMMA SetOvs ==
  ASSUME NEW t \in Txn, NEW ovs \in SUBSET Overrides, NEW u, u = [t EXCEPT !.ovs = ovs]
  PROVE  /\ u \in Txn /\ u.at = t.at /\ Continues(u, t) /\ u.read = t.read
         /\ u.sources = t.sources /\ u.ovs = ovs /\ u.fresh = t.fresh
  BY DEF Txn, Continues

\* the rows it has still to insert,
LEMMA SetLeft ==
  ASSUME NEW t \in Txn, NEW left \in SUBSET Rows, NEW u, u = [t EXCEPT !.left = left]
  PROVE  /\ u \in Txn /\ u.at = t.at /\ u.kind = t.kind /\ u.version = t.version /\ u.own = t.own
         /\ u.left = left /\ u.read = t.read /\ u.fresh = t.fresh
  BY DEF Txn

\* and the rows it is going to delete.
LEMMA SetDoomed ==
  ASSUME NEW t \in Txn, NEW doomed \in SUBSET Rows, NEW u, u = [t EXCEPT !.doomed = doomed]
  PROVE  /\ u \in Txn /\ u.at = t.at /\ Continues(u, t) /\ u.read = t.read
         /\ u.sources = t.sources /\ u.ovs = t.ovs /\ u.doomed = doomed /\ u.fresh = t.fresh
  BY DEF Txn, Continues

\* BeginOverride's transaction
Relist(t, read) == [t EXCEPT !.at = "listed", !.read = read, !.fresh = TRUE]

\* The step that lists the claims,
LEMMA Relisted ==
  ASSUME NEW t \in Txn, NEW read \in SUBSET Claims, NEW u, u = Relist(t, read)
  PROVE  u \in Txn /\ u.at = "listed" /\ Continues(u, t) /\ u.read = read /\ u.fresh = TRUE
  <1> DEFINE first == [t EXCEPT !.at = "listed"]
             second == [first EXCEPT !.read = read]
             third == [second EXCEPT !.fresh = TRUE]
  <1>1. u = third
    BY DEF Relist
  <1>2. first \in Txn /\ first.at = "listed" /\ Continues(first, t)
    BY SetAt DEF Stages
  <1> HIDE DEF first
  <1>3. second \in Txn /\ second.at = "listed" /\ Continues(second, first) /\ second.read = read
    BY <1>2, SetRead
  <1> HIDE DEF second
  <1>4. third \in Txn /\ third.at = "listed" /\ Continues(third, second) /\ third.read = read
        /\ third.fresh = TRUE
    BY <1>3, SetFresh
  <1> HIDE DEF third
  <1> QED BY <1>1, <1>2, <1>3, <1>4 DEF Continues

\* ScoreClaims' transaction
Scores(t, sources, ovs) == [t EXCEPT !.at = "scored", !.sources = sources, !.ovs = ovs]

\* the one that reads sources and overrides,
LEMMA Scored ==
  ASSUME NEW t \in Txn, NEW sources \in SUBSET Versions, NEW ovs \in SUBSET Overrides,
         NEW u, u = Scores(t, sources, ovs)
  PROVE  /\ u \in Txn /\ u.at = "scored" /\ Continues(u, t) /\ u.read = t.read
         /\ u.sources = sources /\ u.ovs = ovs /\ u.fresh = t.fresh
  <1> DEFINE first == [t EXCEPT !.at = "scored"]
             second == [first EXCEPT !.sources = sources]
             third == [second EXCEPT !.ovs = ovs]
  <1>1. u = third
    BY DEF Scores
  <1>2. first \in Txn /\ first.at = "scored" /\ Continues(first, t) /\ first.read = t.read
        /\ first.fresh = t.fresh
    BY SetAt DEF Stages
  <1> HIDE DEF first
  <1>3. /\ second \in Txn /\ second.at = "scored" /\ Continues(second, first)
        /\ second.read = first.read /\ second.sources = sources /\ second.fresh = first.fresh
    BY <1>2, SetSources
  <1> HIDE DEF second
  <1>4. /\ third \in Txn /\ third.at = "scored" /\ Continues(third, second)
        /\ third.read = second.read /\ third.sources = sources /\ third.ovs = ovs
        /\ third.fresh = second.fresh
    BY <1>3, SetOvs
  <1> HIDE DEF third
  <1> QED BY <1>1, <1>2, <1>3, <1>4 DEF Continues

\* DeleteRows' transaction
Empties(t, doomed) == [t EXCEPT !.at = "deleting", !.doomed = doomed]

\* the one that finds the rows to delete,
LEMMA Emptied ==
  ASSUME NEW t \in Txn, NEW doomed \in SUBSET Rows, NEW u, u = Empties(t, doomed)
  PROVE  /\ u \in Txn /\ u.at = "deleting" /\ Continues(u, t) /\ u.read = t.read
         /\ u.sources = t.sources /\ u.ovs = t.ovs /\ u.doomed = doomed /\ u.fresh = t.fresh
  <1> DEFINE first == [t EXCEPT !.at = "deleting"]
             second == [first EXCEPT !.doomed = doomed]
  <1>1. u = second
    BY DEF Empties
  <1>2. /\ first \in Txn /\ first.at = "deleting" /\ Continues(first, t) /\ first.read = t.read
        /\ first.sources = t.sources /\ first.ovs = t.ovs /\ first.fresh = t.fresh
    BY SetAt DEF Stages
  <1> HIDE DEF first
  <1>3. /\ second \in Txn /\ second.at = "deleting" /\ Continues(second, first)
        /\ second.read = first.read /\ second.sources = first.sources /\ second.ovs = first.ovs
        /\ second.doomed = doomed /\ second.fresh = first.fresh
    BY <1>2, SetDoomed
  <1> HIDE DEF second
  <1> QED BY <1>1, <1>2, <1>3 DEF Continues

\* What a commit does to the transactions of others
Outdate(t, doomed) == [t EXCEPT !.doomed = @ \ doomed, !.fresh = FALSE]

\* and what a commit does to the others.
LEMMA OutdatedTxn ==
  ASSUME NEW t \in Txn, NEW doomed, NEW u, u = Outdate(t, doomed)
  PROVE  u \in Txn /\ u.at = t.at /\ Continues(u, t) /\ u.read = t.read /\ ~u.fresh
  <1> DEFINE left == t.doomed \ doomed
             first == [t EXCEPT !.doomed = left]
             second == [first EXCEPT !.fresh = FALSE]
  <1>1. u = second /\ left \in SUBSET Rows
    BY DEF Txn, Outdate
  <1> HIDE DEF left
  <1>2. first \in Txn /\ first.at = t.at /\ Continues(first, t) /\ first.read = t.read
    BY <1>1, SetDoomed
  <1> HIDE DEF first
  <1>3. second \in Txn /\ second.at = t.at /\ Continues(second, first) /\ second.read = first.read
        /\ ~second.fresh
    BY <1>2, SetOutdated
  <1> HIDE DEF second
  <1> QED BY <1>1, <1>2, <1>3 DEF Continues

\* SqliteDelete's transaction
Inserts(t, rows) == [t EXCEPT !.at = "inserting", !.left = rows]

\* The step that begins to insert.
LEMMA Inserting ==
  ASSUME NEW t \in Txn, NEW rows \in SUBSET Rows, NEW u, u = Inserts(t, rows)
  PROVE  /\ u \in Txn /\ u.at = "inserting" /\ u.kind = t.kind /\ u.version = t.version
         /\ u.own = t.own /\ u.left = rows /\ u.read = t.read /\ u.fresh = t.fresh
  <1> DEFINE first == [t EXCEPT !.at = "inserting"]
             second == [first EXCEPT !.left = rows]
  <1>1. u = second
    BY DEF Inserts
  <1>2. first \in Txn /\ first.at = "inserting" /\ Continues(first, t) /\ first.read = t.read
        /\ first.fresh = t.fresh
    BY SetAt DEF Stages
  <1> HIDE DEF first
  <1>3. /\ second \in Txn /\ second.at = first.at /\ second.kind = first.kind
        /\ second.version = first.version /\ second.own = first.own
        /\ second.left = rows /\ second.read = first.read /\ second.fresh = first.fresh
    BY <1>2, SetLeft
  <1> HIDE DEF second
  <1> QED BY <1>1, <1>2, <1>3 DEF Continues

-----------------------------------------------------------------------------
(* Steps *)

Budget == MaxTries \in Nat \ {0} /\ MaxOverrides \in Nat /\ NoVersion \notin Versions

\* The budgets, and the version of every claim.
LEMMA Budgets == Budget /\ VersionOf \in [Claims -> Versions]
  BY ResolutionAssumptions DEF Budget

\* What an ending job, of this kind and version, may do to the jobs' rows.
JobMayEnd(kind, v) ==
  /\ kind \in {"ingest", "reconcile", "override"}
  /\ kind # "override" => v \in Versions /\ tries[v] < MaxTries
  /\ kind = "ingest" => versions[v] = "new"

\* The jobs of a version stay as they are.
Same(w) == versions'[w] = versions[w] /\ tries'[w] = tries[w] /\ reconciles'[w] = reconciles[w]

\* An ending job changes nobody else's, and erases nothing.
LEMMA JobEnds ==
  ASSUME TypeOK, NEW kind, NEW v, JobMayEnd(kind, v), Succeeded(kind, v) \/ Failed(kind, v)
  PROVE  /\ versions' \in [Versions -> {"new", "ingested", "failed", "erased"}]
         /\ reconciles' \in [Versions -> {"none", "pending", "done", "dead"}]
         /\ tries' \in [Versions -> 0 .. MaxTries]
         /\ \A w \in Versions : w # v => Same(w)
         /\ \A w \in Versions : versions'[w] = "erased" <=> versions[w] = "erased"
         /\ Sources' = Sources
  <1>1. /\ versions \in [Versions -> {"new", "ingested", "failed", "erased"}]
        /\ reconciles \in [Versions -> {"none", "pending", "done", "dead"}]
        /\ tries \in [Versions -> 0 .. MaxTries] /\ MaxTries \in Nat \ {0}
    BY Budgets DEF TypeOK, Budget
  <1>2. CASE Succeeded(kind, v)
    BY <1>1, <1>2 DEF Succeeded, JobMayEnd, Sources, Same
  <1>3. CASE Failed(kind, v)
    <2>1. /\ \/ versions' = versions
             \/ /\ v \in Versions /\ versions[v] = "new"
                /\ versions' = [versions EXCEPT ![v] = "failed"]
          /\ \/ reconciles' = reconciles
             \/ v \in Versions /\ reconciles' = [reconciles EXCEPT ![v] = "dead"]
          /\ \/ tries' = tries
             \/ /\ v \in Versions /\ tries[v] < MaxTries
                /\ tries' = [tries EXCEPT ![v] = tries[v] + 1]
      BY <1>3 DEF Failed, JobMayEnd
    <2>2. tries' \in [Versions -> 0 .. MaxTries]
      BY <1>1, <2>1
    <2>3. /\ versions' \in [Versions -> {"new", "ingested", "failed", "erased"}]
          /\ reconciles' \in [Versions -> {"none", "pending", "done", "dead"}]
      BY <1>1, <2>1
    <2>4. /\ \A w \in Versions : w # v => Same(w)
          /\ \A w \in Versions : versions'[w] = "erased" <=> versions[w] = "erased"
      BY <1>1, <2>1 DEF Same
    <2>5. Sources' = Sources
      BY <2>4 DEF Sources
    <2> QED BY <2>2, <2>3, <2>4, <2>5
  <1> QED BY <1>2, <1>3

\* A job that failed leaves a reconciliation that is due due, or dead.
LEMMA FailedStaysDue ==
  ASSUME TypeOK, NEW kind, NEW v, JobMayEnd(kind, v), Failed(kind, v)
  PROVE  \A w \in Versions : reconciles[w] \in {"pending", "dead"} => reconciles'[w] \in {"pending", "dead"}
  BY DEF TypeOK, Failed, JobMayEnd

\* What the others know after a step that ends no job of theirs: the step has
\* left their jobs as they were, taken no claims but those of erased versions,
\* and marked their reads as out of date unless what they have read is as it
\* was.  At most one process makes the step, and is as the last assumptions say.
LEMMA OthersStay ==
  ASSUME IInv, NEW others \in SUBSET Resolvers,
         txns' \in [Resolvers -> Txn], backend' = backend,
         \A s \in others : /\ txns'[s].at = txns[s].at /\ Continues(txns'[s], txns[s])
                           /\ txns'[s].read = txns[s].read,
         \A s \in others : txns[s].kind \in JobKinds => Same(txns[s].version),
         \A c \in Claims : c \in claims => c \in claims' \/ versions'[VersionOf[c]] = "erased",
         \A v \in Versions : versions[v] = "erased" => versions'[v] = "erased",
         \A s \in others :
           \/ ~txns'[s].fresh
           \/ /\ txns'[s] = txns[s] /\ UNCHANGED <<claims, overrides, Sources>>
              /\ opportunities' = opportunities \/ txns[s].at \notin Emptying \union {"inserting"},
         \A s \in Resolvers \ others :
           /\ (Held(txns[s]) /\ Real(txns[s]) /\ (txns[s].fresh => AsRead(txns[s])))'
           /\ txns'[s].kind \in JobKinds => \A q \in others : txns[q].version # txns'[s].version
           /\ txns'[s].kind \notin JobKinds => txns'[s].version = NoVersion
           /\ \A q \in Resolvers \ others : q = s
  PROVE  JobsHeld' /\ ReadsReal' /\ ReadsCurrent'
  <1>1. \A s \in others : /\ txns'[s].at = txns[s].at /\ txns'[s].kind = txns[s].kind
                          /\ txns'[s].version = txns[s].version /\ txns'[s].own = txns[s].own
                          /\ txns'[s].read = txns[s].read /\ txns'[s].left = txns[s].left
    BY DEF Continues
  <1>2. \A s \in Resolvers : txns[s] \in Txn /\ txns[s].read \subseteq Claims
    BY DEF IInv, TypeOK, Txn
  <1>3. JobsHeld'
    <2>1. ASSUME NEW s \in others
          PROVE  Held(txns[s])'
      <3>1. Held(txns[s])
        BY DEF IInv, JobsHeld
      <3>2. txns[s].kind = "ingest" \/ txns[s].kind = "reconcile" <=> txns[s].kind \in JobKinds
        BY DEF JobKinds
      <3>3. txns[s].kind \in JobKinds =>
              /\ versions'[txns[s].version] = versions[txns[s].version]
              /\ tries'[txns[s].version] = tries[txns[s].version]
              /\ reconciles'[txns[s].version] = reconciles[txns[s].version]
        BY DEF Same
      <3> QED BY <1>1, <3>1, <3>2, <3>3 DEF Held
    <2>2. ASSUME NEW s \in Resolvers, txns'[s].kind \in JobKinds, NEW q \in Resolvers,
                 txns'[q].version = txns'[s].version
          PROVE  q = s
      <3>1. \A z \in others : txns[z].kind \in JobKinds =>
              /\ txns[z].version \in Versions
              /\ \A y \in Resolvers : txns[y].version = txns[z].version => y = z
        BY DEF IInv, JobsHeld, Held
      <3>2. CASE s \in others /\ q \in others
        BY <1>1, <2>2, <3>1, <3>2
      <3>3. CASE s \in others /\ q \notin others
        <4>1. txns[s].kind \in JobKinds /\ txns[s].version \in Versions
          BY <1>1, <2>2, <3>1, <3>3
        <4> QED BY <1>1, <2>2, <3>3, <4>1, Budgets DEF Budget
      <3>4. CASE s \notin others
        BY <1>1, <2>2, <3>4
      <3> QED BY <3>2, <3>3, <3>4
    <2> QED BY <2>1, <2>2 DEF JobsHeld
  <1>4. ReadsReal'
    <2>1. ASSUME NEW s \in others
          PROVE  Real(txns[s])'
      <3>1. ASSUME NEW c \in txns[s].read
            PROVE  \/ c \in claims' \/ versions'[VersionOf[c]] = "erased"
                   \/ c \in Added(txns[s].kind, txns[s].version)
        <4>1. c \in Claims /\ VersionOf[c] \in Versions
          BY <1>2, <3>1, Budgets
        <4>2. \/ c \in claims \/ versions[VersionOf[c]] = "erased"
              \/ c \in Added(txns[s].kind, txns[s].version)
          BY <3>1 DEF IInv, ReadsReal, Real
        <4> QED BY <4>1, <4>2
      <3>2. \A row \in txns[s].left : row.cites \subseteq txns[s].read
        BY DEF IInv, ReadsReal, Real
      <3> QED BY <1>1, <3>1, <3>2 DEF Real, Added, Evidence
    <2> QED BY <2>1 DEF ReadsReal
  <1>5. ReadsCurrent'
    <2>1. ASSUME NEW s \in others, txns'[s].fresh
          PROVE  AsRead(txns[s])'
      <3>1. /\ txns'[s] = txns[s] /\ UNCHANGED <<claims, overrides, Sources>>
            /\ opportunities' = opportunities \/ txns[s].at \notin Emptying \union {"inserting"}
        BY <2>1
      <3>2. AsRead(txns[s])
        BY <2>1, <3>1 DEF IInv, ReadsCurrent
      <3>3. CASE opportunities' = opportunities
        BY <3>1, <3>2, <3>3 DEF AsRead, Added, Evidence
      <3>4. CASE txns[s].at \notin Emptying \union {"inserting"}
        <4>1. txns[s].at \notin Emptying /\ txns[s].at # "inserting"
          BY <3>4
        <4> QED BY <3>1, <3>2, <4>1 DEF AsRead, Added, Evidence
      <3> QED BY <3>1, <3>3, <3>4
    <2> QED BY <2>1 DEF ReadsCurrent
  <1> QED BY <1>3, <1>4, <1>5

\* A process that has become idle.
LEMMA IdleHolds ==
  ASSUME NEW r \in Resolvers, txns'[r] = Idle
  PROVE  /\ (Held(txns[r]) /\ Real(txns[r]) /\ (txns[r].fresh => AsRead(txns[r])))'
         /\ txns'[r].kind \notin JobKinds /\ txns'[r].version = NoVersion
  BY IdleShape DEF Held, Real, AsRead, Reading, Scoring, Emptying, JobKinds

\* One process moves to another point of its transaction.
LEMMA TxnStep ==
  ASSUME IInv, NEW r \in Resolvers, NEW u \in Txn, Unseen(r, u), asked' \in 0 .. MaxOverrides,
         Held(u), Real(u), u.fresh => AsRead(u),
         u.kind \in JobKinds => \A s \in Resolvers : s # r => txns[s].version # u.version
  PROVE  IInv'
  <1> DEFINE others == Resolvers \ {r}
  <1>1. txns \in [Resolvers -> Txn]
    BY DEF IInv, TypeOK
  <1>2. /\ txns' \in [Resolvers -> Txn] /\ txns'[r] = u
        /\ \A s \in others : txns'[s] = txns[s]
        /\ UNCHANGED <<backend, claims, overrides, opportunities, versions, reconciles, tries, raced>>
        /\ Sources' = Sources
    BY <1>1 DEF Unseen, tables, Sources
  <1>3. TypeOK'
    BY <1>2 DEF IInv, TypeOK
  <1>4. JobsHeld' /\ ReadsReal' /\ ReadsCurrent'
    <2>1. Held(txns[r])'
      BY <1>2 DEF Held
    <2>2. Real(txns[r])'
      BY <1>2 DEF Real, Added, Evidence
    <2>3. (txns[r].fresh => AsRead(txns[r]))'
      BY <1>2 DEF AsRead, Added, Evidence
    <2>4. /\ u.kind \in Kinds
          /\ u.kind \notin JobKinds => u.version = NoVersion
      BY DEF Held, Txn, Kinds, JobKinds
    <2>5. \A s \in others : /\ txns'[s].at = txns[s].at /\ Continues(txns'[s], txns[s])
                            /\ txns'[s].read = txns[s].read
      BY <1>2 DEF Continues
    <2>6. \A s \in others : txns[s].kind \in JobKinds => Same(txns[s].version)
      BY <1>2 DEF Same
    <2>7. \A s \in Resolvers \ others :
           /\ (Held(txns[s]) /\ Real(txns[s]) /\ (txns[s].fresh => AsRead(txns[s])))'
           /\ txns'[s].kind \in JobKinds => \A q \in others : txns[q].version # txns'[s].version
           /\ txns'[s].kind \notin JobKinds => txns'[s].version = NoVersion
           /\ \A q \in Resolvers \ others : q = s
      BY <1>2, <2>1, <2>2, <2>3, <2>4
    <2>8. others \in SUBSET Resolvers
      OBVIOUS
    <2> HIDE DEF others
    <2> QED BY <1>2, <2>5, <2>6, <2>7, <2>8, OthersStay
  <1>5. (CitesRealEvidence /\ CurrentUnlessRaced)'
    BY <1>2 DEF IInv, CitesRealEvidence, CurrentUnlessRaced
  <1> QED BY <1>3, <1>4, <1>5 DEF IInv

\* A process that is not idle is about a job that may end, or a review.
LEMMA UnderWay ==
  ASSUME IInv, NEW r \in Resolvers, txns[r].at # "idle"
  PROVE  /\ JobMayEnd(txns[r].kind, txns[r].version)
         /\ txns[r].kind = "override" => txns[r].version = NoVersion
         /\ txns[r].kind # "override" => \A s \in Resolvers : s # r => txns[s].version # txns[r].version
         /\ txns[r] \in Txn /\ Held(txns[r])
  <1>1. txns[r] \in Txn /\ txns[r].kind \in Kinds
    BY DEF IInv, TypeOK, Txn, Kinds
  <1> QED BY <1>1 DEF IInv, JobsHeld, Held, JobKinds, JobMayEnd, Kinds

\* The others' jobs are not touched by the end of one that is not theirs.
LEMMA OthersSame ==
  ASSUME IInv, NEW r \in Resolvers, NEW v,
         \A w \in Versions : w # v => Same(w),
         txns[r].at # "idle" => v = txns[r].version,
         txns[r].at = "idle" => \A s \in Resolvers : txns[s].version # v
  PROVE  \A s \in Resolvers \ {r} : txns[s].kind \in JobKinds => Same(txns[s].version)
  <1>1. \A s \in Resolvers \ {r} : txns[s].kind \in JobKinds =>
          txns[s].version \in Versions /\ txns[s].version # v
    BY DEF IInv, JobsHeld, Held
  <1> QED BY <1>1

\* The override of a review has a number of its own.
LEMMA OverrideShape ==
  ASSUME TypeOK, asked < MaxOverrides, NEW id \in OppIds, NEW patch \in Patches
  PROVE  Override(id, patch) \in Overrides /\ asked + 1 \in 0 .. MaxOverrides
  BY Budgets DEF Budget, TypeOK, Override, Overrides

\* What a resolution adds are claims.
LEMMA AddedClaims ==
  ASSUME NEW kind, NEW v
  PROVE  Added(kind, v) \in SUBSET Claims
  BY DEF Added, Evidence

\* A job or a review is begun.
LEMMA BeginSteps ==
  ASSUME IInv, NEW r \in Resolvers,
         \/ \E v \in Versions, kind \in {"ingest", "reconcile"} : BeginJob(r, kind, v)
         \/ \E id \in OppIds, patch \in Patches : Review(r, id, patch)
         \/ BeginOverride(r)
  PROVE  IInv'
  <1>1. /\ TypeOK /\ txns[r] \in Txn /\ claims \in SUBSET Claims /\ asked \in 0 .. MaxOverrides
    BY DEF IInv, TypeOK
  <1>2. ASSUME NEW v \in Versions, NEW kind \in {"ingest", "reconcile"}, BeginJob(r, kind, v)
        PROVE  IInv'
    <2> DEFINE t == Started("listed", kind, v)
               read == claims \union Added(kind, v)
               u == [t EXCEPT !.read = read]
    <2>1. /\ kind = "reconcile" \/ backend = "postgres"
          /\ JobReady(kind, v) /\ Unseen(r, u) /\ asked' = asked
      BY <1>2 DEF BeginJob
    <2>2. /\ \A s \in Resolvers : txns[s].version # v
          /\ tries[v] < MaxTries
          /\ kind = "ingest" => versions[v] = "new"
          /\ kind = "reconcile" => reconciles[v] = "pending"
      BY <2>1 DEF JobReady
    <2>3. t \in Txn /\ t.at = "listed" /\ t.kind = kind /\ t.version = v /\ t.own = {} /\ t.left = {}
      BY DEF Started, Txn
    <2>4. read \in SUBSET Claims
      BY <1>1, AddedClaims
    <2> HIDE DEF t, read
    <2>5. /\ u \in Txn /\ u.at = "listed" /\ u.kind = kind /\ u.version = v /\ u.read = read
          /\ u.own = {} /\ u.left = {}
      BY <2>3, <2>4, SetRead DEF Continues
    <2> HIDE DEF u
    <2>6. Real(u)
      BY <2>5 DEF read, Real
    <2>7. AsRead(u)
      BY <2>5 DEF read, AsRead, Reading, Scoring, Emptying
    <2>8. Held(u)
      BY <2>1, <2>2, <2>5 DEF Held, Emptying, JobKinds
    <2> QED BY <1>1, <2>1, <2>2, <2>5, <2>6, <2>7, <2>8, TxnStep
  <1>3. ASSUME NEW id \in OppIds, NEW patch \in Patches, Review(r, id, patch)
        PROVE  IInv'
    <2> DEFINE t == Started("checked", "override", NoVersion)
               own == {Override(id, patch)}
               u == [t EXCEPT !.own = own]
    <2>1. asked < MaxOverrides /\ asked' = asked + 1 /\ Unseen(r, u)
      BY <1>3 DEF Review
    <2>2. own \in SUBSET Overrides /\ asked' \in 0 .. MaxOverrides
      BY <1>1, <2>1, OverrideShape
    <2>3. /\ t \in Txn /\ t.at = "checked" /\ t.kind = "override" /\ t.version = NoVersion
          /\ t.read = {} /\ t.left = {}
      BY DEF Started, Txn
    <2> HIDE DEF t, own
    <2>4. /\ u \in Txn /\ u.at = "checked" /\ u.kind = "override" /\ u.version = NoVersion
          /\ u.read = {} /\ u.left = {}
      BY <2>2, <2>3, SetOwn
    <2> HIDE DEF u
    <2>5. Held(u) /\ Real(u) /\ AsRead(u) /\ u.kind \notin JobKinds
      BY <2>4 DEF Held, Real, AsRead, Reading, Scoring, Emptying, JobKinds
    <2> QED BY <2>1, <2>2, <2>4, <2>5, TxnStep
  <1>4. CASE BeginOverride(r)
    <2> DEFINE u == Relist(txns[r], claims)
    <2>1. backend = "postgres" /\ txns[r].at = "checked" /\ Unseen(r, u) /\ asked' = asked
      BY <1>4 DEF BeginOverride, Relist
    <2> HIDE DEF u
    <2>2. u \in Txn /\ u.at = "listed" /\ Continues(u, txns[r]) /\ u.read = claims
      BY <1>1, Relisted DEF u
    <2>3. Held(txns[r]) /\ Real(txns[r])
      BY DEF IInv, JobsHeld, ReadsReal
    <2>4. /\ u.kind = "override" /\ u.version = NoVersion /\ Added(u.kind, u.version) = {}
          /\ u.left = {} /\ u.kind \notin JobKinds
      BY <2>1, <2>2, <2>3 DEF Continues, Added, Held, JobKinds
    <2>5. Held(u) /\ AsRead(u)
      BY <2>1, <2>2, <2>4 DEF Held, AsRead, Reading, Scoring, Emptying, JobKinds
    <2>6. Real(u)
      BY <2>2, <2>4 DEF Real
    <2> QED BY <1>1, <2>1, <2>2, <2>4, <2>5, <2>6, TxnStep
  <1> QED BY <1>2, <1>3, <1>4

\* A transaction goes on.
LEMMA ContinuedSteps ==
  ASSUME IInv, NEW r \in Resolvers, ScoreClaims(r) \/ DeleteRows(r) \/ LockRows(r)
  PROVE  IInv'
  <1>1. /\ TypeOK /\ txns[r] \in Txn /\ opportunities \in SUBSET Rows /\ asked' \in 0 .. MaxOverrides
        /\ txns[r].own \in SUBSET Overrides
    BY DEF IInv, TypeOK, ScoreClaims, DeleteRows, LockRows, Txn
  <1>2. /\ txns[r].at \in {"listed", "scored", "deleting"}
        /\ Held(txns[r]) /\ Real(txns[r])
        /\ txns[r].fresh => AsRead(txns[r])
        /\ txns[r].kind \in JobKinds => \A s \in Resolvers : s # r => txns[s].version # txns[r].version
    BY DEF IInv, JobsHeld, ReadsReal, ReadsCurrent, ScoreClaims, DeleteRows, LockRows
  <1>3. ASSUME NEW u, Continues(u, txns[r]), u.read = txns[r].read, u.at \in Scoring,
               u.at \in Emptying => backend = "postgres"
        PROVE  /\ Held(u) /\ Real(u)
               /\ u.kind \in JobKinds => \A s \in Resolvers : s # r => txns[s].version # u.version
    BY <1>2, <1>3 DEF Continues, Held, Real, Scoring, Emptying
  <1>4. CASE ScoreClaims(r)
    <2> DEFINE ovs == overrides \union txns[r].own
               u == Scores(txns[r], Sources, ovs)
    <2>1. Unseen(r, u) /\ txns[r].at \in Reading
      BY <1>4 DEF ScoreClaims, Scores, Reading
    <2>2. Sources \in SUBSET Versions /\ ovs \in SUBSET Overrides
      BY <1>1 DEF Sources, TypeOK
    <2> HIDE DEF u
    <2>3. /\ u \in Txn /\ u.at = "scored" /\ Continues(u, txns[r]) /\ u.read = txns[r].read
          /\ u.sources = Sources /\ u.ovs = ovs /\ u.fresh = txns[r].fresh
      BY <1>1, <2>2, Scored DEF u
    <2>4. u.at \notin Emptying /\ u.at \in Scoring /\ u.at # "inserting"
      BY <2>3 DEF Emptying, Scoring
    <2>5. u.kind = txns[r].kind /\ u.version = txns[r].version /\ u.own = txns[r].own
      BY <2>3 DEF Continues
    <2>6. u.fresh => AsRead(u)
      BY <1>2, <2>1, <2>3, <2>4, <2>5 DEF AsRead
    <2> QED BY <1>1, <1>3, <2>1, <2>3, <2>4, <2>6, TxnStep
  <1>5. CASE DeleteRows(r)
    <2> DEFINE u == Empties(txns[r], opportunities)
    <2>1. backend = "postgres" /\ Unseen(r, u) /\ txns[r].at \in Scoring /\ txns[r].at \in Reading
      BY <1>5 DEF DeleteRows, Scoring, Reading, Empties
    <2> HIDE DEF u
    <2>2. /\ u \in Txn /\ u.at = "deleting" /\ Continues(u, txns[r]) /\ u.read = txns[r].read
          /\ u.sources = txns[r].sources /\ u.ovs = txns[r].ovs /\ u.doomed = opportunities
          /\ u.fresh = txns[r].fresh
      BY <1>1, Emptied DEF u
    <2>3. u.at \in Scoring /\ u.at # "inserting"
      BY <2>2 DEF Scoring
    <2>4. u.kind = txns[r].kind /\ u.version = txns[r].version /\ u.own = txns[r].own
      BY <2>2 DEF Continues
    <2>5. u.fresh => AsRead(u)
      BY <1>2, <2>1, <2>2, <2>3, <2>4 DEF AsRead
    <2> QED BY <1>1, <1>3, <2>1, <2>2, <2>3, <2>5, TxnStep
  <1>6. CASE LockRows(r)
    <2> DEFINE u == [txns[r] EXCEPT !.at = "deleted"]
    <2>1. Unseen(r, u) /\ txns[r].at \in Scoring /\ txns[r].at \in Emptying /\ txns[r].at \in Reading
      BY <1>6 DEF LockRows, Scoring, Emptying, Reading
    <2> HIDE DEF u
    <2>2. "deleted" \in Stages
      BY DEF Stages
    <2>3. /\ u \in Txn /\ u.at = "deleted" /\ Continues(u, txns[r]) /\ u.read = txns[r].read
          /\ u.sources = txns[r].sources /\ u.ovs = txns[r].ovs /\ u.doomed = txns[r].doomed
          /\ u.fresh = txns[r].fresh
      BY <1>1, <2>2, SetAt DEF u
    <2>4. u.kind = txns[r].kind /\ u.version = txns[r].version /\ u.own = txns[r].own
      BY <2>3 DEF Continues
    <2>5. u.at \in Scoring /\ u.at # "inserting" /\ backend = "postgres"
      BY <1>2, <2>1, <2>3 DEF Scoring, Held
    <2>6. u.fresh => AsRead(u)
      BY <1>2, <2>1, <2>3, <2>4, <2>5 DEF AsRead
    <2> QED BY <1>1, <1>3, <2>1, <2>3, <2>5, <2>6, TxnStep
  <1> QED BY <1>4, <1>5, <1>6

\* The rows are replaced and everything is committed.
LEMMA CommitKeeps ==
  ASSUME IInv, NEW r \in Resolvers, Commit(r)
  PROVE  IInv'
  <1> DEFINE t == txns[r]
             kept == opportunities \ t.doomed
             added == Added(t.kind, t.version)
  <1>1. /\ TypeOK /\ t \in Txn /\ t.read \in SUBSET Claims /\ t.ovs \in SUBSET Overrides
        /\ t.own \in SUBSET Overrides /\ t.at = "deleted" /\ added \in SUBSET Claims
    BY AddedClaims DEF IInv, TypeOK, Txn, Commit
  <1>2. JobMayEnd(t.kind, t.version)
    BY <1>1, UnderWay
  <1>3. PICK rows \in Resolved(t.read, t.sources, t.ovs) : opportunities' = kept \union rows
    BY DEF Commit
  <1>4. /\ Insertable(t.read) /\ claims' = claims \union added /\ overrides' = overrides \union t.own
        /\ Succeeded(t.kind, t.version) /\ txns' = Overtaken(r, t.doomed)
        /\ raced' = ~t.fresh /\ UNCHANGED <<backend, asked>>
    BY DEF Commit
  <1>5. rows \in SUBSET Rows /\ \A row \in rows : row.cites \subseteq t.read
    BY <1>1, ResolvedRows
  <1>6. /\ versions' \in [Versions -> {"new", "ingested", "failed", "erased"}]
        /\ reconciles' \in [Versions -> {"none", "pending", "done", "dead"}]
        /\ tries' \in [Versions -> 0 .. MaxTries]
        /\ \A w \in Versions : w # t.version => Same(w)
        /\ \A w \in Versions : versions'[w] = "erased" <=> versions[w] = "erased"
        /\ Sources' = Sources
    BY <1>1, <1>2, <1>4, JobEnds
  <1>7. \A s \in Resolvers \ {r} :
          /\ txns'[s] \in Txn /\ txns'[s].at = txns[s].at /\ Continues(txns'[s], txns[s])
          /\ txns'[s].read = txns[s].read /\ ~txns'[s].fresh
    <2>1. ASSUME NEW s \in Resolvers \ {r}
          PROVE  /\ txns'[s] \in Txn /\ txns'[s].at = txns[s].at /\ Continues(txns'[s], txns[s])
                 /\ txns'[s].read = txns[s].read /\ ~txns'[s].fresh
      <3>1. txns'[s] = Outdate(txns[s], t.doomed) /\ txns[s] \in Txn
        BY <1>1, <1>4 DEF Overtaken, Outdate, TypeOK
      <3> HIDE DEF t
      <3> QED BY <3>1, OutdatedTxn
    <2> QED BY <2>1
  <1>8. /\ txns' \in [Resolvers -> Txn] /\ txns'[r] = Idle
    <2>1. txns' = [s \in Resolvers |-> txns'[s]] /\ txns'[r] = Idle
      BY <1>4 DEF Overtaken
    <2> QED BY <1>7, <2>1, IdleShape
  <1> HIDE DEF t, kept, added
  <1>9. TypeOK'
    <2>1. raced' \in BOOLEAN
      BY <1>4
    <2>2. opportunities' \subseteq Rows
      BY <1>1, <1>3, <1>5 DEF TypeOK, kept
    <2> QED BY <1>1, <1>4, <1>6, <1>8, <2>1, <2>2 DEF TypeOK
  <1>10. JobsHeld' /\ ReadsReal' /\ ReadsCurrent'
    <2> DEFINE others == Resolvers \ {r}
    <2>1. \A s \in others : txns[s].kind \in JobKinds => Same(txns[s].version)
      BY <1>1, <1>6, OthersSame DEF t
    <2>2. \A s \in Resolvers \ others :
           /\ (Held(txns[s]) /\ Real(txns[s]) /\ (txns[s].fresh => AsRead(txns[s])))'
           /\ txns'[s].kind \in JobKinds => \A q \in others : txns[q].version # txns'[s].version
           /\ txns'[s].kind \notin JobKinds => txns'[s].version = NoVersion
           /\ \A q \in Resolvers \ others : q = s
      BY <1>8, IdleHolds
    <2>3. /\ others \in SUBSET Resolvers
          /\ \A s \in others : /\ txns'[s].at = txns[s].at /\ Continues(txns'[s], txns[s])
                               /\ txns'[s].read = txns[s].read /\ ~txns'[s].fresh
      BY <1>7
    <2>4. /\ \A c \in Claims : c \in claims => c \in claims' \/ versions'[VersionOf[c]] = "erased"
          /\ \A v \in Versions : versions[v] = "erased" => versions'[v] = "erased"
      BY <1>4, <1>6
    <2> HIDE DEF others
    <2> QED BY <1>4, <1>8, <2>1, <2>2, <2>3, <2>4, OthersStay
  <1>11. \A c \in t.read : c \in claims' \/ versions'[VersionOf[c]] = "erased"
    <2>1. \A c \in t.read : \/ c \in claims \/ versions[VersionOf[c]] = "erased" \/ c \in added
      BY DEF IInv, ReadsReal, Real, t, added
    <2>2. \A c \in t.read : VersionOf[c] \in Versions
      BY <1>1, Budgets
    <2> QED BY <1>4, <1>6, <2>1, <2>2
  <1>12. CitesRealEvidence'
    <2>1. ASSUME NEW row \in opportunities', NEW c \in row.cites
          PROVE  c \in claims' \/ versions'[VersionOf[c]] = "erased"
      <3>1. CASE row \in rows
        BY <1>5, <1>11, <2>1, <3>1
      <3>2. CASE row \in opportunities
        <4>1. c \in Claims /\ VersionOf[c] \in Versions
          BY <1>1, <2>1, <3>2, Budgets DEF TypeOK, Rows
        <4> QED BY <1>4, <1>6, <2>1, <3>2, <4>1 DEF IInv, CitesRealEvidence
      <3> QED BY <1>3, <3>1, <3>2 DEF kept
    <2> QED BY <2>1 DEF CitesRealEvidence
  <1>13. CurrentUnlessRaced'
    <2> SUFFICES ASSUME ~raced'
                 PROVE  opportunities' \in Resolved(claims', Sources', overrides') /\ Insertable(claims')
      BY DEF CurrentUnlessRaced
    <2>1. t.fresh
      BY <1>4
    <2>2. t.at \in Reading /\ t.at \in Scoring /\ t.at \in Emptying
      BY <1>1 DEF Reading, Scoring, Emptying
    <2>3. /\ t.read = claims \union added /\ t.sources = Sources
          /\ t.ovs = overrides \union t.own /\ t.doomed = opportunities
      BY <2>1, <2>2 DEF IInv, ReadsCurrent, AsRead, t, added
    <2>4. kept = {} /\ opportunities' = rows
      BY <1>3, <2>3 DEF kept
    <2>5. t.read = claims' /\ t.sources = Sources' /\ t.ovs = overrides'
      BY <1>4, <1>6, <2>3
    <2> QED BY <1>3, <1>4, <2>4, <2>5
  <1> QED BY <1>9, <1>10, <1>12, <1>13 DEF IInv

\* A resolution is abandoned: its job may be tried again, or is dead.
LEMMA AbandonKeeps ==
  ASSUME IInv, NEW r \in Resolvers, Abandon(r)
  PROVE  IInv'
  <1> DEFINE t == txns[r]
             others == Resolvers \ {r}
  <1>1. /\ TypeOK /\ txns \in [Resolvers -> Txn] /\ Failed(t.kind, t.version) /\ t.at # "idle"
        /\ txns' = [txns EXCEPT ![r] = Idle]
        /\ UNCHANGED <<backend, claims, overrides, opportunities, asked, raced>>
    BY DEF IInv, TypeOK, Abandon, tables
  <1>2. JobMayEnd(t.kind, t.version)
    BY <1>1, UnderWay
  <1>3. /\ versions' \in [Versions -> {"new", "ingested", "failed", "erased"}]
        /\ reconciles' \in [Versions -> {"none", "pending", "done", "dead"}]
        /\ tries' \in [Versions -> 0 .. MaxTries]
        /\ \A w \in Versions : w # t.version => Same(w)
        /\ \A w \in Versions : versions'[w] = "erased" <=> versions[w] = "erased"
        /\ Sources' = Sources
        /\ \A w \in Versions : reconciles[w] \in {"pending", "dead"} => reconciles'[w] \in {"pending", "dead"}
    BY <1>1, <1>2, JobEnds, FailedStaysDue
  <1>4. /\ txns' \in [Resolvers -> Txn] /\ txns'[r] = Idle
        /\ \A s \in others : txns'[s] = txns[s]
    BY <1>1, IdleShape
  <1>5. TypeOK'
    BY <1>1, <1>3, <1>4 DEF TypeOK
  <1>6. JobsHeld' /\ ReadsReal' /\ ReadsCurrent'
    <2>1. \A s \in others : txns[s].kind \in JobKinds => Same(txns[s].version)
      BY <1>1, <1>3, OthersSame
    <2>2. \A s \in Resolvers \ others :
           /\ (Held(txns[s]) /\ Real(txns[s]) /\ (txns[s].fresh => AsRead(txns[s])))'
           /\ txns'[s].kind \in JobKinds => \A q \in others : txns[q].version # txns'[s].version
           /\ txns'[s].kind \notin JobKinds => txns'[s].version = NoVersion
           /\ \A q \in Resolvers \ others : q = s
      BY <1>4, IdleHolds
    <2>3. /\ others \in SUBSET Resolvers
          /\ \A s \in others : /\ txns'[s].at = txns[s].at /\ Continues(txns'[s], txns[s])
                               /\ txns'[s].read = txns[s].read
                               /\ txns'[s] = txns[s]
          /\ UNCHANGED <<claims, overrides, opportunities, Sources>>
      BY <1>1, <1>3, <1>4 DEF Continues
    <2>4. /\ \A c \in Claims : c \in claims => c \in claims' \/ versions'[VersionOf[c]] = "erased"
          /\ \A v \in Versions : versions[v] = "erased" => versions'[v] = "erased"
      BY <1>1, <1>3
    <2> HIDE DEF others
    <2> QED BY <1>1, <1>4, <2>1, <2>2, <2>3, <2>4, OthersStay
  <1>7. CitesRealEvidence'
    <2>1. \A row \in opportunities : \A c \in row.cites : VersionOf[c] \in Versions
      BY <1>1, Budgets DEF TypeOK, Rows
    <2> QED BY <1>1, <1>3, <2>1 DEF IInv, CitesRealEvidence
  <1>8. CurrentUnlessRaced'
    BY <1>1, <1>3 DEF IInv, CurrentUnlessRaced
  <1> QED BY <1>5, <1>6, <1>7, <1>8 DEF IInv

\* A version is erased: a reconciliation is due, and what was read is old.
LEMMA EraseKeeps ==
  ASSUME IInv, NEW v \in Versions, Erase(v)
  PROVE  IInv'
  <1>1. /\ TypeOK /\ txns \in [Resolvers -> Txn]
        /\ versions \in [Versions -> {"new", "ingested", "failed", "erased"}]
        /\ reconciles \in [Versions -> {"none", "pending", "done", "dead"}]
        /\ tries \in [Versions -> 0 .. MaxTries]
    BY DEF IInv, TypeOK
  <1>2. /\ \A r \in Resolvers : txns[r].version # v
        /\ claims' = claims \ Evidence(v) /\ versions' = [versions EXCEPT ![v] = "erased"]
        /\ reconciles' = [reconciles EXCEPT ![v] = "pending"] /\ tries' = [tries EXCEPT ![v] = 0]
        /\ txns' = [s \in Resolvers |-> [txns[s] EXCEPT !.fresh = FALSE]]
        /\ UNCHANGED <<backend, overrides, opportunities, asked, raced>>
    BY DEF Erase
  <1>3. ASSUME NEW s \in Resolvers
        PROVE  /\ txns'[s] \in Txn /\ txns'[s].at = txns[s].at /\ Continues(txns'[s], txns[s])
               /\ txns'[s].read = txns[s].read /\ ~txns'[s].fresh
    <2>1. txns'[s] = [txns[s] EXCEPT !.fresh = FALSE] /\ txns[s] \in Txn
      BY <1>1, <1>2
    <2> QED BY <2>1, SetOutdated
  <1>4. txns' \in [Resolvers -> Txn]
    <2>1. txns' = [s \in Resolvers |-> txns'[s]]
      BY <1>2
    <2> QED BY <1>3, <2>1
  <1>5. TypeOK'
    BY <1>1, <1>2, <1>4, Budgets DEF TypeOK, Budget
  <1>6. /\ \A w \in Versions : w # v => Same(w)
        /\ versions'[v] = "erased" /\ reconciles'[v] = "pending"
    BY <1>1, <1>2 DEF Same
  <1>7. /\ \A c \in Claims : c \in claims => c \in claims' \/ versions'[VersionOf[c]] = "erased"
        /\ \A w \in Versions : versions[w] = "erased" => versions'[w] = "erased"
    BY <1>2, <1>6 DEF Evidence, Same
  <1>8. JobsHeld' /\ ReadsReal' /\ ReadsCurrent'
    <2>1. \A s \in Resolvers : txns[s].kind \in JobKinds => Same(txns[s].version)
      <3>1. \A s \in Resolvers : txns[s].kind \in JobKinds => txns[s].version \in Versions
        BY DEF IInv, JobsHeld, Held
      <3> QED BY <1>2, <1>6, <3>1
    <2>2. Resolvers \in SUBSET Resolvers /\ Resolvers \ Resolvers = {}
      OBVIOUS
    <2> QED BY <1>2, <1>3, <1>4, <1>7, <2>1, <2>2, OthersStay
  <1>9. CitesRealEvidence'
    <2>1. \A row \in opportunities : \A c \in row.cites : c \in Claims /\ VersionOf[c] \in Versions
      BY <1>1, Budgets DEF TypeOK, Rows
    <2> QED BY <1>2, <1>7, <2>1 DEF IInv, CitesRealEvidence
  <1>10. CurrentUnlessRaced'
    BY <1>6 DEF CurrentUnlessRaced
  <1> QED BY <1>5, <1>8, <1>9, <1>10 DEF IInv

-----------------------------------------------------------------------------
(* Steps of SQLite *)

\* A transaction of SQLite, in one step.
LEMMA AtOnceKeeps ==
  ASSUME IInv, NEW r \in Resolvers, NEW kind, NEW v, NEW own \in SUBSET Overrides,
         AtOnce(r, kind, v, own), JobMayEnd(kind, v),
         txns[r].at # "idle" => v = txns[r].version,
         txns[r].at = "idle" => \A s \in Resolvers : txns[s].version # v
  PROVE  IInv'
  <1> DEFINE C == claims \union Added(kind, v)
             ovs == overrides \union own
             others == Resolvers \ {r}
  <1>1. TypeOK /\ txns \in [Resolvers -> Txn] /\ C \in SUBSET Claims /\ ovs \in SUBSET Overrides
    BY AddedClaims DEF IInv, TypeOK
  <1>2. /\ Insertable(C) /\ opportunities' \in Resolved(C, Sources, ovs)
        /\ claims' = C /\ overrides' = ovs /\ raced' = FALSE /\ Succeeded(kind, v)
        /\ txns' = Outdated(r) /\ UNCHANGED <<backend, asked>>
    BY DEF AtOnce
  <1>3. /\ versions' \in [Versions -> {"new", "ingested", "failed", "erased"}]
        /\ reconciles' \in [Versions -> {"none", "pending", "done", "dead"}]
        /\ tries' \in [Versions -> 0 .. MaxTries]
        /\ \A w \in Versions : w # v => Same(w)
        /\ \A w \in Versions : versions'[w] = "erased" <=> versions[w] = "erased"
        /\ Sources' = Sources
    BY <1>1, <1>2, JobEnds
  <1>4. ASSUME NEW s \in others
        PROVE  /\ txns'[s] \in Txn /\ txns'[s].at = txns[s].at /\ Continues(txns'[s], txns[s])
               /\ txns'[s].read = txns[s].read /\ ~txns'[s].fresh
    <2>1. txns'[s] = [txns[s] EXCEPT !.fresh = FALSE] /\ txns[s] \in Txn
      BY <1>1, <1>2 DEF Outdated
    <2> QED BY <2>1, SetOutdated
  <1>5. txns' \in [Resolvers -> Txn] /\ txns'[r] = Idle
    <2>1. txns' = [s \in Resolvers |-> txns'[s]] /\ txns'[r] = Idle
      BY <1>2 DEF Outdated
    <2> QED BY <1>4, <2>1, IdleShape
  <1> HIDE DEF C, ovs
  <1>6. opportunities' \in SUBSET Rows /\ \A row \in opportunities' : row.cites \subseteq C
    BY <1>1, <1>2, ResolvedRows
  <1>7. TypeOK'
    BY <1>1, <1>2, <1>3, <1>5, <1>6 DEF TypeOK
  <1>8. JobsHeld' /\ ReadsReal' /\ ReadsCurrent'
    <2>1. \A s \in others : txns[s].kind \in JobKinds => Same(txns[s].version)
      BY <1>3, OthersSame
    <2>2. \A s \in Resolvers \ others :
           /\ (Held(txns[s]) /\ Real(txns[s]) /\ (txns[s].fresh => AsRead(txns[s])))'
           /\ txns'[s].kind \in JobKinds => \A q \in others : txns[q].version # txns'[s].version
           /\ txns'[s].kind \notin JobKinds => txns'[s].version = NoVersion
           /\ \A q \in Resolvers \ others : q = s
      BY <1>5, IdleHolds
    <2>3. /\ others \in SUBSET Resolvers
          /\ \A s \in others : /\ txns'[s].at = txns[s].at /\ Continues(txns'[s], txns[s])
                               /\ txns'[s].read = txns[s].read /\ ~txns'[s].fresh
      BY <1>4
    <2>4. /\ \A c \in Claims : c \in claims => c \in claims' \/ versions'[VersionOf[c]] = "erased"
          /\ \A w \in Versions : versions[w] = "erased" => versions'[w] = "erased"
      BY <1>2, <1>3 DEF C
    <2> HIDE DEF others
    <2> QED BY <1>2, <1>5, <2>1, <2>2, <2>3, <2>4, OthersStay
  <1>9. (CitesRealEvidence /\ CurrentUnlessRaced)'
    BY <1>2, <1>3, <1>6 DEF CitesRealEvidence, CurrentUnlessRaced
  <1> QED BY <1>7, <1>8, <1>9 DEF IInv

\* Ingestions and reviews.
LEMMA TransactionsKeep ==
  ASSUME IInv, NEW r \in Resolvers,
         \/ \E v \in Versions : SqliteIngest(r, v) \/ SqliteIngestFails(v)
         \/ SqliteOverride(r)
  PROVE  IInv'
  <1>1. TypeOK /\ txns \in [Resolvers -> Txn]
    BY DEF IInv, TypeOK
  <1>2. ASSUME NEW v \in Versions, SqliteIngest(r, v)
        PROVE  IInv'
    <2>1. txns[r].at = "idle" /\ JobReady("ingest", v) /\ AtOnce(r, "ingest", v, {})
      BY <1>2 DEF SqliteIngest
    <2>2. JobMayEnd("ingest", v) /\ \A s \in Resolvers : txns[s].version # v
      BY <2>1 DEF JobReady, JobMayEnd
    <2> QED BY <2>1, <2>2, AtOnceKeeps
  <1>3. CASE SqliteOverride(r)
    <2>1. txns[r].at = "checked" /\ AtOnce(r, "override", NoVersion, txns[r].own)
      BY <1>3 DEF SqliteOverride
    <2>2. JobMayEnd("override", NoVersion) /\ txns[r].own \in SUBSET Overrides
      BY <1>1 DEF JobMayEnd, Txn
    <2>3. txns[r].version = NoVersion
      BY <2>1 DEF IInv, JobsHeld, Held
    <2> QED BY <2>1, <2>2, <2>3, AtOnceKeeps
  <1>4. ASSUME NEW v \in Versions, SqliteIngestFails(v)
        PROVE  IInv'
    <2>1. /\ JobReady("ingest", v) /\ Failed("ingest", v)
          /\ UNCHANGED <<backend, claims, overrides, opportunities, asked, txns, raced>>
      BY <1>4 DEF SqliteIngestFails, tables
    <2>2. JobMayEnd("ingest", v) /\ \A s \in Resolvers : txns[s].version # v
      BY <2>1 DEF JobReady, JobMayEnd
    <2>3. /\ versions' \in [Versions -> {"new", "ingested", "failed", "erased"}]
          /\ reconciles' \in [Versions -> {"none", "pending", "done", "dead"}]
          /\ tries' \in [Versions -> 0 .. MaxTries]
          /\ \A w \in Versions : w # v => Same(w)
          /\ \A w \in Versions : versions'[w] = "erased" <=> versions[w] = "erased"
          /\ Sources' = Sources
          /\ \A w \in Versions : reconciles[w] \in {"pending", "dead"} => reconciles'[w] \in {"pending", "dead"}
      BY <1>1, <2>1, <2>2, JobEnds, FailedStaysDue
    <2>4. TypeOK'
      BY <1>1, <2>1, <2>3 DEF TypeOK
    <2>5. JobsHeld' /\ ReadsReal' /\ ReadsCurrent'
      <3>1. \A s \in Resolvers : txns[s].kind \in JobKinds => Same(txns[s].version)
        <4>1. \A s \in Resolvers : txns[s].kind \in JobKinds => txns[s].version \in Versions
          BY DEF IInv, JobsHeld, Held
        <4> QED BY <2>2, <2>3, <4>1
      <3>2. Resolvers \in SUBSET Resolvers /\ Resolvers \ Resolvers = {}
        OBVIOUS
      <3>3. /\ txns' \in [Resolvers -> Txn]
            /\ \A s \in Resolvers : /\ txns'[s].at = txns[s].at /\ Continues(txns'[s], txns[s])
                                    /\ txns'[s].read = txns[s].read /\ txns'[s] = txns[s]
        BY <1>1, <2>1 DEF Continues
      <3>4. /\ \A c \in Claims : c \in claims => c \in claims' \/ versions'[VersionOf[c]] = "erased"
            /\ \A w \in Versions : versions[w] = "erased" => versions'[w] = "erased"
        BY <2>1, <2>3
      <3> QED BY <2>1, <2>3, <3>1, <3>2, <3>3, <3>4, OthersStay
    <2>6. CitesRealEvidence'
      <3>1. \A row \in opportunities : \A c \in row.cites : VersionOf[c] \in Versions
        BY <1>1, Budgets DEF TypeOK, Rows
      <3> QED BY <2>1, <2>3, <3>1 DEF IInv, CitesRealEvidence
    <2>7. CurrentUnlessRaced'
      BY <2>1, <2>3 DEF IInv, CurrentUnlessRaced
    <2> QED BY <2>4, <2>5, <2>6, <2>7 DEF IInv
  <1> QED BY <1>2, <1>3, <1>4

\* A reconciliation writes: its own job is due while it does, and the others
\* that are inserting know of it.
LEMMA WriteKeeps ==
  ASSUME IInv, NEW r \in Resolvers, NEW u \in Txn, backend = "sqlite", txns[r].at # "idle",
         txns[r].kind = "reconcile",
         txns' = Disturbed(r, u),
         UNCHANGED <<backend, claims, overrides, versions, reconciles, tries, asked, raced>>,
         u.at = "inserting", u.kind = "reconcile", u.version = txns[r].version,
         u.own = txns[r].own, u.read = txns[r].read,
         \A row \in u.left : row.cites \subseteq u.read,
         u.fresh => /\ opportunities' \union u.left \in Resolved(claims, Sources, overrides)
                    /\ DistinctIds(opportunities'),
         opportunities' \subseteq Rows,
         \A row \in opportunities' : row \in opportunities \/ row.cites \subseteq u.read
  PROVE  IInv'
  <1> DEFINE others == Resolvers \ {r}
  <1>1. /\ TypeOK /\ txns \in [Resolvers -> Txn] /\ Held(txns[r]) /\ Real(txns[r])
        /\ Sources' = Sources
    BY DEF IInv, TypeOK, JobsHeld, ReadsReal, Sources
  <1>2. /\ txns[r].version \in Versions /\ tries[txns[r].version] < MaxTries
        /\ reconciles[txns[r].version] = "pending" /\ txns[r].own = {}
        /\ \A s \in Resolvers : txns[s].version = txns[r].version => s = r
    BY DEF IInv, JobsHeld, Held, JobKinds
  <1>3. ASSUME NEW s \in others
        PROVE  /\ txns'[s] \in Txn /\ txns'[s].at = txns[s].at /\ Continues(txns'[s], txns[s])
               /\ txns'[s].read = txns[s].read
               /\ \/ ~txns'[s].fresh
                  \/ txns'[s] = txns[s] /\ txns[s].at \notin Emptying \union {"inserting"}
    <2>1. txns[s] \in Txn
      BY <1>1
    <2>2. CASE txns[s].at = "inserting"
      <3>1. txns'[s] = [txns[s] EXCEPT !.fresh = FALSE]
        BY <2>2 DEF Disturbed
      <3> QED BY <2>1, <3>1, SetOutdated
    <2>3. CASE txns[s].at # "inserting"
      <3>1. txns'[s] = txns[s]
        BY <2>3 DEF Disturbed
      <3>2. txns[s].at \notin Emptying
        BY DEF IInv, JobsHeld, Held
      <3> QED BY <2>1, <2>3, <3>1, <3>2 DEF Continues
    <2> QED BY <2>2, <2>3
  <1>4. txns' \in [Resolvers -> Txn] /\ txns'[r] = u
    <2>1. txns' = [s \in Resolvers |-> txns'[s]] /\ txns'[r] = u
      BY DEF Disturbed
    <2> QED BY <1>3, <2>1
  <1>5. TypeOK'
    BY <1>1, <1>4 DEF TypeOK
  <1>6. JobsHeld' /\ ReadsReal' /\ ReadsCurrent'
    <2>1. Held(txns[r])'
      BY <1>2, <1>4 DEF Held, Emptying, JobKinds
    <2>2. Real(txns[r])'
      BY <1>1, <1>4 DEF Real, Added
    <2>3. (txns[r].fresh => AsRead(txns[r]))'
      BY <1>1, <1>4 DEF AsRead, Reading, Scoring, Emptying
    <2>4. \A s \in others : txns[s].kind \in JobKinds => Same(txns[s].version)
      BY DEF Same
    <2>5. \A s \in Resolvers \ others :
           /\ (Held(txns[s]) /\ Real(txns[s]) /\ (txns[s].fresh => AsRead(txns[s])))'
           /\ txns'[s].kind \in JobKinds => \A q \in others : txns[q].version # txns'[s].version
           /\ txns'[s].kind \notin JobKinds => txns'[s].version = NoVersion
           /\ \A q \in Resolvers \ others : q = s
      BY <1>2, <1>4, <2>1, <2>2, <2>3 DEF JobKinds
    <2>6. /\ others \in SUBSET Resolvers
          /\ \A s \in others : /\ txns'[s].at = txns[s].at /\ Continues(txns'[s], txns[s])
                               /\ txns'[s].read = txns[s].read
                               /\ \/ ~txns'[s].fresh
                                  \/ txns'[s] = txns[s] /\ txns[s].at \notin Emptying \union {"inserting"}
      BY <1>3
    <2>7. /\ \A c \in Claims : c \in claims => c \in claims' \/ versions'[VersionOf[c]] = "erased"
          /\ \A v \in Versions : versions[v] = "erased" => versions'[v] = "erased"
          /\ UNCHANGED <<claims, overrides, Sources>>
      BY <1>1
    <2> HIDE DEF others
    <2> QED BY <1>4, <2>4, <2>5, <2>6, <2>7, OthersStay
  <1>7. CitesRealEvidence'
    <2>1. \A c \in u.read : c \in claims \/ versions[VersionOf[c]] = "erased"
      BY <1>1 DEF Real, Added
    <2> QED BY <2>1 DEF IInv, CitesRealEvidence
  <1>8. CurrentUnlessRaced'
    BY <1>2 DEF CurrentUnlessRaced
  <1> QED BY <1>5, <1>6, <1>7, <1>8 DEF IInv

\* A reconciliation of SQLite deletes, inserts and ends.
LEMMA ReconciliationKeeps ==
  ASSUME IInv, NEW r \in Resolvers, SqliteDelete(r) \/ SqliteInsert(r) \/ SqliteReconciled(r)
  PROVE  IInv'
  <1> DEFINE t == txns[r]
             others == Resolvers \ {r}
  <1>1. /\ TypeOK /\ txns \in [Resolvers -> Txn] /\ t \in Txn /\ t.read \in SUBSET Claims
        /\ t.ovs \in SUBSET Overrides /\ t.left \in SUBSET Rows /\ t.at # "idle" /\ t.at # "checked"
        /\ claims \in SUBSET Claims /\ overrides \in SUBSET Overrides /\ opportunities \in SUBSET Rows
    BY DEF IInv, TypeOK, Txn, SqliteDelete, SqliteInsert, SqliteReconciled
  <1>2. Held(t) /\ Real(t) /\ (t.fresh => AsRead(t))
    BY DEF IInv, JobsHeld, ReadsReal, ReadsCurrent
  <1>3. backend = "sqlite" /\ t.kind = "reconcile" /\ t.own = {}
    BY <1>1, <1>2 DEF Held, SqliteDelete, SqliteInsert, SqliteReconciled
  <1>4. CASE SqliteDelete(r)
    <2>1. PICK rows \in Resolved(t.read, t.sources, t.ovs) : txns' = Disturbed(r, Inserts(t, rows))
      BY <1>4 DEF SqliteDelete, Inserts
    <2>2. /\ t.at = "scored" /\ opportunities' = {}
          /\ UNCHANGED <<backend, claims, overrides, versions, reconciles, tries, asked, raced>>
      BY <1>4 DEF SqliteDelete
    <2>3. rows \in SUBSET Rows /\ \A row \in rows : row.cites \subseteq t.read
      BY <1>1, ResolvedRows
    <2> DEFINE u == Inserts(t, rows)
    <2>4. /\ u \in Txn /\ u.at = "inserting" /\ u.kind = t.kind /\ u.version = t.version
          /\ u.own = t.own /\ u.left = rows /\ u.read = t.read /\ u.fresh = t.fresh
      BY <1>1, <2>3, Inserting
    <2> HIDE DEF u
    <2>5. t.fresh => t.read = claims /\ t.sources = Sources /\ t.ovs = overrides
      BY <1>2, <1>3, <2>2 DEF AsRead, Added, Reading, Scoring
    <2>6. u.fresh => /\ opportunities' \union u.left \in Resolved(claims, Sources, overrides)
                     /\ DistinctIds(opportunities')
      <3>1. opportunities' \union u.left = rows
        BY <2>2, <2>4
      <3> QED BY <2>1, <2>2, <2>4, <2>5, <3>1 DEF DistinctIds
    <2>7. txns' = Disturbed(r, u)
      BY <2>1 DEF u
    <2> QED BY <1>1, <1>3, <2>2, <2>3, <2>4, <2>6, <2>7, WriteKeeps
  <1>5. CASE SqliteInsert(r)
    <2>1. PICK row \in Following(t.left) :
            /\ row.id \notin Ids(opportunities) /\ opportunities' = opportunities \union {row}
            /\ txns' = Disturbed(r, [t EXCEPT !.left = @ \ {row}])
      BY <1>5 DEF SqliteInsert
    <2>2. /\ t.at = "inserting"
          /\ UNCHANGED <<backend, claims, overrides, versions, reconciles, tries, asked, raced>>
      BY <1>5 DEF SqliteInsert
    <2>3. row \in t.left /\ row.cites \subseteq t.read
      BY <1>2 DEF Following, Real
    <2> DEFINE rest == t.left \ {row}
               u == [t EXCEPT !.left = rest]
    <2>4. rest \in SUBSET Rows /\ txns' = Disturbed(r, u)
      BY <1>1, <2>1
    <2> HIDE DEF rest
    <2>5. /\ u \in Txn /\ u.at = t.at /\ u.kind = t.kind /\ u.version = t.version
          /\ u.own = t.own /\ u.left = rest /\ u.read = t.read /\ u.fresh = t.fresh
      BY <1>1, <2>4, SetLeft
    <2> HIDE DEF u
    <2>6. \A x \in u.left : x.cites \subseteq u.read
      BY <1>2, <2>5 DEF rest, Real
    <2>7. u.fresh => /\ opportunities' \union u.left \in Resolved(claims, Sources, overrides)
                     /\ DistinctIds(opportunities')
      <3>1. opportunities' \union u.left = opportunities \union t.left
        BY <2>1, <2>3, <2>5 DEF rest
      <3>2. t.fresh => /\ opportunities \union t.left \in Resolved(claims, Sources, overrides)
                       /\ DistinctIds(opportunities)
        BY <1>2, <2>2 DEF AsRead
      <3>3. DistinctIds(opportunities) => DistinctIds(opportunities')
        BY <2>1 DEF DistinctIds, Ids
      <3> QED BY <2>5, <3>1, <3>2, <3>3
    <2>8. opportunities' \subseteq Rows
      BY <1>1, <2>1, <2>3
    <2>9. \A x \in opportunities' : x \in opportunities \/ x.cites \subseteq u.read
      BY <2>1, <2>3, <2>5
    <2> QED BY <1>1, <1>3, <2>2, <2>4, <2>5, <2>6, <2>7, <2>8, <2>9, WriteKeeps
  <1>6. CASE SqliteReconciled(r)
    <2>1. /\ t.at = "inserting" /\ t.left = {} /\ Succeeded("reconcile", t.version)
          /\ txns' = [txns EXCEPT ![r] = Idle] /\ raced' = ~t.fresh
          /\ UNCHANGED <<backend, claims, overrides, opportunities, asked>>
      BY <1>6 DEF SqliteReconciled, tables
    <2>2. JobMayEnd("reconcile", t.version)
      BY <1>1, <1>3, UnderWay
    <2>3. /\ versions' \in [Versions -> {"new", "ingested", "failed", "erased"}]
          /\ reconciles' \in [Versions -> {"none", "pending", "done", "dead"}]
          /\ tries' \in [Versions -> 0 .. MaxTries]
          /\ \A w \in Versions : w # t.version => Same(w)
          /\ \A w \in Versions : versions'[w] = "erased" <=> versions[w] = "erased"
          /\ Sources' = Sources
      BY <1>1, <2>1, <2>2, JobEnds
    <2>4. /\ txns' \in [Resolvers -> Txn] /\ txns'[r] = Idle
          /\ \A s \in others : txns'[s] = txns[s]
      BY <1>1, <2>1, IdleShape
    <2>5. TypeOK'
      <3>1. raced' \in BOOLEAN
        BY <2>1
      <3> QED BY <1>1, <2>1, <2>3, <2>4, <3>1 DEF TypeOK
    <2>6. JobsHeld' /\ ReadsReal' /\ ReadsCurrent'
      <3>1. \A s \in others : txns[s].kind \in JobKinds => Same(txns[s].version)
        BY <1>1, <2>3, OthersSame
      <3>2. \A s \in Resolvers \ others :
             /\ (Held(txns[s]) /\ Real(txns[s]) /\ (txns[s].fresh => AsRead(txns[s])))'
             /\ txns'[s].kind \in JobKinds => \A q \in others : txns[q].version # txns'[s].version
             /\ txns'[s].kind \notin JobKinds => txns'[s].version = NoVersion
             /\ \A q \in Resolvers \ others : q = s
        BY <2>4, IdleHolds
      <3>3. /\ others \in SUBSET Resolvers
            /\ \A s \in others : /\ txns'[s].at = txns[s].at /\ Continues(txns'[s], txns[s])
                                 /\ txns'[s].read = txns[s].read
                                 /\ txns'[s] = txns[s]
            /\ UNCHANGED <<claims, overrides, opportunities, Sources>>
        BY <2>1, <2>3, <2>4 DEF Continues
      <3>4. /\ \A c \in Claims : c \in claims => c \in claims' \/ versions'[VersionOf[c]] = "erased"
            /\ \A v \in Versions : versions[v] = "erased" => versions'[v] = "erased"
        BY <2>1, <2>3
      <3> HIDE DEF others
      <3> QED BY <2>1, <2>4, <3>1, <3>2, <3>3, <3>4, OthersStay
    <2>7. CitesRealEvidence'
      <3>1. \A row \in opportunities : \A c \in row.cites : VersionOf[c] \in Versions
        BY <1>1, Budgets DEF TypeOK, Rows
      <3> QED BY <2>1, <2>3, <3>1 DEF IInv, CitesRealEvidence
    <2>8. CurrentUnlessRaced'
      <3> SUFFICES ASSUME ~raced'
                   PROVE  opportunities' \in Resolved(claims', Sources', overrides') /\ Insertable(claims')
        BY DEF CurrentUnlessRaced
      <3>1. /\ opportunities \union t.left \in Resolved(claims, Sources, overrides)
            /\ DistinctIds(opportunities)
        BY <1>2, <2>1 DEF AsRead
      <3>2. opportunities \union t.left = opportunities
        BY <2>1
      <3>3. Insertable(claims)
        BY <1>1, <3>1, <3>2, DistinctEvents
      <3> QED BY <2>1, <2>3, <3>1, <3>2, <3>3
    <2> QED BY <2>5, <2>6, <2>7, <2>8 DEF IInv
  <1> QED BY <1>4, <1>5, <1>6

-----------------------------------------------------------------------------
(* The invariant holds always *)

\* The invariant holds initially,
LEMMA InitIInv == Init => IInv
  <1> SUFFICES ASSUME Init PROVE IInv
    OBVIOUS
  <1>1. /\ claims = {} /\ overrides = {} /\ opportunities = {} /\ backend \in Backends
        /\ txns = [r \in Resolvers |-> Idle] /\ raced = FALSE /\ asked = 0
        /\ versions = [v \in Versions |-> "new"] /\ reconciles = [v \in Versions |-> "none"]
        /\ tries = [v \in Versions |-> 0]
    BY DEF Init
  <1>2. \A r \in Resolvers : txns[r] = Idle
    BY <1>1
  <1>3. TypeOK
    <2>1. txns \in [Resolvers -> Txn]
      BY <1>1, IdleShape
    <2>2. tries \in [Versions -> 0 .. MaxTries] /\ asked \in 0 .. MaxOverrides
      BY <1>1, Budgets DEF Budget
    <2> QED BY <1>1, <2>1, <2>2 DEF TypeOK
  <1>4. JobsHeld /\ ReadsReal /\ ReadsCurrent
    BY <1>2, IdleShape DEF JobsHeld, ReadsReal, ReadsCurrent, Held, Real, AsRead, Reading, Scoring,
       Emptying, JobKinds
  <1>5. CitesRealEvidence /\ CurrentUnlessRaced
    BY <1>1, NothingResolved DEF CitesRealEvidence, CurrentUnlessRaced
  <1> QED BY <1>3, <1>4, <1>5 DEF IInv

\* every step keeps it,
LEMMA NextIInv == IInv /\ [Next]_vars => IInv'
  <1> SUFFICES ASSUME IInv, [Next]_vars PROVE IInv'
    OBVIOUS
  <1>1. ASSUME NEW r \in Resolvers, CommonNext(r) \/ SqliteNext(r) \/ PostgresNext(r)
        PROVE  IInv'
    BY <1>1, BeginSteps, ContinuedSteps, CommitKeeps, AbandonKeeps, TransactionsKeep,
       ReconciliationKeeps DEF CommonNext, SqliteNext, PostgresNext
  <1>2. CASE UNCHANGED vars
    <2>1. /\ UNCHANGED <<backend, claims, overrides, opportunities, versions, reconciles, tries,
                         asked, txns, raced>>
          /\ Sources' = Sources
      BY <1>2 DEF vars, Sources
    <2>2. TypeOK' /\ (CitesRealEvidence /\ CurrentUnlessRaced)'
      BY <2>1 DEF IInv, TypeOK, CitesRealEvidence, CurrentUnlessRaced
    <2>3. JobsHeld'
      BY <2>1 DEF IInv, JobsHeld, Held
    <2>4. ReadsReal'
      BY <2>1 DEF IInv, ReadsReal, Real, Added, Evidence
    <2>5. ReadsCurrent'
      BY <2>1 DEF IInv, ReadsCurrent, AsRead, Added, Evidence
    <2> QED BY <2>2, <2>3, <2>4, <2>5 DEF IInv
  <1> QED BY <1>1, <1>2, EraseKeeps DEF Next

\* and so it always holds.
LEMMA AlwaysIInv == Spec => []IInv
  BY InitIInv, NextIInv, PTL DEF Spec

-----------------------------------------------------------------------------

\* The state keeps its types: whatever reviewers patch, the table holds rows.
THEOREM ResolutionTypes == Spec => []TypeOK
  <1>1. IInv => TypeOK
    BY DEF IInv
  <1> QED BY <1>1, AlwaysIInv, PTL

\* Every claim a row cites is in the table or was erased with its version,
\* however many resolutions overlap, fail and are rolled back
\* (resolveOrganization and replaceOpportunities).
THEOREM RowsCiteRealEvidence == Spec => []CitesRealEvidence
  <1>1. IInv => CitesRealEvidence
    BY DEF IInv
  <1> QED BY <1>1, AlwaysIInv, PTL

\* With no reconciliation due, the rows are what the rules make of the tables
\* unless the resolution that left them had read before another committed:
\* overlapping resolutions are the only way to stale rows, in Postgres and,
\* for the reconciliation outside a transaction, in SQLite.
THEOREM RowsAreCurrent == Spec => []CurrentUnlessRaced
  <1>1. IInv => CurrentUnlessRaced
    BY DEF IInv
  <1> QED BY <1>1, AlwaysIInv, PTL

\* With SQLite and before the first erasure the rows are what the rules make of
\* the tables.
SqliteCurrent ==
  backend = "sqlite" /\ (\A v \in Versions : reconciles[v] = "none")
    => opportunities \in Resolved(claims, Sources, overrides) /\ Insertable(claims)

\* While SQLite resolves in transactions only (ingestions and reviews, `begin
\* immediate`), no race needs to be excepted: it takes a reconciliation, which
\* account erasure queues, to leave stale rows.
THEOREM SqliteRowsAreCurrent == Spec => []SqliteCurrent
  <1> DEFINE Asked == \E v \in Versions : reconciles[v] # "none"
             Unraced == backend = "sqlite" /\ raced => Asked
  <1>1. Init => Unraced
    BY DEF Init
  <1>2. IInv /\ Unraced /\ [Next]_vars => Unraced'
    <2> SUFFICES ASSUME IInv, Unraced, [Next]_vars, backend' = "sqlite", raced'
                 PROVE  Asked'
      OBVIOUS
    <2>0. reconciles \in [Versions -> {"none", "pending", "done", "dead"}]
      BY DEF IInv, TypeOK
    <2>1. ASSUME UNCHANGED <<backend, raced>>,
                 \A v \in Versions : reconciles[v] # "none" => reconciles'[v] # "none"
          PROVE  Asked'
      BY <2>1
    <2>2. ASSUME NEW kind, NEW v, Failed(kind, v)
          PROVE  \A w \in Versions : reconciles[w] # "none" => reconciles'[w] # "none"
      BY <2>0, <2>2 DEF Failed
    <2>3. ASSUME NEW r \in Resolvers, NEW u, Unseen(r, u)
          PROVE  Asked'
      BY <2>1, <2>3 DEF Unseen
    <2>4. ASSUME NEW r \in Resolvers, CommonNext(r)
          PROVE  Asked'
      <3>1. CASE Abandon(r)
        BY <2>1, <2>2, <3>1 DEF Abandon
      <3> QED BY <2>3, <2>4, <3>1 DEF CommonNext, BeginJob, Review, ScoreClaims
    <2>5. ASSUME NEW r \in Resolvers, SqliteNext(r)
          PROVE  Asked'
      <3>1. ASSUME NEW kind, NEW v, NEW own, AtOnce(r, kind, v, own)
            PROVE  FALSE
        BY <3>1 DEF AtOnce
      <3>2. ASSUME NEW v \in Versions, SqliteIngestFails(v)
            PROVE  Asked'
        BY <2>1, <2>2, <3>2 DEF SqliteIngestFails
      <3>3. CASE SqliteReconciled(r)
        <4>1. txns[r].at = "inserting" /\ Succeeded("reconcile", txns[r].version)
          BY <3>3 DEF SqliteReconciled
        <4>2. txns[r].kind = "reconcile" /\ txns[r].version \in Versions
          BY <4>1 DEF IInv, JobsHeld, Held, JobKinds
        <4>3. reconciles'[txns[r].version] = "done"
          BY <2>0, <4>1, <4>2 DEF Succeeded
        <4> QED BY <4>2, <4>3
      <3>4. CASE SqliteDelete(r) \/ SqliteInsert(r)
        BY <2>1, <3>4 DEF SqliteDelete, SqliteInsert
      <3> QED BY <2>5, <3>1, <3>2, <3>3, <3>4 DEF SqliteNext, SqliteIngest, SqliteOverride
    <2>6. ASSUME NEW r \in Resolvers, PostgresNext(r)
          PROVE  Asked'
      <3>1. ~Commit(r)
        <4>1. Commit(r) => backend = "sqlite" /\ txns[r].at = "deleted"
          BY DEF Commit
        <4> QED BY <4>1 DEF IInv, JobsHeld, Held, Emptying
      <3> QED BY <2>3, <2>6, <3>1 DEF PostgresNext, BeginOverride, DeleteRows, LockRows
    <2>7. ASSUME NEW v \in Versions, Erase(v)
          PROVE  Asked'
      BY <2>0, <2>1, <2>7 DEF Erase
    <2>8. CASE UNCHANGED vars
      BY <2>1, <2>8 DEF vars
    <2> QED BY <2>4, <2>5, <2>6, <2>7, <2>8 DEF Next
  <1>3. IInv /\ Unraced => SqliteCurrent
    BY DEF IInv, CurrentUnlessRaced, SqliteCurrent
  <1> QED BY <1>1, <1>2, <1>3, AlwaysIInv, PTL DEF Spec

=============================================================================
