------------------------------- MODULE Accounts -------------------------------
(***************************************************************************)
(* Accounts from sign-in to erasure: what the API's requests and a worker  *)
(* do at the same time to the rows of a user in a tenant.                  *)
(*                                                                         *)
(* The steps are those of the Postgres adapters, where a sign-in is three  *)
(* transactions, an authentication reads twice and an erasure is a         *)
(* transaction of many statements under READ COMMITTED.  What a            *)
(* transaction has deleted is gone for others when it commits.  A foreign  *)
(* key is checked under a share lock of the row it refers to, so whoever   *)
(* inserts below a membership or a version waits for the erasure that has  *)
(* locked it.  With SQLite nothing comes between the steps of a sign-in,   *)
(* an authentication or an erasure.                                        *)
(*                                                                         *)
(* A tenant has one private source version that any of its members may     *)
(* contribute; its claims and the reconciliation are Resolution's.         *)
(***************************************************************************)
EXTENDS Integers, FiniteSets

CONSTANTS
  Worlds,        \* the sets of accounts, <<user, tenant>>, a behaviour may be about
  SignIns,       \* sign-ins, and the sessions they create
  Requests,      \* requests in progress
  Nobody         \* no account

ASSUME AccountsAssumptions ==
  /\ \A world \in Worlds : IsFiniteSet(world) /\ Nobody \notin world
  /\ Nobody \notin SignIns

VARIABLES
  accounts,      \* the accounts of this behaviour
  members,       \* rows of memberships
  identity,      \* membership_count of a user's row, Gone if there is none
  sessions,      \* rows of sessions that are neither revoked nor expired
  credentials,   \* accounts with a row in credentials
  jobs,          \* accounts whose job waits in the queue or is run by a worker
  links,         \* rows of source_version_contributors and connector_state
  evidence,      \* tenants whose private version is stored
  signIns,       \* how far a sign-in is, and its account
  requests,      \* how far a request is, its session, and what an erasure deletes;
                 \* whether its session was read before, and its membership
                 \* after the erasure of the account (early, late)
  stale,         \* sessions whose account was erased after they had been created
  overlapped     \* sessions created while their account was being erased
                 \* (these two, early and late are nothing of the program)

rows == <<members, identity, sessions, credentials, jobs, links, evidence>>
vars == <<accounts, rows, signIns, requests, stale, overlapped>>

Gone == -1
User(a) == a[1]
Tenant(a) == a[2]
Users == {User(a) : a \in accounts}
Tenants == {Tenant(a) : a \in accounts}

AccountsOf(u) == {a \in accounts : User(a) = u}
MembershipsOf(u) == members \intersect AccountsOf(u)
AccountOf(p) == signIns[p].account
SessionsOf(a) == {p \in sessions : AccountOf(p) = a}

NoDeletes == [sessions |-> {}, credential |-> FALSE, version |-> FALSE]
Idle == [at |-> "idle", session |-> Nobody, early |-> FALSE, late |-> FALSE, deletes |-> NoDeletes]

\* Everyone is a member, and some have signed in before.
Init ==
  /\ accounts \in Worlds
  /\ members = accounts
  /\ identity = [u \in Users |-> Cardinality(AccountsOf(u))]
  /\ signIns \in [SignIns -> {[at |-> "idle", account |-> Nobody]} \union
                             {[at |-> "done", account |-> a] : a \in accounts}]
  /\ sessions = {p \in SignIns : signIns[p].at = "done"}
  /\ credentials = {} /\ jobs = {} /\ links = {} /\ evidence = {}
  /\ requests = [r \in Requests |-> Idle]
  /\ stale = {} /\ overlapped = {}

-----------------------------------------------------------------------------
(* Who holds which lock *)

Erasing(a, points) ==
  \E r \in Requests : requests[r].at \in points /\ AccountOf(requests[r].session) = a

\* memberships ... for update
MembershipLocked(a) == Erasing(a, {"locked", "purged", "deleting"})

\* ... for update of sv: the version, if the account has contributed it
VersionLocked(t) ==
  \E a \in links : Tenant(a) = t /\ Erasing(a, {"purged", "deleting"})

\* insert into users ... on conflict do update
UserLocked(u) ==
  \E p \in SignIns : signIns[p].at = "users" /\ User(AccountOf(p)) = u

-----------------------------------------------------------------------------
(* Sign-in: SessionService.issue *)

SignInIs(p, point) == signIns' = [signIns EXCEPT ![p].at = point]

SignInOnly(p, point) ==
  /\ SignInIs(p, point)
  /\ UNCHANGED <<accounts, rows, requests, stale, overlapped>>

\* upsertIdentity: the user's row ...
UpsertUser(p, a) ==
  /\ signIns[p].at = "idle" /\ ~UserLocked(User(a))
  /\ signIns' = [signIns EXCEPT ![p] = [at |-> "users", account |-> a]]
  /\ UNCHANGED <<accounts, rows, requests, stale, overlapped>>

\* Mutant: an existing membership is counted again.
UpsertCountsAgain(p) ==
  LET a == AccountOf(p) IN
  /\ signIns[p].at = "users" /\ ~Erasing(a, {"deleting"})
  /\ members' = members \union {a}
  /\ identity' = [identity EXCEPT ![User(a)] = IF @ = Gone THEN 1 ELSE @ + 1]
  /\ SignInIs(p, "member")
  /\ UNCHANGED <<accounts, sessions, credentials, jobs, links, evidence, requests, stale,
                 overlapped>>

\* ... and the membership, unless there is one; the trigger counts it.  A
\* membership that an erasure is deleting is waited for.
UpsertMembership(p) ==
  LET a == AccountOf(p)
      u == User(a)
  IN  /\ signIns[p].at = "users" /\ ~Erasing(a, {"deleting"})
      /\ IF a \in members THEN UNCHANGED <<members, identity>>
         ELSE /\ members' = members \union {a}
              /\ identity' = [identity EXCEPT ![u] = IF @ = Gone THEN 1 ELSE @ + 1]
      /\ SignInIs(p, "member")
      /\ UNCHANGED <<accounts, sessions, credentials, jobs, links, evidence, requests,
                     stale, overlapped>>

\* createSession: the row refers to the user.
CreateSession(p) ==
  /\ signIns[p].at = "member" /\ identity[User(AccountOf(p))] # Gone
  /\ sessions' = sessions \union {p}
  /\ overlapped' = IF Erasing(AccountOf(p), {"purged", "deleting"}) THEN overlapped \union {p}
                   ELSE overlapped
  /\ SignInIs(p, "created")
  /\ UNCHANGED <<accounts, members, identity, credentials, jobs, links, evidence, requests,
                 stale>>

CreateSessionFails(p) ==
  /\ signIns[p].at = "member" /\ identity[User(AccountOf(p))] = Gone
  /\ SignInOnly(p, "failed")

\* authenticateSession: only now the browser gets the token.
LoadSession(p) ==
  /\ signIns[p].at = "created"
  /\ SignInOnly(p, IF p \in sessions /\ AccountOf(p) \in members THEN "done" ELSE "failed")

\* sessions past expires_at
Expire(p) ==
  /\ p \in sessions /\ signIns[p].at = "done"
  /\ sessions' = sessions \ {p}
  /\ UNCHANGED <<accounts, members, identity, credentials, jobs, links, evidence, signIns,
                 requests, stale, overlapped>>

-----------------------------------------------------------------------------
(* Requests: authentication and the routes *)

RequestIs(r, request) == requests' = [requests EXCEPT ![r] = request]

RequestOnly(r, request) ==
  /\ RequestIs(r, request)
  /\ UNCHANGED <<accounts, rows, signIns, stale, overlapped>>

\* The onRequest hook, authenticateSession: a live session ...
Present(r, p) ==
  /\ requests[r].at = "idle" /\ signIns[p].at = "done" /\ p \in sessions
  /\ RequestOnly(r, [Idle EXCEPT !.at = "session", !.session = p, !.early = p \notin stale])

\* ... and, by a statement of its own, the membership.
Authenticate(r) ==
  /\ requests[r].at = "session"
  /\ RequestOnly(r, IF AccountOf(requests[r].session) \in members
                    THEN [requests[r] EXCEPT !.at = "ready", !.late = requests[r].session \in stale]
                    ELSE Idle)

\* The rate limit, the CSRF token or the body is refused.
Refuse(r) ==
  /\ requests[r].at = "ready"
  /\ RequestOnly(r, Idle)

\* POST /auth/logout
Logout(r) ==
  /\ requests[r].at = "ready"
  /\ sessions' = sessions \ {requests[r].session}
  /\ RequestIs(r, Idle)
  /\ UNCHANGED <<accounts, members, identity, credentials, jobs, links, evidence, signIns,
                 stale, overlapped>>

\* POST /api/ingest/url, /api/ingest/screenshot and a connector's sync: the
\* jobs table refers to no user.  A job that comes in while the account is
\* being erased is there after the erasure, as one that comes in then.
EnqueueJob(r) ==
  /\ requests[r].at = "ready"
  /\ ~Erasing(AccountOf(requests[r].session), {"purged", "deleting"})
  /\ jobs' = jobs \union {AccountOf(requests[r].session)}
  /\ RequestIs(r, Idle)
  /\ UNCHANGED <<accounts, members, identity, sessions, credentials, links, evidence, signIns,
                 stale, overlapped>>

\* A deleted row is waited for; the row refers to the user.
CredentialFree(a) ==
  /\ identity[User(a)] # Gone
  /\ ~ \E r \in Requests : /\ requests[r].deletes.credential
                           /\ AccountOf(requests[r].session) = a

\* A connector's callback: vault.put
Connect(r) ==
  LET a == AccountOf(requests[r].session) IN
  /\ requests[r].at = "ready" /\ CredentialFree(a)
  /\ credentials' = credentials \union {a}
  /\ RequestIs(r, Idle)
  /\ UNCHANGED <<accounts, members, identity, sessions, jobs, links, evidence, signIns, stale, overlapped>>

-----------------------------------------------------------------------------
(* DELETE /api/me: eraseAccount *)

Erased(r) == AccountOf(requests[r].session)

\* Without a membership the answer is 404.
LockMembership(r) ==
  /\ requests[r].at = "ready" /\ ~MembershipLocked(Erased(r))
  /\ RequestOnly(r, IF Erased(r) \in members
                    THEN [requests[r] EXCEPT !.at = "locked"] ELSE Idle)

\* The rows that the statements find and delete
Found(a) ==
  [sessions |-> SessionsOf(a),
   credential |-> a \in credentials,
   version |-> a \in links /\ \A b \in links : Tenant(b) = Tenant(a) => b = a]

\* Mutant: the select of the private versions without `for update of sv`
PurgeUnlocked(r) ==
  /\ requests[r].at = "locked"
  /\ RequestOnly(r, [requests[r] EXCEPT !.at = "purged", !.deletes = Found(Erased(r))])

\* The private versions the account has contributed are locked first.
Purge(r) ==
  /\ requests[r].at = "locked"
  /\ Erased(r) \in links => ~VersionLocked(Tenant(Erased(r)))
  /\ RequestOnly(r, [requests[r] EXCEPT !.at = "purged", !.deletes = Found(Erased(r))])

\* delete from memberships: the trigger needs the user's row.
DeleteMembership(r) ==
  /\ requests[r].at = "purged"
  /\ RequestOnly(r, [requests[r] EXCEPT !.at = "deleting"])

\* The rows in any tenant that refer to the identity, if it is deleted.
Cascade(u) == IF identity[u] = 1 THEN AccountsOf(u) ELSE {}

\* membership_count after the trigger, and `delete from users where ... = 0`
Uncounted(count) == IF count = 1 THEN Gone ELSE count - 1

CredentialsLeft(r) ==
  IF requests[r].deletes.credential THEN credentials \ {Erased(r)} ELSE credentials

\* The links go with the membership.  A worker that runs a deleted job goes
\* on with it.
EndMembership(r, count, sessionsLeft, credentialsLeft) ==
  LET a == Erased(r) IN
  /\ requests[r].at = "deleting" /\ ~UserLocked(User(a))
  /\ members' = members \ {a}
  /\ identity' = [identity EXCEPT ![User(a)] = count]
  /\ sessions' = sessionsLeft
  /\ credentials' = credentialsLeft
  /\ jobs' \in {jobs, jobs \ {a}}
  /\ links' = links \ {a}
  /\ evidence' = IF requests[r].deletes.version THEN evidence \ {Tenant(a)} ELSE evidence
  /\ stale' = stale \union {p \in SignIns : signIns[p].at \in {"created", "done"} /\ AccountOf(p) = a}
  /\ RequestIs(r, Idle)
  /\ UNCHANGED <<accounts, signIns, overlapped>>

\* Mutant: the identity row is kept.
CommitKeepingIdentity(r) ==
  EndMembership(r, identity[User(Erased(r))] - 1, sessions \ requests[r].deletes.sessions,
                CredentialsLeft(r))

\* Mutant: the sessions are left to the foreign key on the identity.
CommitKeepingSessions(r) ==
  LET u == User(Erased(r)) IN
  EndMembership(r, Uncounted(identity[u]),
                {p \in sessions : AccountOf(p) \notin Cascade(u)},
                CredentialsLeft(r) \ Cascade(u))

\* Mutant: no foreign key deletes what was stored during the erasure.
CommitWithoutCascade(r) ==
  EndMembership(r, Uncounted(identity[User(Erased(r))]), sessions \ requests[r].deletes.sessions,
                CredentialsLeft(r))

CommitErasure(r) ==
  LET u == User(Erased(r)) IN
  EndMembership(r, Uncounted(identity[u]),
                {p \in sessions \ requests[r].deletes.sessions : AccountOf(p) \notin Cascade(u)},
                CredentialsLeft(r) \ Cascade(u))

\* The erasure waits for the user's row, the sign-in for the membership: the
\* database ends one of the two.
Deadlock(r, p) ==
  /\ requests[r].at = "deleting" /\ signIns[p].at = "users" /\ AccountOf(p) = Erased(r)
  /\ RequestOnly(r, Idle) \/ SignInOnly(p, "failed")

\* A statement fails or the API dies: the transaction is rolled back.
EraseFails(r) ==
  /\ requests[r].at \in {"locked", "purged", "deleting"}
  /\ RequestOnly(r, Idle)

-----------------------------------------------------------------------------
(* A worker on a job of the account *)

\* Mutant: the contributor's membership is not checked.
StageForAnyone(a) ==
  /\ a \in jobs /\ ~MembershipLocked(a) /\ ~VersionLocked(Tenant(a))
  /\ links' = links \union {a}
  /\ evidence' = evidence \union {Tenant(a)}
  /\ UNCHANGED <<accounts, members, identity, sessions, credentials, jobs, signIns, requests,
                 stale, overlapped>>

\* stageSource of a private version, or setConnectorState.  Both refer to the
\* membership and are deleted with it; one set stands for the two tables, so
\* a cursor alone counts as a contribution here.
Stage(a) ==
  /\ a \in jobs /\ a \in members /\ ~MembershipLocked(a) /\ ~VersionLocked(Tenant(a))
  /\ links' = links \union {a}
  /\ evidence' = evidence \union {Tenant(a)}
  /\ UNCHANGED <<accounts, members, identity, sessions, credentials, jobs, signIns, requests,
                 stale, overlapped>>

\* The job has ended, in the end as a dead letter if it was refused.
EndJob(a) ==
  /\ a \in jobs
  /\ jobs' = jobs \ {a}
  /\ UNCHANGED <<accounts, members, identity, sessions, credentials, links, evidence, signIns,
                 requests, stale, overlapped>>

-----------------------------------------------------------------------------

SignIn(p) ==
  \/ \E a \in accounts : UpsertUser(p, a)
  \/ UpsertMembership(p) \/ CreateSession(p) \/ CreateSessionFails(p) \/ LoadSession(p)
  \/ Expire(p)

Request(r) ==
  \/ \E p \in SignIns : Present(r, p) \/ Deadlock(r, p)
  \/ Authenticate(r) \/ Refuse(r) \/ Logout(r) \/ EnqueueJob(r) \/ Connect(r)
  \/ LockMembership(r) \/ Purge(r) \/ DeleteMembership(r)
  \/ CommitErasure(r) \/ EraseFails(r)

Next ==
  \/ \E p \in SignIns : SignIn(p)
  \/ \E r \in Requests : Request(r)
  \/ \E a \in accounts : Stage(a) \/ EndJob(a)

Spec == Init /\ [][Next]_vars

-----------------------------------------------------------------------------
(* Properties *)

SignInPoints == {"idle", "users", "member", "created", "done", "failed"}
Points == {"idle", "session", "ready", "locked", "purged", "deleting"}
Deletes == [sessions : SUBSET SignIns, credential : BOOLEAN, version : BOOLEAN]
RequestState == [at : Points, session : SignIns \union {Nobody}, early : BOOLEAN, late : BOOLEAN,
                 deletes : Deletes]

TypeOK ==
  /\ accounts \in Worlds /\ members \subseteq accounts
  /\ identity \in [Users -> {Gone} \union (Nat \ {0})]
  /\ sessions \subseteq SignIns
  /\ credentials \subseteq accounts
  /\ jobs \subseteq accounts
  /\ links \subseteq accounts /\ evidence \subseteq Tenants
  /\ signIns \in [SignIns -> [at : SignInPoints, account : accounts \union {Nobody}]]
  /\ requests \in [Requests -> RequestState]
  /\ stale \subseteq SignIns /\ overlapped \subseteq SignIns

\* However sign-ins and erasures of several tenants interleave, a user's row
\* counts the memberships there are and is deleted with the last of them:
\* "The global identity row is deleted once it has no tenant memberships."
IdentityCountsMemberships ==
  \A u \in Users : identity[u] = IF MembershipsOf(u) = {} THEN Gone
                                 ELSE Cardinality(MembershipsOf(u))

\* What a job of an erased account still does links nothing to it, until the
\* user has signed in again and is a member as before.
LinksAreOfMembers == links \subseteq members

\* Of two contributors who are erased at the same time the second takes the
\* private version along: none is stored that nobody has contributed.
NoOrphanedEvidence ==
  \A t \in evidence : \E a \in links : Tenant(a) = t

\* A token from before an erasure authenticates no request that begins after
\* it, though the user signs in again and is a member with the same id: the
\* erasure has deleted the session, unless the sign-in that created it and the
\* erasure overlapped and the user is a member of another tenant.  The request
\* that was between authenticateSession's two reads when the erasure committed
\* is excepted: it has read the session, finds the membership of the new
\* sign-in and goes on.
TokensEndWithAccount ==
  \A r \in Requests :
    requests[r].late => requests[r].early \/ requests[r].session \in overlapped

\* A user who is no member anywhere has no session and no credential left,
\* whatever was in progress during the erasures.
NothingLeftOfTheErased ==
  \A u \in Users : identity[u] = Gone =>
    /\ \A a \in credentials : User(a) # u
    /\ \A p \in sessions : AccountOf(p) \notin AccountsOf(u)
=============================================================================
