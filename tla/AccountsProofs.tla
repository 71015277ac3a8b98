---------------------------- MODULE AccountsProofs ----------------------------
(***************************************************************************)
(* Proofs about Accounts for any finite sets of accounts and any number of *)
(* sign-ins and requests.                                                  *)
(***************************************************************************)
EXTENDS Accounts, FiniteSetTheorems, TLAPS

-----------------------------------------------------------------------------
(* The inductive invariant *)

Holding == {"locked", "purged", "deleting"}
Deleting == {"purged", "deleting"}

\* A sign-in under way has an account, and a session is created by one, the
\* session that is erased with its account too.
SignInsKnown ==
  /\ \A p \in SignIns : signIns[p].at # "idle" => AccountOf(p) \in accounts
  /\ \A p \in sessions \union stale : signIns[p].at \in {"created", "done", "failed"}

\* A request under way presents the session of a sign-in that is done.
RequestsKnown ==
  \A r \in Requests : requests[r].at # "idle" =>
    requests[r].session \in SignIns /\ signIns[requests[r].session].at = "done"

\* The membership an erasure has locked is there, and nobody else has it.
MembershipsHeld ==
  \A r \in Requests : requests[r].at \in Holding =>
    /\ Erased(r) \in members
    /\ \A q \in Requests : requests[q].at \in Holding /\ Erased(q) = Erased(r) => q = r

\* Of the contributors of a version only one is being deleted at a time.
VersionsHeld ==
  \A r, q \in Requests :
    /\ requests[r].at \in Deleting /\ requests[q].at \in Deleting
    /\ Erased(r) \in links /\ Erased(q) \in links
    /\ Tenant(Erased(r)) = Tenant(Erased(q))
    => r = q

\* An erasure that leaves the version has found another contributor.
SharersStay ==
  \A r \in Requests :
    /\ requests[r].at \in Deleting /\ Erased(r) \in links /\ ~requests[r].deletes.version
    => \E b \in links : b # Erased(r) /\ Tenant(b) = Tenant(Erased(r))

\* An erasure has found the account's sessions, but for those created since.
SessionsFound ==
  \A r \in Requests : requests[r].at \in Deleting =>
    \A p \in SessionsOf(Erased(r)) : p \in requests[r].deletes.sessions \union overlapped

\* A session that has outlived an erasure was created during it.
StaleOverlapped == stale \intersect sessions \subseteq overlapped

\* A request under way has read its session before the erasure of the account,
\* or one that outlives it.
RequestsBegun ==
  \A r \in Requests : requests[r].at # "idle" \/ requests[r].late =>
    requests[r].early \/ requests[r].session \in overlapped

\* What the locks of erasures protect, and what the user's row counts.
Held == /\ MembershipsHeld /\ VersionsHeld /\ SharersStay /\ SessionsFound /\ StaleOverlapped
        /\ LinksAreOfMembers /\ NoOrphanedEvidence /\ RequestsBegun
Counted == IdentityCountsMemberships /\ NothingLeftOfTheErased

IInv == TypeOK /\ SignInsKnown /\ RequestsKnown /\ Held /\ Counted

SignInState == [at : SignInPoints, account : accounts \union {Nobody}]

-----------------------------------------------------------------------------
(* Records *)

\* A sign-in that moves on keeps its account.
LEMMA SignInMoved ==
  ASSUME NEW s \in SignInState, NEW at \in SignInPoints
  PROVE  LET moved == [s EXCEPT !.at = at] IN
         moved \in SignInState /\ moved.at = at /\ moved.account = s.account
  BY DEF SignInState

\* A request that moves on keeps its session.
LEMMA RequestMoved ==
  ASSUME NEW q \in RequestState, NEW at \in Points
  PROVE  LET moved == [q EXCEPT !.at = at] IN
         /\ moved \in RequestState /\ moved.at = at /\ moved.session = q.session
         /\ moved.early = q.early /\ moved.late = q.late /\ moved.deletes = q.deletes
  BY DEF RequestState

\* What Authenticate makes of a request whose session it has read.
LEMMA Authenticated ==
  ASSUME NEW q \in RequestState, NEW late \in BOOLEAN
  PROVE  LET ready == [q EXCEPT !.at = "ready", !.late = late] IN
         /\ ready \in RequestState /\ ready.at = "ready" /\ ready.session = q.session
         /\ ready.early = q.early
  <1> DEFINE first == [q EXCEPT !.at = "ready"]
             second == [first EXCEPT !.late = late]
  <1>1. first \in RequestState /\ first.at = "ready" /\ first.session = q.session /\ first.early = q.early
    BY RequestMoved DEF Points
  <1> HIDE DEF first
  <1>2. /\ second \in RequestState /\ second.at = "ready" /\ second.session = q.session
        /\ second.early = q.early
    BY <1>1 DEF RequestState
  <1>3. second = [q EXCEPT !.at = "ready", !.late = late]
    BY DEF first
  <1> HIDE DEF second
  <1> QED BY <1>2, <1>3

\* What a request is before it begins.
LEMMA IdleShape ==
  Idle \in RequestState /\ Idle.at = "idle" /\ Idle.late = FALSE /\ Idle.session = Nobody
  <1>1. NoDeletes \in Deletes
    BY DEF NoDeletes, Deletes
  <1> QED BY <1>1 DEF Idle, RequestState, Points

\* What Present makes of an idle request.
LEMMA Presented ==
  ASSUME NEW p \in SignIns, NEW early \in BOOLEAN
  PROVE  LET q == [Idle EXCEPT !.at = "session", !.session = p, !.early = early] IN
         q \in RequestState /\ q.at = "session" /\ q.session = p /\ q.early = early
  <1> DEFINE first == [Idle EXCEPT !.at = "session"]
             second == [first EXCEPT !.session = p]
             third == [second EXCEPT !.early = early]
  <1>1. first \in RequestState /\ first.at = "session"
    BY IdleShape, RequestMoved DEF Points
  <1> HIDE DEF first
  <1>2. second \in RequestState /\ second.at = "session" /\ second.session = p
    BY <1>1 DEF RequestState
  <1> HIDE DEF second
  <1>3. third \in RequestState /\ third.at = "session" /\ third.session = p /\ third.early = early
    BY <1>2 DEF RequestState
  <1>4. third = [Idle EXCEPT !.at = "session", !.session = p, !.early = early]
    BY DEF first, second
  <1> HIDE DEF third
  <1> QED BY <1>3, <1>4

\* What Purge makes of a request that has locked a membership.
LEMMA Purged ==
  ASSUME NEW q \in RequestState, NEW found \in Deletes
  PROVE  LET purged == [q EXCEPT !.at = "purged", !.deletes = found] IN
         /\ purged \in RequestState /\ purged.at = "purged" /\ purged.session = q.session
         /\ purged.early = q.early /\ purged.deletes = found
  <1> DEFINE first == [q EXCEPT !.at = "purged"]
             second == [first EXCEPT !.deletes = found]
  <1>1. first \in RequestState /\ first.at = "purged" /\ first.session = q.session /\ first.early = q.early
    BY RequestMoved DEF Points
  <1> HIDE DEF first
  <1>2. /\ second \in RequestState /\ second.at = "purged" /\ second.session = q.session
        /\ second.early = q.early /\ second.deletes = found
    BY <1>1 DEF RequestState
  <1>3. second = [q EXCEPT !.at = "purged", !.deletes = found]
    BY DEF first
  <1> HIDE DEF second
  <1> QED BY <1>2, <1>3

-----------------------------------------------------------------------------
(* Counting *)

\* One membership more counts one more.
LEMMA OneMore ==
  ASSUME NEW S, IsFiniteSet(S), NEW a, a \notin S
  PROVE  /\ S = {} => Cardinality(S \union {a}) = 1
         /\ S # {} => Cardinality(S \union {a}) = Cardinality(S) + 1
         /\ Cardinality(S) \in Nat
  BY FS_AddElement, FS_EmptySet, FS_CardinalityType

\* One membership less counts one less.
LEMMA OneLess ==
  ASSUME NEW S, IsFiniteSet(S), NEW a \in S
  PROVE  /\ Cardinality(S) \in Nat \ {0}
         /\ Cardinality(S \ {a}) = Cardinality(S) - 1
         /\ Cardinality(S) = 1 <=> S \ {a} = {}
  <1>1. Cardinality(S) \in Nat /\ Cardinality(S \ {a}) \in Nat /\ IsFiniteSet(S \ {a})
    BY FS_CardinalityType, FS_RemoveElement
  <1>2. Cardinality(S \ {a}) = Cardinality(S) - 1
    BY FS_RemoveElement
  <1>3. Cardinality(S \ {a}) = 0 <=> S \ {a} = {}
    BY <1>1, FS_EmptySet
  <1> QED BY <1>1, <1>2, <1>3

\* A user's memberships are a finite set.
LEMMA MembershipsFinite ==
  ASSUME TypeOK, NEW u
  PROVE  IsFiniteSet(MembershipsOf(u)) /\ IsFiniteSet(AccountsOf(u))
  <1>1. IsFiniteSet(accounts)
    BY AccountsAssumptions DEF TypeOK
  <1> QED BY <1>1, FS_Subset DEF MembershipsOf, AccountsOf
-----------------------------------------------------------------------------
(* Steps of sign-ins and workers *)

\* A step of a sign-in that is not done leaves the accounts of all requests
\* and of all sessions as they are.
LEMMA AccountsStay ==
  ASSUME IInv, NEW p \in SignIns, NEW s \in SignInState,
         signIns' = [signIns EXCEPT ![p] = s], UNCHANGED <<accounts, requests, stale>>,
         signIns[p].at # "done",
         s.at # "idle" => s.account \in accounts,
         signIns[p].at # "idle" => s.account = signIns[p].account,
         p \in sessions' \union stale => s.at \in {"created", "done", "failed"},
         sessions' \subseteq sessions \union {p}
  PROVE  /\ signIns' \in [SignIns -> SignInState]'
         /\ SignInsKnown' /\ RequestsKnown'
         /\ \A q \in sessions : AccountOf(q)' = AccountOf(q)
         /\ \A q \in SignIns : q # p => AccountOf(q)' = AccountOf(q)
         /\ AccountOf(p)' = s.account
         /\ \A r \in Requests : requests[r].at # "idle" => Erased(r)' = Erased(r)
  <1>1. /\ signIns \in [SignIns -> SignInState] /\ sessions \subseteq SignIns
        /\ SignInsKnown /\ RequestsKnown
    BY DEF IInv, TypeOK, SignInState
  <1>2. signIns' \in [SignIns -> SignInState]'
    BY <1>1 DEF SignInState
  <1>3. signIns'[p] = s /\ \A q \in SignIns : q # p => signIns'[q] = signIns[q]
    BY <1>1
  <1>4. SignInsKnown'
    BY <1>1, <1>3 DEF SignInsKnown, AccountOf
  <1>5. RequestsKnown'
    BY <1>1, <1>3 DEF RequestsKnown
  <1>6. \A q \in sessions : AccountOf(q)' = AccountOf(q)
    BY <1>1, <1>3 DEF SignInsKnown, AccountOf
  <1>7. \A r \in Requests : requests[r].at # "idle" => Erased(r)' = Erased(r)
    BY <1>1, <1>3 DEF RequestsKnown, Erased, AccountOf
  <1> QED BY <1>2, <1>3, <1>4, <1>5, <1>6, <1>7 DEF AccountOf

\* Nothing that erasures protect is disturbed while requests, links and
\* evidence stay, members and overlapped grow, and new sessions are overlapped
\* and not stale.
LEMMA HeldStays ==
  ASSUME IInv, UNCHANGED <<requests, links, evidence, stale>>,
         members \subseteq members', overlapped \subseteq overlapped',
         \A q \in sessions' : q \in sessions \/ q \notin stale,
         \A r \in Requests : requests[r].at # "idle" => Erased(r)' = Erased(r),
         \A r \in Requests, q \in sessions' :
           requests[r].at \in Deleting /\ AccountOf(q)' = Erased(r)
             => q \in SessionsOf(Erased(r)) \union overlapped'
  PROVE  Held'
  <1>1. \A r \in Requests : requests[r].at \in Holding \union Deleting => Erased(r)' = Erased(r)
    BY DEF Holding, Deleting
  <1>2. (MembershipsHeld /\ LinksAreOfMembers)'
    BY <1>1 DEF IInv, Held, MembershipsHeld, LinksAreOfMembers
  <1>3. (VersionsHeld /\ SharersStay)'
    BY <1>1 DEF IInv, Held, VersionsHeld, SharersStay
  <1>4. SessionsFound'
    BY <1>1 DEF IInv, Held, SessionsFound, SessionsOf
  <1>5. (StaleOverlapped /\ NoOrphanedEvidence /\ RequestsBegun)'
    BY DEF IInv, Held, StaleOverlapped, NoOrphanedEvidence, RequestsBegun
  <1> QED BY <1>2, <1>3, <1>4, <1>5 DEF Held

\* A sign-in moves, without a write or with one that finds its row.
LEMMA SignInMoves ==
  ASSUME IInv, NEW p \in SignIns, NEW s \in SignInState,
         signIns' = [signIns EXCEPT ![p] = s],
         UNCHANGED <<accounts, rows, requests, stale, overlapped>>,
         signIns[p].at # "done",
         s.at # "idle" => s.account \in accounts,
         signIns[p].at # "idle" => s.account = signIns[p].account,
         p \in sessions \union stale => s.at \in {"created", "done", "failed"}
  PROVE  IInv'
  <1>1. /\ signIns' \in [SignIns -> SignInState]' /\ SignInsKnown' /\ RequestsKnown'
        /\ \A q \in sessions : AccountOf(q)' = AccountOf(q)
        /\ \A r \in Requests : requests[r].at # "idle" => Erased(r)' = Erased(r)
    BY AccountsStay DEF rows
  <1>2. TypeOK'
    BY <1>1 DEF IInv, TypeOK, SignInState, rows, Users, Tenants
  <1>3. Held'
    BY <1>1, HeldStays DEF rows, SessionsOf
  <1>4. Counted'
    BY <1>1 DEF IInv, Counted, IdentityCountsMemberships, NothingLeftOfTheErased, rows, Users,
       MembershipsOf, AccountsOf
  <1> QED BY <1>1, <1>2, <1>3, <1>4 DEF IInv

\* A sign-in that ends or fails changes no row.
LEMMA SignInOnlyKeeps ==
  ASSUME IInv, NEW p \in SignIns, NEW at \in {"created", "done", "failed"}, SignInOnly(p, at),
         signIns[p].at \notin {"idle", "done"}
  PROVE  IInv'
  <1> DEFINE s == [signIns[p] EXCEPT !.at = at]
  <1>1. signIns[p] \in SignInState /\ AccountOf(p) \in accounts
    BY DEF IInv, TypeOK, SignInState, SignInsKnown
  <1>2. s \in SignInState /\ s.at = at /\ s.account = signIns[p].account
    <2>1. at \in SignInPoints
      BY DEF SignInPoints
    <2> QED BY <1>1, <2>1, SignInMoved
  <1>3. signIns' = [signIns EXCEPT ![p] = s] /\ UNCHANGED <<accounts, rows, requests, stale, overlapped>>
    BY DEF SignInOnly, SignInIs
  <1> HIDE DEF s
  <1> QED BY <1>1, <1>2, <1>3, SignInMoves DEF AccountOf

\* The upsert of the user's row counts nothing yet.
LEMMA UpsertUserKeeps ==
  ASSUME IInv, NEW p \in SignIns, NEW a \in accounts, UpsertUser(p, a)
  PROVE  IInv'
  <1> DEFINE s == [at |-> "users", account |-> a]
  <1>1. /\ signIns' = [signIns EXCEPT ![p] = s] /\ signIns[p].at = "idle"
        /\ UNCHANGED <<accounts, rows, requests, stale, overlapped>>
    BY DEF UpsertUser
  <1>2. s \in SignInState /\ s.at = "users" /\ s.account = a
    BY DEF SignInState, SignInPoints
  <1> HIDE DEF s
  <1>3. p \notin sessions \union stale
    BY <1>1 DEF IInv, SignInsKnown
  <1> QED BY <1>1, <1>2, <1>3, SignInMoves

\* The upsert of the membership, with the trigger that counts it.
LEMMA UpsertMembershipKeeps ==
  ASSUME IInv, NEW p \in SignIns, UpsertMembership(p)
  PROVE  IInv'
  <1>0. PICK a \in accounts : a = AccountOf(p)
    BY DEF IInv, SignInsKnown, UpsertMembership
  <1> DEFINE s == [signIns[p] EXCEPT !.at = "member"]
             u == User(a)
  <1>1. signIns[p] \in SignInState /\ signIns[p].at = "users" /\ p \notin sessions \union stale
    BY DEF IInv, TypeOK, SignInState, SignInsKnown, UpsertMembership
  <1>2. s \in SignInState /\ s.at = "member" /\ s.account = a
    BY <1>0, <1>1, SignInMoved DEF SignInPoints, AccountOf
  <1>3. /\ signIns' = [signIns EXCEPT ![p] = s]
        /\ UNCHANGED <<accounts, sessions, credentials, jobs, links, evidence, requests, stale, overlapped>>
    BY DEF UpsertMembership, SignInIs
  <1>4. \/ a \in members /\ UNCHANGED <<members, identity>>
        \/ /\ a \notin members /\ members' = members \union {a}
           /\ identity' = [identity EXCEPT ![u] = IF identity[u] = Gone THEN 1 ELSE identity[u] + 1]
    BY <1>0 DEF UpsertMembership
  <1> HIDE DEF s
  <1>5. /\ signIns' \in [SignIns -> SignInState]' /\ SignInsKnown' /\ RequestsKnown'
        /\ \A q \in sessions : AccountOf(q)' = AccountOf(q)
        /\ \A r \in Requests : requests[r].at # "idle" => Erased(r)' = Erased(r)
    BY <1>0, <1>1, <1>2, <1>3, AccountsStay DEF AccountOf
  <1>6. Held'
    BY <1>3, <1>4, <1>5, HeldStays DEF SessionsOf
  <1>7. CASE a \in members /\ UNCHANGED <<members, identity>>
    BY <1>3, <1>5, <1>6, <1>7 DEF IInv, TypeOK, SignInState, Counted, IdentityCountsMemberships,
       NothingLeftOfTheErased, MembershipsOf, AccountsOf, Users, Tenants
  <1>8. CASE /\ a \notin members /\ members' = members \union {a}
             /\ identity' = [identity EXCEPT ![u] = IF identity[u] = Gone THEN 1 ELSE identity[u] + 1]
    <2>1. u \in Users /\ identity \in [Users -> {Gone} \union (Nat \ {0})] /\ Users' = Users
      BY <1>1, <1>3 DEF IInv, TypeOK, Users
    <2>2. identity' \in [Users -> {Gone} \union (Nat \ {0})]
      BY <1>8, <2>1 DEF Gone
    <2>3. TypeOK'
      BY <1>1, <1>3, <1>5, <1>8, <2>1, <2>2 DEF IInv, TypeOK, SignInState, Tenants
    <2>4. /\ MembershipsOf(u)' = MembershipsOf(u) \union {a} /\ a \notin MembershipsOf(u)
          /\ IsFiniteSet(MembershipsOf(u))
      <3>1. IsFiniteSet(MembershipsOf(u))
        BY MembershipsFinite DEF IInv
      <3> QED BY <1>1, <1>3, <1>8, <3>1 DEF MembershipsOf, AccountsOf
    <2>5. identity'[u] = Cardinality(MembershipsOf(u)') /\ identity'[u] # Gone
      <3>1. identity'[u] = IF identity[u] = Gone THEN 1 ELSE identity[u] + 1
        BY <1>8, <2>1
      <3>2. identity[u] = IF MembershipsOf(u) = {} THEN Gone ELSE Cardinality(MembershipsOf(u))
        BY <2>1 DEF IInv, Counted, IdentityCountsMemberships
      <3> HIDE DEF u
      <3> QED BY <2>4, <3>1, <3>2, OneMore DEF Gone
    <2>6. \A v \in Users : v # u => identity'[v] = identity[v] /\ MembershipsOf(v)' = MembershipsOf(v)
      BY <1>3, <1>8, <2>1 DEF MembershipsOf, AccountsOf
    <2>7. IdentityCountsMemberships'
      <3>1. \A v \in Users : identity[v] = IF MembershipsOf(v) = {} THEN Gone
                                           ELSE Cardinality(MembershipsOf(v))
        BY DEF IInv, Counted, IdentityCountsMemberships
      <3> HIDE DEF u
      <3>2. ASSUME NEW v \in Users
            PROVE  identity'[v] = IF MembershipsOf(v)' = {} THEN Gone
                                  ELSE Cardinality(MembershipsOf(v)')
        <4>1. CASE v = u
          BY <2>4, <2>5, <4>1
        <4>2. CASE v # u
          BY <2>6, <3>1, <4>2
        <4> QED BY <4>1, <4>2
      <3> QED BY <2>1, <3>2 DEF IdentityCountsMemberships
    <2>8. NothingLeftOfTheErased'
      <3> HIDE DEF u
      <3> QED BY <1>3, <1>5, <2>1, <2>5, <2>6 DEF IInv, Counted, NothingLeftOfTheErased, AccountsOf
    <2> QED BY <1>5, <1>6, <2>3, <2>7, <2>8 DEF IInv, Counted
  <1> QED BY <1>4, <1>7, <1>8

\* The session of a sign-in, which an erasure under way will not find.
LEMMA CreateSessionKeeps ==
  ASSUME IInv, NEW p \in SignIns, CreateSession(p)
  PROVE  IInv'
  <1> DEFINE s == [signIns[p] EXCEPT !.at = "created"]
             a == AccountOf(p)
  <1>1. /\ signIns[p] \in SignInState /\ signIns[p].at = "member" /\ a \in accounts
        /\ p \notin sessions \union stale
    BY DEF IInv, TypeOK, SignInState, SignInsKnown, CreateSession
  <1>2. s \in SignInState /\ s.at = "created" /\ s.account = a
    BY <1>1, SignInMoved DEF SignInPoints, AccountOf
  <1>3. /\ signIns' = [signIns EXCEPT ![p] = s] /\ sessions' = sessions \union {p}
        /\ UNCHANGED <<accounts, members, identity, credentials, jobs, links, evidence, requests, stale>>
        /\ identity[User(a)] # Gone
    BY DEF CreateSession, SignInIs
  <1>4. /\ overlapped \subseteq overlapped' /\ overlapped' \subseteq overlapped \union {p}
        /\ Erasing(a, Deleting) => p \in overlapped'
    BY DEF CreateSession, Deleting
  <1> HIDE DEF s
  <1>5. /\ signIns' \in [SignIns -> SignInState]' /\ SignInsKnown' /\ RequestsKnown'
        /\ \A q \in sessions : AccountOf(q)' = AccountOf(q)
        /\ \A q \in SignIns : q # p => AccountOf(q)' = AccountOf(q)
        /\ AccountOf(p)' = a
        /\ \A r \in Requests : requests[r].at # "idle" => Erased(r)' = Erased(r)
    BY <1>1, <1>2, <1>3, AccountsStay DEF AccountOf
  <1>6. TypeOK'
    BY <1>3, <1>4, <1>5 DEF IInv, TypeOK, SignInState, Users, Tenants
  <1>7. Held'
    <2>1. \A r \in Requests : requests[r].at \in Deleting /\ Erased(r) = a => p \in overlapped'
      BY <1>4 DEF Erasing, Erased
    <2>2. \A r \in Requests, q \in sessions' :
            requests[r].at \in Deleting /\ AccountOf(q)' = Erased(r)
              => q \in SessionsOf(Erased(r)) \union overlapped'
      BY <1>3, <1>5, <2>1 DEF SessionsOf
    <2> QED BY <1>1, <1>3, <1>4, <1>5, <2>2, HeldStays
  <1>8. IdentityCountsMemberships'
    BY <1>3 DEF IInv, Counted, IdentityCountsMemberships, Users, MembershipsOf, AccountsOf
  <1>9. NothingLeftOfTheErased'
    <2> HIDE DEF a
    <2> QED BY <1>3, <1>5 DEF IInv, Counted, NothingLeftOfTheErased, Users, AccountsOf
  <1> QED BY <1>5, <1>6, <1>7, <1>8, <1>9 DEF IInv, Counted

\* A session expires, a job ends.
LEMMA EndingsKeep ==
  ASSUME IInv, (\E p \in SignIns : Expire(p)) \/ (\E a \in accounts : EndJob(a))
  PROVE  IInv'
  <1>1. /\ UNCHANGED <<accounts, members, identity, credentials, links, evidence, signIns, requests,
                       stale, overlapped>>
        /\ sessions' \subseteq sessions /\ jobs' \subseteq jobs
    BY DEF Expire, EndJob
  <1>2. TypeOK' /\ SignInsKnown' /\ RequestsKnown'
    BY <1>1 DEF IInv, TypeOK, SignInsKnown, RequestsKnown, AccountOf, Users, Tenants
  <1>3. Held'
    BY <1>1, HeldStays DEF Erased, AccountOf, SessionsOf
  <1>4. Counted'
    BY <1>1 DEF IInv, Counted, IdentityCountsMemberships, NothingLeftOfTheErased, Users,
       MembershipsOf, AccountsOf, AccountOf
  <1> QED BY <1>2, <1>3, <1>4 DEF IInv

\* stageSource links a member to the version it stores.
LEMMA StageKeeps ==
  ASSUME IInv, NEW a \in accounts, Stage(a)
  PROVE  IInv'
  <1>1. /\ UNCHANGED <<accounts, members, identity, sessions, credentials, jobs, signIns, requests,
                       stale, overlapped>>
        /\ a \in members /\ links' = links \union {a} /\ evidence' = evidence \union {Tenant(a)}
    BY DEF Stage
  <1>2. \A r \in Requests : /\ Erased(r)' = Erased(r)
                            /\ requests[r].at \in Deleting => Erased(r) # a
    BY <1>1 DEF Stage, MembershipLocked, Erasing, Deleting, Erased, AccountOf
  <1>3. TypeOK' /\ SignInsKnown' /\ RequestsKnown'
    BY <1>1 DEF IInv, TypeOK, SignInsKnown, RequestsKnown, AccountOf, Users, Tenants
  <1>4. (MembershipsHeld /\ VersionsHeld /\ SharersStay)'
    BY <1>1, <1>2 DEF IInv, Held, MembershipsHeld, VersionsHeld, SharersStay
  <1>5. (SessionsFound /\ StaleOverlapped /\ RequestsBegun)'
    BY <1>1, <1>2 DEF IInv, Held, SessionsFound, StaleOverlapped, RequestsBegun, SessionsOf,
       AccountOf
  <1>6. (LinksAreOfMembers /\ NoOrphanedEvidence)'
    BY <1>1 DEF IInv, Held, LinksAreOfMembers, NoOrphanedEvidence
  <1>7. Counted'
    BY <1>1 DEF IInv, Counted, IdentityCountsMemberships, NothingLeftOfTheErased, Users,
       MembershipsOf, AccountsOf, AccountOf
  <1> QED BY <1>3, <1>4, <1>5, <1>6, <1>7 DEF IInv, Held

-----------------------------------------------------------------------------
(* Steps of requests *)

\* A request moves to where it may be: what it holds is there and not held by
\* another, and what it deletes is what it has found.
LEMMA RequestMoves ==
  ASSUME IInv, NEW r \in Requests, NEW q \in RequestState, NEW a,
         requests' = [requests EXCEPT ![r] = q],
         UNCHANGED <<accounts, members, identity, links, evidence, signIns, stale, overlapped>>,
         sessions' \subseteq sessions, jobs' \subseteq accounts, credentials' \subseteq accounts,
         \A b \in credentials' : b \in credentials \/ identity[User(b)] # Gone,
         a = AccountOf(q.session),
         q.at # "idle" => q.session \in SignIns /\ signIns[q.session].at = "done",
         q.at # "idle" \/ q.late => q.early \/ q.session \in overlapped,
         q.at \in Holding => /\ a \in members
                             /\ \A o \in Requests : o # r /\ requests[o].at \in Holding => Erased(o) # a,
         q.at \in Deleting =>
           /\ \A o \in Requests : /\ o # r /\ requests[o].at \in Deleting
                                  /\ Erased(o) \in links /\ a \in links
                                  => Tenant(Erased(o)) # Tenant(a)
           /\ a \in links /\ ~q.deletes.version => \E b \in links : b # a /\ Tenant(b) = Tenant(a)
           /\ \A p \in SessionsOf(a) : p \in q.deletes.sessions \union overlapped
  PROVE  IInv'
  <1>1. requests \in [Requests -> RequestState]
    BY DEF IInv, TypeOK
  <1>2. /\ requests' \in [Requests -> RequestState] /\ requests'[r] = q
        /\ \A o \in Requests : o # r => requests'[o] = requests[o]
    BY <1>1
  <1>3. Erased(r)' = a /\ \A o \in Requests : o # r => Erased(o)' = Erased(o)
    BY <1>2 DEF Erased, AccountOf
  <1>4. TypeOK'
    BY <1>2 DEF IInv, TypeOK, Users, Tenants
  <1>5. SignInsKnown' /\ RequestsKnown'
    BY <1>2 DEF IInv, SignInsKnown, RequestsKnown, AccountOf
  <1>6. MembershipsHeld'
    BY <1>2, <1>3 DEF IInv, Held, MembershipsHeld
  <1>7. VersionsHeld'
    <2>1. ASSUME NEW o \in Requests, NEW v \in Requests,
                 requests'[o].at \in Deleting, requests'[v].at \in Deleting,
                 Erased(o)' \in links, Erased(v)' \in links, Tenant(Erased(o)') = Tenant(Erased(v)')
          PROVE  o = v
      <3>1. CASE o = r /\ v # r
        BY <1>2, <1>3, <2>1, <3>1
      <3>2. CASE o # r /\ v = r
        BY <1>2, <1>3, <2>1, <3>2
      <3>3. CASE o # r /\ v # r
        BY <1>2, <1>3, <2>1, <3>3 DEF IInv, Held, VersionsHeld
      <3> QED BY <3>1, <3>2, <3>3
    <2> QED BY <2>1 DEF VersionsHeld
  <1>8. SharersStay'
    BY <1>2, <1>3 DEF IInv, Held, SharersStay
  <1>9. SessionsFound'
    <2>1. \A b : SessionsOf(b)' \subseteq SessionsOf(b)
      BY DEF SessionsOf, AccountOf
    <2>2. ASSUME NEW o \in Requests, requests'[o].at \in Deleting,
                 NEW p \in SessionsOf(Erased(o))'
          PROVE  p \in requests'[o].deletes.sessions \union overlapped
      <3>1. CASE o = r
        <4>1. p \in SessionsOf(a)
          BY <1>3, <2>1, <2>2, <3>1 DEF SessionsOf, AccountOf
        <4> QED BY <1>2, <2>2, <3>1, <4>1
      <3>2. CASE o # r
        <4>1. p \in SessionsOf(Erased(o))
          BY <1>3, <2>2, <3>2 DEF SessionsOf, AccountOf
        <4> QED BY <1>2, <2>2, <3>2, <4>1 DEF IInv, Held, SessionsFound
      <3> QED BY <3>1, <3>2
    <2> QED BY <2>2 DEF SessionsFound
  <1>10. RequestsBegun'
    BY <1>2 DEF IInv, Held, RequestsBegun
  <1>11. (StaleOverlapped /\ LinksAreOfMembers /\ NoOrphanedEvidence)'
    BY DEF IInv, Held, StaleOverlapped, LinksAreOfMembers, NoOrphanedEvidence
  <1>12. Counted'
    BY DEF IInv, Counted, IdentityCountsMemberships, NothingLeftOfTheErased, Users,
       MembershipsOf, AccountsOf, AccountOf
  <1> QED BY <1>4, <1>5, <1>6, <1>7, <1>8, <1>9, <1>10, <1>11, <1>12 DEF IInv, Held

\* Requests that end, or hold nothing yet.
LEMMA QuietRequests ==
  ASSUME IInv, NEW r \in Requests,
         \/ \E p \in SignIns : Present(r, p)
         \/ Authenticate(r) \/ Refuse(r) \/ Logout(r) \/ EnqueueJob(r) \/ Connect(r)
         \/ EraseFails(r) \/ RequestOnly(r, Idle)
  PROVE  IInv'
  <1>1. /\ requests[r] \in RequestState /\ signIns \in [SignIns -> SignInState]
        /\ credentials \subseteq accounts /\ jobs \subseteq accounts
    BY DEF IInv, TypeOK, SignInState
  <1>2. Idle \in RequestState /\ Idle.at \notin Holding \union Deleting /\ Idle.at = "idle" /\ ~Idle.late
    BY IdleShape DEF Holding, Deleting
  <1>3. ASSUME requests' = [requests EXCEPT ![r] = Idle],
               UNCHANGED <<accounts, members, identity, links, evidence, signIns, stale, overlapped>>,
               sessions' \subseteq sessions, jobs' \subseteq accounts, credentials' \subseteq accounts,
               \A b \in credentials' : b \in credentials \/ identity[User(b)] # Gone
        PROVE  IInv'
    BY <1>2, <1>3, RequestMoves
  <1>4. CASE RequestOnly(r, Idle) \/ Refuse(r) \/ EraseFails(r)
    BY <1>1, <1>3, <1>4 DEF RequestOnly, RequestIs, rows, Refuse, EraseFails
  <1>5. CASE Logout(r)
    BY <1>1, <1>3, <1>5 DEF Logout, RequestIs
  <1>6. CASE EnqueueJob(r) \/ Connect(r)
    <2>1. requests[r].at # "idle" /\ AccountOf(requests[r].session) \in accounts
      BY <1>6 DEF IInv, RequestsKnown, SignInsKnown, EnqueueJob, Connect
    <2> QED BY <1>1, <1>3, <1>6, <2>1 DEF EnqueueJob, Connect, CredentialFree, RequestIs
  <1>7. CASE Authenticate(r)
    <2> DEFINE late == requests[r].session \in stale
               q == [requests[r] EXCEPT !.at = "ready", !.late = late]
    <2>1. /\ q \in RequestState /\ q.at = "ready" /\ q.session = requests[r].session
          /\ q.early = requests[r].early
      <3>1. late \in BOOLEAN
        OBVIOUS
      <3> HIDE DEF late
      <3> QED BY <1>1, <3>1, Authenticated
    <2>2. /\ requests[r].at # "idle"
          /\ requests' = [requests EXCEPT ![r] = q] \/ requests' = [requests EXCEPT ![r] = Idle]
          /\ UNCHANGED <<accounts, rows, signIns, stale, overlapped>>
      BY <1>7 DEF Authenticate, RequestOnly, RequestIs
    <2> HIDE DEF q
    <2>3. /\ q.session \in SignIns /\ signIns[q.session].at = "done"
          /\ q.early \/ q.session \in overlapped
          /\ q.at \notin Holding \union Deleting
      BY <2>1, <2>2 DEF IInv, RequestsKnown, Held, RequestsBegun, Holding, Deleting
    <2>4. CASE requests' = [requests EXCEPT ![r] = q]
      BY <1>1, <2>1, <2>2, <2>3, <2>4, RequestMoves DEF rows
    <2>5. CASE requests' = [requests EXCEPT ![r] = Idle]
      BY <1>1, <1>3, <2>2, <2>5 DEF rows
    <2> QED BY <2>2, <2>4, <2>5
  <1>8. ASSUME NEW p \in SignIns, Present(r, p)
        PROVE  IInv'
    <2> DEFINE early == p \notin stale
               q == [Idle EXCEPT !.at = "session", !.session = p, !.early = early]
    <2>1. early \in BOOLEAN /\ (early \/ p \in overlapped)
      BY <1>8 DEF Present, IInv, Held, StaleOverlapped
    <2>2. /\ requests' = [requests EXCEPT ![r] = q] /\ signIns[p].at = "done"
          /\ UNCHANGED <<accounts, rows, signIns, stale, overlapped>>
      BY <1>8 DEF Present, RequestOnly, RequestIs
    <2> HIDE DEF early
    <2>3. q \in RequestState /\ q.at = "session" /\ q.session = p /\ q.early = early
      BY <2>1, Presented
    <2> HIDE DEF q
    <2>4. q.at \notin Holding \union Deleting
      BY <2>3 DEF Holding, Deleting
    <2> QED BY <1>1, <2>1, <2>2, <2>3, <2>4, RequestMoves DEF rows
  <1> QED BY <1>4, <1>5, <1>6, <1>7, <1>8

\* An erasure before its commit.
LEMMA ErasureSteps ==
  ASSUME IInv, NEW r \in Requests, LockMembership(r) \/ Purge(r) \/ DeleteMembership(r)
  PROVE  IInv'
  <1> DEFINE a == Erased(r)
  <1>1. /\ requests[r] \in RequestState /\ credentials \subseteq accounts /\ jobs \subseteq accounts
        /\ requests[r].at # "idle" /\ requests[r].session \in SignIns
        /\ signIns[requests[r].session].at = "done" /\ a = AccountOf(requests[r].session)
        /\ requests[r].early \/ requests[r].session \in overlapped
    BY DEF IInv, TypeOK, RequestsKnown, Held, RequestsBegun, LockMembership, Purge,
       DeleteMembership, Erased
  <1>2. CASE LockMembership(r)
    <2> DEFINE q == [requests[r] EXCEPT !.at = "locked"]
    <2>1. /\ q \in RequestState /\ q.at = "locked" /\ q.session = requests[r].session
          /\ q.early = requests[r].early
      BY <1>1, RequestMoved DEF Points
    <2>2. \/ RequestOnly(r, Idle)
          \/ /\ a \in members /\ requests' = [requests EXCEPT ![r] = q]
             /\ UNCHANGED <<accounts, rows, signIns, stale, overlapped>>
      BY <1>2 DEF LockMembership, RequestOnly, RequestIs
    <2> HIDE DEF q
    <2>3. \A o \in Requests : requests[o].at \in Holding => Erased(o) # a
      BY <1>2 DEF LockMembership, MembershipLocked, Erasing, Holding, Erased
    <2>4. CASE RequestOnly(r, Idle)
      BY <2>4, QuietRequests
    <2>5. CASE /\ a \in members /\ requests' = [requests EXCEPT ![r] = q]
               /\ UNCHANGED <<accounts, rows, signIns, stale, overlapped>>
      <3>1. q.at \notin Deleting
        BY <2>1 DEF Deleting
      <3> HIDE DEF a
      <3> QED BY <1>1, <2>1, <2>3, <2>5, <3>1, RequestMoves DEF rows
    <2> QED BY <2>2, <2>4, <2>5
  <1>3. CASE Purge(r)
    <2> DEFINE found == Found(a)
               q == [requests[r] EXCEPT !.at = "purged", !.deletes = found]
    <2>1. /\ found \in Deletes /\ found.sessions = SessionsOf(a)
          /\ found.version <=> a \in links /\ \A b \in links : Tenant(b) = Tenant(a) => b = a
      <3> DEFINE version == a \in links /\ \A b \in links : Tenant(b) = Tenant(a) => b = a
                 credential == a \in credentials
      <3>1. /\ version \in BOOLEAN /\ credential \in BOOLEAN /\ SessionsOf(a) \in SUBSET SignIns
            /\ found = [sessions |-> SessionsOf(a), credential |-> credential, version |-> version]
        BY DEF Found, SessionsOf, IInv, TypeOK
      <3> HIDE DEF version, credential, found
      <3>2. found \in Deletes /\ found.sessions = SessionsOf(a) /\ found.version = version
        BY <3>1 DEF Deletes
      <3> QED BY <3>2 DEF version
    <2>2. /\ requests' = [requests EXCEPT ![r] = q] /\ requests[r].at = "locked"
          /\ UNCHANGED <<accounts, rows, signIns, stale, overlapped>>
      BY <1>3 DEF Purge, RequestOnly, RequestIs
    <2> HIDE DEF found
    <2>3. /\ q \in RequestState /\ q.at = "purged" /\ q.session = requests[r].session
          /\ q.early = requests[r].early /\ q.deletes = found
      BY <1>1, <2>1, Purged
    <2> HIDE DEF q
    <2>4. /\ a \in members
          /\ \A o \in Requests : o # r /\ requests[o].at \in Holding => Erased(o) # a
      BY <2>2 DEF IInv, Held, MembershipsHeld, Holding
    <2>5. \A o \in Requests : /\ requests[o].at \in Deleting
                              /\ Erased(o) \in links /\ a \in links
                              => Tenant(Erased(o)) # Tenant(a)
      BY <1>3 DEF Purge, VersionLocked, Erasing, Deleting, Erased
    <2>6. /\ a \in links /\ ~q.deletes.version => \E b \in links : b # a /\ Tenant(b) = Tenant(a)
          /\ \A p \in SessionsOf(a) : p \in q.deletes.sessions \union overlapped
      BY <2>1, <2>3
    <2> HIDE DEF a
    <2> QED BY <1>1, <2>2, <2>3, <2>4, <2>5, <2>6, RequestMoves DEF rows
  <1>4. CASE DeleteMembership(r)
    <2> DEFINE q == [requests[r] EXCEPT !.at = "deleting"]
    <2>1. /\ q \in RequestState /\ q.at = "deleting" /\ q.session = requests[r].session
          /\ q.early = requests[r].early /\ q.deletes = requests[r].deletes
      BY <1>1, RequestMoved DEF Points
    <2>2. /\ requests' = [requests EXCEPT ![r] = q] /\ requests[r].at = "purged"
          /\ UNCHANGED <<accounts, rows, signIns, stale, overlapped>>
      BY <1>4 DEF DeleteMembership, RequestOnly, RequestIs
    <2> HIDE DEF q
    <2>3. requests[r].at \in Holding /\ requests[r].at \in Deleting
      BY <2>2 DEF Holding, Deleting
    <2>4. /\ a \in members
          /\ \A o \in Requests : o # r /\ requests[o].at \in Holding => Erased(o) # a
      BY <2>3 DEF IInv, Held, MembershipsHeld
    <2>5. \A o \in Requests : /\ o # r /\ requests[o].at \in Deleting
                              /\ Erased(o) \in links /\ a \in links
                              => Tenant(Erased(o)) # Tenant(a)
      BY <2>3 DEF IInv, Held, VersionsHeld
    <2>6. a \in links /\ ~q.deletes.version => \E b \in links : b # a /\ Tenant(b) = Tenant(a)
      BY <2>1, <2>3 DEF IInv, Held, SharersStay
    <2>7. \A p \in SessionsOf(a) : p \in q.deletes.sessions \union overlapped
      BY <2>1, <2>3 DEF IInv, Held, SessionsFound
    <2> HIDE DEF a
    <2> QED BY <1>1, <2>1, <2>2, <2>4, <2>5, <2>6, <2>7, RequestMoves DEF rows
  <1> QED BY <1>2, <1>3, <1>4

\* The erasure commits: the row of the user goes with the last membership and
\* takes with it what refers to it.
LEMMA CommitKeeps ==
  ASSUME IInv, NEW r \in Requests, CommitErasure(r)
  PROVE  IInv'
  <1>1. /\ requests[r].at = "deleting" /\ requests[r].at \in Holding /\ requests[r].at \in Deleting
        /\ Erased(r) \in members /\ members \subseteq accounts
    BY DEF CommitErasure, EndMembership, Holding, Deleting, IInv, Held, MembershipsHeld, TypeOK
  <1>2. PICK a \in accounts : a = Erased(r)
    BY <1>1
  <1> DEFINE u == User(a)
  <1>3. /\ members' = members \ {a} /\ links' = links \ {a} /\ jobs' \subseteq jobs
        /\ identity' = [identity EXCEPT ![u] = Uncounted(identity[u])]
        /\ evidence' = IF requests[r].deletes.version THEN evidence \ {Tenant(a)} ELSE evidence
        /\ requests' = [requests EXCEPT ![r] = Idle]
        /\ UNCHANGED <<accounts, signIns, overlapped>>
    BY <1>2 DEF CommitErasure, EndMembership, RequestIs
  <1>4. /\ sessions' \subseteq sessions \ requests[r].deletes.sessions
        /\ credentials' \subseteq credentials
        /\ stale' = stale \union {p \in SignIns : signIns[p].at \in {"created", "done"} /\ AccountOf(p) = a}
        /\ identity[u] = 1 => /\ \A p \in sessions' : AccountOf(p) \notin AccountsOf(u)
                              /\ \A b \in credentials' : b \notin AccountsOf(u)
    BY <1>2 DEF CommitErasure, EndMembership, Cascade, CredentialsLeft
  <1>5. /\ requests \in [Requests -> RequestState] /\ requests' \in [Requests -> RequestState]
        /\ requests'[r] = Idle /\ \A o \in Requests : o # r => requests'[o] = requests[o]
    BY <1>3, IdleShape DEF IInv, TypeOK
  <1>6. Idle.at = "idle" /\ ~Idle.late /\ Idle.at \notin Holding \union Deleting
    BY IdleShape DEF Holding, Deleting
  <1>7. \A o \in Requests : o # r => Erased(o)' = Erased(o)
    BY <1>3, <1>5 DEF Erased, AccountOf
  <1>8. /\ u \in Users /\ identity \in [Users -> {Gone} \union (Nat \ {0})] /\ Users' = Users
        /\ a \in MembershipsOf(u) /\ MembershipsOf(u)' = MembershipsOf(u) \ {a}
        /\ \A v \in Users : v # u => /\ identity'[v] = identity[v]
                                     /\ MembershipsOf(v)' = MembershipsOf(v)
        /\ identity'[u] = Uncounted(identity[u])
    BY <1>1, <1>2, <1>3 DEF IInv, TypeOK, Users, MembershipsOf, AccountsOf
  <1>9. /\ identity[u] = Cardinality(MembershipsOf(u)) /\ IsFiniteSet(MembershipsOf(u))
    <2>1. IsFiniteSet(MembershipsOf(u))
      BY MembershipsFinite DEF IInv
    <2> QED BY <1>8, <2>1 DEF IInv, Counted, IdentityCountsMemberships
  <1> HIDE DEF u
  <1>10. /\ identity[u] \in Nat \ {0}
         /\ identity'[u] = IF MembershipsOf(u)' = {} THEN Gone ELSE Cardinality(MembershipsOf(u)')
         /\ identity'[u] \in {Gone} \union (Nat \ {0})
         /\ identity'[u] = Gone => identity[u] = 1
    BY <1>8, <1>9, OneLess DEF Uncounted, Gone
  <1>11. TypeOK'
    <2>1. identity' \in [Users -> {Gone} \union (Nat \ {0})]
      BY <1>3, <1>8, <1>10
    <2>2. /\ stale' \subseteq SignIns /\ evidence' \subseteq Tenants /\ Tenants' = Tenants
      BY <1>3, <1>4 DEF IInv, TypeOK, SessionsOf, Tenants
    <2> QED BY <1>3, <1>4, <1>5, <1>8, <2>1, <2>2 DEF IInv, TypeOK
  <1>12. SignInsKnown' /\ RequestsKnown'
    BY <1>3, <1>4, <1>5, <1>6 DEF IInv, SignInsKnown, RequestsKnown, AccountOf
  <1>13. (MembershipsHeld /\ VersionsHeld)'
    <2>1. MembershipsHeld'
      BY <1>1, <1>2, <1>3, <1>5, <1>6, <1>7 DEF IInv, Held, MembershipsHeld
    <2>2. VersionsHeld'
      BY <1>3, <1>5, <1>6, <1>7 DEF IInv, Held, VersionsHeld
    <2> QED BY <2>1, <2>2
  <1>14. SharersStay'
    <2> SUFFICES ASSUME NEW o \in Requests, requests'[o].at \in Deleting, Erased(o)' \in links',
                        ~requests'[o].deletes.version
                 PROVE  \E b \in links' : b # Erased(o)' /\ Tenant(b) = Tenant(Erased(o)')
      BY DEF SharersStay
    <2>1. /\ o # r /\ requests[o].at \in Deleting /\ Erased(o)' = Erased(o) /\ Erased(o) \in links
          /\ ~requests[o].deletes.version
      BY <1>3, <1>5, <1>6, <1>7
    <2>2. PICK b \in links : b # Erased(o) /\ Tenant(b) = Tenant(Erased(o))
      BY <2>1 DEF IInv, Held, SharersStay
    <2>3. b # a
      BY <1>1, <1>2, <2>1, <2>2 DEF IInv, Held, VersionsHeld
    <2> QED BY <1>3, <2>1, <2>2, <2>3
  <1>15. SessionsFound' /\ StaleOverlapped'
    <2>1. SessionsFound'
      <3>1. ASSUME NEW o \in Requests, requests'[o].at \in Deleting, NEW p \in SessionsOf(Erased(o))'
            PROVE  p \in requests'[o].deletes.sessions \union overlapped'
        <4>1. o # r /\ requests[o].at \in Deleting /\ requests'[o] = requests[o]
          BY <1>5, <1>6, <3>1
        <4>2. p \in SessionsOf(Erased(o))
          BY <1>3, <1>4, <1>7, <3>1, <4>1 DEF SessionsOf, AccountOf
        <4> QED BY <1>3, <4>1, <4>2 DEF IInv, Held, SessionsFound
      <3> QED BY <3>1 DEF SessionsFound
    <2>2. \A p \in SessionsOf(a) : p \in requests[r].deletes.sessions \union overlapped
      BY <1>1, <1>2 DEF IInv, Held, SessionsFound
    <2>3. \A p \in stale' \intersect sessions' : p \in overlapped
      BY <1>4, <2>2 DEF IInv, Held, StaleOverlapped, SessionsOf
    <2> QED BY <1>3, <2>1, <2>3 DEF StaleOverlapped
  <1>16. NoOrphanedEvidence'
    <2> SUFFICES ASSUME NEW t \in evidence' PROVE \E b \in links' : Tenant(b) = t
      BY DEF NoOrphanedEvidence
    <2>1. PICK b \in links : Tenant(b) = t
      BY <1>3 DEF IInv, Held, NoOrphanedEvidence
    <2>2. CASE b # a
      BY <1>3, <2>1, <2>2
    <2>3. CASE b = a
      <3>1. ~requests[r].deletes.version
        BY <1>3, <2>1, <2>3
      <3>2. \E c \in links : c # a /\ Tenant(c) = t
        BY <1>1, <1>2, <2>1, <2>3, <3>1 DEF IInv, Held, SharersStay
      <3> QED BY <1>3, <3>2
    <2> QED BY <2>2, <2>3
  <1>17. (LinksAreOfMembers /\ RequestsBegun)'
    BY <1>3, <1>5, <1>6 DEF IInv, Held, LinksAreOfMembers, RequestsBegun
  <1>18. IdentityCountsMemberships'
    <2>1. ASSUME NEW v \in Users
          PROVE  identity'[v] = IF MembershipsOf(v)' = {} THEN Gone ELSE Cardinality(MembershipsOf(v)')
      <3>1. CASE v = u
        BY <1>10, <3>1
      <3>2. CASE v # u
        BY <1>8, <3>2 DEF IInv, Counted, IdentityCountsMemberships
      <3> QED BY <3>1, <3>2
    <2> QED BY <1>8, <2>1 DEF IdentityCountsMemberships
  <1>19. NothingLeftOfTheErased'
    <2> SUFFICES ASSUME NEW v \in Users, identity'[v] = Gone
                 PROVE  /\ \A b \in credentials' : User(b) # v
                        /\ \A p \in sessions' : AccountOf(p)' \notin AccountsOf(v)'
      BY <1>8 DEF NothingLeftOfTheErased
    <2>1. AccountsOf(v)' = AccountsOf(v) /\ \A p : AccountOf(p)' = AccountOf(p)
      BY <1>3 DEF AccountsOf, AccountOf
    <2>2. CASE v = u
      BY <1>4, <1>10, <2>1, <2>2 DEF IInv, TypeOK, AccountsOf
    <2>3. CASE v # u
      BY <1>4, <1>8, <2>1, <2>3 DEF IInv, Counted, NothingLeftOfTheErased
    <2> QED BY <2>2, <2>3
  <1> QED BY <1>11, <1>12, <1>13, <1>14, <1>15, <1>16, <1>17, <1>18, <1>19 DEF IInv, Held, Counted

-----------------------------------------------------------------------------
(* The invariant holds always *)

\* The invariant holds initially,
LEMMA InitIInv == Init => IInv
  <1> SUFFICES ASSUME Init PROVE IInv
    OBVIOUS
  <1>1. /\ members = accounts /\ credentials = {} /\ jobs = {} /\ links = {} /\ evidence = {}
        /\ stale = {} /\ overlapped = {} /\ accounts \in Worlds
        /\ sessions = {p \in SignIns : signIns[p].at = "done"}
        /\ requests = [r \in Requests |-> Idle]
        /\ identity = [u \in Users |-> Cardinality(AccountsOf(u))]
    BY DEF Init
  <1>2. /\ signIns \in [SignIns -> SignInState]
        /\ \A p \in SignIns : \/ signIns[p].at = "idle"
                              \/ signIns[p].at = "done" /\ AccountOf(p) \in accounts
    BY DEF Init, SignInState, SignInPoints, AccountOf
  <1>3. /\ requests \in [Requests -> RequestState]
        /\ \A r \in Requests : requests[r].at = "idle" /\ ~requests[r].late
    BY <1>1, IdleShape
  <1>4. IsFiniteSet(accounts)
    BY <1>1, AccountsAssumptions
  <1>5. ASSUME NEW u \in Users
        PROVE  /\ MembershipsOf(u) = AccountsOf(u) /\ MembershipsOf(u) # {}
               /\ identity[u] = Cardinality(AccountsOf(u)) /\ identity[u] \in Nat \ {0}
    <2>1. PICK a \in accounts : u = User(a)
      BY DEF Users
    <2>2. a \in AccountsOf(u) /\ MembershipsOf(u) = AccountsOf(u)
      BY <1>1, <2>1 DEF AccountsOf, MembershipsOf
    <2>3. IsFiniteSet(AccountsOf(u))
      BY <1>4, FS_Subset DEF AccountsOf
    <2>4. identity[u] = Cardinality(AccountsOf(u))
      BY <1>1
    <2>5. Cardinality(AccountsOf(u)) \in Nat \ {0}
      BY <2>2, <2>3, OneLess
    <2> QED BY <2>2, <2>4, <2>5
  <1>6. identity \in [Users -> {Gone} \union (Nat \ {0})]
    BY <1>1, <1>5
  <1>7. TypeOK
    BY <1>1, <1>2, <1>3, <1>6 DEF TypeOK, SignInState
  <1>8. SignInsKnown /\ RequestsKnown
    BY <1>1, <1>2, <1>3 DEF SignInsKnown, RequestsKnown
  <1>9. Held
    BY <1>1, <1>3 DEF Held, MembershipsHeld, VersionsHeld, SharersStay, SessionsFound, StaleOverlapped,
       LinksAreOfMembers, NoOrphanedEvidence, RequestsBegun, Holding, Deleting
  <1>10. Counted
    <2>1. \A u \in Users : identity[u] # Gone
      BY <1>5 DEF Gone
    <2> QED BY <1>5, <2>1 DEF Counted, IdentityCountsMemberships, NothingLeftOfTheErased
  <1> QED BY <1>7, <1>8, <1>9, <1>10 DEF IInv

\* every step keeps it,
LEMMA NextIInv == IInv /\ [Next]_vars => IInv'
  <1> SUFFICES ASSUME IInv, [Next]_vars PROVE IInv'
    OBVIOUS
  <1>1. ASSUME NEW p \in SignIns, SignIn(p)
        PROVE  IInv'
    <2>1. CASE CreateSessionFails(p) \/ LoadSession(p)
      BY <2>1, SignInOnlyKeeps DEF CreateSessionFails, LoadSession
    <2>2. CASE Expire(p)
      BY <2>2, EndingsKeep
    <2> QED BY <1>1, <2>1, <2>2, UpsertUserKeeps, UpsertMembershipKeeps, CreateSessionKeeps DEF SignIn
  <1>2. ASSUME NEW r \in Requests, Request(r)
        PROVE  IInv'
    <2>1. ASSUME NEW p \in SignIns, Deadlock(r, p)
          PROVE  IInv'
      BY <2>1, QuietRequests, SignInOnlyKeeps DEF Deadlock
    <2> QED BY <1>2, <2>1, QuietRequests, ErasureSteps, CommitKeeps DEF Request
  <1>3. ASSUME NEW a \in accounts, Stage(a) \/ EndJob(a)
        PROVE  IInv'
    BY <1>3, StageKeeps, EndingsKeep
  <1>4. CASE UNCHANGED vars
    <2>1. /\ UNCHANGED <<accounts, members, identity, sessions, credentials, jobs, links, evidence,
                         signIns, requests, stale, overlapped>>
      BY <1>4 DEF vars, rows
    <2>2. TypeOK' /\ SignInsKnown' /\ RequestsKnown'
      BY <2>1 DEF IInv, TypeOK, SignInsKnown, RequestsKnown, AccountOf, Users, Tenants
    <2>3. Held'
      BY <2>1, HeldStays DEF Erased, AccountOf, SessionsOf
    <2>4. Counted'
      BY <2>1 DEF IInv, Counted, IdentityCountsMemberships, NothingLeftOfTheErased, Users,
         MembershipsOf, AccountsOf, AccountOf
    <2> QED BY <2>2, <2>3, <2>4 DEF IInv
  <1> QED BY <1>1, <1>2, <1>3, <1>4 DEF Next

\* and so it always holds.
LEMMA AlwaysIInv == Spec => []IInv
  BY InitIInv, NextIInv, PTL DEF Spec

-----------------------------------------------------------------------------

\* The state keeps its types.
THEOREM AccountTypes == Spec => []TypeOK
  <1>1. IInv => TypeOK
    BY DEF IInv
  <1> QED BY <1>1, AlwaysIInv, PTL

\* However many sign-ins and erasures of a user interleave, the trigger's count
\* is the number of memberships and the row goes with the last of them.
THEOREM UsersRowCountsMemberships == Spec => []IdentityCountsMemberships
  <1>1. IInv => IdentityCountsMemberships
    BY DEF IInv, Counted
  <1> QED BY <1>1, AlwaysIInv, PTL

\* Of a user without a membership no session and no credential is left,
\* whatever was stored while the erasures ran (the cascade of users).
THEOREM ErasureLeavesNothing == Spec => []NothingLeftOfTheErased
  <1>1. IInv => NothingLeftOfTheErased
    BY DEF IInv, Counted
  <1> QED BY <1>1, AlwaysIInv, PTL

\* No contribution outlives its membership, nor is one made for an account
\* that is gone (the check in stageSource, eraseAccount's deletes).
THEOREM ContributorsAreMembers == Spec => []LinksAreOfMembers
  <1>1. IInv => LinksAreOfMembers
    BY DEF IInv, Held
  <1> QED BY <1>1, AlwaysIInv, PTL

\* Whichever contributors are erased at once, no private version is left
\* without a contributor (eraseAccount's `for update of sv`).
THEOREM EvidenceHasContributors == Spec => []NoOrphanedEvidence
  <1>1. IInv => NoOrphanedEvidence
    BY DEF IInv, Held
  <1> QED BY <1>1, AlwaysIInv, PTL

\* However requests, sign-ins and erasures interleave, of the sessions from
\* before an erasure only one created while the account was being erased
\* authenticates a request that begins after it.  A request between the two
\* reads of authenticateSession when the erasure commits is excepted: its
\* token may be let through for the account of a later sign-in.
THEOREM TokensDieWithAccount == Spec => []TokensEndWithAccount
  <1>1. IInv => TokensEndWithAccount
    BY DEF IInv, Held, RequestsBegun, TokensEndWithAccount
  <1> QED BY <1>1, AlwaysIInv, PTL

=============================================================================
