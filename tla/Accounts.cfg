SPECIFICATION Spec
CONSTANTS
  People = {ann, bob}
  Places = {uni, club}
  Nobody = Nobody
  Worlds <- SmallWorlds
  SignIns = {p1, p2, p3}
  Requests = {r1, r2}
INVARIANTS TypeOK IdentityCountsMemberships LinksAreOfMembers NoOrphanedEvidence TokensEndWithAccount NothingLeftOfTheErased
SYMMETRY Interchangeable
CHECK_DEADLOCK FALSE
