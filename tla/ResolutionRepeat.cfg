SPECIFICATION Spec
CONSTANTS
  p = p  b = b  c = c
  Versions = {p, b, c}
  Claims <- AllClaims
  NoVersion = NoVersion
  NoClaim = NoClaim
  VersionOf <- VersionsOf
  FieldOf <- FieldsOf
  TimeOf <- TimesOf
  ScoreOf <- ScoresOf
  OrphanScoreOf <- OrphansOf
  Past = {"pDeadline"}
  EventOf <- EventsOf
  Private = {p}
  Patches <- Reviews
  Dates = {}
  Null = Null
  Resolvers = {r1}
  Backends = {"sqlite"}
  Failing = FALSE
  MaxTries = 2
  MaxOverrides = 1
INVARIANTS NoVersionLost
CHECK_DEADLOCK FALSE
