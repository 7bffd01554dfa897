SPECIFICATION FairSpec
CONSTANTS
  MaxHops = 5
  Url <- MCUrl
  Origin = {"a", "b", "c", "bad"}
  OriginOf <- MCOriginOf
  WellKnown <- MCWellKnown
  Unparsable = {"bad"}
  Domain = "a"
  Schemes = {"none", "basic", "bearer"}
  Worlds <- MCWorlds
INVARIANTS
  WalkTypeOK
  FollowsRedirects
  OutcomeIsTerminal
PROPERTIES
  Termination
