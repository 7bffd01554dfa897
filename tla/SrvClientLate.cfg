SPECIFICATION Spec
CONSTANTS
  Domain = {"a.x", "b.x", "long.x"}
  NoDomain = "none"
  MaxCalls = 2
  Malformed <- MCMalformed
  Record <- MCRecord
  Answers <- MCAnswers
INVARIANT
  RunsOnDomain
