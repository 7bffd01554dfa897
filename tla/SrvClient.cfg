SPECIFICATION FairSpec
CONSTANTS
  Domain = {"a.x", "b.x", "long.x"}
  NoDomain = "none"
  MaxCalls = 3
  Malformed <- MCMalformed
  Record <- MCRecord
  Answers <- MCAnswers
INVARIANTS
  SrvTypeOK
  OnTimeAnswersAreOwn
  InStep
  SlotsAreBest
PROPERTIES
  ClosedForGood
  Termination
