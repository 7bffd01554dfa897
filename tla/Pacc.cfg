SPECIFICATION Spec
CONSTANTS
  Domain = {"good.x", "odd.x", "..", "long.x"}
  NoDomain = "none"
  Resolver = "resolver"
  BadUrl = {".."}
  BadName = {"long.x"}
  NoBody = "no body"
  MaxCalls = 3
  Body <- MCBody
  Json <- MCJson
  Value <- MCValue
  Site <- MCSite
  Zone <- MCZone
INVARIANTS
  PaccTypeOK
  VouchedFor
  PublishedIsFound
