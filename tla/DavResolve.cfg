SPECIFICATION Spec
CONSTANTS
  Drivers = {"compose", "std"}
  Domain = "a.x"
  Hosts = {"h1", "h2", "h!"}
  Unparsable = {"h!"}
  Ports = {80, 443}
  Paths = {"/", "/dav"}
  MaxCalls = 2
  Worlds <- MCWorlds
INVARIANTS
  DavTypeOK
  RootIsPublished
  AsksWhatItNeeds
  FailedSrvIsSurvived
  StaleMeansDomain
