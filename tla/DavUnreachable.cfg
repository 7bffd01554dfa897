SPECIFICATION Spec
CONSTANTS
  Drivers = {"std"}
  Domain = "a.x"
  Hosts = {"h1", "h2", "h!"}
  Unparsable = {"h!"}
  Ports = {80, 443}
  Paths = {"/", "/dav"}
  MaxCalls = 1
  Worlds <- MCWorlds
INVARIANT ResolverFailureIsNotFatal
