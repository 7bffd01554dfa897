SPECIFICATION JmapSpec
CONSTANTS
  Service <- MCService
  Endpoint <- MCEndpoint
  Normal <- MCNormal
  Host <- MCHost
  Label <- MCLabel
  Username <- MCUsername
  AuthMethod <- MCAuthMethod
  Password = "password"
  Bearer = "bearer"
  Issuer <- MCIssuer
  Source <- MCSource
  Batch <- MCBatch
  Finds <- MCFinds
  Provider <- MCProvider
  NoProvider = "none"
  ProviderConfigs <- MCProviderConfigs
  SchemeLists <- MCSchemeLists
  GrantLists <- MCGrantLists
INVARIANT
  IrrelevantNeverStarted
