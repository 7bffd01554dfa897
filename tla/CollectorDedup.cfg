SPECIFICATION MCSpec
CONSTANTS
  Service <- MCService
  Endpoint <- MCEndpoint
  Normal <- MCNormal
  Host <- MCHost
  Label <- MCLabel
  Username <- MCUsername
  AuthMethod <- MCAuthMethod
  Password = "password"
  Bearer = "bearer"
  Issuer <- MCIssuer
  Source <- MCSource
  Batch <- MCBatch
  MaxTaken = 3
INVARIANT
  OneDeduplicatedList
