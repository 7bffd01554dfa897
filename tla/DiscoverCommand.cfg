SPECIFICATION Spec
CONSTANTS
  NoText = "no text"
  Url = {"one", "two"}
  Metadata = {"oauth", "openid", "resource"}
  GoogleDomains = {"gmail.com"}
  MicrosoftDomains = {"outlook.com"}
  GoogleExchanges = {"aspmx.l.google.com"}
  MicrosoftExchanges = {"x.mail.protection.outlook.com"}
  Text <- MCText
  Input <- MCInput
  Parts <- MCParts
  NameOrder <- MCNameOrder
  Worlds <- MCWorlds
INVARIANTS
  CommandTypeOK
  WholeDocuments
  ProviderOfBestMx
PROPERTIES
  ImplementsFirstHit
CHECK_DEADLOCK FALSE
