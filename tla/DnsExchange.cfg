SPECIFICATION FairSpec
CONSTANTS
  Base = 2
  MaxRead = 3
  MaxStream = 6
  Queries <- MCQueries
  Streams <- MCStreams
INVARIANTS
  ExchangeTypeOK
  AnswerIsFirstMessage
  NeverWaitsInVain
  EofIsDeserved
PROPERTIES
  Termination
