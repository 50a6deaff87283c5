CONSTANTS
  B <- MCB
  L <- MCL
  W <- MCW
  ReadSize <- MCReadSize
  MaxChunk <- MCMaxChunk
  MaxLen <- MCMaxLen
  Messages <- MCMessages
  Asked <- MCAsked
  IntBits <- MCIntBits
  Unit <- MCUnit
SPECIFICATION MCSpec
INVARIANTS
  ContextHoldsMessage
  WholeFileDigested
  Base64Inverts
  FieldsAreWords
  StatIsTasks
  CmdlineReadable
  TextsTakenApart
  RecordsFound
  KindsTold
PROPERTIES
  ImplementsHash
CHECK_DEADLOCK FALSE
