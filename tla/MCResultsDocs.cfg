CONSTANTS
  B <- MCB
  L <- MCL
  W <- MCW
  ReadSize <- MCReadSize
  MaxChunk <- MCMaxChunk
  MaxLen <- MCMaxLen
  Messages <- MCMessages
  Asked <- MCAsked
  IntBits <- MCIntBits
  Unit <- MCUnit
SPECIFICATION MCSpec
INVARIANTS
  SlashesGiveNull
  LocalMeansLocal
  IdsBare
  GoneProcessFails
  CpuTimeTold
  FileTypesTold
CHECK_DEADLOCK FALSE
