SPECIFICATION FairSpec
CONSTANTS
  BLOCK_SIGNERS_START = 2
  BLOCK_SIGNERS_MIN = 1
  Threads = 1
  OriginIsEmpty = TRUE
  FirstHeights = {0, 2}
  NoJob = NoJob
  MaxFull = 1
  MaxSigning = 1
  MaxTip = 1
INVARIANTS
  TypeOK
  IdleIsShown
  MiningMeansWorking
PROPERTIES
  StoppedThreadsEnd
  AddsFinish
CHECK_DEADLOCK FALSE
