SPECIFICATION FairSpec
CONSTANTS
  BLOCK_SIGNERS_START = 2
  BLOCK_SIGNERS_MIN = 1
  Threads = 1
  OriginIsEmpty = TRUE
  FirstHeights = {0}
  NoJob = NoJob
  MaxFull = 0
  MaxSigning = 0
  MaxTip = 1
PROPERTIES
  GenesisIsQueued
CHECK_DEADLOCK FALSE
