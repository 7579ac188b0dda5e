SPECIFICATION FairSpec
CONSTANTS
  Workers = {w1, w2}
  Master = master
  nBatchSize = 2
  MaxAdd = 3
  MaxChecks = 4
  MaxBlocks = 2
  MaxInterrupts = 1
INVARIANTS NoCheckOutlivesWait WaitIsRight TodoIsExact QueueUnused
PROPERTY WaitReturns
CHECK_DEADLOCK FALSE
