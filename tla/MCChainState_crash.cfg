SPECIFICATION Spec
CHECK_DEADLOCK FALSE
CONSTANTS
  g = g
  a1 = a1
  a2 = a2
  b1 = b1
  b2 = b2
  b3 = b3
  c2 = c2
  c3 = c3
  Genesis = g
  NoBlock = NoBlock
  NoThread = NoThread
  Blocks <- ShortBlocks
  Parent <- ShortParent
  Anc <- ShortAnc
  Work <- ShortWork
  Addr <- ShortAddr
  Threads = {t1}
  Stake = {}
  Checkpoint = {}
  MaxReorg = 3
  MaxReorganizationDepth = 3
  ReprocessDepth = 1
  Bad = {}
  Faulty = {a1}
  Lockable = {a2}
  Ops = {"partialwrite", "refuse", "reconsider", "reprocess"}
  MaxOps = 1
  MaxCrash = 2
INVARIANTS
  CoinsOnDiskUsable
  ActiveChainUsable
  OnBestChain
