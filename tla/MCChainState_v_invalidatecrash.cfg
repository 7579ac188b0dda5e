SPECIFICATION Spec
CONSTANTS
  g = g
  a1 = a1
  a2 = a2
  b1 = b1
  b2 = b2
  b3 = b3
  c2 = c2
  c3 = c3
  Genesis = g
  NoBlock = NoBlock
  NoThread = NoThread
  Blocks <- ForkBlocks
  Parent <- ForkParent
  Anc <- ForkAnc
  Work <- ForkWork
  Addr <- ForkAddr
  Threads = {t1}
  Stake = {}
  Checkpoint = {}
  MaxReorg = 3
  MaxReorganizationDepth = 3
  ReprocessDepth = 1
  Bad = {}
  Faulty = {}
  Lockable = {}
  Ops = {"invalidate"}
  MaxOps = 1
  MaxCrash = 1
INVARIANTS
  PruneLeavesOne
