SPECIFICATION FairSpec
CONSTANTS
  g = g
  a1 = a1
  a2 = a2
  b1 = b1
  b2 = b2
  b3 = b3
  c2 = c2
  c3 = c3
  Genesis = g
  NoBlock = NoBlock
  NoThread = NoThread
  Blocks <- OvertakeBlocks
  Parent <- OvertakeParent
  Anc <- OvertakeAnc
  Work <- OvertakeWork
  Addr <- OvertakeAddr
  Threads = {t1, t2}
  Stake = {b3}
  Checkpoint = {}
  MaxReorg = 2
  MaxReorganizationDepth = 1
  ReprocessDepth = 1
  Bad = {b2}
  Faulty = {a2}
  Lockable = {}
  Ops = {}
  MaxOps = 1
  MaxCrash = 0
PROPERTIES
  ReorgBounded
  OperationsEnd
