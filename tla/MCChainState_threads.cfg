SPECIFICATION Spec
SYMMETRY ThreadSymmetry
VIEW MemoryView
CONSTANTS
  g = g
  a1 = a1
  a2 = a2
  b1 = b1
  b2 = b2
  b3 = b3
  c2 = c2
  c3 = c3
  Genesis = g
  NoBlock = NoBlock
  NoThread = NoThread
  Blocks <- FanBlocks
  Parent <- FanParent
  Anc <- FanAnc
  Work <- FanWork
  Addr <- FanAddr
  Threads = {t1, t2}
  Stake = {c2}
  Checkpoint = {b1}
  MaxReorg = 3
  MaxReorganizationDepth = 1
  ReprocessDepth = 1
  Bad = {c3}
  Faulty = {c2}
  Lockable = {b2}
  Ops = {"invalidate", "reconsider", "reprocess"}
  MaxOps = 2
  MaxCrash = 0
INVARIANTS
  LinksConsistent
  CandidatesNotWorse
  CandidatesComplete
  OnBestChain
  PruneLeavesOne
  FailedMaskJustified
