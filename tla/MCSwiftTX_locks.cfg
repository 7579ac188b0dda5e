SPECIFICATION Spec
CONSTANTS
  t1 = t1
  t2 = t2
  t3 = t3
  f = f
  i1 = i1
  i2 = i2
  i3 = i3
  o = o
  m1 = m1
  m2 = m2
  Txs = {t1, t2, t3}
  NoTx = NoTx
  NoLock = NoLock
  Asked = {t2, t3}
  Inputs = {i1, i2, i3, o}
  Spends <- Family
  Source <- Origin
  Generated = {i2}
  Masternodes = {m1, m2}
  Me = me
  Required = 2
  Lifetime = 0
  MaxTime = 1
SYMMETRY MasternodeSymmetry
INVARIANTS CountedOnce CompleteNeedsRequest
 
CHECK_DEADLOCK FALSE
