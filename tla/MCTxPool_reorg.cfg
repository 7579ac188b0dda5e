SPECIFICATION Spec
CONSTANTS
  c0 = c0
  f = f
  c1 = c1
  k = k
  c2 = c2
  c3 = c3
  t1 = t1
  t2 = t2
  r = r
  u = u
  v = v
  Order <- MCOrder
  Ins <- MCIns
  Outs <- MCOuts
  Coinbase = {c0, c1, c2, c3}
  Coinstake = {k}
  Invalid = {v}
  Unwanted = {t1, r}
  Genesis <- MCGenesis
  Bodies <- MCBodies
  MaxHeight = 4
  Maturity = 2
  Peers = {p1, p2}
  NoPeer = NoPeer
  NoTx = NoTx
  MaxOrphans = 2
INVARIANTS
  PoolMapsAgree
  PoolMinable
  OrphansLinked
PROPERTIES
  ReorgKeeps
