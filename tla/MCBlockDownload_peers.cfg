SPECIFICATION FairSpec
CONSTANTS
  g = g
  a1 = a1
  a2 = a2
  b1 = b1
  p1 = p1
  p2 = p2
  Peers = {p1, p2}
  NoPeer = NoPeer
  NoUpdate = NoUpdate
  NoBlock = NoBlock
  Genesis = g
  Blocks = {g, a1, a2, b1}
  Parent <- MCParent
  Anc <- MCAnc
  Height <- MCHeight
  Work <- MCWork
  MaxInTransit = 1
  Window = 1
  Bad = {a1}
  PeerKinds = {"outbound", "inbound"}
  Announced <- MCAnnounced
INVARIANTS
  RequestsConsistent
  CountersExact
  QueuedNotBelow
  CommonIsFull
CHECK_DEADLOCK FALSE
PROPERTIES
  SyncResumes
