SPECIFICATION SpecWithRestart
CONSTANTS
  a1 = a1
  a2 = a2
  b1 = b1
  c1 = c1
  peer1 = peer1
  peer2 = peer2
  A = A
  B = B
  C = C
  Services = {a1, a2, b1, c1}
  Hosts = {A, B, C}
  Sources = {peer1, peer2}
  NewBuckets = {1, 2}
  Positions = {1, 2}
  TriedSlots = {1}
  Host <- MCHost
  NewBucket <- MCNewBucket
  NewPos <- MCNewPos
  TriedSlot <- MCTriedSlot
  MaxRef = 2
  MaxIds = 5
INVARIANTS
  Consistent
  RoundTrip
PROPERTIES
  TriedKept
