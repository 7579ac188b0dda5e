SPECIFICATION FairSpec
CONSTANTS
  MaxVersion = 2
  MaxTroubles = 1
  MinMnp = 1
  MinMnb = 1
  Spacing = 1
  Window = 1
  Expiration = 1
  Removal = 3
PROPERTIES
  NotLost
  PingedReturns
  SpentLeaves
