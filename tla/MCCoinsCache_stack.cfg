SPECIFICATION Spec
CONSTANTS
  Txs = {t1, t2}
  Versions = {v1, v2}
  Pruned = pruned
  Blocks = {b1, b2}
INVARIANTS CacheFlags AddedIsFresh DbRepresentsBest
PROPERTY ImplementsUTXOSet
