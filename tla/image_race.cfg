SPECIFICATION CacheSpec
CONSTANTS
  Launches = {l1, l2}
  Files = {f1, f2, f3}
  Versions = {v1}
  Blocks = 1
  NetFaults = {}
  Concurrent = TRUE
  UnlinkOpen = TRUE
  NoFile = NoFile
  Hole = Hole
  Altered = Altered
SYMMETRY CacheSymmetry
INVARIANT CachedIsWhole
