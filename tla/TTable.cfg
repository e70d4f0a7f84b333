SPECIFICATION MCSpec
CONSTANTS
  Half = 4
  Generations = 2
  MaxPly = 246
  NestingThread = n1
  Threads = {t1, t2}
  Positions = {"a", "b"}
  KeyOf <- MCKeyOf
  Saves <- MCRacySaves
  ClusterSize = 1
  MaxDepth8 = 2
  AgingDepth <- MCAgingDepth
  KeepMargin = 1
  MaxNodes = 1
SYMMETRY Symmetry
INVARIANTS
  DepthNeverWraps
  HitHasDepth
  NestedSavesAreKept
PROPERTIES
  LeastIsReplaced
