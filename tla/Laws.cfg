SPECIFICATION LawsSpec
CONSTANTS
  Half = 4
  Generations = 32
  MaxPly = 246
  Keys <- MCKeys
  ClusterCounts = {0, 1, 2, 3, 5, 7, 8, 12}
  ThreadCounts = {1, 2, 3, 4, 7, 9}
  Plies <- MCPlies
  StoredValues <- MCStoredValues
  Moves = {"e2e4", "d2d4"}
  Scores <- MCScores
  Lengths = {1, 2}
  PoolSizes = {1, 2, 3}
  Infinite = 32001
  TBWin = 31507
  Share = 14
  Captures = {"c1", "c2", "c3"}
  Quiets = {"q1", "q2"}
  Stray = "illegal"
  PickDepths = {1, 3, 4}
  CaptureValues = {100}
  QuietValues <- MCQuietValues
  CounterLimits = {1, 2, 7, 12}
  RowCounts = {0, 1, 2, 5, 9, 64}
  Workers = {1, 2, 3, 4, 7, 9}
  Reach = 65536
  Divisors = {3, 7, 12, 29}
  Dividends <- MCDividends
  Word = 65536
  IntSize = 1024
  RootScores <- MCRootScores
INVARIANTS
  IndexLaws
  ValueLaws
  KeepsTheBest
  UnsearchedHasNoSay
  DealsEveryMoveOnce
  HistoryLaws
CHECK_DEADLOCK FALSE
