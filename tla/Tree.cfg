SPECIFICATION MCSpec
CONSTANTS
  Half = 4
  Generations = 32
  MaxPly = 246
  Games <- MCGames
  MaxMoves = 256
  reductions <- MCReductions
  Horizon = 14
  Counts <- MCCounts
  GoCommands <- MCGoCommands
  NoBound = 1000000
  CheckPeriod = 3
  CheckShare = 4
  Shares = {2, 90}
  Adjusts <- MCAdjusts
  MaxScales = {314, 687}
  Factors = {25}
  Steps = {4}
  MaxElapsed = 12
  MaxSearches = 2
INVARIANTS
  ProvenScores
  SearchIsBalanced
  BudgetIsOwn
  StopsInTime
