SPECIFICATION Spec
CONSTANTS
  a = a  b = b  c = c
  Moves = {a, b, c}
  TBRanks <- TwoRanks
  MultiPV = 2
  MaxDepth = 2
  Values <- Losses
  Infinite = 6
  MateIn = 4
  TBWin = 3
  Deltas = {1}
  WidenNum = 1
  WidenDen = 1
  Weights = {1}
  Scale = 2
SYMMETRY Symmetric
INVARIANTS
  LinesAreInOrder
  ExactMeansProven
PROPERTIES
  AbandonedLineOvertakesNoLoss
  MateIsNotForgotten
