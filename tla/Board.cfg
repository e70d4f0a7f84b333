SPECIFICATION Spec
CONSTANTS
    Starts <- MCStarts
    MIN_PC_COUNT_HYBRID = 3
INVARIANTS StateDescribesBoard MovesAreJudged PositionIsTold AccumulatorLaw
PROPERTIES MovesAreTraced
CHECK_DEADLOCK FALSE
