SPECIFICATION Spec
CONSTANTS
  Tailers = {t1}
  GateCapacity = 1
  Cut = {3}
  MaxLines = 4
  MaxRewrites = 1
INVARIANTS TypeOK ExactUnlessConfused SlipBounded
PROPERTIES LinesArrive
CHECK_DEADLOCK FALSE
