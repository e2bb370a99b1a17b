SPECIFICATION Spec
CONSTANTS
  Tailers = {t1, t2}
  GateCapacity = 1
  Cut = {}
  MaxLines = 1
  MaxRewrites = 0
PROPERTY SuppressedStaysSuppressed
CHECK_DEADLOCK FALSE
