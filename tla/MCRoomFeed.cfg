SPECIFICATION Spec
CONSTANTS
  MaxTop = 5
  MaxDrops = 2
  MaxLen = 2
  PageSize = 2
  BufferCap = 2
  WireCap = 2
  Faults = {"redis", "restart", "refuse"}
INVARIANTS TypeOK
PROPERTIES ImplementsRoomLog FramesArrive
CHECK_DEADLOCK FALSE
