SPECIFICATION Spec
CONSTANTS
  Capacity = 2
  Window = 1
  MaxFrames = 2
  MaxFailures = 2
INVARIANTS TypeOK InOrder HandledOnce LateFramesBounded
PROPERTIES CalmDelivers ConnectedOrRejected
CHECK_DEADLOCK FALSE
