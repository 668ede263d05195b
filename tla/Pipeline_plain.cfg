SPECIFICATION Spec
CONSTANTS
  FrameLens = {280000}
  Frames = 11
CHECK_DEADLOCK FALSE
INVARIANTS
  CiphertextOnly
