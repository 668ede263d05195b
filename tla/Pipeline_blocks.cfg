SPECIFICATION Spec
CONSTANTS
  FrameLens = {1100}
  Frames = 11
CHECK_DEADLOCK FALSE
INVARIANTS
  EveryFrameWhole
