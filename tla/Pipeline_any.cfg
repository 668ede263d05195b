SPECIFICATION Spec
CONSTANTS
  FrameLens = {1, 12000, 80000, 289000, 300000}
  Frames = 4
CHECK_DEADLOCK FALSE
INVARIANTS
  IInv
  PaceInv
  EncoderKeepsPace
PROPERTIES
  CommandsHeard
