SPECIFICATION EccSpec
CONSTANTS
  FrameLens = {1100, 4200, 34000}
  Frames = 11
  MaxLen <- MCMaxLen
CHECK_DEADLOCK FALSE
INVARIANTS
  EccInvariant
  EveryOtherFrameWhole
PROPERTIES
  OwnEnvelope
  CommandsHeard
