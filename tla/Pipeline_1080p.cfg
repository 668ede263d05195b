SPECIFICATION Spec
CONSTANTS
  FrameLens = {1100, 126000, 289000}
  Frames = 11
CHECK_DEADLOCK FALSE
PROPERTIES
  EncryptionKeepsPace
