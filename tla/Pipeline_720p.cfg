SPECIFICATION Spec
CONSTANTS
  FrameLens = {1100, 12000, 80000}
  Frames = 11
CHECK_DEADLOCK FALSE
INVARIANTS
  TypeOK
  ChainInv
  CiphertextOnly
  EveryOtherFrameWhole
  LastFrameDelivered
PROPERTIES
  EncryptionKeepsPace
  TransmissionKeepsPace
