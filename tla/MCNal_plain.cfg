SPECIFICATION FairSpec
CONSTANTS
  Files <- MCFiles
  Units = 3
  Escapes = FALSE
  BufferSize = 9
  FrameLimit = 2
CHECK_DEADLOCK FALSE
INVARIANTS
  ScanInv
  InBuffer
  FramesNotEmpty
PROPERTIES
  ReadsUnits
  VideoRead
