SPECIFICATION Spec
CONSTANTS
  Files <- MCFiles
  Units = 2
  Escapes = TRUE
  BufferSize = 30
  FrameLimit = 11
CHECK_DEADLOCK FALSE
INVARIANT NothingLost
