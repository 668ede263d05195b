SPECIFICATION Spec
CONSTANTS
  Frames <- MCFrames
  key <- MCKey
  iv <- MCIv
CHECK_DEADLOCK FALSE
INVARIANTS
  CipherInvariant
  RoundTrip
  TablesStandard
  MeetsVectors
PROPERTY MixesAsStandard
