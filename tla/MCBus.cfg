SPECIFICATION FairSpec
CONSTANTS
  Masters = {"send_packet", "read_packet", "read_file"}
  mstId <- MCId
  Program <- MCProgram
  BUS_FREQ = 750
  SETUP = 5
  FrameWords = 2
CHECK_DEADLOCK FALSE
INVARIANTS
  IInv
  OneTransfer
  NextWordOnBus
  NothingStuck
  AnswerReachesMaster
  AlwaysAcknowledged
PROPERTIES
  CurrentReqStable
  ServesInOrder
  RequestsComplete
  ServesAll
