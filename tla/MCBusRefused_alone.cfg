SPECIFICATION Spec
CONSTANTS
  Masters = {"read_file"}
  mstId <- MCId
  Program <- MCProgram
  BUS_FREQ = 1000
  SETUP = 2
CHECK_DEADLOCK FALSE
INVARIANTS
  NothingStuck
