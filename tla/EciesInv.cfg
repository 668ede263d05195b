SPECIFICATION Spec
CONSTANTS
  Lengths = {1, 15, 16, 17, 31, 32, 33, 1100, 12709}
CHECK_DEADLOCK FALSE
INVARIANTS
  EciesInvariant
  NothingDangling
  LocalsFreed
  EnvelopeFilled
