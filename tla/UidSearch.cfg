SPECIFICATION Spec
CONSTANTS
  MaxUid = 7
  Limit = 2
  MinBlock = 3
  MaxBlocks = 2
CHECK_DEADLOCK FALSE
INVARIANT TypeOK
INVARIANT NothingSkipped
INVARIANT NothingSeen
