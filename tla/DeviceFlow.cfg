SPECIFICATION Spec
CONSTANTS
  Flows = {f1}
  Requests = {r1, r2, r3}
  MaxImports = 1
  MaxWebRestarts = 1
INVARIANT TypeOK
INVARIANT CompletedIsStored
PROPERTY CodeCleared
CHECK_DEADLOCK FALSE
