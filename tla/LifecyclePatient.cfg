CONSTANTS
  Investigations = {i1}
  Requests = {r1, r2, r3, r4}
  MaxConcurrent = 1
  MaxRestarts = 2
  Patient = TRUE
  WritesMayFail = TRUE
  None = None
SPECIFICATION Spec
SYMMETRY Symmetry
INVARIANTS AtMostOneExecution NoSilentLoss
PROPERTIES KeepsContract
CHECK_DEADLOCK FALSE
