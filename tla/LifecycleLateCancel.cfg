CONSTANTS
  Investigations = {i1}
  Requests = {r1, r2}
  MaxConcurrent = 1
  MaxRestarts = 0
  Patient = TRUE
  WritesMayFail = TRUE
  None = None
SPECIFICATION Spec
SYMMETRY Symmetry
PROPERTIES CancelSparesTerminal
CHECK_DEADLOCK FALSE
