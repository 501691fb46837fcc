CONSTANTS
  i1 = i1
  i2 = i2
  r1 = r1
  r2 = r2
  log = log
  exe = exe
  None = None
  Investigations = {i1, i2}
  Requests = {r1, r2}
  Contents = {log, exe}
  Header <- MCHeader
  Submissions <- MCSubmissions
  Target <- MCTarget
  MaxRestarts = 1
SPECIFICATION Spec
SYMMETRY Symmetry
INVARIANTS RowsHaveTheirBytes StagingIsSwept KindsAreHonest BackupsRestore
CHECK_DEADLOCK FALSE
