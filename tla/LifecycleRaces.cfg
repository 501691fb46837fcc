CONSTANTS
  Investigations = {i1}
  Requests = {r1, r2, r3}
  MaxConcurrent = 1
  MaxRestarts = 1
  Patient = FALSE
  WritesMayFail = FALSE
  None = None
SPECIFICATION FairSpec
INVARIANTS PermitsConserved OneStarter
PROPERTIES DeletedStaysDeleted RunsEnd CancelsAnswered
CHECK_DEADLOCK FALSE
