CONSTANTS
  h1 = h1
  h2 = h2
  Inv = inv
  Hypotheses = {h1, h2}
  Rows <- MCRows
  Cites <- MCCites
  Origin <- MCOrigin
  PageSize = 2
  Caps = {1, 2, 3, 4}
  MaxClaims = 2
  MaxFindings = 1
  MaxTasks = 2
SPECIFICATION Spec
INVARIANTS ReadsSkipNothing AnswersHangTogether DoneIsTold
PROPERTIES StreamsEnd
CHECK_DEADLOCK FALSE
