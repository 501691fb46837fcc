CONSTANTS
  triage = triage
  logs = logs
  mitre = mitre
  report = report
  Triage = triage
  Report = report
  Others = {logs, mitre}
  Order <- LongOrder
  Optional = {logs}
  Skippers = {logs}
  MaxTasks = 4
  MaxProposals = 3
  MaxAttempts = 1
SPECIFICATION FairSpec
INVARIANTS CompletedRanEverything HaltedStillReports WithinTaskLimit FirstAttemptSettlesItsRows
PROPERTIES AttemptsEnd
CHECK_DEADLOCK FALSE
