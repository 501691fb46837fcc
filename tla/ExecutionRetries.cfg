CONSTANTS
  triage = triage
  logs = logs
  mitre = mitre
  report = report
  Triage = triage
  Report = report
  Others = {logs}
  Order <- ShortOrder
  Optional = {logs}
  Skippers = {logs}
  MaxTasks = 2
  MaxProposals = 1
  MaxAttempts = 2
SPECIFICATION Spec
INVARIANTS TraceMatchesOutcomes FailedLeavesNothing
PROPERTIES KeepsContract
CHECK_DEADLOCK FALSE
