CONSTANTS
  None = None
  Day = 2
  Artifacts <- MCArtifacts
  Options <- MCOptions
  Clocks <- Servers
SPECIFICATION Spec
INVARIANTS StampsAreDated NoLineIsLost
CHECK_DEADLOCK FALSE
