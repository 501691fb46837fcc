CONSTANTS
  summary = summary
  primary = primary
  secondary = secondary
  gone = gone
  Models = {summary, primary, secondary, gone}
  Served = {summary, primary, secondary}
  Rules <- Chains
  Calls = {c1, c2}
  Triages = {c1}
  Retries = 1
  Ceiling = 2
  Usage = {2}
  Nobody = Nobody
SPECIFICATION FairSpec
INVARIANTS NoShopping TraceTellsTheEnd
PROPERTIES CeilingIsFinal CallsEnd
CHECK_DEADLOCK FALSE
