CONSTANTS
  f1 = f1
  f2 = f2
  f3 = f3
  login = login
  session = session
  sudo = sudo
  exploit = exploit
  rejected = rejected
  missing = missing
  address = address
  phish = phish
  phishHost = phishHost
  bait = bait
  baitHost = baitHost
  spoof = spoof
  service = service
  serviceHost = serviceHost
  text = text
  resolver = resolver
  None = None
  Observations <- Recordable
  Data <- Recorded
  MinFailures = 2
  Window = 10
  Linger = 15
  MinUsers = 1
  MinErrors = 2
  ErrorWindow = 10
  Lines = {f1, f2, f3, login, session, sudo, exploit, rejected, missing}
  Indicators = {address, phish, bait, spoof, service, text, resolver}
  Targets = {address, phish, bait, spoof, service, text}
  Submissions <- Parts
  Lookups <- Responses
  Opinions <- Verdicts
  MaxAttempts = 2
  MaxMisses = 1
SPECIFICATION Spec
INVARIANTS BurstsAreFound GraphIsDerived VerdictsAgree RiskIsHeld
CHECK_DEADLOCK FALSE
