CONSTANTS
  ioc = ioc
  pcap = pcap
  empty = empty
  auth = auth
  addr = addr
  flow = flow
  dns = dns
  login = login
  Calls = {ioc, pcap, empty, auth}
  Tolerated = {pcap}
  Observations = {addr, flow, dns, login}
  TriageCalls <- CallsOfTriage
  LogCalls <- CallsOfLogs
  Output <- Extracted
  Nobody = Nobody
  Readers = {"correlation"}
  Sessions = {s1, s2}
  Purges = {p1}
  MaxEvidence = 2
SPECIFICATION FairSpec
INVARIANTS NoDuplicates LossIsDisclosed RunsAccountForEvidence
PROPERTIES IsALedger EveryoneIsAnswered
CHECK_DEADLOCK FALSE
