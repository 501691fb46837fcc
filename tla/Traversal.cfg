CONSTANTS
  ip = ip
  host = host
  user = user
  url = url
  ab = ab
  ba = ba
  bc = bc
  ca = ca
  bc2 = bc2
  s1 = s1
  s2 = s2
  Entities = {ip, host, user, url}
  Edges = {ab, ba, bc, ca, bc2}
  From <- FromEnds
  To <- ToEnds
  Backing <- BackedBy
  Depths = {2, 9}
  Limits = {1, 2, 9}
  MaxDepth = 3
  MaxResults = 4
  MaxPaths = 2
  Commits = 2
SPECIFICATION GraphSpec
INVARIANTS AnswersAreComplete
CHECK_DEADLOCK FALSE
