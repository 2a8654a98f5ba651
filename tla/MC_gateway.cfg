SPECIFICATION FairSpec
CONSTANTS
  r1 = r1
  r2 = r2
  a1 = a1
  a2 = a2
  s1 = s1
  s2 = s2
  p1 = p1
  p2 = p2
  Requests = {r1, r2}
  Accounts = {a1, a2}
  User = User
  NoAccount = NoAccount
  Sessions = {s1, s2}
  SessionOf <- SessionOfEach
  Processes = {p1, p2}
  ProcessOf <- ProcessOfEach
  Configs <- SmallConfigs
CHECK_DEADLOCK FALSE
INVARIANTS LimitRespected SlotsAreReleased QueuesBounded CountersAreReturned OneAnswer
PROPERTIES ComesToRest
