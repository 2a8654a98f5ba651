SPECIFICATION FairSpec
CONSTANTS
  a1 = a1  a2 = a2  b1 = b1  b2 = b2
  o1 = o1  o2 = o2  f1 = f1  f2 = f2  r1 = r1  w1 = w1  w2 = w2  s1 = s1  s2 = s2
  Accounts = {a1, a2}
  Buckets = {b1, b2}
  In <- MCIn
  Pollers = {o1, o2}
  Rebuilders = {f1, f2}
  Requests = {r1}
  Writers = {w1, w2}
  ProcessOf <- MCProcessOf
  NoRow = NoRow
  NoThread = NoThread
  NoSnapshot = NoSnapshot
  Configs <- MCConfigs
INVARIANTS WatermarkBehindHandled
PROPERTIES LockOrdersLoads SnapshotCatchesUp
