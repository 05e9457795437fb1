SPECIFICATION FairSpec
CONSTANTS
  k1 = k1  k2 = k2  k3 = k3  c1 = c1  c2 = c2
  Key = {k1, k2}
  Crawler = {c1}
  Pending = 2
  MaxCount = 1
  MaxDail = 0
  ServerMax = 1
  TTL = 0
  MaxTime = 1
INVARIANT DialsLimited
 
CHECK_DEADLOCK FALSE
