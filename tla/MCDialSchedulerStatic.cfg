SPECIFICATION FairSpec
CONSTANTS
  n1 = n1  n2 = n2
  ID = {n1}
  Undialable = {}
  MaxDialPeers = 1
  MaxActiveDials = 2
  MaxTask = 2
PROPERTY StaticRedialed
CHECK_DEADLOCK FALSE
