SPECIFICATION FairSpec
CONSTANTS
  n1 = n1  n2 = n2  n3 = n3
  ID = {n1, n2, n3}
  Trusted = {n3}
  CapSets <- MCCapSets
  MaxPeers = 1
  SnapSync = TRUE
  SnapReserve = 0
  MaxSess <- MCMaxSess
INVARIANTS
  PeersMatchConnections
  ExtensionsMatched
  
PROPERTIES
  WaitEndsUnlessFrozen
  
  KeepsLockPromise
CHECK_DEADLOCK FALSE
