SPECIFICATION FairSpec
CONSTANTS
  n1 = n1  n2 = n2  n3 = n3
  ID = {n1, n2}
  Trusted = {}
  CapSets <- MCCapSetsTimeout
  MaxPeers = 2
  SnapSync = FALSE
  SnapReserve = 0
  MaxSess <- MCMaxSessTimeout
PROPERTIES
  ExtensionWaitEnds
CHECK_DEADLOCK FALSE
