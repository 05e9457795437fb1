SPECIFICATION FairSpec
CONSTANTS
  n1 = n1  n2 = n2
  ID = {n1, n2}
  Undialable = {n2}
  MaxDialPeers = 1
  MaxActiveDials = 2
  MaxTask = 2
INVARIANTS PoolIndexed EntryHasTask HistoryBounded
PROPERTIES HistoryExpires StopReturns
CHECK_DEADLOCK FALSE
