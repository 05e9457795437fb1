SPECIFICATION FairSpec
CONSTANTS
  p1 = p1  p2 = p2  p3 = p3  t1 = t1  t2 = t2  t3 = t3  b1 = b1
  h1 = h1  h2 = h2  n1 = n1
  Peer = {p1, p2}
  Tx = {t1}
  Block = {b1}
  Unencodable = {}
  Undecodable = {}
  TxCap = 2
  BlockCap = 2
  Name = {n1}
  Handler = {h1}
  NameOf <- MCOneCall
  NoHandler = NoHandler
  ChanCap = 1
  MaxCall <- MCMaxCallLive
INVARIANTS OncePerPeer
PROPERTIES SendEndsUnlessOrphaned QueuedReachesClient DeadClientReleased
CHECK_DEADLOCK FALSE
