SPECIFICATION FairSpec
CONSTANTS
  p1 = p1
  p2 = p2
  m1 = m1
  r1 = r1
  Peer = {p1, p2}
  Miner = {m1}
  Number = {1, 2}
  ListCap = 2
  Top = 1
  Request = {r1}
  MaxBlock <- MCMaxBlock
  NoMiner = NoMiner
INVARIANTS
  
  LastPeerServed
PROPERTIES
  
  EndsUnlessStuck
CHECK_DEADLOCK FALSE
