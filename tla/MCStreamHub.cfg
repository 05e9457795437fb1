SPECIFICATION Spec
CONSTANTS
  p1 = p1  p2 = p2  p3 = p3  t1 = t1  t2 = t2  t3 = t3  b1 = b1
  h1 = h1  h2 = h2  n1 = n1
  Peer = {p1, p2}
  Tx = {t1, t2, t3}
  Block = {}
  Unencodable = {t2}
  Undecodable = {t3}
  TxCap = 1
  BlockCap = 2
  Name = {n1}
  Handler = {h1, h2}
  NameOf <- MCNameOf
  NoHandler = NoHandler
  ChanCap = 1
  MaxCall <- MCMaxCall
INVARIANTS EntriesMatchHandlers OpenStreamKept KnownOverrunBounded
CHECK_DEADLOCK FALSE
