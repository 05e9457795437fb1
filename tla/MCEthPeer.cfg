SPECIFICATION FairSpec
CONSTANTS
  f = f  g = g  c = c  w = w  b = b
  Fetch = {f}
  Batch = {g}
  Checkpoint = {c}
  Whitelist = {w}
  Block = {b}
  MaxLen = 1
  MaxMsg = 3
INVARIANTS HandshakeQuiet TrackedIsAwaited 
PROPERTIES ImplementsRetrieval ReaderReleased 
CHECK_DEADLOCK FALSE
