CONSTANTS
  ChanCap = 2
  MaxPacket = 4
SPECIFICATION FairSpec
PROPERTY RunReturnsUnlessFull
CHECK_DEADLOCK FALSE
