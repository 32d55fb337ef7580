SPECIFICATION FairSpec
CONSTANTS
  Conns = {c1, c2}
  NoConn = none
  MAX_CONNECTIONS = 1
  Capacity = 1
  MaxFrames = 1
PROPERTIES
  EndedIsReleased
  BacklogServed
  SilentIsClosed
