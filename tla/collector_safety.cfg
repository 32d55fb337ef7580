SPECIFICATION Spec
CONSTANTS
  Conns = {c1, c2}
  NoConn = none
  MAX_CONNECTIONS = 1
  Capacity = 1
  MaxFrames = 2
SYMMETRY Symmetry
INVARIANTS
  TypeOK
  ActiveCountExact
  WithinMaxConnections
  ReleasedIsCleanedUp
  EventsAccounted
