SPECIFICATION FairSpec
CONSTANTS
  Consumers = {c1, c2, c3}
  Values = {v1, v2}
  Capacity = 2
  MaxPushes = 5
INVARIANTS
  TypeOK
  WithinCapacity
  Fifo
  NoLostWakeup
PROPERTIES
  ImplementsBoundedQueue
