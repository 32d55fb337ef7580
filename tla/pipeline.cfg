SPECIFICATION FairSpec
CONSTANTS
  Workers = {w1, w2}
  Poller = poller
  Flusher = flusher
  Main = main
  Events = {e1, e2}
  NoEvent = none
  KafkaCap = 1
  Opaques = {"metrics"}
  BATCH_SIZE = 2
INVARIANTS
  NoEventBetween
  FinalAccount
PROPERTIES
  EventuallyDone
  ShutdownEnds
