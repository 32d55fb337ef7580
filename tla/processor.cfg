SPECIFICATION FairSpec
CONSTANTS
  Workers = {w1, w2}
  Poller = poller
  Main = main
  Events = {e1, e2}
  NoEvent = none
  KafkaCap = 1
  Opaques = {"metrics", "null"}
INVARIANTS
  TypeOK
  KafkaLedger
  KafkaOkDelivered
  KafkaNeverCostsStorage
  StopLeavesNothing
PROPERTIES
  ImplementsLifecycle
  StopReturns
  ReportsServed
