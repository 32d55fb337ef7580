SPECIFICATION Spec
CONSTANTS
  Workers = {w1, w2}
  Poller = poller
  Main = main
  Events = {e1, e2}
  NoEvent = none
  KafkaCap = 2
  Opaques = {"null"}
SYMMETRY Symmetry
INVARIANTS
  ServedReportIsCounted
