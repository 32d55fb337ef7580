SPECIFICATION FairSpec
CONSTANTS
  Events = {e1, e2}
  MaxBusy = 1
  Conns = {c1, c2}
INVARIANTS
  NoPhantomBacklog
PROPERTIES
  ScrapeAnswered
