SPECIFICATION FairSpec
CONSTANTS
  IoThreads = {i1, i2}
  Sessions = {s1, s2}
PROPERTY
  GracefulExit
