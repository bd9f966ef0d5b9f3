\* Two nodes: the first one stays down.
CONSTANTS
  N = 2
  SickAfter = 2
  AliveAfter = 2
  MaxFails = 2
SPECIFICATION UpstreamFairSpec
PROPERTIES FailsOver
