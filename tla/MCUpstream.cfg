\* Two nodes, client counters of two; one failed write of the state makes the proxy sick.
CONSTANTS
  N = 2
  SickAfter = 2
  AliveAfter = 2
  MaxFails = 1
SPECIFICATION UpstreamFairSpec
INVARIANTS UpstreamTypeOK
PROPERTIES SwitchesToFirstAlive ComesBack
