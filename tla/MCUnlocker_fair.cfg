\* Every candidate is settled in the end; a halted module is restarted.
CONSTANTS
  b1 = b1
  b2 = b2
  b3 = b3
  l1 = l1
  l2 = l2
  Logins = {l1, l2}
  Pool = finances
  Blocks = {b1, b2}
  Height <- MCHeight
  Share <- MCShare
  ImmatureDepth = 1
  Depth = 2
  NoBlock = none
  MaxTip = 3
  MaxFaults = 3
  MaxLag = 2
  Lagging = FALSE
SPECIFICATION FairSpec
CHECK_DEADLOCK FALSE
PROPERTIES BlocksSettle
