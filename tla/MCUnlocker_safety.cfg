\* Three blocks on a chain that reorganizes.
CONSTANTS
  b1 = b1
  b2 = b2
  b3 = b3
  l1 = l1
  l2 = l2
  Logins = {l1, l2}
  Pool = finances
  Blocks = {b1, b2, b3}
  Height <- MCHeight
  Share <- MCShare
  ImmatureDepth = 1
  Depth = 2
  NoBlock = none
  MaxTip = 4
  MaxFaults = 2
  MaxLag = 2
  Lagging = FALSE
SPECIFICATION Spec
CHECK_DEADLOCK FALSE
INVARIANTS TypeOK OneStage CreditedOnce ImmatureMatches PaidOnChain LostIsOffChain
PROPERTIES ImplementsContract
