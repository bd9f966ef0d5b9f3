\* Two miners, credits of 1 and 2 Shannon above and below the threshold.
CONSTANTS
  Logins = {a, b}
  Pool = finances
  Rewards <- MCRewards
  Threshold = 1
  NoPayment = none
  MaxCredit = 3
  MaxFaults = 3
  MaxLag = 2
  Lagging = FALSE
SPECIFICATION Spec
SYMMETRY Symmetry
CHECK_DEADLOCK FALSE
INVARIANTS TypeOK Conservation OnePending SentIsAccounted LogIsTrue
PROPERTIES SendsUnderLock ImplementsContract
