\* Two faults, and fairness: an error in the retry loop and what comes of it.
CONSTANTS
  Logins = {a, b}
  Pool = finances
  Rewards <- MCRewards
  Threshold = 1
  NoPayment = none
  MaxCredit = 2
  MaxFaults = 2
  MaxLag = 2
  Lagging = FALSE
SPECIFICATION FairSpec
CHECK_DEADLOCK FALSE
PROPERTY HaltedSessionEnds
