\* Three faults: payouts and the unlocker over one set of accounts.
CONSTANTS
  a = a
  b = b
  b1 = b1
  b2 = b2
  Logins = {a, b}
  Pool = finances
  Blocks = {b1, b2}
  Share <- MCShare
  Rewards <- MCRewards
  Threshold = 1
  NoPayment = none
  MaxCredit = 5
  MaxFaults = 3
  MaxLag = 2
  Lagging = FALSE
SPECIFICATION LedgerFairSpec
CHECK_DEADLOCK FALSE
INVARIANT PaymentsAreBacked
PROPERTIES EveryBalancePaid
