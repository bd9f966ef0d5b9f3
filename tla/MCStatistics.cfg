\* Two miners; windows of one and two ticks.
CONSTANTS
  l1 = l1
  l2 = l2
  Logins = {l1, l2}
  Asked = {l1}
  Small = 1
  Large = 2
  Expiration = 2
  Interval = 1
  Slow = 1
  MaxShares = 3
  MaxFaults = 1
SPECIFICATION FairSpec
INVARIANTS TypeOK WindowKept ViewsAreFresh
PROPERTIES OldSharesGo
