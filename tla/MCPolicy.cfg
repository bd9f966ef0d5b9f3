\* Two sessions of one IP, a ban longer than the reset interval.  The malformed
\* counter is at its limit with the first line; shares count up to theirs.
CONSTANTS
  p = p
  x1 = x1
  x2 = x2
  IPs = {p}
  Sessions = {x1, x2}
  IP <- MCIP
  Limit = 2
  LimitJump = 1
  Grace = 0
  Timeout = 3
  Interval = 2
  InvalidPercent = 60
  CheckThreshold = 2
  MalformedLimit = 1
  BanCap = 1
  MaxConn = 2
SPECIFICATION FairSpec
CHECK_DEADLOCK FALSE
INVARIANTS TypeOK BanLasts JustBans
PROPERTIES BansEnd
