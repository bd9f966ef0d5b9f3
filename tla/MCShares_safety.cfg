\* Three works of consecutive heights, a winning solution of the first and one of
\* the last, one fault.  The solution s1 may be sent again while it is being
\* processed; it is a share of an older job under the second template, and a
\* share of the third work sweeps its entries.
CONSTANTS
  m1 = m1
  m2 = m2
  s1 = s1
  s3 = s3
  Miners = {m1, m2}
  Sessions = {x1, x2}
  Refresh = refresh
  LastWork = 3
  Height <- MCHeight
  Solutions = {s1, s3}
  Work <- MCWork
  Miner <- MCMiner
  Winning = {s1, s3}
  Resent = {s1}
  maxBacklog = 2
  PowBacklog = 1
  NoTemplate = noTemplate
  NoSolution = noSolution
  MaxFaults = 1
SPECIFICATION FairSpec
INVARIANTS TypeOK RoundsAddUp CandidateHasRound CountedOncePerTemplate BlocksRecorded
PROPERTIES TemplateCatchesUp
