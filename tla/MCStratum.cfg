\* Two sessions, one number at a time in bcast, two templates.
CONSTANTS
  x1 = x1
  x2 = x2
  Sessions = {x1, x2}
  MaxConn = 2
  BcastCap = 1
  MaxJobs = 2
SPECIFICATION FairSpec
CHECK_DEADLOCK FALSE
INVARIANTS TypeOK RegisteredIsServed
PROPERTIES PlacesComeBack EveryoneHears
