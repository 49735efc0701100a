CONSTANTS
  r1 = r1  r2 = r2   w1 = w1  w2 = w2  s1 = s1  s2 = s2  s3 = s3
  None = None
  Requests = {r1, r2}
  Streams = {s1, s2, s3}
  About <- MCAbout
  Resumed = {s2}
  Workers = {w1, w2}
  Capacity = 2
  MaxJobs = 2
SPECIFICATION FairSpec
INVARIANTS
  PoolTypeOK
PROPERTIES
  EveryRequestAnswered
  JobsSettleWithRoom
  StreamsRelease
CHECK_DEADLOCK FALSE
