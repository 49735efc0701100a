CONSTANTS
  r1 = r1  w1 = w1  w2 = w2  s1 = s1  s2 = s2  a = a  llmHash = llmHash  f = f  g = g
  None = None
  Requests = {r1}
  Workers = {w1, w2}
  Streams = {s1}
  Keys = {}
  Bodies = {a}
  Hashes = {llmHash}
  Finding = {f, g}
  Fallible = {llmHash}
  FaultKinds = {}
  Canonical <- MCCanonical
  ReviewsOf <- MCReviewsOf
  Limit <- MCLimit
  MaxJobs = 2
  MaxRestarts = 1
  MaxFaults = 0
  MaxEventId = 8
SPECIFICATION FairStreamSpec
INVARIANTS
  StreamTypeOK
  SuccessIsStreamedWhole
  FailureEndsStreamNearby
PROPERTIES
  LogOnlyGrows
  StreamsEnd
CHECK_DEADLOCK FALSE
