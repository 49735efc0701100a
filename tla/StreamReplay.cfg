CONSTANTS
  r1 = r1  w1 = w1  w2 = w2  s1 = s1  s2 = s2  a = a  llmHash = llmHash  f = f  g = g
  None = None
  Requests = {r1}
  Workers = {w1}
  Streams = {s1, s2}
  Keys = {}
  Bodies = {a}
  Hashes = {llmHash}
  Finding = {f, g}
  Fallible = {llmHash}
  FaultKinds = {}
  Canonical <- MCCanonical
  ReviewsOf <- MCReviewsOf
  Limit <- MCLimit
  MaxJobs = 1
  MaxRestarts = 0
  MaxFaults = 0
  MaxEventId = 6
SPECIFICATION StreamSpec
INVARIANT
  CompletedStreamsAgree
CHECK_DEADLOCK FALSE
