CONSTANTS
  r1 = r1  r2 = r2  w1 = w1  w2 = w2  w3 = w3  k1 = k1
  a = a  aSpaced = aSpaced  b = b  mockHash = mockHash  llmHash = llmHash  f = f  g = g
  None = None
  Requests = {r1}
  Workers = {w1, w2}
  Keys = {k1}
  Bodies = {a, aSpaced}
  Hashes = {llmHash}
  Finding = {f, g}
  Fallible = {llmHash}
  FaultKinds = {}
  Canonical <- LlmCanonical
  ReviewsOf <- LlmReviewsOf
  Limit <- LlmLimit
  MaxJobs = 3
  MaxRestarts = 1
  MaxFaults = 0
SPECIFICATION FairSpec
PROPERTIES
  TerminalIsFinal
  EveryJobSettles
  EveryRequestAnswered
  ShutdownDrains
  ImplementsReviewJobs
CHECK_DEADLOCK FALSE
