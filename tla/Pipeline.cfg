CONSTANTS
  r1 = r1  r2 = r2  w1 = w1  w2 = w2  w3 = w3  k1 = k1
  a = a  aSpaced = aSpaced  b = b  mockHash = mockHash  llmHash = llmHash  f = f  g = g
  None = None
  Requests = {r1}
  Workers = {w1, w2, w3}
  Keys = {}
  Bodies = {a}
  Hashes = {llmHash}
  Finding = {f, g}
  Fallible = {llmHash}
  FaultKinds = {"rollback", "ambiguous"}
  Canonical <- LlmCanonical
  ReviewsOf <- LlmReviewsOf
  Limit <- LlmLimit
  MaxJobs = 4
  MaxRestarts = 2
  MaxFaults = 2
SPECIFICATION Spec
SYMMETRY Symmetry
INVARIANTS
  OneWorkerPerJob
  SourceClaimedFirst
  CachedAnswersAgree
  LogTellsRow
  RunningHasWorker
CHECK_DEADLOCK FALSE
