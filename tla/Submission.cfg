CONSTANTS
  r1 = r1  r2 = r2  w1 = w1  w2 = w2  w3 = w3  k1 = k1
  a = a  aSpaced = aSpaced  b = b  mockHash = mockHash  llmHash = llmHash  f = f  g = g
  None = None
  Requests = {r1, r2}
  Workers = {w1, w2}
  Keys = {k1}
  Bodies = {a, aSpaced, b}
  Hashes = {mockHash, llmHash}
  Finding = {f, g}
  Fallible = {llmHash}
  FaultKinds = {"rollback", "ambiguous"}
  Canonical <- MCCanonical
  ReviewsOf <- MCReviewsOf
  Limit <- MCLimit
  MaxJobs = 2
  MaxRestarts = 1
  MaxFaults = 1
SPECIFICATION Spec
SYMMETRY Symmetry
INVARIANTS
  TypeOK
  InsertNeverConflicts
  ReplyHonoursKey
  OneSourcePerHash
CHECK_DEADLOCK FALSE
