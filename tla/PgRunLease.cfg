\* Three processes under two worker names; every transaction is fair.
SPECIFICATION FairSpec
CONSTANTS
  Processes = {p1, p2, p3}
  Names = {w1, w2}
  Approvals = {a1}
  None = None
  TTL = 1
  MaxFence = 2
INVARIANTS OneClaimOneWrite
PROPERTIES FenceTokensGrow ClaimCommitsApproved VerdictsAreFinal NobodyWaitsForEver
CHECK_DEADLOCK FALSE
