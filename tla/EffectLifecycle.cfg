\* Two runs, one effect, two approvals: workers race, stall, are fenced and come back;
\* approvals of the wrong run, late decisions.  The sweeper and the clock are fair.
SPECIFICATION FairSpec
CONSTANTS
  Runs = {r1, r2}
  Keys = {k1}
  Workers = {w1, w2}
  Approvals = {a1, a2}
  None = None
  MaxFence = 2
INVARIANTS AtMostOnce HappenedIsRecorded SucceededIsTrue GatedIsApproved
PROPERTIES NewestLeaseClaims KeepsPromise ClaimsGetAVerdict
CHECK_DEADLOCK FALSE
