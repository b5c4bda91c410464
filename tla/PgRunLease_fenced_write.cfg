SPECIFICATION Spec
CONSTANTS
  Processes = {p1, p2}
  Names = {w1, w2}
  Approvals = {a1}
  None = None
  TTL = 1
  MaxFence = 2
PROPERTIES FencedOutCannotWrite
CHECK_DEADLOCK FALSE
