\* Two processes append to, write and delete two logs, and reply to one message.
SPECIFICATION Spec
CONSTANTS
  Processes = {p1,p2,p3}
  Paths <- MCPaths
  Envelopes <- MCEnvelopes
  Texts <- MCTexts
  LikeAlso <- MCLikeAlso
  None = None
  MaxBytes = 3
SYMMETRY Symmetry
INVARIANTS NoHalfAppend PostedOnce ListIsComplete
PROPERTIES AppendsExtend
CHECK_DEADLOCK FALSE
