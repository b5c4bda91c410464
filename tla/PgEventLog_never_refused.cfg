SPECIFICATION Spec
CONSTANTS
  Clients = {c1, c2}
  None = None
  MaxEvents = 2
  MaxSeq = 1
PROPERTIES AppendIsNeverRefused
CHECK_DEADLOCK FALSE
