SPECIFICATION Spec
CONSTANTS
  MaxEvents = 5
  MaxSeq = 5
INVARIANTS SeqOrderIsEpochOrder EpochsAreDense LiveIsTheBranch
CHECK_DEADLOCK FALSE
