\* Two workers start and resume one run; artifacts come and go.
SPECIFICATION ResumeSpec
CONSTANTS
  Runs = {r1}
  Workers = {w1, w2}
  Definitions <- MCDefinitions
  Adapters <- MCAdapters
  Nothing = Nothing
SYMMETRY Symmetry
INVARIANTS PinnedExecution ResumedOnce
CHECK_DEADLOCK FALSE
