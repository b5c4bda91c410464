\* Two mutations of a harness; an SDK of four files; two installations or edits.
SPECIFICATION MSpec
CONSTANTS
  Builds <- MCBuilds
  Verified <- MCVerified
  Sources <- MCSources
  REQUIRED_PINS <- MCRequired
  None = None
  MaxChanges = 2
  MUTATIONS <- MCMutations
  Harnesses = {"h1", "h2"}
  HasPattern <- MCHasPattern
  Tests = {"t1", "t2"}
  Catches <- MCCatches
  OnGood <- MCOnGood
INVARIANTS GatesRunOnPinnedBytes FreshPinHolds OthersSeeOnlyWrittenCode
PROPERTIES VerdictIsTrue
CHECK_DEADLOCK FALSE
