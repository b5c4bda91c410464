\* Two callers, two runs, two ids that two tools are asked for.
SPECIFICATION Spec
CONSTANTS
  Harnesses = {h1}
  Callers = {c1, c2}
  Runs = {"r1", "r2"}
  Ids = {"k1", "k2"}
  Calls <- MCCalls
  Requests <- MCRequests
  Turns <- MCTurns
  Tools = {"read_doc", "charge_card", "web_search"}
  NATIVE_TOOL_NAMES = {"web_search"}
  Impls = {b1, b2}
  None = None
SYMMETRY Symmetry
INVARIANTS BodyMatchesRow ParkedNeedsApproval ClaimsAreAttended
PROPERTIES KeepsPromise
CHECK_DEADLOCK FALSE
