\* Two projects, one scaffolded before, three probes and an ADR; two edits.
SPECIFICATION Spec
CONSTANTS
  SlugOrder <- MCSlugOrder
  PROBES <- MCProbes
  RECON <- MCRecon
  ADRS <- MCAdrs
  Answers <- MCAnswers
  AskedOf <- MCAskedOf
  Begun = {"lost"}
  PlannedDepths = {"deep"}
  DisplayNames <- MCNames
  Rows <- MCRows
  MaxEdits = 2
  MaxBehind = 1
  None = None
INVARIANTS GreenIsTrue ReconIdempotent ToolsKeepFilesReadable
PROPERTIES HumanWorkSurvives
CHECK_DEADLOCK FALSE
