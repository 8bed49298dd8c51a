SPECIFICATION Spec
CONSTANTS
  p = p
  q = q
  Paths = {p, q}
  ProfilePath = p
  NoPath = NoPath
  MaxRuns = 3
  MaxStarts = 2
INVARIANTS
  SavedAtExit
  ReportFresh
  ReportWhole
PROPERTIES
  StartedInEitherOrder
\* The processes are bounded.
CHECK_DEADLOCK FALSE
