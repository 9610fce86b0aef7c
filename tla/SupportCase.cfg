\* Two runs that fail in every way and one that is made again after errors.
CONSTANTS
  Apps = {"support", "starter"}
  Runs = {a, b, c}
  Faulty = {a, b}
  Persistent = {c}
SPECIFICATION FairSpec
\* The system stops when every run has ended.
CHECK_DEADLOCK FALSE
INVARIANTS
  ResolvedMeansRefunded
  PendingExplained
PROPERTIES
  ConfirmedCaseResolved
