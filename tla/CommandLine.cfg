\* Two terminals, three commands, one edit, one command killed, one retry of
\* a rename.
CONSTANTS
  t1 = t1
  t2 = t2
  Terminals = {t1, t2}
  Definitions <- TwoDefinitions
  Responses <- FourResponses
  SelectionEdits <- DraftEdits
  UnsafeNames = {"__proto__", "prototype", "constructor"}
  AnalyzerModel = "gpt-5.6"
  SupportedScenarios = {"duplicate_invocation", "concurrent_invocations"}
  MaxFieldDepth = 3
  MaxTypeDepth = 3
  MaxProperties = 6
  FileCount = 2
  MaxCommands = 3
  MaxEdits = 1
  MaxCrashes = 1
  MaxRenameRetries = 1
SPECIFICATION Spec
SYMMETRY TerminalSymmetry
\* The bounds end the work of the terminals.
CHECK_DEADLOCK FALSE
INVARIANTS
  ProjectFromOneApproval
  EndedCommandsHonest
PROPERTIES
  PublishedProjectFinal
