\* Four callers in one process, with a compensate hook.
CONSTANTS
  Invocations = {a, b, c, d}
  Workers = {a, b, c, d}
  Fingerprints = {"main"}
  Null = Null
  WorkerOf <- OwnWorker
  FingerprintOf <- OneInput
  HasCompensate = TRUE
  Faulty = {a, b, c, d}
  Persistent = {}
SPECIFICATION MemSpec
SYMMETRY Symmetry
\* The system stops when every call has ended.
CHECK_DEADLOCK FALSE
INVARIANTS
  AtMostOneExecution
  ReceiptExplained
PROPERTIES
  ReceiptReplacedOnlyByUndo
  ImplementsMemStore
