\* A reconciler compensates what a slow executor has confirmed.
CONSTANTS
  Invocations = {a, b}
  Workers = {a, b}
  Fingerprints = {"main", "other"}
  Null = Null
  Conflicting = {}
  Sharing = {}
  SharedId = a
  WorkerOf <- Worker
  FingerprintOf <- Input
  HasCompensate = TRUE
  Faulty = {a, b}
  Persistent = {}
SPECIFICATION Spec
\* The system stops when every call has ended.
CHECK_DEADLOCK FALSE
INVARIANT ReceiptAnswersLaterCalls
