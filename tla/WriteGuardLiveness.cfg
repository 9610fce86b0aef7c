\* Two callers that fail in every way and one that keeps calling.
CONSTANTS
  Invocations = {a, b, c}
  Workers = {a, b, c}
  Fingerprints = {"main", "other"}
  Null = Null
  Conflicting = {}
  Sharing = {}
  SharedId = a
  WorkerOf <- Worker
  FingerprintOf <- Input
  HasCompensate = FALSE
  Faulty = {a, b}
  Persistent = {c}
SPECIFICATION FairSpec
\* The system stops when every call has ended.
CHECK_DEADLOCK FALSE
PROPERTIES
  CallsEnd
  PersistentCallerAnswered
