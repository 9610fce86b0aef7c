\* Four callers of one key, two of them under one worker id, and a fifth that
\* reuses the key with other input; all may crash.
CONSTANTS
  Invocations = {a, b, c, d, e}
  Conflicting = {e}
  Sharing = {a, b}
  SharedId = w
  Workers = {w, c, d, e}
  Fingerprints = {"main", "other"}
  Null = Null
  WorkerOf <- Worker
  FingerprintOf <- Input
  HasCompensate = TRUE
  Faulty = {a, b, c, d, e}
  Persistent = {}
SPECIFICATION Spec
SYMMETRY Symmetry
\* The system stops when every call has ended.
CHECK_DEADLOCK FALSE
INVARIANTS
  TypeOK
  AtMostOneExecution
  AtMostOneCompensation
  ConfirmedEffectPresent
  NoEffectDenied
  StatusFollowsReceipt
  RepliesAgree
  PreventedConfirmationReconciled
  ConflictingCallInert
PROPERTIES
  ImplementsExternalWrite
