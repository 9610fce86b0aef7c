\* Three observers, one without a lookup and one without a verification, and
\* one that reuses the key with other input; one of them may fail.
CONSTANTS
  Observers = {a, b, c, d}
  Conflicting = {d}
  FingerprintOf <- TwoInputs
  Reconciles = {a, b}
  Verifies = {a, c}
  Faulty = {a}
  Null = Null
SPECIFICATION Spec
\* The system stops when every observation has ended.
CHECK_DEADLOCK FALSE
INVARIANTS
  OneOriginal
  LatestNotOutdated
