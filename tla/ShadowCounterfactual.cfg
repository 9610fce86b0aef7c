\* Two observers of one key, neither of which fails.
CONSTANTS
  Observers = {a, b}
  Conflicting = {}
  FingerprintOf <- TwoInputs
  Reconciles = {a, b}
  Verifies = {a, b}
  Faulty = {}
  Null = Null
SPECIFICATION Spec
CHECK_DEADLOCK FALSE
INVARIANTS
  SomeInvocationNotSuppressed
