\* The ledger under every order of method calls.
CONSTANTS
  Workers = {w1, w2}
  Fingerprints = {f1, f2}
  Null = Null
  MaxAttempts = 5
SPECIFICATION MCSpec
SYMMETRY Symmetry
\* The ledger of a key rests once its receipt is written.
CHECK_DEADLOCK FALSE
INVARIANTS
  AtMostOneSubmission
  TerminalHasReceipt
  LeasedAttemptRunning
  VerdictHasItsAttempt
PROPERTIES
  ReceiptImmutable
