\* Four calls, two of which may fail, against every kind of provider.
CONSTANTS
  Scenarios = {"success", "timeout_after_success", "ambiguous_matches",
               "reconciliation_unavailable"}
  Runs = {a, b, c, d}
  Faulty = {a, b}
SPECIFICATION Spec
\* The system stops when every call has ended.
CHECK_DEADLOCK FALSE
INVARIANTS
  OneRefund
  ConfirmedHasRefund
  LateCallConfirms
