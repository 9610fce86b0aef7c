------------------------ MODULE OperationStateMachine ------------------------
(***************************************************************************)
(* The status machine of a guarded operation: packages/core/src/models.ts  *)
(* and packages/core/src/state-machine.ts.  Both stores consult it before  *)
(* every status update; a move it does not list throws                     *)
(* IllegalStateTransitionError.                                            *)
(***************************************************************************)

\* operationStatuses
OperationStatuses ==
  {"PLANNED", "CLAIMED", "SUBMITTED", "UNKNOWN", "RECONCILING",
   "CONFIRMED", "FAILED", "COMPENSATING", "COMPENSATED", "NEEDS_REVIEW"}

\* terminalStatuses: the statuses a receipt may carry
TerminalStatuses == {"CONFIRMED", "FAILED", "COMPENSATED", "NEEDS_REVIEW"}

\* AttemptOutcome
AttemptOutcomes ==
  {"RUNNING", "CONFIRMED", "CONFIRMED_FAILURE", "PRE_SUBMISSION_FAILURE",
   "UNKNOWN", "RECONCILED", "RECONCILIATION_UNAVAILABLE", "NEEDS_REVIEW",
   "COMPENSATED", "COMPENSATION_FAILED"}

AttemptKinds == {"EXECUTION", "RECONCILIATION"}

\* legalTransitions
LegalTransitions ==
  [PLANNED      |-> {"CLAIMED"},
   CLAIMED      |-> {"SUBMITTED", "FAILED"},
   SUBMITTED    |-> {"CONFIRMED", "FAILED", "UNKNOWN", "COMPENSATING",
                     "NEEDS_REVIEW"},
   UNKNOWN      |-> {"RECONCILING", "NEEDS_REVIEW"},
   RECONCILING  |-> {"CONFIRMED", "FAILED", "UNKNOWN", "COMPENSATING",
                     "NEEDS_REVIEW"},
   CONFIRMED    |-> {"COMPENSATING"},
   FAILED       |-> {},
   COMPENSATING |-> {"COMPENSATED", "NEEDS_REVIEW"},
   COMPENSATED  |-> {},
   NEEDS_REVIEW |-> {}]

\* Mutants: the table with one move too many (a second compensation, a late
\* confirmation of what is being compensated, a compensation or a confirmation
\* after review)
OrCompensateTwice(from, to) ==
  to \in LegalTransitions[from] \/ <<from, to>> = <<"COMPENSATING", "COMPENSATING">>
OrConfirmLate(from, to) ==
  to \in LegalTransitions[from] \/ <<from, to>> = <<"COMPENSATING", "CONFIRMED">>
OrCompensateReviewed(from, to) ==
  to \in LegalTransitions[from] \/ <<from, to>> = <<"NEEDS_REVIEW", "COMPENSATING">>
OrConfirmReviewed(from, to) ==
  to \in LegalTransitions[from] \/ <<from, to>> = <<"NEEDS_REVIEW", "CONFIRMED">>

\* canTransition / assertTransition
CanTransition(from, to) == to \in LegalTransitions[from]
==============================================================================
