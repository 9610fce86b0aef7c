----------------------- MODULE InMemoryOperationStore -----------------------
(***************************************************************************)
(* packages/core/src/memory-store.ts: the ledger of tests and demos.  Its  *)
(* methods run one at a time behind a promise lock and take the decisions  *)
(* of the PostgreSQL ledger, with two differences: a method that throws    *)
(* keeps what it assigned before it threw, and receipts.set() replaces a   *)
(* receipt where the table has a UNIQUE constraint.                        *)
(***************************************************************************)
EXTENDS PostgresOperationStore

\* claim(): decision for decision the claim of the durable ledger; none of
\* its transitions can be refused after an assignment.
MemClaim(w, fp) == Claim(w, fp)

\* markSubmitted(): both checks come before the first assignment
MemMarkSubmitted(w) == MarkSubmitted(w)

\* assertTransition throws after the attempt was assigned to: the attempt
\* keeps the outcome of a call that was refused.
LeaveOutcome(attemptId, outcome, to) ==
  /\ ~CanMoveTo(to)
  /\ SetOutcome(attemptId, outcome)
  /\ UNCHANGED <<status, fingerprint, owner, lease, receipt>>

\* markUnknown() and markReconciliationUnavailable(), accepted
MemMarkUnknown(attemptId, outcome) ==
  /\ SetOutcome(attemptId, outcome)
  /\ Transition("UNKNOWN")
  /\ ReleaseClaim
  /\ UNCHANGED <<fingerprint, receipt>>

\* createReceipt(): clear the claim, receipts.set()
CreateReceipt(final, prevented) ==
  /\ ReleaseClaim
  /\ receipt' = [status |-> final, prevented |-> prevented]

\* Mutant: the outcome goes to the latest attempt instead of the caller's
MemFinalizeLatest(attemptId, outcome, final, prevented) ==
  /\ SetOutcome(Len(attempts), outcome)
  /\ Transition(final)
  /\ CreateReceipt(final, prevented)
  /\ UNCHANGED fingerprint

\* A finalize method that is accepted
MemFinalize(attemptId, outcome, final, prevented) ==
  /\ SetOutcome(attemptId, outcome)
  /\ Transition(final)
  /\ CreateReceipt(final, prevented)
  /\ UNCHANGED fingerprint

\* finalizeConfirmed() reads the status before the transition
ConfirmedOutcome == IF status = "RECONCILING" THEN "RECONCILED" ELSE "CONFIRMED"

-----------------------------------------------------------------------------
(* The most general client                                                 *)

\* The finalize methods: the outcome they assign and the status they enter
MemFinalizeAny(n) ==
  \/ \E prevented \in BOOLEAN :
       MemFinalize(n, ConfirmedOutcome, "CONFIRMED", prevented)
  \/ \E outcome \in {"PRE_SUBMISSION_FAILURE", "CONFIRMED_FAILURE"} :
       MemFinalize(n, outcome, "FAILED", FALSE)
  \/ MemFinalize(n, "NEEDS_REVIEW", "NEEDS_REVIEW", TRUE)
  \/ MemFinalize(n, "COMPENSATED", "COMPENSATED", FALSE)
  \/ MemFinalize(n, "COMPENSATION_FAILED", "NEEDS_REVIEW", FALSE)

MemMarkUnknownAny(n) ==
  \E outcome \in {"UNKNOWN", "RECONCILIATION_UNAVAILABLE"} :
    MemMarkUnknown(n, outcome) \/ LeaveOutcome(n, outcome, "UNKNOWN")

\* The calls that are refused, by the outcome they leave behind
MemRefusedAny(n) ==
  \/ LeaveOutcome(n, ConfirmedOutcome, "CONFIRMED")
  \/ \E outcome \in {"PRE_SUBMISSION_FAILURE", "CONFIRMED_FAILURE"} :
       LeaveOutcome(n, outcome, "FAILED")
  \/ \E outcome \in {"NEEDS_REVIEW", "COMPENSATION_FAILED"} :
       LeaveOutcome(n, outcome, "NEEDS_REVIEW")
  \/ LeaveOutcome(n, "COMPENSATED", "COMPENSATED")

MemStoreNext ==
  \/ \E w \in Workers, fp \in Fingerprints : MemClaim(w, fp)
  \/ \E w \in Workers : MemMarkSubmitted(w)
  \/ \E n \in DOMAIN attempts :
       MemFinalizeAny(n) \/ MemMarkUnknownAny(n) \/ MemRefusedAny(n)
  \/ MarkCompensating
  \/ LeaseExpires

MemStoreSpec == StoreInit /\ [][MemStoreNext]_storeVars

-----------------------------------------------------------------------------
\* The one way a receipt is replaced: a CONFIRMED operation was taken into
\* COMPENSATING, and the undo (or its failure) writes the new verdict.  Late
\* results of superseded attempts never replace a receipt.
ReceiptReplacedOnlyByUndo ==
  [][receipt # NoReceipt /\ receipt' # receipt =>
       /\ status = "COMPENSATING" /\ receipt.status = "CONFIRMED"
       /\ receipt'.status \in {"COMPENSATED", "NEEDS_REVIEW"}]_storeVars
==============================================================================
