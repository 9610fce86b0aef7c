------------------------- MODULE WriteGuardInMemory -------------------------
(***************************************************************************)
(* The same SDK calls over the in-memory ledger, in one process.  A call   *)
(* cannot lose its ledger; it ends early only where an application hook    *)
(* outside any try block throws (getProviderReference, the evidence hook). *)
(* A hook that never settles is a call that takes no further step.         *)
(***************************************************************************)
EXTENDS WriteGuard, InMemoryOperationStore

\* A finalize call of invocation i: accepted, or refused by assertTransition
MemRecord(i, call, outcome, final, prevented) ==
  /\ pc[i] = call
  /\ \/ MemFinalize(attempt[i], outcome, final, prevented) /\ Return(i, final)
     \/ LeaveOutcome(attempt[i], outcome, final) /\ Throw(i)
  /\ UNCHANGED providerVars

MemRecordConfirmed(i) ==
  MemRecord(i, "finalizeConfirmed", ConfirmedOutcome, "CONFIRMED", Reconciled(i))

MemRecordFailure(i) ==
  \E call \in {"failPreSubmission", "failRejected"} :
    MemRecord(i, call, FailureOutcome(call), "FAILED", FALSE)

MemRecordNeedsReview(i) ==
  MemRecord(i, "finalizeNeedsReview", "NEEDS_REVIEW", "NEEDS_REVIEW", TRUE)

MemRecordCompensated(i) ==
  MemRecord(i, "finalizeCompensated", "COMPENSATED", "COMPENSATED", FALSE)

\* Mutant: the failed undo is recorded as done
MemRecordCompensationFailedAsDone(i) ==
  MemRecord(i, "finalizeCompensationFailed", "COMPENSATION_FAILED",
            "COMPENSATED", FALSE)

MemRecordCompensationFailed(i) ==
  MemRecord(i, "finalizeCompensationFailed", "COMPENSATION_FAILED",
            "NEEDS_REVIEW", FALSE)

\* markUnknown and markReconciliationUnavailable; both callers throw after it
MemRecordUnknown(i) ==
  /\ \E call \in {"markUnknown", "markUnavailable"} :
       /\ pc[i] = call
       /\ LET outcome == IF call = "markUnknown" THEN "UNKNOWN"
                                                 ELSE "RECONCILIATION_UNAVAILABLE"
          IN  \/ MemMarkUnknown(attempt[i], outcome)
              \/ LeaveOutcome(attempt[i], outcome, "UNKNOWN")
  /\ Throw(i)
  /\ UNCHANGED providerVars

\* getProviderReference or getVerificationEvidence throws
UnguardedHookThrows(i) ==
  /\ i \in Faulty
  /\ pc[i] = "verify"
  /\ Throw(i)
  /\ UNCHANGED <<storeVars, providerVars>>

MemStep(i) ==
  \/ ClaimToExecute(i)
  \/ ClaimToReconcile(i)
  \/ ClaimAnswered(i)
  \/ ClaimThrows(i)
  \/ Submit(i)
  \/ ExecuteHook(i)
  \/ HookSucceeds(i)
  \/ HookRejected(i)
  \/ HookOutcomeUnknown(i)
  \/ MemRecordFailure(i)
  \/ MemRecordUnknown(i)
  \/ ReconcileHook(i)
  \/ MemRecordNeedsReview(i)
  \/ VerifyHook(i)
  \/ MemRecordConfirmed(i)
  \/ BeginCompensation(i)
  \/ CompensateHook(i)
  \/ MemRecordCompensated(i)
  \/ MemRecordCompensationFailed(i)
  \/ UnguardedHookThrows(i)

MemNext ==
  \/ \E i \in Invocations : MemStep(i)
  \/ \E a \in inflight : ProviderApplies(a)
  \/ ClaimExpires

MemSpec == Init /\ [][MemNext]_vars

-----------------------------------------------------------------------------
\* Every receipt still has an attempt with its verdict, although a refused
\* call marks its own attempt too: the timeline explains the receipt.
ReceiptExplained ==
  receipt # NoReceipt =>
    \E n \in DecidingAttempts : VerdictOf[attempts[n].outcome] = receipt.status

\* The SDK's calls are calls of the in-memory ledger's general client, so what
\* is proved of that client holds of them: no path of the SDK marks an attempt
\* or writes a receipt outside the store's methods.
ImplementsMemStore == MemStoreSpec
==============================================================================
