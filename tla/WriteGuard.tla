----------------------------- MODULE WriteGuard -----------------------------
(***************************************************************************)
(* WriteGuard.execute() of packages/sdk/src/index.ts over the PostgreSQL   *)
(* ledger: any number of invocations of one operation key, in one or many  *)
(* processes, against a provider that may lose responses and answer late.  *)
(*                                                                         *)
(* pc[i] names the call invocation i is about to make; every await of the  *)
(* code is a point where the other invocations, the provider and the       *)
(* clock may run.  An invocation ends "returned" (a receipt) or "threw".   *)
(*                                                                         *)
(* A store call whose transaction would throw takes the disjunct that      *)
(* leaves the ledger unchanged and throws to the caller.  Crash covers a   *)
(* process that dies, a connection lost before a transaction commits, and  *)
(* one lost after it committed but before the caller heard of it.          *)
(***************************************************************************)
EXTENDS PostgresOperationStore

CONSTANTS
  Invocations,    \* calls of execute() with this operation key
  WorkerOf,       \* workerIdFactory: the worker id of each invocation
  FingerprintOf,  \* the request fingerprint each invocation computes
  HasCompensate,  \* the application passes the optional compensate hook
  Faulty,         \* invocations that may crash or find the lookup unavailable
  Persistent      \* invocations whose caller calls again after an error

ASSUME InvocationAssumption ==
  /\ WorkerOf \in [Invocations -> Workers]
  /\ FingerprintOf \in [Invocations -> Fingerprints]
  /\ HasCompensate \in BOOLEAN
  /\ Faulty \subseteq Invocations
  /\ Persistent \subseteq Invocations

VARIABLES
  pc,             \* the next call of each invocation
  attempt,        \* the attempt number each invocation works under, or 0
  reply,          \* the status of the receipt each invocation returned
  executions,     \* times the application's execute hook was called
  compensations,  \* times its compensate hook was called
  inflight,       \* attempts whose provider request is not settled
  effects         \* attempts whose external effect exists at the provider

callVars == <<pc, attempt, reply>>
providerVars == <<executions, compensations, inflight, effects>>
vars == <<storeVars, callVars, providerVars>>

Calls ==
  {"claim", "markSubmitted", "execute", "await", "failPreSubmission",
   "failRejected", "markUnknown", "reconcile", "markUnavailable",
   "finalizeNeedsReview", "verify", "finalizeConfirmed", "markCompensating",
   "compensate", "finalizeCompensated", "finalizeCompensationFailed"}

TypeOK ==
  /\ StoreTypeOK
  /\ pc \in [Invocations -> Calls \cup {"returned", "threw"}]
  /\ attempt \in [Invocations -> Nat]
  /\ reply \in [Invocations -> TerminalStatuses \cup {"none"}]
  /\ executions \in Nat
  /\ compensations \in Nat
  /\ inflight \subseteq Nat
  /\ effects \subseteq Nat

Init ==
  /\ StoreInit
  /\ pc = [i \in Invocations |-> "claim"]
  /\ attempt = [i \in Invocations |-> 0]
  /\ reply = [i \in Invocations |-> "none"]
  /\ executions = 0
  /\ compensations = 0
  /\ inflight = {}
  /\ effects = {}

-----------------------------------------------------------------------------
(* Control                                                                 *)

Goto(i, call) ==
  /\ pc' = [pc EXCEPT ![i] = call]
  /\ UNCHANGED <<attempt, reply>>

\* Proceed under the attempt the store call has just inserted
GotoWithAttempt(i, call) ==
  /\ pc' = [pc EXCEPT ![i] = call]
  /\ attempt' = [attempt EXCEPT ![i] = Len(attempts')]
  /\ UNCHANGED reply

Throw(i) == Goto(i, "threw")

\* Mutant: the caller gets the status read before the transition
ReturnOldStatus(i, final) ==
  /\ pc' = [pc EXCEPT ![i] = "returned"]
  /\ reply' = [reply EXCEPT ![i] = status]
  /\ UNCHANGED attempt

Return(i, final) ==
  /\ pc' = [pc EXCEPT ![i] = "returned"]
  /\ reply' = [reply EXCEPT ![i] = final]
  /\ UNCHANGED attempt

\* finalizeX(): its transaction commits and the receipt is returned, or it
\* throws (illegal transition, second receipt) and rolls back.
Refused(i, to) == ~CanFinalize(to) /\ Throw(i) /\ UNCHANGED storeVars

-----------------------------------------------------------------------------
(* The claim loop of execute().  A poll that finds the operation in        *)
(* progress and sleeps again changes nothing and is a stuttering step.     *)

ClaimToExecute(i) ==
  /\ pc[i] = "claim"
  /\ \/ ClaimNew(WorkerOf[i], FingerprintOf[i])
     \/ ClaimReclaimed(WorkerOf[i], FingerprintOf[i])
  /\ Goto(i, "markSubmitted")
  /\ UNCHANGED providerVars

ClaimToReconcile(i) ==
  /\ pc[i] = "claim"
  /\ ClaimReconcile(WorkerOf[i], FingerprintOf[i])
  /\ GotoWithAttempt(i, "reconcile")
  /\ UNCHANGED providerVars

ClaimAnswered(i) ==
  /\ pc[i] = "claim"
  /\ ClaimTerminal(FingerprintOf[i])
  /\ Return(i, receipt.status)
  /\ UNCHANGED <<storeVars, providerVars>>

\* OperationInProgressError once waitTimeoutMs has passed,
\* OperationKeyConflictError, or the errors of an unanswerable row
ClaimThrows(i) ==
  /\ pc[i] = "claim"
  /\ \/ ClaimInProgress(FingerprintOf[i])
     \/ ClaimConflicts(FingerprintOf[i])
     \/ ClaimUnanswerable(FingerprintOf[i])
  /\ Throw(i)
  /\ UNCHANGED <<storeVars, providerVars>>

-----------------------------------------------------------------------------
(* Execution                                                               *)

Submit(i) ==
  /\ pc[i] = "markSubmitted"
  /\ \/ MarkSubmitted(WorkerOf[i]) /\ GotoWithAttempt(i, "execute")
     \/ ~CanSubmit(WorkerOf[i]) /\ Throw(i) /\ UNCHANGED storeVars
  /\ UNCHANGED providerVars

\* The execute hook is called: it fails before sending (PreSubmissionFailure)
\* or sends its request to the provider.
ExecuteHook(i) ==
  /\ pc[i] = "execute"
  /\ executions' = executions + 1
  /\ \/ Goto(i, "failPreSubmission") /\ UNCHANGED inflight
     \/ Goto(i, "await") /\ inflight' = inflight \cup {attempt[i]}
  /\ UNCHANGED <<storeVars, compensations, effects>>

\* The provider accepts a request; its answer may still be lost
ProviderApplies(a) ==
  /\ a \in inflight
  /\ inflight' = inflight \ {a}
  /\ effects' = effects \cup {a}
  /\ UNCHANGED <<storeVars, callVars, executions, compensations>>

\* The hook returns the provider's result
HookSucceeds(i) ==
  /\ pc[i] = "await"
  /\ attempt[i] \in effects
  /\ Goto(i, "verify")
  /\ UNCHANGED <<storeVars, providerVars>>

\* The provider refuses the request: ConfirmedExecutionFailure
HookRejected(i) ==
  /\ pc[i] = "await"
  /\ attempt[i] \in inflight
  /\ inflight' = inflight \ {attempt[i]}
  /\ Goto(i, "failRejected")
  /\ UNCHANGED <<storeVars, executions, compensations, effects>>

\* Mutant: a timeout counts as a failed write
HookTimeoutIsFailure(i) ==
  /\ pc[i] = "await"
  /\ Goto(i, "failRejected")
  /\ UNCHANGED <<storeVars, providerVars>>

\* Any other error of the hook: a timeout, a lost answer, an injected fault
HookOutcomeUnknown(i) ==
  /\ pc[i] = "await"
  /\ Goto(i, "markUnknown")
  /\ UNCHANGED <<storeVars, providerVars>>

FailureOutcome(call) ==
  IF call = "failPreSubmission" THEN "PRE_SUBMISSION_FAILURE"
                                ELSE "CONFIRMED_FAILURE"

RecordFailure(i) ==
  /\ pc[i] \in {"failPreSubmission", "failRejected"}
  /\ \/ FinalizeFailed(attempt[i], FailureOutcome(pc[i])) /\ Return(i, "FAILED")
     \/ Refused(i, "FAILED")
  /\ UNCHANGED providerVars

\* Mutant: a refused markUnknown is tried again instead of thrown
RecordUnknownUntilAccepted(i) ==
  /\ pc[i] = "markUnknown"
  /\ MarkUnknown(attempt[i])
  /\ Throw(i)
  /\ UNCHANGED providerVars

\* The caller gets UnknownExecutionOutcome, or the store's own error
RecordUnknown(i) ==
  /\ pc[i] = "markUnknown"
  /\ \/ MarkUnknown(attempt[i])
     \/ ~CanMoveTo("UNKNOWN") /\ UNCHANGED storeVars
  /\ Throw(i)
  /\ UNCHANGED providerVars

-----------------------------------------------------------------------------
(* reconcile()                                                             *)

\* The provider lookup: one match, no or several matches, or no answer.  A
\* lookup may miss an effect that exists (eventually consistent reads).
ReconcileHook(i) ==
  /\ pc[i] = "reconcile"
  /\ \/ effects # {} /\ Goto(i, "verify")
     \/ Goto(i, "finalizeNeedsReview")
     \/ i \in Faulty /\ Goto(i, "markUnavailable")
  /\ UNCHANGED <<storeVars, providerVars>>

\* The caller gets ReconciliationFailure, or the store's own error
RecordUnavailable(i) ==
  /\ pc[i] = "markUnavailable"
  /\ \/ MarkReconciliationUnavailable(attempt[i])
     \/ ~CanMoveTo("UNKNOWN") /\ UNCHANGED storeVars
  /\ Throw(i)
  /\ UNCHANGED providerVars

\* No match, several matches, a failed verification or a verify hook that threw
RecordNeedsReview(i) ==
  /\ pc[i] = "finalizeNeedsReview"
  /\ \/ FinalizeNeedsReview(attempt[i]) /\ Return(i, "NEEDS_REVIEW")
     \/ Refused(i, "NEEDS_REVIEW")
  /\ UNCHANGED providerVars

-----------------------------------------------------------------------------
(* verifyAndFinalize()                                                     *)

\* The application's postcondition: it holds only of an effect that exists,
\* and the check may fail or throw.
VerifyHook(i) ==
  /\ pc[i] = "verify"
  /\ \/ effects # {} /\ Goto(i, "finalizeConfirmed")
     \/ Goto(i, IF HasCompensate THEN "markCompensating"
                                 ELSE "finalizeNeedsReview")
     \/ Goto(i, "finalizeNeedsReview")
  /\ UNCHANGED <<storeVars, providerVars>>

\* Mutant: the source is read from the row instead of from the call
ReconciledByStatus(i) == status = "RECONCILING"

\* source = "reconciliation" passes duplicateExecutionPrevented = true
Reconciled(i) == attempts[attempt[i]].kind = "RECONCILIATION"

RecordConfirmed(i) ==
  /\ pc[i] = "finalizeConfirmed"
  /\ \/ FinalizeConfirmed(attempt[i], Reconciled(i)) /\ Return(i, "CONFIRMED")
     \/ Refused(i, "CONFIRMED")
  /\ UNCHANGED providerVars

BeginCompensation(i) ==
  /\ pc[i] = "markCompensating"
  /\ \/ MarkCompensating /\ Goto(i, "compensate")
     \/ ~CanMoveTo("COMPENSATING") /\ Throw(i) /\ UNCHANGED storeVars
  /\ UNCHANGED providerVars

\* The compensate hook succeeds, or throws with or without having undone
CompensateHook(i) ==
  /\ pc[i] = "compensate"
  /\ compensations' = compensations + 1
  /\ \/ effects' = {} /\ Goto(i, "finalizeCompensated")
     \/ effects' \in {effects, {}} /\ Goto(i, "finalizeCompensationFailed")
  /\ UNCHANGED <<storeVars, executions, inflight>>

\* The promise is returned without await inside the try block, so a rejected
\* finalizeCompensated is not caught there and reaches the caller.
RecordCompensated(i) ==
  /\ pc[i] = "finalizeCompensated"
  /\ \/ FinalizeCompensated(attempt[i]) /\ Return(i, "COMPENSATED")
     \/ Refused(i, "COMPENSATED")
  /\ UNCHANGED providerVars

RecordCompensationFailed(i) ==
  /\ pc[i] = "finalizeCompensationFailed"
  /\ \/ FinalizeCompensationFailed(attempt[i]) /\ Return(i, "NEEDS_REVIEW")
     \/ Refused(i, "NEEDS_REVIEW")
  /\ UNCHANGED providerVars

-----------------------------------------------------------------------------
(* Faults, callers and time                                                *)

\* The process dies, or the database call fails and its error reaches the
\* caller; a request already sent stays in flight.
Crash(i) ==
  /\ i \in Faulty
  /\ pc[i] \in Calls
  /\ Throw(i)
  /\ UNCHANGED <<storeVars, providerVars>>

\* A caller that saw an error calls execute() again with the same key
Retry(i) ==
  /\ i \in Persistent
  /\ pc[i] = "threw"
  /\ Goto(i, "claim")
  /\ UNCHANGED <<storeVars, providerVars>>

ClaimExpires == LeaseExpires /\ UNCHANGED <<callVars, providerVars>>

Step(i) ==
  \/ ClaimToExecute(i)
  \/ ClaimToReconcile(i)
  \/ ClaimAnswered(i)
  \/ ClaimThrows(i)
  \/ Submit(i)
  \/ ExecuteHook(i)
  \/ HookSucceeds(i)
  \/ HookRejected(i)
  \/ HookOutcomeUnknown(i)
  \/ RecordFailure(i)
  \/ RecordUnknown(i)
  \/ ReconcileHook(i)
  \/ RecordUnavailable(i)
  \/ RecordNeedsReview(i)
  \/ VerifyHook(i)
  \/ RecordConfirmed(i)
  \/ BeginCompensation(i)
  \/ CompensateHook(i)
  \/ RecordCompensated(i)
  \/ RecordCompensationFailed(i)

Next ==
  \/ \E i \in Invocations : Step(i) \/ Crash(i) \/ Retry(i)
  \/ \E a \in inflight : ProviderApplies(a)
  \/ ClaimExpires

Spec == Init /\ [][Next]_vars

\* A live process keeps running its call, a persistent caller keeps calling,
\* and database time passes; nothing obliges the provider to do anything.
Fairness ==
  /\ \A i \in Invocations : WF_vars(Step(i)) /\ WF_vars(Retry(i))
  /\ WF_vars(ClaimExpires)

FairSpec == Spec /\ Fairness

-----------------------------------------------------------------------------
(* Safety                                                                  *)

\* The execute hook runs at most once for an operation key, however many
\* callers, crashes, lease expiries and retries there are.
AtMostOneExecution == executions <= 1

\* The compensate hook runs at most once: an undo is never repeated.
AtMostOneCompensation == compensations <= 1

\* While the ledger says CONFIRMED the external effect exists.
ConfirmedEffectPresent == status = "CONFIRMED" => effects # {}

\* An effect that exists, or may still happen, is never hidden behind a status
\* that denies it: not started, FAILED or COMPENSATED.
NoEffectDenied ==
  effects \cup inflight # {} =>
    status \notin {"ABSENT", "PLANNED", "CLAIMED", "FAILED", "COMPENSATED"}

\* The status follows the receipt, except that a confirmed operation may be
\* taken into COMPENSATING by a reconciler that verified it differently.
StatusFollowsReceipt ==
  receipt # NoReceipt =>
    \/ status = receipt.status
    \/ status = "COMPENSATING" /\ receipt.status = "CONFIRMED"

\* All receipts returned to callers of the key carry the same verdict.
RepliesAgree ==
  \A i, j \in Invocations :
    reply[i] # "none" /\ reply[j] # "none" => reply[i] = reply[j]

\* A call whose material input differs from the first call's never gets past
\* the claim: it runs no hook and writes nothing.
ConflictingCallInert ==
  \A i \in Invocations :
    fingerprint # Null /\ FingerprintOf[i] # fingerprint =>
      pc[i] \in {"claim", "threw"} /\ attempt[i] = 0

\* A CONFIRMED receipt that reports a prevented duplicate rests on a
\* reconciliation attempt that found the effect, not on the execution.
PreventedConfirmationReconciled ==
  receipt.status = "CONFIRMED" /\ receipt.prevented =>
    \E n \in DOMAIN attempts :
      attempts[n] = [kind |-> "RECONCILIATION", outcome |-> "RECONCILED"]

\* The calls together implement the abstract single write: the hook calls are
\* its write and its undo, the receipt is its verdict.
Promise == INSTANCE ExternalWrite WITH
  writes <- executions, undos <- compensations, verdict <- receipt.status

ImplementsExternalWrite == Promise!WriteSpec

-----------------------------------------------------------------------------
(* Liveness                                                                *)

\* Every call ends: with a receipt or with an error, never in limbo.
CallsEnd ==
  \A i \in Invocations \ Persistent : <>(pc[i] \in {"returned", "threw"})

\* Without a compensate hook, a caller that keeps calling after errors ends
\* with the terminal receipt, whatever the other callers did and lost.
PersistentCallerAnswered ==
  \A i \in Persistent : <>(pc[i] = "returned")

-----------------------------------------------------------------------------
(* Statements of the documentation that the code does not keep             *)

\* docs/ARCHITECTURE.md: "A terminal receipt is returned unchanged to all
\* later same-key calls."
ReceiptAnswersLaterCalls == receipt # NoReceipt => ClaimTerminal(fingerprint)
==============================================================================
