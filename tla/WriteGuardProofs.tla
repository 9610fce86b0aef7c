-------------------------- MODULE WriteGuardProofs --------------------------
(***************************************************************************)
(* Theorems about WriteGuard.execute() for any set of invocations, any     *)
(* assignment of worker ids (unique or not) and fingerprints, any crashes, *)
(* retries and lease expiries: over the PostgreSQL ledger, and at the end  *)
(* over the in-memory one.                                                 *)
(***************************************************************************)
EXTENDS WriteGuardInMemory, OperationStoreProofs

-----------------------------------------------------------------------------
(* The inductive invariant                                                 *)

\* Calls made with an attempt number in hand
WithAttempt == Calls \ {"claim", "markSubmitted"}

AttemptsInRange ==
  \A i \in Invocations :
    pc[i] \in WithAttempt => attempt[i] \in DOMAIN attempts

\* Statuses of a key nobody has submitted yet
Fresh == {"ABSENT", "PLANNED", "CLAIMED"}

\* Calls that only follow a call of the execute hook
AfterExecution ==
  {"await", "failPreSubmission", "failRejected", "verify", "finalizeConfirmed",
   "markCompensating", "compensate", "finalizeCompensated",
   "finalizeCompensationFailed"}

\* The right to call the hook exists once: it is created by leaving Fresh and
\* used up by the call.
ExecutionInv ==
  /\ executions \in {0, 1}
  /\ status \in Fresh =>
       executions = 0 /\ \A i \in Invocations : pc[i] # "execute"
  /\ \A i \in Invocations : pc[i] = "execute" => executions = 0
  /\ \A i, j \in Invocations : pc[i] = "execute" /\ pc[j] = "execute" => i = j
  /\ inflight \cup effects # {} => executions = 1
  /\ \A i \in Invocations : pc[i] \in AfterExecution => executions = 1

\* Statuses a key never leaves once its compensation has begun
Compensated == {"COMPENSATING", "COMPENSATED", "NEEDS_REVIEW"}

\* Likewise the right to call the compensate hook
CompensationInv ==
  /\ compensations \in {0, 1}
  /\ status \notin Compensated =>
       compensations = 0 /\ \A i \in Invocations : pc[i] # "compensate"
  /\ \A i \in Invocations : pc[i] = "compensate" => compensations = 0
  /\ \A i, j \in Invocations : pc[i] = "compensate" /\ pc[j] = "compensate" => i = j
  /\ \A i \in Invocations : pc[i] = "finalizeCompensated" => compensations = 1

IInv == TypeOK /\ AttemptsInRange /\ ExecutionInv /\ CompensationInv

\* The steps that are the same over both ledgers
SharedStep(i) ==
  \/ ClaimToExecute(i) \/ ClaimToReconcile(i) \/ ClaimAnswered(i)
  \/ ClaimThrows(i) \/ Submit(i) \/ ExecuteHook(i) \/ HookSucceeds(i)
  \/ HookRejected(i) \/ HookOutcomeUnknown(i) \/ ReconcileHook(i)
  \/ VerifyHook(i) \/ BeginCompensation(i) \/ CompensateHook(i)

\* What the proofs about calls need to know of a step of either ledger:
\* attempts are only added, a key that left Fresh never returns to it, and one
\* whose compensation began only goes on to COMPENSATED or NEEDS_REVIEW.
StoreProgress ==
  /\ StoreTypeOK'
  /\ DOMAIN attempts \subseteq DOMAIN attempts'
  /\ status' \in Fresh => status \in Fresh
  /\ status \in Compensated => status' \in Compensated

-----------------------------------------------------------------------------
(* Every step of the SDK is a step of the ledger's general client          *)

LEMMA StoreStep ==
  ASSUME TypeOK, AttemptsInRange, [Next]_vars
  PROVE  [StoreNext]_storeVars
<1> USE InvocationAssumption DEF WithAttempt, Calls
<1>1. CASE UNCHANGED storeVars
  BY <1>1
<1>2. CASE ClaimExpires
  BY <1>2 DEF ClaimExpires, StoreNext
<1>3. ASSUME NEW i \in Invocations, ClaimToExecute(i) \/ ClaimToReconcile(i)
      PROVE  StoreNext
  <2>1. Claim(WorkerOf[i], FingerprintOf[i])
    BY <1>3 DEF ClaimToExecute, ClaimToReconcile, Claim
  <2> QED BY <2>1 DEF StoreNext
<1>4. ASSUME NEW i \in Invocations, Submit(i)
      PROVE  [StoreNext]_storeVars
  BY <1>4 DEF Submit, StoreNext
<1>5. ASSUME NEW i \in Invocations, pc[i] \in WithAttempt
      PROVE  attempt[i] \in DOMAIN attempts
  BY <1>5 DEF AttemptsInRange
<1>6. ASSUME NEW i \in Invocations, RecordUnknown(i) \/ RecordUnavailable(i)
      PROVE  [StoreNext]_storeVars
  BY <1>5, <1>6 DEF RecordUnknown, RecordUnavailable, StoreNext
<1>7. ASSUME NEW i \in Invocations,
             \/ RecordFailure(i) \/ RecordNeedsReview(i) \/ RecordConfirmed(i)
             \/ RecordCompensated(i) \/ RecordCompensationFailed(i)
      PROVE  [StoreNext]_storeVars
  <2>1. pc[i] \in WithAttempt
    BY <1>7 DEF RecordFailure, RecordNeedsReview, RecordConfirmed,
       RecordCompensated, RecordCompensationFailed
  <2>2. Reconciled(i) \in BOOLEAN
    BY DEF Reconciled
  <2>3. FailureOutcome(pc[i]) \in {"PRE_SUBMISSION_FAILURE", "CONFIRMED_FAILURE"}
    BY DEF FailureOutcome
  <2>4. Finalize(attempt[i]) \/ UNCHANGED storeVars
    BY <1>7, <2>2, <2>3 DEF RecordFailure, RecordNeedsReview, RecordConfirmed,
       RecordCompensated, RecordCompensationFailed, Refused, Finalize
  <2> QED BY <1>5, <2>1, <2>4 DEF StoreNext
<1>8. ASSUME NEW i \in Invocations, BeginCompensation(i)
      PROVE  [StoreNext]_storeVars
  BY <1>8 DEF BeginCompensation, StoreNext
<1>9. ASSUME NEW i \in Invocations,
             \/ ClaimAnswered(i) \/ ClaimThrows(i) \/ ExecuteHook(i)
             \/ HookSucceeds(i) \/ HookRejected(i) \/ HookOutcomeUnknown(i)
             \/ ReconcileHook(i) \/ VerifyHook(i) \/ CompensateHook(i)
             \/ Crash(i) \/ Retry(i)
      PROVE  UNCHANGED storeVars
  BY <1>9 DEF ClaimAnswered, ClaimThrows, ExecuteHook, HookSucceeds, HookRejected,
     HookOutcomeUnknown, ReconcileHook, VerifyHook, CompensateHook, Crash, Retry
<1>10. ASSUME NEW a, ProviderApplies(a)
       PROVE  UNCHANGED storeVars
  BY <1>10 DEF ProviderApplies
<1>11. CASE UNCHANGED vars
  BY <1>11 DEF vars
<1> QED
  BY <1>2, <1>3, <1>4, <1>6, <1>7, <1>8, <1>9, <1>10, <1>11 DEF Next, Step

\* Attempts are only ever added.
LEMMA AttemptsGrow ==
  ASSUME StoreTypeOK, [StoreNext]_storeVars
  PROVE  DOMAIN attempts \subseteq DOMAIN attempts'
<1>0. /\ attempts \in Seq(Attempts) /\ attempts' \in Seq(Attempts)
      /\ Len(attempts) \in Nat
      /\ DOMAIN attempts = 1..Len(attempts)
      /\ DOMAIN attempts' = 1..Len(attempts')
  BY StoreTypeStep, LenProperties DEF StoreTypeOK
<1>1. ASSUME NEW s \in Seq(Attempts), NEW k \in AttemptKinds,
             Len(s) = Len(attempts), StartAttempt(s, k)
      PROVE  DOMAIN attempts \subseteq DOMAIN attempts'
  BY <1>0, <1>1, StartAttemptKeeps DEF StartAttempt
<1>2. ASSUME NEW n, NEW o \in AttemptOutcomes, SetOutcome(n, o)
      PROVE  DOMAIN attempts \subseteq DOMAIN attempts'
  BY <1>0, <1>2, SetOutcomeKeeps DEF SetOutcome
<1>3. ASSUME NEW w \in Workers, NEW fp \in Fingerprints, ClaimReconcile(w, fp)
      PROVE  DOMAIN attempts \subseteq DOMAIN attempts'
  <2>1. ASSUME NEW o \in AttemptOutcomes
        PROVE  /\ WithLatestRunningClosed(o) \in Seq(Attempts)
               /\ Len(WithLatestRunningClosed(o)) = Len(attempts)
    BY <1>0, CloseLatestKeeps
  <2>2. \E s \in Seq(Attempts) :
           Len(s) = Len(attempts) /\ StartReconciliation(w, s)
    BY <1>0, <1>3, <2>1 DEF ClaimReconcile, AttemptOutcomes
  <2> QED BY <1>1, <2>2 DEF StartReconciliation, AttemptKinds
<1>4. ASSUME NEW w \in Workers, MarkSubmitted(w)
      PROVE  DOMAIN attempts \subseteq DOMAIN attempts'
  BY <1>0, <1>1, <1>4 DEF MarkSubmitted, AttemptKinds
<1>5. ASSUME NEW n \in DOMAIN attempts,
             MarkUnknown(n) \/ MarkReconciliationUnavailable(n) \/ Finalize(n)
      PROVE  DOMAIN attempts \subseteq DOMAIN attempts'
  BY <1>2, <1>5 DEF MarkUnknown, MarkReconciliationUnavailable, Finalize,
     FinalizeConfirmed, FinalizeFailed, FinalizeNeedsReview,
     FinalizeCompensated, FinalizeCompensationFailed, AttemptOutcomes
<1>6. CASE UNCHANGED attempts
  BY <1>6
<1> QED
  BY <1>3, <1>4, <1>5, <1>6 DEF StoreNext, Claim, ClaimNew, ClaimReclaimed,
     MarkCompensating, LeaseExpires, storeVars

\* A key that left Fresh never returns to it, and one whose compensation began
\* only goes on to COMPENSATED or NEEDS_REVIEW.
LEMMA StatusStep ==
  ASSUME StoreTypeOK, [StoreNext]_storeVars
  PROVE  /\ status \notin Fresh => status' \notin Fresh
         /\ status \in Compensated => status' \in Compensated
<1> USE DEF Fresh, Compensated
<1>1. CASE UNCHANGED status
  BY <1>1
<1>2. CASE \E w \in Workers, fp \in Fingerprints : Claim(w, fp)
  BY <1>2 DEF Claim, ClaimNew, ClaimReclaimed, ClaimReconcile, StartReconciliation
<1>3. ASSUME NEW to \in OperationStatuses, Transition(to)
      PROVE  /\ to \notin Fresh \/ status = "PLANNED"
             /\ status \in Compensated => to \in Compensated
             /\ status' = to
  BY <1>3 DEF Transition, CanMoveTo, CanTransition, LegalTransitions,
     StoreTypeOK, OperationStatuses
<1>4. CASE \/ \E w \in Workers : MarkSubmitted(w)
           \/ \E n \in DOMAIN attempts :
                MarkUnknown(n) \/ MarkReconciliationUnavailable(n) \/ Finalize(n)
           \/ MarkCompensating
  <2>1. \E to \in OperationStatuses : Transition(to)
    BY <1>4 DEF MarkSubmitted, MarkUnknown, MarkReconciliationUnavailable,
       MarkCompensating, Finalize, FinalizeConfirmed, FinalizeFailed,
       FinalizeNeedsReview, FinalizeCompensated, FinalizeCompensationFailed,
       OperationStatuses
  <2> QED BY <1>3, <2>1
<1>5. CASE LeaseExpires
  BY <1>5 DEF LeaseExpires
<1> QED BY <1>1, <1>2, <1>4, <1>5 DEF StoreNext, storeVars

LEMMA StoreProgresses ==
  ASSUME TypeOK, AttemptsInRange, [Next]_vars
  PROVE  StoreProgress
  BY StoreStep, StoreTypeStep, AttemptsGrow, StatusStep DEF TypeOK, StoreProgress

-----------------------------------------------------------------------------
(* Types, and attempt numbers that exist                                   *)

CallTypeOK ==
  /\ pc \in [Invocations -> Calls \cup {"returned", "threw"}]
  /\ attempt \in [Invocations -> Nat]
  /\ reply \in [Invocations -> TerminalStatuses \cup {"none"}]

\* Moving on with the attempt number in hand
LEMMA GotoKeeps ==
  ASSUME TypeOK, AttemptsInRange, StoreProgress,
         NEW i \in Invocations, NEW call \in Calls \cup {"threw"}, Goto(i, call),
         call \in WithAttempt => pc[i] \in WithAttempt
  PROVE  CallTypeOK' /\ AttemptsInRange'
<1>1. DOMAIN attempts \subseteq DOMAIN attempts'
  BY DEF StoreProgress
<1>2. pc' = [pc EXCEPT ![i] = call] /\ UNCHANGED <<attempt, reply>>
  BY DEF Goto
<1>3. CallTypeOK'
  BY <1>2 DEF TypeOK, CallTypeOK
<1>4. AttemptsInRange'
  BY <1>1, <1>2 DEF TypeOK, AttemptsInRange
<1> QED BY <1>3, <1>4

\* Moving on with the attempt just recorded
LEMMA GotoWithAttemptKeeps ==
  ASSUME TypeOK, AttemptsInRange, StoreProgress,
         NEW i \in Invocations, NEW call \in Calls, GotoWithAttempt(i, call),
         attempts' # <<>>
  PROVE  CallTypeOK' /\ AttemptsInRange'
<1>1. /\ DOMAIN attempts \subseteq DOMAIN attempts'
      /\ attempts' \in Seq(Attempts)
  BY DEF StoreProgress, StoreTypeOK
<1>2. Len(attempts') \in Nat /\ Len(attempts') \in DOMAIN attempts'
  BY <1>1, LenProperties, EmptySeq
<1>3. /\ pc' = [pc EXCEPT ![i] = call]
      /\ attempt' = [attempt EXCEPT ![i] = Len(attempts')]
      /\ reply' = reply
  BY DEF GotoWithAttempt
<1>4. CallTypeOK'
  BY <1>2, <1>3 DEF TypeOK, CallTypeOK
<1>5. AttemptsInRange'
  BY <1>1, <1>2, <1>3 DEF TypeOK, AttemptsInRange
<1> QED BY <1>4, <1>5

\* Returning a receipt
LEMMA ReturnKeeps ==
  ASSUME TypeOK, AttemptsInRange, StoreProgress,
         NEW i \in Invocations, NEW final \in TerminalStatuses, Return(i, final)
  PROVE  CallTypeOK' /\ AttemptsInRange'
<1>1. DOMAIN attempts \subseteq DOMAIN attempts'
  BY DEF StoreProgress
<1>2. /\ pc' = [pc EXCEPT ![i] = "returned"]
      /\ reply' = [reply EXCEPT ![i] = final]
      /\ attempt' = attempt
  BY DEF Return
<1>3. CallTypeOK'
  BY <1>2 DEF TypeOK, CallTypeOK
<1>4. AttemptsInRange'
  BY <1>1, <1>2 DEF TypeOK, AttemptsInRange, WithAttempt, Calls
<1> QED BY <1>3, <1>4

LEMMA SharedCallStep ==
  ASSUME TypeOK, AttemptsInRange, StoreProgress, NEW i \in Invocations, SharedStep(i)
  PROVE  CallTypeOK' /\ AttemptsInRange'
<1>1. CASE ClaimToExecute(i)
  BY <1>1, GotoKeeps DEF ClaimToExecute, WithAttempt, Calls
<1>2. CASE ClaimThrows(i)
  BY <1>2, GotoKeeps DEF ClaimThrows, Throw, WithAttempt, Calls
<1>3. CASE \/ ExecuteHook(i) \/ HookSucceeds(i) \/ HookRejected(i)
           \/ HookOutcomeUnknown(i) \/ ReconcileHook(i) \/ VerifyHook(i)
           \/ BeginCompensation(i) \/ CompensateHook(i)
  <2>1. pc[i] \in WithAttempt /\ \E call \in Calls \cup {"threw"} : Goto(i, call)
    BY <1>3 DEF ExecuteHook, HookSucceeds, HookRejected, HookOutcomeUnknown,
       ReconcileHook, VerifyHook, BeginCompensation, CompensateHook, Throw,
       WithAttempt, Calls
  <2> QED BY <2>1, GotoKeeps
<1>4. CASE ClaimAnswered(i)
  <2>1. \E final \in TerminalStatuses : Return(i, final)
    BY <1>4 DEF ClaimAnswered, ClaimTerminal, TypeOK, StoreTypeOK, Receipts
  <2> QED BY <2>1, ReturnKeeps
<1>5. CASE Submit(i)
  <2>1. ASSUME MarkSubmitted(WorkerOf[i])
        PROVE  attempts' # <<>>
    BY <2>1, StartAttemptKeeps, LenProperties, EmptySeq
    DEF MarkSubmitted, StartAttempt, AttemptKinds, TypeOK, StoreTypeOK
  <2>2. \/ Goto(i, "threw")
        \/ GotoWithAttempt(i, "execute") /\ attempts' # <<>>
    BY <1>5, <2>1 DEF Submit, Throw
  <2>3. "threw" \notin WithAttempt /\ "execute" \in Calls
    BY DEF WithAttempt, Calls
  <2> QED BY <2>2, <2>3, GotoKeeps, GotoWithAttemptKeeps
<1>6. CASE ClaimToReconcile(i)
  <2>1. ASSUME NEW s \in Seq(Attempts), StartReconciliation(WorkerOf[i], s)
        PROVE  attempts' # <<>>
    BY <2>1, StartAttemptKeeps, LenProperties, EmptySeq
    DEF StartReconciliation, StartAttempt, AttemptKinds
  <2>2. ASSUME NEW o \in AttemptOutcomes
        PROVE  WithLatestRunningClosed(o) \in Seq(Attempts)
    BY CloseLatestKeeps DEF TypeOK, StoreTypeOK
  <2>3. attempts' # <<>>
    BY <1>6, <2>1, <2>2
    DEF ClaimToReconcile, ClaimReconcile, AttemptOutcomes, TypeOK, StoreTypeOK
  <2>4. GotoWithAttempt(i, "reconcile") /\ "reconcile" \in Calls
    BY <1>6 DEF ClaimToReconcile, Calls
  <2> QED BY <2>3, <2>4, GotoWithAttemptKeeps
<1> QED BY <1>1, <1>2, <1>3, <1>4, <1>5, <1>6 DEF SharedStep

\* Ending a call, and steps that are not of a call
LEMMA EndCallStep ==
  ASSUME TypeOK, AttemptsInRange, StoreProgress, NEW i \in Invocations,
         \/ Goto(i, "threw") \/ Goto(i, "claim")
         \/ \E final \in TerminalStatuses : Return(i, final)
  PROVE  CallTypeOK' /\ AttemptsInRange'
  BY GotoKeeps, ReturnKeeps DEF WithAttempt, Calls

LEMMA NoCallStep ==
  ASSUME TypeOK, AttemptsInRange, StoreProgress, UNCHANGED callVars
  PROVE  CallTypeOK' /\ AttemptsInRange'
  BY DEF callVars, CallTypeOK, TypeOK, AttemptsInRange, StoreProgress

LEMMA CallStep ==
  ASSUME TypeOK, AttemptsInRange, [Next]_vars
  PROVE  CallTypeOK' /\ AttemptsInRange'
<1>0. StoreProgress
  BY StoreProgresses
<1>1. ASSUME NEW i \in Invocations,
             \/ RecordUnknown(i) \/ RecordUnavailable(i) \/ Crash(i) \/ Retry(i)
             \/ RecordFailure(i) \/ RecordNeedsReview(i) \/ RecordConfirmed(i)
             \/ RecordCompensated(i) \/ RecordCompensationFailed(i)
      PROVE  \/ Goto(i, "threw") \/ Goto(i, "claim")
             \/ \E final \in TerminalStatuses : Return(i, final)
  BY <1>1 DEF RecordUnknown, RecordUnavailable, Crash, Retry, RecordFailure,
     RecordNeedsReview, RecordConfirmed, RecordCompensated,
     RecordCompensationFailed, Refused, Throw, TerminalStatuses
<1>2. CASE UNCHANGED vars \/ ClaimExpires \/ \E a \in inflight : ProviderApplies(a)
  <2>1. UNCHANGED callVars
    BY <1>2 DEF vars, ClaimExpires, ProviderApplies, callVars
  <2> QED BY <1>0, <2>1, NoCallStep
<1> QED
  BY <1>0, <1>1, <1>2, SharedCallStep, EndCallStep DEF Next, Step, SharedStep

ProviderTypeOK ==
  /\ executions \in Nat
  /\ compensations \in Nat
  /\ inflight \subseteq Nat
  /\ effects \subseteq Nat

\* The provider's side of a step
LEMMA SharedProviderStep ==
  ASSUME TypeOK, NEW i \in Invocations, SharedStep(i)
  PROVE  ProviderTypeOK'
<1>1. CASE UNCHANGED providerVars
  BY <1>1 DEF providerVars, TypeOK, ProviderTypeOK
<1>2. attempt[i] \in Nat
  BY DEF TypeOK
<1>3. CASE ExecuteHook(i)
  <2>1. executions' = executions + 1 /\ UNCHANGED <<compensations, effects>>
    BY <1>3 DEF ExecuteHook
  <2>2. inflight' = inflight \/ inflight' = inflight \cup {attempt[i]}
    BY <1>3 DEF ExecuteHook
  <2>3. executions' \in Nat /\ compensations' \in Nat
    BY <2>1 DEF TypeOK
  <2>4. inflight' \subseteq Nat /\ effects' \subseteq Nat
    BY <1>2, <2>1, <2>2 DEF TypeOK
  <2> QED BY <2>3, <2>4 DEF ProviderTypeOK
<1>4. CASE HookRejected(i)
  BY <1>4 DEF HookRejected, TypeOK, ProviderTypeOK
<1>5. CASE CompensateHook(i)
  <2>1. /\ compensations' = compensations + 1
        /\ effects' = {} \/ effects' = effects
        /\ UNCHANGED <<executions, inflight>>
    BY <1>5 DEF CompensateHook
  <2>2. executions' \in Nat /\ compensations' \in Nat
    BY <2>1 DEF TypeOK
  <2>3. inflight' \subseteq Nat /\ effects' \subseteq Nat
    BY <2>1 DEF TypeOK
  <2> QED BY <2>2, <2>3 DEF ProviderTypeOK
<1> QED
  BY <1>1, <1>3, <1>4, <1>5 DEF SharedStep, ClaimToExecute, ClaimToReconcile,
     ClaimAnswered, ClaimThrows, Submit, HookSucceeds, HookOutcomeUnknown,
     ReconcileHook, VerifyHook, BeginCompensation, providerVars

LEMMA NoProviderStep ==
  ASSUME TypeOK,
         UNCHANGED providerVars \/ \E a \in inflight : ProviderApplies(a)
  PROVE  ProviderTypeOK'
  BY DEF ProviderApplies, providerVars, TypeOK, ProviderTypeOK

LEMMA TypeStep ==
  ASSUME TypeOK, AttemptsInRange, [Next]_vars
  PROVE  TypeOK'
<1>1. StoreTypeOK' /\ CallTypeOK'
  BY StoreProgresses, CallStep DEF StoreProgress
<1>2. ASSUME NEW i \in Invocations,
             \/ RecordUnknown(i) \/ RecordUnavailable(i) \/ Crash(i) \/ Retry(i)
             \/ RecordFailure(i) \/ RecordNeedsReview(i) \/ RecordConfirmed(i)
             \/ RecordCompensated(i) \/ RecordCompensationFailed(i)
      PROVE  UNCHANGED providerVars
  BY <1>2 DEF RecordUnknown, RecordUnavailable, Crash, Retry, RecordFailure,
     RecordNeedsReview, RecordConfirmed, RecordCompensated,
     RecordCompensationFailed
<1>3. ProviderTypeOK'
  BY <1>2, SharedProviderStep, NoProviderStep
  DEF Next, Step, SharedStep, vars, ClaimExpires
<1> QED BY <1>1, <1>3 DEF TypeOK, CallTypeOK, ProviderTypeOK

-----------------------------------------------------------------------------
(* At most one execution                                                   *)

\* A step that calls no hook, and moves at most one call
LEMMA ExecutionKept ==
  ASSUME TypeOK, ExecutionInv, StoreProgress,
         UNCHANGED <<executions, inflight>>, effects' \subseteq effects,
         NEW i \in Invocations, NEW call,
         pc' = [pc EXCEPT ![i] = call], call # "execute",
         call \in AfterExecution => executions = 1
  PROVE  ExecutionInv'
<1>1. status' \in Fresh => status \in Fresh
  BY DEF StoreProgress
<1> QED BY <1>1 DEF ExecutionInv, TypeOK

LEMMA SharedExecutionStep ==
  ASSUME TypeOK, ExecutionInv, StoreProgress, NEW i \in Invocations, SharedStep(i)
  PROVE  ExecutionInv'
<1>1. CASE ClaimToExecute(i) \/ ClaimThrows(i) \/ ClaimToReconcile(i) \/ ClaimAnswered(i)
  <2>1. \E call \in {"markSubmitted", "reconcile", "returned", "threw"} :
          pc' = [pc EXCEPT ![i] = call]
    BY <1>1 DEF ClaimToExecute, ClaimThrows, ClaimToReconcile, ClaimAnswered,
       Throw, Goto, GotoWithAttempt, Return
  <2>2. UNCHANGED providerVars
    BY <1>1 DEF ClaimToExecute, ClaimThrows, ClaimToReconcile, ClaimAnswered
  <2> QED BY <2>1, <2>2, ExecutionKept DEF providerVars, AfterExecution
<1>2. CASE \/ HookSucceeds(i) \/ HookOutcomeUnknown(i) \/ ReconcileHook(i)
           \/ VerifyHook(i) \/ BeginCompensation(i)
  <2>1. \E call \in Calls \cup {"threw"} :
          /\ pc' = [pc EXCEPT ![i] = call]
          /\ call # "execute"
          /\ call \in AfterExecution => executions = 1
    BY <1>2 DEF HookSucceeds, HookOutcomeUnknown, ReconcileHook, VerifyHook,
       BeginCompensation, Throw, Goto, ExecutionInv, AfterExecution, Calls
  <2>2. UNCHANGED providerVars
    BY <1>2 DEF HookSucceeds, HookOutcomeUnknown, ReconcileHook, VerifyHook,
       BeginCompensation
  <2> QED BY <2>1, <2>2, ExecutionKept DEF providerVars
<1>3. CASE CompensateHook(i)
  <2>1. \E call \in {"finalizeCompensated", "finalizeCompensationFailed"} :
          pc' = [pc EXCEPT ![i] = call]
    BY <1>3 DEF CompensateHook, Goto
  <2>2. executions = 1
    BY <1>3 DEF CompensateHook, ExecutionInv, AfterExecution
  <2>3. UNCHANGED <<executions, inflight>> /\ effects' \subseteq effects
    BY <1>3 DEF CompensateHook
  <2> QED BY <2>1, <2>2, <2>3, ExecutionKept
<1>4. CASE Submit(i)
  <2>1. CASE Throw(i)
    BY <1>4, <2>1, ExecutionKept
    DEF Submit, Throw, Goto, providerVars, AfterExecution
  <2>2. CASE MarkSubmitted(WorkerOf[i]) /\ GotoWithAttempt(i, "execute")
    <3>1. status = "CLAIMED" /\ status' = "SUBMITTED"
      BY <2>2, LegalSources DEF MarkSubmitted, Transition, TypeOK
    <3>2. executions = 0 /\ \A j \in Invocations : pc[j] # "execute"
      BY <3>1 DEF ExecutionInv, Fresh
    <3>3. pc' = [pc EXCEPT ![i] = "execute"] /\ UNCHANGED providerVars
      BY <1>4, <2>2 DEF Submit, GotoWithAttempt
    <3>4. status' \notin Fresh
      BY <3>1 DEF Fresh
    <3> QED
      BY <3>2, <3>3, <3>4 DEF ExecutionInv, TypeOK, providerVars, AfterExecution
  <2> QED BY <1>4, <2>1, <2>2 DEF Submit
<1>5. CASE ExecuteHook(i)
  <2>1. /\ executions' = 1
        /\ \A j \in Invocations : pc[j] = "execute" => j = i
        /\ status' \notin Fresh
    BY <1>5 DEF ExecuteHook, ExecutionInv, storeVars
  <2>2. /\ pc' = [pc EXCEPT ![i] = pc'[i]]
        /\ pc'[i] # "execute"
    BY <1>5 DEF ExecuteHook, Goto, TypeOK
  <2>3. \A j \in Invocations : pc'[j] # "execute"
    BY <2>1, <2>2 DEF TypeOK
  <2> QED BY <2>1, <2>3 DEF ExecutionInv
<1>6. CASE HookRejected(i)
  <2>1. /\ executions = 1 /\ executions' = 1
        /\ pc' = [pc EXCEPT ![i] = "failRejected"]
        /\ UNCHANGED status
    BY <1>6 DEF HookRejected, Goto, ExecutionInv, AfterExecution, storeVars
  <2> QED BY <1>6, <2>1 DEF HookRejected, ExecutionInv, TypeOK
<1> QED BY <1>1, <1>2, <1>3, <1>4, <1>5, <1>6 DEF SharedStep

\* A call that ends, or is made again
LEMMA EndExecutionStep ==
  ASSUME TypeOK, ExecutionInv, StoreProgress, NEW i \in Invocations,
         UNCHANGED providerVars,
         \E call \in {"claim", "returned", "threw"} : pc' = [pc EXCEPT ![i] = call]
  PROVE  ExecutionInv'
  BY ExecutionKept DEF providerVars, AfterExecution

\* Time, the provider and a step that changes nothing
LEMMA OtherExecutionStep ==
  ASSUME ExecutionInv,
         UNCHANGED vars \/ ClaimExpires \/ \E a \in inflight : ProviderApplies(a)
  PROVE  ExecutionInv'
<1>1. ASSUME NEW a \in inflight, ProviderApplies(a)
      PROVE  ExecutionInv'
  BY <1>1 DEF ProviderApplies, ExecutionInv, storeVars, callVars
<1>2. CASE UNCHANGED vars \/ ClaimExpires
  <2>1. UNCHANGED <<pc, executions, inflight, effects, status>>
    BY <1>2 DEF vars, ClaimExpires, LeaseExpires, callVars, providerVars, storeVars
  <2> QED BY <2>1 DEF ExecutionInv
<1> QED BY <1>1, <1>2

LEMMA ExecutionStep ==
  ASSUME TypeOK, AttemptsInRange, ExecutionInv, [Next]_vars
  PROVE  ExecutionInv'
<1>0. StoreProgress
  BY StoreProgresses
<1>1. ASSUME NEW i \in Invocations,
             \/ RecordUnknown(i) \/ RecordUnavailable(i) \/ Crash(i) \/ Retry(i)
             \/ RecordFailure(i) \/ RecordNeedsReview(i) \/ RecordConfirmed(i)
             \/ RecordCompensated(i) \/ RecordCompensationFailed(i)
      PROVE  ExecutionInv'
  <2>1. \E call \in {"claim", "returned", "threw"} : pc' = [pc EXCEPT ![i] = call]
    BY <1>1 DEF RecordUnknown, RecordUnavailable, Crash, Retry, RecordFailure,
       RecordNeedsReview, RecordConfirmed, RecordCompensated,
       RecordCompensationFailed, Refused, Throw, Goto, Return
  <2>2. UNCHANGED providerVars
    BY <1>1 DEF RecordUnknown, RecordUnavailable, Crash, Retry, RecordFailure,
       RecordNeedsReview, RecordConfirmed, RecordCompensated,
       RecordCompensationFailed
  <2> QED BY <1>0, <2>1, <2>2, EndExecutionStep
<1> QED
  BY <1>0, <1>1, SharedExecutionStep, OtherExecutionStep DEF Next, Step, SharedStep

-----------------------------------------------------------------------------
(* At most one compensation                                                *)

\* A step that neither begins a compensation nor calls its hook
LEMMA CompensationKept ==
  ASSUME TypeOK, CompensationInv, StoreProgress,
         UNCHANGED compensations,
         NEW i \in Invocations, NEW call,
         pc' = [pc EXCEPT ![i] = call],
         call \notin {"compensate", "finalizeCompensated"}
  PROVE  CompensationInv'
<1>1. status' \notin Compensated => status \notin Compensated
  BY DEF StoreProgress
<1> QED BY <1>1 DEF CompensationInv, TypeOK

LEMMA CompensationStep ==
  ASSUME TypeOK, AttemptsInRange, CompensationInv, [Next]_vars
  PROVE  CompensationInv'
<1>0. StoreProgress
  BY StoreProgresses
<1>1. ASSUME NEW i \in Invocations,
             \/ ClaimToExecute(i) \/ ClaimThrows(i) \/ RecordUnknown(i)
             \/ RecordUnavailable(i) \/ Crash(i) \/ Retry(i)
             \/ ClaimToReconcile(i) \/ ClaimAnswered(i) \/ Submit(i)
             \/ RecordFailure(i) \/ RecordNeedsReview(i) \/ RecordConfirmed(i)
             \/ RecordCompensated(i) \/ RecordCompensationFailed(i)
             \/ ExecuteHook(i) \/ HookRejected(i)
             \/ HookSucceeds(i) \/ HookOutcomeUnknown(i) \/ ReconcileHook(i)
             \/ VerifyHook(i)
      PROVE  CompensationInv'
  <2>1. \E call \in Calls \cup {"returned", "threw"} :
          /\ pc' = [pc EXCEPT ![i] = call]
          /\ call \notin {"compensate", "finalizeCompensated"}
    BY <1>1 DEF ClaimToExecute, ClaimThrows, RecordUnknown, RecordUnavailable,
       Crash, Retry, ClaimToReconcile, ClaimAnswered, Submit, RecordFailure,
       RecordNeedsReview, RecordConfirmed, RecordCompensated,
       RecordCompensationFailed, ExecuteHook, HookRejected, HookSucceeds,
       HookOutcomeUnknown, ReconcileHook, VerifyHook, Refused, Throw, Goto,
       GotoWithAttempt, Return, Calls
  <2>2. UNCHANGED compensations
    BY <1>1 DEF ClaimToExecute, ClaimThrows, RecordUnknown, RecordUnavailable,
       Crash, Retry, ClaimToReconcile, ClaimAnswered, Submit, RecordFailure,
       RecordNeedsReview, RecordConfirmed, RecordCompensated,
       RecordCompensationFailed, ExecuteHook, HookRejected, HookSucceeds,
       HookOutcomeUnknown, ReconcileHook, VerifyHook, providerVars
  <2> QED BY <1>0, <2>1, <2>2, CompensationKept
<1>2. ASSUME NEW i \in Invocations, BeginCompensation(i)
      PROVE  CompensationInv'
  <2>1. CASE Throw(i)
    BY <1>0, <1>2, <2>1, CompensationKept
    DEF BeginCompensation, Throw, Goto, providerVars
  <2>2. CASE MarkCompensating /\ Goto(i, "compensate")
    <3>1. status \notin Compensated /\ status' \in Compensated
      BY <2>2, LegalSources DEF MarkCompensating, Transition, TypeOK, Compensated
    <3>2. compensations = 0 /\ \A j \in Invocations : pc[j] # "compensate"
      BY <3>1 DEF CompensationInv
    <3>3. pc' = [pc EXCEPT ![i] = "compensate"] /\ UNCHANGED compensations
      BY <1>2, <2>2 DEF BeginCompensation, Goto, providerVars
    <3> QED BY <3>1, <3>2, <3>3 DEF CompensationInv, TypeOK
  <2> QED BY <1>2, <2>1, <2>2 DEF BeginCompensation
<1>3. ASSUME NEW i \in Invocations, CompensateHook(i)
      PROVE  CompensationInv'
  <2>1. /\ compensations' = 1
        /\ \A j \in Invocations : pc[j] = "compensate" => j = i
        /\ status' \in Compensated
    BY <1>3 DEF CompensateHook, CompensationInv, storeVars
  <2>2. /\ pc' = [pc EXCEPT ![i] = pc'[i]]
        /\ pc'[i] # "compensate"
    BY <1>3 DEF CompensateHook, Goto, TypeOK
  <2>3. \A j \in Invocations : pc'[j] # "compensate"
    BY <2>1, <2>2 DEF TypeOK
  <2> QED BY <2>1, <2>3 DEF CompensationInv
<1>4. CASE UNCHANGED vars \/ ClaimExpires \/ \E a \in inflight : ProviderApplies(a)
  <2>1. UNCHANGED <<pc, compensations, status>>
    BY <1>4 DEF vars, ClaimExpires, LeaseExpires, ProviderApplies, callVars,
       providerVars, storeVars
  <2> QED BY <2>1 DEF CompensationInv
<1> QED BY <1>1, <1>2, <1>3, <1>4 DEF Next, Step

-----------------------------------------------------------------------------
(* Theorems                                                                *)

LEMMA InductiveInvariant == Spec => []IInv
<1>1. Init => IInv
  <2>1. Init => TypeOK
    BY EmptySeq DEF Init, StoreInit, TypeOK, StoreTypeOK, Receipts, Calls
  <2>2. Init => AttemptsInRange /\ ExecutionInv /\ CompensationInv
    BY DEF Init, StoreInit, AttemptsInRange, ExecutionInv, CompensationInv,
       WithAttempt, AfterExecution
  <2> QED BY <2>1, <2>2 DEF IInv
<1>2. IInv /\ [Next]_vars => IInv'
  BY TypeStep, CallStep, ExecutionStep, CompensationStep DEF IInv
<1> QED BY <1>1, <1>2, PTL DEF Spec

\* Every variable of WriteGuard keeps its type.
THEOREM TypeCorrect == Spec => []TypeOK
<1>1. IInv => TypeOK
  BY DEF IInv
<1> QED BY <1>1, InductiveInvariant, PTL

\* The central promise: the execute hook is called at most once for a key.
THEOREM ExecutionUnique == Spec => []AtMostOneExecution
<1>1. IInv => AtMostOneExecution
  BY DEF IInv, ExecutionInv, AtMostOneExecution
<1> QED BY <1>1, InductiveInvariant, PTL

\* The compensate hook is called at most once for a key.
THEOREM CompensationUnique == Spec => []AtMostOneCompensation
<1>1. IInv => AtMostOneCompensation
  BY DEF IInv, CompensationInv, AtMostOneCompensation
<1> QED BY <1>1, InductiveInvariant, PTL

\* The SDK is one of the clients the ledger's theorems speak of.
THEOREM ImplementsStore == Spec => StoreSpec
<1>1. Init => StoreInit
  BY DEF Init
<1>2. IInv /\ [Next]_vars => [StoreNext]_storeVars
  BY StoreStep DEF IInv
<1> QED BY <1>1, <1>2, InductiveInvariant, PTL DEF Spec, StoreSpec

\* A key leaves its receipt only for the compensation of a confirmed write.
THEOREM ReceiptFollowed == Spec => []StatusFollowsReceipt
<1>1. ReceiptInv => StatusFollowsReceipt
  BY DEF ReceiptInv, StatusFollowsReceipt
<1> QED BY <1>1, ImplementsStore, ReceiptCorrect, PTL

-----------------------------------------------------------------------------
(* The SDK implements the single write of module ExternalWrite             *)

\* A receipt is only inserted where it is justified.
LEMMA DecisionStep ==
  ASSUME IInv, NEW i \in Invocations,
         \/ RecordFailure(i) \/ RecordNeedsReview(i) \/ RecordConfirmed(i)
         \/ RecordCompensated(i) \/ RecordCompensationFailed(i)
  PROVE  \/ UNCHANGED receipt
         \/ \E v \in TerminalStatuses : Promise!Decide(v)
<1> USE DEF IInv, TypeOK, TerminalStatuses
<1>0. UNCHANGED <<executions, compensations>>
  BY DEF RecordFailure, RecordNeedsReview, RecordConfirmed, RecordCompensated,
     RecordCompensationFailed, providerVars
<1>1. ASSUME NEW v \in TerminalStatuses, NEW p, InsertReceipt(v, p), Promise!Justified(v)
      PROVE  Promise!Decide(v)
  BY <1>0, <1>1 DEF InsertReceipt, CanReceipt, NoReceipt, Promise!Decide
<1>2. CASE UNCHANGED storeVars
  BY <1>2 DEF storeVars
<1>3. CASE RecordFailure(i) /\ ~ UNCHANGED storeVars
  <2>1. PICK o : FinalizeFailed(attempt[i], o)
    BY <1>3 DEF RecordFailure, Refused
  <2>2. status \notin Compensated
    BY <2>1, LegalSources DEF FinalizeFailed, Transition, Compensated
  <2>3. executions = 1 /\ compensations = 0
    BY <1>3, <2>2 DEF RecordFailure, ExecutionInv, CompensationInv, AfterExecution
  <2> QED BY <1>1, <2>1, <2>3 DEF FinalizeFailed, Promise!Justified
<1>4. CASE RecordConfirmed(i) /\ ~ UNCHANGED storeVars
  <2>1. PICK p : FinalizeConfirmed(attempt[i], p)
    BY <1>4 DEF RecordConfirmed, Refused
  <2>2. status \notin Compensated
    BY <2>1, LegalSources DEF FinalizeConfirmed, Transition, Compensated
  <2>3. executions = 1 /\ compensations = 0
    BY <1>4, <2>2 DEF RecordConfirmed, ExecutionInv, CompensationInv, AfterExecution
  <2> QED BY <1>1, <2>1, <2>3 DEF FinalizeConfirmed, Promise!Justified
<1>5. CASE RecordCompensated(i) /\ ~ UNCHANGED storeVars
  <2>1. FinalizeCompensated(attempt[i])
    BY <1>5 DEF RecordCompensated, Refused
  <2>2. executions = 1 /\ compensations = 1
    BY <1>5 DEF RecordCompensated, ExecutionInv, CompensationInv, AfterExecution
  <2> QED BY <1>1, <2>1, <2>2 DEF FinalizeCompensated, Promise!Justified
<1>6. CASE (RecordNeedsReview(i) \/ RecordCompensationFailed(i)) /\ ~ UNCHANGED storeVars
  <2>1. \E p : InsertReceipt("NEEDS_REVIEW", p)
    BY <1>6 DEF RecordNeedsReview, RecordCompensationFailed, Refused,
       FinalizeNeedsReview, FinalizeCompensationFailed
  <2> QED BY <1>1, <2>1 DEF Promise!Justified
<1> QED BY <1>2, <1>3, <1>4, <1>5, <1>6

\* Every step is a step of the promise, or leaves what it speaks of alone.
LEMMA PromiseStep ==
  ASSUME IInv, [Next]_vars
  PROVE  [Promise!WriteNext]_(Promise!writeVars)
<1> USE DEF IInv
<1>1. ASSUME UNCHANGED <<executions, compensations, receipt>>
      PROVE  UNCHANGED Promise!writeVars
  BY <1>1 DEF Promise!writeVars
<1>2. ASSUME NEW i \in Invocations, ExecuteHook(i)
      PROVE  Promise!Write
  <2>1. executions = 0
    BY <1>2 DEF ExecuteHook, ExecutionInv
  <2> QED BY <1>2, <2>1 DEF ExecuteHook, Promise!Write, storeVars
<1>3. ASSUME NEW i \in Invocations, CompensateHook(i)
      PROVE  Promise!Undo
  <2>1. executions = 1 /\ compensations = 0
    BY <1>3 DEF CompensateHook, ExecutionInv, CompensationInv, AfterExecution
  <2> QED BY <1>3, <2>1 DEF CompensateHook, Promise!Undo, storeVars
<1>4. ASSUME NEW i \in Invocations,
             \/ RecordFailure(i) \/ RecordNeedsReview(i) \/ RecordConfirmed(i)
             \/ RecordCompensated(i) \/ RecordCompensationFailed(i)
      PROVE  [Promise!WriteNext]_(Promise!writeVars)
  <2>1. UNCHANGED <<executions, compensations>>
    BY <1>4 DEF RecordFailure, RecordNeedsReview, RecordConfirmed,
       RecordCompensated, RecordCompensationFailed, providerVars
  <2>2. UNCHANGED receipt \/ \E v \in TerminalStatuses : Promise!Decide(v)
    BY <1>4, DecisionStep
  <2> QED BY <1>1, <2>1, <2>2 DEF Promise!WriteNext, TerminalStatuses
<1>5. ASSUME NEW i \in Invocations,
             \/ ClaimToExecute(i) \/ ClaimToReconcile(i) \/ ClaimAnswered(i)
             \/ ClaimThrows(i) \/ Submit(i) \/ HookSucceeds(i)
             \/ HookRejected(i) \/ HookOutcomeUnknown(i) \/ RecordUnknown(i)
             \/ ReconcileHook(i) \/ RecordUnavailable(i) \/ VerifyHook(i)
             \/ BeginCompensation(i) \/ Crash(i) \/ Retry(i)
      PROVE  UNCHANGED <<executions, compensations, receipt>>
  BY <1>5 DEF ClaimToExecute, ClaimToReconcile, ClaimAnswered, ClaimThrows,
     Submit, HookSucceeds, HookRejected, HookOutcomeUnknown, RecordUnknown,
     ReconcileHook, RecordUnavailable, VerifyHook, BeginCompensation, Crash,
     Retry, ClaimNew, ClaimReclaimed, ClaimReconcile, StartReconciliation,
     MarkSubmitted, MarkUnknown, MarkReconciliationUnavailable,
     MarkCompensating, storeVars, providerVars
<1>6. CASE UNCHANGED vars \/ ClaimExpires \/ \E a \in inflight : ProviderApplies(a)
  BY <1>1, <1>6 DEF vars, ClaimExpires, LeaseExpires, ProviderApplies, storeVars,
     providerVars
<1> QED
  BY <1>1, <1>2, <1>3, <1>4, <1>5, <1>6 DEF Next, Step, Promise!WriteNext

\* execute() implements the abstract single write: one write, one undo, one
\* verdict that they justify, whatever the workers, crashes and expiries.
THEOREM SingleWrite == Spec => ImplementsExternalWrite
<1>1. Init => Promise!WriteInit
  BY DEF Init, StoreInit, NoReceipt, Promise!WriteInit
<1>2. IInv /\ [Next]_vars => [Promise!WriteNext]_(Promise!writeVars)
  BY PromiseStep
<1> QED
  BY <1>1, <1>2, InductiveInvariant, PTL
  DEF Spec, ImplementsExternalWrite, Promise!WriteSpec

-----------------------------------------------------------------------------
(* What a verdict says of the external effect                              *)

\* Calls that only follow a sight of the effect
AfterEffect ==
  {"verify", "finalizeConfirmed", "markCompensating", "compensate",
   "finalizeCompensated", "finalizeCompensationFailed"}

\* There is one request.  Once seen, refused or undone it cannot surface again;
\* it is only undone after the status has moved to COMPENSATING for good.
EffectInv ==
  /\ \A a, b \in inflight \cup effects : a = b
  /\ inflight \cap effects = {}
  /\ \A i \in Invocations :
       /\ pc[i] \in AfterEffect => inflight = {}
       /\ pc[i] = "finalizeConfirmed" /\ status \notin Compensated => effects # {}
       /\ pc[i] \in {"failPreSubmission", "failRejected"} => inflight \cup effects = {}
       /\ pc[i] = "finalizeCompensated" => effects = {}
  /\ status = "CONFIRMED" => effects # {}
  /\ status \in {"FAILED", "COMPENSATED"} =>
       executions = 1 /\ inflight \cup effects = {}

\* A verdict of the status is what the call that records it has established.
LEMMA VerdictSource ==
  ASSUME IInv, NEW i \in Invocations, Step(i) \/ Crash(i) \/ Retry(i)
  PROVE  /\ status' = "CONFIRMED" /\ status # "CONFIRMED" =>
              pc[i] = "finalizeConfirmed" /\ status \notin Compensated
         /\ status' = "FAILED" /\ status # "FAILED" =>
              pc[i] \in {"failPreSubmission", "failRejected"}
         /\ status' = "COMPENSATED" /\ status # "COMPENSATED" =>
              pc[i] = "finalizeCompensated"
<1> USE DEF IInv, TypeOK
<1>1. CASE UNCHANGED status
  BY <1>1
<1>2. CASE ClaimToExecute(i) \/ ClaimToReconcile(i)
  BY <1>2 DEF ClaimToExecute, ClaimToReconcile, ClaimNew, ClaimReclaimed,
     ClaimReconcile, StartReconciliation
<1>3. CASE Submit(i) \/ RecordUnknown(i) \/ RecordUnavailable(i) \/ BeginCompensation(i)
           \/ RecordNeedsReview(i) \/ RecordCompensationFailed(i)
  BY <1>3 DEF Submit, RecordUnknown, RecordUnavailable, BeginCompensation,
     RecordNeedsReview, RecordCompensationFailed, MarkSubmitted, MarkUnknown,
     MarkReconciliationUnavailable, MarkCompensating, FinalizeNeedsReview,
     FinalizeCompensationFailed, Transition, Refused, storeVars
<1>4. CASE RecordConfirmed(i)
  BY <1>4, LegalSources DEF RecordConfirmed, FinalizeConfirmed, Transition,
     Refused, storeVars, Compensated
<1>5. CASE RecordFailure(i) \/ RecordCompensated(i)
  BY <1>5 DEF RecordFailure, RecordCompensated, FinalizeFailed,
     FinalizeCompensated, Transition, Refused, storeVars
<1>6. ASSUME \/ ClaimAnswered(i) \/ ClaimThrows(i) \/ ExecuteHook(i)
             \/ HookSucceeds(i) \/ HookRejected(i) \/ HookOutcomeUnknown(i)
             \/ ReconcileHook(i) \/ VerifyHook(i) \/ CompensateHook(i)
             \/ Crash(i) \/ Retry(i)
      PROVE  UNCHANGED status
  BY <1>6 DEF ClaimAnswered, ClaimThrows, ExecuteHook, HookSucceeds, HookRejected,
     HookOutcomeUnknown, ReconcileHook, VerifyHook, CompensateHook, Crash, Retry,
     storeVars
<1> QED BY <1>1, <1>2, <1>3, <1>4, <1>5, <1>6 DEF Step

\* The one request is somewhere: in flight, settled as an effect, or nowhere.
LEMMA OneRequest ==
  ASSUME EffectInv
  PROVE  /\ effects # {} => inflight = {}
         /\ \A a \in inflight : inflight = {a} /\ effects = {}
<1>1. /\ \A a, b \in inflight \cup effects : a = b
      /\ inflight \cap effects = {}
  BY DEF EffectInv
<1>2. ASSUME NEW a \in inflight
      PROVE  inflight = {a} /\ effects = {}
  <2>1. \A b \in inflight \cup effects : b = a
    BY <1>1, <1>2
  <2>2. a \notin effects
    BY <1>1, <1>2
  <2> QED BY <1>2, <2>1, <2>2
<1> QED BY <1>2

LEMMA EffectStep ==
  ASSUME IInv, EffectInv, [Next]_vars
  PROVE  EffectInv'
<1> USE DEF IInv, TypeOK
<1>0. status \in Compensated => status' \in Compensated
  BY StoreStep, StatusStep
<1>1. ASSUME NEW i \in Invocations, Step(i) \/ Crash(i) \/ Retry(i),
             UNCHANGED providerVars, NEW call, pc' = [pc EXCEPT ![i] = call],
             call \in AfterEffect => inflight = {},
             call = "finalizeConfirmed" => effects # {},
             call \notin {"failPreSubmission", "failRejected", "finalizeCompensated"}
      PROVE  EffectInv'
  <2>1. UNCHANGED <<executions, inflight, effects>>
    BY <1>1 DEF providerVars
  <2>2. /\ status' = "CONFIRMED" => effects # {}
        /\ status' \in {"FAILED", "COMPENSATED"} =>
             executions = 1 /\ inflight \cup effects = {}
    BY <1>1, VerdictSource DEF EffectInv, ExecutionInv, AfterExecution, AfterEffect
  <2> QED BY <1>0, <1>1, <2>1, <2>2 DEF EffectInv
<1>2. ASSUME NEW i \in Invocations,
             \/ ClaimToExecute(i) \/ ClaimThrows(i) \/ RecordUnknown(i)
             \/ RecordUnavailable(i) \/ Crash(i) \/ Retry(i)
             \/ ClaimToReconcile(i) \/ ClaimAnswered(i) \/ Submit(i)
             \/ RecordFailure(i) \/ RecordNeedsReview(i) \/ RecordConfirmed(i)
             \/ RecordCompensated(i) \/ RecordCompensationFailed(i)
             \/ HookOutcomeUnknown(i)
      PROVE  EffectInv'
  <2>1. \E call \in {"claim", "markSubmitted", "execute", "markUnknown",
                     "reconcile", "returned", "threw"} :
          pc' = [pc EXCEPT ![i] = call]
    BY <1>2 DEF ClaimToExecute, ClaimThrows, RecordUnknown, RecordUnavailable,
       Crash, Retry, ClaimToReconcile, ClaimAnswered, Submit, RecordFailure,
       RecordNeedsReview, RecordConfirmed, RecordCompensated,
       RecordCompensationFailed, HookOutcomeUnknown, Refused, Throw, Goto,
       GotoWithAttempt, Return
  <2>2. UNCHANGED providerVars /\ (Step(i) \/ Crash(i) \/ Retry(i))
    BY <1>2 DEF ClaimToExecute, ClaimThrows, RecordUnknown, RecordUnavailable,
       Crash, Retry, ClaimToReconcile, ClaimAnswered, Submit, RecordFailure,
       RecordNeedsReview, RecordConfirmed, RecordCompensated,
       RecordCompensationFailed, HookOutcomeUnknown, Step
  <2> QED BY <1>1, <2>1, <2>2 DEF AfterEffect
<1>3. ASSUME NEW i \in Invocations,
             HookSucceeds(i) \/ ReconcileHook(i) \/ VerifyHook(i) \/ BeginCompensation(i)
      PROVE  EffectInv'
  <2>1. effects # {} => inflight = {}
    BY OneRequest
  <2>2. \E call \in Calls \cup {"threw"} :
          /\ pc' = [pc EXCEPT ![i] = call]
          /\ call \in AfterEffect => inflight = {}
          /\ call = "finalizeConfirmed" => effects # {}
          /\ call \notin {"failPreSubmission", "failRejected", "finalizeCompensated"}
    BY <1>3, <2>1 DEF HookSucceeds, ReconcileHook, VerifyHook, BeginCompensation,
       Throw, Goto, EffectInv, AfterEffect, Calls
  <2>3. UNCHANGED providerVars /\ Step(i)
    BY <1>3 DEF HookSucceeds, ReconcileHook, VerifyHook, BeginCompensation, Step
  <2> QED BY <1>1, <2>2, <2>3
<1>4. ASSUME NEW i \in Invocations, ExecuteHook(i)
      PROVE  EffectInv'
  <2>1. /\ executions = 0
        /\ inflight \cup effects = {}
        /\ \A j \in Invocations : pc[j] \notin AfterExecution
    BY <1>4 DEF ExecuteHook, ExecutionInv
  <2>2. status \notin {"CONFIRMED", "FAILED", "COMPENSATED"}
    <3>1. status # "CONFIRMED"
      BY <2>1 DEF EffectInv
    <3>2. status \notin {"FAILED", "COMPENSATED"}
      BY <2>1 DEF EffectInv
    <3> QED BY <3>1, <3>2
  <2>3. /\ UNCHANGED <<status, effects>>
        /\ \/ pc' = [pc EXCEPT ![i] = "failPreSubmission"] /\ inflight' = {}
           \/ pc' = [pc EXCEPT ![i] = "await"] /\ inflight' = {attempt[i]}
    BY <1>4, <2>1 DEF ExecuteHook, Goto, storeVars
  <2> QED BY <2>1, <2>2, <2>3 DEF EffectInv, AfterEffect, AfterExecution
<1>5. ASSUME NEW i \in Invocations, HookRejected(i)
      PROVE  EffectInv'
  <2>1. effects = {} /\ inflight' = {}
    BY <1>5, OneRequest DEF HookRejected
  <2>2. /\ UNCHANGED <<status, effects, executions>>
        /\ pc' = [pc EXCEPT ![i] = "failRejected"]
    BY <1>5 DEF HookRejected, Goto, storeVars
  <2> QED BY <2>1, <2>2 DEF EffectInv, AfterEffect
<1>6. ASSUME NEW i \in Invocations, CompensateHook(i)
      PROVE  EffectInv'
  <2>1. inflight = {} /\ status \in Compensated /\ executions = 1
    BY <1>6 DEF CompensateHook, EffectInv, AfterEffect, CompensationInv,
       ExecutionInv, AfterExecution
  <2>2. /\ UNCHANGED <<status, inflight, executions>>
        /\ effects' \subseteq effects
        /\ \/ effects' = {} /\ pc' = [pc EXCEPT ![i] = "finalizeCompensated"]
           \/ pc' = [pc EXCEPT ![i] = "finalizeCompensationFailed"]
    BY <1>6 DEF CompensateHook, Goto, storeVars
  <2>3. status \in Compensated /\ status # "CONFIRMED"
    BY <2>1 DEF Compensated
  <2> QED BY <2>1, <2>2, <2>3 DEF EffectInv, AfterEffect
<1>7. ASSUME NEW a \in inflight, ProviderApplies(a)
      PROVE  EffectInv'
  <2>1. inflight = {a} /\ effects = {}
    BY OneRequest
  <2>2. inflight' = {} /\ effects' = {a} /\ UNCHANGED <<status, pc, executions>>
    BY <1>7, <2>1 DEF ProviderApplies, storeVars, callVars
  <2> QED BY <2>1, <2>2 DEF EffectInv, AfterEffect
<1>8. CASE UNCHANGED vars \/ ClaimExpires
  <2>1. UNCHANGED <<pc, executions, inflight, effects, status>>
    BY <1>8 DEF vars, ClaimExpires, LeaseExpires, callVars, providerVars, storeVars
  <2> QED BY <2>1 DEF EffectInv
<1> QED
  BY <1>2, <1>3, <1>4, <1>5, <1>6, <1>7, <1>8 DEF Next, Step

LEMMA EffectCorrect == Spec => [](IInv /\ EffectInv)
<1>1. Init => EffectInv
  BY DEF Init, StoreInit, EffectInv, AfterEffect
<1>2. IInv /\ EffectInv /\ [Next]_vars => EffectInv'
  BY EffectStep
<1> QED BY <1>1, <1>2, InductiveInvariant, PTL DEF Spec

\* While the ledger says CONFIRMED, the external effect exists.
THEOREM ConfirmedIsReal == Spec => []ConfirmedEffectPresent
<1>1. EffectInv => ConfirmedEffectPresent
  BY DEF EffectInv, ConfirmedEffectPresent
<1> QED BY <1>1, EffectCorrect, PTL

\* No effect exists, or can still happen, behind a status that denies it.
THEOREM DenialIsReal == Spec => []NoEffectDenied
<1>1. IInv /\ EffectInv => NoEffectDenied
  BY DEF IInv, ExecutionInv, Fresh, EffectInv, NoEffectDenied
<1> QED BY <1>1, EffectCorrect, PTL

-----------------------------------------------------------------------------
(* What callers are told                                                   *)

\* Every reply was read from the receipt, which is never replaced.
RepliesInv ==
  \A i \in Invocations : reply[i] # "none" => receipt # NoReceipt /\ reply[i] = receipt.status

LEMMA RepliesStep ==
  ASSUME IInv, ReceiptInv, RepliesInv, [Next]_vars
  PROVE  RepliesInv'
<1> USE DEF IInv, TypeOK
<1>1. receipt # NoReceipt => receipt' = receipt
  BY StoreStep, FrozenWithReceipt
<1>2. ASSUME UNCHANGED reply
      PROVE  RepliesInv'
  BY <1>1, <1>2 DEF RepliesInv
<1>3. ASSUME NEW i \in Invocations, NEW final,
             Return(i, final), receipt' # NoReceipt, receipt'.status = final
      PROVE  RepliesInv'
  BY <1>1, <1>3 DEF RepliesInv, Return
<1>4. ASSUME NEW i \in Invocations, ClaimAnswered(i)
      PROVE  RepliesInv'
  BY <1>3, <1>4 DEF ClaimAnswered, ClaimTerminal, storeVars
<1>5. ASSUME NEW v \in TerminalStatuses, NEW p, InsertReceipt(v, p)
      PROVE  receipt' # NoReceipt /\ receipt'.status = v
  BY <1>5 DEF InsertReceipt, NoReceipt, TerminalStatuses
<1>6. ASSUME NEW i \in Invocations,
             \/ RecordFailure(i) \/ RecordNeedsReview(i) \/ RecordConfirmed(i)
             \/ RecordCompensated(i) \/ RecordCompensationFailed(i)
      PROVE  RepliesInv'
  <2>1. \/ UNCHANGED reply
        \/ \E v \in TerminalStatuses : Return(i, v) /\ \E p : InsertReceipt(v, p)
    BY <1>6 DEF RecordFailure, RecordNeedsReview, RecordConfirmed, RecordCompensated,
       RecordCompensationFailed, Refused, Throw, Goto, FinalizeFailed,
       FinalizeNeedsReview, FinalizeConfirmed, FinalizeCompensated,
       FinalizeCompensationFailed, TerminalStatuses
  <2> QED BY <1>2, <1>3, <1>5, <2>1
<1>7. ASSUME NEW i \in Invocations,
             \/ ClaimToExecute(i) \/ ClaimToReconcile(i) \/ ClaimThrows(i)
             \/ Submit(i) \/ ExecuteHook(i) \/ HookSucceeds(i) \/ HookRejected(i)
             \/ HookOutcomeUnknown(i) \/ RecordUnknown(i) \/ ReconcileHook(i)
             \/ RecordUnavailable(i) \/ VerifyHook(i) \/ BeginCompensation(i)
             \/ CompensateHook(i) \/ Crash(i) \/ Retry(i)
      PROVE  UNCHANGED reply
  BY <1>7 DEF ClaimToExecute, ClaimToReconcile, ClaimThrows, Submit, ExecuteHook,
     HookSucceeds, HookRejected, HookOutcomeUnknown, RecordUnknown, ReconcileHook,
     RecordUnavailable, VerifyHook, BeginCompensation, CompensateHook, Crash, Retry,
     Throw, Goto, GotoWithAttempt
<1>8. CASE UNCHANGED vars \/ ClaimExpires \/ \E a \in inflight : ProviderApplies(a)
  BY <1>2, <1>8 DEF vars, ClaimExpires, ProviderApplies, callVars
<1> QED BY <1>2, <1>4, <1>6, <1>7, <1>8 DEF Next, Step

\* All callers of the key are told the same.
THEOREM RepliesConsistent == Spec => []RepliesAgree
<1>1. Init => RepliesInv
  BY DEF Init, RepliesInv
<1>2. IInv /\ ReceiptInv /\ RepliesInv /\ [Next]_vars => RepliesInv'
  BY RepliesStep
<1>3. RepliesInv => RepliesAgree
  BY DEF RepliesInv, RepliesAgree
<1> QED
  BY <1>1, <1>2, <1>3, InductiveInvariant, ImplementsStore, ReceiptCorrect, PTL DEF Spec

\* Before the first claim nobody is past it; the fingerprint is written by that
\* claim only, and every other claim that succeeds has compared it.
InertInv ==
  /\ ConflictingCallInert
  /\ status = "ABSENT" =>
       \A i \in Invocations : pc[i] \in {"claim", "threw"} /\ attempt[i] = 0

LEMMA InertStep ==
  ASSUME IInv, InertInv, [Next]_vars
  PROVE  InertInv'
<1> USE DEF IInv, TypeOK, CallTypeOK, InertInv, ConflictingCallInert
<1> DEFINE Others(i) ==
      \A j \in Invocations \ {i} : pc'[j] = pc[j] /\ attempt'[j] = attempt[j]
<1>1. CASE UNCHANGED <<pc, attempt, status, fingerprint>>
  BY <1>1
<1>2. ASSUME NEW i \in Invocations, Others(i), fingerprint' = fingerprint,
             status' = "ABSENT" => status = "ABSENT",
             \/ pc'[i] \in {"claim", "threw"} /\ attempt'[i] = attempt[i]
             \/ status' # "ABSENT" /\ fingerprint = FingerprintOf[i]
             \/ status' # "ABSENT" /\ pc[i] \notin {"claim", "threw"}
      PROVE  InertInv'
  <2>1. ASSUME status' = "ABSENT", NEW j \in Invocations
        PROVE  pc'[j] \in {"claim", "threw"} /\ attempt'[j] = 0
    BY <1>2, <2>1
  <2>2. ASSUME fingerprint' # Null, NEW j \in Invocations, FingerprintOf[j] # fingerprint'
        PROVE  pc'[j] \in {"claim", "threw"} /\ attempt'[j] = 0
    BY <1>2, <2>2
  <2> QED BY <2>1, <2>2
<1>3. ASSUME NEW i \in Invocations, NEW call, Goto(i, call) \/ GotoWithAttempt(i, call)
      PROVE  Others(i) /\ pc'[i] = call
  BY <1>3 DEF Goto, GotoWithAttempt
<1>4. ASSUME NEW i \in Invocations, NEW final, Return(i, final)
      PROVE  Others(i)
  BY <1>4 DEF Return
<1>5. ASSUME NEW i \in Invocations, ClaimToExecute(i)
      PROVE  InertInv'
  <2>1. CASE ClaimNew(WorkerOf[i], FingerprintOf[i])
    <3>1. /\ status = "ABSENT" /\ status' = "CLAIMED" /\ fingerprint' = FingerprintOf[i]
          /\ Others(i)
      BY <1>3, <1>5, <2>1 DEF ClaimNew, ClaimToExecute
    <3> QED BY <3>1
  <2>2. CASE ClaimReclaimed(WorkerOf[i], FingerprintOf[i])
    BY <1>2, <1>3, <1>5, <2>2 DEF ClaimReclaimed, Claimable, ClaimToExecute
  <2> QED BY <1>5, <2>1, <2>2 DEF ClaimToExecute
<1>6. ASSUME NEW i \in Invocations, ClaimToReconcile(i)
      PROVE  InertInv'
  <2>1. /\ fingerprint = FingerprintOf[i] /\ status # "ABSENT"
        /\ status' = "RECONCILING" /\ fingerprint' = fingerprint
    BY <1>6 DEF ClaimToReconcile, ClaimReconcile, Claimable, StartReconciliation
  <2> QED BY <1>2, <1>3, <1>6, <2>1 DEF ClaimToReconcile
<1>7. ASSUME NEW i \in Invocations, ClaimAnswered(i)
      PROVE  InertInv'
  BY <1>2, <1>4, <1>7 DEF ClaimAnswered, ClaimTerminal, Claimable, storeVars
<1>8. ASSUME NEW i \in Invocations, ClaimThrows(i) \/ Crash(i) \/ Retry(i)
      PROVE  InertInv'
  <2>1. /\ Goto(i, "threw") \/ Goto(i, "claim")
        /\ UNCHANGED <<status, fingerprint>>
    BY <1>8 DEF ClaimThrows, Crash, Retry, Throw, storeVars
  <2> QED BY <1>2, <1>3, <2>1 DEF Goto
<1>9. ASSUME NEW i \in Invocations, pc[i] \notin {"claim", "threw"}, Others(i),
             \/ UNCHANGED <<status, fingerprint>>
             \/ fingerprint' = fingerprint /\ status' # "ABSENT"
      PROVE  InertInv'
  <2>1. status # "ABSENT"
    BY <1>9
  <2> QED BY <1>2, <1>9, <2>1
<1>10. ASSUME NEW i \in Invocations,
              \/ Submit(i) \/ RecordUnknown(i) \/ RecordUnavailable(i)
              \/ BeginCompensation(i)
       PROVE  InertInv'
  <2>1. /\ pc[i] \in {"markSubmitted", "markUnknown", "markUnavailable", "markCompensating"}
        /\ \E call : Goto(i, call) \/ GotoWithAttempt(i, call)
        /\ \/ UNCHANGED <<status, fingerprint>>
           \/ fingerprint' = fingerprint /\ status' # "ABSENT"
    BY <1>10 DEF Submit, RecordUnknown, RecordUnavailable, BeginCompensation, Throw,
       MarkSubmitted, MarkUnknown, MarkReconciliationUnavailable, MarkCompensating,
       Transition, storeVars
  <2> QED BY <1>3, <1>9, <2>1
<1>11. ASSUME NEW i \in Invocations,
              \/ RecordFailure(i) \/ RecordNeedsReview(i) \/ RecordConfirmed(i)
              \/ RecordCompensated(i) \/ RecordCompensationFailed(i)
       PROVE  InertInv'
  <2>1. /\ pc[i] \notin {"claim", "threw"}
        /\ Goto(i, "threw") \/ \E final : Return(i, final)
        /\ \/ UNCHANGED <<status, fingerprint>>
           \/ fingerprint' = fingerprint /\ status' # "ABSENT"
    BY <1>11 DEF RecordFailure, RecordNeedsReview, RecordConfirmed, RecordCompensated,
       RecordCompensationFailed, Refused, Throw, FinalizeFailed, FinalizeNeedsReview,
       FinalizeConfirmed, FinalizeCompensated, FinalizeCompensationFailed, Transition,
       storeVars
  <2> QED BY <1>3, <1>4, <1>9, <2>1
<1>12. ASSUME NEW i \in Invocations,
              \/ ExecuteHook(i) \/ HookSucceeds(i) \/ HookRejected(i)
              \/ HookOutcomeUnknown(i) \/ ReconcileHook(i) \/ VerifyHook(i)
              \/ CompensateHook(i)
       PROVE  InertInv'
  <2>1. /\ pc[i] \notin {"claim", "threw"}
        /\ \E call : Goto(i, call)
        /\ UNCHANGED <<status, fingerprint>>
    BY <1>12 DEF ExecuteHook, HookSucceeds, HookRejected, HookOutcomeUnknown,
       ReconcileHook, VerifyHook, CompensateHook, storeVars
  <2> QED BY <1>3, <1>9, <2>1
<1>13. CASE UNCHANGED vars \/ ClaimExpires \/ \E a \in inflight : ProviderApplies(a)
  BY <1>1, <1>13 DEF vars, ClaimExpires, LeaseExpires, ProviderApplies, callVars, storeVars
<1> QED BY <1>5, <1>6, <1>7, <1>8, <1>10, <1>11, <1>12, <1>13 DEF Next, Step

\* A call with other input is stopped by its claim.
THEOREM ConflictStopped == Spec => []ConflictingCallInert
<1>1. Init => InertInv
  BY DEF Init, InertInv, ConflictingCallInert
<1>2. IInv /\ InertInv /\ [Next]_vars => InertInv'
  BY InertStep
<1>3. InertInv => ConflictingCallInert
  BY DEF InertInv
<1> QED BY <1>1, <1>2, <1>3, InductiveInvariant, PTL DEF Spec

\* While the submission is open it is the only attempt.
LoneSubmission == status = "SUBMITTED" => DOMAIN attempts = {1}

LEMMA LoneSubmissionStep ==
  ASSUME StoreTypeOK, HistoryInv, LoneSubmission, [StoreNext]_storeVars
  PROVE  LoneSubmission'
<1>1. CASE UNCHANGED <<status, attempts>>
  BY <1>1 DEF LoneSubmission
<1>2. CASE status' # "SUBMITTED"
  BY <1>2 DEF LoneSubmission
<1>3. ASSUME NEW w \in Workers, MarkSubmitted(w)
      PROVE  LoneSubmission'
  <2>1. attempts = <<>>
    BY <1>3, LegalSources DEF MarkSubmitted, CanSubmit, HistoryInv
  <2>2. attempts' = <<[kind |-> "EXECUTION", outcome |-> "RUNNING"]>>
    BY <1>3, <2>1 DEF MarkSubmitted, StartAttempt
  <2> QED BY <2>2 DEF LoneSubmission
<1>4. ASSUME NEW n, MarkUnknown(n) \/ MarkReconciliationUnavailable(n) \/ Finalize(n)
      PROVE  status' # "SUBMITTED"
  BY <1>4 DEF MarkUnknown, MarkReconciliationUnavailable, Finalize, FinalizeConfirmed,
     FinalizeFailed, FinalizeNeedsReview, FinalizeCompensated,
     FinalizeCompensationFailed, Transition
<1>5. ASSUME NEW w, NEW fp, Claim(w, fp)
      PROVE  status' # "SUBMITTED" \/ UNCHANGED <<status, attempts>>
  BY <1>5 DEF Claim, ClaimNew, ClaimReclaimed, ClaimReconcile, StartReconciliation
<1> QED
  BY <1>1, <1>2, <1>3, <1>4, <1>5 DEF StoreNext, MarkCompensating, Transition,
     LeaseExpires, storeVars

LEMMA PreventedStep ==
  ASSUME IInv, HistoryInv, ReceiptInv, LoneSubmission, PreventedConfirmationReconciled,
         [Next]_vars
  PROVE  PreventedConfirmationReconciled'
<1> USE DEF IInv, TypeOK, StoreTypeOK
<1>1. CASE UNCHANGED <<attempts, receipt>>
  BY <1>1 DEF PreventedConfirmationReconciled
<1>2. CASE receipt # NoReceipt
  BY <1>1, <1>2, StoreStep, FrozenWithReceipt
<1>3. CASE receipt' = NoReceipt
  BY <1>3 DEF PreventedConfirmationReconciled, NoReceipt
<1>4. ASSUME NEW i \in Invocations, RecordConfirmed(i), ~ UNCHANGED <<attempts, receipt>>
      PROVE  PreventedConfirmationReconciled'
  <2> DEFINE n == attempt[i]
  <2>1. /\ pc[i] = "finalizeConfirmed"
        /\ FinalizeConfirmed(n, Reconciled(i))
    BY <1>4 DEF RecordConfirmed, Refused, storeVars
  <2>2. n \in DOMAIN attempts
    BY <2>1 DEF AttemptsInRange, WithAttempt, Calls
  <2>3. status \in {"SUBMITTED", "RECONCILING"}
    BY <2>1, LegalSources DEF FinalizeConfirmed, Transition
  <2>4. receipt'.prevented = Reconciled(i)
    BY <2>1 DEF FinalizeConfirmed, InsertReceipt
  <2>5. ASSUME Reconciled(i)
        PROVE  status = "RECONCILING"
    BY <2>2, <2>3, <2>5 DEF Reconciled, LoneSubmission, HistoryInv
  <2>6. ASSUME Reconciled(i)
        PROVE  n \in DOMAIN attempts' /\
               attempts'[n] = [kind |-> "RECONCILIATION", outcome |-> "RECONCILED"]
    <3>1. attempts' = [attempts EXCEPT ![n].outcome = "RECONCILED"]
      BY <2>1, <2>5, <2>6 DEF FinalizeConfirmed, SetOutcome
    <3>2. attempts[n] \in Attempts /\ attempts[n].kind = "RECONCILIATION"
      BY <2>2, <2>6 DEF Reconciled
    <3> QED BY <2>2, <3>1, <3>2 DEF Attempts
  <2> QED BY <2>4, <2>6 DEF PreventedConfirmationReconciled
<1>5. ASSUME NEW i \in Invocations,
             \/ RecordFailure(i) \/ RecordNeedsReview(i) \/ RecordCompensated(i)
             \/ RecordCompensationFailed(i)
      PROVE  receipt' = receipt \/ receipt'.status # "CONFIRMED"
  BY <1>5 DEF RecordFailure, RecordNeedsReview, RecordCompensated,
     RecordCompensationFailed, Refused, FinalizeFailed, FinalizeNeedsReview,
     FinalizeCompensated, FinalizeCompensationFailed, InsertReceipt, storeVars
<1>6. ASSUME NEW i \in Invocations,
             \/ ClaimToExecute(i) \/ ClaimToReconcile(i) \/ Submit(i)
             \/ RecordUnknown(i) \/ RecordUnavailable(i) \/ BeginCompensation(i)
      PROVE  receipt' = receipt
  BY <1>6 DEF ClaimToExecute, ClaimToReconcile, Submit, RecordUnknown,
     RecordUnavailable, BeginCompensation, ClaimNew, ClaimReclaimed, ClaimReconcile,
     StartReconciliation, MarkSubmitted, MarkUnknown, MarkReconciliationUnavailable,
     MarkCompensating, storeVars
<1>7. ASSUME NEW i \in Invocations,
             \/ ClaimAnswered(i) \/ ClaimThrows(i) \/ ExecuteHook(i)
             \/ HookSucceeds(i) \/ HookRejected(i) \/ HookOutcomeUnknown(i)
             \/ ReconcileHook(i) \/ VerifyHook(i) \/ CompensateHook(i)
             \/ Crash(i) \/ Retry(i)
      PROVE  receipt' = receipt
  BY <1>7 DEF ClaimAnswered, ClaimThrows, ExecuteHook, HookSucceeds, HookRejected,
     HookOutcomeUnknown, ReconcileHook, VerifyHook, CompensateHook, Crash, Retry,
     storeVars
<1>8. CASE UNCHANGED vars \/ ClaimExpires \/ \E a \in inflight : ProviderApplies(a)
  BY <1>1, <1>8 DEF vars, ClaimExpires, LeaseExpires, ProviderApplies, storeVars
<1>9. CASE receipt' = receipt
  BY <1>2, <1>3, <1>9
<1>10. CASE receipt'.status # "CONFIRMED"
  BY <1>10 DEF PreventedConfirmationReconciled
<1> QED
  BY <1>1, <1>4, <1>5, <1>6, <1>7, <1>8, <1>9, <1>10 DEF Next, Step

\* A confirmation that claims a prevented duplicate was found, not made.
THEOREM PreventedIsReconciled == Spec => []PreventedConfirmationReconciled
<1>1. Init => LoneSubmission /\ PreventedConfirmationReconciled
  BY DEF Init, StoreInit, LoneSubmission, PreventedConfirmationReconciled, NoReceipt
<1>2. IInv /\ HistoryInv /\ ReceiptInv /\ LoneSubmission
        /\ PreventedConfirmationReconciled /\ [Next]_vars
          => LoneSubmission' /\ PreventedConfirmationReconciled'
  <2> SUFFICES ASSUME IInv, HistoryInv, ReceiptInv, LoneSubmission,
                      PreventedConfirmationReconciled, [Next]_vars
               PROVE  LoneSubmission' /\ PreventedConfirmationReconciled'
    OBVIOUS
  <2>1. TypeOK /\ AttemptsInRange
    BY DEF IInv
  <2>2. StoreTypeOK /\ [StoreNext]_storeVars
    BY <2>1, StoreStep DEF TypeOK
  <2> QED BY <2>2, LoneSubmissionStep, PreventedStep
<1>3. StoreTypeOK /\ HistoryInv => HistoryInv
  OBVIOUS
<1> QED
  BY <1>1, <1>2, <1>3, InductiveInvariant, ImplementsStore, ReceiptCorrect,
     HistoryCorrect, PTL DEF Spec

-----------------------------------------------------------------------------
(* The SDK over the in-memory ledger                                       *)

\* The calls that record the end of an attempt, accepted or refused
MemRecordStep(i) ==
  \/ MemRecordFailure(i) \/ MemRecordNeedsReview(i) \/ MemRecordConfirmed(i)
  \/ MemRecordCompensated(i) \/ MemRecordCompensationFailed(i)

\* By what they do: the caller's own attempt gets an outcome; if the call is
\* accepted the receipt gets the verdict of that outcome and the call returns.
LEMMA MemRecordCases ==
  ASSUME NEW i \in Invocations, MemRecordStep(i)
  PROVE  /\ pc[i] \in WithAttempt
         /\ MemFinalizeAny(attempt[i]) \/ MemRefusedAny(attempt[i])
         /\ UNCHANGED providerVars
         /\ \E o \in DOMAIN VerdictOf :
              /\ SetOutcome(attempt[i], o)
              /\ \/ receipt'.status = VerdictOf[o] /\ Return(i, VerdictOf[o])
                 \/ UNCHANGED receipt /\ Throw(i)
<1> USE DEF WithAttempt, Calls, MemRecord
<1>1. CASE MemRecordFailure(i)
  <2>1. PICK call \in {"failPreSubmission", "failRejected"} :
          MemRecord(i, call, FailureOutcome(call), "FAILED", FALSE)
    BY <1>1 DEF MemRecordFailure
  <2>2. /\ FailureOutcome(call) \in {"PRE_SUBMISSION_FAILURE", "CONFIRMED_FAILURE"}
        /\ FailureOutcome(call) \in DOMAIN VerdictOf
        /\ VerdictOf[FailureOutcome(call)] = "FAILED"
    BY DEF FailureOutcome, VerdictOf
  <2>3. MemFinalizeAny(attempt[i]) \/ MemRefusedAny(attempt[i])
    BY <2>1, <2>2 DEF MemFinalizeAny, MemRefusedAny
  <2> QED BY <2>1, <2>2, <2>3 DEF MemFinalize, CreateReceipt, LeaveOutcome
<1>2. CASE MemRecordConfirmed(i)
  <2>1. /\ ConfirmedOutcome \in DOMAIN VerdictOf
        /\ VerdictOf[ConfirmedOutcome] = "CONFIRMED"
    BY DEF ConfirmedOutcome, VerdictOf
  <2>2. Reconciled(i) \in BOOLEAN
    BY DEF Reconciled
  <2>3. MemFinalizeAny(attempt[i]) \/ MemRefusedAny(attempt[i])
    BY <1>2, <2>2 DEF MemRecordConfirmed, MemFinalizeAny, MemRefusedAny
  <2> QED
    BY <1>2, <2>1, <2>3 DEF MemRecordConfirmed, MemFinalize, CreateReceipt, LeaveOutcome
<1>3. CASE MemRecordNeedsReview(i)
  BY <1>3 DEF MemRecordNeedsReview, MemFinalizeAny, MemRefusedAny, MemFinalize,
     CreateReceipt, LeaveOutcome, VerdictOf
<1>4. CASE MemRecordCompensated(i)
  BY <1>4 DEF MemRecordCompensated, MemFinalizeAny, MemRefusedAny, MemFinalize,
     CreateReceipt, LeaveOutcome, VerdictOf
<1>5. CASE MemRecordCompensationFailed(i)
  BY <1>5 DEF MemRecordCompensationFailed, MemFinalizeAny, MemRefusedAny, MemFinalize,
     CreateReceipt, LeaveOutcome, VerdictOf
<1> QED BY <1>1, <1>2, <1>3, <1>4, <1>5 DEF MemRecordStep

LEMMA MemUnknownCases ==
  ASSUME NEW i \in Invocations, MemRecordUnknown(i)
  PROVE  /\ pc[i] \in WithAttempt
         /\ MemMarkUnknownAny(attempt[i])
         /\ Throw(i)
         /\ UNCHANGED <<providerVars, receipt>>
         /\ \E o : SetOutcome(attempt[i], o)
  BY DEF MemRecordUnknown, MemMarkUnknownAny, MemMarkUnknown, LeaveOutcome,
     WithAttempt, Calls

\* Every step of the SDK is a step of the in-memory ledger's general client.
LEMMA MemStoreStep ==
  ASSUME TypeOK, AttemptsInRange, [MemNext]_vars
  PROVE  [MemStoreNext]_storeVars
<1> USE InvocationAssumption
<1>1. ASSUME NEW i \in Invocations, ClaimToExecute(i) \/ ClaimToReconcile(i)
      PROVE  MemStoreNext
  <2>1. MemClaim(WorkerOf[i], FingerprintOf[i])
    BY <1>1 DEF ClaimToExecute, ClaimToReconcile, Claim, MemClaim
  <2> QED BY <2>1 DEF MemStoreNext
<1>2. ASSUME NEW i \in Invocations, Submit(i)
      PROVE  [MemStoreNext]_storeVars
  BY <1>2 DEF Submit, MemStoreNext, MemMarkSubmitted
<1>3. ASSUME NEW i \in Invocations, BeginCompensation(i)
      PROVE  [MemStoreNext]_storeVars
  BY <1>3 DEF BeginCompensation, MemStoreNext
<1>4. ASSUME NEW i \in Invocations, MemRecordStep(i) \/ MemRecordUnknown(i)
      PROVE  MemStoreNext
  BY <1>4, MemRecordCases, MemUnknownCases DEF AttemptsInRange, MemStoreNext
<1>5. ASSUME NEW i \in Invocations,
             \/ ClaimAnswered(i) \/ ClaimThrows(i) \/ ExecuteHook(i)
             \/ HookSucceeds(i) \/ HookRejected(i) \/ HookOutcomeUnknown(i)
             \/ ReconcileHook(i) \/ VerifyHook(i) \/ CompensateHook(i)
             \/ UnguardedHookThrows(i)
      PROVE  UNCHANGED storeVars
  BY <1>5 DEF ClaimAnswered, ClaimThrows, ExecuteHook, HookSucceeds, HookRejected,
     HookOutcomeUnknown, ReconcileHook, VerifyHook, CompensateHook, UnguardedHookThrows
<1>6. CASE UNCHANGED vars \/ ClaimExpires \/ \E a \in inflight : ProviderApplies(a)
  BY <1>6 DEF vars, ClaimExpires, ProviderApplies, MemStoreNext
<1> QED BY <1>1, <1>2, <1>3, <1>4, <1>5, <1>6 DEF MemNext, MemStep, MemRecordStep

LEMMA MemStoreProgresses ==
  ASSUME MemHistoryInv, [MemStoreNext]_storeVars
  PROVE  StoreProgress
<1>0. StoreTypeOK /\ StoreTypeOK'
  BY MemHistoryStep DEF MemHistoryInv
<1>1. CASE [StoreNext]_storeVars
  BY <1>0, <1>1, AttemptsGrow, StatusStep DEF StoreProgress
<1>2. ASSUME NEW n, NEW o \in AttemptOutcomes, SetOutcome(n, o),
             UNCHANGED status \/ \E to \in OperationStatuses \ Fresh : Transition(to)
      PROVE  StoreProgress
  <2>1. DOMAIN attempts \subseteq DOMAIN attempts'
    BY <1>0, <1>2, SetOutcomeKeeps DEF SetOutcome, StoreTypeOK
  <2>2. ASSUME NEW to \in OperationStatuses \ Fresh, Transition(to)
        PROVE  /\ status' \notin Fresh
               /\ status \in Compensated => status' \in Compensated
    BY <2>2 DEF Transition, CanMoveTo, CanTransition, LegalTransitions,
       OperationStatuses, Fresh, Compensated
  <2> QED BY <1>0, <1>2, <2>1, <2>2 DEF StoreProgress
<1>3. ASSUME NEW n, MemFinalizeAny(n)
      PROVE  StoreProgress
  <2>1. PICK o \in AttemptOutcomes, final \in TerminalStatuses, p \in BOOLEAN :
          MemFinalize(n, o, final, p)
    BY <1>3, MemFinalizeCases
  <2>2. final \in OperationStatuses \ Fresh
    BY DEF TerminalStatuses, OperationStatuses, Fresh
  <2> QED BY <1>2, <2>1, <2>2 DEF MemFinalize
<1>4. ASSUME NEW n, MemRefusedAny(n) \/ MemMarkUnknownAny(n)
      PROVE  StoreProgress
  <2>1. "UNKNOWN" \in OperationStatuses \ Fresh
    BY DEF OperationStatuses, Fresh
  <2> QED BY <1>2, <1>4, <2>1, MemRefusedCases, MemMarkUnknownCases
<1> QED
  BY <1>1, <1>3, <1>4 DEF MemStoreNext, MemClaim, MemMarkSubmitted, StoreNext

-----------------------------------------------------------------------------
(* Who owns an attempt                                                     *)

\* No two running calls work under the same attempt.
AttemptOwned ==
  \A i, j \in Invocations :
    pc[i] \in WithAttempt /\ pc[j] \in WithAttempt /\ attempt[i] = attempt[j] => i = j

\* The attempt that explains the receipt belongs to a call that has ended, so
\* no refused call can still mark it.
AuthorKept ==
  receipt # NoReceipt =>
    \E n \in DecidingAttempts :
      /\ VerdictOf[attempts[n].outcome] = receipt.status
      /\ \A i \in Invocations : pc[i] \in WithAttempt => attempt[i] # n

MemIInv ==
  /\ TypeOK /\ AttemptsInRange /\ ExecutionInv
  /\ MemHistoryInv /\ MemReceiptInv
  /\ AttemptOwned /\ AuthorKept

LEMMA MemProgress ==
  ASSUME MemIInv, [MemNext]_vars
  PROVE  StoreProgress /\ MemHistoryInv' /\ MemReceiptInv'
  BY MemStoreStep, MemStoreProgresses, MemHistoryStep, MemReceiptStep
  DEF MemIInv, MemHistoryInv

\* A step that ends a call, or the hook that throws outside any try block
LEMMA MemEnds ==
  ASSUME NEW i \in Invocations,
         MemRecordStep(i) \/ MemRecordUnknown(i) \/ UnguardedHookThrows(i)
  PROVE  /\ \/ Goto(i, "threw")
            \/ \E final \in TerminalStatuses : Return(i, final)
         /\ \E call \in {"claim", "returned", "threw"} : pc' = [pc EXCEPT ![i] = call]
         /\ UNCHANGED providerVars
<1>1. \A o \in DOMAIN VerdictOf : VerdictOf[o] \in TerminalStatuses
  BY DEF VerdictOf, TerminalStatuses
<1>2. CASE MemRecordStep(i)
  BY <1>1, <1>2, MemRecordCases DEF Throw, Goto, Return
<1>3. CASE MemRecordUnknown(i) \/ UnguardedHookThrows(i)
  BY <1>3, MemUnknownCases DEF UnguardedHookThrows, Throw, Goto
<1> QED BY <1>2, <1>3

LEMMA MemCallStep ==
  ASSUME MemIInv, [MemNext]_vars
  PROVE  TypeOK' /\ AttemptsInRange' /\ ExecutionInv'
<1> USE DEF MemIInv
<1>0. StoreProgress
  BY MemProgress
<1>1. ASSUME NEW i \in Invocations, SharedStep(i)
      PROVE  CallTypeOK' /\ AttemptsInRange' /\ ProviderTypeOK' /\ ExecutionInv'
  BY <1>0, <1>1, SharedCallStep, SharedProviderStep, SharedExecutionStep
<1>2. ASSUME NEW i \in Invocations,
             MemRecordStep(i) \/ MemRecordUnknown(i) \/ UnguardedHookThrows(i)
      PROVE  CallTypeOK' /\ AttemptsInRange' /\ ProviderTypeOK' /\ ExecutionInv'
  BY <1>0, <1>2, MemEnds, EndCallStep, NoProviderStep, EndExecutionStep
<1>3. ASSUME UNCHANGED vars \/ ClaimExpires \/ \E a \in inflight : ProviderApplies(a)
      PROVE  CallTypeOK' /\ AttemptsInRange' /\ ProviderTypeOK' /\ ExecutionInv'
  <2>1. UNCHANGED callVars
    BY <1>3 DEF vars, ClaimExpires, ProviderApplies, callVars
  <2>2. UNCHANGED providerVars \/ \E a \in inflight : ProviderApplies(a)
    BY <1>3 DEF vars, ClaimExpires
  <2> QED BY <1>0, <1>3, <2>1, <2>2, NoCallStep, NoProviderStep, OtherExecutionStep
<1>4. CallTypeOK' /\ AttemptsInRange' /\ ProviderTypeOK' /\ ExecutionInv'
  BY <1>1, <1>2, <1>3 DEF MemNext, MemStep, MemRecordStep, SharedStep
<1> QED BY <1>0, <1>4 DEF StoreProgress, TypeOK, CallTypeOK, ProviderTypeOK

\* A step of a call works on under the attempt it has, or begins a new one while
\* there is no receipt.
LEMMA SharedOwnerCases ==
  ASSUME MemIInv, NEW i \in Invocations, SharedStep(i)
  PROVE  /\ receipt' = receipt
         /\ \E call : pc' = [pc EXCEPT ![i] = call] /\
              \/ /\ call \in WithAttempt => pc[i] \in WithAttempt
                 /\ UNCHANGED <<attempt, attempts>>
              \/ /\ receipt = NoReceipt
                 /\ Len(attempts') \notin DOMAIN attempts
                 /\ attempt' = [attempt EXCEPT ![i] = Len(attempts')]
<1> USE DEF MemIInv, TypeOK
<1>0. /\ attempts \in Seq(Attempts) /\ Len(attempts) \in Nat
      /\ DOMAIN attempts = 1..Len(attempts)
      /\ status \in {"CLAIMED", "SUBMITTED", "RECONCILING", "UNKNOWN"} => receipt = NoReceipt
  BY LenProperties DEF StoreTypeOK, MemReceiptInv, Receipts, TerminalStatuses
<1>1. ASSUME NEW s \in Seq(Attempts), Len(s) = Len(attempts),
             NEW k \in AttemptKinds, StartAttempt(s, k)
      PROVE  Len(attempts') \notin DOMAIN attempts
  <2>1. Len(attempts') = Len(attempts) + 1
    BY <1>1, StartAttemptKeeps DEF StartAttempt
  <2> QED BY <1>0, <2>1
<1>2. CASE Submit(i)
  <2>1. CASE Throw(i) /\ UNCHANGED storeVars
    <3>1. pc' = [pc EXCEPT ![i] = "threw"] /\ UNCHANGED <<attempt, attempts, receipt>>
      BY <2>1 DEF Throw, Goto, storeVars
    <3>2. "threw" \notin WithAttempt
      BY DEF WithAttempt, Calls
    <3> QED BY <3>1, <3>2
  <2>2. CASE MarkSubmitted(WorkerOf[i]) /\ GotoWithAttempt(i, "execute")
    <3>1. Len(attempts') \notin DOMAIN attempts
      BY <1>0, <1>1, <2>2 DEF MarkSubmitted, AttemptKinds
    <3>2. receipt' = receipt /\ receipt = NoReceipt
      BY <1>0, <2>2, LegalSources DEF MarkSubmitted, CanSubmit
    <3> QED BY <2>2, <3>1, <3>2 DEF GotoWithAttempt
  <2> QED BY <1>2, <2>1, <2>2 DEF Submit
<1>3. CASE ClaimToReconcile(i)
  <2>1. ASSUME NEW o \in AttemptOutcomes
        PROVE  /\ WithLatestRunningClosed(o) \in Seq(Attempts)
               /\ Len(WithLatestRunningClosed(o)) = Len(attempts)
    BY <1>0, CloseLatestKeeps
  <2>2. /\ \E s \in Seq(Attempts) :
             Len(s) = Len(attempts) /\ StartReconciliation(WorkerOf[i], s)
        /\ status \in {"SUBMITTED", "RECONCILING", "UNKNOWN"}
    BY <1>0, <1>3, <2>1 DEF ClaimToReconcile, ClaimReconcile, AttemptOutcomes
  <2>3. Len(attempts') \notin DOMAIN attempts /\ receipt' = receipt
    BY <1>1, <2>2 DEF StartReconciliation, AttemptKinds
  <2> QED BY <1>0, <1>3, <2>2, <2>3 DEF ClaimToReconcile, GotoWithAttempt
<1>4. CASE \/ ClaimToExecute(i) \/ ClaimAnswered(i) \/ ClaimThrows(i)
  BY <1>4 DEF ClaimToExecute, ClaimAnswered, ClaimThrows, ClaimNew, ClaimReclaimed,
     Throw, Goto, Return, storeVars, WithAttempt, Calls
<1>5. CASE \/ ExecuteHook(i) \/ HookSucceeds(i) \/ HookRejected(i)
           \/ HookOutcomeUnknown(i) \/ ReconcileHook(i) \/ VerifyHook(i)
           \/ BeginCompensation(i) \/ CompensateHook(i)
  <2>1. pc[i] \in WithAttempt /\ \E call : Goto(i, call)
    BY <1>5 DEF ExecuteHook, HookSucceeds, HookRejected, HookOutcomeUnknown,
       ReconcileHook, VerifyHook, BeginCompensation, CompensateHook, Throw,
       WithAttempt, Calls
  <2>2. UNCHANGED <<attempts, receipt>>
    BY <1>5 DEF ExecuteHook, HookSucceeds, HookRejected, HookOutcomeUnknown,
       ReconcileHook, VerifyHook, BeginCompensation, MarkCompensating,
       CompensateHook, storeVars
  <2> QED BY <2>1, <2>2 DEF Goto
<1> QED BY <1>2, <1>3, <1>4, <1>5 DEF SharedStep

LEMMA MemOwnerStep ==
  ASSUME MemIInv, [MemNext]_vars
  PROVE  AttemptOwned' /\ AuthorKept'
<1> USE DEF MemIInv, TypeOK, AttemptOwned, AuthorKept
<1>1. ASSUME NEW i \in Invocations, SharedStep(i)
      PROVE  AttemptOwned' /\ AuthorKept'
  <2>1. PICK call : /\ pc' = [pc EXCEPT ![i] = call]
                    /\ receipt' = receipt
                    /\ \/ /\ call \in WithAttempt => pc[i] \in WithAttempt
                          /\ UNCHANGED <<attempt, attempts>>
                       \/ /\ receipt = NoReceipt
                          /\ Len(attempts') \notin DOMAIN attempts
                          /\ attempt' = [attempt EXCEPT ![i] = Len(attempts')]
    BY <1>1, SharedOwnerCases
  <2>2. CASE /\ call \in WithAttempt => pc[i] \in WithAttempt
             /\ UNCHANGED <<attempt, attempts>>
    <3>1. \A j \in Invocations : pc'[j] \in WithAttempt => pc[j] \in WithAttempt
      BY <2>1, <2>2
    <3> QED BY <2>1, <2>2, <3>1 DEF DecidingAttempts
  <2>3. CASE /\ receipt = NoReceipt
             /\ Len(attempts') \notin DOMAIN attempts
             /\ attempt' = [attempt EXCEPT ![i] = Len(attempts')]
    <3>1. \A j \in Invocations \ {i} :
            /\ pc'[j] = pc[j] /\ attempt'[j] = attempt[j]
            /\ pc[j] \in WithAttempt => attempt[j] \in DOMAIN attempts
      BY <2>1, <2>3 DEF AttemptsInRange
    <3>2. attempt'[i] \notin DOMAIN attempts
      BY <2>3
    <3> QED BY <2>1, <2>3, <3>1, <3>2
  <2> QED BY <2>1, <2>2, <2>3
<1>2. ASSUME NEW i \in Invocations, pc[i] \in WithAttempt,
             NEW o, SetOutcome(attempt[i], o),
             NEW call, call \notin WithAttempt,
             pc' = [pc EXCEPT ![i] = call], attempt' = attempt,
             \/ UNCHANGED receipt
             \/ o \in DOMAIN VerdictOf /\ receipt'.status = VerdictOf[o]
      PROVE  AttemptOwned' /\ AuthorKept'
  <2> DEFINE n == attempt[i]
  <2>1. /\ \A j \in Invocations :
             pc'[j] \in WithAttempt => pc[j] \in WithAttempt /\ attempt[j] # n
        /\ AttemptOwned'
    BY <1>2
  <2>2. /\ n \in DOMAIN attempts
        /\ attempts[n] \in [kind : AttemptKinds, outcome : AttemptOutcomes]
    <3>1. n \in DOMAIN attempts
      BY <1>2 DEF AttemptsInRange
    <3>2. attempts \in Seq(Attempts) /\ DOMAIN attempts = 1..Len(attempts)
      BY LenProperties DEF StoreTypeOK
    <3> QED BY <3>1, <3>2, ElementOfSeq DEF Attempts
  <2>3. /\ DOMAIN attempts' = DOMAIN attempts
        /\ attempts'[n].outcome = o
        /\ \A m \in DOMAIN attempts \ {n} : attempts'[m] = attempts[m]
    BY <1>2, <2>2 DEF SetOutcome
  <2>4. CASE UNCHANGED receipt
    <3>1. SUFFICES ASSUME receipt # NoReceipt
                   PROVE  AuthorKept'
      BY <2>1, <2>4
    <3>2. PICK m \in DecidingAttempts :
            /\ VerdictOf[attempts[m].outcome] = receipt.status
            /\ \A j \in Invocations : pc[j] \in WithAttempt => attempt[j] # m
      BY <3>1
    <3>3. m # n /\ m \in DOMAIN attempts /\ attempts'[m] = attempts[m]
      BY <1>2, <2>3, <3>2 DEF DecidingAttempts
    <3>4. m \in DecidingAttempts'
      BY <2>3, <3>2, <3>3 DEF DecidingAttempts
    <3> QED BY <1>2, <2>1, <2>4, <3>2, <3>3, <3>4
  <2>5. CASE o \in DOMAIN VerdictOf /\ receipt'.status = VerdictOf[o]
    <3>1. n \in DecidingAttempts' /\ attempts'[n].outcome = o
      BY <2>2, <2>3, <2>5 DEF DecidingAttempts
    <3> QED BY <1>2, <2>1, <2>5, <3>1
  <2> QED BY <1>2, <2>4, <2>5
<1>3. ASSUME NEW i \in Invocations, MemRecordStep(i) \/ MemRecordUnknown(i)
      PROVE  AttemptOwned' /\ AuthorKept'
  <2>1. /\ pc[i] \in WithAttempt /\ attempt' = attempt
        /\ \E call \in {"returned", "threw"} : pc' = [pc EXCEPT ![i] = call]
    BY <1>3, MemRecordCases, MemUnknownCases DEF Throw, Goto, Return
  <2>2. PICK call \in {"returned", "threw"} : pc' = [pc EXCEPT ![i] = call]
    BY <2>1
  <2>3. PICK o : /\ SetOutcome(attempt[i], o)
                 /\ \/ UNCHANGED receipt
                    \/ o \in DOMAIN VerdictOf /\ receipt'.status = VerdictOf[o]
    BY <1>3, MemRecordCases, MemUnknownCases
  <2>4. call \notin WithAttempt
    BY <2>2 DEF WithAttempt, Calls
  <2> QED BY <1>2, <2>1, <2>2, <2>3, <2>4
<1>4. ASSUME UNCHANGED <<attempt, attempts, receipt>>,
             \A j \in Invocations : pc'[j] \in WithAttempt => pc[j] \in WithAttempt
      PROVE  AttemptOwned' /\ AuthorKept'
  BY <1>4 DEF DecidingAttempts
<1>5. ASSUME NEW i \in Invocations, UnguardedHookThrows(i)
      PROVE  AttemptOwned' /\ AuthorKept'
  BY <1>4, <1>5 DEF UnguardedHookThrows, Throw, Goto, storeVars, WithAttempt, Calls
<1>6. CASE UNCHANGED vars \/ ClaimExpires \/ \E a \in inflight : ProviderApplies(a)
  BY <1>4, <1>6 DEF vars, ClaimExpires, LeaseExpires, ProviderApplies, callVars, storeVars
<1> QED BY <1>1, <1>3, <1>5, <1>6 DEF MemNext, MemStep, MemRecordStep, SharedStep

LEMMA MemInductiveInvariant == MemSpec => []MemIInv
<1>1. Init => MemIInv
  <2>1. Init => TypeOK
    BY EmptySeq DEF Init, StoreInit, TypeOK, StoreTypeOK, Receipts, Calls
  <2>2. Init => AttemptsInRange /\ ExecutionInv /\ AttemptOwned /\ AuthorKept
    BY DEF Init, StoreInit, AttemptsInRange, ExecutionInv, AttemptOwned, AuthorKept,
       WithAttempt, AfterExecution
  <2>3. Init => MemHistoryInv /\ MemReceiptInv
    BY EmptySeq DEF Init, StoreInit, StoreTypeOK, MemHistoryInv, MemReceiptInv,
       TerminalHasReceipt, Receipts, TerminalStatuses
  <2> QED BY <2>1, <2>2, <2>3 DEF MemIInv
<1>2. MemIInv /\ [MemNext]_vars => MemIInv'
  BY MemProgress, MemCallStep, MemOwnerStep DEF MemIInv
<1> QED BY <1>1, <1>2, PTL DEF MemSpec

\* The SDK over the in-memory ledger is one of that ledger's clients.
THEOREM MemImplementsStore == MemSpec => ImplementsMemStore
<1>1. Init => StoreInit
  BY DEF Init
<1>2. MemIInv /\ [MemNext]_vars => [MemStoreNext]_storeVars
  BY MemStoreStep DEF MemIInv
<1> QED
  BY <1>1, <1>2, MemInductiveInvariant, PTL DEF MemSpec, ImplementsMemStore, MemStoreSpec

\* One execution for a key over the in-memory ledger, too, although no store
\* call rolls back.
THEOREM MemExecutionUnique == MemSpec => []AtMostOneExecution
<1>1. MemIInv => AtMostOneExecution
  BY DEF MemIInv, ExecutionInv, AtMostOneExecution
<1> QED BY <1>1, MemInductiveInvariant, PTL

\* The SDK's calls replace a receipt only by the verdict of an undo.
THEOREM MemCallsReplaceByUndo == MemSpec => ReceiptReplacedOnlyByUndo
  BY MemImplementsStore, MemReceiptReplaced, PTL DEF ImplementsMemStore

\* The timeline explains the receipt, whatever the refused calls marked.
THEOREM MemReceiptIsExplained == MemSpec => []ReceiptExplained
<1>1. MemIInv => ReceiptExplained
  BY DEF MemIInv, AuthorKept, ReceiptExplained
<1> QED BY <1>1, MemInductiveInvariant, PTL
==============================================================================
