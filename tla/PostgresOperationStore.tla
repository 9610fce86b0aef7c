----------------------- MODULE PostgresOperationStore -----------------------
(***************************************************************************)
(* The durable ledger of packages/core/src/postgres-store.ts, seen by one  *)
(* (namespace, operation_key).  Rows of different keys share no state:     *)
(* every transaction selects one operation FOR UPDATE and writes only the  *)
(* rows of that operation, so one key is the whole ledger.                 *)
(*                                                                         *)
(* Each public method runs in one transaction (transaction(), L140-153)    *)
(* holding the row lock; a committed transaction is one action here, and a *)
(* transaction that throws rolls back and leaves every variable unchanged. *)
(* The methods are parameterised operators, so that StoreNext can call     *)
(* them in any order (the most general client) and module WriteGuard can   *)
(* call them in the order the SDK does.                                    *)
(***************************************************************************)
EXTENDS OperationStateMachine, Naturals, Sequences

CONSTANTS
  Workers,       \* worker ids: who may own a claim
  Fingerprints,  \* request fingerprints (action + material input, hashed)
  Null           \* SQL NULL

ASSUME NullAssumption == Null \notin Workers /\ Null \notin Fingerprints

VARIABLES
  status,        \* writeguard_operations.status, "ABSENT" before the INSERT
  fingerprint,   \* writeguard_operations.request_fingerprint
  owner,         \* writeguard_operations.claim_owner
  lease,         \* claim_expires_at: Null, still in the future, or passed
  attempts,      \* writeguard_operation_attempts by attempt_number
  receipt        \* the row of writeguard_execution_receipts, or NoReceipt

storeVars == <<status, fingerprint, owner, lease, attempts, receipt>>

Attempts == [kind : AttemptKinds, outcome : AttemptOutcomes]

\* No row yet in writeguard_execution_receipts
NoReceipt == [status |-> "none", prevented |-> FALSE]

\* The receipt columns the properties tell apart
Receipts == [status : TerminalStatuses, prevented : BOOLEAN] \cup {NoReceipt}

StoreTypeOK ==
  /\ status \in OperationStatuses \cup {"ABSENT"}
  /\ fingerprint \in Fingerprints \cup {Null}
  /\ owner \in Workers \cup {Null}
  /\ lease \in {"none", "active", "expired"}
  /\ attempts \in Seq(Attempts)
  /\ receipt \in Receipts

StoreInit ==
  /\ status = "ABSENT"
  /\ fingerprint = Null
  /\ owner = Null
  /\ lease = "none"
  /\ attempts = <<>>
  /\ receipt = NoReceipt

-----------------------------------------------------------------------------
(* Steps shared by the transactions                                        *)

\* lockedOperation finds the row and assertTransition accepts the move
CanMoveTo(to) == status # "ABSENT" /\ CanTransition(status, to)

\* transition(): assertTransition, then UPDATE status
Transition(to) == CanMoveTo(to) /\ status' = to

\* INSERT INTO writeguard_operation_attempts, appended to the attempts s
StartAttempt(s, kind) ==
  attempts' = Append(s, [kind |-> kind, outcome |-> "RUNNING"])

\* UPDATE writeguard_operation_attempts ... WHERE id = attemptId
SetOutcome(attemptId, outcome) ==
  attempts' = [attempts EXCEPT ![attemptId].outcome = outcome]

\* UPDATE ... WHERE outcome = 'RUNNING' ORDER BY attempt_number DESC LIMIT 1
WithLatestRunningClosed(outcome) ==
  LET running == {n \in DOMAIN attempts : attempts[n].outcome = "RUNNING"}
  IN  [n \in DOMAIN attempts |->
         IF n \in running /\ \A m \in running : m <= n
           THEN [attempts[n] EXCEPT !.outcome = outcome]
           ELSE attempts[n]]

\* claim_owner = workerId, claim_expires_at = now() + ttl
TakeClaim(w) == owner' = w /\ lease' = "active"

\* claim_owner = NULL, claim_expires_at = NULL
ReleaseClaim == owner' = Null /\ lease' = "none"

\* Mutant: the receipts table lacks its UNIQUE constraint
CanReceiptAgain == TRUE

\* The INSERT of a receipt passes UNIQUE (operation_id)
CanReceipt == receipt = NoReceipt

\* insertReceipt(): the claim is cleared and the one receipt row inserted
InsertReceipt(final, prevented) ==
  /\ CanReceipt
  /\ ReleaseClaim
  /\ receipt' = [status |-> final, prevented |-> prevented]

-----------------------------------------------------------------------------
(* claim(): one action per decision                                        *)

\* The stored fingerprint differs: OperationKeyConflictError
ClaimConflicts(fp) == status # "ABSENT" /\ fingerprint # fp

\* Mutant: the fingerprint is not compared
ClaimableByAnyone(fp) == status # "ABSENT"

Claimable(fp) == status # "ABSENT" /\ fingerprint = fp

LeaseActive == lease = "active"

\* kind "in_progress": somebody holds an unexpired lease
ClaimInProgress(fp) ==
  /\ Claimable(fp)
  /\ status \in {"CLAIMED", "SUBMITTED", "RECONCILING"}
  /\ LeaseActive

\* kind "terminal": the status is terminal and its receipt row exists
ClaimTerminal(fp) ==
  /\ Claimable(fp)
  /\ status \in TerminalStatuses
  /\ receipt # NoReceipt

\* "Terminal operation has no receipt", or "Unhandled claim state"
ClaimUnanswerable(fp) ==
  /\ Claimable(fp)
  /\ \/ status \in TerminalStatuses /\ receipt = NoReceipt
     \/ status \in {"PLANNED", "COMPENSATING"}

\* The INSERT won: PLANNED -> CLAIMED in one transaction, kind "execute"
ClaimNew(w, fp) ==
  /\ status = "ABSENT"
  /\ CanTransition("PLANNED", "CLAIMED")
  /\ status' = "CLAIMED"
  /\ fingerprint' = fp
  /\ TakeClaim(w)
  /\ UNCHANGED <<attempts, receipt>>

\* Mutant: a stale SUBMITTED row is handed out for execution as well
ClaimReclaimedAnyStale(w, fp) ==
  /\ Claimable(fp)
  /\ status \in {"CLAIMED", "SUBMITTED"}
  /\ ~LeaseActive
  /\ status' = "CLAIMED"
  /\ TakeClaim(w)
  /\ UNCHANGED <<fingerprint, attempts, receipt>>

\* A stale CLAIMED row changes hands, kind "execute"
ClaimReclaimed(w, fp) ==
  /\ Claimable(fp)
  /\ status = "CLAIMED"
  /\ ~LeaseActive
  /\ TakeClaim(w)
  /\ UNCHANGED <<status, fingerprint, attempts, receipt>>

\* Mutant: the reconciliation attempt is not recorded
StartReconciliationUnrecorded(w, s) ==
  /\ CanTransition("UNKNOWN", "RECONCILING")
  /\ status' = "RECONCILING"
  /\ TakeClaim(w)
  /\ attempts' = s
  /\ UNCHANGED <<fingerprint, receipt>>

\* startReconciliation() from UNKNOWN, on the attempts s
StartReconciliation(w, s) ==
  /\ CanTransition("UNKNOWN", "RECONCILING")
  /\ status' = "RECONCILING"
  /\ TakeClaim(w)
  /\ StartAttempt(s, "RECONCILIATION")
  /\ UNCHANGED <<fingerprint, receipt>>

\* Mutant: a stale RECONCILING row is never taken over
ClaimReconcileOnce(w, fp) ==
  /\ Claimable(fp)
  /\ \/ /\ status = "SUBMITTED"
        /\ ~LeaseActive
        /\ StartReconciliation(w, WithLatestRunningClosed("UNKNOWN"))
     \/ /\ status = "UNKNOWN"
        /\ StartReconciliation(w, attempts)

\* A stale SUBMITTED or RECONCILING row becomes UNKNOWN and is taken over in
\* the same transaction; an UNKNOWN row is taken over at once.
ClaimReconcile(w, fp) ==
  /\ Claimable(fp)
  /\ \/ /\ status = "SUBMITTED"
        /\ ~LeaseActive
        /\ CanMoveTo("UNKNOWN")
        /\ StartReconciliation(w, WithLatestRunningClosed("UNKNOWN"))
     \/ /\ status = "RECONCILING"
        /\ ~LeaseActive
        /\ CanMoveTo("UNKNOWN")
        /\ StartReconciliation(w,
             WithLatestRunningClosed("RECONCILIATION_UNAVAILABLE"))
     \/ /\ status = "UNKNOWN"
        /\ StartReconciliation(w, attempts)

-----------------------------------------------------------------------------
(* The other methods of OperationStore                                     *)

\* markSubmitted accepts only the claim owner
CanSubmit(w) == owner = w /\ CanMoveTo("SUBMITTED")

MarkSubmitted(w) ==
  /\ CanSubmit(w)
  /\ Transition("SUBMITTED")
  /\ StartAttempt(attempts, "EXECUTION")
  /\ UNCHANGED <<fingerprint, owner, lease, receipt>>

MarkUnknown(attemptId) ==
  /\ SetOutcome(attemptId, "UNKNOWN")
  /\ Transition("UNKNOWN")
  /\ ReleaseClaim
  /\ UNCHANGED <<fingerprint, receipt>>

MarkReconciliationUnavailable(attemptId) ==
  /\ SetOutcome(attemptId, "RECONCILIATION_UNAVAILABLE")
  /\ Transition("UNKNOWN")
  /\ ReleaseClaim
  /\ UNCHANGED <<fingerprint, receipt>>

\* Both the transition and the receipt insert of a finalize method commit
CanFinalize(to) == CanMoveTo(to) /\ CanReceipt

FinalizeConfirmed(attemptId, prevented) ==
  /\ SetOutcome(attemptId,
       IF status = "RECONCILING" THEN "RECONCILED" ELSE "CONFIRMED")
  /\ Transition("CONFIRMED")
  /\ InsertReceipt("CONFIRMED", prevented)
  /\ UNCHANGED fingerprint

FinalizeFailed(attemptId, outcome) ==
  /\ SetOutcome(attemptId, outcome)
  /\ Transition("FAILED")
  /\ InsertReceipt("FAILED", FALSE)
  /\ UNCHANGED fingerprint

\* duplicateExecutionPrevented is the literal true here
FinalizeNeedsReview(attemptId) ==
  /\ SetOutcome(attemptId, "NEEDS_REVIEW")
  /\ Transition("NEEDS_REVIEW")
  /\ InsertReceipt("NEEDS_REVIEW", TRUE)
  /\ UNCHANGED fingerprint

MarkCompensating ==
  /\ Transition("COMPENSATING")
  /\ UNCHANGED <<fingerprint, owner, lease, attempts, receipt>>

FinalizeCompensated(attemptId) ==
  /\ SetOutcome(attemptId, "COMPENSATED")
  /\ Transition("COMPENSATED")
  /\ InsertReceipt("COMPENSATED", FALSE)
  /\ UNCHANGED fingerprint

\* Mutant: the receipt is copied from finalizeCompensated
FinalizeCompensationFailedAsDone(attemptId) ==
  /\ SetOutcome(attemptId, "COMPENSATION_FAILED")
  /\ Transition("NEEDS_REVIEW")
  /\ InsertReceipt("COMPENSATED", FALSE)
  /\ UNCHANGED fingerprint

FinalizeCompensationFailed(attemptId) ==
  /\ SetOutcome(attemptId, "COMPENSATION_FAILED")
  /\ Transition("NEEDS_REVIEW")
  /\ InsertReceipt("NEEDS_REVIEW", FALSE)
  /\ UNCHANGED fingerprint

\* Database time passes claim_expires_at of the current claim
LeaseExpires ==
  /\ lease = "active"
  /\ lease' = "expired"
  /\ UNCHANGED <<status, fingerprint, owner, attempts, receipt>>

-----------------------------------------------------------------------------
(* The most general client: any method, any worker, any recorded attempt,  *)
(* in any order.                                                           *)

Claim(w, fp) == ClaimNew(w, fp) \/ ClaimReclaimed(w, fp) \/ ClaimReconcile(w, fp)

Finalize(attemptId) ==
  \/ \E prevented \in BOOLEAN : FinalizeConfirmed(attemptId, prevented)
  \/ \E outcome \in {"PRE_SUBMISSION_FAILURE", "CONFIRMED_FAILURE"} :
       FinalizeFailed(attemptId, outcome)
  \/ FinalizeNeedsReview(attemptId)
  \/ FinalizeCompensated(attemptId)
  \/ FinalizeCompensationFailed(attemptId)

StoreNext ==
  \/ \E w \in Workers, fp \in Fingerprints : Claim(w, fp)
  \/ \E w \in Workers : MarkSubmitted(w)
  \/ \E n \in DOMAIN attempts :
       MarkUnknown(n) \/ MarkReconciliationUnavailable(n) \/ Finalize(n)
  \/ MarkCompensating
  \/ LeaseExpires

StoreSpec == StoreInit /\ [][StoreNext]_storeVars

-----------------------------------------------------------------------------
(* What the ledger guarantees to every client                              *)

Submissions == {n \in DOMAIN attempts : attempts[n].kind = "EXECUTION"}

\* An operation key is submitted at most once, ever: whatever the order of
\* claims, expiries, takeovers and results, no client is let through
\* markSubmitted a second time.
AtMostOneSubmission == \A m, n \in Submissions : m = n

\* A terminal status is answered by a receipt of that same status, so that
\* claim() can return it ("Terminal operation has no receipt" never throws).
TerminalHasReceipt == status \in TerminalStatuses => receipt.status = status

\* The latest attempt of a leased, submitted operation is still running: the
\* stale-claim update always finds the attempt it has to close.
LeasedAttemptRunning ==
  status \in {"SUBMITTED", "RECONCILING"} =>
    attempts # <<>> /\ attempts[Len(attempts)].outcome = "RUNNING"

\* A receipt row is written once: no later transaction replaces or deletes it.
ReceiptImmutable == [][receipt # NoReceipt => receipt' = receipt]_storeVars

\* The verdict an attempt outcome stands for; other outcomes decide nothing
VerdictOf ==
  [CONFIRMED              |-> "CONFIRMED",
   RECONCILED             |-> "CONFIRMED",
   CONFIRMED_FAILURE      |-> "FAILED",
   PRE_SUBMISSION_FAILURE |-> "FAILED",
   COMPENSATED            |-> "COMPENSATED",
   COMPENSATION_FAILED    |-> "NEEDS_REVIEW",
   NEEDS_REVIEW           |-> "NEEDS_REVIEW"]

DecidingAttempts == {n \in DOMAIN attempts : attempts[n].outcome \in DOMAIN VerdictOf}

\* The timeline says who decided: no attempt before the receipt exists, and
\* then exactly one, with the outcome of that receipt.  Superseded attempts
\* that answer late leave no verdict behind: their update is rolled back.
VerdictHasItsAttempt ==
  /\ receipt = NoReceipt => DecidingAttempts = {}
  /\ receipt # NoReceipt =>
       \E n \in DOMAIN attempts :
         /\ DecidingAttempts = {n}
         /\ VerdictOf[attempts[n].outcome] = receipt.status

\* Before the submission an operation has no history, and a reconciliation
\* never precedes the submission it has to explain.
ReconciliationFollowsSubmission ==
  attempts # <<>> => attempts[1].kind = "EXECUTION"
==============================================================================
