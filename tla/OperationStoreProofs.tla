------------------------ MODULE OperationStoreProofs ------------------------
(***************************************************************************)
(* Theorems about the two implementations of the OperationStore interface  *)
(* under its most general client, for any number of workers, fingerprints  *)
(* and attempts: first the PostgreSQL ledger, then the in-memory one, which*)
(* keeps what it can without rollback and without a unique receipt.        *)
(***************************************************************************)
EXTENDS InMemoryOperationStore, SequenceTheorems, TLAPS

-----------------------------------------------------------------------------
(* The PostgreSQL ledger                                                   *)

\* Changing the outcome of some attempts keeps every attempt and its kind.
LEMMA OutcomesKeep ==
  ASSUME NEW s \in Seq(Attempts), NEW t,
         DOMAIN t = DOMAIN s, t = [m \in DOMAIN t |-> t[m]],
         \A m \in DOMAIN s : t[m] \in Attempts /\ t[m].kind = s[m].kind
  PROVE  t \in Seq(Attempts) /\ Len(t) = Len(s)
<1>1. Len(s) \in Nat /\ DOMAIN s = 1..Len(s)
  BY LenProperties
<1>2. t \in [1..Len(s) -> Attempts]
  BY <1>1
<1>3. t \in Seq(Attempts)
  BY <1>1, <1>2
<1>4. Len(t) = Len(s)
  BY <1>1, <1>2, <1>3, LenProperties
<1> QED BY <1>3, <1>4

\* The two ways the code changes an outcome: by attempt id ...
LEMMA SetOutcomeKeeps ==
  ASSUME NEW s \in Seq(Attempts), NEW n, NEW o \in AttemptOutcomes
  PROVE  LET t == [s EXCEPT ![n].outcome = o]
         IN  /\ t \in Seq(Attempts)
             /\ Len(t) = Len(s)
             /\ DOMAIN t = DOMAIN s
             /\ \A m \in DOMAIN s : t[m].kind = s[m].kind
<1> DEFINE t == [s EXCEPT ![n].outcome = o]
<1>1. \A m \in DOMAIN s : s[m] \in Attempts
  BY ElementOfSeq, LenProperties
<1>2. DOMAIN t = DOMAIN s /\ t = [m \in DOMAIN t |-> t[m]]
  OBVIOUS
<1>3. ASSUME NEW m \in DOMAIN s
      PROVE  t[m] \in Attempts /\ t[m].kind = s[m].kind
  <2>1. s[m] \in [kind : AttemptKinds, outcome : AttemptOutcomes]
    BY <1>1, <1>3 DEF Attempts
  <2>2. t[m] = IF m = n THEN [s[m] EXCEPT !.outcome = o] ELSE s[m]
    BY <1>3
  <2> QED BY <2>1, <2>2 DEF Attempts
<1> QED BY <1>2, <1>3, OutcomesKeep

\* ... and the latest running one.
LEMMA CloseLatestKeeps ==
  ASSUME attempts \in Seq(Attempts), NEW o \in AttemptOutcomes
  PROVE  LET t == WithLatestRunningClosed(o)
         IN  /\ t \in Seq(Attempts)
             /\ Len(t) = Len(attempts)
             /\ DOMAIN t = DOMAIN attempts
             /\ \A m \in DOMAIN attempts : t[m].kind = attempts[m].kind
<1> DEFINE t == WithLatestRunningClosed(o)
<1>1. \A m \in DOMAIN attempts : attempts[m] \in Attempts
  BY ElementOfSeq, LenProperties
<1>2. DOMAIN t = DOMAIN attempts /\ t = [m \in DOMAIN t |-> t[m]]
  BY DEF WithLatestRunningClosed
<1>3. ASSUME NEW m \in DOMAIN attempts
      PROVE  t[m] \in Attempts /\ t[m].kind = attempts[m].kind
  <2>1. attempts[m] \in [kind : AttemptKinds, outcome : AttemptOutcomes]
    BY <1>1, <1>3 DEF Attempts
  <2>2. t[m] = [attempts[m] EXCEPT !.outcome = o] \/ t[m] = attempts[m]
    BY <1>3 DEF WithLatestRunningClosed
  <2> QED BY <2>1, <2>2 DEF Attempts
<1> HIDE DEF t
<1>4. t \in Seq(Attempts) /\ Len(t) = Len(attempts)
  BY <1>2, <1>3, OutcomesKeep
<1> QED BY <1>2, <1>3, <1>4 DEF t

\* Starting an attempt on attempts of the right type appends to them.
LEMMA StartAttemptKeeps ==
  ASSUME NEW s \in Seq(Attempts), NEW k \in AttemptKinds
  PROVE  LET a == [kind |-> k, outcome |-> "RUNNING"]
         IN  /\ Append(s, a) \in Seq(Attempts)
             /\ Len(Append(s, a)) = Len(s) + 1
             /\ \A m \in DOMAIN s : Append(s, a)[m] = s[m]
             /\ Append(s, a)[Len(s) + 1] = a
<1> DEFINE a == [kind |-> k, outcome |-> "RUNNING"]
<1>1. a \in Attempts
  BY DEF Attempts, AttemptOutcomes
<1> HIDE DEF a
<1>2. DOMAIN s = 1..Len(s)
  BY LenProperties
<1> QED BY <1>1, <1>2, AppendProperties DEF a

USE DEF TerminalStatuses

\* Every transaction leaves the columns with values of their types.
LEMMA StoreTypeStep ==
  ASSUME StoreTypeOK, [StoreNext]_storeVars
  PROVE  StoreTypeOK'
<1> USE DEF StoreTypeOK, Receipts, NoReceipt
<1>1. ASSUME NEW w \in Workers, NEW fp \in Fingerprints, ClaimNew(w, fp)
      PROVE  StoreTypeOK'
  BY <1>1 DEF ClaimNew, TakeClaim, OperationStatuses
<1>2. ASSUME NEW w \in Workers, NEW fp \in Fingerprints, ClaimReclaimed(w, fp)
      PROVE  StoreTypeOK'
  BY <1>2 DEF ClaimReclaimed, TakeClaim
<1>3. ASSUME NEW w \in Workers, NEW s \in Seq(Attempts), StartReconciliation(w, s)
      PROVE  StoreTypeOK'
  <2>1. attempts' \in Seq(Attempts)
    BY <1>3, StartAttemptKeeps DEF StartReconciliation, StartAttempt, AttemptKinds
  <2> QED BY <1>3, <2>1 DEF StartReconciliation, TakeClaim, OperationStatuses
<1>4. ASSUME NEW w \in Workers, NEW fp \in Fingerprints, ClaimReconcile(w, fp)
      PROVE  StoreTypeOK'
  <2>1. /\ WithLatestRunningClosed("UNKNOWN") \in Seq(Attempts)
        /\ WithLatestRunningClosed("RECONCILIATION_UNAVAILABLE") \in Seq(Attempts)
    BY CloseLatestKeeps DEF AttemptOutcomes
  <2> QED BY <1>3, <1>4, <2>1 DEF ClaimReconcile
<1>5. ASSUME NEW w \in Workers, MarkSubmitted(w)
      PROVE  StoreTypeOK'
  <2>1. attempts' \in Seq(Attempts)
    BY <1>5, StartAttemptKeeps DEF MarkSubmitted, StartAttempt, AttemptKinds
  <2> QED BY <1>5, <2>1 DEF MarkSubmitted, Transition, OperationStatuses
<1>6. ASSUME NEW n, NEW o \in AttemptOutcomes, SetOutcome(n, o)
      PROVE  attempts' \in Seq(Attempts)
  BY <1>6, SetOutcomeKeeps DEF SetOutcome
<1>7. ASSUME NEW n, MarkUnknown(n) \/ MarkReconciliationUnavailable(n)
      PROVE  StoreTypeOK'
  <2>1. attempts' \in Seq(Attempts)
    BY <1>6, <1>7 DEF MarkUnknown, MarkReconciliationUnavailable, AttemptOutcomes
  <2> QED
    BY <1>7, <2>1 DEF MarkUnknown, MarkReconciliationUnavailable, Transition,
       ReleaseClaim, OperationStatuses
<1>8. ASSUME NEW n, Finalize(n)
      PROVE  StoreTypeOK'
  <2>1. attempts' \in Seq(Attempts)
    BY <1>6, <1>8 DEF Finalize, FinalizeConfirmed, FinalizeFailed,
       FinalizeNeedsReview, FinalizeCompensated, FinalizeCompensationFailed,
       AttemptOutcomes
  <2>2. /\ status' \in TerminalStatuses
        /\ receipt' \in Receipts
        /\ ReleaseClaim /\ UNCHANGED fingerprint
    <3>1. ASSUME NEW final \in TerminalStatuses, NEW p \in BOOLEAN,
                 InsertReceipt(final, p)
          PROVE  receipt' \in Receipts /\ ReleaseClaim
      BY <3>1 DEF InsertReceipt
    <3>2. \E final \in TerminalStatuses, p \in BOOLEAN :
            Transition(final) /\ InsertReceipt(final, p) /\ UNCHANGED fingerprint
      BY <1>8 DEF Finalize, FinalizeConfirmed, FinalizeFailed,
         FinalizeNeedsReview, FinalizeCompensated, FinalizeCompensationFailed
    <3> QED BY <3>1, <3>2 DEF Transition
  <2> QED BY <2>1, <2>2 DEF ReleaseClaim, OperationStatuses
<1>9. CASE MarkCompensating
  BY <1>9 DEF MarkCompensating, Transition, OperationStatuses
<1>10. CASE LeaseExpires
  BY <1>10 DEF LeaseExpires
<1>11. CASE UNCHANGED storeVars
  BY <1>11 DEF storeVars
<1> QED
  BY <1>1, <1>2, <1>4, <1>5, <1>7, <1>8, <1>9, <1>10, <1>11
  DEF StoreNext, Claim

\* The ledger's columns always hold values of their types.
THEOREM StoreTypeCorrect == StoreSpec => []StoreTypeOK
<1>1. StoreInit => StoreTypeOK
  BY EmptySeq DEF StoreInit, StoreTypeOK, Receipts
<1>2. StoreTypeOK /\ [StoreNext]_storeVars => StoreTypeOK'
  BY StoreTypeStep
<1> QED BY <1>1, <1>2, PTL DEF StoreSpec

\* From where legalTransitions lets each status be reached.
LEMMA LegalSources ==
  ASSUME StoreTypeOK
  PROVE  /\ CanMoveTo("SUBMITTED") => status = "CLAIMED"
         /\ CanMoveTo("UNKNOWN") => status \in {"SUBMITTED", "RECONCILING"}
         /\ CanMoveTo("CONFIRMED") => status \in {"SUBMITTED", "RECONCILING"}
         /\ CanMoveTo("FAILED") => status \in {"CLAIMED", "SUBMITTED", "RECONCILING"}
         /\ CanMoveTo("COMPENSATING") =>
              status \in {"SUBMITTED", "RECONCILING", "CONFIRMED"}
         /\ CanMoveTo("COMPENSATED") => status = "COMPENSATING"
  BY DEF StoreTypeOK, OperationStatuses, CanMoveTo, CanTransition, LegalTransitions

-----------------------------------------------------------------------------
(* The history of a key.  Attempts start with the submission and go on with*)
(* reconciliations, and CLAIMED is never reached again once the first      *)
(* attempt is recorded: that is why a second submission is impossible.     *)

HistoryInv ==
  /\ attempts = <<>> <=> status \in {"ABSENT", "PLANNED", "CLAIMED"}
  /\ \A n \in DOMAIN attempts : attempts[n].kind = "EXECUTION" <=> n = 1
  /\ LeasedAttemptRunning

\* Changing outcomes while the status stays past CLAIMED and unleased
LEMMA OutcomeStep ==
  ASSUME StoreTypeOK, StoreTypeOK', HistoryInv,
         DOMAIN attempts' = DOMAIN attempts,
         Len(attempts') = Len(attempts),
         \A m \in DOMAIN attempts : attempts'[m].kind = attempts[m].kind,
         DOMAIN attempts # {},
         status' \notin {"ABSENT", "PLANNED", "CLAIMED", "SUBMITTED", "RECONCILING"}
  PROVE  HistoryInv'
<1>1. attempts' # <<>>
  OBVIOUS
<1> QED BY <1>1 DEF HistoryInv, LeasedAttemptRunning

LEMMA HistoryStep ==
  ASSUME StoreTypeOK, HistoryInv, [StoreNext]_storeVars
  PROVE  HistoryInv'
<1> USE DEF HistoryInv, LeasedAttemptRunning
<1>0. /\ StoreTypeOK'
      /\ attempts \in Seq(Attempts)
      /\ Len(attempts) \in Nat
      /\ DOMAIN attempts = 1..Len(attempts)
  BY StoreTypeStep, LenProperties DEF StoreTypeOK
<1>1. ASSUME NEW w \in Workers, NEW fp \in Fingerprints,
             ClaimNew(w, fp) \/ ClaimReclaimed(w, fp)
      PROVE  HistoryInv'
  BY <1>1 DEF ClaimNew, ClaimReclaimed
<1>2. ASSUME NEW w \in Workers, NEW s \in Seq(Attempts), StartReconciliation(w, s),
             s # <<>>, \A n \in DOMAIN s : s[n].kind = "EXECUTION" <=> n = 1
      PROVE  HistoryInv'
  <2>1. Len(s) \in Nat \ {0} /\ DOMAIN s = 1..Len(s)
    BY <1>2, EmptySeq, LenProperties
  <2> DEFINE a == [kind |-> "RECONCILIATION", outcome |-> "RUNNING"]
  <2>2. attempts' = Append(s, a) /\ status' = "RECONCILING"
    BY <1>2 DEF StartReconciliation, StartAttempt
  <2>3. /\ attempts' \in Seq(Attempts)
        /\ Len(attempts') = Len(s) + 1
        /\ \A m \in DOMAIN s : attempts'[m] = s[m]
        /\ attempts'[Len(s) + 1] = a
    BY <2>2, StartAttemptKeeps DEF AttemptKinds
  <2>4. DOMAIN attempts' = 1..(Len(s) + 1) /\ attempts' # <<>>
    BY <2>1, <2>3, LenProperties, EmptySeq
  <2>5. \A n \in DOMAIN attempts' : attempts'[n].kind = "EXECUTION" <=> n = 1
    <3> TAKE n \in DOMAIN attempts'
    <3>1. CASE n \in DOMAIN s
      BY <1>2, <2>3, <3>1
    <3>2. CASE n = Len(s) + 1
      BY <2>1, <2>3, <3>2
    <3> QED BY <2>1, <2>4, <3>1, <3>2
  <2> QED BY <2>2, <2>3, <2>4, <2>5
<1>3. ASSUME NEW w \in Workers, NEW fp \in Fingerprints, ClaimReconcile(w, fp)
      PROVE  HistoryInv'
  <2>1. attempts # <<>>
    BY <1>3 DEF ClaimReconcile
  <2>2. ASSUME NEW o \in AttemptOutcomes
        PROVE  /\ WithLatestRunningClosed(o) \in Seq(Attempts)
               /\ WithLatestRunningClosed(o) # <<>>
               /\ \A n \in DOMAIN WithLatestRunningClosed(o) :
                    WithLatestRunningClosed(o)[n].kind = "EXECUTION" <=> n = 1
    BY <1>0, <2>1, CloseLatestKeeps, EmptySeq
  <2> QED BY <1>0, <1>2, <1>3, <2>1, <2>2 DEF ClaimReconcile, AttemptOutcomes
<1>4. ASSUME NEW w \in Workers, MarkSubmitted(w)
      PROVE  HistoryInv'
  <2>1. status = "CLAIMED" /\ attempts = <<>>
    BY <1>4, LegalSources DEF MarkSubmitted, CanSubmit
  <2> DEFINE a == [kind |-> "EXECUTION", outcome |-> "RUNNING"]
  <2>2. attempts' = Append(attempts, a) /\ status' = "SUBMITTED"
    BY <1>4 DEF MarkSubmitted, StartAttempt, Transition
  <2>3. /\ attempts' \in Seq(Attempts) /\ Len(attempts') = Len(attempts) + 1
        /\ attempts'[Len(attempts) + 1] = a
    BY <1>0, <2>2, StartAttemptKeeps DEF AttemptKinds
  <2>5. Len(attempts) = 0
    BY <2>1, EmptySeq
  <2>4. DOMAIN attempts' = 1..1 /\ attempts' # <<>>
    BY <2>3, <2>5, LenProperties, EmptySeq
  <2> QED BY <2>2, <2>3, <2>4, <2>5
<1>5. ASSUME NEW n \in DOMAIN attempts,
             MarkUnknown(n) \/ MarkReconciliationUnavailable(n) \/ Finalize(n)
      PROVE  HistoryInv'
  <2>1. \E o \in AttemptOutcomes : SetOutcome(n, o)
    BY <1>5 DEF MarkUnknown, MarkReconciliationUnavailable, Finalize,
       FinalizeConfirmed, FinalizeFailed, FinalizeNeedsReview,
       FinalizeCompensated, FinalizeCompensationFailed, AttemptOutcomes
  <2>2. status' \in {"UNKNOWN"} \cup TerminalStatuses
    BY <1>5 DEF MarkUnknown, MarkReconciliationUnavailable, Finalize,
       FinalizeConfirmed, FinalizeFailed, FinalizeNeedsReview,
       FinalizeCompensated, FinalizeCompensationFailed, Transition
  <2>3. /\ DOMAIN attempts' = DOMAIN attempts
        /\ Len(attempts') = Len(attempts)
        /\ \A m \in DOMAIN attempts : attempts'[m].kind = attempts[m].kind
    BY <1>0, <2>1, SetOutcomeKeeps DEF SetOutcome
  <2> QED BY <1>0, <2>2, <2>3, OutcomeStep
<1>6. CASE MarkCompensating
  BY <1>6, LegalSources DEF MarkCompensating, Transition
<1>7. CASE LeaseExpires
  BY <1>7 DEF LeaseExpires
<1>8. CASE UNCHANGED storeVars
  BY <1>8 DEF storeVars
<1> QED
  BY <1>1, <1>3, <1>4, <1>5, <1>6, <1>7, <1>8 DEF StoreNext, Claim

LEMMA HistoryCorrect == StoreSpec => [](StoreTypeOK /\ HistoryInv)
<1>1. StoreInit => StoreTypeOK /\ HistoryInv
  BY EmptySeq
  DEF StoreInit, StoreTypeOK, HistoryInv, LeasedAttemptRunning, Receipts
<1>2. StoreTypeOK /\ HistoryInv /\ [StoreNext]_storeVars => (StoreTypeOK /\ HistoryInv)'
  BY StoreTypeStep, HistoryStep
<1> QED BY <1>1, <1>2, PTL DEF StoreSpec

\* markSubmitted commits at most once for a key, whatever the client does.
THEOREM SubmissionUnique == StoreSpec => []AtMostOneSubmission
<1>1. HistoryInv => AtMostOneSubmission
  BY DEF HistoryInv, AtMostOneSubmission, Submissions
<1> QED BY <1>1, HistoryCorrect, PTL

\* The history of a key opens with its submission.
THEOREM SubmissionFirst == StoreSpec => []ReconciliationFollowsSubmission
<1>1. StoreTypeOK /\ HistoryInv => ReconciliationFollowsSubmission
  BY EmptySeq, LenProperties
  DEF StoreTypeOK, HistoryInv, ReconciliationFollowsSubmission
<1> QED BY <1>1, HistoryCorrect, PTL

\* A submitted or reconciling operation has its latest attempt running.
THEOREM LeasedRunning == StoreSpec => []LeasedAttemptRunning
<1>1. HistoryInv => LeasedAttemptRunning
  BY DEF HistoryInv
<1> QED BY <1>1, HistoryCorrect, PTL

-----------------------------------------------------------------------------
(* The receipt of a key.  A receipt is inserted together with its status,  *)
(* and the only legal move out of a status with a receipt is CONFIRMED to  *)
(* COMPENSATING, from which UNIQUE(operation_id) refuses a second receipt. *)

ReceiptInv ==
  /\ receipt # NoReceipt =>
       \/ status = receipt.status
       \/ status = "COMPENSATING" /\ receipt.status = "CONFIRMED"
  /\ TerminalHasReceipt

LEMMA ReceiptStep ==
  ASSUME StoreTypeOK, ReceiptInv, [StoreNext]_storeVars
  PROVE  ReceiptInv'
<1> USE DEF ReceiptInv, TerminalHasReceipt, NoReceipt
<1>1. ASSUME NEW n, Finalize(n)
      PROVE  status' \in TerminalStatuses /\ receipt'.status = status'
  BY <1>1 DEF Finalize, FinalizeConfirmed, FinalizeFailed, FinalizeNeedsReview,
     FinalizeCompensated, FinalizeCompensationFailed, Transition, InsertReceipt
<1>2. CASE \E n \in DOMAIN attempts : Finalize(n)
  BY <1>1, <1>2
<1>3. ASSUME UNCHANGED receipt, status' \notin TerminalStatuses,
             status' = "COMPENSATING" \/ receipt = NoReceipt,
             status \in {"CONFIRMED", "COMPENSATING"} \/ receipt = NoReceipt
      PROVE  ReceiptInv'
  BY <1>3
<1>4. ASSUME status \in {"ABSENT", "CLAIMED", "SUBMITTED", "UNKNOWN", "RECONCILING"}
      PROVE  receipt = NoReceipt
  BY <1>4 DEF StoreTypeOK, Receipts
<1>5. CASE \E w \in Workers, fp \in Fingerprints : Claim(w, fp)
  BY <1>3, <1>4, <1>5 DEF Claim, ClaimNew, ClaimReclaimed, ClaimReconcile,
     StartReconciliation
<1>6. CASE \E w \in Workers : MarkSubmitted(w)
  <2>1. status = "CLAIMED" /\ status' = "SUBMITTED" /\ UNCHANGED receipt
    BY <1>6, LegalSources DEF MarkSubmitted, Transition
  <2> QED BY <1>3, <1>4, <2>1
<1>7. CASE \E n \in DOMAIN attempts : MarkUnknown(n) \/ MarkReconciliationUnavailable(n)
  <2>1. /\ status \in {"SUBMITTED", "RECONCILING"}
        /\ status' = "UNKNOWN" /\ UNCHANGED receipt
    BY <1>7, LegalSources DEF MarkUnknown, MarkReconciliationUnavailable, Transition
  <2> QED BY <1>3, <1>4, <2>1
<1>8. CASE MarkCompensating
  <2>1. /\ status \in {"SUBMITTED", "RECONCILING", "CONFIRMED"}
        /\ status' = "COMPENSATING" /\ UNCHANGED receipt
    BY <1>8, LegalSources DEF MarkCompensating, Transition
  <2> QED BY <1>3, <1>4, <2>1
<1>9. CASE LeaseExpires
  BY <1>9 DEF LeaseExpires
<1>10. CASE UNCHANGED storeVars
  BY <1>10 DEF storeVars
<1> QED BY <1>2, <1>5, <1>6, <1>7, <1>8, <1>9, <1>10 DEF StoreNext

\* Status and receipt agree, but for a confirmed key taken into COMPENSATING.
LEMMA ReceiptCorrect == StoreSpec => []ReceiptInv
<1>1. StoreInit => ReceiptInv
  BY DEF StoreInit, ReceiptInv, TerminalHasReceipt
<1>2. StoreTypeOK /\ ReceiptInv /\ [StoreNext]_storeVars => ReceiptInv'
  BY ReceiptStep
<1> QED BY <1>1, <1>2, StoreTypeCorrect, PTL DEF StoreSpec

\* claim() always finds the receipt of a terminal operation.
THEOREM TerminalAnswered == StoreSpec => []TerminalHasReceipt
<1>1. ReceiptInv => TerminalHasReceipt
  BY DEF ReceiptInv
<1> QED BY <1>1, ReceiptCorrect, PTL

\* A committed receipt is never replaced, updated or deleted.
THEOREM ReceiptNeverChanges == StoreSpec => ReceiptImmutable
<1>1. [StoreNext]_storeVars => [receipt # NoReceipt => receipt' = receipt]_storeVars
  <2>1. ASSUME NEW n, Finalize(n)
        PROVE  receipt = NoReceipt
    BY <2>1 DEF Finalize, FinalizeConfirmed, FinalizeFailed, FinalizeNeedsReview,
       FinalizeCompensated, FinalizeCompensationFailed, InsertReceipt, CanReceipt
  <2>2. ASSUME StoreNext, ~ \E n \in DOMAIN attempts : Finalize(n)
        PROVE  UNCHANGED receipt
    BY <2>2 DEF StoreNext, Claim, ClaimNew, ClaimReclaimed, ClaimReconcile,
       StartReconciliation, MarkSubmitted, MarkUnknown,
       MarkReconciliationUnavailable, MarkCompensating, LeaseExpires
  <2> QED BY <2>1, <2>2 DEF storeVars
<1> QED BY <1>1, PTL DEF StoreSpec, ReceiptImmutable

-----------------------------------------------------------------------------
(* The attempt that decided.  While there is no receipt no attempt has a   *)
(* deciding outcome; the transaction that inserts the receipt gives one to *)
(* its own attempt, and afterwards no transaction that writes an attempt   *)
(* can commit.                                                             *)

\* An attempt is written only while there is no receipt.
LEMMA FrozenWithReceipt ==
  ASSUME StoreTypeOK, ReceiptInv, [StoreNext]_storeVars, receipt # NoReceipt
  PROVE  UNCHANGED <<attempts, receipt>>
<1>1. status \in TerminalStatuses \cup {"COMPENSATING"}
  BY DEF ReceiptInv, StoreTypeOK, Receipts
<1>2. ~ CanMoveTo("SUBMITTED") /\ ~ CanMoveTo("UNKNOWN")
  BY <1>1, LegalSources
<1>3. ASSUME NEW w, NEW fp, Claim(w, fp)
      PROVE  UNCHANGED <<attempts, receipt>>
  BY <1>1, <1>3 DEF Claim, ClaimNew, ClaimReclaimed, ClaimReconcile
<1>4. ASSUME NEW n
      PROVE  ~ Finalize(n) /\ ~ MarkUnknown(n) /\ ~ MarkReconciliationUnavailable(n)
  BY <1>2 DEF Finalize, FinalizeConfirmed, FinalizeFailed, FinalizeNeedsReview,
     FinalizeCompensated, FinalizeCompensationFailed, InsertReceipt, CanReceipt,
     MarkUnknown, MarkReconciliationUnavailable, Transition
<1>5. ASSUME NEW w
      PROVE  ~ MarkSubmitted(w)
  BY <1>2 DEF MarkSubmitted, CanSubmit
<1> QED
  BY <1>3, <1>4, <1>5 DEF StoreNext, MarkCompensating, LeaseExpires, storeVars

LEMMA VerdictStep ==
  ASSUME StoreTypeOK, ReceiptInv, VerdictHasItsAttempt, [StoreNext]_storeVars
  PROVE  VerdictHasItsAttempt'
<1>1. CASE receipt # NoReceipt
  <2>1. UNCHANGED <<attempts, receipt>>
    BY <1>1, FrozenWithReceipt
  <2> QED BY <2>1 DEF VerdictHasItsAttempt, DecidingAttempts
<1>2. CASE receipt = NoReceipt
  <2>0. /\ attempts \in Seq(Attempts)
        /\ Len(attempts) \in Nat /\ DOMAIN attempts = 1..Len(attempts)
        /\ \A m \in DOMAIN attempts : attempts[m].outcome \notin DOMAIN VerdictOf
    BY <1>2, LenProperties DEF StoreTypeOK, VerdictHasItsAttempt, DecidingAttempts
  <2>1. ASSUME UNCHANGED receipt,
               \A m \in DOMAIN attempts' : attempts'[m].outcome \notin DOMAIN VerdictOf
        PROVE  VerdictHasItsAttempt'
    BY <1>2, <2>1 DEF VerdictHasItsAttempt, DecidingAttempts
  <2>2. ASSUME NEW s \in Seq(Attempts), NEW k \in AttemptKinds, StartAttempt(s, k),
               \A m \in DOMAIN s : s[m].outcome \notin DOMAIN VerdictOf
        PROVE  \A m \in DOMAIN attempts' : attempts'[m].outcome \notin DOMAIN VerdictOf
    <3> DEFINE a == [kind |-> k, outcome |-> "RUNNING"]
    <3>1. /\ attempts' \in Seq(Attempts)
          /\ Len(attempts') = Len(s) + 1
          /\ \A m \in DOMAIN s : attempts'[m] = s[m]
          /\ attempts'[Len(s) + 1] = a
      BY <2>2, StartAttemptKeeps DEF StartAttempt
    <3>2. /\ DOMAIN s = 1..Len(s) /\ Len(s) \in Nat
          /\ DOMAIN attempts' = 1..(Len(s) + 1)
      BY <3>1, LenProperties
    <3>3. a.outcome \notin DOMAIN VerdictOf
      BY DEF VerdictOf
    <3> QED BY <2>2, <3>1, <3>2, <3>3
  <2>3. ASSUME NEW o \in {"UNKNOWN", "RECONCILIATION_UNAVAILABLE"}
        PROVE  /\ WithLatestRunningClosed(o) \in Seq(Attempts)
               /\ \A m \in DOMAIN WithLatestRunningClosed(o) :
                    WithLatestRunningClosed(o)[m].outcome \notin DOMAIN VerdictOf
    <3>1. WithLatestRunningClosed(o) \in Seq(Attempts)
      BY <2>0, CloseLatestKeeps DEF AttemptOutcomes
    <3>2. o \notin DOMAIN VerdictOf
      BY DEF VerdictOf
    <3>3. ASSUME NEW m \in DOMAIN attempts
          PROVE  WithLatestRunningClosed(o)[m].outcome \notin DOMAIN VerdictOf
      <4>1. attempts[m] \in [kind : AttemptKinds, outcome : AttemptOutcomes]
        BY <2>0, <3>3, ElementOfSeq DEF Attempts
      <4>2. \/ WithLatestRunningClosed(o)[m] = [attempts[m] EXCEPT !.outcome = o]
            \/ WithLatestRunningClosed(o)[m] = attempts[m]
        BY <3>3 DEF WithLatestRunningClosed
      <4> QED BY <2>0, <3>2, <3>3, <4>1, <4>2
    <3> QED BY <3>1, <3>3 DEF WithLatestRunningClosed
  <2>4. CASE \E w \in Workers, fp \in Fingerprints : Claim(w, fp)
    <3>1. CASE UNCHANGED attempts
      BY <2>0, <2>1, <2>4, <3>1 DEF Claim, ClaimNew, ClaimReclaimed, ClaimReconcile,
         StartReconciliation
    <3>2. CASE \E w \in Workers, fp \in Fingerprints : ClaimReconcile(w, fp)
      <4>1. \A m \in DOMAIN attempts' : attempts'[m].outcome \notin DOMAIN VerdictOf
        BY <2>0, <2>2, <2>3, <3>2 DEF ClaimReconcile, StartReconciliation, AttemptKinds
      <4> QED BY <2>1, <3>2, <4>1 DEF ClaimReconcile, StartReconciliation
    <3> QED BY <2>4, <3>1, <3>2 DEF Claim, ClaimNew, ClaimReclaimed
  <2>5. CASE \E w \in Workers : MarkSubmitted(w)
    <3>1. \A m \in DOMAIN attempts' : attempts'[m].outcome \notin DOMAIN VerdictOf
      BY <2>0, <2>2, <2>5 DEF MarkSubmitted, AttemptKinds
    <3> QED BY <2>1, <2>5, <3>1 DEF MarkSubmitted
  <2>6. ASSUME NEW n \in DOMAIN attempts, NEW o, SetOutcome(n, o)
        PROVE  /\ DOMAIN attempts' = DOMAIN attempts
               /\ attempts'[n].outcome = o
               /\ \A m \in DOMAIN attempts \ {n} : attempts'[m] = attempts[m]
    <3>1. attempts[n] \in [kind : AttemptKinds, outcome : AttemptOutcomes]
      BY <2>0, <2>6, ElementOfSeq DEF Attempts
    <3> QED BY <2>6, <3>1 DEF SetOutcome
  <2>7. ASSUME NEW n \in DOMAIN attempts, MarkUnknown(n) \/ MarkReconciliationUnavailable(n)
        PROVE  VerdictHasItsAttempt'
    <3>1. \A m \in DOMAIN attempts' : attempts'[m].outcome \notin DOMAIN VerdictOf
      BY <2>0, <2>6, <2>7 DEF MarkUnknown, MarkReconciliationUnavailable, VerdictOf
    <3> QED BY <2>1, <2>7, <3>1 DEF MarkUnknown, MarkReconciliationUnavailable
  <2>8. ASSUME NEW n \in DOMAIN attempts, Finalize(n)
        PROVE  VerdictHasItsAttempt'
    <3>1. PICK o \in DOMAIN VerdictOf : SetOutcome(n, o) /\ receipt'.status = VerdictOf[o]
      BY <2>8 DEF Finalize, FinalizeConfirmed, FinalizeFailed, FinalizeNeedsReview,
         FinalizeCompensated, FinalizeCompensationFailed, InsertReceipt, VerdictOf
    <3>2. DecidingAttempts' = {n} /\ attempts'[n].outcome = o /\ n \in DOMAIN attempts'
      BY <2>0, <2>6, <3>1 DEF DecidingAttempts
    <3>3. receipt' # NoReceipt
      BY <3>1 DEF NoReceipt, VerdictOf
    <3> QED BY <3>1, <3>2, <3>3 DEF VerdictHasItsAttempt
  <2>9. CASE UNCHANGED <<attempts, receipt>>
    BY <2>9 DEF VerdictHasItsAttempt, DecidingAttempts
  <2> QED
    BY <2>4, <2>5, <2>7, <2>8, <2>9 DEF StoreNext, MarkCompensating, LeaseExpires,
       storeVars
<1> QED BY <1>1, <1>2

\* A receipt names exactly one attempt of the history as its author.
THEOREM VerdictAttributed == StoreSpec => []VerdictHasItsAttempt
<1>1. StoreInit => VerdictHasItsAttempt
  BY EmptySeq DEF StoreInit, VerdictHasItsAttempt, DecidingAttempts
<1>2. StoreTypeOK /\ ReceiptInv /\ VerdictHasItsAttempt /\ [StoreNext]_storeVars
        => VerdictHasItsAttempt'
  BY VerdictStep
<1> QED BY <1>1, <1>2, StoreTypeCorrect, ReceiptCorrect, PTL DEF StoreSpec

-----------------------------------------------------------------------------
(* The in-memory ledger                                                    *)

\* Every transition the general client makes, accepted or refused, by what it
\* does to the attempts, the status and the receipt.
LEMMA MemFinalizeCases ==
  ASSUME NEW n, MemFinalizeAny(n)
  PROVE  \E o \in AttemptOutcomes, final \in TerminalStatuses, p \in BOOLEAN :
           MemFinalize(n, o, final, p)
<1>1. ConfirmedOutcome \in AttemptOutcomes
  BY DEF ConfirmedOutcome, AttemptOutcomes
<1>2. CASE \E p \in BOOLEAN : MemFinalize(n, ConfirmedOutcome, "CONFIRMED", p)
  BY <1>1, <1>2
<1>3. CASE \E o \in {"PRE_SUBMISSION_FAILURE", "CONFIRMED_FAILURE"} :
             MemFinalize(n, o, "FAILED", FALSE)
  BY <1>3 DEF AttemptOutcomes
<1>4. CASE \/ MemFinalize(n, "NEEDS_REVIEW", "NEEDS_REVIEW", TRUE)
           \/ MemFinalize(n, "COMPENSATED", "COMPENSATED", FALSE)
           \/ MemFinalize(n, "COMPENSATION_FAILED", "NEEDS_REVIEW", FALSE)
  BY <1>4 DEF AttemptOutcomes
<1> QED BY <1>2, <1>3, <1>4 DEF MemFinalizeAny

LEMMA MemRefusedCases ==
  ASSUME NEW n, MemRefusedAny(n)
  PROVE  \E o \in AttemptOutcomes :
           /\ SetOutcome(n, o)
           /\ UNCHANGED <<status, fingerprint, owner, lease, receipt>>
<1>1. ConfirmedOutcome \in AttemptOutcomes
  BY DEF ConfirmedOutcome, AttemptOutcomes
<1> QED BY <1>1 DEF MemRefusedAny, LeaveOutcome, AttemptOutcomes

LEMMA MemMarkUnknownCases ==
  ASSUME NEW n, MemMarkUnknownAny(n)
  PROVE  \E o \in AttemptOutcomes :
           /\ SetOutcome(n, o)
           /\ \/ UNCHANGED <<status, fingerprint, owner, lease, receipt>>
              \/ Transition("UNKNOWN") /\ ReleaseClaim /\ UNCHANGED <<fingerprint, receipt>>
  BY DEF MemMarkUnknownAny, MemMarkUnknown, LeaveOutcome, AttemptOutcomes

-----------------------------------------------------------------------------
(* The history of a key, as in the durable ledger, but without the claim   *)
(* that the latest attempt of a lease is running: a refused call of the    *)
(* general client may mark any attempt.                                    *)

MemHistoryInv ==
  /\ StoreTypeOK
  /\ attempts = <<>> <=> status \in {"ABSENT", "PLANNED", "CLAIMED"}
  /\ \A n \in DOMAIN attempts : attempts[n].kind = "EXECUTION" <=> n = 1

MemReceiptInv ==
  /\ receipt # NoReceipt =>
       \/ status = receipt.status
       \/ status = "COMPENSATING" /\ receipt.status = "CONFIRMED"
  /\ TerminalHasReceipt

\* Marking an attempt without leaving for a status that has no attempts
LEMMA MemOutcomeStep ==
  ASSUME MemHistoryInv, NEW n \in DOMAIN attempts, NEW o \in AttemptOutcomes,
         SetOutcome(n, o),
         status' \in OperationStatuses \ {"PLANNED", "CLAIMED"},
         fingerprint' \in Fingerprints \cup {Null},
         owner' \in Workers \cup {Null},
         lease' \in {"none", "active", "expired"},
         receipt' \in Receipts
  PROVE  MemHistoryInv'
<1>1. /\ attempts' \in Seq(Attempts)
      /\ DOMAIN attempts' = DOMAIN attempts
      /\ \A m \in DOMAIN attempts : attempts'[m].kind = attempts[m].kind
  BY SetOutcomeKeeps DEF SetOutcome, MemHistoryInv, StoreTypeOK
<1>2. attempts' # <<>>
  BY <1>1
<1> QED BY <1>1, <1>2 DEF MemHistoryInv, StoreTypeOK, OperationStatuses

LEMMA MemHistoryStep ==
  ASSUME MemHistoryInv, [MemStoreNext]_storeVars
  PROVE  MemHistoryInv'
<1>0. /\ StoreTypeOK
      /\ attempts \in Seq(Attempts)
      /\ Len(attempts) \in Nat
      /\ DOMAIN attempts = 1..Len(attempts)
  BY LenProperties DEF MemHistoryInv, StoreTypeOK
<1>1. ASSUME NEW w \in Workers, NEW fp \in Fingerprints,
             ClaimNew(w, fp) \/ ClaimReclaimed(w, fp)
      PROVE  MemHistoryInv'
  <2>1. StoreTypeOK'
    BY <1>0, <1>1, StoreTypeStep DEF StoreNext, Claim
  <2> QED BY <1>1, <2>1 DEF MemHistoryInv, ClaimNew, ClaimReclaimed
<1>2. ASSUME NEW w \in Workers, NEW s \in Seq(Attempts), StartReconciliation(w, s),
             s # <<>>, \A n \in DOMAIN s : s[n].kind = "EXECUTION" <=> n = 1,
             StoreTypeOK'
      PROVE  MemHistoryInv'
  <2>1. Len(s) \in Nat \ {0} /\ DOMAIN s = 1..Len(s)
    BY <1>2, EmptySeq, LenProperties
  <2> DEFINE a == [kind |-> "RECONCILIATION", outcome |-> "RUNNING"]
  <2>2. attempts' = Append(s, a) /\ status' = "RECONCILING"
    BY <1>2 DEF StartReconciliation, StartAttempt
  <2>3. /\ attempts' \in Seq(Attempts)
        /\ Len(attempts') = Len(s) + 1
        /\ \A m \in DOMAIN s : attempts'[m] = s[m]
        /\ attempts'[Len(s) + 1] = a
    BY <2>2, StartAttemptKeeps DEF AttemptKinds
  <2>4. DOMAIN attempts' = 1..(Len(s) + 1) /\ attempts' # <<>>
    BY <2>1, <2>3, LenProperties, EmptySeq
  <2>5. \A n \in DOMAIN attempts' : attempts'[n].kind = "EXECUTION" <=> n = 1
    <3> TAKE n \in DOMAIN attempts'
    <3>1. CASE n \in DOMAIN s
      BY <1>2, <2>3, <3>1
    <3>2. CASE n = Len(s) + 1
      BY <2>1, <2>3, <3>2
    <3> QED BY <2>1, <2>4, <3>1, <3>2
  <2> QED BY <1>2, <2>2, <2>4, <2>5 DEF MemHistoryInv
<1>3. ASSUME NEW w \in Workers, NEW fp \in Fingerprints, ClaimReconcile(w, fp)
      PROVE  MemHistoryInv'
  <2>1. attempts # <<>> /\ StoreTypeOK'
    BY <1>0, <1>3, StoreTypeStep DEF MemHistoryInv, ClaimReconcile, StoreNext, Claim
  <2>2. ASSUME NEW o \in AttemptOutcomes
        PROVE  /\ WithLatestRunningClosed(o) \in Seq(Attempts)
               /\ WithLatestRunningClosed(o) # <<>>
               /\ \A n \in DOMAIN WithLatestRunningClosed(o) :
                    WithLatestRunningClosed(o)[n].kind = "EXECUTION" <=> n = 1
    BY <1>0, <2>1, CloseLatestKeeps, EmptySeq DEF MemHistoryInv
  <2> QED BY <1>0, <1>2, <1>3, <2>1, <2>2
    DEF MemHistoryInv, ClaimReconcile, AttemptOutcomes
<1>4. ASSUME NEW w \in Workers, MarkSubmitted(w)
      PROVE  MemHistoryInv'
  <2>0. StoreTypeOK'
    BY <1>0, <1>4, StoreTypeStep DEF StoreNext
  <2>1. status = "CLAIMED" /\ attempts = <<>>
    BY <1>0, <1>4, LegalSources DEF MarkSubmitted, CanSubmit, MemHistoryInv
  <2> DEFINE a == [kind |-> "EXECUTION", outcome |-> "RUNNING"]
  <2>2. attempts' = Append(attempts, a) /\ status' = "SUBMITTED"
    BY <1>4 DEF MarkSubmitted, StartAttempt, Transition
  <2>3. /\ attempts' \in Seq(Attempts) /\ Len(attempts') = Len(attempts) + 1
        /\ attempts'[Len(attempts) + 1] = a
    BY <1>0, <2>2, StartAttemptKeeps DEF AttemptKinds
  <2>4. Len(attempts) = 0
    BY <2>1, EmptySeq
  <2>5. DOMAIN attempts' = 1..1 /\ attempts' # <<>>
    <3>1. attempts' \in Seq(Attempts) /\ Len(attempts') = 1
      BY <2>3, <2>4
    <3>2. DOMAIN attempts' = 1..Len(attempts')
      BY <3>1, LenProperties
    <3> QED BY <3>1, <3>2, EmptySeq
  <2> QED BY <2>0, <2>2, <2>3, <2>4, <2>5 DEF MemHistoryInv
<1>5. ASSUME NEW n \in DOMAIN attempts, NEW o \in AttemptOutcomes, SetOutcome(n, o),
             UNCHANGED <<status, fingerprint, owner, lease, receipt>>
      PROVE  MemHistoryInv'
  <2>1. status \in OperationStatuses \ {"PLANNED", "CLAIMED"}
    BY <1>0 DEF MemHistoryInv, StoreTypeOK
  <2> QED BY <1>5, <2>1, MemOutcomeStep DEF MemHistoryInv, StoreTypeOK
<1>6. ASSUME NEW n \in DOMAIN attempts, MemMarkUnknownAny(n)
      PROVE  MemHistoryInv'
  <2>1. PICK o \in AttemptOutcomes :
           /\ SetOutcome(n, o)
           /\ \/ UNCHANGED <<status, fingerprint, owner, lease, receipt>>
              \/ Transition("UNKNOWN") /\ ReleaseClaim /\ UNCHANGED <<fingerprint, receipt>>
    BY <1>6, MemMarkUnknownCases
  <2>2. CASE UNCHANGED <<status, fingerprint, owner, lease, receipt>>
    BY <1>5, <2>1, <2>2
  <2>3. CASE Transition("UNKNOWN") /\ ReleaseClaim /\ UNCHANGED <<fingerprint, receipt>>
    BY <1>0, <2>1, <2>3, MemOutcomeStep
    DEF Transition, ReleaseClaim, StoreTypeOK, OperationStatuses
  <2> QED BY <2>1, <2>2, <2>3
<1>7. ASSUME NEW n \in DOMAIN attempts, MemFinalizeAny(n)
      PROVE  MemHistoryInv'
  <2>1. PICK o \in AttemptOutcomes, final \in TerminalStatuses, p \in BOOLEAN :
          MemFinalize(n, o, final, p)
    BY <1>7, MemFinalizeCases
  <2>2. receipt' \in Receipts
    BY <2>1 DEF MemFinalize, CreateReceipt, Receipts
  <2>3. status' \in OperationStatuses \ {"PLANNED", "CLAIMED"}
    BY <2>1 DEF MemFinalize, Transition, OperationStatuses
  <2> QED BY <1>0, <2>1, <2>2, <2>3, MemOutcomeStep
    DEF MemFinalize, CreateReceipt, ReleaseClaim, StoreTypeOK
<1>8. ASSUME NEW n \in DOMAIN attempts, MemRefusedAny(n)
      PROVE  MemHistoryInv'
  BY <1>5, <1>8, MemRefusedCases
<1>9. CASE MarkCompensating
  <2>1. StoreTypeOK'
    BY <1>0, <1>9, StoreTypeStep DEF StoreNext
  <2> QED BY <1>0, <1>9, <2>1, LegalSources
    DEF MemHistoryInv, MarkCompensating, Transition
<1>10. CASE LeaseExpires
  BY <1>10 DEF LeaseExpires, MemHistoryInv, StoreTypeOK
<1>11. CASE UNCHANGED storeVars
  BY <1>11 DEF storeVars, MemHistoryInv, StoreTypeOK
<1> QED
  BY <1>1, <1>3, <1>4, <1>6, <1>7, <1>8, <1>9, <1>10, <1>11
  DEF MemStoreNext, MemClaim, MemMarkSubmitted, Claim

\* The receipt follows the status: receipts.set() runs only together with the
\* transition into a terminal status.
LEMMA MemReceiptStep ==
  ASSUME StoreTypeOK, MemReceiptInv, [MemStoreNext]_storeVars
  PROVE  /\ MemReceiptInv'
         /\ receipt # NoReceipt /\ receipt' # receipt =>
              /\ status = "COMPENSATING" /\ receipt.status = "CONFIRMED"
              /\ receipt'.status \in {"COMPENSATED", "NEEDS_REVIEW"}
<1> USE DEF MemReceiptInv, TerminalHasReceipt
<1>0. receipt # NoReceipt => receipt.status \in TerminalStatuses
  BY DEF StoreTypeOK, Receipts
<1>1. ASSUME NEW w \in Workers, NEW fp \in Fingerprints, Claim(w, fp)
      PROVE  /\ receipt' = receipt
             /\ status \notin TerminalStatuses \cup {"COMPENSATING"}
             /\ status' \notin TerminalStatuses
  BY <1>1 DEF Claim, ClaimNew, ClaimReclaimed, ClaimReconcile,
     StartReconciliation, Claimable, CanMoveTo
<1>2. ASSUME NEW w \in Workers, MarkSubmitted(w)
      PROVE  /\ receipt' = receipt
             /\ status \notin TerminalStatuses \cup {"COMPENSATING"}
             /\ status' \notin TerminalStatuses
  BY <1>2, LegalSources DEF MarkSubmitted, CanSubmit, Transition
<1>3. ASSUME NEW n, MemMarkUnknownAny(n)
      PROVE  /\ receipt' = receipt
             /\ \/ status' = status
                \/ /\ status \notin TerminalStatuses \cup {"COMPENSATING"}
                   /\ status' \notin TerminalStatuses
  <2>1. \/ receipt' = receipt /\ status' = status
        \/ Transition("UNKNOWN") /\ receipt' = receipt
    BY <1>3, MemMarkUnknownCases
  <2> QED BY <2>1, LegalSources DEF Transition
<1>4. ASSUME NEW n, MemRefusedAny(n)
      PROVE  receipt' = receipt /\ status' = status
  BY <1>4, MemRefusedCases
<1>5. CASE MarkCompensating
  BY <1>0, <1>5, LegalSources DEF MarkCompensating, Transition
<1>6. CASE LeaseExpires \/ UNCHANGED storeVars
  BY <1>6 DEF LeaseExpires, storeVars
<1>7. ASSUME NEW n, MemFinalizeAny(n)
      PROVE  /\ status' \in TerminalStatuses /\ receipt'.status = status'
             /\ receipt # NoReceipt =>
                  /\ status = "COMPENSATING" /\ receipt.status = "CONFIRMED"
                  /\ receipt'.status \in {"COMPENSATED", "NEEDS_REVIEW"}
  <2>1. PICK o \in AttemptOutcomes, final \in TerminalStatuses, p \in BOOLEAN :
          MemFinalize(n, o, final, p)
    BY <1>7, MemFinalizeCases
  <2>2. /\ CanMoveTo(final) /\ status' = final
        /\ receipt' = [status |-> final, prevented |-> p]
    BY <2>1 DEF MemFinalize, Transition, CreateReceipt
  <2>3. ASSUME receipt # NoReceipt
        PROVE  /\ status = "COMPENSATING" /\ receipt.status = "CONFIRMED"
               /\ final \in {"COMPENSATED", "NEEDS_REVIEW"}
    <3>1. \/ status \in TerminalStatuses
          \/ status = "COMPENSATING" /\ receipt.status = "CONFIRMED"
      BY <1>0, <2>3
    <3>2. ~CanTransition("CONFIRMED", final) /\ ~CanTransition("FAILED", final)
          /\ ~CanTransition("COMPENSATED", final) /\ ~CanTransition("NEEDS_REVIEW", final)
      BY DEF CanTransition, LegalTransitions
    <3>3. status = "COMPENSATING" /\ receipt.status = "CONFIRMED"
      BY <2>2, <3>1, <3>2 DEF CanMoveTo
    <3> QED BY <2>2, <3>3 DEF CanMoveTo, CanTransition, LegalTransitions
  <2> QED BY <2>2, <2>3
<1> QED
  BY <1>0, <1>1, <1>2, <1>3, <1>4, <1>5, <1>6, <1>7
  DEF MemStoreNext, MemClaim, MemMarkSubmitted

LEMMA MemCorrect == MemStoreSpec => [](MemHistoryInv /\ MemReceiptInv)
<1>1. StoreInit => MemHistoryInv /\ MemReceiptInv
  BY EmptySeq DEF StoreInit, StoreTypeOK, MemHistoryInv, MemReceiptInv,
     TerminalHasReceipt, Receipts
<1>2. MemHistoryInv /\ MemReceiptInv /\ [MemStoreNext]_storeVars
        => (MemHistoryInv /\ MemReceiptInv)'
  BY MemHistoryStep, MemReceiptStep DEF MemHistoryInv
<1> QED BY <1>1, <1>2, PTL DEF MemStoreSpec

\* The in-memory ledger, too, records one submission per key.
THEOREM MemSubmissionUnique == MemStoreSpec => []AtMostOneSubmission
<1>1. MemHistoryInv => AtMostOneSubmission
  BY DEF MemHistoryInv, AtMostOneSubmission, Submissions
<1> QED BY <1>1, MemCorrect, PTL

\* Its terminal operations have a receipt of their status.
THEOREM MemTerminalAnswered == MemStoreSpec => []TerminalHasReceipt
<1>1. MemReceiptInv => TerminalHasReceipt
  BY DEF MemReceiptInv
<1> QED BY <1>1, MemCorrect, PTL

\* A receipt is replaced by the verdict of an undo, and by nothing else.
THEOREM MemReceiptReplaced == MemStoreSpec => ReceiptReplacedOnlyByUndo
<1>1. MemHistoryInv /\ MemReceiptInv /\ [MemStoreNext]_storeVars =>
        [receipt # NoReceipt /\ receipt' # receipt =>
           /\ status = "COMPENSATING" /\ receipt.status = "CONFIRMED"
           /\ receipt'.status \in {"COMPENSATED", "NEEDS_REVIEW"}]_storeVars
  BY MemReceiptStep DEF MemHistoryInv
<1> QED BY <1>1, MemCorrect, PTL DEF MemStoreSpec, ReceiptReplacedOnlyByUndo
==============================================================================
