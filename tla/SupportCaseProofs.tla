-------------------------- MODULE SupportCaseProofs --------------------------
(***************************************************************************)
(* The case row is written without looking at it, so its guarantee rests   *)
(* on the receipt alone: a run only ever records a verdict that stands.    *)
(***************************************************************************)
EXTENDS SupportCase, TLAPS

\* What the refund's promise says without a compensate hook
RefundInv ==
  /\ undos = 0
  /\ verdict = "CONFIRMED" => writes = 1

Inv == TypeOK /\ RefundInv /\ ResolvedMeansRefunded /\ PendingExplained

USE DEF writeVars, rowVars, UnderWay, Invoking

LEMMA InvInitially == Init => Inv
<1> SUFFICES ASSUME Init PROVE Inv
  OBVIOUS
<1>1. TypeOK
  BY DEF Init, WriteInit, TypeOK
<1>2. RefundInv /\ ResolvedMeansRefunded /\ PendingExplained
  BY DEF Init, WriteInit, RefundInv, ResolvedMeansRefunded, PendingExplained
<1> QED
  BY <1>1, <1>2 DEF Inv

\* The steps inside the guarded refund
LEMMA RefundPreserves ==
  ASSUME Inv, NEW r \in Runs,
         Execute(r) \/ Settle(r) \/ Answered(r) \/ ThrowsUnknown(r) \/ Fails(r)
  PROVE  Inv'
<1> USE DEF Inv, TypeOK, RefundInv, ResolvedMeansRefunded, PendingExplained, Goto
<1>1. CASE Execute(r)
  BY <1>1 DEF Execute, Write
<1>2. CASE Settle(r)
  BY <1>2 DEF Settle, Decide, Justified
<1>3. CASE Answered(r) \/ ThrowsUnknown(r)
  BY <1>3 DEF Answered, ThrowsUnknown
<1>4. CASE Fails(r)
  BY <1>4 DEF Fails
<1> QED
  BY <1>1, <1>2, <1>3, <1>4

\* The steps that write the case row, and the faults
LEMMA RowPreserves ==
  ASSUME Inv, NEW r \in Runs,
         \/ Request(r) \/ Escalate(r) \/ RecordReview(r) \/ RecordConfirmed(r)
         \/ Crash(r) \/ Retry(r)
  PROVE  Inv'
<1> USE DEF Inv, TypeOK, RefundInv, ResolvedMeansRefunded, PendingExplained, Goto
<1>1. CASE Request(r)
  BY <1>1 DEF Request
<1>2. CASE Escalate(r)
  BY <1>2 DEF Escalate
<1>3. CASE RecordReview(r)
  BY <1>3 DEF RecordReview
<1>4. CASE RecordConfirmed(r)
  BY <1>4 DEF RecordConfirmed
<1>5. CASE Crash(r) \/ Retry(r)
  BY <1>5 DEF Crash, Retry
<1> QED
  BY <1>1, <1>2, <1>3, <1>4, <1>5

LEMMA Invariance == Spec => []Inv
<1>1. Inv /\ [Next]_vars => Inv'
  <2> SUFFICES ASSUME Inv, [Next]_vars PROVE Inv'
    OBVIOUS
  <2>1. CASE Next
    BY <2>1, RefundPreserves, RowPreserves DEF Next, Step
  <2>2. CASE UNCHANGED vars
    BY <2>2 DEF vars, Inv, TypeOK, RefundInv, ResolvedMeansRefunded, PendingExplained
  <2> QED
    BY <2>1, <2>2
<1> QED
  BY InvInitially, <1>1, PTL DEF Spec

\* A resolved case has a confirmed refund, for any number of runs and errors.
THEOREM ResolvedIsRefunded == Spec => []ResolvedMeansRefunded
BY Invariance, PTL DEF Inv

\* A case is left pending by an unknown outcome or a dead run only (and, in
\* the applications that catch nothing, by a run that threw).
THEOREM PendingIsExplained == Spec => []PendingExplained
BY Invariance, PTL DEF Inv
==============================================================================
