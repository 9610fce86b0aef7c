----------------------------- MODULE SupportCase -----------------------------
(***************************************************************************)
(* A support case beside its guarded refund, in the example applications:  *)
(* SupportRefundWorkflow.run() of apps/support-refund, and enforce() of    *)
(* apps/pilot-sandbox and apps/design-partner-starter.  The case is one    *)
(* row of the application; it shares no transaction with WriteGuard.       *)
(*                                                                         *)
(* The refund is the promise of ExternalWrite (which WriteGuard is shown   *)
(* to implement), without a compensate hook: these workflows pass none.    *)
(* Any number of runs serve the case; all of them ask for one refund.      *)
(***************************************************************************)
EXTENDS ExternalWrite

CONSTANTS
  Apps,        \* "support" and/or "starter" (enforce() is alike in the pilot)
  Runs,        \* framework tool calls that reach the workflow
  Faulty,      \* runs that may die, or lose their database, at any await
  Persistent   \* runs that are made again after an error

ASSUME CaseAssumption ==
  /\ Apps \subseteq {"support", "starter"}
  /\ Faulty \subseteq Runs
  /\ Persistent \subseteq Runs

VARIABLES
  app,     \* the application
  status,  \* support_cases.status
  refund,  \* support_cases.refund_status
  linked,  \* support_cases.refund_receipt_id is set
  pc       \* the next await of each run

rowVars == <<status, refund, linked>>
vars == <<writeVars, app, rowVars, pc>>

UnderWay == {"request", "invoke", "executed", "escalate", "record"}

TypeOK ==
  /\ writes \in Nat
  /\ undos \in Nat
  /\ verdict \in {"none", "CONFIRMED", "FAILED", "COMPENSATED", "NEEDS_REVIEW"}
  /\ app \in Apps
  /\ status \in {"OPEN", "RESOLVED"}
  /\ refund \in {"NOT_REQUESTED", "PENDING", "CONFIRMED", "NEEDS_REVIEW"}
  /\ linked \in BOOLEAN
  /\ pc \in [Runs -> UnderWay \cup {"answered", "unknown", "threw", "crashed"}]

\* A seeded case
Init ==
  /\ WriteInit
  /\ app \in Apps
  /\ status = "OPEN"
  /\ refund = "NOT_REQUESTED"
  /\ linked = FALSE
  /\ pc = [r \in Runs |-> "request"]

Goto(r, next) ==
  /\ pc' = [pc EXCEPT ![r] = next]
  /\ UNCHANGED app

-----------------------------------------------------------------------------
(* The case row before the refund                                          *)

\* Only the support application leaves a resolved case alone.
MayMarkPending == app = "support" => status = "OPEN"

Request(r) ==
  /\ pc[r] = "request"
  /\ refund' = IF MayMarkPending THEN "PENDING" ELSE refund
  /\ Goto(r, "invoke")
  /\ UNCHANGED <<writeVars, status, linked>>

-----------------------------------------------------------------------------
(* invoke() / execute() of the guarded refund                              *)

Invoking(r) == pc[r] \in {"invoke", "executed"}

\* This run is the one whose execute hook is called
Execute(r) ==
  /\ pc[r] = "invoke"
  /\ Write
  /\ Goto(r, "executed")
  /\ UNCHANGED rowVars

\* This run, executing or reconciling, writes the receipt
Settle(r) ==
  /\ Invoking(r)
  /\ \E v \in {"CONFIRMED", "FAILED", "NEEDS_REVIEW"} : Decide(v)
  /\ UNCHANGED <<app, rowVars, pc>>

Answered(r) ==
  /\ Invoking(r)
  /\ verdict # "none"
  /\ Goto(r, "record")
  /\ UNCHANGED <<writeVars, rowVars>>

\* UnknownExecutionOutcome goes to the caller past the case row, in every
\* application; only the run that executed can see it.
ThrowsUnknown(r) ==
  /\ pc[r] = "executed"
  /\ Goto(r, "unknown")
  /\ UNCHANGED <<writeVars, rowVars>>

\* Any other error: in progress, lookup unavailable, key conflict, storage.
\* Only the support application catches it.
Fails(r) ==
  /\ Invoking(r)
  /\ Goto(r, IF app = "support" THEN "escalate" ELSE "threw")
  /\ UNCHANGED <<writeVars, rowVars>>

-----------------------------------------------------------------------------
(* The case row after the refund                                           *)

\* Mutant: a case that has a receipt is left alone
EscalateUnlessLinked(r) ==
  /\ pc[r] = "escalate"
  /\ refund' = IF linked THEN refund ELSE "NEEDS_REVIEW"
  /\ Goto(r, "threw")
  /\ UNCHANGED <<writeVars, status, linked>>

\* The error path of the support application: whatever the case's status is
Escalate(r) ==
  /\ pc[r] = "escalate"
  /\ refund' = "NEEDS_REVIEW"
  /\ Goto(r, "threw")
  /\ UNCHANGED <<writeVars, status, linked>>

\* A receipt that is not CONFIRMED; the support application throws then
RecordReview(r) ==
  /\ pc[r] = "record"
  /\ verdict # "CONFIRMED"
  /\ refund' = "NEEDS_REVIEW"
  /\ linked' = TRUE
  /\ Goto(r, IF app = "support" THEN "threw" ELSE "answered")
  /\ UNCHANGED <<writeVars, status>>

\* Mutant: every receipt resolves the case
RecordAnyReceipt(r) ==
  /\ pc[r] = "record"
  /\ refund' = "CONFIRMED"
  /\ status' = "RESOLVED"
  /\ linked' = TRUE
  /\ Goto(r, "answered")
  /\ UNCHANGED writeVars

\* Mutant: a case that is no longer pending is left alone
RecordIfPending(r) ==
  /\ pc[r] = "record"
  /\ verdict = "CONFIRMED"
  /\ IF refund = "PENDING"
       THEN refund' = "CONFIRMED" /\ status' = "RESOLVED" /\ linked' = TRUE
       ELSE UNCHANGED rowVars
  /\ Goto(r, "answered")
  /\ UNCHANGED writeVars

\* A CONFIRMED receipt resolves the case
RecordConfirmed(r) ==
  /\ pc[r] = "record"
  /\ verdict = "CONFIRMED"
  /\ refund' = "CONFIRMED"
  /\ status' = "RESOLVED"
  /\ linked' = TRUE
  /\ Goto(r, "answered")
  /\ UNCHANGED writeVars

\* The process dies, or an UPDATE of the case row throws
Crash(r) ==
  /\ r \in Faulty
  /\ pc[r] \in UnderWay
  /\ Goto(r, "crashed")
  /\ UNCHANGED <<writeVars, rowVars>>

\* The framework calls the tool again
Retry(r) ==
  /\ r \in Persistent
  /\ pc[r] \in {"unknown", "threw"}
  /\ Goto(r, "request")
  /\ UNCHANGED <<writeVars, rowVars>>

Step(r) ==
  \/ Request(r)
  \/ Execute(r) \/ Settle(r) \/ Answered(r) \/ ThrowsUnknown(r) \/ Fails(r)
  \/ Escalate(r) \/ RecordReview(r) \/ RecordConfirmed(r)

Next == \E r \in Runs : Step(r) \/ Crash(r) \/ Retry(r)

Spec == Init /\ [][Next]_vars

\* A run that does not die takes its next step and is made again after an
\* error.  Once a receipt stands, every fresh call of its key is answered, so
\* a persistent run cannot fail for ever: strong fairness of Answered.
FairSpec ==
  /\ Spec
  /\ \A r \in Persistent :
       /\ WF_vars(Step(r))
       /\ WF_vars(Retry(r))
       /\ SF_vars(Answered(r))

-----------------------------------------------------------------------------
\* A resolved case has the receipt of a confirmed refund that was tried and
\* not undone, whichever runs wrote the row and in whatever order.
ResolvedMeansRefunded ==
  status = "RESOLVED" => verdict = "CONFIRMED" /\ writes = 1 /\ undos = 0 /\ linked

\* A pending case is being worked on, or a run left it with an unknown outcome
\* or died; in the support application no other error leaves one pending.
PendingExplained ==
  refund = "PENDING" =>
    \E r \in Runs :
      \/ pc[r] \in UnderWay \cup {"unknown", "crashed"}
      \/ app # "support" /\ pc[r] = "threw"

\* "That update is retryable because a later call receives the same terminal
\* receipt": with one caller that keeps calling, a confirmed refund resolves
\* its case, whatever the other runs do and wherever they die.
ConfirmedCaseResolved == verdict = "CONFIRMED" ~> status = "RESOLVED"
==============================================================================
