---------------------------- MODULE ManualRefund ----------------------------
(***************************************************************************)
(* runManualRefund() of apps/design-partner-starter/src/workflow.ts: the   *)
(* hand-written ledger WriteGuard is compared with, for one operation key, *)
(* with the application's SandboxRefundProvider.  Every await is a step;   *)
(* there are no transactions, leases or conditional updates, only the      *)
(* UNIQUE operation key.                                                   *)
(***************************************************************************)
EXTENDS Naturals

CONSTANTS
  Scenarios,  \* how the provider behaves, as given to its constructor
  Runs,       \* calls of runManualRefund() with this operation key
  Faulty      \* calls that may die, or lose their database, at any await

ASSUME ManualAssumption ==
  /\ Scenarios \subseteq {"success", "timeout_after_success",
                          "ambiguous_matches", "reconciliation_unavailable"}
  /\ Faulty \subseteq Runs

VARIABLES
  scenario,   \* of the provider
  refunds,    \* refunds that exist at the provider
  row,        \* status of the ledger row, "ABSENT" before the INSERT
  reference,  \* its provider_reference is set
  pc,         \* the next await of each call
  reply,      \* the status each call returned
  late        \* calls that began when a refund already existed

rowVars == <<row, reference>>
vars == <<scenario, refunds, rowVars, pc, reply, late>>

Ended == {"returned", "threw", "crashed"}

TypeOK ==
  /\ scenario \in Scenarios
  /\ refunds \in Nat
  /\ row \in {"ABSENT", "PLANNED", "SUBMITTED", "UNKNOWN", "CONFIRMED", "NEEDS_REVIEW"}
  /\ reference \in BOOLEAN
  /\ pc \in [Runs -> Ended \cup {"insert", "selectOwn", "select", "submit", "create",
                                 "confirm", "markUnknown", "lookup", "review",
                                 "confirmFound"}]
  /\ reply \in [Runs -> {"none", "CONFIRMED", "NEEDS_REVIEW"}]
  /\ late \subseteq Runs

Init ==
  /\ scenario \in Scenarios
  /\ refunds = 0
  /\ row = "ABSENT"
  /\ reference = FALSE
  /\ pc = [r \in Runs |-> "insert"]
  /\ reply = [r \in Runs |-> "none"]
  /\ late = {}

Goto(r, call) ==
  /\ pc' = [pc EXCEPT ![r] = call]
  /\ UNCHANGED <<scenario, reply, late>>

Return(r, result) ==
  /\ pc' = [pc EXCEPT ![r] = "returned"]
  /\ reply' = [reply EXCEPT ![r] = result]
  /\ UNCHANGED <<scenario, late>>

SetConfirmed == row' = "CONFIRMED" /\ reference' = TRUE

-----------------------------------------------------------------------------
(* The ledger row                                                          *)

\* Mutant: the INSERT reports a row that was there as inserted (an upsert)
InsertOrUpdate(r) ==
  /\ pc[r] = "insert"
  /\ row' = IF row = "ABSENT" THEN "PLANNED" ELSE row
  /\ pc' = [pc EXCEPT ![r] = "selectOwn"]
  /\ late' = IF refunds > 0 THEN late \cup {r} ELSE late
  /\ UNCHANGED <<scenario, refunds, reference, reply>>

\* INSERT ... ON CONFLICT DO NOTHING: one call inserts
Insert(r) ==
  /\ pc[r] = "insert"
  /\ row' = IF row = "ABSENT" THEN "PLANNED" ELSE row
  /\ pc' = [pc EXCEPT ![r] = IF row = "ABSENT" THEN "selectOwn" ELSE "select"]
  /\ late' = IF refunds > 0 THEN late \cup {r} ELSE late
  /\ UNCHANGED <<scenario, refunds, reference, reply>>

\* SELECT, by the call that inserted: it goes on whatever it reads
SelectOwn(r) ==
  /\ pc[r] = "selectOwn"
  /\ Goto(r, "submit")
  /\ UNCHANGED <<refunds, rowVars>>

\* SELECT, by any other call: a CONFIRMED row is the answer
Select(r) ==
  /\ pc[r] = "select"
  /\ IF row = "CONFIRMED" THEN Return(r, "CONFIRMED") ELSE Goto(r, "lookup")
  /\ UNCHANGED <<refunds, rowVars>>

-----------------------------------------------------------------------------
(* The call that inserted                                                  *)

\* UPDATE ... 'SUBMITTED', over whatever another call has written meanwhile
Submit(r) ==
  /\ pc[r] = "submit"
  /\ row' = "SUBMITTED"
  /\ Goto(r, "create")
  /\ UNCHANGED <<refunds, reference>>

\* createRefund(): the refund exists before the call can fail
Create(r) ==
  /\ pc[r] = "create"
  /\ refunds' = refunds + (IF scenario = "ambiguous_matches" THEN 2 ELSE 1)
  /\ Goto(r, IF scenario = "timeout_after_success" THEN "markUnknown" ELSE "confirm")
  /\ UNCHANGED rowVars

Confirm(r) ==
  /\ pc[r] = "confirm"
  /\ SetConfirmed
  /\ Return(r, "CONFIRMED")
  /\ UNCHANGED refunds

\* The UPDATE throws inside the try block, with or without having committed
ConfirmFails(r) ==
  /\ r \in Faulty
  /\ pc[r] = "confirm"
  /\ SetConfirmed \/ UNCHANGED rowVars
  /\ Goto(r, "markUnknown")
  /\ UNCHANGED refunds

MarkUnknown(r) ==
  /\ pc[r] = "markUnknown"
  /\ row' = "UNKNOWN"
  /\ Goto(r, "threw")
  /\ UNCHANGED <<refunds, reference>>

-----------------------------------------------------------------------------
(* Every other call                                                        *)

\* Mutant: a lookup that is unavailable counts as found
LookupNotEmpty(r) ==
  /\ pc[r] = "lookup"
  /\ Goto(r, IF scenario = "reconciliation_unavailable" \/ refunds = 1
               THEN "confirmFound" ELSE "review")
  /\ UNCHANGED <<refunds, rowVars>>

\* Mutant: the match's status is compared with the wrong literal
LookupEmpty(r) ==
  /\ pc[r] = "lookup"
  /\ Goto(r, "review")
  /\ UNCHANGED <<refunds, rowVars>>

\* reconcileByOperationId(): none, one or many matches, or unavailable
Lookup(r) ==
  /\ pc[r] = "lookup"
  /\ Goto(r, IF scenario # "reconciliation_unavailable" /\ refunds = 1
               THEN "confirmFound" ELSE "review")
  /\ UNCHANGED <<refunds, rowVars>>

Review(r) ==
  /\ pc[r] = "review"
  /\ row' = "NEEDS_REVIEW"
  /\ Return(r, "NEEDS_REVIEW")
  /\ UNCHANGED <<refunds, reference>>

ConfirmFound(r) ==
  /\ pc[r] = "confirmFound"
  /\ SetConfirmed
  /\ Return(r, "CONFIRMED")
  /\ UNCHANGED refunds

\* The process dies, or a query outside the try block throws
Crash(r) ==
  /\ r \in Faulty
  /\ pc[r] \notin Ended
  /\ Goto(r, "crashed")
  /\ UNCHANGED <<refunds, rowVars>>

Next ==
  \E r \in Runs :
    \/ Insert(r) \/ SelectOwn(r) \/ Select(r)
    \/ Submit(r) \/ Create(r) \/ Confirm(r) \/ ConfirmFails(r) \/ MarkUnknown(r)
    \/ Lookup(r) \/ Review(r) \/ ConfirmFound(r)
    \/ Crash(r)

Spec == Init /\ [][Next]_vars

-----------------------------------------------------------------------------
\* The provider is asked for one refund (which the ambiguous scenario doubles),
\* although no step but the INSERT is conditional.
OneRefund == refunds <= (IF scenario = "ambiguous_matches" THEN 2 ELSE 1)

\* CONFIRMED, in the row or in an answer, is never said without a refund, also
\* by a call that saw nothing but another call's row.
ConfirmedHasRefund ==
  /\ row = "CONFIRMED" => refunds > 0 /\ reference
  /\ (\E r \in Runs : reply[r] = "CONFIRMED") => refunds > 0

\* Where the provider can be asked and answers with one match, a call that
\* begins after the refund exists is not sent to review, even if an earlier
\* call has overwritten the row meanwhile.
LateCallConfirms ==
  scenario \in {"success", "timeout_after_success"} =>
    \A r \in late : reply[r] # "NEEDS_REVIEW"
==============================================================================
