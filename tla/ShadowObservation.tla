-------------------------- MODULE ShadowObservation --------------------------
(***************************************************************************)
(* WriteGuard.observe() of packages/sdk/src/index.ts over the two shadow   *)
(* tables: any number of concurrent observations of one operation key.     *)
(* Recording is one transaction that locks the observation's row, and      *)
(* finalizing is one UPDATE (postgres-store.ts; memory-store.ts is behind  *)
(* its lock alike).  Between the two the application's lookup and          *)
(* verification run, and other observers and the provider with them.       *)
(***************************************************************************)
EXTENDS Naturals, FiniteSets

CONSTANTS
  Observers,      \* calls of observe() with this operation key
  FingerprintOf,  \* the request fingerprint each of them computes
  Reconciles,     \* observers that pass a reconcile hook
  Verifies,       \* observers that pass a verify hook
  Faulty,         \* observers that may lose a store call or a metric
  Null            \* SQL NULL

ASSUME ObserverAssumption ==
  /\ \A o \in Observers : FingerprintOf[o] # Null
  /\ Reconciles \subseteq Observers
  /\ Verifies \subseteq Observers
  /\ Faulty \subseteq Observers

VARIABLES
  fingerprint,          \* request_fingerprint, Null before the INSERT
  invocationCount,      \* invocation_count
  latest,               \* latest_classification, _verified, _provider_reference
  invocations,          \* writeguard_shadow_invocations: number and observer
  pc,                   \* the next call of each observer
  seen,                 \* observation.invocationCount as returned to the observer
  evaluation,           \* classification, verified and reference it worked out
  counted,              \* finalized.invocationCount of its UPDATE, 0 before
  metrics               \* emitted observed_operation and duplicate_invocation

rowVars == <<fingerprint, invocationCount, latest, invocations>>
vars == <<rowVars, pc, seen, evaluation, counted, metrics>>

Classifications ==
  {"not_evaluated", "no_match_visible", "verified_external_effect",
   "external_match_unverified", "verification_failed", "ambiguous_matches",
   "reconciliation_unavailable"}

\* A verdict is a classified one: verified is true exactly of
\* verified_external_effect and false exactly of verification_failed.
Evaluations ==
  {e \in [classification : Classifications,
          verified       : {"true", "false", Null},
          reference      : {"match", Null}] :
     /\ e.verified = "true" <=> e.classification = "verified_external_effect"
     /\ e.verified = "false" <=> e.classification = "verification_failed"}

Evaluated(c, v, r) == [classification |-> c, verified |-> v, reference |-> r]

NotEvaluated == Evaluated("not_evaluated", Null, Null)

Init ==
  /\ fingerprint = Null
  /\ invocationCount = 0
  /\ latest = NotEvaluated
  /\ invocations = {}
  /\ pc = [o \in Observers |-> "record"]
  /\ seen = [o \in Observers |-> 0]
  /\ evaluation = [o \in Observers |-> NotEvaluated]
  /\ counted = [o \in Observers |-> 0]
  /\ metrics = [observed_operation |-> 0, duplicate_invocation |-> 0]

Goto(o, call) == pc' = [pc EXCEPT ![o] = call]

-----------------------------------------------------------------------------
(* recordShadowObservation()                                               *)

\* The row is inserted if absent, locked, compared and counted
Matches(o) == fingerprint \in {Null, FingerprintOf[o]}

RecordShadowObservation(o) ==
  /\ Matches(o)
  /\ fingerprint' = FingerprintOf[o]
  /\ invocationCount' = invocationCount + 1
  /\ invocations' = invocations \cup {[number |-> invocationCount + 1, observer |-> o]}
  /\ seen' = [seen EXCEPT ![o] = invocationCount + 1]
  /\ UNCHANGED latest

Record(o) ==
  /\ pc[o] = "record"
  /\ RecordShadowObservation(o)
  /\ Goto(o, "emit")
  /\ UNCHANGED <<evaluation, counted, metrics>>

\* OperationKeyConflictError: the transaction rolls back
RecordConflicts(o) ==
  /\ pc[o] = "record"
  /\ ~Matches(o)
  /\ Goto(o, "threw")
  /\ UNCHANGED <<rowVars, seen, evaluation, counted, metrics>>

-----------------------------------------------------------------------------
(* observe() between the two store calls                                   *)

\* The metric of an observation, by the count its own record returned
Metric(o) ==
  IF seen[o] = 1 THEN "observed_operation" ELSE "duplicate_invocation"

\* emitTelemetry(): a sink that fails is ignored
Emit(o) ==
  /\ pc[o] = "emit"
  /\ \/ metrics' = [metrics EXCEPT ![Metric(o)] = @ + 1]
     \/ o \in Faulty /\ UNCHANGED metrics
  /\ Goto(o, IF o \in Reconciles THEN "reconcile" ELSE "finalize")
  /\ UNCHANGED <<rowVars, seen, evaluation, counted>>

Evaluate(o, e, call) ==
  /\ evaluation' = [evaluation EXCEPT ![o] = e]
  /\ Goto(o, call)
  /\ UNCHANGED <<rowVars, seen, counted, metrics>>

\* The provider lookup.  One that throws, in the hook or while the match's
\* reference is read, is reported as unavailable.
Lookup(o) ==
  /\ pc[o] = "reconcile"
  /\ \/ \E c \in {"reconciliation_unavailable", "no_match_visible",
                  "ambiguous_matches"} :
          Evaluate(o, Evaluated(c, Null, Null), "finalize")
     \/ \E r \in {"match", Null} :
          IF o \in Verifies
            THEN Evaluate(o, Evaluated("not_evaluated", Null, r), "verify")
            ELSE Evaluate(o, Evaluated("external_match_unverified", Null, r),
                          "finalize")

\* The application's postcondition; a hook that throws counts as false
Verify(o) ==
  /\ pc[o] = "verify"
  /\ \/ Evaluate(o, Evaluated("verified_external_effect", "true",
                              evaluation[o].reference), "finalize")
     \/ Evaluate(o, Evaluated("verification_failed", "false",
                              evaluation[o].reference), "finalize")

-----------------------------------------------------------------------------
(* finalizeShadowObservation() and the receipt                             *)

\* Mutant: a classification that was stored is kept
FinalizeOnce(o) ==
  /\ latest' = IF latest = NotEvaluated THEN evaluation[o] ELSE latest
  /\ counted' = [counted EXCEPT ![o] = invocationCount]
  /\ UNCHANGED <<fingerprint, invocationCount, invocations>>

\* One UPDATE, unconditional: the last finalizer decides what is stored.  It
\* returns the count of the row as it is now, not as it was recorded.
FinalizeShadowObservation(o) ==
  /\ latest' = evaluation[o]
  /\ counted' = [counted EXCEPT ![o] = invocationCount]
  /\ UNCHANGED <<fingerprint, invocationCount, invocations>>

\* The receipt reports the count of the finalized row
Finalize(o) ==
  /\ pc[o] = "finalize"
  /\ FinalizeShadowObservation(o)
  /\ Goto(o, "returned")
  /\ UNCHANGED <<seen, evaluation, metrics>>

\* The UPDATE commits, but its answer is lost and the caller gets an error
FinalizeUnheard(o) ==
  /\ o \in Faulty
  /\ pc[o] = "finalize"
  /\ FinalizeShadowObservation(o)
  /\ Goto(o, "unheard")
  /\ UNCHANGED <<seen, evaluation, metrics>>

\* A store call fails and is rethrown, or the process dies
Crash(o) ==
  /\ o \in Faulty
  /\ pc[o] \in {"record", "emit", "reconcile", "verify", "finalize"}
  /\ Goto(o, "threw")
  /\ UNCHANGED <<rowVars, seen, evaluation, counted, metrics>>

Next ==
  \E o \in Observers :
    \/ Record(o) \/ RecordConflicts(o)
    \/ Emit(o) \/ Lookup(o) \/ Verify(o)
    \/ Finalize(o) \/ FinalizeUnheard(o)
    \/ Crash(o)

Spec == Init /\ [][Next]_vars

-----------------------------------------------------------------------------
Returned == {o \in Observers : pc[o] = "returned"}
Finalized == {o \in Observers : pc[o] \in {"returned", "unheard"}}

\* Mutant: off by one
ReportsDuplicateLate(o) == counted[o] > 2

\* duplicateInvocationObserved and wouldSuppressDuplicate of a receipt
ReportsDuplicate(o) == counted[o] > 1

\* At most one receipt says "not a duplicate", and it belongs to the first
\* recorded invocation: a repeat is never passed off as the original.
OneOriginal ==
  \A o \in Returned : ~ReportsDuplicate(o) => [number |-> 1, observer |-> o] \in invocations

\* A lookup that was overtaken may overwrite a newer one, but only among
\* observations that overlapped: what is stored is the whole evaluation of one
\* observation, and none that ended was recorded after that one's UPDATE (an
\* observation recorded later was given a number above the count it saw).
LatestNotOutdated ==
  Finalized # {} =>
    \E o \in Finalized : /\ latest = evaluation[o]
                         /\ \A q \in Finalized : seen[q] <= counted[o]

\* packages/writeguard/README.md: "wouldSuppressDuplicate is a counterfactual
\* based on stable identity": under enforcement one of the invocations would
\* have been the original, so not every receipt may say "suppressed".
SomeInvocationNotSuppressed ==
  Returned = Observers /\ Observers # {} => \E o \in Observers : ~ReportsDuplicate(o)
==============================================================================
