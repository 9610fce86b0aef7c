------------------------ MODULE VerificationPolicy ------------------------
(***************************************************************************)
(* The receipt of a verification and the policy a team evaluates it with.  *)
(*                                                                         *)
(* A receipt is [overall, levels, checks, supplied, limited]: the status   *)
(* of every level and of every check, whether a provider implementation    *)
(* was supplied, and whether it lists limitations, which every receipt of  *)
(* the verifier does (fixedLimitations).  A policy is a function from      *)
(* requirements to "required" or "not_required", except for                *)
(* realProviderSemantics, which may be "optional", and receiptLimitations, *)
(* which is "allow_declared" or "forbid".                                  *)
(***************************************************************************)
EXTENDS Naturals

Requirements ==
  {"artifactIntegrity", "provenanceBindings", "controlledCompilation",
   "generatedFailureTests", "providerBoundaryComplete", "noOpenAIRuntimeDependency",
   "noSecretShapedValues", "realProviderSemantics", "receiptLimitations"}

ParsedPolicy(policy) ==
  /\ DOMAIN policy = Requirements
  /\ policy["receiptLimitations"] \in {"allow_declared", "forbid"}

IntegrityChecks ==
  {"artifact.manifest", "artifact.paths_and_digests", "artifact.provenance_bindings",
   "artifact.static_policy", "artifact.openai_runtime_dependency",
   "artifact.secret_patterns"}

CheckIds ==
  IntegrityChecks \cup {"artifact.extra_files", "compilation.public_surfaces",
    "tests.generated_failure_behavior", "provider.boundary", "provider.real_semantics"}

LevelIds ==
  {"artifact_integrity", "compilation", "simulated_failure_behavior",
   "provider_integration_completeness", "real_provider_semantics"}

(***************************************************************************)
(* The receipt of a verification that threw: the one check it has failed,  *)
(* and every level above integrity is reported as not run.                 *)
(***************************************************************************)
FailedReceipt ==
  [overall |-> "failed",
   levels |-> [l \in LevelIds |-> IF l = "artifact_integrity" THEN "failed" ELSE "not_run"],
   checks |-> [c \in CheckIds |-> IF c = "artifact.manifest" THEN "failed" ELSE "absent"],
   supplied |-> FALSE, limited |-> TRUE]

(***************************************************************************)
(* The receipt of a verification that got to its end: extras says whether  *)
(* there are files outside the manifest, tests is the status of the test   *)
(* check.                                                                  *)
(***************************************************************************)
CompletedReceipt(extras, compiled, tests, supplied) ==
  LET boundary == IF supplied /\ ~compiled THEN "failed" ELSE "passed_with_limitations"
      compilation == IF compiled THEN "passed" ELSE "failed"
      checks ==
        [c \in CheckIds |->
           CASE c \in IntegrityChecks -> "passed"
             [] c = "artifact.extra_files" ->
                  IF extras THEN "passed_with_limitations" ELSE "not_applicable"
             [] c = "compilation.public_surfaces" -> compilation
             [] c = "tests.generated_failure_behavior" -> tests
             [] c = "provider.boundary" -> boundary
             [] c = "provider.real_semantics" -> "not_run"]
  IN  [overall |-> IF \E c \in CheckIds : checks[c] = "failed"
                   THEN "failed" ELSE "passed_with_limitations",
       levels |->
         [l \in LevelIds |->
            CASE l = "artifact_integrity" ->
                   IF extras THEN "passed_with_limitations" ELSE "passed"
              [] l = "compilation" -> compilation
              [] l = "simulated_failure_behavior" -> tests
              [] l = "provider_integration_completeness" -> boundary
              [] l = "real_provider_semantics" -> "not_run"],
       checks |-> checks, supplied |-> supplied, limited |-> TRUE]

-----------------------------------------------------------------------------
CheckPassed(receipt, id) == receipt.checks[id] = "passed"

\* Mutant: a check that was not run counts as one with limitations
CheckNotFailed(receipt, id) == receipt.checks[id] # "failed"

CheckPassedOrLimited(receipt, id) ==
  receipt.checks[id] \in {"passed", "passed_with_limitations"}

IntegritySatisfied(policy, receipt) ==
  \/ receipt.levels["artifact_integrity"] = "passed"
  \/ /\ policy["receiptLimitations"] = "allow_declared"
     /\ receipt.levels["artifact_integrity"] = "passed_with_limitations"
     /\ CheckPassed(receipt, "artifact.manifest")
     /\ CheckPassed(receipt, "artifact.paths_and_digests")
     /\ CheckPassedOrLimited(receipt, "artifact.extra_files")

(***************************************************************************)
(* What satisfies each requirement that a policy may require.              *)
(***************************************************************************)
Satisfied(policy, receipt, requirement) ==
  CASE requirement = "artifactIntegrity" -> IntegritySatisfied(policy, receipt)
    [] requirement = "provenanceBindings" ->
         CheckPassed(receipt, "artifact.provenance_bindings")
    [] requirement = "controlledCompilation" ->
         CheckPassed(receipt, "compilation.public_surfaces")
    [] requirement = "generatedFailureTests" ->
         CheckPassedOrLimited(receipt, "tests.generated_failure_behavior")
    [] requirement = "providerBoundaryComplete" ->
         CheckPassedOrLimited(receipt, "provider.boundary") /\ receipt.supplied
    [] requirement = "noOpenAIRuntimeDependency" ->
         CheckPassed(receipt, "artifact.openai_runtime_dependency")
    [] requirement = "noSecretShapedValues" ->
         CheckPassed(receipt, "artifact.secret_patterns")
    [] requirement = "realProviderSemantics" ->
         receipt.levels["real_provider_semantics"] = "passed"
    [] requirement = "receiptLimitations" ->
         IF policy[requirement] = "allow_declared"
         THEN receipt.overall # "failed"
         ELSE receipt.overall = "passed" /\ ~receipt.limited

Required(policy, requirement) == policy[requirement] \notin {"not_required", "optional"}

EvaluateVerificationPolicy(policy, receipt) ==
  IF /\ receipt.overall # "failed"
     /\ \A requirement \in DOMAIN policy :
          Required(policy, requirement) => Satisfied(policy, receipt, requirement)
  THEN "passed" ELSE "failed"

(***************************************************************************)
(* The exit codes of verify and of policy check.                           *)
(***************************************************************************)
VerifyExitCode(receipt) == IF receipt.overall = "failed" THEN 6 ELSE 0

PolicyExitCode(policy, receipt) ==
  IF EvaluateVerificationPolicy(policy, receipt) = "passed" THEN 0 ELSE 7
==============================================================================
