----------------------- MODULE MCVerifyIntegration -----------------------
(***************************************************************************)
(* An instance of VerifyIntegration for TLC: a manifest of two files, and  *)
(* the policies a team would write, from the weakest to two no receipt can *)
(* pass.                                                                   *)
(***************************************************************************)
EXTENDS VerifyIntegration

CONSTANTS bundle, test, approved, edited, unsafe

BundleThenTest == <<bundle, test>>

Policy(required, real, limitations) ==
  [r \in Requirements |->
     CASE r = "realProviderSemantics" -> real
       [] r = "receiptLimitations" -> limitations
       [] OTHER -> IF r \in required THEN "required" ELSE "not_required"]

TeamPolicies ==
  {Policy({}, "not_required", "allow_declared"),
   Policy({"generatedFailureTests"}, "optional", "allow_declared"),
   Policy({"providerBoundaryComplete", "artifactIntegrity"}, "optional", "allow_declared"),
   Policy(Requirements, "optional", "allow_declared"),
   Policy(Requirements, "required", "allow_declared"),
   Policy({}, "not_required", "forbid")}
==============================================================================
