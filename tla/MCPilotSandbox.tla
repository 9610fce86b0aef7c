-------------------------- MODULE MCPilotSandbox --------------------------
(***************************************************************************)
(* An instance of PilotSandbox for TLC: the three settings the README of   *)
(* the sandbox describes, one of them without telemetry, and two that      *)
(* parsePilotConfig refuses.                                               *)
(***************************************************************************)
EXTENDS PilotSandbox, TLC

CONSTANTS p1, p2

Setting(mode, provider, key, telemetryEnabled) ==
  [mode |-> mode, provider |-> provider, stripeKey |-> key, telemetry |-> telemetryEnabled,
   failClosed |-> TRUE, reconciliation |-> TRUE, localDatabase |-> TRUE]

PilotEnvironments ==
  {Setting("shadow", "fake", "none", TRUE), Setting("enforced", "fake", "none", TRUE),
   Setting("enforced", "stripe-test", "test", FALSE),
   Setting("shadow", "stripe-test", "test", TRUE), Setting("enforced", "fake", "live", TRUE)}

ProcessSymmetry == Permutations(Processes)
==============================================================================
