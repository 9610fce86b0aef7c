------------------------ MODULE MCWriteGuardInMemory ------------------------
(***************************************************************************)
(* Instances of WriteGuardInMemory for TLC.                                *)
(***************************************************************************)
EXTENDS WriteGuardInMemory, TLC

OwnWorker == [i \in Invocations |-> i]

OneInput == [i \in Invocations |-> "main"]

Symmetry == Permutations(Invocations)
==============================================================================
