---------------------- MODULE MCPostgresOperationStore ----------------------
(***************************************************************************)
(* The ledger under its most general client, with a bounded number of      *)
(* attempts (UNKNOWN <-> RECONCILING can alternate forever).               *)
(***************************************************************************)
EXTENDS PostgresOperationStore, TLC

CONSTANT MaxAttempts  \* bound on the attempts of the operation

ASSUME MaxAttemptsAssumption == MaxAttempts \in Nat \ {0}

MCNext == StoreNext /\ Len(attempts') <= MaxAttempts

MCSpec == StoreInit /\ [][MCNext]_storeVars

Symmetry == Permutations(Workers) \cup Permutations(Fingerprints)
==============================================================================
