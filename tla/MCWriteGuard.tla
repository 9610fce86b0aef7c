---------------------------- MODULE MCWriteGuard ----------------------------
(***************************************************************************)
(* Instances of WriteGuard for TLC.  The default workerIdFactory gives     *)
(* every invocation a worker id of its own; one supplied by the            *)
(* application may repeat ids.                                             *)
(***************************************************************************)
EXTENDS WriteGuard, TLC

CONSTANTS
  Conflicting,  \* invocations that reuse the key with other input
  Sharing,      \* invocations that run under one worker id ...
  SharedId      \* ... this one

Worker == [i \in Invocations |-> IF i \in Sharing THEN SharedId ELSE i]

Input == [i \in Invocations |-> IF i \in Conflicting THEN "other" ELSE "main"]

Symmetry ==
  UNION {Permutations(S) :
    S \in {Conflicting, Sharing, Invocations \ (Conflicting \cup Sharing)}}
==============================================================================
