------------------------ MODULE MCShadowObservation ------------------------
(***************************************************************************)
(* Instances of ShadowObservation for TLC.                                 *)
(***************************************************************************)
EXTENDS ShadowObservation

CONSTANT Conflicting  \* observers that reuse the key with other input

TwoInputs == [o \in Observers |-> IF o \in Conflicting THEN "other" ELSE "main"]
==============================================================================
