---------------------------- MODULE ExternalWrite ----------------------------
(***************************************************************************)
(* What WriteGuard promises for one operation key, with no workers, leases,*)
(* attempts or retries in sight: the write is tried at most once, its undo *)
(* is tried at most once, and the key gets at most one verdict, which is   *)
(* never taken back and which the write and the undo justify.              *)
(*                                                                         *)
(* The promise does not say that the write precedes the verdict, nor the   *)
(* undo: a slow caller may still reach the provider, or undo, after the    *)
(* key was escalated to NEEDS_REVIEW behind its back.                      *)
(***************************************************************************)
EXTENDS Naturals

VARIABLES
  writes,   \* times the external write was tried
  undos,    \* times its undo was tried
  verdict   \* "none", or the terminal status of the key

writeVars == <<writes, undos, verdict>>

WriteInit == writes = 0 /\ undos = 0 /\ verdict = "none"

Write ==
  /\ writes = 0
  /\ writes' = 1
  /\ UNCHANGED <<undos, verdict>>

Undo ==
  /\ writes = 1
  /\ undos = 0
  /\ undos' = 1
  /\ UNCHANGED <<writes, verdict>>

\* CONFIRMED and FAILED speak of a write that was tried and not undone,
\* COMPENSATED of one that was undone; NEEDS_REVIEW claims nothing.
Justified(v) ==
  \/ v \in {"CONFIRMED", "FAILED"} /\ writes = 1 /\ undos = 0
  \/ v = "COMPENSATED" /\ writes = 1 /\ undos = 1
  \/ v = "NEEDS_REVIEW"

Decide(v) ==
  /\ verdict = "none"
  /\ Justified(v)
  /\ verdict' = v
  /\ UNCHANGED <<writes, undos>>

WriteNext ==
  \/ Write
  \/ Undo
  \/ \E v \in {"CONFIRMED", "FAILED", "COMPENSATED", "NEEDS_REVIEW"} : Decide(v)

WriteSpec == WriteInit /\ [][WriteNext]_writeVars
==============================================================================
