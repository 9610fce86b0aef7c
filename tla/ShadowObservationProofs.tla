----------------------- MODULE ShadowObservationProofs -----------------------
(***************************************************************************)
(* Theorems about concurrent observations of one key, for any number of    *)
(* observers.                                                              *)
(***************************************************************************)
EXTENDS ShadowObservation, TLAPS

\* Every recorded invocation has a number of its own, and the numbers are
\* 1..invocation_count with none missing.
InvocationsNumbered ==
  /\ {i.number : i \in invocations} = 1..invocationCount
  /\ \A i, j \in invocations : i.number = j.number => i = j

\* Whoever is past the record holds the number it was given, and a receipt's
\* count is at least that number: the row only counts up.
NumberInv ==
  /\ invocationCount \in Nat
  /\ invocations \subseteq [number : Nat, observer : Observers]
  /\ pc \in [Observers -> {"record", "emit", "reconcile", "verify", "finalize",
                           "returned", "unheard", "threw"}]
  /\ seen \in [Observers -> Nat]
  /\ counted \in [Observers -> Nat]
  /\ InvocationsNumbered
  /\ \A o \in Observers : pc[o] \notin {"record", "threw"} =>
       /\ [number |-> seen[o], observer |-> o] \in invocations
       /\ seen[o] \in 1..invocationCount
  /\ \A o \in Finalized : counted[o] >= seen[o]

LEMMA NumberInit == Init => NumberInv
  BY DEF Init, NumberInv, InvocationsNumbered, Finalized

\* Recording takes the next number, under the lock of the row.
LEMMA RecordStep ==
  ASSUME NumberInv, NEW o \in Observers, Record(o)
  PROVE  NumberInv'
<1> DEFINE i == [number |-> invocationCount + 1, observer |-> o]
<1>1. /\ invocationCount' = invocationCount + 1
      /\ invocations' = invocations \cup {i}
      /\ seen' = [seen EXCEPT ![o] = invocationCount + 1]
      /\ pc' = [pc EXCEPT ![o] = "emit"]
      /\ counted' = counted
      /\ pc[o] = "record"
  BY DEF Record, RecordShadowObservation, Goto
<1>2. /\ invocationCount' \in Nat
      /\ i \in [number : Nat, observer : Observers]
      /\ i.number = invocationCount + 1
  BY <1>1 DEF NumberInv
<1>3. \A j \in invocations : j.number \in 1..invocationCount
  BY DEF NumberInv, InvocationsNumbered
<1>4. InvocationsNumbered'
  <2>1. {j.number : j \in invocations'} = {j.number : j \in invocations} \cup {i.number}
    BY <1>1
  <2>2. {j.number : j \in invocations'} = 1..invocationCount'
    <3>1. {j.number : j \in invocations} = 1..invocationCount
      BY DEF NumberInv, InvocationsNumbered
    <3>2. (1..invocationCount) \cup {invocationCount + 1} = 1..(invocationCount + 1)
      BY DEF NumberInv
    <3> QED BY <1>1, <1>2, <2>1, <3>1, <3>2
  <2>3. \A j, k \in invocations' : j.number = k.number => j = k
    <3>1. \A j \in invocations : j.number # i.number
      BY <1>2, <1>3 DEF NumberInv
    <3> QED BY <1>1, <3>1 DEF NumberInv, InvocationsNumbered
  <2> QED BY <2>2, <2>3 DEF InvocationsNumbered
<1>5. ASSUME NEW p \in Observers, pc'[p] \notin {"record", "threw"}
      PROVE  /\ [number |-> seen'[p], observer |-> p] \in invocations'
             /\ seen'[p] \in 1..invocationCount'
  <2>1. CASE p = o
    BY <1>1, <1>2, <2>1 DEF NumberInv
  <2>2. CASE p # o
    BY <1>1, <1>2, <1>5, <2>2 DEF NumberInv
  <2> QED BY <2>1, <2>2
<1>6. \A p \in Finalized' : counted'[p] >= seen'[p]
  BY <1>1 DEF NumberInv, Finalized
<1>7. /\ pc' \in [Observers -> {"record", "emit", "reconcile", "verify", "finalize",
                                "returned", "unheard", "threw"}]
      /\ seen' \in [Observers -> Nat]
      /\ counted' \in [Observers -> Nat]
      /\ invocations' \subseteq [number : Nat, observer : Observers]
  BY <1>1, <1>2 DEF NumberInv
<1> QED BY <1>2, <1>4, <1>5, <1>6, <1>7 DEF NumberInv

\* Every other step moves one observer and leaves the numbers alone.
LEMMA QuietStep ==
  ASSUME NumberInv, NEW o \in Observers,
         NEW c \in {"emit", "reconcile", "verify", "finalize", "threw"},
         pc' = [pc EXCEPT ![o] = c],
         pc[o] # "record" \/ c = "threw",
         pc[o] # "threw",
         UNCHANGED <<invocationCount, invocations, seen, counted>>
  PROVE  NumberInv'
  BY DEF NumberInv, InvocationsNumbered, Finalized

LEMMA NumberStep ==
  ASSUME NumberInv, [Next]_vars
  PROVE  NumberInv'
<1>1. ASSUME NEW o \in Observers, RecordConflicts(o) \/ Crash(o)
      PROVE  NumberInv'
  BY <1>1, QuietStep DEF RecordConflicts, Crash, Goto, rowVars
<1>2. ASSUME NEW o \in Observers, Emit(o)
      PROVE  NumberInv'
  BY <1>2, QuietStep DEF Emit, Goto, rowVars
<1>3. ASSUME NEW o \in Observers, Lookup(o) \/ Verify(o)
      PROVE  NumberInv'
  <2>1. \E c \in {"verify", "finalize"} : pc' = [pc EXCEPT ![o] = c]
    BY <1>3 DEF Lookup, Verify, Evaluate, Goto
  <2>2. pc[o] \in {"reconcile", "verify"}
    BY <1>3 DEF Lookup, Verify
  <2>3. UNCHANGED <<invocationCount, invocations, seen, counted>>
    BY <1>3 DEF Lookup, Verify, Evaluate, rowVars
  <2> QED BY <2>1, <2>2, <2>3, QuietStep
<1>4. ASSUME NEW o \in Observers, Finalize(o) \/ FinalizeUnheard(o)
      PROVE  NumberInv'
  <2>1. /\ UNCHANGED <<invocationCount, invocations, seen>>
        /\ counted' = [counted EXCEPT ![o] = invocationCount]
        /\ pc[o] = "finalize"
        /\ \E c \in {"returned", "unheard"} : pc' = [pc EXCEPT ![o] = c]
    BY <1>4 DEF Finalize, FinalizeUnheard, FinalizeShadowObservation, Goto
  <2>2. seen[o] \in 1..invocationCount
    BY <2>1 DEF NumberInv
  <2>3. \A p \in Finalized' : counted'[p] >= seen'[p]
    BY <2>1, <2>2 DEF NumberInv, Finalized
  <2> QED BY <2>1, <2>3 DEF NumberInv, InvocationsNumbered
<1>6. ASSUME NEW o \in Observers, Record(o)
      PROVE  NumberInv'
  BY <1>6, RecordStep
<1>7. CASE UNCHANGED vars
  BY <1>7 DEF vars, rowVars, NumberInv, InvocationsNumbered, Finalized
<1> QED BY <1>1, <1>2, <1>3, <1>4, <1>6, <1>7 DEF Next

LEMMA NumberCorrect == Spec => []NumberInv
<1>1. NumberInv /\ [Next]_vars => NumberInv'
  BY NumberStep
<1> QED BY <1>1, NumberInit, PTL DEF Spec

\* Only the first invocation of a key can be reported as not a duplicate.
THEOREM OriginalIsFirst == Spec => []OneOriginal
<1>1. ASSUME NumberInv, NEW o \in Returned, ~ReportsDuplicate(o)
      PROVE  [number |-> 1, observer |-> o] \in invocations
  <2>1. o \in Observers /\ pc[o] = "returned" /\ o \in Finalized
    BY DEF Returned, Finalized
  <2>2. /\ [number |-> seen[o], observer |-> o] \in invocations
        /\ seen[o] \in Nat /\ seen[o] >= 1
    BY <1>1, <2>1 DEF NumberInv
  <2>3. counted[o] \in Nat /\ counted[o] >= seen[o] /\ counted[o] <= 1
    BY <1>1, <2>1 DEF NumberInv, ReportsDuplicate
  <2>4. seen[o] = 1
    BY <2>2, <2>3
  <2> QED BY <2>2, <2>4
<1>2. NumberInv => OneOriginal
  BY <1>1 DEF OneOriginal
<1> QED BY <1>2, NumberCorrect, PTL

-----------------------------------------------------------------------------
(* An evaluation is complete before it is stored, and not touched after;   *)
(* its UPDATE sees the numbers of all who were recorded before.            *)

LatestInv ==
  /\ pc = [o \in Observers |-> pc[o]]
  /\ evaluation = [o \in Observers |-> evaluation[o]]
  /\ LatestNotOutdated

LEMMA LatestStep == NumberInv /\ LatestInv /\ [Next]_vars => LatestInv'
<1> SUFFICES ASSUME NumberInv, LatestInv, [Next]_vars PROVE LatestInv'
  OBVIOUS
<1> USE DEF LatestInv, LatestNotOutdated, Finalized
<1>1. ASSUME NEW o \in Observers, Finalize(o) \/ FinalizeUnheard(o)
      PROVE  LatestInv'
  <2>1. /\ UNCHANGED <<evaluation, seen, invocationCount>> /\ latest' = evaluation[o]
        /\ counted' = [counted EXCEPT ![o] = invocationCount] /\ pc[o] = "finalize"
        /\ \E c \in {"returned", "unheard"} : pc' = [pc EXCEPT ![o] = c]
    BY <1>1 DEF Finalize, FinalizeUnheard, FinalizeShadowObservation, Goto
  <2>2. o \in Finalized' /\ counted'[o] = invocationCount
    BY <2>1 DEF NumberInv
  <2>3. ASSUME NEW q \in Finalized'
        PROVE  seen'[q] <= invocationCount
    <3>1. q \in Observers /\ pc[q] \notin {"record", "threw"}
      BY <2>1, <2>3
    <3>2. seen[q] \in 1..invocationCount /\ invocationCount \in Nat
      BY <3>1 DEF NumberInv
    <3> QED BY <2>1, <3>2
  <2>4. latest' = evaluation'[o] /\ \A q \in Finalized' : seen'[q] <= counted'[o]
    BY <2>1, <2>2, <2>3
  <2>5. LatestNotOutdated'
    BY <2>2, <2>4
  <2> QED BY <2>1, <2>5
<1>2. ASSUME NEW o \in Observers, NEW c \in {"emit", "reconcile", "verify", "finalize", "threw"},
             pc' = [pc EXCEPT ![o] = c], pc[o] \notin {"returned", "unheard"},
             latest' = latest, counted' = counted,
             \A q \in Observers \ {o} : seen'[q] = seen[q],
             \/ evaluation' = evaluation
             \/ \E e : evaluation' = [evaluation EXCEPT ![o] = e]
      PROVE  LatestInv'
  <2>1. /\ pc' = [p \in Observers |-> pc'[p]]
        /\ evaluation' = [p \in Observers |-> evaluation'[p]]
        /\ \A p \in Observers \ {o} : evaluation'[p] = evaluation[p]
    BY <1>2
  <2>2. Finalized' = Finalized /\ o \notin Finalized
    BY <1>2
  <2>3. LatestNotOutdated'
    BY <1>2, <2>1, <2>2
  <2> QED BY <2>1, <2>3
<1>3. ASSUME NEW o \in Observers,
             Record(o) \/ RecordConflicts(o) \/ Emit(o) \/ Crash(o)
      PROVE  LatestInv'
  <2>1. /\ UNCHANGED <<latest, evaluation, counted>>
        /\ pc[o] \notin {"returned", "unheard"}
        /\ \E c \in {"emit", "reconcile", "finalize", "threw"} : pc' = [pc EXCEPT ![o] = c]
    BY <1>3 DEF Record, RecordShadowObservation, RecordConflicts, Emit, Crash, Goto, rowVars
  <2>2. \A q \in Observers \ {o} : seen'[q] = seen[q]
    BY <1>3 DEF Record, RecordShadowObservation, RecordConflicts, Emit, Crash, NumberInv
  <2> QED BY <1>2, <2>1, <2>2
<1>4. ASSUME NEW o \in Observers, Lookup(o) \/ Verify(o)
      PROVE  LatestInv'
  <2>1. /\ UNCHANGED <<latest, counted, seen>> /\ pc[o] \in {"reconcile", "verify"}
        /\ \E c \in {"verify", "finalize"} : pc' = [pc EXCEPT ![o] = c]
        /\ \E e : evaluation' = [evaluation EXCEPT ![o] = e]
    BY <1>4 DEF Lookup, Verify, Evaluate, Goto, rowVars
  <2> QED BY <1>2, <2>1
<1>5. CASE UNCHANGED vars
  BY <1>5 DEF vars, rowVars
<1> QED BY <1>1, <1>3, <1>4, <1>5 DEF Next

\* What is stored is one observation's whole evaluation, and no observation
\* that ended began after that one's UPDATE, for any number of observers.
THEOREM LatestCurrent == Spec => []LatestNotOutdated
<1>1. Init => LatestInv
  BY DEF Init, LatestInv, LatestNotOutdated, Finalized
<1>2. LatestInv => LatestNotOutdated
  BY DEF LatestInv
<1> QED BY <1>1, <1>2, LatestStep, NumberCorrect, PTL DEF Spec
==============================================================================
