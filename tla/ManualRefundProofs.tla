------------------------- MODULE ManualRefundProofs -------------------------
(***************************************************************************)
(* Of all the steps of the hand-written refund only the INSERT is          *)
(* conditional, so everything rests on it: the call that inserted holds a  *)
(* token until it has created the refund, and nobody else ever gets one.   *)
(***************************************************************************)
EXTENDS ManualRefund, TLAPS

\* r inserted the row and has not created the refund
Holds(r) == pc[r] \in {"selectOwn", "submit", "create"}

TokenInv ==
  /\ row = "ABSENT" => refunds = 0 /\ \A r \in Runs : pc[r] \in {"insert", "crashed"}
  /\ \A r \in Runs : Holds(r) => refunds = 0
  /\ \A r, s \in Runs : Holds(r) /\ Holds(s) => r = s
  /\ OneRefund

\* Every call that is about to write CONFIRMED has seen a refund
EvidenceInv ==
  /\ \A r \in Runs : pc[r] \in {"confirm", "confirmFound"} => refunds > 0
  /\ ConfirmedHasRefund

\* A call that began after the refund existed never heads for review
LateInv ==
  /\ \A r \in Runs : pc[r] = "insert" => reply[r] = "none"
  /\ \A r \in late : refunds > 0
  /\ scenario \in {"success", "timeout_after_success"} =>
       \A r \in late : pc[r] # "review"
  /\ LateCallConfirms

Inv == TypeOK /\ TokenInv /\ EvidenceInv /\ LateInv

USE DEF Ended, Holds, rowVars

LEMMA InvInitially == Init => Inv
<1> SUFFICES ASSUME Init PROVE Inv
  OBVIOUS
<1>1. TypeOK
  BY DEF Init, TypeOK
<1>2. TokenInv
  BY DEF Init, TokenInv, OneRefund
<1>3. EvidenceInv /\ LateInv
  BY DEF Init, EvidenceInv, LateInv, ConfirmedHasRefund, LateCallConfirms
<1> QED
  BY <1>1, <1>2, <1>3 DEF Inv

\* The types, one step for each of the code's awaits
LEMMA TypePreserved == TypeOK /\ [Next]_vars => TypeOK'
<1> SUFFICES ASSUME TypeOK, [Next]_vars PROVE TypeOK'
  OBVIOUS
<1> USE DEF TypeOK
<1>1. ASSUME NEW r \in Runs, Insert(r) PROVE TypeOK'
  BY <1>1 DEF Insert
<1>2. ASSUME NEW r \in Runs, Select(r) PROVE TypeOK'
  BY <1>2 DEF Select, Goto, Return
<1>3. ASSUME NEW r \in Runs, SelectOwn(r) \/ Submit(r) \/ MarkUnknown(r) PROVE TypeOK'
  BY <1>3 DEF SelectOwn, Submit, MarkUnknown, Goto
<1>4. ASSUME NEW r \in Runs, Create(r) PROVE TypeOK'
  BY <1>4 DEF Create, Goto
<1>5. ASSUME NEW r \in Runs, Lookup(r) PROVE TypeOK'
  BY <1>5 DEF Lookup, Goto
<1>6. ASSUME NEW r \in Runs, ConfirmFails(r) \/ Crash(r) PROVE TypeOK'
  BY <1>6 DEF ConfirmFails, Crash, Goto, SetConfirmed
<1>7. ASSUME NEW r \in Runs, Confirm(r) \/ Review(r) \/ ConfirmFound(r) PROVE TypeOK'
  BY <1>7 DEF Confirm, Review, ConfirmFound, Return, SetConfirmed
<1>8. CASE UNCHANGED vars
  BY <1>8 DEF vars
<1> QED
  BY <1>1, <1>2, <1>3, <1>4, <1>5, <1>6, <1>7, <1>8 DEF Next

\* The token: taken by the INSERT that finds no row, given up by createRefund()
LEMMA TokenPreserved == Inv /\ [Next]_vars => TokenInv'
<1> SUFFICES ASSUME Inv, [Next]_vars PROVE TokenInv'
  OBVIOUS
<1> USE DEF Inv, TypeOK, TokenInv, OneRefund
<1>1. ASSUME NEW r \in Runs, Insert(r) PROVE TokenInv'
  BY <1>1 DEF Insert
<1>2. ASSUME NEW r \in Runs, Select(r) PROVE TokenInv'
  BY <1>2 DEF Select, Goto, Return
<1>3. ASSUME NEW r \in Runs, SelectOwn(r) \/ Submit(r) \/ MarkUnknown(r) PROVE TokenInv'
  BY <1>3 DEF SelectOwn, Submit, MarkUnknown, Goto
<1>4. ASSUME NEW r \in Runs, Create(r) PROVE TokenInv'
  <2>1. refunds = 0 /\ row # "ABSENT"
    BY <1>4 DEF Create
  <2>2. \A s \in Runs : ~Holds(s)'
    BY <1>4 DEF Create, Goto
  <2>3. OneRefund'
    BY <1>4, <2>1 DEF Create, Goto
  <2> QED
    BY <1>4, <2>1, <2>2, <2>3 DEF Create
<1>5. ASSUME NEW r \in Runs, Lookup(r) PROVE TokenInv'
  BY <1>5 DEF Lookup, Goto
<1>6. ASSUME NEW r \in Runs, ConfirmFails(r) \/ Crash(r) PROVE TokenInv'
  BY <1>6 DEF ConfirmFails, Crash, Goto, SetConfirmed
<1>7. ASSUME NEW r \in Runs, Confirm(r) \/ Review(r) \/ ConfirmFound(r) PROVE TokenInv'
  BY <1>7 DEF Confirm, Review, ConfirmFound, Return, SetConfirmed
<1>8. CASE UNCHANGED vars
  BY <1>8 DEF vars
<1> QED
  BY <1>1, <1>2, <1>3, <1>4, <1>5, <1>6, <1>7, <1>8 DEF Next

\* Refunds are never taken back, so what a call has seen stays true
LEMMA EvidencePreserved == Inv /\ [Next]_vars => EvidenceInv'
<1> SUFFICES ASSUME Inv, [Next]_vars PROVE EvidenceInv'
  OBVIOUS
<1> USE DEF Inv, TypeOK, EvidenceInv, ConfirmedHasRefund
<1>1. ASSUME NEW r \in Runs, Insert(r) PROVE EvidenceInv'
  BY <1>1 DEF Insert
<1>2. ASSUME NEW r \in Runs, Select(r) PROVE EvidenceInv'
  BY <1>2 DEF Select, Goto, Return
<1>3. ASSUME NEW r \in Runs, SelectOwn(r) \/ Submit(r) \/ MarkUnknown(r) PROVE EvidenceInv'
  BY <1>3 DEF SelectOwn, Submit, MarkUnknown, Goto
<1>4. ASSUME NEW r \in Runs, Create(r) PROVE EvidenceInv'
  BY <1>4 DEF Create, Goto
<1>5. ASSUME NEW r \in Runs, Lookup(r) PROVE EvidenceInv'
  BY <1>5 DEF Lookup, Goto
<1>6. ASSUME NEW r \in Runs, ConfirmFails(r) \/ Crash(r) PROVE EvidenceInv'
  BY <1>6 DEF ConfirmFails, Crash, Goto, SetConfirmed
<1>7. ASSUME NEW r \in Runs, Confirm(r) \/ Review(r) \/ ConfirmFound(r) PROVE EvidenceInv'
  BY <1>7 DEF Confirm, Review, ConfirmFound, Return, SetConfirmed
<1>8. CASE UNCHANGED vars
  BY <1>8 DEF vars
<1> QED
  BY <1>1, <1>2, <1>3, <1>4, <1>5, <1>6, <1>7, <1>8 DEF Next

\* A late call looks up after the one refund: exactly one match, unless the
\* provider doubles or hides it
LEMMA LatePreserved == Inv /\ [Next]_vars => LateInv'
<1> SUFFICES ASSUME Inv, [Next]_vars PROVE LateInv'
  OBVIOUS
<1> USE DEF Inv, TypeOK, LateInv, LateCallConfirms
<1>1. ASSUME NEW r \in Runs, Insert(r) PROVE LateInv'
  BY <1>1 DEF Insert
<1>2. ASSUME NEW r \in Runs, Select(r) PROVE LateInv'
  BY <1>2 DEF Select, Goto, Return
<1>3. ASSUME NEW r \in Runs, SelectOwn(r) \/ Submit(r) \/ MarkUnknown(r) PROVE LateInv'
  BY <1>3 DEF SelectOwn, Submit, MarkUnknown, Goto
<1>4. ASSUME NEW r \in Runs, Create(r) PROVE LateInv'
  BY <1>4 DEF Create, Goto
<1>5. ASSUME NEW r \in Runs, Lookup(r) PROVE LateInv'
  <2>1. scenario \in {"success", "timeout_after_success"} /\ r \in late =>
          pc'[r] = "confirmFound"
    BY <1>5 DEF Lookup, Goto, TokenInv, OneRefund
  <2> QED
    BY <1>5, <2>1 DEF Lookup, Goto
<1>6. ASSUME NEW r \in Runs, ConfirmFails(r) \/ Crash(r) PROVE LateInv'
  BY <1>6 DEF ConfirmFails, Crash, Goto, SetConfirmed
<1>7. ASSUME NEW r \in Runs, Confirm(r) \/ Review(r) \/ ConfirmFound(r) PROVE LateInv'
  BY <1>7 DEF Confirm, Review, ConfirmFound, Return, SetConfirmed
<1>8. CASE UNCHANGED vars
  BY <1>8 DEF vars
<1> QED
  BY <1>1, <1>2, <1>3, <1>4, <1>5, <1>6, <1>7, <1>8 DEF Next

LEMMA Invariance == Spec => []Inv
<1>1. Inv /\ [Next]_vars => Inv'
  BY TypePreserved, TokenPreserved, EvidencePreserved, LatePreserved DEF Inv
<1> QED
  BY InvInitially, <1>1, PTL DEF Spec

\* The provider is asked once for any number of calls, wherever they die.
THEOREM OneRefundRequested == Spec => []OneRefund
BY Invariance, PTL DEF Inv, TokenInv

\* No row and no answer says CONFIRMED without a refund.
THEOREM ConfirmedIsRefunded == Spec => []ConfirmedHasRefund
BY Invariance, PTL DEF Inv, EvidenceInv

\* A call that begins after the refund exists is not sent to review, where the
\* provider answers with one match.
THEOREM LateCallsConfirm == Spec => []LateCallConfirms
BY Invariance, PTL DEF Inv, LateInv
==============================================================================
