------------------------ MODULE PilotSandboxProofs ------------------------
(***************************************************************************)
(* Proofs about PilotSandbox, for any number of processes, commands,       *)
(* crashes, failed appends and refused statements: the migrated schema is  *)
(* what its bookkeeping says, rows of a probe are left only by a doctor    *)
(* that was cut off before its last removal, and the verdict of a doctor   *)
(* is about the schema alone.                                              *)
(*                                                                         *)
(* All rest on what is left of a command, the sequence todo: a step takes *)
(* its head, puts steps of a call in its place, unwinds it to a catch,     *)
(* abandons it, or ends the command.  MovesOn says so once for the actions *)
(* of the module, and each invariant follows from lemmas about these       *)
(* changes.                                                                *)
(***************************************************************************)
EXTENDS PilotSandbox, FiniteSetTheorems, SequenceTheorems, WellFoundedInduction, TLAPS

-----------------------------------------------------------------------------
(***************************************************************************)
(* The shape of the state: the fields of the records that a step updates.  *)
(***************************************************************************)
Operations ==
  {"create", "await_create", "select", "run", "commit", "schema", "truncate", "remove",
   "seed", "pending", "claim", "settle", "submit", "act", "reconcile", "throw",
   "throw_unknown", "unsafe", "observe", "classify", "catch", "surfaced", "intent", "same",
   "summary", "check", "clean", "judge", "record", "resolve"}

MigrationNames ==
  {"0000_initial", "0001_ordered_events", "0002_support_cases",
   "0003_support_case_cardinality", "0004_shadow_observations",
   "0005_fake_provider_test_schema"}

Outcomes == {"CONFIRMED", "NEEDS_REVIEW", "FAILED", "UNKNOWN"}

Arguments == {""} \cup MigrationNames \cup Outcomes

StepType == Operations \X Arguments

Fields ==
  {"command", "todo", "call", "events", "rejected", "refunds", "operation", "receipts",
   "unknown", "ok", "code", "disturbed", "lost"}

\* Only a validation has telemetry records to await.
Shaped(r) ==
  /\ DOMAIN r = Fields /\ r.todo \in Seq(StepType)
  /\ r.command # "validate" => r.events = <<>>

Shape ==
  /\ DOMAIN proc = Processes /\ \A p \in Processes : Shaped(proc[p])
  /\ DOMAIN txn = Processes
  /\ \A p \in Processes : DOMAIN txn[p] = {"created", "ran"}
  /\ DOMAIN db = {"bookkeeping", "recorded", "objects", "pilotTable"}
  /\ DOMAIN ledger = {"pilot", "doctor"}
  /\ leftover \in BOOLEAN

(***************************************************************************)
(* The steps of a call of the ledger, which a doctor takes too, all the    *)
(* steps of a doctor, and all that some call of the client takes.          *)
(***************************************************************************)
Probes(step) ==
  step[1] \in {"claim", "submit", "act", "reconcile", "record", "resolve", "throw",
               "throw_unknown"}

DoctorTakes(step) ==
  Probes(step) \/ step[1] \in {"check", "clean", "catch", "surfaced", "judge"}

Calls(step) == DoctorTakes(step) \/ step[1] \in {"observe", "classify"}

(***************************************************************************)
(* A step that migrates has the migrations its own refers to before it, in *)
(* the same command or in what the process already has, and no call and no *)
(* catch.                                                                  *)
(***************************************************************************)
Migrates(step) == step[1] \in {"select", "run"}

Steady(todo, have) ==
  \A i \in DOMAIN todo : Migrates(todo[i]) =>
    /\ \A name \in Needs(todo[i][2]) :
         name \in have \/ \E j \in 1..(i - 1) : Migrates(todo[j]) /\ todo[j][2] = name
    /\ \A j \in 1..(i - 1) : ~Calls(todo[j])

CatchFree(todo) == \A i \in DOMAIN todo : ~Catches(todo[i])
CallFree(todo) == \A i \in DOMAIN todo : ~Calls(todo[i])
MigrationFree(todo) == \A i \in DOMAIN todo : ~Migrates(todo[i])

Have(p) == db.recorded \cup txn[p].ran

SchemaIInv ==
  /\ Shape
  /\ db.recorded = db.objects
  /\ \A name \in db.recorded : Needs(name) \subseteq db.recorded
  /\ \A p \in Processes :
       /\ \A name \in txn[p].ran : Needs(name) \subseteq Have(p)
       /\ Steady(proc[p].todo, Have(p))

-----------------------------------------------------------------------------
(***************************************************************************)
(* Lemmas about sequences of steps.                                        *)
(***************************************************************************)
LEMMA PairTyped ==
  ASSUME NEW op \in Operations, NEW argument \in Arguments
  PROVE  <<op, argument>> \in StepType /\ <<op, argument>>[1] = op /\ <<op, argument>>[2] = argument
<1>1. <<op, argument>> \in StepType
  BY Zenon DEF StepType
<1> QED
  BY <1>1

LEMMA StepTyped ==
  \A op \in Operations : Step(op) \in StepType /\ Step(op)[1] = op
<1>1. "" \in Arguments
  BY Zenon DEF Arguments
<1> TAKE op \in Operations
<1>2. <<op, "">> \in StepType /\ <<op, "">>[1] = op
  BY <1>1, PairTyped, Zenon
<1> QED
  BY <1>2, Zenon DEF Step

LEMMA TypedStep ==
  ASSUME NEW step \in StepType
  PROVE  step[1] \in Operations /\ step[2] \in Arguments
BY DEF StepType

\* The sequences of one and of two steps.
LEMMA OneStep ==
  ASSUME NEW x \in StepType
  PROVE  /\ <<x>> \in Seq(StepType) /\ Len(<<x>>) = 1 /\ <<x>>[1] = x /\ DOMAIN <<x>> = {1}
         /\ ~Calls(x) => CallFree(<<x>>)
         /\ ~Migrates(x) => MigrationFree(<<x>>)
BY DEF CallFree, MigrationFree

LEMMA TwoSteps ==
  ASSUME NEW x \in StepType, NEW y \in StepType
  PROVE  /\ <<x, y>> \in Seq(StepType) /\ Len(<<x, y>>) = 2
         /\ <<x, y>>[1] = x /\ <<x, y>>[2] = y /\ DOMAIN <<x, y>> = {1, 2}
         /\ ~Calls(x) /\ ~Calls(y) => CallFree(<<x, y>>)
         /\ ~Migrates(x) /\ ~Migrates(y) => MigrationFree(<<x, y>>)
BY DEF CallFree, MigrationFree

\* Of the catches of a sequence, one is the first.
LEMMA FirstCatch ==
  ASSUME NEW s \in Seq(StepType), \E i \in DOMAIN s : Catches(s[i])
  PROVE  \E i \in DOMAIN s : Catches(s[i]) /\ AfterCatch(s) = SubSeq(s, i + 1, Len(s))
<1> DEFINE T == {i \in DOMAIN s : Catches(s[i])}
<1> DEFINE First_(i) == Catches(s[i]) /\ \A j \in 1..(i - 1) : ~Catches(s[j])
<1>1. Len(s) \in Nat /\ DOMAIN s = 1..Len(s)
  BY LenProperties
<1>2. T \subseteq Nat /\ T # {}
  BY <1>1
<1>3. PICK m \in T : \A k \in T : <<k, m>> \notin OpToRel(<, Nat)
  BY <1>2, WFMin, NatLessThanWellFounded, Zenon
<1>4. \A k \in T : ~(k < m)
  BY <1>2, <1>3 DEF OpToRel
<1>5. m \in DOMAIN s /\ First_(m)
  BY <1>1, <1>4
<1>6. (CHOOSE i \in DOMAIN s : First_(i)) \in DOMAIN s /\ First_(CHOOSE i \in DOMAIN s : First_(i))
  BY <1>5, Zenon
<1>7. AfterCatch(s) = SubSeq(s, (CHOOSE i \in DOMAIN s : First_(i)) + 1, Len(s))
  BY Zenon DEF AfterCatch
<1> QED
  BY <1>6, <1>7

\* A concatenation is steady when its parts are and no catch of the first
\* comes before a migration of the second.
LEMMA ConcatSteady ==
  ASSUME NEW s \in Seq(StepType), NEW t \in Seq(StepType), NEW have,
         Steady(s, have), Steady(t, have), CallFree(s) \/ MigrationFree(t)
  PROVE  Steady(s \o t, have)
<1> DEFINE u == s \o t
<1>1. /\ Len(s) \in Nat /\ DOMAIN s = 1..Len(s)
      /\ Len(t) \in Nat /\ DOMAIN t = 1..Len(t)
  BY LenProperties
<1>2. /\ u \in Seq(StepType) /\ Len(u) = Len(s) + Len(t)
      /\ \A i \in 1..(Len(s) + Len(t)) : u[i] = IF i <= Len(s) THEN s[i] ELSE t[i - Len(s)]
  BY ConcatProperties
<1>3. DOMAIN u = 1..(Len(s) + Len(t))
  BY <1>2, LenProperties
<1> HIDE DEF u
<1> SUFFICES ASSUME NEW i \in DOMAIN u, Migrates(u[i])
             PROVE  /\ \A name \in Needs(u[i][2]) :
                         name \in have \/ \E j \in 1..(i - 1) : Migrates(u[j]) /\ u[j][2] = name
                    /\ \A j \in 1..(i - 1) : ~Calls(u[j])
  BY DEF Steady, u
<1>4. CASE i <= Len(s)
  <2>1. i \in DOMAIN s /\ u[i] = s[i] /\ \A j \in 1..(i - 1) : u[j] = s[j]
    BY <1>1, <1>2, <1>3, <1>4
  <2> QED
    BY <2>1 DEF Steady
<1>5. CASE ~(i <= Len(s))
  <2> DEFINE k == i - Len(s)
  <2>1. k \in DOMAIN t /\ u[i] = t[k]
    BY <1>1, <1>2, <1>3, <1>5
  <2>2. ASSUME NEW j \in 1..(k - 1)
        PROVE  Len(s) + j \in 1..(i - 1) /\ u[Len(s) + j] = t[j]
    <3>1. j \in Nat /\ Len(s) + j \in 1..(i - 1) /\ i - 1 < Len(s) + Len(t)
      BY <1>1, <1>2, <1>3, <1>5, <2>2
    <3>2. Len(s) + j \in 1..(Len(s) + Len(t)) /\ ~(Len(s) + j <= Len(s))
          /\ (Len(s) + j) - Len(s) = j
      BY <1>1, <1>3, <2>2, <3>1
    <3> QED
      BY <1>2, <3>1, <3>2
  <2>3. \A j \in 1..(i - 1) :
          IF j <= Len(s) THEN j \in DOMAIN s /\ u[j] = s[j]
          ELSE j - Len(s) \in 1..(k - 1) /\ u[j] = t[j - Len(s)]
    BY <1>1, <1>2, <1>3, <1>5
  <2> HIDE DEF k
  <2>4. \A j \in 1..(i - 1) : ~Calls(u[j])
    BY <2>1, <2>3 DEF Steady, CallFree, MigrationFree
  <2>5. ASSUME NEW name \in Needs(u[i][2]), name \notin have
        PROVE  \E j \in 1..(i - 1) : Migrates(u[j]) /\ u[j][2] = name
    <3>1. PICK j \in 1..(k - 1) : Migrates(t[j]) /\ t[j][2] = name
      BY <2>1, <2>5 DEF Steady
    <3> QED
      BY <2>2, <3>1
  <2> QED
    BY <2>4, <2>5
<1> QED
  BY <1>4, <1>5

\* What is free of catches, or of migrations, stays so in a concatenation.
LEMMA ConcatFree ==
  ASSUME NEW s \in Seq(StepType), NEW t \in Seq(StepType)
  PROVE  /\ s \o t \in Seq(StepType)
         /\ CallFree(s) /\ CallFree(t) => CallFree(s \o t)
         /\ MigrationFree(s) /\ MigrationFree(t) => MigrationFree(s \o t)
<1> DEFINE u == s \o t
<1>1. /\ Len(s) \in Nat /\ DOMAIN s = 1..Len(s)
      /\ Len(t) \in Nat /\ DOMAIN t = 1..Len(t)
  BY LenProperties
<1>2. /\ u \in Seq(StepType) /\ Len(u) = Len(s) + Len(t)
      /\ \A i \in 1..(Len(s) + Len(t)) : u[i] = IF i <= Len(s) THEN s[i] ELSE t[i - Len(s)]
  BY ConcatProperties
<1>3. DOMAIN u = 1..(Len(s) + Len(t))
  BY <1>2, LenProperties
<1> HIDE DEF u
<1>4. \A i \in DOMAIN u : (i \in DOMAIN s /\ u[i] = s[i])
                            \/ (i - Len(s) \in DOMAIN t /\ u[i] = t[i - Len(s)])
  BY <1>1, <1>2, <1>3
<1>5. /\ CallFree(s) /\ CallFree(t) => CallFree(u)
      /\ MigrationFree(s) /\ MigrationFree(t) => MigrationFree(u)
  BY <1>4 DEF CallFree, MigrationFree
<1> QED
  BY <1>2, <1>5 DEF u

\* A sequence without migrations is steady.
LEMMA FreeSteady ==
  ASSUME NEW s, NEW have, MigrationFree(s)
  PROVE  Steady(s, have)
BY DEF MigrationFree, Steady

\* What is left after the head is steady with what the head migrated.
LEMMA TailSteady ==
  ASSUME NEW s \in Seq(StepType), s # <<>>, NEW have, NEW more,
         Steady(s, have), have \subseteq more,
         Migrates(Head(s)) => Head(s)[2] \in more
  PROVE  Tail(s) \in Seq(StepType) /\ Steady(Tail(s), more)
<1> DEFINE u == Tail(s)
<1>1. /\ u \in Seq(StepType) /\ Len(u) = Len(s) - 1
      /\ \A i \in 1..Len(u) : u[i] = s[i + 1]
  BY HeadTailProperties
<1>2. /\ Len(s) \in Nat /\ DOMAIN s = 1..Len(s) /\ Len(s) # 0 /\ Head(s) = s[1]
      /\ DOMAIN u = 1..Len(u)
  BY <1>1, LenProperties, EmptySeq
<1> HIDE DEF u
<1> SUFFICES ASSUME NEW i \in DOMAIN u, Migrates(u[i])
             PROVE  /\ \A name \in Needs(u[i][2]) :
                         name \in more \/ \E j \in 1..(i - 1) : Migrates(u[j]) /\ u[j][2] = name
                    /\ \A j \in 1..(i - 1) : ~Calls(u[j])
  BY <1>1 DEF Steady, u
<1>3. i + 1 \in DOMAIN s /\ u[i] = s[i + 1]
  BY <1>1, <1>2
<1>4. \A j \in 1..(i - 1) : j + 1 \in 1..((i + 1) - 1) /\ u[j] = s[j + 1]
  BY <1>1, <1>2
<1>5. \A j \in 1..(i - 1) : ~Calls(u[j])
  BY <1>3, <1>4 DEF Steady
<1>6. ASSUME NEW name \in Needs(u[i][2]), name \notin more
      PROVE  \E j \in 1..(i - 1) : Migrates(u[j]) /\ u[j][2] = name
  <2>1. PICK j \in 1..((i + 1) - 1) : Migrates(s[j]) /\ s[j][2] = name
    BY <1>3, <1>6 DEF Steady
  <2>2. j # 1
    BY <1>2, <1>6, <2>1
  <2>3. j - 1 \in 1..(i - 1) /\ u[j - 1] = s[j]
    BY <1>1, <1>2, <2>2
  <2> QED
    BY <2>1, <2>3
<1> QED
  BY <1>5, <1>6

\* A select that finds its migration missing becomes the run of it.
LEMMA SelectedSteady ==
  ASSUME NEW s \in Seq(StepType), s # <<>>, NEW have, Steady(s, have),
         Migrates(Head(s))
  PROVE  LET t == <<<<"run", Head(s)[2]>>>> \o Tail(s) IN
         t \in Seq(StepType) /\ Steady(t, have)
<1> DEFINE a == <<<<"run", Head(s)[2]>>>>
           t == a \o Tail(s)
<1>1. /\ Head(s) \in StepType /\ Tail(s) \in Seq(StepType) /\ Len(Tail(s)) = Len(s) - 1
      /\ \A i \in 1..Len(Tail(s)) : Tail(s)[i] = s[i + 1]
  BY HeadTailProperties
<1>2. a \in Seq(StepType) /\ Len(a) = 1 /\ a[1] = <<"run", Head(s)[2]>>
  <2>1. <<"run", Head(s)[2]>> \in StepType
    BY <1>1, TypedStep, PairTyped DEF Operations
  <2> QED
    BY <2>1, OneStep
<1>3. /\ t \in Seq(StepType) /\ Len(t) = Len(a) + Len(Tail(s))
      /\ \A i \in 1..(Len(a) + Len(Tail(s))) :
           t[i] = IF i <= Len(a) THEN a[i] ELSE Tail(s)[i - Len(a)]
  BY <1>1, <1>2, ConcatProperties
<1>4. /\ Len(s) \in Nat /\ DOMAIN s = 1..Len(s) /\ Len(s) # 0 /\ Head(s) = s[1]
      /\ DOMAIN t = 1..Len(t)
  BY <1>3, LenProperties, EmptySeq
<1>5. Len(t) = Len(s) /\ t[1] = <<"run", s[1][2]>> /\ \A i \in 2..Len(s) : t[i] = s[i]
  BY <1>1, <1>2, <1>3, <1>4
<1> HIDE DEF a, t
<1>6. \A i \in DOMAIN s : /\ i \in DOMAIN t /\ t[i][2] = s[i][2]
                          /\ Migrates(t[i]) <=> Migrates(s[i])
                          /\ Calls(t[i]) => Calls(s[i])
  BY <1>4, <1>5 DEF Migrates, Calls, DoctorTakes, Probes
<1>7. DOMAIN t = DOMAIN s /\ \A i \in DOMAIN s : 1..(i - 1) \subseteq DOMAIN s
  BY <1>4, <1>5
<1>8. Steady(t, have)
  BY <1>6, <1>7 DEF Steady
<1> QED
  BY <1>3, <1>8 DEF a, t

\* What follows a catch migrates nothing.
LEMMA CaughtSteady ==
  ASSUME NEW s \in Seq(StepType), NEW have, Steady(s, have),
         NEW i \in DOMAIN s, Catches(s[i])
  PROVE  LET t == SubSeq(s, i + 1, Len(s)) IN
         t \in Seq(StepType) /\ MigrationFree(t)
<1> DEFINE t == SubSeq(s, i + 1, Len(s))
<1>1. Len(s) \in Nat /\ DOMAIN s = 1..Len(s)
  BY LenProperties
<1>2. \A j \in (i + 1)..Len(s) : s[j] \in StepType
  BY <1>1, ElementOfSeq
<1>3. /\ t \in Seq(StepType)
      /\ Len(t) = IF i + 1 <= Len(s) THEN Len(s) - (i + 1) + 1 ELSE 0
      /\ \A j \in 1..(Len(s) - (i + 1) + 1) : t[j] = s[(i + 1) + j - 1]
  BY <1>1, <1>2, SubSeqProperties
<1>4. DOMAIN t = 1..Len(t)
  BY <1>3, LenProperties
<1> HIDE DEF t
<1>5. \A j \in DOMAIN t : i + j \in DOMAIN s /\ t[j] = s[i + j] /\ i \in 1..((i + j) - 1)
  BY <1>1, <1>3, <1>4
<1>6. MigrationFree(t)
  BY <1>5 DEF MigrationFree, Steady, Calls, DoctorTakes, Catches
<1> QED
  BY <1>3, <1>6 DEF t

\* What follows a call migrates nothing.
LEMMA CalledFree ==
  ASSUME NEW s \in Seq(StepType), s # <<>>, NEW have, Steady(s, have), Calls(Head(s))
  PROVE  Tail(s) \in Seq(StepType) /\ MigrationFree(Tail(s))
<1> DEFINE u == Tail(s)
<1>1. /\ u \in Seq(StepType) /\ Len(u) = Len(s) - 1
      /\ \A i \in 1..Len(u) : u[i] = s[i + 1]
  BY HeadTailProperties
<1>2. /\ Len(s) \in Nat /\ DOMAIN s = 1..Len(s) /\ Len(s) # 0 /\ Head(s) = s[1]
      /\ DOMAIN u = 1..Len(u)
  BY <1>1, LenProperties, EmptySeq
<1> HIDE DEF u
<1>3. \A i \in DOMAIN u : i + 1 \in DOMAIN s /\ u[i] = s[i + 1] /\ 1 \in 1..((i + 1) - 1)
  BY <1>1, <1>2
<1>4. MigrationFree(u)
  BY <1>2, <1>3 DEF MigrationFree, Steady
<1> QED
  BY <1>1, <1>4 DEF u

\* More of what is there keeps a sequence steady.
LEMMA MoreSteady ==
  ASSUME NEW s, NEW have, NEW more, have \subseteq more, Steady(s, have)
  PROVE  Steady(s, more)
BY DEF Steady
-----------------------------------------------------------------------------
(***************************************************************************)
(* The commands start with a steady sequence of steps.                     *)
(***************************************************************************)
LEMMA MigrateSteady ==
  ASSUME NEW names \in Seq(MigrationNames), NEW have,
         \A i \in DOMAIN names : \A name \in Needs(names[i]) :
           \E j \in 1..(i - 1) : names[j] = name
  PROVE  /\ Migrate(names) \in Seq(StepType)
         /\ CallFree(Migrate(names)) /\ Steady(Migrate(names), have)
<1> DEFINE selects == [i \in DOMAIN names |-> <<"select", names[i]>>]
           before == <<Step("create")>>
           after == <<Step("commit")>>
<1>1. Len(names) \in Nat /\ DOMAIN names = 1..Len(names)
      /\ \A i \in DOMAIN names : names[i] \in MigrationNames
  BY LenProperties, ElementOfSeq
<1>2. selects \in Seq(StepType) /\ DOMAIN selects = DOMAIN names
      /\ \A i \in DOMAIN names : selects[i] = <<"select", names[i]>>
  <2>1. \A i \in DOMAIN names : <<"select", names[i]>> \in StepType
    <3>1. "select" \in Operations
      BY DEF Operations
    <3>2. \A i \in DOMAIN names : names[i] \in Arguments
      BY <1>1, Zenon DEF Arguments
    <3> QED
      BY <3>1, <3>2, PairTyped
  <2>2. selects \in [1..Len(names) -> StepType]
    BY <1>1, <2>1
  <2> QED
    BY <1>1, <2>2
<1> HIDE DEF selects
<1>3. CallFree(selects) /\ Steady(selects, have)
  <2>1. \A i \in DOMAIN selects :
          selects[i][1] = "select" /\ selects[i][2] = names[i]
    BY <1>2
  <2>2. \A i \in DOMAIN selects : Migrates(selects[i]) /\ ~Calls(selects[i])
    BY <2>1 DEF Migrates, Calls, DoctorTakes, Probes
  <2>3. \A i \in DOMAIN selects : \A j \in 1..(i - 1) : j \in DOMAIN selects
    BY <1>1, <1>2
  <2> QED
    BY <1>2, <2>1, <2>2, <2>3 DEF CallFree, Steady
<1>4. Step("create") \in StepType /\ Step("commit") \in StepType
      /\ ~Calls(Step("create")) /\ ~Calls(Step("commit"))
      /\ ~Migrates(Step("create")) /\ ~Migrates(Step("commit"))
  BY StepTyped DEF Operations, Calls, DoctorTakes, Probes, Migrates
<1>5. before \in Seq(StepType) /\ CallFree(before) /\ MigrationFree(before)
      /\ after \in Seq(StepType) /\ CallFree(after) /\ MigrationFree(after)
  BY <1>4, OneStep
<1>6. Migrate(names) = before \o selects \o after
  BY DEF Migrate, selects
<1> HIDE DEF before, after
<1>7. Steady(before, have) /\ Steady(after, have)
  BY <1>5, FreeSteady
<1> DEFINE most == before \o selects
<1>8. most \in Seq(StepType) /\ CallFree(most) /\ Steady(most, have)
  BY <1>2, <1>3, <1>5, <1>7, ConcatFree, ConcatSteady
<1> HIDE DEF most
<1>9. most \o after \in Seq(StepType) /\ CallFree(most \o after)
      /\ Steady(most \o after, have)
  BY <1>5, <1>7, <1>8, ConcatFree, ConcatSteady
<1> QED
  BY <1>6, <1>9 DEF most

\* Both migrators have an order that respects the references.
LEMMA MigratorsSteady ==
  ASSUME NEW have
  PROVE  /\ Migrate(Migrations) \in Seq(StepType) /\ Steady(Migrate(Migrations), have)
         /\ SetupPilotState \in Seq(StepType) /\ CallFree(SetupPilotState)
         /\ Steady(SetupPilotState, have)
<1> DEFINE Ordered(names) ==
             \A i \in DOMAIN names : \A name \in Needs(names[i]) :
               \E j \in 1..(i - 1) : names[j] = name
<1>1. Migrations \in Seq(MigrationNames) /\ Ordered(Migrations)
  <2> DEFINE m == Migrations
  <2>1. m \in Seq(MigrationNames) /\ DOMAIN m = 1..6
    BY DEF Migrations, MigrationNames
  <2>2. /\ m[1] = "0000_initial" /\ m[2] = "0001_ordered_events"
        /\ m[3] = "0002_support_cases" /\ m[4] = "0003_support_case_cardinality"
        /\ m[5] = "0004_shadow_observations" /\ m[6] = "0005_fake_provider_test_schema"
    BY DEF Migrations
  <2> HIDE DEF m
  <2>3. /\ Needs(m[1]) = {} /\ Needs(m[2]) = {m[1]} /\ Needs(m[3]) = {m[1]}
        /\ Needs(m[4]) = {m[3]} /\ Needs(m[5]) = {m[1]} /\ Needs(m[6]) = {}
    BY <2>2 DEF Needs
  <2>4. Ordered(m)
    BY <2>1, <2>3
  <2> QED
    BY <2>1, <2>4 DEF m
<1>2. PublicMigrationNames \in Seq(MigrationNames) /\ Ordered(PublicMigrationNames)
  <2> DEFINE m == PublicMigrationNames
  <2>1. m \in Seq(MigrationNames) /\ DOMAIN m = 1..3
    BY DEF PublicMigrationNames, MigrationNames
  <2>2. /\ m[1] = "0000_initial" /\ m[2] = "0001_ordered_events"
        /\ m[3] = "0004_shadow_observations"
    BY DEF PublicMigrationNames
  <2> HIDE DEF m
  <2>3. Needs(m[1]) = {} /\ Needs(m[2]) = {m[1]} /\ Needs(m[3]) = {m[1]}
    BY <2>2 DEF Needs
  <2>4. Ordered(m)
    BY <2>1, <2>3
  <2> QED
    BY <2>1, <2>4 DEF m
<1>3. /\ Step("schema") \in StepType
      /\ ~Calls(Step("schema")) /\ ~Migrates(Step("schema"))
  BY StepTyped DEF Operations, Calls, DoctorTakes, Probes, Migrates
<1>4. /\ Migrate(Migrations) \in Seq(StepType) /\ Steady(Migrate(Migrations), have)
  BY <1>1, MigrateSteady
<1>5. /\ Migrate(PublicMigrationNames) \in Seq(StepType)
      /\ CallFree(Migrate(PublicMigrationNames))
      /\ Steady(Migrate(PublicMigrationNames), have)
  BY <1>2, MigrateSteady
<1>6. /\ <<Step("schema")>> \in Seq(StepType) /\ CallFree(<<Step("schema")>>)
      /\ MigrationFree(<<Step("schema")>>)
  BY <1>3, OneStep
<1> QED
  BY <1>4, <1>5, <1>6, ConcatFree, ConcatSteady, FreeSteady DEF SetupPilotState
\* A step that neither migrates nor catches.
Plain(step) == step \in StepType /\ ~Migrates(step) /\ ~Catches(step)

LEMMA PlainStep ==
  ASSUME NEW op \in Operations \ {"select", "run", "catch"}
  PROVE  /\ Plain(Step(op))
         /\ op \in {"truncate", "remove", "seed"} => ~Calls(Step(op))
BY StepTyped DEF Plain, Migrates, Catches, Calls, DoctorTakes, Probes

LEMMA ScenariosMigrationFree ==
  /\ Enforce \in Seq(StepType) /\ MigrationFree(Enforce)
  /\ RunDoctor \in Seq(StepType) /\ MigrationFree(RunDoctor)
  /\ <<Step("catch"), Step("surfaced")>> \in Seq(StepType)
  /\ MigrationFree(<<Step("catch"), Step("surfaced")>>)
  /\ \A a, b \in StepType : ~Migrates(a) /\ ~Migrates(b) =>
       <<a, a, b, b>> \in Seq(StepType) /\ MigrationFree(<<a, a, b, b>>)
<1>1. /\ Plain(Step("pending")) /\ Plain(Step("claim")) /\ Plain(Step("settle"))
      /\ Plain(Step("surfaced")) /\ Plain(Step("check")) /\ Plain(Step("clean"))
      /\ Plain(Step("judge"))
  BY PlainStep DEF Operations
<1>2. Step("catch") \in StepType /\ ~Migrates(Step("catch"))
  BY StepTyped DEF Operations, Migrates
<1>3. Enforce \in Seq(StepType) /\ MigrationFree(Enforce)
  BY <1>1 DEF Enforce, MigrationFree, Plain
<1>4. RunDoctor \in Seq(StepType) /\ MigrationFree(RunDoctor)
  BY <1>1, <1>2 DEF RunDoctor, MigrationFree, Plain
<1>5. /\ <<Step("catch"), Step("surfaced")>> \in Seq(StepType)
      /\ MigrationFree(<<Step("catch"), Step("surfaced")>>)
  BY <1>1, <1>2, TwoSteps DEF Plain
<1>6. \A a, b \in StepType : ~Migrates(a) /\ ~Migrates(b) =>
        <<a, a, b, b>> \in Seq(StepType) /\ MigrationFree(<<a, a, b, b>>)
  BY DEF MigrationFree
<1> QED
  BY <1>3, <1>4, <1>5, <1>6

\* The scenario of a validation with the fake provider, in either mode.
LEMMA FakeScenarioSteady ==
  ASSUME NEW have
  PROVE  RunFakePilotScenario \in Seq(StepType) /\ Steady(RunFakePilotScenario, have)
<1> DEFINE shadowed == <<Step("unsafe"), Step("unsafe"), Step("observe"), Step("observe")>>
           enforced == Enforce \o <<Step("catch"), Step("surfaced")>> \o Enforce
           scenario == IF config.mode = "shadow" THEN shadowed ELSE enforced
           seeded == SetupPilotState \o <<Step("seed")>>
           most == seeded \o scenario
<1>1. Plain(Step("seed")) /\ ~Calls(Step("seed")) /\ Plain(Step("summary")) /\ Plain(Step("unsafe"))
      /\ Plain(Step("observe"))
  BY PlainStep DEF Operations
<1>2. /\ <<Step("seed")>> \in Seq(StepType) /\ MigrationFree(<<Step("seed")>>)
      /\ CallFree(<<Step("seed")>>)
      /\ <<Step("summary")>> \in Seq(StepType) /\ MigrationFree(<<Step("summary")>>)
  BY <1>1, OneStep DEF Plain
<1>3. shadowed \in Seq(StepType) /\ MigrationFree(shadowed)
  BY <1>1, ScenariosMigrationFree DEF Plain
<1>4. enforced \in Seq(StepType) /\ MigrationFree(enforced)
  <2> DEFINE first == Enforce \o <<Step("catch"), Step("surfaced")>>
  <2>1. first \in Seq(StepType) /\ MigrationFree(first)
    BY ScenariosMigrationFree, ConcatFree
  <2> HIDE DEF first
  <2>2. first \o Enforce \in Seq(StepType) /\ MigrationFree(first \o Enforce)
    BY <2>1, ScenariosMigrationFree, ConcatFree
  <2> QED
    BY <2>2 DEF first
<1> HIDE DEF shadowed, enforced
<1>5. scenario \in Seq(StepType) /\ MigrationFree(scenario)
  BY <1>3, <1>4
<1>6. seeded \in Seq(StepType) /\ CallFree(seeded) /\ Steady(seeded, have)
  BY <1>2, MigratorsSteady, FreeSteady, ConcatFree, ConcatSteady
<1> HIDE DEF scenario, seeded
<1>7. most \in Seq(StepType) /\ Steady(most, have)
  BY <1>5, <1>6, FreeSteady, ConcatFree, ConcatSteady
<1>8. RunFakePilotScenario = most \o <<Step("summary")>>
  BY DEF RunFakePilotScenario, most, seeded, scenario, shadowed, enforced
<1> HIDE DEF most
<1>9. most \o <<Step("summary")>> \in Seq(StepType)
      /\ Steady(most \o <<Step("summary")>>, have)
  BY <1>2, <1>7, FreeSteady, ConcatFree, ConcatSteady
<1> QED
  BY <1>8, <1>9

LEMMA StripeScenarioSteady ==
  ASSUME NEW have
  PROVE  RunStripePilotScenario \in Seq(StepType) /\ Steady(RunStripePilotScenario, have)
<1> DEFINE calls == <<Step("intent"), Step("claim"), Step("claim"), Step("same")>>
<1>1. Plain(Step("intent")) /\ Plain(Step("claim")) /\ Plain(Step("same"))
  BY PlainStep DEF Operations
<1>2. calls \in Seq(StepType) /\ MigrationFree(calls)
  BY <1>1 DEF MigrationFree, Plain
<1>3. RunStripePilotScenario = SetupPilotState \o calls
  BY DEF RunStripePilotScenario
<1> HIDE DEF calls
<1> QED
  BY <1>2, <1>3, MigratorsSteady, FreeSteady, ConcatFree, ConcatSteady

LEMMA ResetSteady ==
  ASSUME NEW have
  PROVE  /\ ResetPilotState \in Seq(StepType) /\ CallFree(ResetPilotState)
         /\ Steady(ResetPilotState, have)
<1> DEFINE removals == <<Step("truncate"), Step("remove")>>
<1>1. /\ Plain(Step("truncate")) /\ ~Calls(Step("truncate"))
      /\ Plain(Step("remove")) /\ ~Calls(Step("remove"))
  BY PlainStep DEF Operations
<1>2. removals \in Seq(StepType) /\ MigrationFree(removals) /\ CallFree(removals)
  BY <1>1, TwoSteps DEF Plain
<1>3. ResetPilotState = SetupPilotState \o removals
  BY DEF ResetPilotState
<1> HIDE DEF removals
<1> QED
  BY <1>2, <1>3, MigratorsSteady, FreeSteady, ConcatFree, ConcatSteady

\* Whatever a process already has, its next command is steady.
LEMMA StepsSteady ==
  ASSUME NEW command \in Commands, NEW have
  PROVE  Steps(command) \in Seq(StepType) /\ Steady(Steps(command), have)
<1>1. CASE command = "migrate"
  BY <1>1, MigratorsSteady DEF Steps
<1>2. CASE command = "setup"
  BY <1>2, MigratorsSteady DEF Steps
<1>3. CASE command = "reset"
  BY <1>3, ResetSteady DEF Steps
<1>4. CASE command = "validate"
  <2> DEFINE scenario == IF config.provider = "fake" THEN RunFakePilotScenario
                         ELSE RunStripePilotScenario
  <2>1. scenario \in Seq(StepType) /\ Steady(scenario, have)
    BY FakeScenarioSteady, StripeScenarioSteady
  <2>2. Steps(command) = ResetPilotState \o scenario
    BY <1>4 DEF Steps
  <2> HIDE DEF scenario
  <2> QED
    BY <2>1, <2>2, ResetSteady, ConcatFree, ConcatSteady
<1>5. CASE command = "doctor"
  BY <1>5, ScenariosMigrationFree, FreeSteady DEF Steps
<1> QED
  BY <1>1, <1>2, <1>3, <1>4, <1>5 DEF Commands
-----------------------------------------------------------------------------
(***************************************************************************)
(* What the updates of a process do to its command and to what is left.    *)
(***************************************************************************)
Keeps(r, s) == Shaped(s) /\ s.command = r.command /\ s.todo = r.todo

\* s is the end of a command.
Closed(s) == Shaped(s) /\ s.command = "none" /\ s.todo = <<>>

LEMMA EndedCloses ==
  ASSUME NEW r, NEW exitCode
  PROVE  Closed(Ended(r, exitCode))
<1> DEFINE s == Ended(r, exitCode)
<1>1. /\ DOMAIN IdleProcess = Fields /\ IdleProcess.command = "none"
      /\ IdleProcess.todo = <<>> /\ IdleProcess.events = <<>>
  BY DEF IdleProcess, Fields
<1>2. DOMAIN s = Fields /\ s.command = "none" /\ s.todo = <<>> /\ s.events = <<>>
  BY <1>1 DEF Ended, Fields
<1> QED
  BY <1>2, EmptySeq DEF Closed, Shaped

LEMMA EmitKeeps ==
  ASSUME NEW r, Shaped(r), NEW names
  PROVE  Keeps(r, Emit(r, names))
BY DEF Keeps, Shaped, Emit

LEMMA ReturnedKeeps ==
  ASSUME NEW r, Shaped(r), NEW receipt
  PROVE  Keeps(r, Returned(r, receipt))
BY DEF Keeps, Shaped, Returned

LEMMA FirstPrepends ==
  ASSUME NEW r, Shaped(r), NEW steps \in Seq(StepType)
  PROVE  LET s == First(r, steps) IN
         Shaped(s) /\ s.command = r.command /\ s.todo = steps \o r.todo
<1>1. steps \o r.todo \in Seq(StepType)
  BY ConcatProperties DEF Shaped
<1> QED
  BY <1>1 DEF Shaped, First, Fields

LEMMA KeepsTransitive ==
  ASSUME NEW r, NEW s, NEW t, Keeps(r, s), Keeps(s, t)
  PROVE  Keeps(r, t)
BY DEF Keeps
LEMMA StorageErrorPrepends ==
  ASSUME NEW r, Shaped(r)
  PROVE  LET s == StorageError(r) IN
         Shaped(s) /\ s.command = r.command /\ s.todo = <<Step("throw")>> \o r.todo
<1>1. Keeps(r, Emit(r, <<"storage_error">>))
  BY EmitKeeps
<1>2. <<Step("throw")>> \in Seq(StepType)
  BY StepTyped, OneStep DEF Operations
<1> QED
  BY <1>1, <1>2, FirstPrepends DEF StorageError, Keeps

\* left is what follows a catch of todo.
Caught(todo, left) ==
  \E i \in DOMAIN todo : Catches(todo[i]) /\ left = SubSeq(todo, i + 1, Len(todo))

LEMMA ThrownUnwinds ==
  ASSUME NEW r, Shaped(r), NEW unknown
  PROVE  LET s == Thrown(r, unknown) IN
         \/ Shaped(s) /\ s.command = r.command /\ Caught(r.todo, s.todo)
         \/ Closed(s) /\ (r.command # "doctor" \/ CatchFree(r.todo))
<1> DEFINE s == Thrown(r, unknown)
<1>1. CASE (\E i \in DOMAIN r.todo : Catches(r.todo[i])) /\ (r.command = "doctor" \/ unknown)
  <2>1. r.todo \in Seq(StepType)
    BY DEF Shaped
  <2>2. PICK i \in DOMAIN r.todo :
          Catches(r.todo[i]) /\ AfterCatch(r.todo) = SubSeq(r.todo, i + 1, Len(r.todo))
    BY <1>1, <2>1, FirstCatch
  <2>3. AfterCatch(r.todo) \in Seq(StepType)
    <3>1. DOMAIN r.todo = 1..Len(r.todo) /\ Len(r.todo) \in Nat
      BY <2>1, LenProperties
    <3>2. \A j \in (i + 1)..Len(r.todo) : r.todo[j] \in StepType
      BY <2>1, <3>1, ElementOfSeq
    <3> QED
      BY <2>2, <3>1, <3>2, SubSeqProperties
  <2>4. s = [r EXCEPT !.todo = AfterCatch(r.todo), !.unknown = unknown,
                      !.ok = r.ok /\ unknown /\ r.call = 1]
    BY <1>1, Zenon DEF Thrown
  <2>5. Shaped(s) /\ s.command = r.command /\ s.todo = AfterCatch(r.todo)
    BY <2>3, <2>4 DEF Shaped, Fields
  <2> QED
    BY <2>2, <2>5 DEF Caught
<1>2. CASE ~((\E i \in DOMAIN r.todo : Catches(r.todo[i])) /\ (r.command = "doctor" \/ unknown))
  <2>1. s = Ended(r, 1)
    BY <1>2, Zenon DEF Thrown
  <2> QED
    BY <1>2, <2>1, EndedCloses DEF CatchFree
<1> QED
  BY <1>1, <1>2

-----------------------------------------------------------------------------
(***************************************************************************)
(* A process takes the head of what is left, and puts in its place nothing *)
(* or the steps of a call; it unwinds to a catch; a doctor gives up at its *)
(* first step; or its command ends, a doctor's only when it has nothing    *)
(* left, nothing catches, or is killed.                                    *)
(***************************************************************************)
Replaces(step, steps) ==
  \/ steps = <<>>
  \/ /\ ~DoctorTakes(step) /\ ~Migrates(step)
     /\ \A i \in DOMAIN steps : Plain(steps[i])
     /\ \/ step[1] \in {"observe", "classify"}
        \/ \A i \in DOMAIN steps : steps[i][1] = "await_create"
  \/ Probes(step) /\ \A i \in DOMAIN steps : Plain(steps[i]) /\ Probes(steps[i])

Advances(r, s) ==
  /\ Shaped(s) /\ s.command = r.command
  /\ r.todo # <<>> /\ ~Migrates(Head(r.todo)) /\ Head(r.todo)[1] # "clean"
  /\ \E steps \in Seq(StepType) :
       Replaces(Head(r.todo), steps) /\ s.todo = steps \o Tail(r.todo)

Unwinds(r, s) ==
  /\ Shaped(s) /\ s.command = r.command
  /\ r.todo # <<>> /\ Caught(Tail(r.todo), s.todo)
  /\ Probes(Head(r.todo)) \/ ~DoctorTakes(Head(r.todo))

Abandons(r, s) ==
  /\ Shaped(s) /\ s.command = r.command
  /\ r.todo # <<>> /\ Head(r.todo)[1] = "check" /\ s.todo = <<>>

Ends(r, s) ==
  /\ Closed(s)
  /\ \/ r.command # "doctor" \/ r.todo = <<>>
     \/ ~DoctorTakes(Head(r.todo))
     \/ Probes(Head(r.todo)) /\ CatchFree(Tail(r.todo))
     \/ leftover'

MovesOn(r, s) ==
  Keeps(r, s) \/ Advances(r, s) \/ Unwinds(r, s) \/ Abandons(r, s) \/ Ends(r, s)

Move(p) == \E s : Become(p, s) /\ MovesOn(proc[p], s)

LEMMA TakenStep ==
  ASSUME Shape, NEW p \in Processes, NEW op, At(p, op)
  PROVE  /\ Shaped(proc[p]) /\ proc[p].todo # <<>> /\ Head(proc[p].todo)[1] = op
         /\ Shaped(Done(p)) /\ Done(p).command = proc[p].command
         /\ Done(p).todo = Tail(proc[p].todo)
         /\ Keeps(Done(p), Called(p))
<1>1. Shaped(proc[p]) /\ proc[p].todo # <<>> /\ Head(proc[p].todo)[1] = op
  BY DEF Shape, At
<1>2. Tail(proc[p].todo) \in Seq(StepType)
  BY <1>1, HeadTailProperties DEF Shaped
<1>3. Shaped(Done(p)) /\ Done(p).command = proc[p].command
      /\ Done(p).todo = Tail(proc[p].todo)
  BY <1>1, <1>2 DEF Shaped, Done, Fields
<1>4. Keeps(Done(p), Called(p))
  BY <1>3 DEF Called, Keeps, Shaped, Fields
<1> QED
  BY <1>1, <1>3, <1>4

LEMMA Advance ==
  ASSUME Shape, NEW p \in Processes, NEW op, At(p, op), op \notin {"select", "run", "clean"},
         NEW s, Keeps(Done(p), s)
  PROVE  MovesOn(proc[p], s)
<1>1. s.todo = Tail(proc[p].todo) /\ Shaped(s) /\ s.command = proc[p].command
      /\ proc[p].todo # <<>> /\ Head(proc[p].todo)[1] = op
  BY TakenStep DEF Keeps
<1>2. <<>> \in Seq(StepType) /\ s.todo = <<>> \o Tail(proc[p].todo)
  BY <1>1, EmptySeq, ConcatEmptySeq DEF Shaped
<1> QED
  BY <1>1, <1>2 DEF MovesOn, Advances, Replaces, Migrates

\* What may take the place of a step.
Follows(op, step) ==
  CASE op \in {"observe", "classify"} -> TRUE
    [] op = "create" -> step[1] = "await_create"
    [] OTHER -> Probes(step)

\* A step of a call gives way to further steps of it.
LEMMA AdvanceInto ==
  ASSUME Shape, NEW p \in Processes, NEW op, At(p, op),
         op \in {"claim", "submit", "act", "reconcile", "record", "resolve", "create",
                 "observe", "classify"},
         NEW steps \in Seq(StepType),
         \A i \in DOMAIN steps : Plain(steps[i]) /\ Follows(op, steps[i]),
         NEW s, Shaped(s), s.command = proc[p].command,
         s.todo = steps \o Tail(proc[p].todo)
  PROVE  MovesOn(proc[p], s)
<1>1. proc[p].todo # <<>> /\ Head(proc[p].todo)[1] = op
  BY TakenStep
<1>2. ~Migrates(Head(proc[p].todo)) /\ op # "clean"
  BY <1>1 DEF Migrates
<1>3. Replaces(Head(proc[p].todo), steps)
  BY <1>1, <1>2 DEF Replaces, Follows, DoctorTakes, Probes
<1> QED
  BY <1>1, <1>2, <1>3 DEF MovesOn, Advances

LEMMA CallSteps ==
  /\ \A steps \in {<<Step("throw")>>, <<Step("submit"), Step("act")>>,
                   <<Step("throw_unknown")>>, <<Step("reconcile")>>} :
       /\ steps \in Seq(StepType)
       /\ \A i \in DOMAIN steps : Plain(steps[i]) /\ Probes(steps[i])
       /\ \A op \in {"claim", "submit", "act", "reconcile", "record", "resolve", "observe",
                  "classify"} :
            \A i \in DOMAIN steps : Follows(op, steps[i])
  /\ LET steps == <<Step("await_create")>> IN
     /\ steps \in Seq(StepType)
     /\ \A i \in DOMAIN steps : Plain(steps[i]) /\ Follows("create", steps[i])
  /\ LET steps == <<Step("classify")>> IN
     /\ steps \in Seq(StepType)
     /\ \A i \in DOMAIN steps : Plain(steps[i]) /\ Follows("observe", steps[i])
<1>1. \A op \in {"throw", "submit", "act", "throw_unknown", "reconcile"} :
        Plain(Step(op)) /\ Probes(Step(op))
  BY PlainStep, StepTyped DEF Operations, Probes
<1>2. /\ Plain(Step("await_create")) /\ Plain(Step("classify"))
      /\ Step("await_create")[1] = "await_create"
  BY PlainStep, StepTyped DEF Operations
<1>3. \A op \in {"throw", "throw_unknown", "reconcile", "await_create", "classify"} :
        <<Step(op)>> \in Seq(StepType) /\ DOMAIN <<Step(op)>> = {1} /\ <<Step(op)>>[1] = Step(op)
  BY <1>1, <1>2, OneStep DEF Plain
<1>4. LET t == <<Step("submit"), Step("act")>> IN
      t \in Seq(StepType) /\ DOMAIN t = {1, 2} /\ t[1] = Step("submit") /\ t[2] = Step("act")
  BY <1>1, TwoSteps DEF Plain
<1>5. \A steps \in {<<Step("throw")>>, <<Step("submit"), Step("act")>>,
                    <<Step("throw_unknown")>>, <<Step("reconcile")>>} :
        /\ steps \in Seq(StepType)
        /\ \A i \in DOMAIN steps : Plain(steps[i]) /\ Probes(steps[i])
  BY <1>1, <1>3, <1>4
<1>6. \A step : Probes(step) =>
        \A op \in {"claim", "submit", "act", "reconcile", "record", "resolve", "observe",
                  "classify"} : Follows(op, step)
  BY DEF Follows
<1>7. \A step : Follows("observe", step) /\ (step[1] = "await_create" => Follows("create", step))
  BY DEF Follows
<1> QED
  BY <1>2, <1>3, <1>5, <1>6, <1>7

\* A call in the middle: to further steps, to an error of the ledger, or to
\* what its errors unwind to.
LEMMA FirstMoves ==
  ASSUME Shape, NEW p \in Processes, NEW op, At(p, op),
         NEW t, Keeps(Done(p), t),
         NEW steps \in Seq(StepType),
         \A i \in DOMAIN steps : Plain(steps[i]) /\ Follows(op, steps[i]),
         op \in {"claim", "submit", "act", "reconcile", "record", "resolve", "create",
                 "observe", "classify"},
         NEW s, Keeps(First(t, steps), s)
  PROVE  MovesOn(proc[p], s)
<1>1. Shaped(t) /\ t.command = proc[p].command /\ t.todo = Tail(proc[p].todo)
  BY TakenStep DEF Keeps
<1>2. Shaped(s) /\ s.command = proc[p].command /\ s.todo = steps \o Tail(proc[p].todo)
  BY <1>1, FirstPrepends DEF Keeps
<1> QED
  BY <1>2, AdvanceInto

LEMMA ErrorMoves ==
  ASSUME Shape, NEW p \in Processes, NEW op, At(p, op),
         NEW t, Keeps(Done(p), t),
         op \in {"claim", "submit", "record", "resolve", "observe", "classify"}
  PROVE  MovesOn(proc[p], StorageError(t))
<1> DEFINE s == StorageError(t)
<1>1. Shaped(t) /\ t.command = proc[p].command /\ t.todo = Tail(proc[p].todo)
  BY TakenStep DEF Keeps
<1>2. Shaped(s) /\ s.command = proc[p].command
      /\ s.todo = <<Step("throw")>> \o Tail(proc[p].todo)
  BY <1>1, StorageErrorPrepends
<1>3. /\ <<Step("throw")>> \in Seq(StepType)
      /\ \A i \in DOMAIN <<Step("throw")>> :
           Plain(<<Step("throw")>>[i]) /\ Follows(op, <<Step("throw")>>[i])
  BY CallSteps
<1> HIDE DEF s
<1>4. MovesOn(proc[p], s)
  BY <1>2, <1>3, AdvanceInto
<1> QED
  BY <1>4 DEF s

LEMMA ThrownMoves ==
  ASSUME Shape, NEW p \in Processes, NEW op, At(p, op),
         NEW t, Keeps(Done(p), t), NEW unknown,
         op \in {"claim", "throw", "throw_unknown"}
           \/ op \in Statements \ (ClientCalls \cup {"check", "clean"})
  PROVE  MovesOn(proc[p], Thrown(t, unknown))
<1> DEFINE s == Thrown(t, unknown)
<1>1. /\ Shaped(t) /\ t.command = proc[p].command /\ t.todo = Tail(proc[p].todo)
      /\ proc[p].todo # <<>> /\ Head(proc[p].todo)[1] = op
  BY TakenStep DEF Keeps
<1>2. Probes(Head(proc[p].todo)) \/ ~DoctorTakes(Head(proc[p].todo))
  BY <1>1 DEF Probes, DoctorTakes, Statements, ClientCalls
<1>3. \/ Shaped(s) /\ s.command = t.command /\ Caught(t.todo, s.todo)
      \/ Closed(s) /\ (t.command # "doctor" \/ CatchFree(t.todo))
  BY <1>1, ThrownUnwinds
<1> HIDE DEF s
<1>4. Unwinds(proc[p], s) \/ Ends(proc[p], s)
  BY <1>1, <1>2, <1>3 DEF Unwinds, Ends
<1> QED
  BY <1>4 DEF MovesOn, s

\* What a lost statement is called does not matter.
LEMMA KeepsMoves ==
  ASSUME NEW r, NEW s, NEW t, MovesOn(r, s), Keeps(s, t)
  PROVE  MovesOn(r, t)
<1>1. Shaped(t) /\ t.command = s.command /\ t.todo = s.todo
  BY DEF Keeps
<1>2. CASE Keeps(r, s)
  BY <1>1, <1>2 DEF Keeps, MovesOn
<1>3. CASE Advances(r, s)
  BY <1>1, <1>3 DEF Advances, MovesOn
<1>4. CASE Unwinds(r, s)
  BY <1>1, <1>4 DEF Unwinds, MovesOn
<1>5. CASE Abandons(r, s)
  BY <1>1, <1>5 DEF Abandons, MovesOn
<1>6. CASE Ends(r, s)
  BY <1>1, <1>6 DEF Ends, Closed, MovesOn
<1> QED
  BY <1>2, <1>3, <1>4, <1>5, <1>6 DEF MovesOn

LEMMA LostKeeps ==
  ASSUME NEW s, Shaped(s)
  PROVE  Keeps(s, [s EXCEPT !.lost = TRUE])
BY DEF Keeps, Shaped, Fields

\* A statement that fails, other than a removal: an error of the ledger, a
\* failed check of a doctor, or an error that unwinds.
LEMMA LostMoves ==
  ASSUME Shape, NEW p \in Processes, NEW op \in Statements \ {"clean"}, At(p, op)
  PROVE  /\ MovesOn(proc[p], Lost(p))
         /\ \A have : Steady(proc[p].todo, have) => MigrationFree(Lost(p).todo)
<1> DEFINE r == proc[p]
           f == Failed(p)
<1>1. /\ Shaped(r) /\ r.todo # <<>> /\ r.todo \in Seq(StepType) /\ Head(r.todo)[1] = op
      /\ Shaped(Done(p)) /\ Done(p).command = r.command /\ Done(p).todo = Tail(r.todo)
      /\ Keeps(Done(p), Done(p))
  BY TakenStep DEF Shaped, Keeps
<1>2. SUFFICES /\ Shaped(f) /\ MovesOn(r, f)
               /\ \A have : Steady(r.todo, have) => MigrationFree(f.todo)
  <2> HIDE DEF f
  <2>1. ASSUME Shaped(f), MovesOn(r, f),
               \A have : Steady(r.todo, have) => MigrationFree(f.todo)
        PROVE  /\ MovesOn(r, Lost(p))
               /\ \A have : Steady(r.todo, have) => MigrationFree(Lost(p).todo)
    <3>1. Keeps(f, Lost(p))
      BY <2>1, LostKeeps DEF Lost, f
    <3>2. MovesOn(r, Lost(p))
      BY <2>1, <3>1, KeepsMoves
    <3> QED
      BY <2>1, <3>1, <3>2 DEF Keeps
  <2> QED
    BY <2>1
<1>3. CASE op \in ClientCalls
  <2> DEFINE t == IF op = "claim" THEN [Done(p) EXCEPT !.call = @ + 1] ELSE Done(p)
  <2>1. f = StorageError(t)
    BY <1>1, <1>3 DEF Failed, ClientCalls
  <2>2. Keeps(Done(p), t)
    BY <1>1 DEF Keeps, Shaped, Fields
  <2> HIDE DEF t
  <2>3. op \in {"claim", "submit", "record", "resolve", "observe", "classify"}
    BY <1>3 DEF ClientCalls
  <2>4. MovesOn(r, StorageError(t))
    BY <2>2, <2>3, ErrorMoves
  <2>5. /\ Shaped(StorageError(t))
        /\ StorageError(t).todo = <<Step("throw")>> \o Tail(r.todo)
    BY <1>1, <2>2, StorageErrorPrepends DEF Keeps
  <2>6. ASSUME NEW have, Steady(r.todo, have)
        PROVE  MigrationFree(<<Step("throw")>> \o Tail(r.todo))
    <3>1. Calls(Head(r.todo))
      BY <1>1, <1>3 DEF Calls, DoctorTakes, Probes, ClientCalls
    <3>2. Tail(r.todo) \in Seq(StepType) /\ MigrationFree(Tail(r.todo))
      BY <1>1, <2>6, <3>1, CalledFree
    <3>3. <<Step("throw")>> \in Seq(StepType) /\ MigrationFree(<<Step("throw")>>)
      BY CallSteps DEF MigrationFree, Plain
    <3> QED
      BY <3>2, <3>3, ConcatFree
  <2> QED
    BY <2>1, <2>4, <2>5, <2>6
<1>4. CASE op = "check"
  <2>1. f = [Done(p) EXCEPT !.ok = FALSE]
    BY <1>1, <1>4 DEF Failed, ClientCalls
  <2>2. Keeps(Done(p), f)
    BY <1>1, <2>1 DEF Keeps, Shaped, Fields
  <2> HIDE DEF f
  <2>3. MovesOn(r, f)
    BY <1>4, <2>2, Advance
  <2>4. ASSUME NEW have, Steady(r.todo, have)
        PROVE  MigrationFree(Tail(r.todo))
    <3>1. Calls(Head(r.todo))
      BY <1>1, <1>4 DEF Calls, DoctorTakes
    <3> QED
      BY <1>1, <2>4, <3>1, CalledFree
  <2> QED
    BY <1>1, <2>2, <2>3, <2>4 DEF Keeps
<1>5. CASE op \notin ClientCalls \cup {"check"}
  <2>1. f = Thrown(Done(p), FALSE)
    BY <1>1, <1>5 DEF Failed, ClientCalls
  <2>2. MovesOn(r, Thrown(Done(p), FALSE))
    BY <1>1, <1>5, ThrownMoves
  <2>3. \/ Shaped(f) /\ f.command = r.command /\ Caught(Tail(r.todo), f.todo)
        \/ Closed(f)
    BY <1>1, <2>1, ThrownUnwinds
  <2> HIDE DEF f
  <2>4. Shaped(f)
    BY <2>3 DEF Closed
  <2>5. ASSUME NEW have, Steady(r.todo, have)
        PROVE  MigrationFree(f.todo)
    <3>1. CASE Closed(f)
      BY <3>1 DEF Closed, MigrationFree
    <3>2. CASE Caught(Tail(r.todo), f.todo)
      <4> DEFINE t == Tail(r.todo)
      <4>1. t \in Seq(StepType) /\ Steady(t, have \cup {Head(r.todo)[2]})
        BY <1>1, <2>5, TailSteady
      <4>2. PICK i \in DOMAIN t : Catches(t[i]) /\ f.todo = SubSeq(t, i + 1, Len(t))
        BY <3>2 DEF Caught
      <4> HIDE DEF t
      <4> QED
        BY <4>1, <4>2, CaughtSteady
    <3> QED
      BY <2>3, <3>1, <3>2
  <2> QED
    BY <2>1, <2>2, <2>4, <2>5
<1> QED
  BY <1>3, <1>4, <1>5

\* The steps of a command that change neither what it works on nor its call.
LEMMA CommandMoves ==
  ASSUME Shape, NEW p \in Processes,
         \/ Catch(p) \/ Finish(p) \/ CreateBookkeeping(p) \/ AwaitCreate(p)
         \/ CommitMigrations(p) \/ EnsurePilotSchema(p) \/ AppendRecord(p) \/ AppendFails(p)
         \/ Summary(p) \/ Truncate(p) \/ RemoveFile(p) \/ SeedPilotCase(p)
         \/ MarkPending(p) \/ SettleCase(p) \/ CheckSurfaced(p) \/ PrepareIntent(p)
         \/ CheckSameReceipt(p) \/ DoctorChecksSchema(p) \/ JudgeProbe(p) \/ Crash(p)
  PROVE  Move(p)
<1> DEFINE r == proc[p]
<1>r. Shaped(r)
  BY DEF Shape
<1>1. ASSUME NEW op, At(p, op), op \notin {"select", "run", "clean"}, Become(p, Done(p))
      PROVE  Move(p)
  BY <1>1, TakenStep, Advance DEF Move, Keeps
<1>2. ASSUME NEW exitCode, Become(p, Ended(r, exitCode)),
             \/ r.command # "doctor" \/ r.todo = <<>> \/ ~DoctorTakes(Head(r.todo))
             \/ leftover'
      PROVE  Move(p)
  BY <1>2, EndedCloses DEF Move, MovesOn, Ends
<1>3. CASE Catch(p) \/ RemoveFile(p)
  BY <1>1, <1>3 DEF Catch, RemoveFile
<1>a. CASE CommitMigrations(p) \/ EnsurePilotSchema(p) \/ Truncate(p) \/ SeedPilotCase(p)
           \/ MarkPending(p) \/ SettleCase(p)
  <2>1. PICK op \in {"commit", "schema", "truncate", "seed", "pending", "settle"} :
          At(p, op) /\ Answered(p, Done(p))
    BY <1>a DEF CommitMigrations, EnsurePilotSchema, Truncate, SeedPilotCase, MarkPending,
                SettleCase
  <2>2. MovesOn(r, Lost(p))
    BY <2>1, LostMoves DEF Statements
  <2> QED
    BY <1>1, <2>1, <2>2 DEF Answered, Move
<1>4. CASE Finish(p)
  BY <1>2, <1>4 DEF Finish
<1>5. CASE CreateBookkeeping(p)
  <2>1. At(p, "create")
    BY <1>5 DEF CreateBookkeeping
  <2>2. CASE Become(p, Done(p))
    BY <1>1, <2>1, <2>2
  <2>3. CASE Become(p, First(Done(p), <<Step("await_create")>>))
    <3> DEFINE s == First(Done(p), <<Step("await_create")>>)
    <3>1. Shaped(s) /\ s.command = r.command /\ s.todo = <<Step("await_create")>> \o Tail(r.todo)
      <4>1. Shaped(Done(p)) /\ Done(p).command = r.command /\ Done(p).todo = Tail(r.todo)
        BY <2>1, TakenStep
      <4>2. <<Step("await_create")>> \in Seq(StepType)
        BY CallSteps
      <4> QED
        BY <4>1, <4>2, FirstPrepends
    <3> HIDE DEF s
    <3>2. MovesOn(r, s)
      BY <2>1, <3>1, AdvanceInto, CallSteps
    <3> QED
      BY <2>3, <3>2 DEF Move, s
  <2> QED
    BY <1>5, <2>2, <2>3 DEF CreateBookkeeping
<1>6. CASE AwaitCreate(p)
  <2>1. At(p, "await_create")
    BY <1>6 DEF AwaitCreate
  <2>2. ~DoctorTakes(Head(r.todo))
    BY <2>1, TakenStep DEF DoctorTakes, Probes
  <2>3. Become(p, Done(p)) \/ Become(p, Ended(r, 1))
    BY <1>6 DEF AwaitCreate, Rollback
  <2> QED
    BY <1>1, <1>2, <2>1, <2>2, <2>3
<1>7. CASE AppendRecord(p) \/ AppendFails(p)
  <2>1. PICK s : Become(p, s) /\ (s = [r EXCEPT !.events = Tail(@)]
                                  \/ s = [r EXCEPT !.events = <<>>, !.rejected = TRUE])
    BY <1>7, Zenon DEF AppendRecord, AppendFails
  <2>2. r.command = "validate"
    BY <1>r, <1>7 DEF AppendRecord, AppendFails, Shaped
  <2>3. Keeps(r, s)
    BY <1>r, <2>1, <2>2 DEF Keeps, Shaped, Fields
  <2> QED
    BY <2>1, <2>3 DEF Move, MovesOn
<1>8. CASE Summary(p)
  <2>1. At(p, "summary")
    BY <1>8 DEF Summary
  <2>2. ~DoctorTakes(Head(r.todo))
    BY <2>1, TakenStep DEF DoctorTakes, Probes
  <2>3. Become(p, Ended(r, 0)) \/ Become(p, Ended(r, 1))
    BY <1>8 DEF Summary
  <2> QED
    BY <1>2, <2>2, <2>3
<1>9. CASE CheckSurfaced(p)
  <2>1. At(p, "surfaced")
    BY <1>9 DEF CheckSurfaced
  <2>2. \/ Become(p, Done(p)) \/ Become(p, [Done(p) EXCEPT !.ok = FALSE])
        \/ r.command # "doctor" /\ Become(p, Ended(r, 1))
    BY <1>9 DEF CheckSurfaced
  <2>3. Keeps(Done(p), [Done(p) EXCEPT !.ok = FALSE])
    BY <2>1, TakenStep DEF Keeps, Shaped, Fields
  <2>4. MovesOn(r, [Done(p) EXCEPT !.ok = FALSE])
    BY <2>1, <2>3, Advance
  <2> QED
    BY <1>1, <1>2, <2>1, <2>2, <2>4 DEF Move
<1>10. CASE PrepareIntent(p) \/ CheckSameReceipt(p)
  <2>1. PICK op \in {"intent", "same"} : At(p, op)
    BY <1>10 DEF PrepareIntent, CheckSameReceipt
  <2>2. ~DoctorTakes(Head(r.todo))
    BY <2>1, TakenStep DEF DoctorTakes, Probes
  <2>3. Become(p, Done(p)) \/ Become(p, Ended(r, 0)) \/ Become(p, Ended(r, 1))
    BY <1>10 DEF PrepareIntent, CheckSameReceipt
  <2> QED
    BY <1>1, <1>2, <2>1, <2>2, <2>3
<1>11. CASE DoctorChecksSchema(p) \/ JudgeProbe(p)
  <2>1. PICK op \in {"check", "judge"} : At(p, op)
    BY <1>11 DEF DoctorChecksSchema, JudgeProbe
  <2>2. \/ \E ok : Become(p, [Done(p) EXCEPT !.ok = ok])
        \/ op = "check" /\ Become(p, [Lost(p) EXCEPT !.todo = <<>>])
    <3>1. CASE DoctorChecksSchema(p)
      BY <2>1, <3>1, Zenon DEF DoctorChecksSchema, At
    <3>2. CASE JudgeProbe(p)
      BY <3>2, Zenon DEF JudgeProbe
    <3> QED
      BY <1>11, <3>1, <3>2
  <2>3. ASSUME NEW ok
        PROVE  MovesOn(r, [Done(p) EXCEPT !.ok = ok])
    <3>1. Keeps(Done(p), [Done(p) EXCEPT !.ok = ok])
      BY <2>1, TakenStep DEF Keeps, Shaped, Fields
    <3> QED
      BY <2>1, <3>1, Advance
  <2>4. op = "check" => MovesOn(r, [Lost(p) EXCEPT !.todo = <<>>])
    <3> DEFINE s == [Lost(p) EXCEPT !.todo = <<>>]
    <3>1. op = "check" => Lost(p) = [[Done(p) EXCEPT !.ok = FALSE] EXCEPT !.lost = TRUE]
      <4>1. Head(r.todo)[1] = op
        BY <2>1, TakenStep
      <4>2. op = "check" => Failed(p) = [Done(p) EXCEPT !.ok = FALSE]
        BY <4>1 DEF Failed, ClientCalls
      <4> QED
        BY <4>2, Zenon DEF Lost
    <3>2. op = "check" => Shaped(s) /\ s.command = r.command /\ s.todo = <<>>
      BY <2>1, <3>1, TakenStep, EmptySeq DEF Shaped, Fields
    <3> HIDE DEF s
    <3>3. op = "check" => Abandons(r, s)
      BY <2>1, <3>2, TakenStep DEF Abandons
    <3> QED
      BY <3>3 DEF MovesOn, s
  <2> QED
    BY <2>2, <2>3, <2>4 DEF Move
<1>12. CASE Crash(p)
  BY <1>2, <1>12 DEF Crash
<1> QED
  BY <1>3, <1>a, <1>4, <1>5, <1>6, <1>7, <1>8, <1>9, <1>10, <1>11, <1>12

\* The provider answered: the ledger is told next.
LEMMA OutcomeMoves ==
  ASSUME Shape, NEW p \in Processes, NEW op \in {"act", "reconcile"}, At(p, op),
         NEW told \in {"record", "resolve"}, NEW status \in Outcomes
  PROVE  /\ Shaped(Outcome(p, told, status))
         /\ \A s : Keeps(Outcome(p, told, status), s) => MovesOn(proc[p], s)
<1> DEFINE names == IF status = "NEEDS_REVIEW" THEN <<"needs_review">> ELSE <<>>
           t == Emit(Done(p), names)
           steps == <<<<told, status>>>>
<1>1. Shaped(Done(p)) /\ Keeps(Done(p), t)
  BY TakenStep, EmitKeeps
<1>2. <<told, status>> \in StepType /\ Plain(<<told, status>>) /\ Probes(<<told, status>>)
  <2>1. told \in Operations
    BY DEF Operations
  <2>2. status \in Arguments
    BY Zenon DEF Arguments
  <2> QED
    BY <2>1, <2>2, PairTyped DEF Plain, Probes, Migrates, Catches
<1>3. /\ steps \in Seq(StepType)
      /\ \A i \in DOMAIN steps : Plain(steps[i]) /\ Follows(op, steps[i])
  BY <1>2, OneStep DEF Follows
<1>4. Outcome(p, told, status) = First(t, steps)
  BY DEF Outcome
<1> HIDE DEF t, steps
<1>5. Shaped(First(t, steps))
  BY <1>1, <1>3, FirstPrepends DEF Keeps
<1>6. ASSUME NEW s, Keeps(First(t, steps), s)
      PROVE  MovesOn(proc[p], s)
  BY <1>1, <1>3, <1>6, FirstMoves
<1> QED
  BY <1>4, <1>5, <1>6

\* The ledger was told.
LEMMA RecordedMoves ==
  ASSUME Shape, NEW p \in Processes, NEW op \in {"record", "resolve"}, At(p, op), NEW status
  PROVE  MovesOn(proc[p], Recorded(p, op, status))
<1> DEFINE s == Recorded(p, op, status)
<1>1. Shaped(Done(p)) /\ Keeps(Done(p), Done(p))
  BY TakenStep DEF Keeps
<1>2. CASE status # "UNKNOWN"
  <2>1. PICK receipt, names : s = Emit(Returned(Done(p), receipt), names)
    <3>1. s = Emit(Returned(Done(p), [operation |-> proc[p].operation, status |-> status]),
                   IF op = "resolve" /\ status = "CONFIRMED"
                   THEN <<"successful_reconciliation">> ELSE <<>>)
      BY <1>2 DEF Recorded
    <3> QED
      BY <3>1, Zenon
  <2>2. Keeps(Done(p), Returned(Done(p), receipt))
    BY <1>1, ReturnedKeeps
  <2>3. Keeps(Returned(Done(p), receipt), s)
    BY <2>1, <2>2, EmitKeeps DEF Keeps
  <2> QED
    BY <2>2, <2>3, KeepsTransitive, Advance
<1>3. CASE status = "UNKNOWN"
  <2> DEFINE t == Emit(Done(p), <<"unknown_outcome">>)
  <2>1. s = First(t, <<Step("throw_unknown")>>) \/ s = First(Done(p), <<Step("throw")>>)
    BY <1>3 DEF Recorded
  <2>2. Keeps(Done(p), t)
    BY <1>1, EmitKeeps
  <2> HIDE DEF t, s
  <2>3. PICK u : \E steps \in {<<Step("throw_unknown")>>, <<Step("throw")>>} :
          Keeps(Done(p), u) /\ s = First(u, steps)
    BY <1>1, <2>1, <2>2
  <2>4. PICK steps \in {<<Step("throw_unknown")>>, <<Step("throw")>>} :
          Keeps(Done(p), u) /\ s = First(u, steps)
    BY <2>3
  <2>5. /\ steps \in Seq(StepType)
        /\ \A i \in DOMAIN steps : Plain(steps[i]) /\ Follows(op, steps[i])
    BY <2>4, CallSteps
  <2>6. Shaped(s)
    BY <2>4, <2>5, FirstPrepends DEF Keeps
  <2>7. Keeps(First(u, steps), s)
    BY <2>4, <2>6 DEF Keeps
  <2> QED
    BY <2>4, <2>5, <2>7, FirstMoves DEF s
<1> QED
  BY <1>2, <1>3

\* The steps of the calls: execute() and observe().
LEMMA CallMoves ==
  ASSUME Shape, NEW p \in Processes,
         \/ Throw(p) \/ ThrowUnknown(p)
         \/ ClaimNew(p) \/ ClaimTerminal(p) \/ ClaimTaken(p) \/ ClaimWaitTimesOut(p)
         \/ MarkSubmitted(p) \/ ActOnFake(p) \/ ActOnStripe(p) \/ Reconcile(p)
         \/ RecordOutcome(p)
         \/ RunUnsafeRefund(p) \/ Observe(p) \/ FinalizeObservation(p)
  PROVE  Move(p)
<1>1. ASSUME NEW op, At(p, op)
      PROVE  Keeps(Done(p), Done(p)) /\ Shaped(Done(p)) /\ Shaped(Called(p))
             /\ Keeps(Done(p), Called(p))
  BY <1>1, TakenStep DEF Keeps
<1>0. ASSUME NEW op \in Statements \ {"clean"}, At(p, op), NEW s, MovesOn(proc[p], s),
             Answered(p, s)
      PROVE  Move(p)
  BY <1>0, LostMoves DEF Answered, Move
<1>2. CASE Throw(p) \/ ThrowUnknown(p)
  <2>1. PICK op \in {"throw", "throw_unknown"}, unknown \in BOOLEAN :
          At(p, op) /\ Become(p, Thrown(Done(p), unknown))
    BY <1>2 DEF Throw, ThrowUnknown
  <2>2. MovesOn(proc[p], Thrown(Done(p), unknown))
    BY <1>1, <2>1, ThrownMoves
  <2> QED
    BY <2>1, <2>2 DEF Move
<1>3. CASE ClaimNew(p)
  <2> DEFINE f == First(Called(p), <<Step("submit"), Step("act")>>)
             g == [f EXCEPT !.operation = nextId]
             s == Emit(g, <<"guarded_operation">>)
  <2>1. At(p, "claim") /\ Answered(p, s)
    BY <1>3 DEF ClaimNew
  <2>2. Keeps(f, s)
    <3>1. Shaped(f)
      BY <1>1, <2>1, FirstPrepends, CallSteps
    <3>2. Keeps(f, g)
      BY <3>1 DEF Keeps, Shaped, Fields
    <3>3. Keeps(g, s)
      BY <3>2, EmitKeeps DEF Keeps
    <3> QED
      BY <3>2, <3>3, KeepsTransitive
  <2> HIDE DEF s
  <2>3. MovesOn(proc[p], s)
    BY <1>1, <2>1, <2>2, FirstMoves, CallSteps
  <2> QED
    BY <1>0, <2>1, <2>3 DEF Statements, ClientCalls
<1>4. CASE ClaimTerminal(p)
  <2> DEFINE f == Returned(Called(p), Receipt(Row(p)))
             s == Emit(f, Suppressed)
  <2>1. At(p, "claim") /\ Become(p, s)
    BY <1>4 DEF ClaimTerminal
  <2>2. Keeps(Called(p), f)
    BY <1>1, <2>1, ReturnedKeeps
  <2>3. Keeps(f, s)
    BY <2>2, EmitKeeps DEF Keeps
  <2> HIDE DEF f, s
  <2>4. Keeps(Done(p), s)
    BY <1>1, <2>1, <2>2, <2>3, KeepsTransitive
  <2>5. MovesOn(proc[p], s)
    BY <2>1, <2>4, Advance
  <2> QED
    BY <2>1, <2>5 DEF Move
<1>5. CASE ClaimTaken(p)
  <2> DEFINE t == [Called(p) EXCEPT !.operation = Row(p).id]
  <2>1. At(p, "claim")
    BY <1>5 DEF ClaimTaken
  <2>2. PICK steps \in {<<Step("submit"), Step("act")>>, <<Step("reconcile")>>},
             names \in {<<"guarded_operation">>, Suppressed} :
          Answered(p, Emit(First(t, steps), names))
    BY <1>5, Zenon DEF ClaimTaken
  <2>3. Keeps(Called(p), t)
    BY <1>1, <2>1 DEF Keeps, Shaped, Fields
  <2> HIDE DEF t
  <2>4. Keeps(Done(p), t) /\ Shaped(t)
    BY <1>1, <2>1, <2>3, KeepsTransitive DEF Keeps
  <2>5. Shaped(First(t, steps))
    BY <2>2, <2>4, FirstPrepends, CallSteps
  <2>6. Keeps(First(t, steps), Emit(First(t, steps), names))
    BY <2>5, EmitKeeps
  <2>7. MovesOn(proc[p], Emit(First(t, steps), names))
    BY <2>1, <2>2, <2>4, <2>6, FirstMoves, CallSteps
  <2> QED
    BY <1>0, <2>1, <2>2, <2>7 DEF Statements, ClientCalls
<1>6. CASE ClaimWaitTimesOut(p)
  <2>1. At(p, "claim") /\ Become(p, Thrown(Called(p), FALSE))
    BY <1>6 DEF ClaimWaitTimesOut
  <2>2. \A unknown : MovesOn(proc[p], Thrown(Called(p), unknown))
    BY <1>1, <2>1, ThrownMoves
  <2> QED
    BY <2>1, <2>2 DEF Move
<1>7. CASE MarkSubmitted(p)
  <2>1. At(p, "submit") /\ (Answered(p, Done(p)) \/ Become(p, StorageError(Done(p))))
    BY <1>7 DEF MarkSubmitted
  <2>2. MovesOn(proc[p], Done(p)) /\ MovesOn(proc[p], StorageError(Done(p)))
    BY <1>1, <2>1, Advance, ErrorMoves
  <2> QED
    BY <1>0, <2>1, <2>2 DEF Move, Statements, ClientCalls
<1>8. CASE ActOnFake(p)
  <2> DEFINE f == Outcome(p, "record", "UNKNOWN")
             s == [f EXCEPT !.refunds = Append(@, proc[p].operation)]
  <2>1. At(p, "act") /\ Become(p, s)
    BY <1>8, Zenon DEF ActOnFake
  <2>2. Shaped(f) /\ \A t : Keeps(f, t) => MovesOn(proc[p], t)
    BY <2>1, OutcomeMoves DEF Outcomes
  <2> HIDE DEF f
  <2>3. Keeps(f, s)
    BY <2>2 DEF Keeps, Shaped, Fields
  <2> QED
    BY <2>1, <2>2, <2>3 DEF Move
<1>9. CASE ActOnStripe(p)
  <2>1. PICK status \in Outcomes : Become(p, Outcome(p, "record", status))
    BY <1>9, Zenon DEF ActOnStripe, Outcomes
  <2>2. At(p, "act")
    BY <1>9 DEF ActOnStripe
  <2> QED
    BY <2>1, <2>2, OutcomeMoves DEF Move, Keeps
<1>10. CASE Reconcile(p)
  <2>1. PICK status \in (IF Matches(p) = 1 THEN {"CONFIRMED"} ELSE {"NEEDS_REVIEW"})
                        \cup (IF Faked(p) THEN {} ELSE {"NEEDS_REVIEW", "UNKNOWN"}) :
          Become(p, Outcome(p, "resolve", status))
    BY <1>10, Zenon DEF Reconcile
  <2>2. At(p, "reconcile") /\ status \in Outcomes
    BY <1>10 DEF Reconcile, Outcomes
  <2> QED
    BY <2>1, <2>2, OutcomeMoves DEF Move, Keeps
<1>b. CASE RecordOutcome(p)
  <2>1. PICK op \in {"record", "resolve"} :
          /\ At(p, op)
          /\ Answered(p, Recorded(p, op, Argument(p))) \/ Become(p, StorageError(Done(p)))
    BY <1>b DEF RecordOutcome
  <2>2. MovesOn(proc[p], Recorded(p, op, Argument(p)))
    BY <2>1, RecordedMoves
  <2>3. MovesOn(proc[p], StorageError(Done(p)))
    BY <1>1, <2>1, ErrorMoves
  <2> QED
    BY <1>0, <2>1, <2>2, <2>3 DEF Move, Statements, ClientCalls
<1>11. CASE RunUnsafeRefund(p)
  <2> DEFINE s == [Called(p) EXCEPT !.refunds = Append(@, 0)]
  <2>1. At(p, "unsafe") /\ Become(p, s)
    BY <1>11 DEF RunUnsafeRefund
  <2>2. Keeps(Called(p), s)
    BY <1>1, <2>1 DEF Keeps, Shaped, Fields
  <2> HIDE DEF s
  <2>3. MovesOn(proc[p], s)
    BY <1>1, <2>1, <2>2, KeepsTransitive, Advance
  <2> QED
    BY <2>1, <2>3 DEF Move
<1>12. CASE Observe(p)
  <2> DEFINE steps == <<Step("classify")>>
             f == First(Done(p), steps)
  <2>1. At(p, "observe")
    BY <1>12 DEF Observe
  <2>2. PICK id, names : Answered(p, Emit([f EXCEPT !.operation = id], names))
    BY <1>12, Zenon DEF Observe
  <2> DEFINE g == [f EXCEPT !.operation = id]
             s == Emit(g, names)
  <2>3. /\ steps \in Seq(StepType)
        /\ \A i \in DOMAIN steps : Plain(steps[i]) /\ Follows("observe", steps[i])
    BY CallSteps
  <2>4. Shaped(f)
    BY <1>1, <2>1, <2>3, FirstPrepends
  <2>5. Keeps(f, g)
    BY <2>4 DEF Keeps, Shaped, Fields
  <2>6. Keeps(g, s)
    BY <2>5, EmitKeeps DEF Keeps
  <2>7. Keeps(f, s)
    BY <2>5, <2>6, KeepsTransitive
  <2> HIDE DEF s
  <2> HIDE DEF f, steps
  <2>8. MovesOn(proc[p], s)
    BY <1>1, <2>1, <2>3, <2>7, FirstMoves DEF f
  <2> QED
    BY <1>0, <2>1, <2>2, <2>8 DEF Statements, ClientCalls, s
<1>13. CASE FinalizeObservation(p)
  <2>1. /\ At(p, "classify")
        /\ Answered(p, Done(p)) \/ Become(p, StorageError(Done(p)))
    BY <1>13 DEF FinalizeObservation
  <2>2. MovesOn(proc[p], Done(p)) /\ MovesOn(proc[p], StorageError(Done(p)))
    BY <1>1, <2>1, Advance, ErrorMoves
  <2> QED
    BY <1>0, <2>1, <2>2 DEF Move, Statements, ClientCalls
<1> QED
  BY <1>2, <1>3, <1>4, <1>5, <1>6, <1>7, <1>8, <1>9, <1>10, <1>b, <1>11, <1>12, <1>13
-----------------------------------------------------------------------------
(***************************************************************************)
(* What a step does to the schema: nothing that the migrations are about,  *)
(* or it records what the transaction of the process ran, or rolls it back *)
(* when nothing is left to migrate.                                        *)
(***************************************************************************)
KeepsSchema ==
  /\ DOMAIN db' = DOMAIN db /\ db'.recorded = db.recorded /\ db'.objects = db.objects
  /\ DOMAIN txn' = Processes
  /\ \A q \in Processes : DOMAIN txn'[q] = {"created", "ran"} /\ txn'[q].ran = txn[q].ran

Records(p) ==
  /\ DOMAIN db' = DOMAIN db
  /\ db'.recorded = db.recorded \cup txn[p].ran /\ db'.objects = db.objects \cup txn[p].ran
  /\ txn' = [txn EXCEPT ![p] = NoTransaction]

RollsBack(p) ==
  db' = db /\ txn' = [txn EXCEPT ![p] = NoTransaction] /\ MigrationFree(proc'[p].todo)

\* What a step does to the row of the probe: nothing, it removes it, or it
\* is a step of the call of a doctor.
Probed(p) ==
  /\ DOMAIN ledger' = {"pilot", "doctor"}
  /\ \/ ledger'["doctor"] = ledger["doctor"] \/ ledger'["doctor"] = Absent
     \/ /\ proc[p].command = "doctor" /\ proc[p].todo # <<>>
        /\ Probes(Head(proc[p].todo))

\* Whether a doctor was cut off is forgotten when its rows are gone.
Remembers ==
  leftover' \in BOOLEAN /\ (leftover => leftover' \/ ledger'["doctor"] = Absent)

Effects(p) ==
  /\ Move(p)
  /\ KeepsSchema \/ Records(p) \/ RollsBack(p)
  /\ Probed(p) /\ Remembers

LEMMA Unchanged ==
  ASSUME Shape, UNCHANGED dbVars
  PROVE  KeepsSchema
BY DEF Shape, dbVars, KeepsSchema

LEMMA CommandEffects ==
  ASSUME Shape, NEW p \in Processes,
         \/ Catch(p) \/ Finish(p) \/ CreateBookkeeping(p) \/ AwaitCreate(p)
         \/ CommitMigrations(p) \/ EnsurePilotSchema(p) \/ AppendRecord(p) \/ AppendFails(p)
         \/ Summary(p) \/ Truncate(p) \/ RemoveFile(p) \/ SeedPilotCase(p)
         \/ MarkPending(p) \/ SettleCase(p) \/ CheckSurfaced(p) \/ PrepareIntent(p)
         \/ CheckSameReceipt(p) \/ DoctorChecksSchema(p) \/ JudgeProbe(p) \/ Crash(p)
  PROVE  Effects(p)
<1>1. Move(p)
  BY CommandMoves
<1>2. Probed(p) /\ Remembers
  <2>1. CASE Truncate(p)
    BY <2>1 DEF Truncate, Probed, Remembers, Shape
  <2>2. CASE Crash(p)
    <3>1. ledger' = ledger /\ leftover' = (leftover \/ proc[p].command = "doctor")
      BY <2>2 DEF Crash
    <3> QED
      BY <3>1 DEF Probed, Remembers, Shape
  <2>3. CASE ~Truncate(p) /\ ~Crash(p)
    <3>1. ledger' = ledger /\ leftover' = leftover
      BY <2>3 DEF Catch, Finish, CreateBookkeeping, AwaitCreate, CommitMigrations,
                  EnsurePilotSchema, AppendRecord, AppendFails, Summary, RemoveFile,
                  SeedPilotCase, MarkPending, SettleCase, CheckSurfaced, PrepareIntent,
                  CheckSameReceipt, DoctorChecksSchema, JudgeProbe, ledgerVars
    <3> QED
      BY <3>1 DEF Probed, Remembers, Shape
  <2> QED
    BY <2>1, <2>2, <2>3
<1>3. KeepsSchema \/ Records(p) \/ RollsBack(p)
  <2>1. CASE CreateBookkeeping(p)
    <3>1. UNCHANGED dbVars \/ (txn' = [txn EXCEPT ![p].created = TRUE] /\ db' = db)
      BY <2>1 DEF CreateBookkeeping, dbVars
    <3> QED
      BY <3>1, Unchanged DEF KeepsSchema, Shape
  <2>2. CASE AwaitCreate(p)
    <3>1. Rollback(p) \/ (txn' = [txn EXCEPT ![p].created = TRUE] /\ db' = db)
      BY <2>2 DEF AwaitCreate
    <3>2. Rollback(p) => RollsBack(p)
      BY EndedCloses DEF Rollback, RollsBack, Become, Closed, MigrationFree, Shape
    <3> QED
      BY <3>1, <3>2 DEF KeepsSchema, Shape
  <2>3. CASE CommitMigrations(p)
    BY <2>3 DEF CommitMigrations, Records, Shape
  <2>4. CASE EnsurePilotSchema(p)
    BY <2>4 DEF EnsurePilotSchema, KeepsSchema, Shape
  <2>5. CASE Crash(p)
    BY <2>5, EndedCloses DEF Crash, RollsBack, Become, Closed, MigrationFree, Shape
  <2>6. CASE ~CreateBookkeeping(p) /\ ~AwaitCreate(p) /\ ~CommitMigrations(p)
             /\ ~EnsurePilotSchema(p) /\ ~Crash(p)
    <3>1. UNCHANGED dbVars
      BY <2>6 DEF Catch, Finish, AppendRecord, AppendFails, Summary, Truncate,
                  RemoveFile, SeedPilotCase, MarkPending, SettleCase, CheckSurfaced,
                  PrepareIntent, CheckSameReceipt, DoctorChecksSchema, JudgeProbe
    <3> QED
      BY <3>1, Unchanged
  <2> QED
    BY <2>1, <2>2, <2>3, <2>4, <2>5, <2>6
<1> QED
  BY <1>1, <1>2, <1>3 DEF Effects

LEMMA CallEffects ==
  ASSUME Shape, NEW p \in Processes,
         \/ Throw(p) \/ ThrowUnknown(p)
         \/ ClaimNew(p) \/ ClaimTerminal(p) \/ ClaimTaken(p) \/ ClaimWaitTimesOut(p)
         \/ MarkSubmitted(p) \/ ActOnFake(p) \/ ActOnStripe(p) \/ Reconcile(p)
         \/ RecordOutcome(p)
         \/ RunUnsafeRefund(p) \/ Observe(p) \/ FinalizeObservation(p)
  PROVE  Effects(p)
<1>1. Move(p)
  BY CallMoves
<1>2. UNCHANGED dbVars /\ leftover' = leftover
  BY DEF Throw, ThrowUnknown, ClaimNew, ClaimTerminal, ClaimTaken, ClaimWaitTimesOut,
         MarkSubmitted, ActOnFake, ActOnStripe, Reconcile, RecordOutcome, RunUnsafeRefund,
         Observe, FinalizeObservation, ledgerVars
<1>3. Probed(p)
  <2>1. CASE ClaimNew(p) \/ ClaimTaken(p) \/ MarkSubmitted(p) \/ RecordOutcome(p)
    <3>1. PICK op \in {"claim", "submit", "record", "resolve"} : At(p, op)
      BY <2>1 DEF ClaimNew, ClaimTaken, MarkSubmitted, RecordOutcome
    <3>2. proc[p].todo # <<>> /\ Probes(Head(proc[p].todo))
      BY <3>1, TakenStep DEF Probes
    <3>3. \/ ledger' = ledger
          \/ \E row : ledger' = [ledger EXCEPT ![Key(p)] = row]
      BY <2>1, Zenon DEF ClaimNew, ClaimTaken, MarkSubmitted, RecordOutcome
    <3> QED
      BY <3>2, <3>3 DEF Probed, Shape, Key
  <2>2. CASE ~(ClaimNew(p) \/ ClaimTaken(p) \/ MarkSubmitted(p) \/ RecordOutcome(p))
    <3>1. ledger' = ledger
      BY <2>2 DEF Throw, ThrowUnknown, ClaimTerminal, ClaimWaitTimesOut, ActOnFake,
                  ActOnStripe, Reconcile, RunUnsafeRefund, Observe, FinalizeObservation,
                  ledgerVars
    <3> QED
      BY <3>1 DEF Probed, Shape
  <2> QED
    BY <2>1, <2>2
<1>4. Remembers
  BY <1>2 DEF Remembers, Shape
<1> QED
  BY <1>1, <1>2, <1>3, <1>4, Unchanged DEF Effects

\* A statement that fails, other than a removal.
LEMMA FailEffects ==
  ASSUME SchemaIInv, NEW p \in Processes, StatementFails(p), ~At(p, "clean")
  PROVE  Effects(p)
<1>1. Shape /\ Steady(proc[p].todo, Have(p))
  BY DEF SchemaIInv
<1>2. PICK op \in Statements \ {"clean"} : At(p, op)
  BY DEF StatementFails
<1>3. Become(p, Lost(p)) /\ db' = db /\ txn' = [txn EXCEPT ![p] = NoTransaction]
      /\ ledger' = ledger /\ leftover' = (leftover \/ LastRemoval(p))
  BY DEF StatementFails
<1>4. MovesOn(proc[p], Lost(p)) /\ MigrationFree(Lost(p).todo)
  BY <1>1, <1>2, LostMoves
<1>5. proc'[p] = Lost(p)
  BY <1>1, <1>3 DEF Become, Shape
<1>6. Move(p) /\ RollsBack(p)
  BY <1>3, <1>4, <1>5 DEF Move, RollsBack
<1>7. Probed(p) /\ Remembers
  <2>1. Head(proc[p].todo)[1] # "clean"
    BY <1>1, <1>2, TakenStep
  <2>2. leftover' = leftover
    BY <1>1, <1>3, <2>1 DEF LastRemoval, Shape
  <2> QED
    BY <1>1, <1>3, <2>2 DEF Probed, Remembers, Shape
<1> QED
  BY <1>6, <1>7 DEF Effects

-----------------------------------------------------------------------------
(***************************************************************************)
(* The schema.                                                             *)
(***************************************************************************)
\* A move leaves a steady sequence, whatever it puts in place of the head.
LEMMA MoveSteady ==
  ASSUME NEW r, Shaped(r), NEW s, MovesOn(r, s), NEW have, Steady(r.todo, have)
  PROVE  Shaped(s) /\ Steady(s.todo, have)
<1>1. CASE Keeps(r, s)
  BY <1>1 DEF Keeps
<1>2. CASE Advances(r, s)
  <2>1. PICK steps \in Seq(StepType) :
          Replaces(Head(r.todo), steps) /\ s.todo = steps \o Tail(r.todo)
    BY <1>2 DEF Advances
  <2>2. Tail(r.todo) \in Seq(StepType) /\ Steady(Tail(r.todo), have)
    BY <1>2, TailSteady DEF Advances, Shaped
  <2>3. Steady(steps, have)
    BY <2>1 DEF Replaces, Plain, Steady
  <2>4. CallFree(steps) \/ Calls(Head(r.todo))
    BY <2>1 DEF Replaces, CallFree, Calls, DoctorTakes, Probes
  <2>5. Calls(Head(r.todo)) => MigrationFree(Tail(r.todo))
    BY <1>2, CalledFree DEF Advances, Shaped
  <2> QED
    BY <1>2, <2>1, <2>2, <2>3, <2>4, <2>5, ConcatSteady DEF Advances
<1>3. CASE Unwinds(r, s)
  <2>1. Tail(r.todo) \in Seq(StepType) /\ Steady(Tail(r.todo), have \cup {Head(r.todo)[2]})
    BY <1>3, TailSteady DEF Unwinds, Shaped
  <2> DEFINE t == Tail(r.todo)
  <2>2. PICK i \in DOMAIN t : Catches(t[i]) /\ s.todo = SubSeq(t, i + 1, Len(t))
    BY <1>3 DEF Unwinds, Caught
  <2> HIDE DEF t
  <2>3. MigrationFree(s.todo)
    BY <2>1, <2>2, CaughtSteady DEF t
  <2> QED
    BY <1>3, <2>3, FreeSteady DEF Unwinds
<1>4. CASE Ends(r, s) \/ Abandons(r, s)
  <2>1. Shaped(s) /\ s.todo = <<>>
    BY <1>4 DEF Ends, Closed, Abandons
  <2>2. MigrationFree(s.todo)
    BY <2>1 DEF MigrationFree
  <2> QED
    BY <2>1, <2>2, FreeSteady
<1> QED
  BY <1>1, <1>2, <1>3, <1>4 DEF MovesOn

LEMMA SchemaInit ==
  Init => SchemaIInv
<1> SUFFICES ASSUME Init
             PROVE  SchemaIInv
  OBVIOUS
<1>1. Closed(IdleProcess)
  BY EmptySeq DEF IdleProcess, Closed, Shaped, Fields
<1>2. \A p \in Processes : proc[p] = IdleProcess /\ txn[p] = NoTransaction
  BY DEF Init
<1>3. Shape
  BY <1>1, <1>2 DEF Init, Shape, Closed, NoTransaction
<1>4. db.recorded = db.objects
      /\ \A name \in db.recorded : Needs(name) \subseteq db.recorded
  <2>1. PICK earlier \in {{}, ToSet(PublicMigrationNames)} :
          db.recorded = earlier /\ db.objects = earlier
    BY DEF Init
  <2>2. ToSet(PublicMigrationNames)
          = {"0000_initial", "0001_ordered_events", "0004_shadow_observations"}
    BY DEF ToSet, PublicMigrationNames
  <2>3. \A name \in earlier : Needs(name) \subseteq earlier
    BY <2>1, <2>2 DEF Needs
  <2> QED
    BY <2>1, <2>3
<1>5. ASSUME NEW p \in Processes
      PROVE  (\A name \in txn[p].ran : Needs(name) \subseteq Have(p))
             /\ Steady(proc[p].todo, Have(p))
  BY <1>1, <1>2 DEF NoTransaction, Closed, Steady
<1> QED
  BY <1>3, <1>4, <1>5 DEF SchemaIInv

\* The steps that move a process and do what Effects allows.
LEMMA EffectsKeepSchema ==
  ASSUME SchemaIInv, NEW p \in Processes, Effects(p)
  PROVE  SchemaIInv'
<1>1. Shape /\ Shaped(proc[p])
  BY DEF SchemaIInv, Shape
<1>2. PICK s : proc' = [proc EXCEPT ![p] = s] /\ MovesOn(proc[p], s)
  BY DEF Effects, Move, Become
<1>3. Shaped(s) /\ Steady(s.todo, Have(p))
  BY <1>1, <1>2, MoveSteady DEF SchemaIInv
<1>4. /\ DOMAIN proc' = Processes /\ proc'[p] = s
      /\ \A q \in Processes : q # p => proc'[q] = proc[q]
  BY <1>1, <1>2 DEF Shape
<1>5. DOMAIN ledger' = {"pilot", "doctor"} /\ leftover' \in BOOLEAN
  BY <1>1 DEF Effects, Probed, Remembers, Shape
<1>6. CASE KeepsSchema
  <2>1. Shape'
    BY <1>1, <1>3, <1>4, <1>5, <1>6 DEF KeepsSchema, Shape
  <2>2. \A q \in Processes : Have(q)' = Have(q) /\ txn'[q].ran = txn[q].ran
    BY <1>6 DEF KeepsSchema, Have
  <2>3. \A q \in Processes : Steady(proc'[q].todo, Have(q)')
    BY <1>3, <1>4, <2>2 DEF SchemaIInv
  <2> QED
    BY <1>6, <2>1, <2>2, <2>3 DEF KeepsSchema, SchemaIInv
<1>7. CASE Records(p)
  <2>1. /\ DOMAIN txn' = Processes /\ txn'[p].ran = {} /\ DOMAIN txn'[p] = {"created", "ran"}
        /\ \A q \in Processes : q # p => txn'[q] = txn[q]
    BY <1>1, <1>7 DEF Records, Shape, NoTransaction
  <2>2. Shape'
    BY <1>1, <1>3, <1>4, <1>5, <1>7, <2>1 DEF Records, Shape
  <2>3. \A q \in Processes : Have(q) \subseteq Have(q)'
    BY <1>7, <2>1 DEF Records, Have
  <2>4. \A q \in Processes : \A name \in txn'[q].ran : Needs(name) \subseteq Have(q)'
    BY <2>1, <2>3 DEF SchemaIInv
  <2>5. \A q \in Processes : Steady(proc'[q].todo, Have(q)')
    BY <1>3, <1>4, <2>3, MoreSteady DEF SchemaIInv
  <2>6. \A name \in db'.recorded : Needs(name) \subseteq db'.recorded
    BY <1>7 DEF Records, SchemaIInv, Have
  <2>7. db'.recorded = db'.objects
    BY <1>7 DEF Records, SchemaIInv
  <2> QED
    BY <2>2, <2>4, <2>5, <2>6, <2>7 DEF SchemaIInv
<1>8. CASE RollsBack(p)
  <2>1. /\ DOMAIN txn' = Processes /\ txn'[p].ran = {} /\ DOMAIN txn'[p] = {"created", "ran"}
        /\ \A q \in Processes : q # p => txn'[q] = txn[q]
    BY <1>1, <1>8 DEF RollsBack, Shape, NoTransaction
  <2>2. Shape'
    BY <1>1, <1>3, <1>4, <1>5, <1>8, <2>1 DEF RollsBack, Shape
  <2>3. \A q \in Processes : q # p => Have(q)' = Have(q)
    BY <1>8, <2>1 DEF RollsBack, Have
  <2>4. \A q \in Processes : \A name \in txn'[q].ran : Needs(name) \subseteq Have(q)'
    BY <2>1, <2>3 DEF SchemaIInv
  <2>5. Steady(proc'[p].todo, Have(p)')
    BY <1>8, FreeSteady DEF RollsBack
  <2>6. \A q \in Processes : Steady(proc'[q].todo, Have(q)')
    BY <1>4, <2>3, <2>5 DEF SchemaIInv
  <2> QED
    BY <1>8, <2>2, <2>4, <2>6 DEF RollsBack, SchemaIInv
<1> QED
  BY <1>6, <1>7, <1>8 DEF Effects
\* A step that leaves the schema and changes the process to a steady rest.
LEMMA BecomeKeepsSchema ==
  ASSUME SchemaIInv, NEW p \in Processes, NEW s, Become(p, s), Shaped(s),
         Steady(s.todo, Have(p)), KeepsSchema,
         DOMAIN ledger' = {"pilot", "doctor"}, leftover' = leftover
  PROVE  SchemaIInv'
<1>1. /\ DOMAIN proc' = Processes /\ proc'[p] = s
      /\ \A q \in Processes : q # p => proc'[q] = proc[q]
  BY DEF SchemaIInv, Shape, Become
<1>2. Shape'
  BY <1>1 DEF SchemaIInv, KeepsSchema, Shape
<1>3. \A q \in Processes : Have(q)' = Have(q) /\ txn'[q].ran = txn[q].ran
  BY DEF KeepsSchema, Have
<1>4. \A q \in Processes : Steady(proc'[q].todo, Have(q)')
  BY <1>1, <1>3 DEF SchemaIInv
<1> QED
  BY <1>2, <1>3, <1>4 DEF KeepsSchema, SchemaIInv

LEMMA SelectKeepsSchema ==
  ASSUME SchemaIInv, NEW p \in Processes, SelectMigration(p)
  PROVE  SchemaIInv'
<1> DEFINE r == proc[p]
           name == Argument(p)
           run == <<<<"run", name>>>>
<1>1. At(p, "select") /\ Shape
  BY DEF SelectMigration, SchemaIInv
<1>2. /\ Shaped(r) /\ r.todo # <<>> /\ r.todo \in Seq(StepType) /\ Head(r.todo)[1] = "select"
      /\ Shaped(Done(p)) /\ Done(p).todo = Tail(r.todo) /\ Head(r.todo)[2] = name
  BY <1>1, TakenStep DEF Shaped, Argument
<1>3. KeepsSchema /\ DOMAIN ledger' = {"pilot", "doctor"} /\ leftover' = leftover
  BY <1>1, Unchanged DEF SelectMigration, ledgerVars, Shape
<1>4. Steady(r.todo, Have(p)) /\ Migrates(Head(r.todo))
  BY <1>2 DEF SchemaIInv, Migrates
<1>5. CASE name \in db.recorded
  <2>1. Become(p, Done(p))
    BY <1>5 DEF SelectMigration
  <2>2. Steady(Done(p).todo, Have(p))
    BY <1>2, <1>4, <1>5, TailSteady DEF Have
  <2> QED
    BY <1>2, <1>3, <2>1, <2>2, BecomeKeepsSchema
<1>6. CASE name \notin db.recorded
  <2> DEFINE s == First(Done(p), run)
  <2>1. Become(p, s)
    BY <1>6 DEF SelectMigration
  <2>2. run \o Tail(r.todo) \in Seq(StepType) /\ Steady(run \o Tail(r.todo), Have(p))
    BY <1>2, <1>4, SelectedSteady
  <2>3. Shaped(s) /\ s.todo = run \o Tail(r.todo)
    BY <1>2, <2>2 DEF First, Shaped, Fields
  <2> HIDE DEF s
  <2> QED
    BY <1>3, <2>1, <2>2, <2>3, BecomeKeepsSchema
<1> QED
  BY <1>5, <1>6

\* A migration runs after those it refers to: they are before it.
LEMMA RunKeepsSchema ==
  ASSUME SchemaIInv, NEW p \in Processes, RunMigration(p)
  PROVE  SchemaIInv'
<1> DEFINE r == proc[p]
           name == Argument(p)
<1>1. At(p, "run") /\ Shape
  BY DEF RunMigration, SchemaIInv
<1>2. /\ Shaped(r) /\ r.todo # <<>> /\ r.todo \in Seq(StepType) /\ Head(r.todo)[1] = "run"
      /\ Shaped(Done(p)) /\ Done(p).todo = Tail(r.todo) /\ Head(r.todo)[2] = name
  BY <1>1, TakenStep DEF Shaped, Argument
<1>3. DOMAIN ledger' = {"pilot", "doctor"} /\ leftover' = leftover
  BY <1>1 DEF RunMigration, ledgerVars, Shape
<1>4. Steady(r.todo, Have(p)) /\ Migrates(Head(r.todo))
  BY <1>2 DEF SchemaIInv, Migrates
<1>5. Needs(name) \subseteq Have(p)
  <2>1. 1 \in DOMAIN r.todo /\ r.todo[1] = Head(r.todo) /\ 1..(1 - 1) = {}
    BY <1>2, LenProperties, EmptySeq
  <2> QED
    BY <1>2, <1>4, <2>1 DEF Steady
<1>6. CASE name \in db.recorded
  <2>1. Rollback(p)
    BY <1>6 DEF RunMigration
  <2>2. Closed(Ended(r, 1))
    BY EndedCloses
  <2>3. /\ DOMAIN proc' = Processes /\ proc'[p] = Ended(r, 1)
        /\ \A q \in Processes : q # p => proc'[q] = proc[q]
    BY <1>1, <2>1 DEF Rollback, Become, Shape
  <2>4. /\ DOMAIN txn' = Processes /\ txn'[p].ran = {} /\ DOMAIN txn'[p] = {"created", "ran"}
        /\ \A q \in Processes : q # p => txn'[q] = txn[q]
    BY <1>1, <2>1 DEF Rollback, Shape, NoTransaction
  <2>5. Shape' /\ db' = db
    BY <1>1, <1>3, <2>1, <2>2, <2>3, <2>4 DEF Rollback, Shape, Closed
  <2>6. \A q \in Processes : q # p => Have(q)' = Have(q)
    BY <2>4, <2>5 DEF Have
  <2>7. \A q \in Processes : Steady(proc'[q].todo, Have(q)')
    BY <2>2, <2>3, <2>6 DEF SchemaIInv, Steady, Closed
  <2>8. \A q \in Processes : \A n \in txn'[q].ran : Needs(n) \subseteq Have(q)'
    BY <2>4, <2>6 DEF SchemaIInv
  <2> QED
    BY <2>5, <2>7, <2>8 DEF SchemaIInv
<1>7. CASE name \notin db.recorded
  <2>1. /\ txn' = [txn EXCEPT ![p].ran = @ \cup {name}]
        /\ Become(p, Done(p)) /\ db' = db
    BY <1>7 DEF RunMigration
  <2>2. /\ DOMAIN proc' = Processes /\ proc'[p] = Done(p)
        /\ \A q \in Processes : q # p => proc'[q] = proc[q]
    BY <1>1, <2>1 DEF Become, Shape
  <2>3. /\ DOMAIN txn' = Processes /\ txn'[p].ran = txn[p].ran \cup {name}
        /\ DOMAIN txn'[p] = {"created", "ran"}
        /\ \A q \in Processes : q # p => txn'[q] = txn[q]
    BY <1>1, <2>1 DEF Shape
  <2>4. Shape'
    BY <1>1, <1>2, <1>3, <2>1, <2>2, <2>3 DEF Shape
  <2>5. /\ Have(p)' = Have(p) \cup {name}
        /\ \A q \in Processes : q # p => Have(q)' = Have(q)
    BY <2>1, <2>3 DEF Have
  <2>6. Steady(Tail(r.todo), Have(p)')
    BY <1>2, <1>4, <2>5, TailSteady
  <2>7. \A q \in Processes : Steady(proc'[q].todo, Have(q)')
    BY <1>2, <2>2, <2>5, <2>6 DEF SchemaIInv
  <2>8. \A q \in Processes : \A n \in txn'[q].ran : Needs(n) \subseteq Have(q)'
    BY <1>5, <2>3, <2>5 DEF SchemaIInv
  <2> QED
    BY <2>1, <2>4, <2>7, <2>8 DEF SchemaIInv
<1> QED
  BY <1>6, <1>7

ProbeTables == {"0000_initial", "0004_shadow_observations"} \subseteq db.objects

\* A removal, which may fail.
Removes(p) == At(p, "clean") /\ (CleanProbe(p) \/ StatementFails(p))

\* A process goes on after a removal, or to its last one when this one is
\* not the last, and must when the tables are missing.
LEMMA RemovalMoves ==
  ASSUME Shape, NEW p \in Processes, Removes(p)
  PROVE  /\ Shaped(proc'[p]) /\ proc'[p].command = proc[p].command
         /\ proc[p].todo \in Seq(StepType) /\ proc[p].todo # <<>>
         /\ Head(proc[p].todo)[1] = "clean"
         /\ \/ proc'[p].todo = Tail(proc[p].todo) /\ (LastRemoval(p) \/ ProbeTables)
            \/ proc'[p].todo = <<Step("clean")>> /\ ~LastRemoval(p)
         /\ DOMAIN proc' = Processes /\ \A q \in Processes : q # p => proc'[q] = proc[q]
<1> DEFINE r == proc[p]
<1>1. At(p, "clean")
  BY DEF Removes
<1>2. /\ Shaped(r) /\ r.todo # <<>> /\ r.todo \in Seq(StepType) /\ Head(r.todo)[1] = "clean"
      /\ Shaped(Done(p)) /\ Done(p).todo = Tail(r.todo) /\ Done(p).command = r.command
  BY <1>1, TakenStep DEF Shaped
<1>3. PICK s : Become(p, s) /\ ((s = Done(p) /\ ProbeTables) \/ s = Failed(p) \/ s = Lost(p))
  BY Zenon DEF Removes, CleanProbe, StatementFails, Answered, ProbeTables
<1>4. \/ Failed(p) = Done(p) /\ LastRemoval(p)
      \/ /\ ~LastRemoval(p)
         /\ Failed(p) = [[Done(p) EXCEPT !.todo = <<Step("clean")>>] EXCEPT !.ok = FALSE]
  BY <1>2 DEF Failed, ClientCalls
<1>5. <<Step("clean")>> \in Seq(StepType)
  BY StepTyped, OneStep DEF Operations
<1>6. /\ Shaped(Failed(p)) /\ Failed(p).command = r.command
      /\ \/ Failed(p).todo = Tail(r.todo) /\ LastRemoval(p)
         \/ Failed(p).todo = <<Step("clean")>> /\ ~LastRemoval(p)
  <2>1. CASE LastRemoval(p)
    BY <1>2, <1>4, <2>1
  <2>2. CASE ~LastRemoval(p)
    BY <1>2, <1>4, <1>5, <2>2 DEF Shaped, Fields
  <2> QED
    BY <2>1, <2>2
<1>7. Keeps(Failed(p), Lost(p))
  BY <1>6, LostKeeps DEF Lost
<1>8. /\ Shaped(s) /\ s.command = r.command
      /\ \/ s.todo = Tail(r.todo) /\ (LastRemoval(p) \/ ProbeTables)
         \/ s.todo = <<Step("clean")>> /\ ~LastRemoval(p)
  BY <1>2, <1>3, <1>6, <1>7 DEF Keeps
<1>9. DOMAIN proc' = Processes /\ proc'[p] = s /\ \A q \in Processes : q # p => proc'[q] = proc[q]
  BY <1>3 DEF Become, Shape
<1> QED
  BY <1>2, <1>8, <1>9

\* What a removal does to the rows of the probe.
LEMMA RemovalEffects ==
  ASSUME Shape, NEW p \in Processes, Removes(p)
  PROVE  /\ db' = db /\ DOMAIN ledger' = {"pilot", "doctor"} /\ leftover' \in BOOLEAN
         /\ txn' = txn \/ txn' = [txn EXCEPT ![p] = NoTransaction]
         /\ \/ ledger'["doctor"] = Absent
            \/ /\ ledger' = ledger /\ (leftover => leftover')
               /\ LastRemoval(p) =>
                    leftover' \/ ~ProbeTables
<1>1. CASE StatementFails(p)
  BY <1>1 DEF StatementFails, Shape
<1>2. CASE CleanProbe(p)
  BY <1>2 DEF CleanProbe, dbVars, ProbeTables, Shape
<1> QED
  BY <1>1, <1>2 DEF Removes

LEMMA CleanKeepsSchema ==
  ASSUME SchemaIInv, NEW p \in Processes, Removes(p)
  PROVE  SchemaIInv'
<1>1. /\ Shape /\ Steady(proc[p].todo, Have(p))
      /\ proc[p].todo \in Seq(StepType) /\ proc[p].todo # <<>>
      /\ Head(proc[p].todo)[1] = "clean"
      /\ Shaped(proc'[p])
      /\ proc'[p].todo = Tail(proc[p].todo) \/ proc'[p].todo = <<Step("clean")>>
      /\ DOMAIN proc' = Processes /\ \A q \in Processes : q # p => proc'[q] = proc[q]
  BY RemovalMoves DEF SchemaIInv
<1>2. MigrationFree(proc'[p].todo)
  <2>1. MigrationFree(Tail(proc[p].todo))
    BY <1>1, CalledFree DEF Calls, DoctorTakes
  <2>2. MigrationFree(<<Step("clean")>>)
    BY StepTyped, OneStep DEF Operations, Migrates
  <2> QED
    BY <1>1, <2>1, <2>2
<1>3. /\ db' = db /\ DOMAIN ledger' = {"pilot", "doctor"} /\ leftover' \in BOOLEAN
      /\ txn' = txn \/ txn' = [txn EXCEPT ![p] = NoTransaction]
  BY <1>1, RemovalEffects
<1>4. /\ DOMAIN txn' = Processes
      /\ \A q \in Processes : DOMAIN txn'[q] = {"created", "ran"} /\ txn'[q].ran \in {txn[q].ran, {}}
      /\ \A q \in Processes : q # p => txn'[q] = txn[q]
  BY <1>1, <1>3 DEF Shape, NoTransaction
<1>5. Shape'
  BY <1>1, <1>3, <1>4 DEF Shape
<1>6. \A q \in Processes : q # p => Have(q)' = Have(q)
  BY <1>3, <1>4 DEF Have
<1>7. \A q \in Processes : Steady(proc'[q].todo, Have(q)')
  <2>1. Steady(proc'[p].todo, Have(p)')
    BY <1>2, FreeSteady
  <2> QED
    BY <1>1, <1>6, <2>1 DEF SchemaIInv
<1>8. \A q \in Processes : \A name \in txn'[q].ran : Needs(name) \subseteq Have(q)'
  <2>1. \A name \in txn'[p].ran : Needs(name) \subseteq Have(p)'
    BY <1>3, <1>4 DEF SchemaIInv, Have
  <2> QED
    BY <1>4, <1>6, <2>1 DEF SchemaIInv
<1> QED
  BY <1>3, <1>5, <1>7, <1>8 DEF SchemaIInv

\* What a process is once p starts a command.
LEMMA StartChanges ==
  ASSUME Shape, NEW p \in Processes, NEW command \in Commands, Start(p, command)
  PROVE  /\ DOMAIN proc' = Processes
         /\ proc[p].command = "none"
         /\ \/ Closed(proc'[p])
            \/ /\ Shaped(proc'[p]) /\ proc'[p].command = command
               /\ proc'[p].todo = Steps(command)
         /\ \A q \in Processes : q # p => Keeps(proc[q], proc'[q])
<1> DEFINE Running(q) == q # p /\ proc[q].command # "none"
           mine == \E q \in Processes : Running(q) /\ proc[q].command \in Disturbers(command)
           Theirs(q) == Running(q) /\ command \in Disturbers(proc[q].command)
           begun == [IdleProcess EXCEPT !.command = command, !.todo = Steps(command),
                                        !.disturbed = mine]
           refused == command # "migrate" /\ config = Refused
<1>1. proc' = [q \in Processes |->
                 IF q = p THEN IF refused THEN Ended(begun, 1) ELSE begun
                 ELSE [proc[q] EXCEPT !.disturbed = @ \/ Theirs(q)]]
  BY Zenon DEF Start
<1>2. Closed(Ended(begun, 1))
  BY EndedCloses
<1>3. Steps(command) \in Seq(StepType)
  BY StepsSteady
<1>4. Shaped(begun) /\ begun.command = command /\ begun.todo = Steps(command)
  BY <1>3 DEF IdleProcess, Shaped, Fields
<1> HIDE DEF begun, mine, refused
<1>5. DOMAIN proc' = Processes /\ (proc'[p] = Ended(begun, 1) \/ proc'[p] = begun)
  BY <1>1
<1>6. ASSUME NEW q \in Processes, q # p
      PROVE  Keeps(proc[q], proc'[q])
  <2>1. PICK v : proc'[q] = [proc[q] EXCEPT !.disturbed = v]
    BY <1>1, <1>6, Zenon
  <2> QED
    BY <2>1 DEF Keeps, Shaped, Shape, Fields
<1>7. proc[p].command = "none"
  BY Zenon DEF Start
<1> QED
  BY <1>2, <1>4, <1>5, <1>6, <1>7

LEMMA StartKeepsSchema ==
  ASSUME SchemaIInv, NEW p \in Processes, NEW command \in Commands, Start(p, command)
  PROVE  SchemaIInv'
<1>1. Shape /\ KeepsSchema /\ DOMAIN ledger' = {"pilot", "doctor"} /\ leftover' = leftover
  <2>1. UNCHANGED <<dbVars, ledgerVars>>
    BY Zenon DEF Start
  <2> QED
    BY <2>1, Unchanged DEF SchemaIInv, ledgerVars, Shape
<1>2. /\ DOMAIN proc' = Processes
      /\ \A q \in Processes : q # p => Keeps(proc[q], proc'[q])
      /\ Shaped(proc'[p]) /\ Steady(proc'[p].todo, Have(p))
  <2>1. Steady(Steps(command), Have(p)) /\ Steady(<<>>, Have(p))
    BY StepsSteady DEF Steady
  <2>2. Shaped(proc'[p]) /\ (proc'[p].todo = Steps(command) \/ proc'[p].todo = <<>>)
    BY <1>1, StartChanges DEF Closed
  <2> QED
    BY <1>1, <2>1, <2>2, StartChanges
<1>3. Shape'
  BY <1>1, <1>2 DEF KeepsSchema, Shape, Keeps
<1>4. \A q \in Processes : Have(q)' = Have(q) /\ txn'[q].ran = txn[q].ran
  BY <1>1 DEF KeepsSchema, Have
<1>5. \A q \in Processes : Steady(proc'[q].todo, Have(q)')
  BY <1>2, <1>4 DEF SchemaIInv, Keeps
<1> QED
  BY <1>1, <1>3, <1>4, <1>5 DEF KeepsSchema, SchemaIInv

\* All the other steps do what Effects says.
LEMMA OtherEffects ==
  ASSUME SchemaIInv, NEW p \in Processes,
         Proceed(p) \/ StatementFails(p) \/ AppendFails(p) \/ Crash(p),
         ~SelectMigration(p) /\ ~RunMigration(p) /\ ~Removes(p)
  PROVE  Effects(p)
<1>1. Shape
  BY DEF SchemaIInv
<1>2. CASE StatementFails(p)
  BY <1>2, FailEffects DEF Removes
<1>3. CASE CleanProbe(p)
  BY <1>3 DEF Removes, CleanProbe
<1>4. CASE ~StatementFails(p) /\ ~CleanProbe(p)
  BY <1>1, <1>4, CommandEffects, CallEffects, Zenon DEF Proceed
<1> QED
  BY <1>2, <1>3, <1>4

LEMMA SchemaStep ==
  SchemaIInv /\ [Next]_vars => SchemaIInv'
<1> SUFFICES ASSUME SchemaIInv, [Next]_vars
             PROVE  SchemaIInv'
  OBVIOUS
<1>1. CASE UNCHANGED vars
  BY <1>1 DEF SchemaIInv, Shape, Have, vars, dbVars, ledgerVars
<1>2. ASSUME NEW p \in Processes, NEW command \in Commands, Start(p, command)
      PROVE  SchemaIInv'
  BY <1>2, StartKeepsSchema
<1>3. ASSUME NEW p \in Processes,
             Proceed(p) \/ StatementFails(p) \/ AppendFails(p) \/ Crash(p)
      PROVE  SchemaIInv'
  <2>1. CASE SelectMigration(p)
    BY <2>1, SelectKeepsSchema
  <2>2. CASE RunMigration(p)
    BY <2>2, RunKeepsSchema
  <2>3. CASE Removes(p)
    BY <2>3, CleanKeepsSchema
  <2>4. CASE ~SelectMigration(p) /\ ~RunMigration(p) /\ ~Removes(p)
    <3>1. Effects(p)
      BY <1>3, <2>4, OtherEffects
    <3> QED
      BY <3>1, EffectsKeepSchema
  <2> QED
    BY <2>1, <2>2, <2>3, <2>4
<1> QED
  BY <1>1, <1>2, <1>3 DEF Next

(***************************************************************************)
(* However many processes migrate the database at once, and wherever they  *)
(* are killed, a migration is recorded exactly when its objects exist, and *)
(* the migrations it refers to before it: the statements of a migration    *)
(* and its row are one transaction, and migratePostgresStorage and migrate *)
(* name the migrations in an order that respects their references.         *)
(***************************************************************************)
THEOREM MigrationsRecorded == Spec => []SchemaAsRecorded
<1>1. Init => SchemaIInv
  BY SchemaInit
<1>2. SchemaIInv /\ [Next]_vars => SchemaIInv'
  BY SchemaStep
<1>3. SchemaIInv => SchemaAsRecorded
  BY DEF SchemaIInv, SchemaAsRecorded
<1> QED
  BY <1>1, <1>2, <1>3, PTL DEF Spec
-----------------------------------------------------------------------------
(***************************************************************************)
(* The doctor.  Once it found the database there, what is left of a doctor *)
(* ends with the removal of the rows of its probe, and a step of its calls *)
(* has a catch after it: no error leads past the removal.  The tables of   *)
(* the probe are there once it made a call, and stay, so only a statement  *)
(* that is refused, or the death of the process, keeps the rows there.     *)
(***************************************************************************)
CleansUp(todo) ==
  todo # <<>> =>
    /\ todo[Len(todo)] = Step("clean")
    /\ \A i \in DOMAIN todo :
         /\ DoctorTakes(todo[i]) /\ todo[i][1] # "check"
         /\ Probes(todo[i]) => \E j \in DOMAIN todo : j > i /\ Catches(todo[j])

\* What a doctor has left before its first call, and after.
Early == {<<>>, Tail(RunDoctor), <<Step("clean")>>}

Probing(todo) == todo = RunDoctor \/ (CleansUp(todo) /\ (todo \in Early \/ ProbeTables))

\* A doctor that has the last removal before it.
Removing(r) == r.command = "doctor" /\ r.todo \notin {<<>>, RunDoctor}

DoctorIInv ==
  /\ \A p \in Processes : proc[p].command = "doctor" =>
       Probing(proc[p].todo)
  /\ ledger["doctor"] # Absent =>
       /\ ProbeTables
       /\ leftover \/ \E p \in Processes : Removing(proc[p])

LEMMA RunDoctorCleansUp ==
  /\ RunDoctor \in Seq(StepType) /\ RunDoctor # <<>> /\ Head(RunDoctor)[1] = "check"
  /\ Tail(RunDoctor) # <<>> /\ Head(Tail(RunDoctor))[1] = "clean"
  /\ CleansUp(Tail(RunDoctor)) /\ CleansUp(<<>>) /\ CleansUp(<<Step("clean")>>)
  /\ <<Step("clean")>> \in Seq(StepType) /\ Head(<<Step("clean")>>)[1] = "clean"
<1> DEFINE d == RunDoctor
           e == Tail(d)
<1>1. d \in Seq(StepType)
  BY ScenariosMigrationFree
<1>2. /\ Len(d) = 9 /\ DOMAIN d = 1..9
      /\ d[1] = Step("check") /\ d[2] = Step("clean") /\ d[3] = Step("claim")
      /\ d[4] = Step("catch") /\ d[5] = Step("surfaced") /\ d[6] = Step("claim")
      /\ d[7] = Step("judge") /\ d[8] = Step("catch") /\ d[9] = Step("clean")
  BY DEF RunDoctor
<1> HIDE DEF d
<1>3. \A op \in {"check", "clean", "claim", "catch", "surfaced", "judge"} : Step(op)[1] = op
  BY StepTyped DEF Operations
<1>4. d # <<>> /\ Head(d) = d[1]
  BY <1>1, <1>2, EmptySeq
<1>5. /\ e \in Seq(StepType) /\ Len(e) = 8 /\ DOMAIN e = 1..8
      /\ \A i \in 1..8 : e[i] = d[i + 1]
  <2>1. e \in Seq(StepType) /\ Len(e) = Len(d) - 1 /\ \A i \in 1..Len(e) : e[i] = d[i + 1]
    BY <1>1, <1>4, HeadTailProperties
  <2> HIDE DEF e
  <2> QED
    BY <1>2, <2>1, LenProperties
<1> HIDE DEF e
<1>6. e # <<>> /\ Head(e) = e[1]
  <2>1. e \in Seq(StepType) /\ Len(e) # 0
    BY <1>5
  <2> QED
    BY <2>1, EmptySeq
<1>7. /\ e[1] = Step("clean") /\ e[2] = Step("claim") /\ e[3] = Step("catch")
      /\ e[4] = Step("surfaced") /\ e[5] = Step("claim") /\ e[6] = Step("judge")
      /\ e[7] = Step("catch") /\ e[8] = Step("clean")
  BY <1>2, <1>5
<1>8. /\ Catches(e[3]) /\ Catches(e[7])
      /\ \A i \in 1..8 : DoctorTakes(e[i]) /\ e[i][1] # "check"
                          /\ (Probes(e[i]) => i = 2 \/ i = 5)
  BY <1>3, <1>7 DEF Catches, DoctorTakes, Probes
<1>9. CleansUp(e)
  BY <1>5, <1>7, <1>8 DEF CleansUp
<1>10. CleansUp(<<>>)
  BY DEF CleansUp
<1>11. /\ <<Step("clean")>> \in Seq(StepType) /\ Head(<<Step("clean")>>)[1] = "clean"
       /\ CleansUp(<<Step("clean")>>)
  <2>1. Step("clean") \in StepType
    BY StepTyped DEF Operations
  <2> DEFINE x == <<Step("clean")>>
  <2>2. /\ x \in Seq(StepType) /\ Len(x) = 1 /\ x[1] = Step("clean") /\ DOMAIN x = {1}
        /\ Head(x) = x[1]
    BY <2>1, OneStep
  <2> HIDE DEF x
  <2>3. CleansUp(x)
    BY <1>3, <2>2 DEF CleansUp, DoctorTakes, Probes
  <2> QED
    BY <1>3, <2>2, <2>3 DEF x
<1> QED
  BY <1>1, <1>2, <1>3, <1>4, <1>6, <1>7, <1>9, <1>10, <1>11 DEF d, e

\* The last step is not taken before the others.
LEMMA TailCleansUp ==
  ASSUME NEW s \in Seq(StepType), s # <<>>, CleansUp(s)
  PROVE  /\ Tail(s) \in Seq(StepType) /\ CleansUp(Tail(s))
         /\ Head(s)[1] # "clean" => Tail(s) # <<>>
         /\ DoctorTakes(Head(s)) /\ Head(s)[1] # "check"
         /\ Probes(Head(s)) => \E i \in DOMAIN Tail(s) : Catches(Tail(s)[i])
<1> DEFINE u == Tail(s)
<1>1. /\ u \in Seq(StepType) /\ Len(u) = Len(s) - 1
      /\ \A i \in 1..Len(u) : u[i] = s[i + 1]
  BY HeadTailProperties
<1>2. /\ Len(s) \in Nat /\ DOMAIN s = 1..Len(s) /\ Len(s) # 0 /\ Head(s) = s[1]
      /\ DOMAIN u = 1..Len(u)
  BY <1>1, LenProperties, EmptySeq
<1> HIDE DEF u
<1>e. u = <<>> <=> Len(u) = 0
  BY <1>1, EmptySeq
<1>3. Head(s)[1] # "clean" => u # <<>>
  <2>1. Step("clean")[1] = "clean"
    BY StepTyped DEF Operations
  <2> QED
    BY <1>1, <1>2, <1>e, <2>1 DEF CleansUp
<1>4. u # <<>> => u[Len(u)] = Step("clean")
  BY <1>1, <1>2, <1>e DEF CleansUp
<1>5. ASSUME NEW i \in DOMAIN u
      PROVE  /\ DoctorTakes(u[i]) /\ u[i][1] # "check"
             /\ Probes(u[i]) => \E j \in DOMAIN u : j > i /\ Catches(u[j])
  <2>1. i + 1 \in DOMAIN s /\ u[i] = s[i + 1]
    BY <1>1, <1>2
  <2>2. \A j \in DOMAIN s : j > i + 1 => j - 1 \in DOMAIN u /\ u[j - 1] = s[j] /\ j - 1 > i
    BY <1>1, <1>2
  <2> QED
    BY <2>1, <2>2 DEF CleansUp
<1>6. DoctorTakes(Head(s)) /\ Head(s)[1] # "check" /\ (Probes(Head(s)) => \E i \in DOMAIN u : Catches(u[i]))
  <2>1. 1 \in DOMAIN s /\ \A j \in DOMAIN s : j > 1 => j - 1 \in DOMAIN u /\ u[j - 1] = s[j]
    BY <1>1, <1>2
  <2> QED
    BY <1>2, <2>1 DEF CleansUp
<1> QED
  BY <1>1, <1>3, <1>4, <1>5, <1>6 DEF CleansUp, u

\* The steps of a call go before a catch.
LEMMA CallCleansUp ==
  ASSUME NEW steps \in Seq(StepType), NEW t \in Seq(StepType), t # <<>>, CleansUp(t),
         \A i \in DOMAIN steps : Probes(steps[i]),
         \E i \in DOMAIN t : Catches(t[i])
  PROVE  steps \o t # <<>> /\ CleansUp(steps \o t)
<1> DEFINE u == steps \o t
           n == Len(steps)
<1>1. /\ n \in Nat /\ DOMAIN steps = 1..n
      /\ Len(t) \in Nat /\ DOMAIN t = 1..Len(t) /\ Len(t) # 0
  BY LenProperties, EmptySeq
<1>2. /\ u \in Seq(StepType) /\ Len(u) = n + Len(t)
      /\ \A i \in 1..(n + Len(t)) : u[i] = IF i <= n THEN steps[i] ELSE t[i - n]
  BY ConcatProperties
<1>3. DOMAIN u = 1..(n + Len(t)) /\ u # <<>>
  BY <1>1, <1>2, LenProperties, EmptySeq
<1> HIDE DEF u, n
<1>4. u[Len(u)] = Step("clean")
  <2>1. t[Len(t)] = Step("clean")
    BY DEF CleansUp
  <2>2. u[Len(u)] = t[Len(t)]
    BY <1>1, <1>2
  <2> QED
    BY <2>1, <2>2
<1>5. \A j \in DOMAIN t : n + j \in DOMAIN u /\ u[n + j] = t[j]
  BY <1>1, <1>2, <1>3
<1>6. ASSUME NEW i \in DOMAIN u
      PROVE  /\ DoctorTakes(u[i]) /\ u[i][1] # "check"
             /\ Probes(u[i]) => \E j \in DOMAIN u : j > i /\ Catches(u[j])
  <2>1. CASE i <= n
    <3>1. i \in DOMAIN steps /\ u[i] = steps[i]
      BY <1>1, <1>2, <1>3, <2>1
    <3>2. \A j \in DOMAIN t : n + j > i
      BY <1>1, <1>3, <2>1
    <3> QED
      BY <1>5, <3>1, <3>2 DEF DoctorTakes, Probes
  <2>2. CASE ~(i <= n)
    <3>1. i - n \in DOMAIN t /\ u[i] = t[i - n]
      BY <1>1, <1>2, <1>3, <2>2
    <3>2. \A j \in DOMAIN t : j > i - n => n + j > i
      BY <1>1, <1>3
    <3> QED
      BY <1>5, <3>1, <3>2 DEF CleansUp
  <2> QED
    BY <2>1, <2>2
<1> QED
  BY <1>3, <1>4, <1>6 DEF CleansUp, u

\* No error leads past the last step.
LEMMA CaughtCleansUp ==
  ASSUME NEW s \in Seq(StepType), CleansUp(s), NEW left, Caught(s, left)
  PROVE  left # <<>> /\ CleansUp(left)
<1>1. PICK i \in DOMAIN s : Catches(s[i]) /\ left = SubSeq(s, i + 1, Len(s))
  BY DEF Caught
<1>2. Len(s) \in Nat /\ DOMAIN s = 1..Len(s) /\ s # <<>>
  BY <1>1, LenProperties, EmptySeq
<1>3. i # Len(s)
  <2>1. Step("clean")[1] = "clean"
    BY StepTyped DEF Operations
  <2> QED
    BY <1>1, <1>2, <2>1 DEF CleansUp, Catches
<1>4. \A j \in (i + 1)..Len(s) : s[j] \in StepType
  BY <1>1, <1>2, ElementOfSeq
<1>5. /\ left \in Seq(StepType) /\ Len(left) = Len(s) - i
      /\ \A j \in 1..(Len(s) - i) : left[j] = s[i + j]
  <2>1. /\ left \in Seq(StepType)
        /\ Len(left) = IF i + 1 <= Len(s) THEN Len(s) - (i + 1) + 1 ELSE 0
        /\ \A j \in 1..(Len(s) - (i + 1) + 1) : left[j] = s[(i + 1) + j - 1]
    BY <1>1, <1>2, <1>4, SubSeqProperties
  <2> QED
    BY <1>1, <1>2, <1>3, <2>1
<1>6. DOMAIN left = 1..Len(left) /\ left # <<>>
  BY <1>1, <1>2, <1>3, <1>5, LenProperties, EmptySeq
<1>7. left[Len(left)] = Step("clean")
  <2>1. Len(s) - i \in 1..(Len(s) - i) /\ i + (Len(s) - i) = Len(s)
    BY <1>1, <1>2, <1>3
  <2>2. left[Len(left)] = s[Len(s)]
    BY <1>5, <2>1
  <2> QED
    BY <1>2, <2>2 DEF CleansUp
<1>8. ASSUME NEW j \in DOMAIN left
      PROVE  /\ DoctorTakes(left[j]) /\ left[j][1] # "check"
             /\ Probes(left[j]) => \E k \in DOMAIN left : k > j /\ Catches(left[k])
  <2>1. i + j \in DOMAIN s /\ left[j] = s[i + j]
    BY <1>1, <1>2, <1>5, <1>6
  <2>2. ASSUME NEW k \in DOMAIN s, k > i + j
        PROVE  k - i \in DOMAIN left /\ left[k - i] = s[k] /\ k - i > j
    <3>1. /\ i \in Nat /\ j \in Nat /\ k \in Nat /\ k <= Len(s)
          /\ k - i \in 1..(Len(s) - i) /\ i + (k - i) = k /\ k - i > j
      BY <1>1, <1>2, <1>5, <1>6, <2>2
    <3> QED
      BY <1>5, <1>6, <3>1
  <2> QED
    BY <1>2, <2>1, <2>2 DEF CleansUp
<1> QED
  BY <1>6, <1>7, <1>8 DEF CleansUp

\* A doctor moves on to what still ends with the removal, and ends only
\* with nothing left or killed.
LEMMA MoveCleansUp ==
  ASSUME NEW r, Shaped(r), r.command = "doctor", Probing(r.todo), NEW s, MovesOn(r, s)
  PROVE  \/ s.command = "doctor" /\ s.todo = r.todo
         \/ /\ s.command = "doctor" /\ CleansUp(s.todo) /\ s.todo # RunDoctor
            /\ r.todo \notin {<<>>, RunDoctor} => s.todo # <<>>
            /\ s.todo \in Early \/ r.todo \notin Early \cup {RunDoctor}
         \/ s.command = "none" /\ (r.todo = <<>> \/ leftover')
<1>0. r.todo \in Seq(StepType)
  BY DEF Shaped
<1>c. \A t \in Seq(StepType) : t # <<>> /\ CleansUp(t) => t # RunDoctor
  BY RunDoctorCleansUp, TailCleansUp
<1>e. \A t \in Early : t # RunDoctor /\ (t = <<>> \/ Head(t)[1] = "clean")
  BY RunDoctorCleansUp DEF Early
<1>1. CASE Keeps(r, s)
  BY <1>1 DEF Keeps
<1>2. CASE r.todo = RunDoctor
  <2>1. Head(r.todo)[1] = "check" /\ r.todo # <<>>
    BY <1>2, RunDoctorCleansUp
  <2>2. CASE Advances(r, s)
    <3>1. PICK steps \in Seq(StepType) :
            Replaces(Head(r.todo), steps) /\ s.todo = steps \o Tail(r.todo)
      BY <2>2 DEF Advances
    <3>2. steps = <<>>
      BY <2>1, <3>1 DEF Replaces, DoctorTakes, Probes
    <3>3. s.todo = Tail(RunDoctor)
      BY <1>0, <1>2, <2>1, <3>1, <3>2, HeadTailProperties, ConcatEmptySeq
    <3> QED
      BY <1>2, <1>e, <2>2, <3>3, RunDoctorCleansUp DEF Advances, Early
  <2>3. CASE Abandons(r, s)
    BY <1>2, <2>3, RunDoctorCleansUp DEF Abandons, Early
  <2>4. CASE Unwinds(r, s)
    BY <2>1, <2>4 DEF Unwinds, DoctorTakes, Probes
  <2>5. CASE Ends(r, s)
    BY <2>1, <2>5 DEF Ends, Closed, DoctorTakes, Probes
  <2> QED
    BY <1>1, <2>2, <2>3, <2>4, <2>5 DEF MovesOn
<1>3. CASE r.todo # RunDoctor /\ r.todo # <<>>
  <2>1. CleansUp(r.todo)
    BY <1>3 DEF Probing
  <2>2. /\ Tail(r.todo) \in Seq(StepType) /\ CleansUp(Tail(r.todo))
        /\ Head(r.todo)[1] # "clean" => Tail(r.todo) # <<>>
        /\ DoctorTakes(Head(r.todo)) /\ Head(r.todo)[1] # "check"
        /\ Probes(Head(r.todo)) => \E i \in DOMAIN Tail(r.todo) : Catches(Tail(r.todo)[i])
    BY <1>0, <1>3, <2>1, TailCleansUp
  <2>3. Head(r.todo)[1] # "clean" => r.todo \notin Early
    BY <1>3, <1>e
  <2>4. CASE Advances(r, s)
    <3>1. PICK steps \in Seq(StepType) :
            Replaces(Head(r.todo), steps) /\ s.todo = steps \o Tail(r.todo)
      BY <2>4 DEF Advances
    <3>2. Head(r.todo)[1] # "clean" /\ s.command = "doctor"
      BY <2>4 DEF Advances
    <3>3. CASE steps = <<>>
      <4>1. s.todo = Tail(r.todo)
        BY <2>2, <3>1, <3>3, ConcatEmptySeq
      <4> QED
        BY <1>3, <1>c, <2>2, <2>3, <3>2, <4>1
    <3>4. CASE steps # <<>>
      <4>1. Probes(Head(r.todo)) /\ \A i \in DOMAIN steps : Probes(steps[i])
        BY <2>2, <3>1, <3>4 DEF Replaces
      <4>2. s.todo \in Seq(StepType) /\ s.todo # <<>> /\ CleansUp(s.todo)
        BY <2>2, <3>1, <3>2, <4>1, CallCleansUp, ConcatProperties
      <4> QED
        BY <1>3, <1>c, <2>3, <3>2, <4>2
    <3> QED
      BY <3>3, <3>4
  <2>5. CASE Unwinds(r, s)
    <3>1. Head(r.todo)[1] # "clean" /\ s.command = "doctor" /\ s.todo \in Seq(StepType)
      BY <2>2, <2>5 DEF Unwinds, Probes, Shaped
    <3>2. s.todo # <<>> /\ CleansUp(s.todo)
      BY <2>2, <2>5, CaughtCleansUp DEF Unwinds
    <3> QED
      BY <1>3, <1>c, <2>3, <3>1, <3>2
  <2>6. CASE Abandons(r, s)
    BY <2>2, <2>6 DEF Abandons
  <2>7. CASE Ends(r, s)
    BY <1>3, <2>2, <2>7 DEF Ends, Closed, CatchFree
  <2> QED
    BY <1>1, <2>4, <2>5, <2>6, <2>7 DEF MovesOn
<1>4. CASE r.todo = <<>>
  BY <1>1, <1>4 DEF MovesOn, Advances, Unwinds, Abandons, Ends, Closed
<1> QED
  BY <1>2, <1>3, <1>4

LEMMA DoctorInit ==
  Init => DoctorIInv
<1> SUFFICES ASSUME Init
             PROVE  DoctorIInv
  OBVIOUS
<1>1. \A p \in Processes : proc[p].command = "none"
  BY DEF Init, IdleProcess
<1>2. ledger["doctor"] = Absent
  BY DEF Init
<1> QED
  BY <1>1, <1>2 DEF DoctorIInv

\* The objects of the schema stay.
LEMMA ProbeTablesStay ==
  ASSUME ProbeTables, db.objects \subseteq db'.objects
  PROVE  ProbeTables'
BY DEF ProbeTables

\* What a doctor takes does not depend on the state.
LEMMA StaticSteps ==
  /\ RunDoctor' = RunDoctor /\ Early' = Early
  /\ \A r : Removing(r)' <=> Removing(r)
  /\ \A todo : CleansUp(todo)' <=> CleansUp(todo)
BY DEF RunDoctor, Early, Removing, CleansUp, DoctorTakes, Probes, Catches, Step

LEMMA EffectsKeepDoctor ==
  ASSUME Shape, DoctorIInv, NEW p \in Processes, Effects(p)
  PROVE  DoctorIInv'
<1>1. PICK s : proc' = [proc EXCEPT ![p] = s] /\ MovesOn(proc[p], s)
  BY DEF Effects, Move, Become
<1>2. /\ Shaped(proc[p]) /\ proc'[p] = s
      /\ \A q \in Processes : q # p => proc'[q] = proc[q]
  BY <1>1 DEF Shape
<1>3. db.objects \subseteq db'.objects
  BY DEF Effects, KeepsSchema, Records, RollsBack
<1>4. ProbeTables => ProbeTables'
  BY <1>3, ProbeTablesStay
<1>5. proc[p].command # "doctor" => s.command # "doctor"
  BY <1>1 DEF MovesOn, Keeps, Advances, Unwinds, Abandons, Ends, Closed
<1>6. \/ ledger'["doctor"] = Absent
      \/ ledger'["doctor"] = ledger["doctor"]
      \/ proc[p].command = "doctor" /\ proc[p].todo # <<>> /\ Probes(Head(proc[p].todo))
  BY DEF Effects, Probed
<1>7. leftover => leftover' \/ ledger'["doctor"] = Absent
  BY DEF Effects, Remembers
<1>8. CASE proc[p].command = "doctor"
  <2>1. Probing(proc[p].todo)
    BY <1>8 DEF DoctorIInv
  <2>2. \/ s.command = "doctor" /\ s.todo = proc[p].todo
        \/ /\ s.command = "doctor" /\ CleansUp(s.todo) /\ s.todo # RunDoctor
           /\ proc[p].todo \notin {<<>>, RunDoctor} => s.todo # <<>>
           /\ s.todo \in Early \/ proc[p].todo \notin Early \cup {RunDoctor}
        \/ s.command = "none" /\ (proc[p].todo = <<>> \/ leftover')
    BY <1>1, <1>2, <1>8, <2>1, MoveCleansUp
  <2>3. s.command = "doctor" =>
          s.todo = RunDoctor \/ (CleansUp(s.todo) /\ (s.todo \in Early \/ ProbeTables'))
    BY <1>4, <2>1, <2>2 DEF Probing
  <2>4. Probes(Head(proc[p].todo)) /\ proc[p].todo # <<>> =>
          ProbeTables /\ proc[p].todo \notin {<<>>, RunDoctor}
    <3>1. \A t \in Early \cup {RunDoctor} : t = <<>> \/ Head(t)[1] \in {"clean", "check"}
      BY RunDoctorCleansUp DEF Early
    <3> QED
      BY <2>1, <3>1 DEF Probing, Probes
  <2>5. Removing(proc[p]) => Removing(s) \/ leftover'
    BY <2>2 DEF Removing
  <2>6. ASSUME ledger'["doctor"] # Absent
        PROVE  ProbeTables' /\ (leftover' \/ \E q \in Processes : Removing(proc'[q]))
    <3>1. \/ ledger["doctor"] # Absent
          \/ ProbeTables /\ Removing(proc[p])
      BY <1>6, <1>8, <2>4, <2>6 DEF Removing
    <3>2. ProbeTables /\ (leftover \/ \E q \in Processes : Removing(proc[q]))
      BY <3>1 DEF DoctorIInv
    <3>3. leftover' \/ \E q \in Processes : Removing(proc'[q])
      BY <1>2, <1>7, <2>5, <2>6, <3>2
    <3> QED
      BY <1>4, <3>2, <3>3
  <2>7. \A q \in Processes : proc'[q].command = "doctor" =>
          \/ proc'[q].todo = RunDoctor
          \/ CleansUp(proc'[q].todo) /\ (proc'[q].todo \in Early \/ ProbeTables')
    BY <1>2, <1>4, <2>3 DEF DoctorIInv, Probing
  <2> QED
    BY <2>6, <2>7, StaticSteps DEF DoctorIInv, Probing
<1>9. CASE proc[p].command # "doctor"
  <2>1. \A q \in Processes : proc'[q].command = "doctor" => q # p /\ proc'[q] = proc[q]
    BY <1>2, <1>5, <1>9
  <2>2. \A q \in Processes : Removing(proc[q]) => proc'[q] = proc[q]
    BY <1>2, <1>9 DEF Removing
  <2>3. ledger'["doctor"] # Absent =>
          ProbeTables' /\ (leftover' \/ \E q \in Processes : Removing(proc'[q]))
    BY <1>4, <1>6, <1>7, <1>9, <2>2 DEF DoctorIInv
  <2>4. \A q \in Processes : proc'[q].command = "doctor" =>
          \/ proc'[q].todo = RunDoctor
          \/ CleansUp(proc'[q].todo) /\ (proc'[q].todo \in Early \/ ProbeTables')
    BY <1>4, <2>1 DEF DoctorIInv, Probing
  <2> QED
    BY <2>3, <2>4, StaticSteps DEF DoctorIInv, Probing
<1> QED
  BY <1>8, <1>9

\* The steps of the migrations are none of a doctor's.
LEMMA MigrationKeepsDoctor ==
  ASSUME Shape, DoctorIInv, NEW p \in Processes, SelectMigration(p) \/ RunMigration(p)
  PROVE  DoctorIInv'
<1>1. PICK op \in {"select", "run"} : At(p, op)
  BY DEF SelectMigration, RunMigration
<1>2. /\ proc[p].todo \in Seq(StepType) /\ proc[p].todo # <<>>
      /\ Head(proc[p].todo)[1] = op /\ Shaped(Done(p)) /\ Done(p).command = proc[p].command
  BY <1>1, TakenStep DEF Shaped
<1>3. proc[p].command # "doctor"
  <2>1. ~DoctorTakes(Head(proc[p].todo)) /\ Head(proc[p].todo)[1] # "check"
    BY <1>1, <1>2 DEF DoctorTakes, Probes
  <2> QED
    BY <1>2, <2>1, TailCleansUp, RunDoctorCleansUp DEF DoctorIInv, Probing
<1>4. PICK s : Become(p, s) /\ (s = Ended(proc[p], 1) \/ s = Done(p)
                                  \/ s = First(Done(p), <<<<"run", Argument(p)>>>>))
  BY Zenon DEF SelectMigration, RunMigration, Rollback
<1>5. s.command # "doctor"
  BY <1>2, <1>3, <1>4, EndedCloses DEF Closed, First, Shaped, Fields
<1>6. proc'[p].command # "doctor" /\ \A q \in Processes : q # p => proc'[q] = proc[q]
  BY <1>4, <1>5 DEF Become, Shape
<1>7. ledger' = ledger /\ db' = db /\ leftover' = leftover
  BY DEF SelectMigration, RunMigration, Rollback, dbVars, ledgerVars
<1>8. \A q \in Processes :
        (proc'[q].command = "doctor" \/ proc[q].command = "doctor") => proc'[q] = proc[q]
  BY <1>3, <1>6
<1>9. ProbeTables' <=> ProbeTables
  BY <1>7 DEF ProbeTables
<1> QED
  BY <1>7, <1>8, <1>9, StaticSteps DEF DoctorIInv, Probing, Removing

LEMMA CleanKeepsDoctor ==
  ASSUME Shape, DoctorIInv, NEW p \in Processes, Removes(p)
  PROVE  DoctorIInv'
<1> DEFINE r == proc[p]
           s == proc'[p]
<1>1. /\ s.command = r.command /\ r.todo \in Seq(StepType) /\ r.todo # <<>>
      /\ Head(r.todo)[1] = "clean"
      /\ \/ s.todo = Tail(r.todo) /\ (LastRemoval(p) \/ ProbeTables)
         \/ s.todo = <<Step("clean")>> /\ ~LastRemoval(p)
      /\ \A q \in Processes : q # p => proc'[q] = proc[q]
  BY RemovalMoves
<1>2. /\ db' = db
      /\ \/ ledger'["doctor"] = Absent
         \/ /\ ledger' = ledger /\ (leftover => leftover')
            /\ LastRemoval(p) => leftover' \/ ~ProbeTables
  BY RemovalEffects
<1>3. ProbeTables' <=> ProbeTables
  BY <1>2 DEF ProbeTables
<1>4. LastRemoval(p) <=> Tail(r.todo) = <<>>
  BY <1>1 DEF LastRemoval
<1>5. r.command = "doctor" =>
        /\ CleansUp(s.todo) /\ (s.todo \in Early \/ ProbeTables)
        /\ ~LastRemoval(p) => s.todo \notin {<<>>, RunDoctor}
  <2> SUFFICES ASSUME r.command = "doctor"
               PROVE  /\ CleansUp(s.todo) /\ (s.todo \in Early \/ ProbeTables)
                      /\ ~LastRemoval(p) => s.todo \notin {<<>>, RunDoctor}
    OBVIOUS
  <2>1. CleansUp(r.todo)
    BY <1>1, RunDoctorCleansUp DEF DoctorIInv, Probing
  <2>2. Tail(r.todo) \in Seq(StepType) /\ CleansUp(Tail(r.todo))
    BY <1>1, <2>1, TailCleansUp
  <2>3. \A t \in Seq(StepType) : t # <<>> /\ CleansUp(t) => t # RunDoctor
    BY RunDoctorCleansUp, TailCleansUp
  <2>4. CASE s.todo = Tail(r.todo) /\ (LastRemoval(p) \/ ProbeTables)
    BY <1>4, <2>2, <2>3, <2>4 DEF Early
  <2>5. CASE s.todo = <<Step("clean")>> /\ ~LastRemoval(p)
    <3>1. <<Step("clean")>> # <<>>
      OBVIOUS
    <3> QED
      BY <2>3, <2>5, <3>1, RunDoctorCleansUp DEF Early
  <2> QED
    BY <1>1, <2>4, <2>5
<1>6. \A q \in Processes : proc'[q].command = "doctor" => Probing(proc'[q].todo)
  BY <1>1, <1>5 DEF DoctorIInv, Probing
<1>7. ASSUME ledger'["doctor"] # Absent
      PROVE  ProbeTables /\ (leftover' \/ \E q \in Processes : Removing(proc'[q]))
  <2>a. /\ ledger["doctor"] # Absent /\ (leftover => leftover')
        /\ LastRemoval(p) => leftover' \/ ~ProbeTables
    BY <1>2, <1>7, Zenon
  <2>1. ProbeTables /\ (leftover \/ \E q \in Processes : Removing(proc[q]))
    BY <2>a, Zenon DEF DoctorIInv
  <2>2. CASE leftover \/ LastRemoval(p)
    BY <2>a, <2>1, <2>2
  <2>3. CASE ~leftover /\ ~LastRemoval(p)
    <3>1. PICK q \in Processes : Removing(proc[q])
      BY <2>1, <2>3
    <3>2. Removing(proc'[q])
      BY <1>1, <1>5, <2>3, <3>1 DEF Removing
    <3> QED
      BY <2>1, <3>2
  <2> QED
    BY <2>2, <2>3
<1> QED
  BY <1>3, <1>6, <1>7, StaticSteps DEF DoctorIInv, Probing

LEMMA StartKeepsDoctor ==
  ASSUME Shape, DoctorIInv, NEW p \in Processes, NEW command \in Commands, Start(p, command)
  PROVE  DoctorIInv'
<1>1. ledger' = ledger /\ db' = db /\ leftover' = leftover
  <2>1. UNCHANGED <<dbVars, ledgerVars>>
    BY Zenon DEF Start
  <2> QED
    BY <2>1 DEF dbVars, ledgerVars
<1>2. /\ proc[p].command = "none"
      /\ \/ Closed(proc'[p])
         \/ /\ Shaped(proc'[p]) /\ proc'[p].command = command
            /\ proc'[p].todo = Steps(command)
      /\ \A q \in Processes : q # p => Keeps(proc[q], proc'[q])
  BY StartChanges
<1>3. proc'[p].command = "doctor" => proc'[p].todo = RunDoctor
  BY <1>2 DEF Closed, Steps
<1>4. ProbeTables' <=> ProbeTables
  BY <1>1 DEF ProbeTables
<1>5. \A q \in Processes : q # p =>
        proc'[q].command = proc[q].command /\ proc'[q].todo = proc[q].todo
  BY <1>2 DEF Keeps
<1>6. \A q \in Processes : proc'[q].command = "doctor" => Probing(proc'[q].todo)
  BY <1>3, <1>5 DEF DoctorIInv, Probing
<1>7. \A q \in Processes : Removing(proc[q]) => Removing(proc'[q])
  BY <1>2, <1>5 DEF Removing
<1> QED
  BY <1>1, <1>4, <1>6, <1>7, StaticSteps DEF DoctorIInv, Probing

LEMMA DoctorStep ==
  SchemaIInv /\ DoctorIInv /\ [Next]_vars => DoctorIInv'
<1> SUFFICES ASSUME SchemaIInv, DoctorIInv, [Next]_vars
             PROVE  DoctorIInv'
  OBVIOUS
<1>s. Shape
  BY DEF SchemaIInv
<1>1. CASE UNCHANGED vars
  BY <1>1, StaticSteps DEF DoctorIInv, Probing, ProbeTables, vars, dbVars, ledgerVars
<1>2. ASSUME NEW p \in Processes, NEW command \in Commands, Start(p, command)
      PROVE  DoctorIInv'
  BY <1>s, <1>2, StartKeepsDoctor
<1>3. ASSUME NEW p \in Processes,
             Proceed(p) \/ StatementFails(p) \/ AppendFails(p) \/ Crash(p)
      PROVE  DoctorIInv'
  <2>1. CASE SelectMigration(p) \/ RunMigration(p)
    BY <1>s, <2>1, MigrationKeepsDoctor
  <2>2. CASE Removes(p)
    BY <1>s, <2>2, CleanKeepsDoctor
  <2>3. CASE ~SelectMigration(p) /\ ~RunMigration(p) /\ ~Removes(p)
    <3>1. Effects(p)
      BY <1>3, <2>3, OtherEffects
    <3> QED
      BY <1>s, <3>1, EffectsKeepDoctor
  <2> QED
    BY <2>1, <2>2, <2>3
<1> QED
  BY <1>1, <1>2, <1>3 DEF Next

(***************************************************************************)
(* Rows of a probe outlive the doctors only when one was killed, or when   *)
(* the database refused its last removal, whatever else fails on the way   *)
(* and whoever else probes: the finally of runDoctor is reached from every *)
(* error of its calls, and the tables it needs are there once a row is.    *)
(***************************************************************************)
THEOREM DoctorRemovesProbe == Spec => []ProbeRowsRemoved
<1>1. Init => SchemaIInv /\ DoctorIInv
  BY SchemaInit, DoctorInit
<1>2. SchemaIInv /\ DoctorIInv /\ [Next]_vars => (SchemaIInv /\ DoctorIInv)'
  BY SchemaStep, DoctorStep
<1>3. DoctorIInv => ProbeRowsRemoved
  BY DEF DoctorIInv, Removing, ProbeRowsRemoved
<1> QED
  BY <1>1, <1>2, <1>3, PTL DEF Spec

-----------------------------------------------------------------------------
(***************************************************************************)
(* The verdict of a doctor that no other command runs beside.  Its steps   *)
(* are followed one by one: what is left of them, and what they have made  *)
(* of the row of its probe.                                                *)
(***************************************************************************)
Ready == ToSet(PublicMigrationNames) \subseteq db.recorded \cap db.objects

\* The steps of a doctor from the kth on.
Rest(k) == SubSeq(RunDoctor, k, 9)

\* todo starts with a step, and goes on from the kth step of a doctor.
Begins(todo, step, k) ==
  todo \in Seq(StepType) /\ todo # <<>> /\ Head(todo) = step /\ Tail(todo) = Rest(k)

LEMMA DoctorRests ==
  /\ RunDoctor # <<>> /\ Head(RunDoctor) = Step("check") /\ Tail(RunDoctor) = Rest(2)
  /\ Begins(Rest(2), Step("clean"), 3) /\ Begins(Rest(3), Step("claim"), 4)
  /\ Begins(Rest(4), Step("catch"), 5) /\ Begins(Rest(5), Step("surfaced"), 6)
  /\ Begins(Rest(6), Step("claim"), 7) /\ Begins(Rest(7), Step("judge"), 8)
  /\ Begins(Rest(8), Step("catch"), 9) /\ Begins(Rest(9), Step("clean"), 10)
  /\ Rest(10) = <<>>
<1> DEFINE d == RunDoctor
<1>1. d \in Seq(StepType)
  BY ScenariosMigrationFree
<1>2. /\ Len(d) = 9 /\ DOMAIN d = 1..9
      /\ d[1] = Step("check") /\ d[2] = Step("clean") /\ d[3] = Step("claim")
      /\ d[4] = Step("catch") /\ d[5] = Step("surfaced") /\ d[6] = Step("claim")
      /\ d[7] = Step("judge") /\ d[8] = Step("catch") /\ d[9] = Step("clean")
  BY DEF RunDoctor
<1> HIDE DEF d
<1>3. \A k \in 1..9 : Rest(k) = SubSeq(d, k, 9)
  BY DEF Rest, d
<1>4. \A i \in 1..9 : d[i] \in StepType
  BY <1>1, <1>2, ElementOfSeq
<1>5. ASSUME NEW k \in 1..9
      PROVE  Begins(Rest(k), d[k], k + 1)
  <2>1. k \in Nat /\ 9 \in k..9 /\ k \in 1..Len(d) /\ \A i \in k..9 : d[i] \in StepType
    BY <1>2, <1>4
  <2>2. /\ Head(SubSeq(d, k, 9)) = d[k]
        /\ Tail(SubSeq(d, k, 9)) = SubSeq(d, k + 1, 9)
    BY <1>1, <2>1, HeadTailOfSubSeq
  <2>3. SubSeq(d, k, 9) \in Seq(StepType) /\ Len(SubSeq(d, k, 9)) = 9 - k + 1
    BY <2>1, SubSeqProperties
  <2>4. SubSeq(d, k, 9) # <<>>
    BY <2>1, <2>3, EmptySeq
  <2>5. Rest(k) = SubSeq(d, k, 9) /\ Rest(k + 1) = SubSeq(d, k + 1, 9)
    BY Zenon DEF Rest, d
  <2> QED
    BY <2>2, <2>3, <2>4, <2>5, Zenon DEF Begins
<1>6. Rest(10) = <<>>
  BY SubSeqEmpty DEF Rest
<1>7. d # <<>> /\ Head(d) = Step("check") /\ Tail(d) = Rest(2)
  <2>1. d # <<>>
    BY <1>1, <1>2, EmptySeq
  <2>2. Tail(d) = SubSeq(d, 2, Len(d))
    BY <1>1, <2>1, TailIsSubSeq
  <2>3. Head(d) = d[1]
    OBVIOUS
  <2> QED
    <3>1. Rest(2) = SubSeq(d, 2, 9)
      BY DEF Rest, d
    <3> QED
      BY <1>2, <2>1, <2>2, <2>3, <3>1
<1>8. /\ Begins(Rest(2), d[2], 3) /\ Begins(Rest(3), d[3], 4) /\ Begins(Rest(4), d[4], 5)
      /\ Begins(Rest(5), d[5], 6) /\ Begins(Rest(6), d[6], 7) /\ Begins(Rest(7), d[7], 8)
      /\ Begins(Rest(8), d[8], 9) /\ Begins(Rest(9), d[9], 10)
  <2>1. \A k \in 2..9 : Begins(Rest(k), d[k], k + 1)
    BY <1>5
  <2> QED
    BY <2>1
<1> QED
  BY <1>2, <1>6, <1>7, <1>8 DEF d

\* A catch that comes first catches.
LEMMA CatchFirst ==
  ASSUME NEW t \in Seq(StepType), t # <<>>, Catches(Head(t))
  PROVE  (\E i \in DOMAIN t : Catches(t[i])) /\ AfterCatch(t) = Tail(t)
<1>1. Tail(t) = SubSeq(t, 2, Len(t))
  BY TailIsSubSeq
<1>2. Len(t) \in Nat /\ DOMAIN t = 1..Len(t) /\ Len(t) # 0
  BY LenProperties, EmptySeq
<1>3. 1 \in DOMAIN t /\ Catches(t[1])
  BY <1>2
<1> DEFINE P(i) == Catches(t[i]) /\ \A j \in 1..(i - 1) : ~Catches(t[j])
<1>4. \A i \in DOMAIN t : P(i) <=> i = 1
  BY <1>2, <1>3
<1>5. AfterCatch(t) = SubSeq(t, (CHOOSE i \in DOMAIN t : P(i)) + 1, Len(t))
  BY Zenon DEF AfterCatch
<1> HIDE DEF P
<1> DEFINE c == CHOOSE i \in DOMAIN t : P(i)
<1>6. c = 1
  BY <1>3, <1>4
<1> HIDE DEF c
<1>7. AfterCatch(t) = SubSeq(t, c + 1, Len(t))
  BY <1>5 DEF c
<1>8. c + 1 = 2
  BY <1>6
<1> QED
  BY <1>1, <1>3, <1>7, <1>8

\* The head and the tail of a sequence that has a step put before it.
LEMMA Prepended ==
  ASSUME NEW a \in StepType, NEW t \in Seq(StepType)
  PROVE  <<a>> \o t \in Seq(StepType) /\ <<a>> \o t # <<>> /\ Head(<<a>> \o t) = a
         /\ Tail(<<a>> \o t) = t
<1>1. <<a>> \in Seq(StepType) /\ Len(<<a>>) = 1 /\ <<a>>[1] = a
  BY OneStep
<1> DEFINE u == <<a>> \o t
<1>2. u \in Seq(StepType) /\ Len(u) = Len(<<a>>) + Len(t)
      /\ \A i \in 1..(Len(<<a>>) + Len(t)) :
           u[i] = IF i <= Len(<<a>>) THEN <<a>>[i] ELSE t[i - Len(<<a>>)]
  BY <1>1, ConcatProperties
<1>3. Len(t) \in Nat
  BY LenProperties
<1>4. Len(u) = 1 + Len(t) /\ u[1] = a /\ \A i \in 1..Len(t) : u[i + 1] = t[i]
  BY <1>1, <1>2, <1>3
<1> HIDE DEF u
<1>5. u # <<>> /\ Head(u) = a
  BY <1>2, <1>3, <1>4, EmptySeq
<1>6. Tail(u) \in Seq(StepType) /\ Len(Tail(u)) = Len(u) - 1
      /\ \A i \in 1..Len(Tail(u)) : Tail(u)[i] = u[i + 1]
  BY <1>2, <1>5, HeadTailProperties
<1>7. Len(Tail(u)) = Len(t) /\ \A i \in 1..Len(Tail(u)) : Tail(u)[i] = t[i]
  BY <1>3, <1>4, <1>6
<1>8. Tail(u) = t
  BY <1>6, <1>7, SeqEqual
<1> QED
  BY <1>2, <1>5, <1>8 DEF u

LEMMA PrependedTwo ==
  ASSUME NEW a \in StepType, NEW b \in StepType, NEW t \in Seq(StepType)
  PROVE  LET u == <<a, b>> \o t IN
         u \in Seq(StepType) /\ u # <<>> /\ Head(u) = a /\ Tail(u) = <<b>> \o t
<1>1. /\ <<b>> \o t \in Seq(StepType) /\ Len(<<b>> \o t) = 1 + Len(t)
      /\ (<<b>> \o t)[1] = b /\ \A i \in 1..Len(t) : (<<b>> \o t)[i + 1] = t[i]
  <2> DEFINE v == <<b>> \o t
  <2>1. <<b>> \in Seq(StepType) /\ Len(<<b>>) = 1 /\ <<b>>[1] = b
    BY OneStep
  <2>2. /\ v \in Seq(StepType) /\ Len(v) = Len(<<b>>) + Len(t)
        /\ \A i \in 1..(Len(<<b>>) + Len(t)) :
             v[i] = IF i <= Len(<<b>>) THEN <<b>>[i] ELSE t[i - Len(<<b>>)]
    BY <2>1, ConcatProperties
  <2>3. Len(t) \in Nat
    BY LenProperties
  <2> HIDE DEF v
  <2>4. Len(v) = 1 + Len(t) /\ v[1] = b /\ \A i \in 1..Len(t) : v[i + 1] = t[i]
    BY <2>1, <2>2, <2>3
  <2> QED
    BY <2>2, <2>4 DEF v
<1> DEFINE two == <<a, b>>
           u == two \o t
           w == <<b>> \o t
<1>2. two \in Seq(StepType) /\ Len(two) = 2 /\ two[1] = a /\ two[2] = b
  BY TwoSteps
<1> HIDE DEF two
<1>3. /\ u \in Seq(StepType) /\ Len(u) = Len(two) + Len(t)
      /\ \A i \in 1..(Len(two) + Len(t)) :
           u[i] = IF i <= Len(two) THEN two[i] ELSE t[i - Len(two)]
  BY <1>2, ConcatProperties
<1>4. Len(t) \in Nat
  BY LenProperties
<1> HIDE DEF u
<1>5. Len(u) = 2 + Len(t) /\ u[1] = a /\ u[2] = b
      /\ \A i \in 1..Len(t) : u[i + 2] = t[i]
  BY <1>2, <1>3, <1>4
<1>6. u # <<>> /\ Head(u) = a
  BY <1>3, <1>4, <1>5, EmptySeq
<1>7. Tail(u) \in Seq(StepType) /\ Len(Tail(u)) = Len(u) - 1
      /\ \A i \in 1..Len(Tail(u)) : Tail(u)[i] = u[i + 1]
  BY <1>3, <1>6, HeadTailProperties
<1> HIDE DEF w
<1>8. w \in Seq(StepType) /\ Len(w) = 1 + Len(t) /\ w[1] = b
      /\ \A i \in 1..Len(t) : w[i + 1] = t[i]
  BY <1>1 DEF w
<1>9. ASSUME NEW i \in 1..Len(Tail(u))
      PROVE  Tail(u)[i] = w[i]
  <2>1. CASE i = 1
    BY <1>4, <1>5, <1>7, <1>8, <2>1
  <2>2. CASE i # 1
    <3>1. i - 1 \in 1..Len(t) /\ (i - 1) + 2 = i + 1 /\ (i - 1) + 1 = i
      BY <1>4, <1>5, <1>7, <1>9, <2>2
    <3>2. u[i + 1] = t[i - 1] /\ w[i] = t[i - 1]
      <4>1. u[(i - 1) + 2] = t[i - 1] /\ w[(i - 1) + 1] = t[i - 1]
        BY <1>5, <1>8, <3>1
      <4> QED
        BY <3>1, <4>1
    <3> QED
      BY <1>7, <3>2
  <2> QED
    BY <2>1, <2>2
<1>10. Tail(u) = w
  <2>1. Len(Tail(u)) = Len(w)
    BY <1>4, <1>5, <1>7, <1>8
  <2> QED
    BY <1>7, <1>8, <1>9, <2>1, SeqEqual
<1> QED
  BY <1>3, <1>6, <1>10 DEF u, two, w

(***************************************************************************)
(* What no step of a command forgets: who ran beside it, that a statement  *)
(* failed, and that a check did.                                           *)
(***************************************************************************)
Remembered(r, s) ==
  /\ DOMAIN s = Fields /\ s.disturbed = r.disturbed /\ (r.lost => s.lost)
  /\ ~r.ok => IF s.command = "none" THEN s.code = 1 ELSE ~s.ok

LEMMA UpdatesRemembered ==
  ASSUME NEW r, DOMAIN r = Fields, r.command # "none"
  PROVE  /\ Remembered(r, r) /\ Remembered(r, Ended(r, 1))
         /\ \A steps : Remembered(r, First(r, steps)) /\ First(r, steps).command = r.command
         /\ \A names : Remembered(r, Emit(r, names)) /\ Emit(r, names).command = r.command
         /\ \A receipt : Remembered(r, Returned(r, receipt))
         /\ Remembered(r, StorageError(r))
         /\ \A unknown : Remembered(r, Thrown(r, unknown))
<1>1. Remembered(r, r) /\ Remembered(r, Ended(r, 1))
  BY DEF Remembered, Ended, IdleProcess, Fields
<1>2. \A s : DOMAIN s = Fields /\ s.command # "none" =>
        \A steps : Remembered(s, First(s, steps)) /\ First(s, steps).command = s.command
  BY DEF Remembered, First, Fields
<1>3. \A names : Remembered(r, Emit(r, names)) /\ Emit(r, names).command = r.command
  BY DEF Remembered, Emit, Fields
<1>4. \A receipt : Remembered(r, Returned(r, receipt))
  BY DEF Remembered, Returned, Fields
<1>5. Remembered(r, StorageError(r))
  BY <1>2, <1>3 DEF StorageError, Remembered
<1>6. ASSUME NEW unknown
      PROVE  Remembered(r, Thrown(r, unknown))
  <2> DEFINE v == r.ok /\ unknown /\ r.call = 1
             caught == [r EXCEPT !.todo = AfterCatch(r.todo), !.unknown = unknown, !.ok = v]
  <2>1. ~r.ok => ~v
    OBVIOUS
  <2> HIDE DEF v
  <2>2. Remembered(r, caught)
    BY <2>1 DEF Remembered, Fields
  <2>3. Thrown(r, unknown) = caught \/ Thrown(r, unknown) = Ended(r, 1)
    BY Zenon DEF Thrown, v
  <2> HIDE DEF caught
  <2> QED
    BY <1>1, <2>2, <2>3
<1> QED
  BY <1>1, <1>2, <1>3, <1>4, <1>5, <1>6

LEMMA RememberedOn ==
  ASSUME NEW r, NEW s, NEW t, Remembered(r, s), s.command # "none", Remembered(s, t)
  PROVE  Remembered(r, t)
BY DEF Remembered

\* A process that takes its next step.
LEMMA TakenRemembered ==
  ASSUME Shape, NEW p \in Processes, proc[p].command # "none"
  PROVE  /\ DOMAIN proc[p] = Fields /\ Remembered(proc[p], Done(p))
         /\ Remembered(proc[p], Called(p)) /\ Done(p).command = proc[p].command
         /\ Called(p).command = proc[p].command
         /\ \A s : Become(p, s) => proc'[p] = s
BY DEF Shape, Shaped, Remembered, Done, Called, Become, Fields

\* A statement that failed is remembered, and whatever was before it.
LEMMA LostRemembered ==
  ASSUME Shape, NEW p \in Processes, proc[p].command # "none"
  PROVE  Remembered(proc[p], Failed(p)) /\ Remembered(proc[p], Lost(p)) /\ Lost(p).lost
<1> DEFINE r == proc[p]
           op == Head(r.todo)[1]
           claimed == [Done(p) EXCEPT !.call = @ + 1]
           checked == [Done(p) EXCEPT !.ok = FALSE]
           removed == [Done(p) EXCEPT !.todo = <<Step("clean")>>, !.ok = FALSE]
<1>1. /\ DOMAIN r = Fields /\ Remembered(r, Done(p)) /\ Done(p).command = r.command
      /\ DOMAIN Done(p) = Fields
  BY TakenRemembered DEF Remembered
<1>2. /\ Remembered(r, claimed) /\ claimed.command = r.command
      /\ Remembered(r, checked) /\ Remembered(r, removed)
  BY <1>1 DEF Remembered, Fields
<1>3. Failed(p) \in {StorageError(claimed), StorageError(Done(p)), checked, Done(p), removed,
                     Thrown(Done(p), FALSE)}
  BY Zenon DEF Failed
<1>4. Remembered(r, StorageError(claimed))
  <2> HIDE DEF claimed
  <2>1. Remembered(claimed, StorageError(claimed))
    BY <1>2, UpdatesRemembered DEF Remembered
  <2> QED
    BY <1>2, <2>1, RememberedOn
<1>5. Remembered(r, StorageError(Done(p))) /\ Remembered(r, Thrown(Done(p), FALSE))
  <2>1. Remembered(Done(p), StorageError(Done(p))) /\ Remembered(Done(p), Thrown(Done(p), FALSE))
    BY <1>1, UpdatesRemembered
  <2> QED
    BY <1>1, <2>1, RememberedOn
<1> HIDE DEF claimed, checked, removed
<1>6. Remembered(r, Failed(p))
  BY <1>1, <1>2, <1>3, <1>4, <1>5
<1>7. Remembered(r, Lost(p)) /\ Lost(p).lost
  BY <1>6 DEF Lost, Remembered, Fields
<1> QED
  BY <1>6, <1>7

(***************************************************************************)
(* The steps of a doctor, by what is next.                                 *)
(***************************************************************************)
Own(p) == Proceed(p) \/ StatementFails(p) \/ AppendFails(p) \/ Crash(p)

ClaimSteps(p) == ClaimNew(p) \/ ClaimTerminal(p) \/ ClaimTaken(p) \/ ClaimWaitTimesOut(p)

DoctorDoes(p) ==
  \/ At(p, "check") /\ DoctorChecksSchema(p)
  \/ At(p, "clean") /\ CleanProbe(p)
  \/ At(p, "claim") /\ ClaimSteps(p)
  \/ At(p, "submit") /\ MarkSubmitted(p)
  \/ At(p, "act") /\ ActOnFake(p)
  \/ At(p, "reconcile") /\ Reconcile(p)
  \/ (At(p, "record") \/ At(p, "resolve")) /\ RecordOutcome(p)
  \/ At(p, "throw") /\ Throw(p)
  \/ At(p, "throw_unknown") /\ ThrowUnknown(p)
  \/ At(p, "catch") /\ Catch(p)
  \/ At(p, "surfaced") /\ CheckSurfaced(p)
  \/ At(p, "judge") /\ JudgeProbe(p)
  \/ proc[p].todo = <<>> /\ Finish(p)

LEMMA DoctorSteps ==
  ASSUME Shape, DoctorIInv, NEW p \in Processes, proc[p].command = "doctor", Own(p)
  PROVE  DoctorDoes(p) \/ StatementFails(p) \/ Crash(p)
<1>1. proc[p].events = <<>>
  BY DEF Shape, Shaped
<1>2. ASSUME NEW op, At(p, op)
      PROVE  op \in {"claim", "submit", "act", "reconcile", "record", "resolve", "throw",
                     "throw_unknown", "check", "clean", "catch", "surfaced", "judge"}
  <2>1. proc[p].todo \in Seq(StepType) /\ proc[p].todo # <<>> /\ Head(proc[p].todo)[1] = op
    BY <1>2, TakenStep DEF Shaped
  <2>2. CASE proc[p].todo = RunDoctor
    BY <2>1, <2>2, RunDoctorCleansUp
  <2>3. CASE CleansUp(proc[p].todo)
    BY <2>1, <2>3, TailCleansUp DEF DoctorTakes, Probes
  <2> QED
    BY <2>2, <2>3 DEF DoctorIInv, Probing
<1>3. ~AppendRecord(p) /\ ~AppendFails(p)
  BY <1>1 DEF AppendRecord, AppendFails
<1>4. /\ ~CreateBookkeeping(p) /\ ~AwaitCreate(p) /\ ~SelectMigration(p) /\ ~RunMigration(p)
      /\ ~CommitMigrations(p) /\ ~EnsurePilotSchema(p) /\ ~Summary(p)
  BY <1>2 DEF CreateBookkeeping, AwaitCreate, SelectMigration, RunMigration, CommitMigrations,
              EnsurePilotSchema, Summary
<1>5. /\ ~Truncate(p) /\ ~RemoveFile(p) /\ ~SeedPilotCase(p) /\ ~MarkPending(p)
      /\ ~SettleCase(p) /\ ~RunUnsafeRefund(p) /\ ~Observe(p) /\ ~FinalizeObservation(p)
      /\ ~PrepareIntent(p) /\ ~CheckSameReceipt(p)
  BY <1>2 DEF Truncate, RemoveFile, SeedPilotCase, MarkPending, SettleCase, RunUnsafeRefund,
              Observe, FinalizeObservation, PrepareIntent, CheckSameReceipt
<1>6. ~ActOnStripe(p)
  BY DEF ActOnStripe, Faked
<1>7. /\ DoctorChecksSchema(p) => At(p, "check")
      /\ CleanProbe(p) => At(p, "clean")
      /\ ClaimSteps(p) => At(p, "claim")
      /\ MarkSubmitted(p) => At(p, "submit")
      /\ ActOnFake(p) => At(p, "act")
      /\ Reconcile(p) => At(p, "reconcile")
      /\ RecordOutcome(p) => At(p, "record") \/ At(p, "resolve")
  BY DEF DoctorChecksSchema, CleanProbe, ClaimSteps, ClaimNew, ClaimTerminal, ClaimTaken,
         ClaimWaitTimesOut, MarkSubmitted, ActOnFake, Reconcile, RecordOutcome
<1>8. /\ Throw(p) => At(p, "throw")
      /\ ThrowUnknown(p) => At(p, "throw_unknown")
      /\ Catch(p) => At(p, "catch")
      /\ CheckSurfaced(p) => At(p, "surfaced")
      /\ JudgeProbe(p) => At(p, "judge")
      /\ Finish(p) => proc[p].todo = <<>>
  BY DEF Throw, ThrowUnknown, Catch, CheckSurfaced, JudgeProbe, Finish
<1> QED
  BY <1>3, <1>4, <1>5, <1>6, <1>7, <1>8, Zenon DEF Own, Proceed, DoctorDoes, ClaimSteps

\* A doctor changes neither the schema nor another process.
LEMMA DoctorFrame ==
  ASSUME Shape, NEW p \in Processes, DoctorDoes(p) \/ StatementFails(p) \/ Crash(p)
  PROVE  /\ db' = db /\ config' = config
         /\ \A q \in Processes : q # p => proc'[q] = proc[q]
         /\ ~Crash(p) => crashes' = crashes
<1>1. CASE DoctorChecksSchema(p) \/ CleanProbe(p) \/ MarkSubmitted(p) \/ ActOnFake(p)
  <2>1. /\ db' = db /\ config' = config /\ crashes' = crashes /\ \E s : Become(p, s)
    BY <1>1, Zenon DEF DoctorChecksSchema, CleanProbe, MarkSubmitted, ActOnFake, Answered, dbVars, bounds
  <2> QED
    BY <2>1 DEF Become, Shape
<1>2. CASE ClaimSteps(p)
  <2>1. /\ db' = db /\ config' = config /\ crashes' = crashes /\ \E s : Become(p, s)
    BY <1>2, Zenon DEF ClaimSteps, ClaimNew, ClaimTerminal, ClaimTaken, ClaimWaitTimesOut, Answered,
           dbVars, bounds
  <2> QED
    BY <2>1 DEF Become, Shape
<1>3. CASE Reconcile(p) \/ RecordOutcome(p) \/ Throw(p) \/ ThrowUnknown(p)
  <2>1. /\ db' = db /\ config' = config /\ crashes' = crashes /\ \E s : Become(p, s)
    BY <1>3, Zenon DEF Reconcile, RecordOutcome, Throw, ThrowUnknown, Answered, dbVars, bounds
  <2> QED
    BY <2>1 DEF Become, Shape
<1>4. CASE Catch(p) \/ CheckSurfaced(p) \/ JudgeProbe(p) \/ Finish(p)
  <2>1. /\ db' = db /\ config' = config /\ crashes' = crashes /\ \E s : Become(p, s)
    BY <1>4, Zenon DEF Catch, CheckSurfaced, JudgeProbe, Finish, dbVars, bounds
  <2> QED
    BY <2>1 DEF Become, Shape
<1>5. CASE StatementFails(p)
  <2>1. /\ db' = db /\ config' = config /\ crashes' = crashes /\ \E s : Become(p, s)
    BY <1>5, Zenon DEF StatementFails, bounds
  <2> QED
    BY <2>1 DEF Become, Shape
<1>6. CASE Crash(p)
  BY <1>6 DEF Crash, Become, Shape
<1> QED
  BY <1>1, <1>2, <1>3, <1>4, <1>5, <1>6 DEF DoctorDoes

\* Any step of it remembers.
LEMMA DoctorRemembers ==
  ASSUME Shape, NEW p \in Processes, proc[p].command = "doctor",
         DoctorDoes(p) \/ StatementFails(p)
  PROVE  Remembered(proc[p], proc'[p])
<1> DEFINE r == proc[p]
           d == Done(p)
           c == Called(p)
<1>1. /\ DOMAIN r = Fields /\ Remembered(r, d) /\ Remembered(r, c)
      /\ d.command = "doctor" /\ c.command = "doctor"
      /\ \A s : Become(p, s) => proc'[p] = s
      /\ DOMAIN d = Fields /\ DOMAIN c = Fields
  BY TakenRemembered DEF Remembered
<1>2. Remembered(r, Lost(p)) /\ Remembered(r, Failed(p)) /\ Remembered(r, Ended(r, 1))
  BY <1>1, LostRemembered, UpdatesRemembered
<1>3. SUFFICES \E s : Become(p, s) /\ Remembered(r, s)
  BY <1>1
<1> HIDE DEF d, c
<1>4. CASE StatementFails(p)
  BY <1>2, <1>4 DEF StatementFails
<1>5. CASE DoctorChecksSchema(p)
  <2> DEFINE v == d.ok /\ ToSet(PublicMigrationNames) \subseteq db.recorded \cap db.objects
             one == [d EXCEPT !.ok = v]
             two == [Lost(p) EXCEPT !.todo = <<>>]
  <2>1. Become(p, one) \/ Become(p, two)
    BY <1>5, Zenon DEF DoctorChecksSchema, d
  <2>2. ~d.ok => ~v
    OBVIOUS
  <2> HIDE DEF v
  <2>3. Remembered(r, one)
    BY <1>1, <2>2 DEF Remembered, Fields
  <2>4. Remembered(r, two)
    BY <1>2 DEF Remembered, Fields
  <2> QED
    BY <2>1, <2>3, <2>4
<1>6. CASE CleanProbe(p)
  BY <1>1, <1>2, <1>6, Zenon DEF CleanProbe, Answered, d
<1>7. CASE JudgeProbe(p)
  <2> DEFINE v == /\ d.ok /\ proc[p].receipts[2].status = "CONFIRMED"
                  /\ Len(proc[p].refunds) = 1
             one == [d EXCEPT !.ok = v]
  <2>1. Become(p, one)
    BY <1>7, Zenon DEF JudgeProbe, d
  <2>2. ~d.ok => ~v
    OBVIOUS
  <2> HIDE DEF v
  <2>3. Remembered(r, one)
    BY <1>1, <2>2 DEF Remembered, Fields
  <2> QED
    BY <2>1, <2>3
<1>8. CASE CheckSurfaced(p)
  <2>1. Become(p, d) \/ Become(p, [d EXCEPT !.ok = FALSE])
    BY <1>8, Zenon DEF CheckSurfaced, d
  <2>2. Remembered(r, [d EXCEPT !.ok = FALSE])
    BY <1>1 DEF Remembered, Fields
  <2> QED
    BY <1>1, <2>1, <2>2
<1>9. CASE Catch(p) \/ Throw(p) \/ ThrowUnknown(p) \/ ClaimWaitTimesOut(p)
  <2>1. \E s : Become(p, s) /\ (s = d \/ \E u : s = Thrown(d, u) \/ s = Thrown(c, u))
    BY <1>9, Zenon DEF Catch, Throw, ThrowUnknown, ClaimWaitTimesOut, d, c
  <2>2. \A u : Remembered(d, Thrown(d, u)) /\ Remembered(c, Thrown(c, u))
    BY <1>1, UpdatesRemembered
  <2>3. \A u : Remembered(r, Thrown(d, u)) /\ Remembered(r, Thrown(c, u))
    BY <1>1, <2>2, RememberedOn
  <2> QED
    BY <1>1, <2>1, <2>3
<1>10. CASE Finish(p)
  <2>1. Become(p, Ended(r, 0)) \/ Become(p, Ended(r, 1))
    BY <1>10, Zenon DEF Finish
  <2>2. r.ok => Remembered(r, Ended(r, 0))
    BY <1>1 DEF Remembered, Ended, IdleProcess, Fields
  <2>3. ~r.ok => Become(p, Ended(r, 1))
    BY <1>10, Zenon DEF Finish
  <2> QED
    BY <1>2, <2>1, <2>2, <2>3
<1>11. \A t : Remembered(r, t) /\ t.command = "doctor" =>
         /\ \A names : Remembered(r, Emit(t, names)) /\ Emit(t, names).command = "doctor"
         /\ \A steps : Remembered(r, First(t, steps)) /\ First(t, steps).command = "doctor"
         /\ \A receipt : Remembered(r, Returned(t, receipt))
                         /\ Returned(t, receipt).command = "doctor"
         /\ Remembered(r, StorageError(t))
  <2> SUFFICES ASSUME NEW t, Remembered(r, t), t.command = "doctor"
               PROVE  /\ \A names : Remembered(r, Emit(t, names)) /\ Emit(t, names).command = "doctor"
                      /\ \A steps : Remembered(r, First(t, steps)) /\ First(t, steps).command = "doctor"
                      /\ \A receipt : Remembered(r, Returned(t, receipt))
                                      /\ Returned(t, receipt).command = "doctor"
                      /\ Remembered(r, StorageError(t))
    OBVIOUS
  <2>1. DOMAIN t = Fields
    BY DEF Remembered
  <2>2. \A receipt : Returned(t, receipt).command = "doctor"
    BY <2>1 DEF Returned, Fields
  <2>3. /\ \A steps : Remembered(t, First(t, steps)) /\ First(t, steps).command = t.command
        /\ \A names : Remembered(t, Emit(t, names)) /\ Emit(t, names).command = t.command
        /\ \A receipt : Remembered(t, Returned(t, receipt))
        /\ Remembered(t, StorageError(t))
    BY <2>1, UpdatesRemembered
  <2>4. \A u : Remembered(t, u) => Remembered(r, u)
    BY RememberedOn
  <2> QED
    BY <2>2, <2>3, <2>4
<1>12. CASE ClaimNew(p)
  <2> DEFINE t == First(c, <<Step("submit"), Step("act")>>)
             u == [t EXCEPT !.operation = nextId]
  <2>1. Become(p, Emit(u, <<"guarded_operation">>)) \/ Become(p, Lost(p))
    BY <1>12, Zenon DEF ClaimNew, Answered, c
  <2>2. Remembered(r, t) /\ t.command = "doctor"
    BY <1>1, <1>11
  <2> HIDE DEF t
  <2>3. Remembered(r, u) /\ u.command = "doctor"
    BY <2>2 DEF Remembered, Fields
  <2> QED
    BY <1>2, <1>11, <2>1, <2>3
<1>13. CASE ClaimTerminal(p)
  <2>1. \E receipt : Become(p, Emit(Returned(c, receipt), Suppressed))
    BY <1>13, Zenon DEF ClaimTerminal, c
  <2> QED
    BY <1>1, <1>11, <2>1
<1>14. CASE ClaimTaken(p)
  <2> DEFINE t == [c EXCEPT !.operation = Row(p).id]
  <2>1. Become(p, Lost(p)) \/ \E steps, names : Become(p, Emit(First(t, steps), names))
    BY <1>14, Zenon DEF ClaimTaken, Answered, c
  <2>2. Remembered(r, t) /\ t.command = "doctor"
    BY <1>1 DEF Remembered, Fields
  <2> HIDE DEF t
  <2> QED
    BY <1>2, <1>11, <2>1, <2>2
<1>15. CASE MarkSubmitted(p)
  <2>1. Become(p, Lost(p)) \/ Become(p, d) \/ Become(p, StorageError(d))
    BY <1>15, Zenon DEF MarkSubmitted, Answered, d
  <2> QED
    BY <1>1, <1>2, <1>11, <2>1
<1>16. \A op, status : Remembered(r, Outcome(p, op, status))
                       /\ Outcome(p, op, status).command = "doctor"
  BY <1>1, <1>11, Zenon DEF Outcome, d
<1>17. CASE ActOnFake(p)
  <2> DEFINE t == Outcome(p, "record", "UNKNOWN")
             u == [t EXCEPT !.refunds = Append(@, proc[p].operation)]
  <2>1. Become(p, u)
    BY <1>17, Zenon DEF ActOnFake
  <2>2. Remembered(r, t) /\ t.command = "doctor"
    BY <1>16
  <2> HIDE DEF t
  <2>3. Remembered(r, u)
    BY <2>2 DEF Remembered, Fields
  <2> QED
    BY <2>1, <2>3
<1>18. CASE Reconcile(p)
  <2>1. \E status : Become(p, Outcome(p, "resolve", status))
    BY <1>18, Zenon DEF Reconcile
  <2> QED
    BY <1>16, <2>1
<1>19. CASE RecordOutcome(p)
  <2>1. \/ Become(p, Lost(p)) \/ Become(p, StorageError(d))
        \/ \E op, status : Become(p, Recorded(p, op, status))
    BY <1>19, Zenon DEF RecordOutcome, Answered, d
  <2>2. \A op, status : Remembered(r, Recorded(p, op, status))
    <3> SUFFICES ASSUME NEW op, NEW status
                 PROVE  Remembered(r, Recorded(p, op, status))
      OBVIOUS
    <3>1. \/ \E receipt, names : Recorded(p, op, status) = Emit(Returned(d, receipt), names)
          \/ \E steps, names : Recorded(p, op, status) = First(Emit(d, names), steps)
          \/ \E steps : Recorded(p, op, status) = First(d, steps)
      BY Zenon DEF Recorded, d
    <3> QED
      BY <1>1, <1>11, <3>1
  <2> QED
    BY <1>1, <1>2, <1>11, <2>1, <2>2
<1> QED
  BY <1>4, <1>5, <1>6, <1>7, <1>8, <1>9, <1>10, <1>12, <1>13, <1>14, <1>15, <1>17, <1>18, <1>19
     DEF DoctorDoes, ClaimSteps

(***************************************************************************)
(* The course of a doctor whose first check passed: r is the process p,    *)
(* row the row of its probe.                                               *)
(***************************************************************************)
Mine(p, r, row, status) == row = [id |-> r.operation, status |-> status, owner |-> p]

Asks(r, row) ==
  /\ r.call = 0 /\ r.refunds = <<>>
  /\ r.todo = Rest(2) \/ (r.todo = Rest(3) /\ row = Absent)

Executes(p, r, row) ==
  /\ r.call = 1 /\ r.refunds = <<>>
  /\ \/ /\ r.todo # <<>> /\ Head(r.todo) = Step("submit")
        /\ Begins(Tail(r.todo), Step("act"), 4) /\ Mine(p, r, row, "CLAIMED")
     \/ Begins(r.todo, Step("act"), 4) /\ Mine(p, r, row, "SUBMITTED")

Surfaces(p, r, row) ==
  /\ r.call = 1 /\ r.refunds = <<r.operation>>
  /\ \/ Begins(r.todo, <<"record", "UNKNOWN">>, 4) /\ Mine(p, r, row, "SUBMITTED")
     \/ /\ \/ Begins(r.todo, Step("throw_unknown"), 4)
           \/ r.todo = Rest(5) /\ r.unknown
           \/ r.todo = Rest(6)
        /\ Mine(p, r, row, "UNKNOWN")

Resolves(p, r, row) ==
  /\ r.call = 2 /\ r.refunds = <<r.operation>> /\ Mine(p, r, row, "RECONCILING")
  /\ Begins(r.todo, Step("reconcile"), 7) \/ Begins(r.todo, <<"resolve", "CONFIRMED">>, 7)

Concludes(r) ==
  \/ r.todo = Rest(7) /\ Len(r.refunds) = 1 /\ r.receipts[2].status = "CONFIRMED"
  \/ r.todo \in {Rest(8), Rest(9), Rest(10)}

Course(p, r, row) ==
  /\ r.ok /\ DOMAIN r.receipts = {1, 2}
  /\ Asks(r, row) \/ Executes(p, r, row) \/ Surfaces(p, r, row) \/ Resolves(p, r, row)
       \/ Concludes(r)

\* What is next decides which step is taken.
LEMMA NextStep ==
  ASSUME NEW p, DoctorDoes(p), proc[p].todo # <<>>
  PROVE  LET op == Head(proc[p].todo)[1] IN
         /\ op = "check" => DoctorChecksSchema(p)
         /\ op = "clean" => CleanProbe(p)
         /\ op = "claim" => ClaimSteps(p)
         /\ op = "submit" => MarkSubmitted(p)
         /\ op = "act" => ActOnFake(p)
         /\ op = "reconcile" => Reconcile(p)
         /\ op \in {"record", "resolve"} => RecordOutcome(p)
         /\ op = "throw_unknown" => ThrowUnknown(p)
         /\ op = "catch" => Catch(p)
         /\ op = "surfaced" => CheckSurfaced(p)
         /\ op = "judge" => JudgeProbe(p)
BY DEF DoctorDoes, At

\* s is r, but for what is left and what comes of a call.
Goes(r, s, todo) ==
  s.command = r.command /\ s.todo = todo /\ (s.ok <=> r.ok) /\ s.refunds = r.refunds
  /\ s.call = r.call /\ s.operation = r.operation /\ s.receipts = r.receipts
  /\ (s.unknown <=> r.unknown)

LEMMA AnsweredDone ==
  ASSUME Shape, NEW p \in Processes, proc[p].command # "none",
         Become(p, Done(p)) \/ Answered(p, Done(p)), ~proc'[p].lost
  PROVE  Goes(proc[p], proc'[p], Tail(proc[p].todo))
<1>1. ~Become(p, Lost(p))
  BY TakenRemembered, LostRemembered
<1>2. Become(p, Done(p))
  BY <1>1 DEF Answered
<1> QED
  BY <1>2 DEF Become, Shape, Shaped, Fields, Done, Goes

\* The update of the status of the row of its probe.
LEMMA StatusIs ==
  ASSUME Shape, NEW p, NEW r, NEW from, NEW to, Mine(p, r, ledger["doctor"], from),
         ledger' = [ledger EXCEPT !["doctor"].status = to]
  PROVE  Mine(p, r, ledger'["doctor"], to)
BY DEF Shape, Mine

LEMMA DoctorEmits ==
  ASSUME NEW r, r.command = "doctor", NEW names
  PROVE  Emit(r, names) = r
BY DEF Emit

\* It removes what is there, and claims a row of its own.
LEMMA AskingOn ==
  ASSUME Shape, NEW p \in Processes, proc[p].command = "doctor", DoctorDoes(p),
         ~proc'[p].lost, ProbeTables,
         Course(p, proc[p], ledger["doctor"]), Asks(proc[p], ledger["doctor"])
  PROVE  proc'[p].command = "doctor" /\ Course(p, proc'[p], ledger'["doctor"])
<1> DEFINE r == proc[p]
           s == proc'[p]
<1>1. CASE r.todo = Rest(2)
  <2>1. /\ r.todo # <<>> /\ Head(r.todo)[1] = "clean" /\ Tail(r.todo) = Rest(3)
    BY <1>1, DoctorRests, StepTyped DEF Begins, Operations
  <2>2. CleanProbe(p)
    BY <2>1, NextStep
  <2>3. ledger' = [ledger EXCEPT !["doctor"] = Absent] /\ Answered(p, Done(p))
    BY <2>2 DEF CleanProbe, ProbeTables
  <2>4. Goes(r, s, Rest(3))
    BY <2>1, <2>3, AnsweredDone
  <2>5. ledger'["doctor"] = Absent
    BY <2>3 DEF Shape
  <2> QED
    BY <2>4, <2>5 DEF Goes, Course, Asks
<1>2. CASE r.todo = Rest(3) /\ ledger["doctor"] = Absent
  <2> DEFINE c == Called(p)
             t == First(c, <<Step("submit"), Step("act")>>)
             u == [t EXCEPT !.operation = nextId]
  <2>1. /\ r.todo # <<>> /\ Head(r.todo)[1] = "claim" /\ Tail(r.todo) = Rest(4)
    BY <1>2, DoctorRests, StepTyped DEF Begins, Operations
  <2>2. ClaimSteps(p)
    BY <2>1, NextStep
  <2>3. Key(p) = "doctor" /\ Row(p) = Absent /\ Absent.status = "absent"
    BY <1>2 DEF Key, Row, Absent
  <2>4. ClaimNew(p)
    BY <2>2, <2>3 DEF ClaimSteps, ClaimTerminal, ClaimTaken, ClaimWaitTimesOut, Held,
                      TerminalStatuses
  <2>5. /\ ledger' = [ledger EXCEPT !["doctor"] = [id |-> nextId, status |-> "CLAIMED", owner |-> p]]
        /\ Become(p, Emit(u, <<"guarded_operation">>)) \/ Become(p, Lost(p))
    BY <2>3, <2>4, Zenon DEF ClaimNew, Answered
  <2>6. ~Become(p, Lost(p))
    BY TakenRemembered, LostRemembered
  <2>7. /\ DOMAIN c = Fields /\ c.command = "doctor" /\ c.todo = Rest(4)
        /\ c.call = 1 /\ c.ok = r.ok /\ c.receipts = r.receipts /\ c.refunds = <<>>
    BY <2>1 DEF Called, Done, Shape, Shaped, Fields, Asks
  <2> HIDE DEF c
  <2>8. /\ DOMAIN u = Fields /\ u.command = "doctor"
        /\ u.todo = <<Step("submit"), Step("act")>> \o Rest(4) /\ u.operation = nextId
        /\ u.call = 1 /\ u.ok = r.ok /\ u.receipts = r.receipts /\ u.refunds = <<>>
    BY <2>7 DEF First, Fields
  <2> HIDE DEF u
  <2>9. s = u
    BY <2>5, <2>6, <2>8, DoctorEmits DEF Become, Shape
  <2>10. /\ u.todo # <<>> /\ Head(u.todo) = Step("submit")
         /\ Begins(Tail(u.todo), Step("act"), 4)
    <3>1. Step("submit") \in StepType /\ Step("act") \in StepType /\ Rest(4) \in Seq(StepType)
      BY StepTyped, DoctorRests DEF Operations, Begins
    <3>2. /\ u.todo # <<>> /\ Head(u.todo) = Step("submit")
          /\ Tail(u.todo) = <<Step("act")>> \o Rest(4)
      BY <2>8, <3>1, PrependedTwo
    <3>3. Begins(<<Step("act")>> \o Rest(4), Step("act"), 4)
      BY <3>1, Prepended DEF Begins
    <3> QED
      BY <3>2, <3>3
  <2>11. Mine(p, u, ledger'["doctor"], "CLAIMED")
    BY <2>5, <2>8 DEF Mine, Shape
  <2> QED
    BY <2>8, <2>9, <2>10, <2>11 DEF Course, Executes
<1> QED
  BY <1>1, <1>2 DEF Asks

\* It submits, and the provider keeps the refund but not its answer.
LEMMA ExecutingOn ==
  ASSUME Shape, NEW p \in Processes, proc[p].command = "doctor", DoctorDoes(p),
         ~proc'[p].lost,
         Course(p, proc[p], ledger["doctor"]), Executes(p, proc[p], ledger["doctor"])
  PROVE  proc'[p].command = "doctor" /\ Course(p, proc'[p], ledger'["doctor"])
<1> DEFINE r == proc[p]
           s == proc'[p]
<1>k. Key(p) = "doctor" /\ Row(p) = ledger["doctor"]
  BY DEF Key, Row
<1>1. CASE /\ r.todo # <<>> /\ Head(r.todo) = Step("submit")
           /\ Begins(Tail(r.todo), Step("act"), 4) /\ Mine(p, r, ledger["doctor"], "CLAIMED")
  <2>1. Head(r.todo)[1] = "submit"
    BY <1>1, StepTyped DEF Operations
  <2>2. MarkSubmitted(p)
    BY <1>1, <2>1, NextStep
  <2>3. Moves(p, "SUBMITTED") /\ Row(p).owner = p
    BY <1>1, <1>k DEF Moves, Mine, Absent, CanTransition, LegalTransitions
  <2>4. ledger' = [ledger EXCEPT !["doctor"].status = "SUBMITTED"] /\ Answered(p, Done(p))
    BY <1>k, <2>2, <2>3 DEF MarkSubmitted
  <2>5. Goes(r, s, Tail(r.todo))
    BY <2>4, AnsweredDone
  <2>6. Mine(p, r, ledger'["doctor"], "SUBMITTED")
    BY <1>1, <2>4, StatusIs
  <2>7. Mine(p, s, ledger'["doctor"], "SUBMITTED")
    BY <2>5, <2>6 DEF Mine, Goes
  <2> QED
    BY <1>1, <2>5, <2>7 DEF Goes, Course, Executes
<1>2. CASE Begins(r.todo, Step("act"), 4) /\ Mine(p, r, ledger["doctor"], "SUBMITTED")
  <2> DEFINE t == Outcome(p, "record", "UNKNOWN")
             u == [t EXCEPT !.refunds = Append(@, proc[p].operation)]
  <2>1. r.todo # <<>> /\ Head(r.todo)[1] = "act" /\ Tail(r.todo) = Rest(4)
    BY <1>2, StepTyped DEF Begins, Operations
  <2>2. ActOnFake(p)
    BY <2>1, NextStep
  <2>3. ledger' = ledger /\ Become(p, u)
    BY <2>2 DEF ActOnFake, ledgerVars
  <2>4. /\ DOMAIN Done(p) = Fields /\ Done(p).command = "doctor" /\ Done(p).todo = Rest(4)
        /\ Done(p).call = r.call /\ Done(p).ok = r.ok /\ Done(p).receipts = r.receipts
        /\ Done(p).refunds = r.refunds /\ Done(p).operation = r.operation
    BY <2>1 DEF Done, Shape, Shaped, Fields
  <2>5. t = First(Done(p), <<<<"record", "UNKNOWN">>>>)
    BY <2>4, DoctorEmits DEF Outcome
  <2>6. /\ DOMAIN t = Fields /\ t.command = "doctor"
        /\ t.todo = <<<<"record", "UNKNOWN">>>> \o Rest(4)
        /\ t.call = r.call /\ t.ok = r.ok /\ t.receipts = r.receipts
        /\ t.refunds = r.refunds /\ t.operation = r.operation
    BY <2>4, <2>5 DEF First, Fields
  <2> HIDE DEF t
  <2>7. /\ u.command = "doctor" /\ u.todo = <<<<"record", "UNKNOWN">>>> \o Rest(4)
        /\ u.call = 1 /\ u.ok = r.ok /\ u.receipts = r.receipts
        /\ u.refunds = Append(<<>>, r.operation) /\ u.operation = r.operation
    BY <2>6 DEF Fields, Executes
  <2> HIDE DEF u
  <2>8. Append(<<>>, r.operation) = <<r.operation>>
    OBVIOUS
  <2>9. s = u
    BY <2>3 DEF Become, Shape
  <2>10. Begins(u.todo, <<"record", "UNKNOWN">>, 4)
    <3>1. <<"record", "UNKNOWN">> \in StepType /\ Rest(4) \in Seq(StepType)
      BY PairTyped, DoctorRests DEF Operations, Arguments, Outcomes, Begins
    <3> QED
      BY <2>7, <3>1, Prepended DEF Begins
  <2>11. Mine(p, u, ledger'["doctor"], "SUBMITTED")
    BY <1>2, <2>3, <2>7 DEF Mine
  <2> QED
    BY <2>7, <2>8, <2>9, <2>10, <2>11 DEF Course, Surfaces
<1> QED
  BY <1>1, <1>2 DEF Executes

\* One refund of its own is what the provider finds.
LEMMA OneMatch ==
  ASSUME NEW p, proc[p].command = "doctor", proc[p].refunds = <<proc[p].operation>>
  PROVE  Matches(p) = 1
<1> DEFINE found == {i \in DOMAIN proc[p].refunds : proc[p].refunds[i] = proc[p].operation}
<1>1. found = {1}
  <2>1. \A x : <<x>>[1] = x /\ DOMAIN <<x>> = {1}
    OBVIOUS
  <2> QED
    BY <2>1
<1>2. Matches(p) = Cardinality(found)
  BY DEF Matches, Faked
<1> HIDE DEF found
<1>3. Cardinality({1}) = 1
  BY FS_Singleton
<1> QED
  BY <1>1, <1>2, <1>3

LEMMA FirstGoes ==
  ASSUME NEW r, DOMAIN r = Fields, NEW steps
  PROVE  DOMAIN First(r, steps) = Fields /\ Goes(r, First(r, steps), steps \o r.todo)
BY DEF First, Fields, Goes

LEMMA CaughtGoes ==
  ASSUME NEW r, DOMAIN r = Fields, NEW rest, r.ok, r.call = 1
  PROVE  LET s == [r EXCEPT !.todo = rest, !.unknown = TRUE,
                            !.ok = r.ok /\ TRUE /\ r.call = 1] IN
         /\ s.command = r.command /\ s.todo = rest /\ s.unknown /\ s.ok
         /\ s.call = r.call /\ s.receipts = r.receipts
         /\ s.refunds = r.refunds /\ s.operation = r.operation
<1> DEFINE ok == r.ok /\ TRUE /\ r.call = 1
<1>1. ok
  OBVIOUS
<1> HIDE DEF ok
<1>2. LET s == [r EXCEPT !.todo = rest, !.unknown = TRUE, !.ok = ok] IN
         /\ s.command = r.command /\ s.todo = rest /\ s.unknown /\ s.ok
         /\ s.call = r.call /\ s.receipts = r.receipts
         /\ s.refunds = r.refunds /\ s.operation = r.operation
  BY <1>1 DEF Fields
<1> QED
  BY <1>2, Zenon DEF ok

\* The outcome is recorded as UNKNOWN, which surfaces; the second call takes
\* the operation over.
LEMMA SurfacingOn ==
  ASSUME Shape, NEW p \in Processes, proc[p].command = "doctor", DoctorDoes(p),
         ~proc'[p].lost,
         Course(p, proc[p], ledger["doctor"]), Surfaces(p, proc[p], ledger["doctor"])
  PROVE  proc'[p].command = "doctor" /\ Course(p, proc'[p], ledger'["doctor"])
<1> DEFINE r == proc[p]
           s == proc'[p]
           d == Done(p)
           row == ledger["doctor"]
<1>k. Key(p) = "doctor" /\ Row(p) = ledger["doctor"] /\ ~Become(p, Lost(p))
  BY TakenRemembered, LostRemembered DEF Key, Row
<1>d. /\ DOMAIN d = Fields /\ d.command = "doctor" /\ d.todo = Tail(r.todo)
      /\ d.call = 1 /\ d.ok = r.ok /\ d.receipts = r.receipts
      /\ d.refunds = <<r.operation>> /\ d.operation = r.operation
  BY DEF Done, Shape, Shaped, Fields, Surfaces
<1>b. \A x : Become(p, x) => s = x
  BY DEF Become, Shape
<1>1. CASE Begins(r.todo, <<"record", "UNKNOWN">>, 4) /\ Mine(p, r, row, "SUBMITTED")
  <2>1. /\ r.todo # <<>> /\ Head(r.todo)[1] = "record" /\ Head(r.todo)[2] = "UNKNOWN"
        /\ Tail(r.todo) = Rest(4)
    BY <1>1 DEF Begins
  <2>2. RecordOutcome(p)
    BY <2>1, NextStep
  <2>3. Moves(p, "UNKNOWN") /\ Argument(p) = "UNKNOWN"
    BY <1>1, <1>k, <2>1 DEF Moves, Mine, Absent, CanTransition, LegalTransitions, Argument
  <2>4. /\ ledger' = [ledger EXCEPT !["doctor"].status = "UNKNOWN"]
        /\ Become(p, Recorded(p, "record", "UNKNOWN"))
    <3>1. \A op : At(p, op) => op = "record"
      BY <2>1 DEF At
    <3> QED
      BY <1>k, <2>2, <2>3, <3>1 DEF RecordOutcome, Answered
  <2>5. Recorded(p, "record", "UNKNOWN") = First(d, <<Step("throw_unknown")>>)
    <3>1. Emit(d, <<"unknown_outcome">>) = d
      BY <1>d, DoctorEmits
    <3> HIDE DEF d
    <3>2. Recorded(p, "record", "UNKNOWN")
            = First(Emit(d, <<"unknown_outcome">>), <<Step("throw_unknown")>>)
      BY Zenon DEF Recorded, d
    <3> QED
      BY <3>1, <3>2
  <2> HIDE DEF d
  <2>6. /\ s.command = "doctor" /\ s.todo = <<Step("throw_unknown")>> \o Rest(4)
        /\ s.call = 1 /\ (s.ok <=> r.ok) /\ s.receipts = r.receipts
        /\ s.refunds = <<r.operation>> /\ s.operation = r.operation
    <3>1. s = First(d, <<Step("throw_unknown")>>)
      BY <1>b, <2>4, <2>5
    <3>2. Goes(d, s, <<Step("throw_unknown")>> \o d.todo)
      BY <1>d, <3>1, FirstGoes
    <3> QED
      BY <1>d, <2>1, <3>2 DEF Goes
  <2>7. Begins(s.todo, Step("throw_unknown"), 4)
    <3>1. Step("throw_unknown") \in StepType /\ Rest(4) \in Seq(StepType)
      BY StepTyped, DoctorRests DEF Operations, Begins
    <3> QED
      BY <2>6, <3>1, Prepended DEF Begins
  <2>8. Mine(p, r, ledger'["doctor"], "UNKNOWN")
    BY <1>1, <2>4, StatusIs
  <2>9. Mine(p, s, ledger'["doctor"], "UNKNOWN")
    BY <2>6, <2>8 DEF Mine
  <2> QED
    BY <2>6, <2>7, <2>9 DEF Course, Surfaces
<1>2. CASE Begins(r.todo, Step("throw_unknown"), 4) /\ Mine(p, r, row, "UNKNOWN")
  <2>1. r.todo # <<>> /\ Head(r.todo)[1] = "throw_unknown" /\ Tail(r.todo) = Rest(4)
    BY <1>2, StepTyped DEF Begins, Operations
  <2>2. ThrowUnknown(p)
    BY <2>1, NextStep
  <2>3. ledger' = ledger /\ s = Thrown(d, TRUE)
    BY <1>b, <2>2 DEF ThrowUnknown, ledgerVars
  <2>4. (\E i \in DOMAIN d.todo : Catches(d.todo[i])) /\ AfterCatch(d.todo) = Rest(5)
    <3>1. /\ Rest(4) \in Seq(StepType) /\ Rest(4) # <<>> /\ Catches(Head(Rest(4)))
          /\ Tail(Rest(4)) = Rest(5)
      BY DoctorRests, StepTyped DEF Begins, Catches, Operations
    <3> QED
      BY <1>d, <2>1, <3>1, CatchFirst
  <2> HIDE DEF d
  <2>5. Thrown(d, TRUE) = [d EXCEPT !.todo = AfterCatch(d.todo), !.unknown = TRUE,
                                    !.ok = d.ok /\ TRUE /\ d.call = 1]
    BY <1>d, <2>4 DEF Thrown
  <2>6. d.ok /\ TRUE /\ d.call = 1
    BY <1>d DEF Course
  <2>7. /\ s.command = "doctor" /\ s.todo = Rest(5) /\ s.unknown /\ s.ok
        /\ s.call = 1 /\ s.receipts = r.receipts
        /\ s.refunds = <<r.operation>> /\ s.operation = r.operation
    <3> DEFINE x == [d EXCEPT !.todo = Rest(5), !.unknown = TRUE,
                              !.ok = d.ok /\ TRUE /\ d.call = 1]
    <3>1. s = x
      BY <2>3, <2>4, <2>5, Zenon
    <3>2. /\ x.command = d.command /\ x.todo = Rest(5) /\ x.unknown /\ x.ok
          /\ x.call = d.call /\ x.receipts = d.receipts
          /\ x.refunds = d.refunds /\ x.operation = d.operation
      <4>1. DOMAIN d = Fields /\ d.ok /\ d.call = 1
        BY <1>d, <2>6
      <4> QED
        BY <4>1, CaughtGoes
    <3> HIDE DEF x
    <3> QED
      BY <1>d, <3>1, <3>2
  <2>8. Mine(p, s, ledger'["doctor"], "UNKNOWN")
    BY <1>2, <2>3, <2>7 DEF Mine
  <2> QED
    BY <2>7, <2>8 DEF Course, Surfaces
<1>3. CASE r.todo = Rest(5) /\ r.unknown /\ Mine(p, r, row, "UNKNOWN")
  <2>1. r.todo # <<>> /\ Head(r.todo)[1] = "surfaced" /\ Tail(r.todo) = Rest(6)
    BY <1>3, DoctorRests, StepTyped DEF Begins, Operations
  <2>2. CheckSurfaced(p)
    BY <2>1, NextStep
  <2>3. ledger' = ledger /\ s = d
    BY <1>3, <1>b, <2>2 DEF CheckSurfaced, ledgerVars
  <2> HIDE DEF d
  <2>4. Mine(p, s, ledger'["doctor"], "UNKNOWN")
    BY <1>3, <1>d, <2>3 DEF Mine
  <2> QED
    BY <1>d, <2>1, <2>3, <2>4 DEF Course, Surfaces
<1>4. CASE r.todo = Rest(6) /\ Mine(p, r, row, "UNKNOWN")
  <2> DEFINE c == Called(p)
             t == [c EXCEPT !.operation = Row(p).id]
             u == First(t, <<Step("reconcile")>>)
  <2>1. r.todo # <<>> /\ Head(r.todo)[1] = "claim" /\ Tail(r.todo) = Rest(7)
    BY <1>4, DoctorRests, StepTyped DEF Begins, Operations
  <2>2. ClaimSteps(p)
    BY <2>1, NextStep
  <2>3. Row(p).status = "UNKNOWN" /\ Row(p).id = r.operation /\ Row(p) # Absent
    BY <1>4, <1>k DEF Mine, Absent
  <2>4. ClaimTaken(p)
    BY <2>2, <2>3 DEF ClaimSteps, ClaimNew, ClaimTerminal, ClaimWaitTimesOut, Held,
                      TerminalStatuses
  <2>5. /\ ledger' = [ledger EXCEPT !["doctor"].owner = p, !["doctor"].status = "RECONCILING"]
        /\ Become(p, Emit(u, Suppressed))
    BY <1>k, <2>3, <2>4 DEF ClaimTaken, Answered
  <2>6. /\ DOMAIN c = Fields /\ c.command = "doctor" /\ c.todo = Rest(7)
        /\ c.call = 2 /\ c.ok = r.ok /\ c.receipts = r.receipts
        /\ c.refunds = <<r.operation>>
    BY <2>1 DEF Called, Done, Shape, Shaped, Fields, Surfaces
  <2> HIDE DEF c
  <2>7. /\ DOMAIN u = Fields /\ u.command = "doctor"
        /\ u.todo = <<Step("reconcile")>> \o Rest(7)
        /\ u.call = 2 /\ u.ok = r.ok /\ u.receipts = r.receipts
        /\ u.refunds = <<r.operation>> /\ u.operation = r.operation
    BY <2>3, <2>6 DEF First, Fields
  <2> HIDE DEF u
  <2>8. s = u
    BY <1>b, <2>5, <2>7, DoctorEmits
  <2>9. Begins(u.todo, Step("reconcile"), 7)
    <3>1. Step("reconcile") \in StepType /\ Rest(7) \in Seq(StepType)
      BY StepTyped, DoctorRests DEF Operations, Begins
    <3> QED
      BY <2>7, <3>1, Prepended DEF Begins
  <2>10. Mine(p, u, ledger'["doctor"], "RECONCILING")
    BY <1>4, <2>5, <2>7 DEF Mine, Shape
  <2> QED
    BY <2>7, <2>8, <2>9, <2>10 DEF Course, Resolves
<1> QED
  BY <1>1, <1>2, <1>3, <1>4 DEF Surfaces

\* The lookup finds the refund, and the receipt says so.
LEMMA ResolvingOn ==
  ASSUME Shape, NEW p \in Processes, proc[p].command = "doctor", DoctorDoes(p),
         ~proc'[p].lost,
         Course(p, proc[p], ledger["doctor"]), Resolves(p, proc[p], ledger["doctor"])
  PROVE  proc'[p].command = "doctor" /\ Course(p, proc'[p], ledger'["doctor"])
<1> DEFINE r == proc[p]
           s == proc'[p]
           d == Done(p)
           row == ledger["doctor"]
<1>k. Key(p) = "doctor" /\ Row(p) = ledger["doctor"] /\ ~Become(p, Lost(p))
  BY TakenRemembered, LostRemembered DEF Key, Row
<1>d. /\ DOMAIN d = Fields /\ d.command = "doctor" /\ d.todo = Tail(r.todo)
      /\ d.call = 2 /\ d.ok = r.ok /\ d.receipts = r.receipts
      /\ d.refunds = <<r.operation>> /\ d.operation = r.operation
  BY DEF Done, Shape, Shaped, Fields, Resolves
<1>b. \A x : Become(p, x) => s = x
  BY DEF Become, Shape
<1>m. Mine(p, r, row, "RECONCILING")
  BY DEF Resolves
<1>1. CASE Begins(r.todo, Step("reconcile"), 7)
  <2>1. r.todo # <<>> /\ Head(r.todo)[1] = "reconcile" /\ Tail(r.todo) = Rest(7)
    BY <1>1, StepTyped DEF Begins, Operations
  <2>2. Reconcile(p)
    BY <2>1, NextStep
  <2>3. Matches(p) = 1 /\ Faked(p)
    BY OneMatch DEF Faked, Resolves
  <2>4. ledger' = ledger /\ s = Outcome(p, "resolve", "CONFIRMED")
    BY <1>b, <2>2, <2>3 DEF Reconcile, ledgerVars
  <2>5. Outcome(p, "resolve", "CONFIRMED") = First(d, <<<<"resolve", "CONFIRMED">>>>)
    BY <1>d, DoctorEmits DEF Outcome
  <2> HIDE DEF d
  <2>6. /\ s.command = "doctor" /\ s.todo = <<<<"resolve", "CONFIRMED">>>> \o Rest(7)
        /\ s.call = 2 /\ (s.ok <=> r.ok) /\ s.receipts = r.receipts
        /\ s.refunds = <<r.operation>> /\ s.operation = r.operation
    <3>1. s = First(d, <<<<"resolve", "CONFIRMED">>>>)
      BY <2>4, <2>5
    <3>2. Goes(d, s, <<<<"resolve", "CONFIRMED">>>> \o d.todo)
      BY <1>d, <3>1, FirstGoes
    <3> QED
      BY <1>d, <2>1, <3>2 DEF Goes
  <2>7. Begins(s.todo, <<"resolve", "CONFIRMED">>, 7)
    <3>1. <<"resolve", "CONFIRMED">> \in StepType /\ Rest(7) \in Seq(StepType)
      BY PairTyped, DoctorRests DEF Operations, Arguments, Outcomes, Begins
    <3> QED
      BY <2>6, <3>1, Prepended DEF Begins
  <2>8. Mine(p, s, ledger'["doctor"], "RECONCILING")
    BY <1>m, <2>4, <2>6 DEF Mine
  <2> QED
    BY <2>6, <2>7, <2>8 DEF Course, Resolves
<1>2. CASE Begins(r.todo, <<"resolve", "CONFIRMED">>, 7)
  <2> DEFINE receipt == [operation |-> r.operation, status |-> "CONFIRMED"]
  <2>1. /\ r.todo # <<>> /\ Head(r.todo)[1] = "resolve" /\ Head(r.todo)[2] = "CONFIRMED"
        /\ Tail(r.todo) = Rest(7)
    BY <1>2 DEF Begins
  <2>2. RecordOutcome(p)
    BY <2>1, NextStep
  <2>3. Moves(p, "CONFIRMED") /\ Argument(p) = "CONFIRMED"
    BY <1>m, <1>k, <2>1 DEF Moves, Mine, Absent, CanTransition, LegalTransitions, Argument
  <2>4. Become(p, Recorded(p, "resolve", "CONFIRMED"))
    <3>1. \A op : At(p, op) => op = "resolve"
      BY <2>1 DEF At
    <3> QED
      BY <1>k, <2>2, <2>3, <3>1 DEF RecordOutcome, Answered
  <2> DEFINE t == Returned(d, receipt)
  <2>5. Recorded(p, "resolve", "CONFIRMED") = Emit(t, <<"successful_reconciliation">>)
    BY DEF Recorded
  <2> HIDE DEF d
  <2>6. /\ DOMAIN t = Fields /\ t.command = "doctor" /\ t.todo = Rest(7)
        /\ t.ok = r.ok /\ t.receipts = [r.receipts EXCEPT ![2] = receipt]
        /\ t.refunds = <<r.operation>>
    BY <1>d, <2>1 DEF Returned, Fields
  <2> HIDE DEF t
  <2>7. s = t
    BY <1>b, <2>4, <2>5, <2>6, DoctorEmits
  <2>8. DOMAIN t.receipts = {1, 2} /\ t.receipts[2].status = "CONFIRMED"
    BY <2>6 DEF Course
  <2>9. Len(t.refunds) = 1
    BY <2>6
  <2> QED
    BY <2>6, <2>7, <2>8, <2>9 DEF Course, Concludes
<1> QED
  BY <1>1, <1>2 DEF Resolves

\* The tables a removal needs are among what the check asks for.
LEMMA ReadyTables ==
  Ready => ProbeTables
<1>1. {"0000_initial", "0004_shadow_observations"} \subseteq ToSet(PublicMigrationNames)
  <2> DEFINE names == PublicMigrationNames
  <2>1. DOMAIN names = 1..3 /\ names[1] = "0000_initial" /\ names[3] = "0004_shadow_observations"
    BY DEF PublicMigrationNames
  <2>2. ToSet(names) = {names[i] : i \in DOMAIN names}
    BY DEF ToSet
  <2> HIDE DEF names
  <2> QED
    BY <2>1, <2>2 DEF names
<1> QED
  BY <1>1, Zenon DEF Ready, ProbeTables

\* Neither what a doctor takes nor its course depends on the state.
LEMMA StaticCourse ==
  \A p, r, row : Course(p, r, row)' <=> Course(p, r, row)
<1>1. \A k : Rest(k)' = Rest(k)
  BY DEF Rest, RunDoctor, Step
<1>2. \A op : Step(op)' = Step(op)
  BY DEF Step
<1>3. StepType' = StepType /\ Absent' = Absent
  BY DEF StepType, Operations, Arguments, Outcomes, Absent
<1>4. \A todo, step, k : Begins(todo, step, k)' <=> Begins(todo, step, k)
  BY <1>1, <1>3 DEF Begins
<1>5. \A p, r, row, status : Mine(p, r, row, status)' <=> Mine(p, r, row, status)
  BY DEF Mine
<1>6. \A p, r, row : (Asks(r, row)' <=> Asks(r, row)) /\ (Concludes(r)' <=> Concludes(r))
  BY <1>1, <1>3 DEF Asks, Concludes
<1>7. \A p, r, row : (Executes(p, r, row)' <=> Executes(p, r, row))
                     /\ (Resolves(p, r, row)' <=> Resolves(p, r, row))
  BY <1>2, <1>4, <1>5 DEF Executes, Resolves
<1>8. \A p, r, row : Surfaces(p, r, row)' <=> Surfaces(p, r, row)
  BY <1>1, <1>2, <1>4, <1>5 DEF Surfaces
<1> QED
  BY <1>6, <1>7, <1>8 DEF Course

\* A doctor that has not taken its first step.
Fresh(r) ==
  r.todo = RunDoctor /\ r.ok /\ r.call = 0 /\ r.refunds = <<>> /\ DOMAIN r.receipts = {1, 2}

\* The first check decides.
LEMMA CheckOn ==
  ASSUME Shape, NEW p \in Processes, proc[p].command = "doctor", DoctorDoes(p),
         ~proc'[p].lost, Fresh(proc[p])
  PROVE  /\ proc'[p].command = "doctor"
         /\ IF Ready THEN Course(p, proc'[p], ledger'["doctor"]) ELSE ~proc'[p].ok
<1> DEFINE r == proc[p]
           s == proc'[p]
           d == Done(p)
           v == r.ok /\ ToSet(PublicMigrationNames) \subseteq db.recorded \cap db.objects
           u == [d EXCEPT !.ok = v]
           w == [Lost(p) EXCEPT !.todo = <<>>]
<1>1. r.todo # <<>> /\ Head(r.todo)[1] = "check" /\ Tail(r.todo) = Rest(2)
  BY DoctorRests, StepTyped DEF Fresh, Operations
<1>2. DoctorChecksSchema(p)
  BY <1>1, NextStep
<1>3. /\ DOMAIN d = Fields /\ d.command = "doctor" /\ d.todo = Rest(2) /\ (d.ok <=> r.ok)
      /\ d.call = 0 /\ d.receipts = r.receipts /\ d.refunds = <<>>
  BY <1>1 DEF Done, Shape, Shaped, Fields, Fresh
<1>4. w.lost
  <2>1. Lost(p).lost /\ DOMAIN Lost(p) = Fields
    BY LostRemembered DEF Remembered
  <2> QED
    BY <2>1 DEF Fields
<1>5. Become(p, u) \/ Become(p, w)
  <2>1. \/ Become(p, [d EXCEPT !.ok = @ /\ ToSet(PublicMigrationNames)
                                             \subseteq db.recorded \cap db.objects])
        \/ Become(p, w)
    BY <1>2, Zenon DEF DoctorChecksSchema
  <2>2. d.ok = r.ok
    BY <1>1 DEF Done, Shape, Shaped, Fields
  <2> QED
    BY <2>1, <2>2, Zenon
<1>6. v <=> Ready
  BY DEF Fresh, Ready
<1> HIDE DEF v, w, d
<1>7. s = u
  BY <1>4, <1>5 DEF Become, Shape
<1>8. /\ u.command = "doctor" /\ u.todo = Rest(2) /\ (u.ok <=> v)
      /\ u.call = 0 /\ u.receipts = r.receipts /\ u.refunds = <<>>
  BY <1>3 DEF Fields
<1> HIDE DEF u
<1>9. DOMAIN u.receipts = {1, 2}
  BY <1>8 DEF Fresh
<1> QED
  BY <1>6, <1>7, <1>8, <1>9 DEF Course, Asks

\* The receipt says CONFIRMED, one refund was made, and the rows are removed.
LEMMA ConcludingOn ==
  ASSUME Shape, NEW p \in Processes, proc[p].command = "doctor", DoctorDoes(p),
         ~proc'[p].lost, ProbeTables,
         Course(p, proc[p], ledger["doctor"]), Concludes(proc[p])
  PROVE  \/ proc'[p].command = "doctor" /\ Course(p, proc'[p], ledger'["doctor"])
         \/ proc'[p].command = "none" /\ proc'[p].code = 0
<1> DEFINE r == proc[p]
           s == proc'[p]
           d == Done(p)
<1>b. \A x : Become(p, x) => s = x
  BY DEF Become, Shape
<1>1. CASE r.todo = Rest(7) /\ Len(r.refunds) = 1 /\ r.receipts[2].status = "CONFIRMED"
  <2> DEFINE v == r.ok /\ r.receipts[2].status = "CONFIRMED" /\ Len(r.refunds) = 1
             u == [d EXCEPT !.ok = v]
  <2>1. r.todo # <<>> /\ Head(r.todo)[1] = "judge" /\ Tail(r.todo) = Rest(8)
    BY <1>1, DoctorRests, StepTyped DEF Begins, Operations
  <2>2. JudgeProbe(p)
    BY <2>1, NextStep
  <2>3. /\ DOMAIN d = Fields /\ d.command = "doctor" /\ d.todo = Rest(8) /\ d.ok = r.ok
        /\ d.receipts = r.receipts
    BY <2>1 DEF Done, Shape, Shaped, Fields
  <2>4. Become(p, u)
    <3>1. Become(p, [d EXCEPT !.ok = /\ @
                                     /\ r.receipts[2].status = "CONFIRMED"
                                     /\ Len(r.refunds) = 1])
      BY <2>2, Zenon DEF JudgeProbe
    <3> QED
      BY <2>3, <3>1, Zenon
  <2>5. v
    BY <1>1 DEF Course
  <2> HIDE DEF v, d
  <2>6. u.command = "doctor" /\ u.todo = Rest(8) /\ u.ok /\ u.receipts = r.receipts
    BY <2>3, <2>5 DEF Fields
  <2>7. s = u
    BY <1>b, <2>4
  <2> HIDE DEF u
  <2> QED
    BY <2>6, <2>7 DEF Course, Concludes
<1>2. CASE r.todo = Rest(8)
  <2>1. r.todo # <<>> /\ Head(r.todo)[1] = "catch" /\ Tail(r.todo) = Rest(9)
    BY <1>2, DoctorRests, StepTyped DEF Begins, Operations
  <2>2. Catch(p)
    BY <2>1, NextStep
  <2>3. Goes(r, s, Rest(9))
    BY <2>1, <2>2, AnsweredDone DEF Catch
  <2> QED
    BY <2>3 DEF Goes, Course, Concludes
<1>3. CASE r.todo = Rest(9)
  <2>1. r.todo # <<>> /\ Head(r.todo)[1] = "clean" /\ Tail(r.todo) = Rest(10)
    BY <1>3, DoctorRests, StepTyped DEF Begins, Operations
  <2>2. CleanProbe(p)
    BY <2>1, NextStep
  <2>3. Answered(p, Done(p))
    BY <2>2 DEF CleanProbe, ProbeTables
  <2>4. Goes(r, s, Rest(10))
    BY <2>1, <2>3, AnsweredDone
  <2> QED
    BY <2>4 DEF Goes, Course, Concludes
<1>4. CASE r.todo = Rest(10)
  <2>1. r.todo = <<>>
    BY <1>4, DoctorRests
  <2>2. Finish(p)
    BY <2>1 DEF DoctorDoes, At
  <2>3. s = Ended(r, 0)
    <3>1. s = Ended(r, IF r.ok THEN 0 ELSE 1)
      BY <1>b, <2>2 DEF Finish
    <3>2. r.ok
      BY DEF Course
    <3> QED
      BY <3>1, <3>2
  <2>4. s.command = "none" /\ s.code = 0
    BY <2>3 DEF Ended, IdleProcess
  <2> QED
    BY <2>4
<1> QED
  BY <1>1, <1>2, <1>3, <1>4 DEF Concludes

(***************************************************************************)
(* What a doctor's process says of the schema, whatever it has left to do. *)
(***************************************************************************)
Tells(p, r, row) ==
  Fresh(r) \/ (~Ready /\ ~r.ok) \/ (Ready /\ Course(p, r, row))

TellsIInv ==
  /\ crashes \in Nat
  /\ \A p \in Processes : proc[p].command \in Commands \cup {"none"}
  /\ \A p \in Processes : proc[p].command = "doctor" /\ ~proc[p].disturbed =>
       /\ \A q \in Processes \ {p} : proc[q].command = "none"
       /\ ~proc[p].lost => Tells(p, proc[p], ledger["doctor"])

\* A step of a doctor that nothing disturbs.
LEMMA TellsOn ==
  ASSUME Shape, NEW p \in Processes, proc[p].command = "doctor", DoctorDoes(p),
         ~proc'[p].lost, Tells(p, proc[p], ledger["doctor"])
  PROVE  /\ proc'[p].command = "doctor" => Tells(p, proc'[p], ledger'["doctor"])
         /\ proc'[p].command = "none" => (proc'[p].code = 0 <=> Ready)
<1>1. CASE Fresh(proc[p])
  BY <1>1, CheckOn DEF Tells
<1>2. CASE ~Ready /\ ~proc[p].ok
  <2>1. Remembered(proc[p], proc'[p])
    BY DoctorRemembers
  <2> QED
    BY <1>2, <2>1 DEF Remembered, Tells
<1>3. CASE Ready /\ Course(p, proc[p], ledger["doctor"])
  <2>1. ProbeTables
    BY <1>3, ReadyTables
  <2>2. CASE Asks(proc[p], ledger["doctor"])
    BY <1>3, <2>1, <2>2, AskingOn DEF Tells
  <2>3. CASE Executes(p, proc[p], ledger["doctor"])
    BY <1>3, <2>3, ExecutingOn DEF Tells
  <2>4. CASE Surfaces(p, proc[p], ledger["doctor"])
    BY <1>3, <2>4, SurfacingOn DEF Tells
  <2>5. CASE Resolves(p, proc[p], ledger["doctor"])
    BY <1>3, <2>5, ResolvingOn DEF Tells
  <2>6. CASE Concludes(proc[p])
    BY <1>3, <2>1, <2>6, ConcludingOn DEF Tells
  <2> QED
    BY <1>3, <2>2, <2>3, <2>4, <2>5, <2>6 DEF Course
<1> QED
  BY <1>1, <1>2, <1>3 DEF Tells

\* A process changes none of the others, and ends its command or goes on.
LEMMA OwnFrame ==
  ASSUME SchemaIInv, NEW p \in Processes, Own(p)
  PROVE  /\ proc[p].command # "none"
         /\ proc'[p].command \in {proc[p].command, "none"}
         /\ \A q \in Processes : q # p => proc'[q] = proc[q]
<1>s. Shape
  BY DEF SchemaIInv
<1>1. proc[p].command # "none"
  <2>1. proc[p].events # <<>> => proc[p].command # "none"
    BY <1>s DEF Shape, Shaped
  <2>2. \A op : At(p, op) => proc[p].command # "none"
    BY DEF At
  <2>3. CASE StatementFails(p) \/ AppendFails(p) \/ Crash(p) \/ AppendRecord(p) \/ Finish(p)
    BY <2>1, <2>2, <2>3 DEF StatementFails, AppendFails, Crash, AppendRecord, Finish
  <2>4. CASE \/ Throw(p) \/ Catch(p) \/ CreateBookkeeping(p) \/ AwaitCreate(p)
             \/ SelectMigration(p) \/ RunMigration(p) \/ CommitMigrations(p)
             \/ EnsurePilotSchema(p) \/ Summary(p)
    BY <2>2, <2>4, Zenon DEF Throw, Catch, CreateBookkeeping, AwaitCreate, SelectMigration,
       RunMigration, CommitMigrations, EnsurePilotSchema, Summary
  <2>5. CASE \/ Truncate(p) \/ RemoveFile(p) \/ SeedPilotCase(p) \/ MarkPending(p)
             \/ SettleCase(p) \/ ClaimNew(p) \/ ClaimTerminal(p) \/ ClaimTaken(p)
             \/ ClaimWaitTimesOut(p)
    BY <2>2, <2>5, Zenon DEF Truncate, RemoveFile, SeedPilotCase, MarkPending, SettleCase,
       ClaimNew, ClaimTerminal, ClaimTaken, ClaimWaitTimesOut
  <2>6. CASE \/ MarkSubmitted(p) \/ ActOnFake(p) \/ ActOnStripe(p) \/ Reconcile(p)
             \/ RecordOutcome(p) \/ ThrowUnknown(p)
             \/ RunUnsafeRefund(p) \/ Observe(p) \/ FinalizeObservation(p)
    BY <2>2, <2>6, Zenon DEF MarkSubmitted, ActOnFake, ActOnStripe, Reconcile, RecordOutcome,
       ThrowUnknown, RunUnsafeRefund, Observe, FinalizeObservation
  <2>7. CASE \/ CheckSurfaced(p) \/ PrepareIntent(p) \/ CheckSameReceipt(p)
             \/ DoctorChecksSchema(p) \/ CleanProbe(p) \/ JudgeProbe(p)
    BY <2>2, <2>7, Zenon DEF CheckSurfaced, PrepareIntent, CheckSameReceipt,
       DoctorChecksSchema, CleanProbe, JudgeProbe
  <2> QED
    BY <2>3, <2>4, <2>5, <2>6, <2>7, Zenon DEF Own, Proceed
<1>2. \E s : Become(p, s) /\ s.command \in {proc[p].command, "none"}
  <2>1. CASE SelectMigration(p)
    <3>1. Done(p).command = proc[p].command
      BY <1>s, <1>1, TakenRemembered
    <3>2. \A steps : First(Done(p), steps).command = Done(p).command
      <4>1. DOMAIN Done(p) = Fields
        BY <1>s DEF Shape, Shaped, Done, Fields
      <4> QED
        BY <4>1 DEF First, Fields
    <3>3. Become(p, Done(p)) \/ \E steps : Become(p, First(Done(p), steps))
      BY <2>1, Zenon DEF SelectMigration
    <3> QED
      BY <3>1, <3>2, <3>3
  <2>2. CASE RunMigration(p)
    <3>1. Done(p).command = proc[p].command
      BY <1>s, <1>1, TakenRemembered
    <3>2. Ended(proc[p], 1).command = "none"
      BY EndedCloses DEF Closed
    <3>3. Become(p, Done(p)) \/ Become(p, Ended(proc[p], 1))
      BY <2>2, Zenon DEF RunMigration, Rollback
    <3> QED
      BY <3>1, <3>2, <3>3
  <2>3. CASE Removes(p)
    <3>1. \E s : Become(p, s)
      BY <2>3, Zenon DEF Removes, CleanProbe, StatementFails, Answered
    <3>2. PICK s : Become(p, s)
      BY <3>1
    <3>3. proc'[p] = s
      BY <1>s, <3>2 DEF Become, Shape
    <3> QED
      BY <1>s, <2>3, <3>2, <3>3, RemovalMoves
  <2>4. CASE ~SelectMigration(p) /\ ~RunMigration(p) /\ ~Removes(p)
    <3>1. Move(p)
      <4>1. Effects(p)
        BY <2>4, OtherEffects DEF Own
      <4> QED
        BY <4>1 DEF Effects
    <3> QED
      BY <3>1 DEF Move, MovesOn, Keeps, Advances, Unwinds, Abandons, Ends, Closed
  <2> QED
    BY <2>1, <2>2, <2>3, <2>4
<1> QED
  BY <1>s, <1>1, <1>2 DEF Become, Shape

\* Processes are killed one after another.
LEMMA CrashesCounted ==
  ASSUME NEW p \in Processes, crashes \in Nat, Own(p)
  PROVE  crashes' \in Nat
<1>1. CASE AppendFails(p) \/ Crash(p) \/ StatementFails(p)
  BY <1>1 DEF AppendFails, Crash, StatementFails, bounds
<1>2. CASE Proceed(p)
  <2>1. crashes' = crashes
    <3>1. CASE \/ Throw(p) \/ Catch(p) \/ Finish(p)
               \/ CreateBookkeeping(p) \/ AwaitCreate(p) \/ SelectMigration(p) \/ RunMigration(p)
               \/ CommitMigrations(p) \/ EnsurePilotSchema(p)
               \/ AppendRecord(p) \/ Summary(p)
      BY <3>1, Zenon DEF Throw, Catch, Finish, CreateBookkeeping, AwaitCreate, SelectMigration,
         RunMigration, CommitMigrations, EnsurePilotSchema, AppendRecord, Summary, bounds
    <3>2. CASE \/ Truncate(p) \/ RemoveFile(p) \/ SeedPilotCase(p) \/ MarkPending(p)
               \/ SettleCase(p) \/ ClaimNew(p) \/ ClaimTerminal(p) \/ ClaimTaken(p)
               \/ ClaimWaitTimesOut(p)
      BY <3>2, Zenon DEF Truncate, RemoveFile, SeedPilotCase, MarkPending, SettleCase,
         ClaimNew, ClaimTerminal, ClaimTaken, ClaimWaitTimesOut, bounds
    <3>3. CASE \/ MarkSubmitted(p) \/ ActOnFake(p) \/ ActOnStripe(p) \/ Reconcile(p)
               \/ RecordOutcome(p) \/ ThrowUnknown(p)
               \/ RunUnsafeRefund(p) \/ Observe(p) \/ FinalizeObservation(p)
      BY <3>3, Zenon DEF MarkSubmitted, ActOnFake, ActOnStripe, Reconcile, RecordOutcome,
         ThrowUnknown, RunUnsafeRefund, Observe, FinalizeObservation, bounds
    <3>4. CASE \/ CheckSurfaced(p) \/ PrepareIntent(p) \/ CheckSameReceipt(p)
               \/ DoctorChecksSchema(p) \/ CleanProbe(p) \/ JudgeProbe(p)
      BY <3>4, Zenon DEF CheckSurfaced, PrepareIntent, CheckSameReceipt,
         DoctorChecksSchema, CleanProbe, JudgeProbe, bounds
    <3> QED
      BY <1>2, <3>1, <3>2, <3>3, <3>4, Zenon DEF Proceed
  <2> QED
    BY <2>1
<1> QED
  BY <1>1, <1>2 DEF Own

LEMMA TellsInit ==
  Init => TellsIInv
<1> SUFFICES ASSUME Init
             PROVE  TellsIInv
  OBVIOUS
<1>1. crashes = 0 /\ \A p \in Processes : proc[p] = IdleProcess
  BY DEF Init
<1>2. \A p \in Processes : proc[p].command = "none"
  BY <1>1 DEF IdleProcess
<1> QED
  BY <1>1, <1>2 DEF TellsIInv

\* The schema and what a doctor has to do are what they were.
LEMMA StaticTells ==
  ASSUME db' = db, NEW p, NEW r, NEW row
  PROVE  (Ready' <=> Ready) /\ (Tells(p, r, row)' <=> Tells(p, r, row))
<1>1. Ready' <=> Ready
  BY DEF Ready, ToSet, PublicMigrationNames
<1>2. Fresh(r)' <=> Fresh(r)
  BY StaticSteps DEF Fresh
<1> QED
  BY <1>1, <1>2, StaticCourse DEF Tells

\* A command that begins disturbs every doctor there is.
LEMMA StartTells ==
  ASSUME SchemaIInv, TellsIInv, NEW p \in Processes, NEW command \in Commands,
         Start(p, command)
  PROVE  TellsIInv'
<1> DEFINE Running(q) == q # p /\ proc[q].command # "none"
           mine == \E q \in Processes : Running(q) /\ proc[q].command \in Disturbers(command)
           Theirs(q) == Running(q) /\ command \in Disturbers(proc[q].command)
           begun == [IdleProcess EXCEPT !.command = command, !.todo = Steps(command),
                                        !.disturbed = mine]
           refused == command # "migrate" /\ config = Refused
<1>s. Shape
  BY DEF SchemaIInv
<1>1. /\ proc' = [q \in Processes |->
                    IF q = p THEN IF refused THEN Ended(begun, 1) ELSE begun
                    ELSE [proc[q] EXCEPT !.disturbed = @ \/ Theirs(q)]]
      /\ crashes' = crashes /\ db' = db /\ ledger' = ledger
  <2>1. UNCHANGED <<dbVars, ledgerVars>>
    BY Zenon DEF Start
  <2>2. db' = db /\ ledger' = ledger
    BY <2>1 DEF dbVars, ledgerVars
  <2> QED
    BY <2>2, Zenon DEF Start
<1>2. Ended(begun, 1).command = "none"
  BY EndedCloses DEF Closed
<1>3. /\ begun.command = command /\ begun.todo = Steps(command) /\ ~begun.lost
      /\ begun.ok /\ begun.call = 0 /\ begun.refunds = <<>>
      /\ begun.receipts = <<NoReceipt, NoReceipt>>
  <2> HIDE DEF mine
  <2> QED
    BY DEF IdleProcess
<1>4. begun.disturbed <=> mine
  <2> HIDE DEF mine
  <2> QED
    BY DEF IdleProcess
<1>5. proc'[p] = Ended(begun, 1) \/ proc'[p] = begun
  BY <1>1
<1> HIDE DEF begun, refused
<1>6. ASSUME NEW q \in Processes, q # p
      PROVE  /\ proc'[q].command = proc[q].command
             /\ proc[q].command = "doctor" => proc'[q].disturbed
  <2> DEFINE v == proc[q].disturbed \/ Theirs(q)
  <2>1. proc'[q] = [proc[q] EXCEPT !.disturbed = v]
    BY <1>1, <1>6, Zenon
  <2>2. proc[q].command = "doctor" => v
    BY <1>6 DEF Disturbers
  <2> HIDE DEF v
  <2> QED
    BY <1>s, <2>1, <2>2 DEF Shape, Shaped, Fields
<1>7. \A q \in Processes : proc'[q].command \in Commands \cup {"none"}
  BY <1>2, <1>3, <1>5, <1>6 DEF TellsIInv
<1>8. ASSUME proc'[p].command = "doctor", ~proc'[p].disturbed
      PROVE  /\ \A q \in Processes \ {p} : proc'[q].command = "none"
             /\ Tells(p, proc'[p], ledger'["doctor"])
  <2>1. proc'[p] = begun /\ command = "doctor" /\ ~mine
    BY <1>2, <1>3, <1>4, <1>5, <1>8
  <2>2. \A q \in Processes \ {p} : proc[q].command = "none"
    BY <2>1 DEF Disturbers, TellsIInv
  <2>3. Fresh(proc'[p])
    <3>1. DOMAIN <<NoReceipt, NoReceipt>> = {1, 2}
      OBVIOUS
    <3>2. Steps("doctor") = RunDoctor
      BY DEF Steps
    <3> QED
      BY <1>3, <2>1, <3>1, <3>2 DEF Fresh
  <2> QED
    BY <1>6, <2>2, <2>3 DEF Tells
<1>9. Tells(p, proc'[p], ledger'["doctor"]) <=> Tells(p, proc[p], ledger["doctor"])'
  BY <1>1, StaticTells
<1>10. ASSUME NEW q \in Processes, proc'[q].command = "doctor", ~proc'[q].disturbed
       PROVE  q = p
  BY <1>6, <1>10
<1> QED
  BY <1>1, <1>7, <1>8, <1>9, <1>10 DEF TellsIInv

LEMMA OwnTells ==
  ASSUME SchemaIInv, DoctorIInv, TellsIInv, NEW p \in Processes, Own(p)
  PROVE  TellsIInv'
<1>s. Shape
  BY DEF SchemaIInv
<1>1. /\ proc[p].command # "none" /\ proc'[p].command \in {proc[p].command, "none"}
      /\ \A q \in Processes : q # p => proc'[q] = proc[q]
  BY OwnFrame
<1>2. crashes' \in Nat
  BY CrashesCounted DEF TellsIInv
<1>3. \A q \in Processes : proc'[q].command \in Commands \cup {"none"}
  BY <1>1 DEF TellsIInv
<1>4. ASSUME NEW q \in Processes, proc'[q].command = "doctor", ~proc'[q].disturbed
      PROVE  /\ \A x \in Processes \ {q} : proc'[x].command = "none"
             /\ ~proc'[q].lost => Tells(q, proc[q], ledger["doctor"])'
  <2>1. q = p
    BY <1>1, <1>4 DEF TellsIInv
  <2>2. proc[p].command = "doctor" /\ proc'[p].command # "none"
    BY <1>1, <1>4, <2>1
  <2>3. DoctorDoes(p) \/ StatementFails(p)
    <3>1. ~Crash(p)
      <4>1. Crash(p) => proc'[p].command = "none"
        BY <1>s, EndedCloses DEF Crash, Become, Shape, Closed
      <4> QED
        BY <2>2, <4>1
    <3> QED
      BY <1>s, <2>2, <3>1, DoctorSteps
  <2>4. Remembered(proc[p], proc'[p])
    BY <1>s, <2>2, <2>3, DoctorRemembers
  <2>5. ~proc[p].disturbed /\ (proc[p].lost => proc'[p].lost)
    BY <1>4, <2>1, <2>4 DEF Remembered
  <2>6. \A x \in Processes \ {p} : proc'[x].command = "none"
    BY <1>1, <2>2, <2>5 DEF TellsIInv
  <2>7. ASSUME ~proc'[p].lost
        PROVE  Tells(p, proc[p], ledger["doctor"])'
    <3>1. DoctorDoes(p)
      <4>1. StatementFails(p) => proc'[p].lost
        <5>1. StatementFails(p) => proc'[p] = Lost(p)
          BY <1>s DEF StatementFails, Become, Shape
        <5> QED
          BY <1>s, <1>1, <5>1, LostRemembered
      <4> QED
        BY <2>3, <2>7, <4>1
    <3>2. Tells(p, proc[p], ledger["doctor"])
      BY <2>2, <2>5, <2>7 DEF TellsIInv
    <3>3. Tells(p, proc'[p], ledger'["doctor"])
      BY <1>s, <1>4, <2>1, <2>2, <2>7, <3>1, <3>2, TellsOn
    <3>4. db' = db
      BY <1>s, <3>1, DoctorFrame
    <3> QED
      BY <3>3, <3>4, StaticTells
  <2> QED
    BY <2>1, <2>6, <2>7
<1> QED
  BY <1>2, <1>3, <1>4 DEF TellsIInv

LEMMA TellsStep ==
  SchemaIInv /\ DoctorIInv /\ TellsIInv /\ [Next]_vars => TellsIInv'
<1> SUFFICES ASSUME SchemaIInv, DoctorIInv, TellsIInv, [Next]_vars
             PROVE  TellsIInv'
  OBVIOUS
<1>1. CASE UNCHANGED vars
  <2>1. UNCHANGED <<db, proc, ledger, crashes>>
    BY <1>1 DEF vars, dbVars, ledgerVars, bounds
  <2>2. \A p \in Processes :
          Tells(p, proc[p], ledger["doctor"])' <=> Tells(p, proc[p], ledger["doctor"])
    BY <2>1, StaticTells
  <2> QED
    BY <2>1, <2>2 DEF TellsIInv
<1>2. ASSUME NEW p \in Processes, NEW command \in Commands, Start(p, command)
      PROVE  TellsIInv'
  BY <1>2, StartTells
<1>3. ASSUME NEW p \in Processes, Own(p)
      PROVE  TellsIInv'
  BY <1>3, OwnTells
<1> QED
  BY <1>1, <1>2, <1>3 DEF Next, Own

(***************************************************************************)
(* The verdict of a doctor: when no command ran beside it, it was not      *)
(* killed and its statements were answered, it passes exactly when the     *)
(* public migrations are there.  Rows that an earlier doctor left behind   *)
(* do not mislead it, as it removes them before its probe.                 *)
(***************************************************************************)
THEOREM DoctorVerdict == Spec => DoctorTells
<1>1. Init => SchemaIInv /\ DoctorIInv /\ TellsIInv
  BY SchemaInit, DoctorInit, TellsInit
<1>2. SchemaIInv /\ DoctorIInv /\ TellsIInv /\ [Next]_vars
        => (SchemaIInv /\ DoctorIInv /\ TellsIInv)'
  BY SchemaStep, DoctorStep, TellsStep
<1>3. SchemaIInv /\ DoctorIInv /\ TellsIInv /\ [Next]_vars
        => [\A p \in Processes :
             (/\ proc[p].command = "doctor" /\ ~proc[p].disturbed
              /\ proc'[p].command = "none" /\ ~proc'[p].lost /\ crashes' = crashes)
               => (proc'[p].code = 0 <=>
                     ToSet(PublicMigrationNames) \subseteq db.recorded \cap db.objects)]_vars
  <2> SUFFICES ASSUME SchemaIInv, DoctorIInv, TellsIInv, Next, NEW p \in Processes,
                      proc[p].command = "doctor", ~proc[p].disturbed,
                      proc'[p].command = "none", ~proc'[p].lost, crashes' = crashes
               PROVE  proc'[p].code = 0 <=> Ready
    BY DEF Ready
  <2>s. Shape
    BY DEF SchemaIInv
  <2>1. \A q \in Processes \ {p} : proc[q].command = "none"
    BY DEF TellsIInv
  <2>2. Own(p)
    <3>1. ASSUME NEW q \in Processes, NEW command \in Commands, Start(q, command)
          PROVE  FALSE
      <4>1. proc[q].command = "none" /\ (q # p => Keeps(proc[p], proc'[p]))
        BY <2>s, <3>1, StartChanges
      <4> QED
        BY <4>1 DEF Keeps
    <3>2. \A q \in Processes : Own(q) => q = p
      BY <2>1, OwnFrame
    <3> QED
      BY <3>1, <3>2 DEF Next, Own
  <2>3. DoctorDoes(p) \/ StatementFails(p)
    <3>1. Crash(p) => crashes' # crashes
      BY DEF Crash, TellsIInv
    <3> QED
      BY <2>s, <2>2, <3>1, DoctorSteps
  <2>4. Remembered(proc[p], proc'[p])
    BY <2>s, <2>3, DoctorRemembers
  <2>5. Tells(p, proc[p], ledger["doctor"])
    BY <2>4 DEF Remembered, TellsIInv
  <2>6. ~StatementFails(p)
    <3>1. StatementFails(p) => proc'[p] = Lost(p)
      BY <2>s DEF StatementFails, Become, Shape
    <3> QED
      BY <2>s, <3>1, LostRemembered
  <2> QED
    BY <2>s, <2>3, <2>5, <2>6, TellsOn
<1> QED
  BY <1>1, <1>2, <1>3, PTL DEF Spec, DoctorTells
==============================================================================
