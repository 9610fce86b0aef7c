--------------------------- MODULE PilotSandbox ---------------------------
(***************************************************************************)
(* The commands of the pilot sandbox (and the database migration of the    *)
(* core package) on one database and one output directory: setup, reset,   *)
(* validate, doctor.  Export and report read the telemetry file and write  *)
(* one no other command reads; they are left out.                          *)
(*                                                                         *)
(* Each process runs one command at a time, as a sequence of steps between *)
(* its awaits; the commands of several processes interleave, a process may *)
(* be killed, the database may refuse any statement or lose its answer,    *)
(* and the disk of the telemetry file may fill up.  The ledger             *)
(* is taken at the grain of the calls the sandbox makes of it: one row per *)
(* key, with the id and the status the client gives it (WriteGuard has the *)
(* rest).  The fake provider lives in the process that created it.         *)
(***************************************************************************)
EXTENDS Naturals, FiniteSets, Sequences, SequencesExt, OperationStateMachine

CONSTANTS
  Processes,
  Environments,      \* the settings .env.pilot may hold
  MaxCommands,       \* bound: commands started
  MaxCrashes,        \* bound: processes killed
  MaxWriteFailures   \* bound: failed appends to the telemetry file

Absent == [status |-> "absent"]
Refused == [mode |-> "refused", provider |-> "none", telemetry |-> FALSE]

(***************************************************************************)
(* parsePilotConfig: the settings every command starts from, or Refused.   *)
(***************************************************************************)
ParsePilotConfig(env) ==
  IF \/ env.stripeKey = "live" \/ ~env.failClosed \/ ~env.reconciliation
     \/ ~env.localDatabase
     \/ env.provider = "stripe-test" /\ (env.stripeKey # "test" \/ env.mode # "enforced")
  THEN Refused
  ELSE [mode |-> env.mode, provider |-> env.provider, telemetry |-> env.telemetry]

PublicMigrationNames == <<"0000_initial", "0001_ordered_events", "0004_shadow_observations">>

Migrations ==
  <<"0000_initial", "0001_ordered_events", "0002_support_cases",
    "0003_support_case_cardinality", "0004_shadow_observations",
    "0005_fake_provider_test_schema">>

(***************************************************************************)
(* The migrations whose objects the statements of a migration refer to.    *)
(***************************************************************************)
Needs(name) ==
  CASE name \in {"0001_ordered_events", "0002_support_cases", "0004_shadow_observations"} ->
         {"0000_initial"}
    [] name = "0003_support_case_cardinality" -> {"0002_support_cases"}
    [] OTHER -> {}

VARIABLES
  config,     \* the parsed settings, the same for every command
  db,         \* the schema: [bookkeeping, recorded, objects, pilotTable]
  txn,        \* process |-> what its open migration transaction did
  ledger,     \* key |-> Absent or the operation row with its receipt
  shadow,     \* Absent or the shadow observation of the pilot key
  case,       \* Absent or the row of the pilot support case
  leftover,   \* whether a doctor was cut off before its last removal
  telemetry,  \* the telemetry file: lines per metric, and a torn last line
  stripe,     \* refunds at Stripe, by the idempotency key of the request
  proc,       \* process |-> the command it runs
  nextId, started, crashes, writeFailures

dbVars == <<db, txn>>
ledgerVars == <<ledger, shadow, case, nextId, leftover>>
fileVars == <<telemetry, writeFailures>>
bounds == <<started, crashes>>
vars == <<config, dbVars, ledgerVars, fileVars, stripe, proc, bounds>>

\* The two latency metrics are appended like the others, and left out.
Metrics ==
  {"guarded_operation", "observed_operation", "duplicate_invocation", "unknown_outcome",
   "successful_reconciliation", "ambiguous_reconciliation", "needs_review",
   "suppressed_execution", "storage_error"}

EmptyFile == [lines |-> [m \in Metrics |-> 0], torn |-> FALSE]
NoTransaction == [created |-> FALSE, ran |-> {}]
NoReceipt == [operation |-> 0, status |-> "none"]

(***************************************************************************)
(* A process: its command and the steps left of it, the calls it made, the *)
(* telemetry records it awaits and whether its writeTail was rejected, the *)
(* refunds of its fake provider, the operation it works on, the receipts   *)
(* of its two calls, whether UNKNOWN surfaced and every check passed.  The *)
(* last two fields say whether a command that changes what it works on ran *)
(* at the same time, and whether the database failed a statement of it; no *)
(* step reads them.                                                        *)
(***************************************************************************)
IdleProcess ==
  [command |-> "none", todo |-> <<>>, call |-> 0, events |-> <<>>, rejected |-> FALSE,
   refunds |-> <<>>, operation |-> 0, receipts |-> <<NoReceipt, NoReceipt>>,
   unknown |-> FALSE, ok |-> TRUE, code |-> 0, disturbed |-> FALSE, lost |-> FALSE]

(***************************************************************************)
(* The steps of the commands.                                              *)
(***************************************************************************)
Step(op) == <<op, "">>

Migrate(names) ==
  <<Step("create")>> \o [i \in DOMAIN names |-> <<"select", names[i]>>] \o <<Step("commit")>>

SetupPilotState == Migrate(PublicMigrationNames) \o <<Step("schema")>>

ResetPilotState ==
  SetupPilotState \o <<Step("truncate"), Step("remove")>>

\* enforce() marks the case, calls execute() and settles the case.
Enforce == <<Step("pending"), Step("claim"), Step("settle")>>

RunFakePilotScenario ==
  SetupPilotState \o <<Step("seed")>> \o
  (IF config.mode = "shadow"
   THEN <<Step("unsafe"), Step("unsafe"), Step("observe"), Step("observe")>>
   ELSE Enforce \o <<Step("catch"), Step("surfaced")>> \o Enforce)
  \o <<Step("summary")>>

RunStripePilotScenario ==
  SetupPilotState \o <<Step("intent"), Step("claim"), Step("claim"), Step("same")>>

RunDoctor ==
  <<Step("check"), Step("clean"), Step("claim"), Step("catch"), Step("surfaced"),
    Step("claim"), Step("judge"), Step("catch"), Step("clean")>>

Steps(command) ==
  CASE command = "migrate"  -> Migrate(Migrations)
    [] command = "setup"    -> SetupPilotState
    [] command = "reset"    -> ResetPilotState
    [] command = "validate" -> ResetPilotState \o (IF config.provider = "fake"
                                                   THEN RunFakePilotScenario
                                                   ELSE RunStripePilotScenario)
    [] command = "doctor"   -> RunDoctor

Commands == {"migrate", "setup", "reset", "validate", "doctor"}

\* The commands that change the rows or files the given command works on.
Disturbers(command) ==
  CASE command = "validate" -> {"validate", "reset"}
    [] command = "doctor"   -> Commands
    [] OTHER -> {}

-----------------------------------------------------------------------------
\* A new database, or one an earlier setup prepared.
Init ==
  /\ \E env \in Environments : config = ParsePilotConfig(env)
  /\ \E earlier \in {{}, ToSet(PublicMigrationNames)} :
       db = [bookkeeping |-> earlier # {}, recorded |-> earlier, objects |-> earlier,
             pilotTable |-> earlier # {}]
  /\ txn = [p \in Processes |-> NoTransaction]
  /\ ledger = [key \in {"pilot", "doctor"} |-> Absent]
  /\ shadow = Absent /\ case = Absent /\ leftover = FALSE
  /\ telemetry = EmptyFile
  /\ stripe = {}
  /\ proc = [p \in Processes |-> IdleProcess]
  /\ nextId = 1 /\ started = 0 /\ crashes = 0 /\ writeFailures = 0

(***************************************************************************)
(* A step may be taken when the telemetry records before it were awaited.  *)
(***************************************************************************)
At(p, op) ==
  /\ proc[p].command # "none" /\ proc[p].events = <<>> /\ proc[p].todo # <<>>
  /\ Head(proc[p].todo)[1] = op

Argument(p) == Head(proc[p].todo)[2]
Done(p) == [proc[p] EXCEPT !.todo = Tail(@)]
Become(p, r) == proc' = [proc EXCEPT ![p] = r]
First(r, steps) == [r EXCEPT !.todo = steps \o @]
Ended(r, exitCode) ==
  [IdleProcess EXCEPT !.code = exitCode, !.disturbed = r.disturbed, !.lost = r.lost]

\* emitTelemetry: only validate gives the client a sink, and a sink whose
\* writeTail was rejected drops every record.
Emit(r, names) ==
  IF r.command = "validate" /\ config.telemetry /\ ~r.rejected
  THEN [r EXCEPT !.events = @ \o names]
  ELSE r

(***************************************************************************)
(* An error unwinds to the next catch: doctor records a failed check, and  *)
(* the enforced scenario expects UNKNOWN from its first call.  An error    *)
(* nothing catches ends the command with exit code 1.                      *)
(***************************************************************************)
Catches(step) == step[1] = "catch"

AfterCatch(todo) ==
  LET i == CHOOSE i \in DOMAIN todo : /\ Catches(todo[i])
                                      /\ \A j \in 1..(i - 1) : ~Catches(todo[j])
  IN  SubSeq(todo, i + 1, Len(todo))

Thrown(r, unknown) ==
  IF (\E i \in DOMAIN r.todo : Catches(r.todo[i])) /\ (r.command = "doctor" \/ unknown)
  THEN [r EXCEPT !.todo = AfterCatch(@), !.unknown = unknown,
                    !.ok = @ /\ unknown /\ r.call = 1]
  ELSE Ended(r, 1)

\* storageCall: the error is counted, then thrown.
StorageError(r) == First(Emit(r, <<"storage_error">>), <<Step("throw")>>)

(***************************************************************************)
(* The database refuses the statement the process is at (two CREATE TABLE  *)
(* IF NOT EXISTS may collide, too), or its answer does not come.  An error *)
(* of a call of the client is counted; doctor records a failed check, goes *)
(* to the last removal when the first one fails, and ignores an error of   *)
(* the last one.                                                           *)
(***************************************************************************)
ClientCalls == {"claim", "submit", "record", "resolve", "observe", "classify"}

Statements ==
  ClientCalls \cup
  {"create", "await_create", "select", "run", "commit", "schema", "truncate", "seed",
   "pending", "settle", "summary", "check", "clean"}

LastRemoval(p) == Head(proc[p].todo)[1] = "clean" /\ Tail(proc[p].todo) = <<>>

Failed(p) ==
  LET op == Head(proc[p].todo)[1]
      r == Done(p)
  IN  CASE op = "claim"         -> StorageError([r EXCEPT !.call = @ + 1])
        [] op \in ClientCalls \ {"claim"} -> StorageError(r)
        [] op = "check"         -> [r EXCEPT !.ok = FALSE]
        [] op = "clean"         -> IF LastRemoval(p) THEN r
                                   ELSE [r EXCEPT !.todo = <<Step("clean")>>, !.ok = FALSE]
        [] OTHER                -> Thrown(r, FALSE)

Lost(p) == [Failed(p) EXCEPT !.lost = TRUE]

\* The statement took effect: its answer comes, or is lost.
Answered(p, r) == Become(p, r) \/ Become(p, Lost(p))

\* The statement took no effect; an open transaction is rolled back.
StatementFails(p) ==
  /\ \E op \in Statements : At(p, op)
  /\ Become(p, Lost(p))
  /\ txn' = [txn EXCEPT ![p] = NoTransaction]
  /\ leftover' = (leftover \/ LastRemoval(p))
  /\ UNCHANGED <<config, db, ledger, shadow, case, nextId, fileVars, stripe, bounds>>

Throw(p) ==
  /\ At(p, "throw")
  /\ Become(p, Thrown(Done(p), FALSE))
  /\ UNCHANGED <<config, dbVars, ledgerVars, fileVars, stripe, bounds>>

Catch(p) ==
  /\ At(p, "catch")
  /\ Become(p, Done(p))
  /\ UNCHANGED <<config, dbVars, ledgerVars, fileVars, stripe, bounds>>

Start(p, command) ==
  /\ proc[p].command = "none" /\ started < MaxCommands
  /\ started' = started + 1
  /\ LET Running(q) == q # p /\ proc[q].command # "none"
         mine == \E q \in Processes : Running(q) /\ proc[q].command \in Disturbers(command)
         Theirs(q) == Running(q) /\ command \in Disturbers(proc[q].command)
         begun == [IdleProcess EXCEPT !.command = command, !.todo = Steps(command),
                                      !.disturbed = mine]
         refused == command # "migrate" /\ config = Refused
     IN  proc' = [q \in Processes |->
                    IF q = p THEN IF refused THEN Ended(begun, 1) ELSE begun
                    ELSE [proc[q] EXCEPT !.disturbed = @ \/ Theirs(q)]]
  /\ UNCHANGED <<config, dbVars, ledgerVars, fileVars, stripe, crashes>>

\* The last step is done; doctor exits with 1 when a check failed.
Finish(p) ==
  /\ proc[p].command # "none" /\ proc[p].events = <<>> /\ proc[p].todo = <<>>
  /\ Become(p, Ended(proc[p], IF proc[p].ok THEN 0 ELSE 1))
  /\ UNCHANGED <<config, dbVars, ledgerVars, fileVars, stripe, bounds>>

-----------------------------------------------------------------------------
(***************************************************************************)
(* Migrations, in one transaction on one connection.  PostgreSQL lets a    *)
(* statement that creates what another open transaction creates wait for   *)
(* the end of that transaction, and fail if it committed.  Whether a       *)
(* statement before COMMIT took effect does not matter when it fails.      *)
(***************************************************************************)
Others(p) == Processes \ {p}

Rollback(p) ==
  /\ txn' = [txn EXCEPT ![p] = NoTransaction]
  /\ Become(p, Ended(proc[p], 1))
  /\ UNCHANGED db

CreateBookkeeping(p) ==
  /\ At(p, "create")
  /\ \/ /\ db.bookkeeping
        /\ Become(p, Done(p))
        /\ UNCHANGED dbVars
     \/ /\ ~db.bookkeeping /\ \A q \in Others(p) : ~txn[q].created
        /\ txn' = [txn EXCEPT ![p].created = TRUE]
        /\ Become(p, Done(p))
        /\ UNCHANGED db
     \/ /\ \E q \in Others(p) : txn[q].created
        /\ Become(p, First(Done(p), <<Step("await_create")>>))
        /\ UNCHANGED dbVars
  /\ UNCHANGED <<config, ledgerVars, fileVars, stripe, bounds>>

AwaitCreate(p) ==
  /\ At(p, "await_create")
  /\ \A q \in Others(p) : ~txn[q].created
  /\ IF db.bookkeeping
     THEN Rollback(p)
     ELSE /\ txn' = [txn EXCEPT ![p].created = TRUE]
          /\ Become(p, Done(p))
          /\ UNCHANGED db
  /\ UNCHANGED <<config, ledgerVars, fileVars, stripe, bounds>>

SelectMigration(p) ==
  /\ At(p, "select")
  /\ LET name == Argument(p) IN
       Become(p, IF name \in db.recorded THEN Done(p)
                 ELSE First(Done(p), <<<<"run", name>>>>))
  /\ UNCHANGED <<config, dbVars, ledgerVars, fileVars, stripe, bounds>>

\* A migration whose statements are committed one by one.
RunAutocommitted(p) ==
  /\ At(p, "run")
  /\ \A q \in Others(p) : Argument(p) \notin txn[q].ran
  /\ IF Argument(p) \in db.recorded
     THEN Rollback(p)
     ELSE /\ txn' = [txn EXCEPT ![p].ran = @ \cup {Argument(p)}]
          /\ db' = [db EXCEPT !.objects = @ \cup {Argument(p)}]
          /\ Become(p, Done(p))
  /\ UNCHANGED <<config, ledgerVars, fileVars, stripe, bounds>>

\* The statements of a migration and its row, whose name is the primary
\* key: when another process recorded it since it was selected, the
\* statements find their objects and the row is refused.
RunMigration(p) ==
  /\ At(p, "run")
  /\ \A q \in Others(p) : Argument(p) \notin txn[q].ran
  /\ IF Argument(p) \in db.recorded
     THEN Rollback(p)
     ELSE /\ txn' = [txn EXCEPT ![p].ran = @ \cup {Argument(p)}]
          /\ Become(p, Done(p))
          /\ UNCHANGED db
  /\ UNCHANGED <<config, ledgerVars, fileVars, stripe, bounds>>

CommitMigrations(p) ==
  /\ At(p, "commit")
  /\ db' = [db EXCEPT !.bookkeeping = TRUE,
                      !.recorded = @ \cup txn[p].ran, !.objects = @ \cup txn[p].ran]
  /\ txn' = [txn EXCEPT ![p] = NoTransaction]
  /\ Answered(p, Done(p))
  /\ UNCHANGED <<config, ledgerVars, fileVars, stripe, bounds>>

EnsurePilotSchema(p) ==
  /\ At(p, "schema")
  /\ db' = [db EXCEPT !.pilotTable = TRUE]
  /\ Answered(p, Done(p))
  /\ UNCHANGED <<config, txn, ledgerVars, fileVars, stripe, bounds>>

-----------------------------------------------------------------------------
(***************************************************************************)
(* The telemetry file.  A failed append may leave part of its line, and    *)
(* the line another process appends next becomes part of it, which no      *)
(* summary can parse.                                                      *)
(***************************************************************************)
Appended(file, metric) ==
  IF file.torn THEN [file EXCEPT !.torn = FALSE]
  ELSE [file EXCEPT !.lines[metric] = @ + 1]

AppendRecord(p) ==
  /\ proc[p].events # <<>>
  /\ telemetry' = Appended(telemetry, Head(proc[p].events))
  /\ Become(p, [proc[p] EXCEPT !.events = Tail(@)])
  /\ UNCHANGED <<config, dbVars, ledgerVars, writeFailures, stripe, bounds>>

\* What emitTelemetry would do if it did not catch the error of its sink.
AppendFailureThrown(p) ==
  /\ proc[p].events # <<>> /\ writeFailures < MaxWriteFailures
  /\ writeFailures' = writeFailures + 1
  /\ \E torn \in BOOLEAN : telemetry' = [telemetry EXCEPT !.torn = @ \/ torn]
  /\ Become(p, Ended(proc[p], 1))
  /\ UNCHANGED <<config, dbVars, ledgerVars, stripe, bounds>>

AppendFails(p) ==
  /\ proc[p].events # <<>> /\ writeFailures < MaxWriteFailures
  /\ writeFailures' = writeFailures + 1
  /\ \E torn \in BOOLEAN : telemetry' = [telemetry EXCEPT !.torn = @ \/ torn]
  /\ Become(p, [proc[p] EXCEPT !.events = <<>>, !.rejected = TRUE])
  /\ UNCHANGED <<config, dbVars, ledgerVars, stripe, bounds>>

\* The validation reads its case, which must be there, and the summary,
\* which awaits writeTail and throws for good once that was rejected.  It
\* then looks at what its provider and its receipt say.
ValidationHolds(r) ==
  IF config.mode = "shadow" THEN Len(r.refunds) = 2
  ELSE Len(r.refunds) = 1 /\ r.receipts[2].status = "CONFIRMED"

Summary(p) ==
  /\ At(p, "summary")
  /\ LET r == proc[p] IN
       Become(p, Ended(r, IF case # Absent /\ ~r.rejected /\ ValidationHolds(r) THEN 0 ELSE 1))
  /\ UNCHANGED <<config, dbVars, ledgerVars, fileVars, stripe, bounds>>

-----------------------------------------------------------------------------
(***************************************************************************)
(* Reset: every row of the ledger, the shadow tables and the case go at    *)
(* once, the telemetry file after that.                                    *)
(***************************************************************************)
Truncate(p) ==
  /\ At(p, "truncate")
  /\ ledger' = [key \in DOMAIN ledger |-> Absent]
  /\ shadow' = Absent /\ case' = Absent /\ leftover' = FALSE
  /\ Answered(p, Done(p))
  /\ UNCHANGED <<config, dbVars, nextId, fileVars, stripe, bounds>>

RemoveFile(p) ==
  /\ At(p, "remove")
  /\ telemetry' = EmptyFile
  /\ Become(p, Done(p))
  /\ UNCHANGED <<config, dbVars, ledgerVars, writeFailures, stripe, bounds>>

SeedPilotCase(p) ==
  /\ At(p, "seed")
  /\ case' = [status |-> "OPEN", refund |-> "NOT_REQUESTED", receipt |-> NoReceipt]
  /\ Answered(p, Done(p))
  /\ UNCHANGED <<config, dbVars, ledger, shadow, nextId, leftover, fileVars, stripe, bounds>>

\* The updates of the case do nothing when a reset removed its row.
MarkPending(p) ==
  /\ At(p, "pending")
  /\ case' = IF case = Absent THEN case ELSE [case EXCEPT !.refund = "PENDING"]
  /\ Answered(p, Done(p))
  /\ UNCHANGED <<config, dbVars, ledger, shadow, nextId, leftover, fileVars, stripe, bounds>>

SettleCase(p) ==
  /\ At(p, "settle")
  /\ LET receipt == proc[p].receipts[proc[p].call] IN
       case' = IF case = Absent THEN case
               ELSE IF receipt.status = "CONFIRMED"
               THEN [status |-> "RESOLVED", refund |-> "CONFIRMED", receipt |-> receipt]
               ELSE [case EXCEPT !.refund = "NEEDS_REVIEW", !.receipt = receipt]
  /\ Answered(p, Done(p))
  /\ UNCHANGED <<config, dbVars, ledger, shadow, nextId, leftover, fileVars, stripe, bounds>>

-----------------------------------------------------------------------------
(***************************************************************************)
(* One execute() call: claim, then submit and call the provider, or        *)
(* reconcile, or return the receipt there is.                              *)
(***************************************************************************)
Key(p) == IF proc[p].command = "doctor" THEN "doctor" ELSE "pilot"
Row(p) == ledger[Key(p)]
Held(row) == row.status \in {"CLAIMED", "SUBMITTED", "RECONCILING"}

Receipt(row) == [operation |-> row.id, status |-> row.status]

Called(p) == [Done(p) EXCEPT !.call = @ + 1]
Suppressed == <<"duplicate_invocation", "suppressed_execution">>

Returned(r, receipt) == [r EXCEPT !.receipts[r.call] = receipt]

ClaimNew(p) ==
  /\ At(p, "claim") /\ Row(p) = Absent
  /\ ledger' = [ledger EXCEPT ![Key(p)] = [id |-> nextId, status |-> "CLAIMED", owner |-> p]]
  /\ nextId' = nextId + 1
  /\ Answered(p, Emit([First(Called(p), <<Step("submit"), Step("act")>>)
                         EXCEPT !.operation = nextId], <<"guarded_operation">>))
  /\ UNCHANGED <<config, dbVars, shadow, case, leftover, fileVars, stripe, bounds>>

ClaimTerminal(p) ==
  /\ At(p, "claim") /\ Row(p).status \in TerminalStatuses
  /\ Become(p, Emit(Returned(Called(p), Receipt(Row(p))), Suppressed))
  /\ UNCHANGED <<config, dbVars, ledgerVars, fileVars, stripe, bounds>>

\* UNKNOWN, or held by a lease, which may pass at any moment: CLAIMED is
\* executed again, what may have been submitted is reconciled.
ClaimTaken(p) ==
  /\ At(p, "claim")
  /\ Row(p).status = "UNKNOWN" \/ Held(Row(p))
  /\ LET again == Row(p).status = "CLAIMED"
         taken == [Called(p) EXCEPT !.operation = Row(p).id]
     IN  /\ ledger' = [ledger EXCEPT ![Key(p)].owner = p,
                         ![Key(p)].status = IF again THEN "CLAIMED" ELSE "RECONCILING"]
         /\ Answered(p, IF again
                        THEN Emit(First(taken, <<Step("submit"), Step("act")>>),
                                  <<"guarded_operation">>)
                        ELSE Emit(First(taken, <<Step("reconcile")>>), Suppressed))
  /\ UNCHANGED <<config, dbVars, shadow, case, nextId, leftover, fileVars, stripe, bounds>>

\* Held by another process until the wait runs out.
ClaimWaitTimesOut(p) ==
  /\ At(p, "claim") /\ Held(Row(p))
  /\ Become(p, Thrown(Called(p), FALSE))
  /\ UNCHANGED <<config, dbVars, ledgerVars, fileVars, stripe, bounds>>

\* The row of the operation may still take the status.  Only markSubmitted
\* asks who owns the claim.
Moves(p, status) ==
  /\ Row(p) # Absent
  /\ Row(p).id = proc[p].operation /\ CanTransition(Row(p).status, status)

MarkSubmitted(p) ==
  /\ At(p, "submit")
  /\ IF Moves(p, "SUBMITTED") /\ Row(p).owner = p
     THEN /\ ledger' = [ledger EXCEPT ![Key(p)].status = "SUBMITTED"]
          /\ Answered(p, Done(p))
     ELSE /\ Become(p, StorageError(Done(p)))
          /\ UNCHANGED ledger
  /\ UNCHANGED <<config, dbVars, shadow, case, nextId, leftover, fileVars, stripe, bounds>>

(***************************************************************************)
(* The provider was asked, or looked up, and the ledger is told next: op   *)
(* is "record" after an execution and "resolve" after a lookup.  The       *)
(* record that somebody must review it is emitted before.                  *)
(***************************************************************************)
Outcome(p, op, status) ==
  First(Emit(Done(p), IF status = "NEEDS_REVIEW" THEN <<"needs_review">> ELSE <<>>),
        <<<<op, status>>>>)

Faked(p) == proc[p].command = "doctor" \/ config.provider = "fake"

\* The fake provider keeps the refund and loses its acknowledgement.
ActOnFake(p) ==
  /\ At(p, "act") /\ Faked(p)
  /\ Become(p, [Outcome(p, "record", "UNKNOWN")
                  EXCEPT !.refunds = Append(@, proc[p].operation)])
  /\ UNCHANGED <<config, dbVars, ledgerVars, fileVars, stripe, bounds>>

(***************************************************************************)
(* Stripe makes the refund, which verify accepts or not (it may be pending *)
(* or mismatch), or rejects the request, which the adapter takes for       *)
(* definite, or its answer is lost before or after the refund.             *)
(***************************************************************************)
ActOnStripe(p) ==
  /\ At(p, "act") /\ ~Faked(p)
  /\ \E status \in {"CONFIRMED", "NEEDS_REVIEW", "FAILED", "UNKNOWN"}, made \in BOOLEAN :
       /\ status \in {"CONFIRMED", "NEEDS_REVIEW"} => made
       /\ status = "FAILED" => ~made
       /\ stripe' = IF made THEN stripe \cup {proc[p].operation} ELSE stripe
       /\ Become(p, Outcome(p, "record", status))
  /\ UNCHANGED <<config, dbVars, ledgerVars, fileVars, bounds>>

\* The refunds the provider has for the operation.
Matches(p) ==
  IF Faked(p)
  THEN Cardinality({i \in DOMAIN proc[p].refunds : proc[p].refunds[i] = proc[p].operation})
  ELSE Cardinality(stripe \cap {proc[p].operation})

\* A lookup at Stripe may fail, and verify may refuse what it finds.
Reconcile(p) ==
  /\ At(p, "reconcile")
  /\ \E status \in (IF Matches(p) = 1 THEN {"CONFIRMED"} ELSE {"NEEDS_REVIEW"})
                     \cup (IF Faked(p) THEN {} ELSE {"NEEDS_REVIEW", "UNKNOWN"}) :
       Become(p, Outcome(p, "resolve", status))
  /\ UNCHANGED <<config, dbVars, ledgerVars, fileVars, stripe, bounds>>

(***************************************************************************)
(* The finalize calls, markUnknown and markReconciliationUnavailable.  A   *)
(* terminal status returns its receipt; UNKNOWN is thrown, as itself after *)
(* an execution and as a failed reconciliation after a lookup.             *)
(***************************************************************************)
Recorded(p, op, status) ==
  CASE status # "UNKNOWN" ->
         Emit(Returned(Done(p), [operation |-> proc[p].operation, status |-> status]),
              IF op = "resolve" /\ status = "CONFIRMED"
              THEN <<"successful_reconciliation">> ELSE <<>>)
    [] status = "UNKNOWN" /\ op = "record" ->
         First(Emit(Done(p), <<"unknown_outcome">>), <<Step("throw_unknown")>>)
    [] OTHER -> First(Done(p), <<Step("throw")>>)

RecordOutcome(p) ==
  /\ \E op \in {"record", "resolve"} :
       /\ At(p, op)
       /\ LET status == Argument(p) IN
            IF Moves(p, status)
            THEN /\ ledger' = [ledger EXCEPT ![Key(p)].status = status]
                 /\ Answered(p, Recorded(p, op, status))
            ELSE /\ Become(p, StorageError(Done(p)))
                 /\ UNCHANGED ledger
  /\ UNCHANGED <<config, dbVars, shadow, case, nextId, leftover, fileVars, stripe, bounds>>

ThrowUnknown(p) ==
  /\ At(p, "throw_unknown")
  /\ Become(p, Thrown(Done(p), TRUE))
  /\ UNCHANGED <<config, dbVars, ledgerVars, fileVars, stripe, bounds>>

-----------------------------------------------------------------------------
(***************************************************************************)
(* The shadow scenario: the existing application refunds twice, each time  *)
(* under the id of its tool call, and the calls are only observed.         *)
(***************************************************************************)
RunUnsafeRefund(p) ==
  /\ At(p, "unsafe")
  /\ Become(p, [Called(p) EXCEPT !.refunds = Append(@, 0)])
  /\ UNCHANGED <<config, dbVars, ledgerVars, fileVars, stripe, bounds>>

\* The lookup by business key finds every refund the provider made.
Classification(r) ==
  CASE Len(r.refunds) = 0 -> "no_match_visible"
    [] Len(r.refunds) = 1 -> "verified_external_effect"
    [] OTHER              -> "ambiguous_matches"

Observe(p) ==
  /\ At(p, "observe")
  /\ LET again == shadow # Absent
         class == Classification(proc[p])
         observed == IF again THEN "duplicate_invocation" ELSE "observed_operation"
         looked == CASE class = "ambiguous_matches" -> <<"ambiguous_reconciliation">>
                     [] class = "verified_external_effect" -> <<"successful_reconciliation">>
                     [] OTHER -> <<>>
     IN  /\ shadow' = IF again THEN [shadow EXCEPT !.count = @ + 1]
                      ELSE [status |-> "present", id |-> nextId, count |-> 1,
                            class |-> "not_evaluated"]
         /\ nextId' = IF again THEN nextId ELSE nextId + 1
         /\ Answered(p, Emit([First(Done(p), <<Step("classify")>>)
                                EXCEPT !.operation = shadow'.id],
                             <<observed>> \o looked))
  /\ UNCHANGED <<config, dbVars, ledger, case, leftover, fileVars, stripe, bounds>>

FinalizeObservation(p) ==
  /\ At(p, "classify")
  /\ IF shadow # Absent /\ shadow.id = proc[p].operation
     THEN /\ shadow' = [shadow EXCEPT !.class = Classification(proc[p])]
          /\ Answered(p, Done(p))
     ELSE /\ Become(p, StorageError(Done(p)))
          /\ UNCHANGED shadow
  /\ UNCHANGED <<config, dbVars, ledger, case, nextId, leftover, fileVars, stripe, bounds>>

-----------------------------------------------------------------------------
\* UNKNOWN must have surfaced from the first call: the scenario throws
\* otherwise, doctor records a failed check.
CheckSurfaced(p) ==
  /\ At(p, "surfaced")
  /\ Become(p, IF proc[p].unknown THEN Done(p)
               ELSE IF proc[p].command = "doctor" THEN [Done(p) EXCEPT !.ok = FALSE]
               ELSE Ended(proc[p], 1))
  /\ UNCHANGED <<config, dbVars, ledgerVars, fileVars, stripe, bounds>>

\* createOrReuseTestPaymentIntent: throws when there is nothing to refund.
PrepareIntent(p) ==
  /\ At(p, "intent")
  /\ \/ Become(p, Done(p))
     \/ Become(p, Ended(proc[p], 1))
  /\ UNCHANGED <<config, dbVars, ledgerVars, fileVars, stripe, bounds>>

CheckSameReceipt(p) ==
  /\ At(p, "same")
  /\ LET receipts == proc[p].receipts IN
       Become(p, Ended(proc[p], IF /\ receipts[1].operation = receipts[2].operation
                                   /\ receipts[2].status = "CONFIRMED"
                                THEN 0 ELSE 1))
  /\ UNCHANGED <<config, dbVars, ledgerVars, fileVars, stripe, bounds>>

(***************************************************************************)
(* Doctor: the migrations and tables it needs (nothing more when the       *)
(* database does not answer at all), a probe in a namespace of its own,    *)
(* and the rows of that namespace removed before and after.                *)
(***************************************************************************)
DoctorChecksSchema(p) ==
  /\ At(p, "check")
  /\ \/ Become(p, [Done(p) EXCEPT !.ok = @ /\ ToSet(PublicMigrationNames)
                                               \subseteq db.recorded \cap db.objects])
     \/ Become(p, [Lost(p) EXCEPT !.todo = <<>>])
  /\ UNCHANGED <<config, dbVars, ledgerVars, fileVars, stripe, bounds>>

\* A doctor that cleans up only after a probe without errors, and one that
\* removes nothing before its probe.
CleanUnlessFailed(p) ==
  /\ At(p, "clean")
  /\ IF {"0000_initial", "0004_shadow_observations"} \subseteq db.objects
     THEN /\ ledger' = [ledger EXCEPT !["doctor"] =
                          IF ~LastRemoval(p) \/ proc[p].ok THEN Absent ELSE @]
          /\ leftover' = FALSE
          /\ Answered(p, Done(p))
     ELSE Become(p, Failed(p)) /\ UNCHANGED <<ledger, leftover>>
  /\ UNCHANGED <<config, dbVars, shadow, case, nextId, fileVars, stripe, bounds>>

CleanAfterwards(p) ==
  /\ At(p, "clean")
  /\ IF {"0000_initial", "0004_shadow_observations"} \subseteq db.objects
     THEN /\ ledger' = [ledger EXCEPT !["doctor"] = IF LastRemoval(p) THEN Absent ELSE @]
          /\ leftover' = (leftover /\ ~LastRemoval(p))
          /\ Answered(p, Done(p))
     ELSE Become(p, Failed(p)) /\ UNCHANGED <<ledger, leftover>>
  /\ UNCHANGED <<config, dbVars, shadow, case, nextId, fileVars, stripe, bounds>>

CleanProbe(p) ==
  /\ At(p, "clean")
  /\ IF {"0000_initial", "0004_shadow_observations"} \subseteq db.objects
     THEN /\ ledger' = [ledger EXCEPT !["doctor"] = Absent]
          /\ leftover' = FALSE
          /\ Answered(p, Done(p))
     ELSE Become(p, Failed(p)) /\ UNCHANGED <<ledger, leftover>>
  /\ UNCHANGED <<config, dbVars, shadow, case, nextId, fileVars, stripe, bounds>>

JudgeProbe(p) ==
  /\ At(p, "judge")
  /\ Become(p, [Done(p) EXCEPT !.ok = /\ @
                                      /\ proc[p].receipts[2].status = "CONFIRMED"
                                      /\ Len(proc[p].refunds) = 1])
  /\ UNCHANGED <<config, dbVars, ledgerVars, fileVars, stripe, bounds>>

-----------------------------------------------------------------------------
\* The process is killed: its transaction is rolled back, and the record it
\* was appending may be torn.
Crash(p) ==
  /\ proc[p].command # "none" /\ crashes < MaxCrashes
  /\ crashes' = crashes + 1
  /\ Become(p, Ended(proc[p], 137))
  /\ txn' = [txn EXCEPT ![p] = NoTransaction]
  /\ \E torn \in BOOLEAN :
       /\ torn => proc[p].events # <<>>
       /\ telemetry' = [telemetry EXCEPT !.torn = @ \/ torn]
  /\ leftover' = (leftover \/ proc[p].command = "doctor")
  /\ UNCHANGED <<config, db, ledger, shadow, case, nextId, writeFailures, stripe, started>>

Proceed(p) ==
  \/ Throw(p) \/ Catch(p) \/ Finish(p)
  \/ CreateBookkeeping(p) \/ AwaitCreate(p) \/ SelectMigration(p) \/ RunMigration(p)
  \/ CommitMigrations(p) \/ EnsurePilotSchema(p)
  \/ AppendRecord(p) \/ Summary(p)
  \/ Truncate(p) \/ RemoveFile(p) \/ SeedPilotCase(p) \/ MarkPending(p) \/ SettleCase(p)
  \/ ClaimNew(p) \/ ClaimTerminal(p) \/ ClaimTaken(p) \/ ClaimWaitTimesOut(p)
  \/ MarkSubmitted(p) \/ ActOnFake(p) \/ ActOnStripe(p) \/ Reconcile(p)
  \/ RecordOutcome(p) \/ ThrowUnknown(p)
  \/ RunUnsafeRefund(p) \/ Observe(p) \/ FinalizeObservation(p)
  \/ CheckSurfaced(p) \/ PrepareIntent(p) \/ CheckSameReceipt(p)
  \/ DoctorChecksSchema(p) \/ CleanProbe(p) \/ JudgeProbe(p)

Next ==
  \E p \in Processes :
    \/ \E command \in Commands : Start(p, command)
    \/ Proceed(p) \/ StatementFails(p) \/ AppendFails(p) \/ Crash(p)

Spec == Init /\ [][Next]_vars

-----------------------------------------------------------------------------
(***************************************************************************)
(* A migration is recorded exactly when its objects exist, and never       *)
(* before the migrations it refers to, however many processes migrate the  *)
(* same database at once and wherever they are killed.                     *)
(***************************************************************************)
SchemaAsRecorded ==
  /\ db.recorded = db.objects
  /\ \A name \in db.objects : Needs(name) \subseteq db.objects

(***************************************************************************)
(* When no doctor runs, rows of a probe are left only by a doctor that was *)
(* killed, or whose last removal the database refused (its error is        *)
(* swallowed), and only until the next removal: also when probes fail and  *)
(* several doctors probe at once.                                          *)
(***************************************************************************)
ProbeRowsRemoved ==
  ledger["doctor"] = Absent \/ leftover \/ \E p \in Processes : proc[p].command = "doctor"

(***************************************************************************)
(* A doctor no other command ran beside, and whose statements were all     *)
(* answered, passes exactly when the public migrations are there, whatever *)
(* the doctors before it left behind.                                      *)
(***************************************************************************)
DoctorTells ==
  [][\A p \in Processes :
       (/\ proc[p].command = "doctor" /\ ~proc[p].disturbed
        /\ proc'[p].command = "none" /\ ~proc'[p].lost /\ crashes' = crashes)
         => (proc'[p].code = 0 <=>
               ToSet(PublicMigrationNames) \subseteq db.recorded \cap db.objects)]_vars

(***************************************************************************)
(* However its telemetry fails, a validation that called its provider, was *)
(* not killed, shared its rows with no other command and had all its       *)
(* statements answered leaves what its mode promises.  Enforced, with the  *)
(* fake provider: one refund although two calls were made and the first    *)
(* lost its answer, and the case resolved by the receipt in the ledger.    *)
(* Shadow: two refunds, both calls observed, and no row in the ledger.     *)
(* These two succeed unless the telemetry failed.  With Stripe the promise *)
(* is weaker, since Stripe may do anything: the row says CONFIRMED or      *)
(* NEEDS_REVIEW of a refund that exists, FAILED of one that does not, and  *)
(* UNKNOWN otherwise, and the command succeeds exactly when it says        *)
(* CONFIRMED.  When a validation succeeds with telemetry, the counters say *)
(* so.  And when the database failed a statement of it, the command fails, *)
(* and a refund that was made is made once, and its row is not one another *)
(* call would execute or believe failed.                                   *)
(***************************************************************************)
CountersTell ==
  LET n == telemetry.lines IN
  IF config.mode = "shadow"
  THEN n["observed_operation"] = 1 /\ n["duplicate_invocation"] = 1
       /\ n["guarded_operation"] = 0 /\ n["ambiguous_reconciliation"] = 2
  ELSE n["guarded_operation"] = 1 /\ n["duplicate_invocation"] = 1
       /\ n["suppressed_execution"] = 1 /\ n["needs_review"] = 0
       /\ n["unknown_outcome"] = n["successful_reconciliation"]

Settled(r, exitCode) ==
  IF config.mode = "shadow"
  THEN /\ Len(r.refunds) = 2 /\ ledger["pilot"] = Absent
       /\ shadow.count = 2 /\ shadow.class = "ambiguous_matches"
       /\ exitCode = 0 <=> ~r.rejected
  ELSE IF config.provider = "fake"
  THEN /\ Len(r.refunds) = 1 /\ ledger["pilot"].status = "CONFIRMED"
       /\ case = [status |-> "RESOLVED", refund |-> "CONFIRMED",
                  receipt |-> Receipt(ledger["pilot"])]
       /\ exitCode = 0 <=> ~r.rejected
  ELSE /\ ledger["pilot"].status \in {"CONFIRMED", "NEEDS_REVIEW", "FAILED", "UNKNOWN"}
       /\ ledger["pilot"].status \in {"CONFIRMED", "NEEDS_REVIEW"} => ledger["pilot"].id \in stripe
       /\ ledger["pilot"].status = "FAILED" => ledger["pilot"].id \notin stripe
       /\ exitCode = 0 <=> ledger["pilot"].status = "CONFIRMED"

Interrupted(r, exitCode) ==
  /\ exitCode = 1
  /\ IF config.mode = "shadow" THEN ledger["pilot"] = Absent
     ELSE /\ Len(r.refunds) <= 1
          /\ (r.refunds # <<>> \/ r.operation \in stripe)
               => ledger["pilot"].status \notin {"absent", "CLAIMED", "FAILED"}

ValidationSettles ==
  [][\A p \in Processes :
       (/\ proc[p].command = "validate" /\ proc[p].call > 0 /\ ~proc[p].disturbed
        /\ proc'[p].command = "none" /\ crashes' = crashes)
         => LET exitCode == proc'[p].code IN
            /\ IF proc'[p].lost THEN Interrupted(proc[p], exitCode)
               ELSE Settled(proc[p], exitCode)
            /\ exitCode = 0 /\ config.telemetry /\ ~proc[p].rejected => CountersTell]_vars
==============================================================================
