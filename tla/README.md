# WriteGuard in TLA+

WriteGuard guards one consequential external write (a refund, say): callers
retry freely under one *operation key*, and the write must happen at most once,
end in one receipt, and never be reported as something it was not. This
directory models the code that keeps that promise, checks it with TLC on small
instances, and proves the central results with TLAPS for every instance.

## 1. The system

| Component | Source | State | Operations | What is hard | What makes it correct |
|---|---|---|---|---|---|
| Operation status machine | `packages/core/src/state-machine.ts`, `models.ts` | none | `canTransition`, `assertTransition` | the table is consulted by calls that arrive in any order | no legal sequence contradicts a receipt |
| PostgreSQL operation store | `packages/core/src/postgres-store.ts`, `drizzle/*.sql` | operation row, attempts, events, receipt | `claim`, `markSubmitted`, `markUnknown`, `markReconciliationUnavailable`, `finalize*`, `markCompensating` | leases that expire under a live worker, takeover, crash between transactions | one submission, one receipt, status and receipt agree |
| In-memory store | `packages/core/src/memory-store.ts` | the same, in maps behind a promise lock | the same | no rollback | one write; a timeline that explains its receipt |
| SDK | `packages/sdk/src/index.ts` | per call: the position in `execute` / `reconcile` / `verifyAndFinalize` | application hooks and store calls | every `await` is a point where others run; answers are lost or late | the hook runs at most once; receipts agree |
| Shadow observation | `sdk/src/index.ts` `observe`, store shadow methods | observation row, invocation log | record, look up, finalize | finalizations of concurrent observers in any order | one original, nothing outdated, nothing executed |
| Pilot telemetry | `packages/sdk/src/telemetry.ts` | a promise chain, a file | `record`, `summary` | a failed append | telemetry never controls a write |
| Support, pilot and starter workflows | `apps/*/src/workflow.ts` | a support case row | update the case, invoke the guarded refund, update the case | two systems, no transaction | the case never contradicts the receipt |
| Hand-written refund | `apps/design-partner-starter/src/workflow.ts` `runManualRefund` | one row per key | insert, submit, execute, reconcile | a second run reconciles while the first executes | at most one refund |
| Migrations | `packages/core/src/db/migrate.ts`, `packages/writeguard/src/index.ts` | bookkeeping table | apply pending migrations in one transaction | two migrators, a killed one | what is recorded is what exists |
| Pilot sandbox | `apps/pilot-sandbox/src/*.ts` | the ledger, a case, a telemetry file | setup, reset, validate, doctor; export and report only read | commands on one database and one directory; telemetry, or a statement, that fails under a refund | a validation keeps its mode's promise; a doctor says what it found; what a probe leaves behind is known |
| Tool analysis, OpenAI analyzer | `packages/writeguard/src/analysis`, `packages/analyzer-openai` | none | normalize, analyze, check the answer, seal the result | an answer that is complete, plausible and wrong | no analysis of another definition is used |
| Generation review | `analysis/generation.ts` | none | draft, approve, request | hand-edited files | nothing is generated that nobody approved |
| Artifact generation and publication | `packages/generator/src/generate.ts`, `publish.ts` | a stage directory and a target | stage, check, rename with retries | the target appears meanwhile | never overwrites, leaves no partial output |
| Command line | `packages/writeguard/src/cli-program.ts`, `cli-io.ts` | the files of a directory | `normalize-mcp`, `analyze`, `review`, `approve`, `generate`, `verify`, `policy check` | files that change between reads; two terminals; a killed command | the exit code tells the truth |
| Verification of generated projects | `packages/generator/src/verification*.ts` | a directory, a temporary directory, child processes | read, compare, compile, test, evaluate a policy | edits meanwhile; a child that hangs or exits as its timer fires | no incomplete evidence passes |
| Stripe adapter, redaction, demos, scripts | `packages/stripe-adapter`, `packages/core`, `apps`, `scripts` | none or local | classification, formatting, scripted scenarios | | |

The SDK calls the store through `OperationStore`; the store serialises all
calls of one key by its row lock. The application supplies four hooks
(`execute`, `reconcile`, `verify`, optionally `compensate`), which reach the
provider. Two processes meet only in the database and at the provider.

At design time the commands talk through files: each artifact carries digests
of those it was made from (definition, tool, analysis, review, bundle,
manifest), and every command checks the chain again. The verifier checks a
generated directory the same way, then runs the compiler and the tests on it.

## 2. Modules

| Module | Models | State |
|---|---|---|
| `OperationStateMachine` | the status table | none |
| `PostgresOperationStore` | one operation key of the durable ledger; every public method is one transaction and one action | `status`, `fingerprint`, `owner`, `lease`, `attempts`, `receipt` |
| `WriteGuard` | any number of `execute()` calls of that key over the ledger, the hooks, the provider, crashes and lease expiry | the ledger's, and `pc`, `attempt`, `reply`, `executions`, `compensations`, `inflight`, `effects` |
| `ExternalWrite` | the abstract promise: one write, one undo, one justified verdict | `writes`, `undos`, `verdict` |
| `InMemoryOperationStore` | one operation key of the in-memory ledger, over the same variables | the ledger's |
| `WriteGuardInMemory` | `execute()` calls over the in-memory ledger in one process | those of `WriteGuard` |
| `ShadowObservation` | any number of `observe()` calls of one key over the two shadow tables | the observation row, its invocations, per observer its position, evaluation and receipt, the emitted metrics |
| `SupportCase` | any number of runs of an example application's workflow over `ExternalWrite` | the case row, and the position of each run |
| `ManualRefund` | any number of calls of the starter's hand-written refund with its provider | the ledger row, the provider's refunds, per call its position and answer |
| `AnalysisContracts` | normalisation of a tool definition, the contract of a risk analysis, the analyzer's answers | none |
| `GenerationContracts` | the review draft, its approval and the generation request, with the checks of a selection; the refusals of the generator | none |
| `CommandLine` | any number of terminals running the five design-time commands in one directory | the files, per terminal the command and its position, what it read, its stage and exit code |
| `VerificationPolicy` | the receipts of the verifier and the policies they are evaluated with | none |
| `VerifyIntegration` | one verification of a directory that may be edited meanwhile, with its child processes | the directory, the position, what was read, the child, the results, the temporary directory, the receipt |
| `PilotSandbox` | any number of processes running the sandbox's commands on one database and one output directory | the schema and open transactions, the ledger, the shadow row, the case, the telemetry file, Stripe's refunds, per process its command and the steps left of it |
| `MCPostgresOperationStore`, `MCWriteGuard`, `MCWriteGuardInMemory`, `MCShadowObservation`, `MCCommandLine`, `MCVerifyIntegration`, `MCPilotSandbox` | instances for TLC | |
| `OperationStoreProofs`, `WriteGuardProofs`, `ShadowObservationProofs`, `SupportCaseProofs`, `ManualRefundProofs`, `VerifyIntegrationProofs`, `CommandLineProofs`, `PilotSandboxProofs` | theorems and proofs | |

**The ledger.** Rows of different keys share nothing, so one key is the whole
ledger. `ABSENT` is the state before the INSERT. `claim()` is split by its
decision (`ClaimNew`, `ClaimReclaimed`, `ClaimReconcile`, `ClaimTerminal`,
`ClaimInProgress`, `ClaimConflicts`, `ClaimUnanswerable`); each decision is a
complete transaction, the closing of the superseded attempt included. A
transaction that throws rolls back; it is the absence of a step here and the
disjunct `Refused` (or its like) in `WriteGuard`. Attempts are a sequence, as
`attempt_number` is dense and unique. A receipt keeps its status and
`duplicateExecutionPrevented`; evidence, references and timestamps are left
out, and so are the append-only events. `lease` abstracts `claim_expires_at`
to *none*, *active* and *expired*; it may expire at any moment. `StoreNext` is
the most general client: any method, any worker, any attempt, in any order.

**The SDK.** `pc[i]` names the next call of invocation `i`; each `await` is a
step boundary. `attempt[i]` is the attempt its claim or submission produced.
`Crash` stands for a dead process, a lost connection, and hooks outside any
`try` (`getProviderReference`, `getVerificationEvidence`) that throw. A poll
that finds the operation in progress and sleeps changes nothing and is a
stutter. `inflight` holds requests the provider has not settled: a request may
be applied long after the hook gave up (`ProviderApplies`), and a lookup may
miss an effect that exists. The compensate hook may throw with or without
having undone the effect. `finalizeCompensated` is returned without `await`
inside its `try`, so its failure is not caught there, and the model does not
catch it either.

**The in-memory ledger.** `InMemoryOperationStore` takes the decisions of the
durable ledger but differs where the code does: a method that throws keeps what
it had assigned (`LeaveOutcome`: the attempt keeps the outcome of a refused
call), and `receipts.set` replaces a receipt (`CreateReceipt`). Over it, the SDK
has no lost answers; `UnguardedHookThrows` is the one way a call ends early.

**Shadow observation.** `Record` is the transaction of
`recordShadowObservation`, `Finalize` the single UPDATE of
`finalizeShadowObservation`; between them `Emit`, `Lookup` and `Verify` are the
awaits of `observe()`. A stored evaluation is a classification, a verdict and
whether there is a provider reference. `FinalizeUnheard` is an UPDATE that
commits although its caller gets an error.

**The support case.** `SupportCase` composes the application with the promise,
not with the SDK: `Execute` and `Settle` are the promise's `Write` and `Decide`
taken by a run, and `Answered`, `ThrowsUnknown` and `Fails` the three ways
`invoke()` ends. The support application marks only an OPEN case PENDING and
catches errors (`Escalate`); `enforce()` of the pilot and the starter does
neither. All runs ask for the same refund: another amount is another key.

**The hand-written refund.** `ManualRefund` has a step for each `await` of
`runManualRefund`; its queries are unconditional but for the INSERT. `late` is a
history variable: the calls that began when a refund existed.

**Artifacts.** `AnalysisContracts` and `GenerationContracts` are functions from
artifacts to artifacts, `Refused` where the code throws. An artifact is a record
of what later checks can tell apart; a schema is a function from field paths to
nodes. A digest is the digested content itself, tagged, so that two digests are
equal exactly when the contents are. Descriptions, rationales and the text of
generated files are left out.

**The command line.** A command is the sequence of files it reads, one step
each, then a computation (`Compute`), then its publication. `normalize-mcp` and
`analyze` print; the documented redirection truncates the target when the
command starts (`Start`), so a later reader may find an empty file. The others
go through a stage: `CheckTarget`, `StageFile`, `RecheckTarget`, `Rename`,
`RetryRename`, `RemoveStage`. A rename replaces a file but, for a project, at
most an empty directory on POSIX; on Windows it may fail and be retried. `Crash`
kills a command wherever it is, and the developer's edits (`EditDefinition`,
`EditTool`, `EditDraft`, `MakeDirectory`) fall between any two steps.

**The verifier.** `VerifyIntegration` has a step for each await of
`verifyGeneratedIntegration`: manifest, inventory, every owned file, the
provider, then the processes. `Spawn`, `ChildExits`, `ExitEvent`, `Timeout` and
`OutputLimit` are the runner: a child may have exited, or may still be writing,
when its timer fires. The temporary directory is made and removed inside a
`finally`; a removal that throws replaces the result (`thrown`).
`VerificationPolicy` builds the receipt from what was found and evaluates a
policy on it; `CommandLine` and it share nothing but the generated directory.

**The pilot sandbox.** A command is a sequence of steps (`Steps`), executed one
per action, with a `catch` marker where the code catches. Migrations run in one
transaction each; a `CREATE` that meets an uncommitted one of another process
waits for it and fails when it commits (`AwaitCreate`). The ledger is taken at
the grain of the calls the sandbox makes of it, `WriteGuard` has the rest; the
refund that loses its first answer is `ActOnFake`. `ActOnStripe` and `Reconcile`
have the outcomes of the Stripe adapter: a refund that `verify` accepts or not
(it may be pending, or mismatch), a rejection the adapter takes for definite, a
lost answer, a lookup that fails. A failed append rejects the sink's promise
chain, after which the process records nothing (`rejected`), and may leave part
of a line that spoils the next one (`torn`). The database may fail any statement,
before it took effect (`StatementFails`) or after (`Answered`): the client counts
the error and throws, a doctor records a failed check, and swallows the error of
its last removal. Three fields are history, read by no step: `disturbed` (another
command worked on the same rows meanwhile), `lost` (a statement failed) and
`leftover` (a doctor was cut off before its last removal took effect).

**The promise.** `WriteGuard!ImplementsExternalWrite` maps `executions`,
`compensations` and `receipt.status` to `writes`, `undos` and `verdict`.

## 3. What is checked

| Run | Instance | Question |
|---|---|---|
| `PostgresOperationStore` | 2 workers, 2 fingerprints, 5 attempts | does the ledger keep its guarantees under every order of calls? |
| `WriteGuardSafety` | 5 calls, all may crash; 2 share a worker id, 1 has other input | is the write ever repeated, its undo repeated, an effect denied, a receipt contradicted? what is left when worker ids repeat? does a call with other input get past the claim? |
| `WriteGuardLiveness` | 2 faulty calls, 1 persistent caller, no compensation | does every call end, and does the persistent caller get its receipt? |
| `InMemorySafety` | 4 calls, with compensation | what survives when refused calls are not rolled back and receipts can be replaced? |
| `ShadowObservation` | 4 observers: with and without lookup and verification, one with other input, one faulty | is the original named once, can a finished observation be overwritten by one it did not overlap? |
| `SupportCase` | 2 faulty runs, 1 persistent, both kinds of application | does the case ever claim a refund that is not confirmed, stay pending unexplained, or stay unresolved? |
| `ManualRefund` | 4 calls, 2 faulty, 4 provider scenarios | how far does a unique key alone carry? |
| `CommandLine` | 2 terminals, 3 commands, 1 edit, 1 kill; 3 definitions, 5 answers | is every project on the disk made from one approved chain, whatever changed between the reads? is it final? does an exit code tell the truth? |
| `VerifyIntegration` | 2 owned files, 1 edit, 6 policies | is a verdict what one look at the directory says? is code run only after every check? is a policy passed only by what this run did? does it end? |
| `PilotSandbox` | 2 processes, 2 commands, 1 kill, 1 failed append, any failing statements; 5 settings | do concurrent migrations agree with their record? what leaves the rows of a probe? does a doctor pass exactly when the migrations are there? does a validation keep its mode's promise while telemetry and statements fail? |
| `WriteGuardReceiptFinal` (violated) | 2 calls | is a receipt returned to all later calls? |
| `ShadowCounterfactual` (violated) | 2 observers | does some observation of a key report that it would have executed? |

**Bounds.** `MaxAttempts` is the only artificial bound: UNKNOWN and RECONCILING
alternate for ever under the general client, and five attempts allow one
submission and four takeovers, twice the number any property relates. The
`WriteGuard` instances need no bound. A call that is not `Persistent` makes at
most two attempts; a persistent caller that never fails itself is refused only
while somebody else makes progress. Four calls let one execute, one reconcile
after its lease passed, one take that reconciliation over, and one come last;
the fifth reuses the key with other input. Four observers allow a pair that
overlaps, one that comes late, and one that is refused.

Three commands in two terminals let an approval be followed by two generations
that race for one directory; the initial states hold whatever earlier sessions
may have left, so that one more edit is enough to break any link of the chain
(`MaxCommands`, `MaxEdits`, `MaxCrashes`, `MaxRenameRetries`). A verification
reads each of its two files once, and one edit can fall before, between and
after the reads. In `PilotSandbox` (`MaxCommands`, `MaxCrashes`,
`MaxWriteFailures`) two commands give every pair that can overlap or follow;
statements fail without a bound. `MaxFieldDepth`, `MaxTypeDepth` and
`MaxProperties` stand for the limits of the contracts and of the generator
(8 levels of a type, for instance) at a size the checked schemas can exceed.

**Fairness.** `FairSpec` asks that a live process takes its next step (an
event loop runs what is ready), that a persistent caller calls again, and that
time passes a lease. A step that awaits an application hook is one of these: the
SDK sets no timer around the hooks, so `CallsEnd` assumes that each of them
settles, one way or the other. Nothing is asked of the provider or of a faulty call:
`Crash` has no fairness, and whether a lookup answers is free for `Faulty` calls.

In `SupportCase` a persistent run has strong fairness of `Answered`: once a
receipt stands (there is no compensation to undo it) every fresh call of the key
is answered by its claim, so only calls begun earlier can still fail.

`VerifyIntegration` has weak fairness of the verifier's own steps and of the
timer it sets, and none of the child: a compiler that hangs is killed.
`CommandLine` and `PilotSandbox` state no liveness, hence no fairness.

**Deadlock.** Every run stops when all calls have ended (or the receipt is
written, or the bound on commands is used up), so the deadlock check is off;
`CallsEnd` and `VerificationEnds` say that nothing stops earlier.

**Statements the code does not keep.** The two violated runs are each one
sentence of the documentation, with the trace TLC finds:

- `ReceiptAnswersLaterCalls` (`docs/ARCHITECTURE.md:78`): an executor's lease
  passes while it verifies; a reconciler takes over and verifies `false`; the
  executor confirms; the reconciler's `markCompensating` is legal from
  CONFIRMED; `finalizeCompensated` violates the unique receipt, and later calls
  fail with `Unhandled claim state COMPENSATING`, although the effect was undone
  behind a CONFIRMED receipt.
- `SomeInvocationNotSuppressed` (`packages/writeguard/README.md:145`): two
  observations overlap; each builds its receipt from the row as finalized, where
  the count is already 2, and both say `wouldSuppressDuplicate`, although one of
  them was counted as `observed_operation`.

Three more sentences are stronger than the code, as the models' behaviours show
without a run of their own: the provider may be called by an owner whose lease
has passed between `markSubmitted` and the hook (`docs/ARCHITECTURE.md:91`), the
write is still performed once; a process that dies in COMPENSATING is not
escalated by anyone (`docs/FAILURE_MODEL.md:36`); and `finalizeNeedsReview`
(`postgres-store.ts:524`) writes a literal `true` for
`duplicateExecutionPrevented`, also when the first call of a key executed its hook
and `verify` returned `false` (`docs/PRODUCT_BOUNDARY.md:65`). For this reason
`PreventedConfirmationReconciled` speaks of confirmations only.

`ReceiptReplacedOnlyByUndo` is the in-memory side of `ReceiptAnswersLaterCalls`: there
the same interleaving is not refused but replaces the CONFIRMED receipt a caller
may already have. The property says that nothing else replaces one.

## 4. What is proved

All proofs are for arbitrary constants: any set of workers, callers, faulty and
persistent subsets, with or without a compensate hook, any definitions, files,
edits and policies. The assumptions are `NullAssumption` (NULL is no worker id
or fingerprint), `InvocationAssumption` (the types of the constants),
`VerifyAssumption` (the provider is no file a manifest owns, which the generator
and the verifier refuse; what a file contains is not a reason why it cannot be
read; policies are parsed ones), and those of the
constants of the artifact modules.

`OperationStoreProofs` proves the guarantees of both ledgers under their
general client. The argument rests on the history of a key: while it is absent
or CLAIMED it has no attempts; once there is one, the first is the submission,
every other is a reconciliation, and CLAIMED is never entered again (no move of
the table leads back). `LegalSources` lists, for every status, where it can be
entered from. The receipt invariant adds that a receipt exists exactly in the
terminal statuses and, after CONFIRMED, in COMPENSATING.

`WriteGuardProofs` first shows that every step of the SDK is a step of the
ledger's client or leaves the ledger alone (`ImplementsStore`), so the store's
theorems apply. Its inductive invariant says that the right to call the execute
hook is a token: it is created by the one move from CLAIMED to SUBMITTED, is
held by one call at `pc = "execute"`, and is used up by the call; the same holds
of the compensate hook and the move to COMPENSATING. `ExecutionUnique`,
`CompensationUnique` and the refinement `SingleWrite` follow. `EffectInv` adds
where the one request is (in flight, an effect, or nowhere), from which
`ConfirmedIsReal` and `DenialIsReal` follow.

`RepliesConsistent` follows from where replies come from: a receipt that stands,
and a receipt is never replaced. `ConflictStopped` needs that the fingerprint is
written by the first claim only, `PreventedIsReconciled` that the submission is
the only attempt while the status is SUBMITTED, so whatever confirms later with a
prevented duplicate has an attempt of its own.

`VerdictAttributed` adds that the attempt that produced a receipt is recorded
with an outcome that says the same.

For the in-memory ledger the argument about a key's history is repeated without
rollback. `LeasedAttemptRunning` is not available there, as a refused call may
close the attempt of the current lease under the general client; the history and
receipt invariants hold without it. Over it, the SDK takes the same steps of its
own, so the lemmas about them are shared: each says which of the variables of the
calls a step changes, and one proof for either ledger says what the ledger's part
does. `MemExecutionUnique` and `MemImplementsStore` follow as before.
`MemReceiptIsExplained` is about what a refused call leaves behind: it may close
an attempt with an outcome nobody asked for. An attempt is only ever closed by the
call that made it (`AttemptOwned`: two calls never hold one attempt), and the
author of a receipt has then taken its last step, so the outcome that explains
the receipt stays (`AuthorKept`).

`ShadowObservationProofs` shows that the numbers of invocations have no gap and
no repetition, hence (`OriginalIsFirst`) that only the first can be reported as
not a duplicate. `LatestCurrent` allows an older lookup to overwrite a newer one,
as the code does, but only between observations that overlapped: the stored
evaluation is that of one finished observation, and every observation that has
finished was recorded before that one's UPDATE. It rests on the numbers given by
the record transaction and on the count the UPDATE returns.

`SupportCaseProofs` needs only that a run records a verdict that stands.
`ManualRefundProofs` again uses a token: the INSERT that finds no row creates it,
`createRefund` uses it up; a call that began later looks up after that and finds
exactly one match.

`VerifyIntegrationProofs` carries one invariant along the position of the
verifier: what it has read so far passed its checks, the child that runs was
started after them, and a receipt is built from exactly these results. A policy
that passes therefore rests on a run that completed and was not ended by a timer.
For `VerdictOfQuietDirectory` a second invariant says how much of an unedited
directory each position has found intact (`Looked`); every way to the failed
receipt contradicts one part of `Intact`, or is the temporary directory's.

`PilotSandboxProofs` reasons about `todo`, the sequence of steps a command has
left. Every action either leaves it, advances it by its head (and puts the steps of
a call in front), unwinds it to its first catch, or ends the command; two lemmas
(`CommandMoves`, `CallMoves`) say so of all of them, and an invariant of a
sequence then needs one lemma per kind of move. `MigrationsRecorded` uses that in
what is left no migration comes before those it refers to, unless they are already
recorded or ran in the open transaction, and that no catch comes before it
(`Steady`): what is unwound to a catch therefore cannot commit half a chain.
`DoctorRemovesProbe` says who can leave rows of a probe behind: a doctor that was
killed, or whose last removal failed, and only until the next removal. It uses
that a doctor's remaining steps end with the removal and that every step that
could throw has a catch after it and before the removal (`CleansUp`), that a
failed first removal goes straight to the last one, and that the tables the
removal needs, once found, are never dropped.

`DoctorVerdict` is the action property `DoctorTells`. While nothing disturbs a
doctor every other process is idle (a command that starts disturbs it), so its steps
can be followed alone: once its first check passed it is on a `Course`, which says of
each of its stages what is left to do (`Rest(k)`), what its calls have returned and
what the row of its probe holds; if the check did not pass, no later step forgets it
(`Remembered`). A failed statement is remembered too, and ends the claim. The rows
an earlier doctor left do not enter, because the row is removed before the first call.

`CommandLineProofs` needs the types of the terminals and one fact about the
commands, that only `generate` has the project's path as its target; its rename
replaces nothing but an empty directory, so a project is final. `Holds` says what
a terminal holds at each place of its command: no stage before it stages, a
complete one when it renames, and, if it generates, an artifact made from one
approved review. The last is a lemma about the checks of the generator alone
(`GeneratedIsApproved`): it does not matter what the files held before, or which
session wrote them. Finality keeps what an earlier command reported true.

Every safety invariant and action property a passing run checks is stated by a
theorem, except `ValidationSettles` of the sandbox, which is model-checked: it
follows a validation through all of its steps, modes, outcomes and failures beside
any number of other commands, and its inductive invariant would list each stage of
it. Liveness is model-checked too, out of the prover's reach as ENABLED is: `CallsEnd`,
`PersistentCallerAnswered`, `ConfirmedCaseResolved`, `VerificationEnds`.

## 5. Plan

1. *Done*: status machine, ledger, SDK, promise, proofs of the above.
2. *Done*: `InMemoryOperationStore` and the SDK over it: which promises of the
   ledger survive without rollback and with receipts that can be replaced.
3. *Done*: `ShadowObservation`: record and finalize by concurrent observers.
4. *Done*: `SupportCase` and `ManualRefund`, the example applications.
5. *Done*: `PilotSandbox`: the telemetry chain and its failure, the migrations,
   the sandbox's commands.
6. *Done*: `AnalysisContracts`, `GenerationContracts`, `CommandLine`: the chain of
   artifacts and its publication.
7. *Done*: `VerificationPolicy`, `VerifyIntegration`.
8. *Done*: proofs of the safety invariants and action properties the runs check,
   but for `ValidationSettles`.
9. The proof of `ValidationSettles`, with Stripe's outcomes and lost statements.
10. `LeaseClock`: expiry written by the database's clock and read by the
   process's; what a bounded skew does to a lease that is still live.

## 6. Not modelled

Text (redaction, the hash of a fingerprint, prompts, the wording of artifacts and
reports, the content of generated files), argument parsing, the adapter
conformance suite, the limit on the size of the generator's input, the sandbox's
export and report (they read the telemetry file and write one no other command
reads), build and release scripts, and the scripted scenarios of the agent and
refund demos: no shared state, nothing to interleave. `PROJECT.json`
lists every component with its status, and every hazard with the properties that
cover it.
