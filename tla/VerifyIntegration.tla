------------------------ MODULE VerifyIntegration ------------------------
(***************************************************************************)
(* verifyGeneratedIntegration: one verification of a generated directory,  *)
(* in the steps between its awaits, while files of the directory may be    *)
(* edited.                                                                 *)
(*                                                                         *)
(* It reads the manifest, lists the directory, reads every file the        *)
(* manifest owns and compares its digest, checks that the bundle holds an  *)
(* approved review bound to what the manifest names, reads the provider    *)
(* implementation if one is named, and only then runs processes: the       *)
(* compiler, and if the tests are wanted a second compilation into a       *)
(* temporary directory and the tests in it.  Everything that throws ends   *)
(* in the failed receipt.                                                  *)
(*                                                                         *)
(* The content of a file is a model value; the constants say which contents*)
(* pass the static scan, which bundle contents hold an approved and bound  *)
(* review, and which provider contents implement the boundary.  A digest   *)
(* is compared by comparing contents.                                      *)
(***************************************************************************)
EXTENDS VerificationPolicy, Sequences, SequencesExt

CONSTANTS
  ManifestOrder,   \* the files a manifest owns, in the order they are read
  BundleFile,      \* the one of them that holds the verification bundle
  Contents,        \* what a file may contain
  Clean,           \* the contents the static scan accepts
  ValidBundles,    \* the contents that are an approved and bound bundle
  Implementing,    \* the contents that implement the provider boundary
  Policies,        \* the policies receipts are evaluated with
  MaxEdits         \* bound: edits while the verification runs

ManifestFiles == ToSet(ManifestOrder)

\* The provider implementation; the code refuses one a manifest owns.
Provider == "provider"

\* Why a file cannot be read.
Unreadable == {"missing", "symlink", "oversized"}

ASSUME VerifyAssumption ==
  /\ BundleFile \in ManifestFiles
  /\ Provider \notin ManifestFiles
  /\ Clean \cup ValidBundles \cup Implementing \subseteq Contents
  /\ Contents \cap Unreadable = {}
  /\ \A policy \in Policies : ParsedPolicy(policy)
  /\ MaxEdits \in Nat

NoManifest == [valid |-> FALSE]
NoResult == [kind |-> "none", exitCode |-> "null"]
NoProcess == [name |-> "none", child |-> "none", termination |-> "none"]
NoReceipt == [overall |-> "none"]
Processes == {"compile", "emit", "test"}

VARIABLES
  options,    \* [runTests, strict, providerFile : BOOLEAN]
  disk,       \* file |-> content, or why it cannot be read
  manifest,   \* the manifest on the disk
  extra,      \* a user-created file is in the directory
  pc,         \* where the verification is
  claimed,    \* the manifest as it was read
  extras,     \* the inventory found a file outside the manifest
  seen,       \* file |-> content it was read with
  process,    \* the child process that runs
  results,    \* process |-> how it ended
  output,     \* the temporary directory exists
  thrown,     \* an error is being unwound through the finally block
  receipt,    \* the receipt returned
  edits

directory == <<disk, manifest, extra>>
vars == <<options, disk, manifest, extra, pc, claimed, extras, seen, process,
          results, output, thrown, receipt, edits>>

Manifests ==
  {NoManifest} \cup
  [valid : {TRUE}, owns : [ManifestFiles -> Contents], names : Contents]

(***************************************************************************)
(* The directory as it may be when the verification starts: as generated,  *)
(* or with one file edited, replaced or removed since, with or without a   *)
(* file of the developer's.                                                *)
(***************************************************************************)
Generated(claims) ==
  [file \in ManifestFiles \cup {Provider} |->
     IF file = Provider THEN "missing" ELSE claims.owns[file]]

Directories(claims) ==
  {[Generated(claims) EXCEPT ![file] = content] :
     file \in ManifestFiles, content \in Contents \cup Unreadable}

Init ==
  /\ options \in [runTests : BOOLEAN, strict : BOOLEAN, providerFile : BOOLEAN]
  /\ manifest \in Manifests
  /\ \E claims \in Manifests \ {NoManifest}, provider \in Contents \cup {"missing"} :
       /\ manifest # NoManifest => manifest = claims
       /\ \E files \in Directories(claims) :
            disk = [files EXCEPT ![Provider] = provider]
  /\ extra \in BOOLEAN
  /\ pc = "manifest" /\ claimed = NoManifest /\ extras = FALSE
  /\ seen = [file \in {} |-> "missing"]
  /\ process = NoProcess
  /\ results = [name \in Processes |-> NoResult]
  /\ output = FALSE /\ thrown = FALSE
  /\ receipt = NoReceipt
  /\ edits = 0

-----------------------------------------------------------------------------
(***************************************************************************)
(* The two ways to return: the failed receipt of the catch block, and the  *)
(* receipt of everything that was found.                                   *)
(***************************************************************************)
Fail == pc' = "done" /\ receipt' = FailedReceipt

Succeeded(result) == result.kind = "completed" /\ result.exitCode = "0"

TestStatus ==
  CASE ~options.runTests \/ ~Succeeded(results["compile"]) -> "not_run"
    [] OTHER -> IF Succeeded(results["emit"]) /\ Succeeded(results["test"])
                THEN "passed_with_limitations" ELSE "failed"

Return ==
  /\ pc = "return"
  /\ pc' = "done"
  /\ receipt' = CompletedReceipt(extras, Succeeded(results["compile"]), TestStatus,
                                 options.providerFile)
  /\ UNCHANGED <<options, directory, claimed, extras, seen, process, results, output,
                 thrown, edits>>

(***************************************************************************)
(* The manifest is read and parsed; its contract, generator and template   *)
(* versions and its paths are part of being valid.                         *)
(***************************************************************************)
ReadManifest ==
  /\ pc = "manifest"
  /\ claimed' = manifest
  /\ IF manifest.valid THEN pc' = "inventory" /\ UNCHANGED receipt ELSE Fail
  /\ UNCHANGED <<options, directory, extras, seen, process, results, output, thrown, edits>>

(***************************************************************************)
(* The inventory refuses symlinks among the files, and in strict mode      *)
(* files outside the manifest other than the named provider's.             *)
(***************************************************************************)
TakeInventory ==
  LET provided == disk[Provider] # "missing"
      unexpected == extra \/ (provided /\ ~options.providerFile)
  IN  /\ pc = "inventory"
      /\ extras' = (extra \/ provided)
      /\ IF \/ "symlink" \in {disk[file] : file \in DOMAIN disk}
            \/ options.strict /\ unexpected
         THEN Fail ELSE pc' = "files" /\ UNCHANGED receipt
      /\ UNCHANGED <<options, directory, claimed, seen, process, results, output,
                     thrown, edits>>

(***************************************************************************)
(* The manifest's digest chain: the bundle it owns is the one it names,    *)
(* holds an approved review bound to its tool and analysis, and is the one *)
(* whose source, analysis and review the manifest names.                   *)
(***************************************************************************)
BindingValid(contents) ==
  /\ contents[BundleFile] \in ValidBundles
  /\ claimed.names = contents[BundleFile]

\* Mutant: a file that cannot be read is passed over
FileAcceptedIfReadable(file, content) ==
  content \in Contents => content = claimed.owns[file] /\ content \in Clean

FileAccepted(file, content) ==
  /\ content \in Contents
  /\ content = claimed.owns[file]
  /\ content \in Clean

With(file, content) ==
  [f \in DOMAIN seen \cup {file} |-> IF f = file THEN content ELSE seen[f]]

\* The next file in the order of the manifest.
ReadOwnedFile ==
  /\ pc = "files"
  /\ \E n \in DOMAIN ManifestOrder :
       LET file == ManifestOrder[n]
           all == DOMAIN seen \cup {file} = ManifestFiles
       IN  /\ file \notin DOMAIN seen
           /\ \A earlier \in 1..(n - 1) : ManifestOrder[earlier] \in DOMAIN seen
           /\ seen' = With(file, disk[file])
           /\ IF FileAccepted(file, disk[file]) /\ (all => BindingValid(seen'))
              THEN /\ pc' = CASE ~all -> "files"
                              [] all -> IF options.providerFile THEN "provider" ELSE "compile"
                   /\ UNCHANGED receipt
              ELSE Fail
  /\ UNCHANGED <<options, directory, claimed, extras, process, results, output,
                 thrown, edits>>

ReadProvider ==
  /\ pc = "provider"
  /\ seen' = With(Provider, disk[Provider])
  /\ IF disk[Provider] \in Clean \cap Implementing
     THEN pc' = "compile" /\ UNCHANGED receipt ELSE Fail
  /\ UNCHANGED <<options, directory, claimed, extras, process, results, output, thrown, edits>>

-----------------------------------------------------------------------------
(***************************************************************************)
(* NodeVerificationProcessRunner.run: a child process with a timer and an  *)
(* output limit.  The timer may fire, or the last of the output arrive,    *)
(* after the child has exited and before its exit event is handled.        *)
(***************************************************************************)
Spawn ==
  /\ pc \in Processes /\ process = NoProcess
  /\ process' = [name |-> pc, child |-> "running", termination |-> "none"]
  /\ UNCHANGED <<options, directory, pc, claimed, extras, seen, results, output,
                 thrown, receipt, edits>>

\* Mutant: the timer records the timeout and kills nothing
TerminateWithoutKill(reason) == process' = [process EXCEPT !.termination = reason]

Terminate(reason) ==
  process' = [process EXCEPT !.termination = reason,
                !.child = IF @ = "running" THEN "killed" ELSE @]

ChildExits ==
  /\ process.child = "running"
  /\ \E exitCode \in {"0", "1"} : process' = [process EXCEPT !.child = exitCode]
  /\ UNCHANGED <<options, directory, pc, claimed, extras, seen, results, output,
                 thrown, receipt, edits>>

OutputLimit ==
  /\ process # NoProcess /\ process.termination = "none"
  /\ Terminate("output_limit")
  /\ UNCHANGED <<options, directory, pc, claimed, extras, seen, results, output,
                 thrown, receipt, edits>>

Timeout ==
  /\ process # NoProcess /\ process.termination = "none"
  /\ Terminate("timeout")
  /\ UNCHANGED <<options, directory, pc, claimed, extras, seen, results, output,
                 thrown, receipt, edits>>

(***************************************************************************)
(* What follows the end of a process: the tests run only after a           *)
(* successful compilation, and only if they were asked for.                *)
(***************************************************************************)
\* Mutant: the tests run without a second look at whether they were wanted
AfterProcessAlwaysTests(name, result) ==
  CASE name = "compile" -> IF Succeeded(result) THEN "mkdir" ELSE "return"
    [] name = "emit" -> IF Succeeded(result) THEN "test" ELSE "rm"
    [] name = "test" -> "rm"

AfterProcess(name, result) ==
  CASE name = "compile" ->
         IF options.runTests /\ Succeeded(result) THEN "mkdir" ELSE "return"
    [] name = "emit" -> IF Succeeded(result) THEN "test" ELSE "rm"
    [] name = "test" -> "rm"

Settle(name, result) ==
  /\ results' = [results EXCEPT ![name] = result]
  /\ process' = NoProcess
  /\ pc' = AfterProcess(name, result)
  /\ UNCHANGED <<options, directory, claimed, extras, seen, output, thrown, receipt, edits>>

ExitEvent ==
  /\ process.child \in {"0", "1", "killed"}
  /\ Settle(process.name,
            [kind |-> IF process.termination = "none" THEN "completed" ELSE process.termination,
             exitCode |-> IF process.child = "killed" THEN "null" ELSE process.child])

SpawnError ==
  /\ pc \in Processes /\ process = NoProcess
  /\ Settle(pc, [kind |-> "spawn_error", exitCode |-> "null"])

-----------------------------------------------------------------------------
(***************************************************************************)
(* The temporary directory of the test run, removed in a finally block: an *)
(* error of the removal replaces the result of the tests.                  *)
(***************************************************************************)
MakeOutput ==
  /\ pc = "mkdir"
  /\ \E made \in BOOLEAN :
       /\ output' = made
       /\ thrown' = ~made
       /\ pc' = IF made THEN "emit" ELSE "rm"
  /\ UNCHANGED <<options, directory, claimed, extras, seen, process, results, receipt, edits>>

RemoveOutput ==
  /\ pc = "rm"
  /\ output' = FALSE
  /\ IF thrown THEN Fail ELSE pc' = "return" /\ UNCHANGED receipt
  /\ UNCHANGED <<options, directory, claimed, extras, seen, process, results, thrown, edits>>

RemoveOutputFails ==
  /\ pc = "rm" /\ output
  /\ thrown' = TRUE
  /\ Fail
  /\ UNCHANGED <<options, directory, claimed, extras, seen, process, results, output, edits>>

(***************************************************************************)
(* Somebody edits the directory while it is being verified.                *)
(***************************************************************************)
EditDirectory ==
  /\ pc # "done" /\ edits < MaxEdits
  /\ edits' = edits + 1
  /\ \/ /\ \E file \in DOMAIN disk, content \in Contents \cup {"missing"} :
             disk' = [disk EXCEPT ![file] = content]
        /\ UNCHANGED <<manifest, extra>>
     \/ /\ extra' = ~extra
        /\ UNCHANGED <<disk, manifest>>
  /\ UNCHANGED <<options, pc, claimed, extras, seen, process, results, output, thrown, receipt>>

Verify ==
  \/ ReadManifest \/ TakeInventory \/ ReadOwnedFile \/ ReadProvider
  \/ Spawn \/ SpawnError \/ ExitEvent
  \/ MakeOutput \/ RemoveOutput \/ RemoveOutputFails \/ Return

Next == Verify \/ ChildExits \/ OutputLimit \/ Timeout \/ EditDirectory

(***************************************************************************)
(* The verification and its timer run; a child process need not end.       *)
(***************************************************************************)
Spec == Init /\ [][Next]_vars /\ WF_vars(Verify) /\ WF_vars(Timeout)

-----------------------------------------------------------------------------
(***************************************************************************)
(* What the verdict of a verification promises of a directory nobody       *)
(* touches: every file is the one an intact manifest owns, the bundle is   *)
(* approved and the one the manifest names, and the provider implements    *)
(* the boundary.                                                           *)
(***************************************************************************)
Intact ==
  /\ manifest.valid
  /\ \A file \in ManifestFiles :
       disk[file] = manifest.owns[file] /\ disk[file] \in Clean
  /\ disk[BundleFile] = manifest.names /\ disk[BundleFile] \in ValidBundles
  /\ options.providerFile => disk[Provider] \in Clean \cap Implementing
  /\ options.strict => ~extra /\ (disk[Provider] # "missing" => options.providerFile)

ProcessesSucceeded ==
  /\ Succeeded(results["compile"])
  /\ options.runTests => Succeeded(results["emit"]) /\ Succeeded(results["test"])

(***************************************************************************)
(* When nobody edits the directory meanwhile, the many reads and processes *)
(* of a verification come to what one look at the directory says: it does  *)
(* not fail exactly when the directory is intact, every process it had to  *)
(* run succeeded and the temporary directory was made and removed; and on  *)
(* a directory that is not intact it runs no process at all.               *)
(***************************************************************************)
QuietVerdict ==
  pc = "done" /\ edits = 0 =>
    /\ receipt.overall # "failed" <=> Intact /\ ProcessesSucceeded /\ ~thrown
    /\ ~Intact => results = [name \in Processes |-> NoResult]

(***************************************************************************)
(* Generated code is executed only if that was asked for, after every file *)
(* the manifest owns was read with its digest, the approved review was     *)
(* checked and two compilations succeeded; a receipt that says the tests   *)
(* passed or were not run says so of the process, unless it is the receipt *)
(* of an error; and what the verification leaves on the disk, it does not  *)
(* hide behind a verdict that passes.  Edits of the directory change none  *)
(* of this.                                                                *)
(***************************************************************************)
TestsRan == results["test"] # NoResult \/ process.name = "test"

ExecutionEarned ==
  /\ TestsRan =>
       /\ options.runTests
       /\ \A file \in ManifestFiles : FileAccepted(file, seen[file])
       /\ BindingValid(seen)
       /\ Succeeded(results["compile"]) /\ Succeeded(results["emit"])
  /\ pc = "done" =>
       LET tests == receipt.checks["tests.generated_failure_behavior"]
       IN  /\ tests = "passed_with_limitations" => Succeeded(results["test"])
           /\ tests = "not_run" => ~TestsRan
           /\ output => receipt.overall = "failed"

(***************************************************************************)
(* A policy that passes a receipt (exit code 0 of policy check) was given  *)
(* what it requires by this very run: integrity and bindings by the files  *)
(* that were read, compilation and tests by processes that succeeded, the  *)
(* provider by an implementation that was read.  No policy that requires   *)
(* real-provider semantics, or forbids limitations, passes any receipt of  *)
(* this verifier.                                                          *)
(***************************************************************************)
PolicyPassedIsEarned ==
  pc = "done" =>
    \A policy \in Policies :
      PolicyExitCode(policy, receipt) = 0 =>
        /\ VerifyExitCode(receipt) = 0
        /\ \A file \in ManifestFiles : FileAccepted(file, seen[file])
        /\ BindingValid(seen)
        /\ policy["controlledCompilation"] = "required" => Succeeded(results["compile"])
        /\ policy["generatedFailureTests"] = "required" => Succeeded(results["test"])
        /\ policy["providerBoundaryComplete"] = "required" =>
             seen[Provider] \in Clean \cap Implementing
        /\ policy["realProviderSemantics"] # "required"
        /\ policy["receiptLimitations"] = "allow_declared"

(***************************************************************************)
(* Every verification returns a receipt, whatever the child processes do:  *)
(* one that hangs is killed by the timer.                                  *)
(***************************************************************************)
VerificationEnds == <>(pc = "done")
==============================================================================
