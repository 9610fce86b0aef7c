---------------------- MODULE VerifyIntegrationProofs ----------------------
(***************************************************************************)
(* Theorems about one verification, for any manifest, any contents, any    *)
(* policies, and however often the directory is edited meanwhile.          *)
(***************************************************************************)
EXTENDS VerifyIntegration, TLAPS

Reading == {"manifest", "inventory", "files"}
Testing == {"mkdir", "emit", "test", "rm"}
Checking == {"provider", "compile", "return"} \cup Testing
Places == Reading \cup Checking \cup {"done"}

Results ==
  [kind : {"none", "completed", "timeout", "output_limit", "spawn_error"},
   exitCode : {"null", "0", "1"}]

TypeInv ==
  /\ options \in [runTests : BOOLEAN, strict : BOOLEAN, providerFile : BOOLEAN]
  /\ pc \in Places
  /\ process \in [name : Processes \cup {"none"},
                  child : {"none", "running", "killed", "0", "1"},
                  termination : {"none", "timeout", "output_limit"}]
  /\ results \in [Processes -> Results]
  /\ output \in BOOLEAN

\* The process that runs is the one pc waits for; the tests were asked for,
\* and each process before them succeeded.
RunnerInv ==
  /\ process # NoProcess => pc \in Processes /\ process.name = pc
  /\ pc \in Reading \cup {"provider", "compile", "mkdir", "emit"} =>
       results["test"] = NoResult
  /\ pc \in Testing => options.runTests /\ Succeeded(results["compile"])
  /\ pc = "test" => Succeeded(results["emit"])
  /\ TestsRan =>
       options.runTests /\ Succeeded(results["compile"]) /\ Succeeded(results["emit"])

\* What was read is accepted; all of it, once the files are behind.
Checked ==
  /\ ManifestFiles \subseteq DOMAIN seen
  /\ \A file \in ManifestFiles : FileAccepted(file, seen[file])
  /\ BindingValid(seen)

ProviderChecked == options.providerFile => seen[Provider] \in Clean \cap Implementing

ReadInv ==
  /\ pc \in {"manifest", "inventory"} => DOMAIN seen = {}
  /\ pc = "files" => \A file \in DOMAIN seen : FileAccepted(file, seen[file])
  /\ pc \in Checking => Checked
  /\ pc \in Checking \ {"provider"} => ProviderChecked

\* A receipt that is not the failed one is that of everything found.
ReceiptInv ==
  /\ output => pc \in {"emit", "test", "rm", "done"}
  /\ TestsRan => Checked
  /\ pc = "done" =>
       \/ receipt = FailedReceipt
       \/ /\ ~output /\ Checked /\ ProviderChecked
          /\ receipt = CompletedReceipt(extras, Succeeded(results["compile"]), TestStatus,
                                        options.providerFile)

VerifyInv == TypeInv /\ RunnerInv /\ ReadInv /\ ReceiptInv

LEMMA VerifyInit == Init => VerifyInv
<1> SUFFICES ASSUME Init PROVE VerifyInv
  OBVIOUS
<1>1. /\ options \in [runTests : BOOLEAN, strict : BOOLEAN, providerFile : BOOLEAN]
      /\ pc = "manifest" /\ DOMAIN seen = {}
      /\ process = NoProcess /\ results = [name \in Processes |-> NoResult]
      /\ output = FALSE
  BY DEF Init
<1>2. results["test"] = NoResult /\ ~TestsRan
  BY <1>1 DEF TestsRan, NoProcess, Processes
<1>3. TypeInv
  <2>1. NoResult \in Results
    BY DEF NoResult, Results
  <2> QED BY <1>1, <2>1 DEF TypeInv, Places, Reading, NoProcess
<1>4. RunnerInv
  BY <1>1, <1>2 DEF RunnerInv, Testing
<1>5. ReadInv
  BY <1>1 DEF ReadInv, Checking, Testing
<1>6. ReceiptInv
  BY <1>1, <1>2 DEF ReceiptInv
<1> QED BY <1>3, <1>4, <1>5, <1>6 DEF VerifyInv

-----------------------------------------------------------------------------
LEMMA TypeStep == VerifyInv /\ [Next]_vars => TypeInv'
<1> SUFFICES ASSUME TypeInv, RunnerInv, [Next]_vars PROVE TypeInv'
  BY DEF VerifyInv
<1> USE DEF TypeInv, Places, Reading, Checking, Testing, Processes, Results, directory
<1>1. CASE ReadManifest
  BY <1>1 DEF ReadManifest, Fail
<1>2. CASE TakeInventory
  BY <1>2 DEF TakeInventory, Fail
<1>3. CASE ReadOwnedFile
  <2>1. pc' \in {"files", "provider", "compile", "done"} /\ UNCHANGED <<options, process, results, output>>
    BY <1>3 DEF ReadOwnedFile, Fail
  <2> QED BY <2>1
<1>4. CASE ReadProvider
  BY <1>4 DEF ReadProvider, Fail
<1>5. CASE Spawn
  BY <1>5 DEF Spawn
<1>6. CASE SpawnError
  BY <1>6 DEF SpawnError, Settle, AfterProcess, NoProcess
<1>7. CASE ExitEvent
  BY <1>7 DEF ExitEvent, Settle, AfterProcess, NoProcess, RunnerInv
<1>8. CASE MakeOutput
  BY <1>8 DEF MakeOutput
<1>9. CASE RemoveOutput \/ RemoveOutputFails
  BY <1>9 DEF RemoveOutput, RemoveOutputFails, Fail
<1>10. CASE Return
  BY <1>10 DEF Return
<1>11. CASE ChildExits
  BY <1>11 DEF ChildExits
<1>12. CASE OutputLimit \/ Timeout
  BY <1>12 DEF OutputLimit, Timeout, Terminate
<1>13. CASE EditDirectory
  BY <1>13 DEF EditDirectory
<1>14. CASE UNCHANGED vars
  BY <1>14 DEF vars
<1> QED BY <1>1, <1>2, <1>3, <1>4, <1>5, <1>6, <1>7, <1>8, <1>9, <1>10, <1>11, <1>12,
           <1>13, <1>14 DEF Next, Verify

\* What runs is what pc waits for.
LEMMA RunnerStep == VerifyInv /\ [Next]_vars => RunnerInv'
<1> SUFFICES ASSUME TypeInv, RunnerInv, [Next]_vars PROVE RunnerInv'
  BY DEF VerifyInv
<1> USE DEF RunnerInv, TestsRan, Testing, Reading
<1>1. CASE ReadManifest \/ TakeInventory \/ ReadOwnedFile \/ ReadProvider
  <2>1. /\ pc \in {"manifest", "inventory", "files", "provider"}
        /\ pc' \in {"inventory", "files", "provider", "compile", "done"}
        /\ UNCHANGED <<options, process, results>>
    BY <1>1 DEF ReadManifest, TakeInventory, ReadOwnedFile, ReadProvider, Fail
  <2> QED BY <2>1 DEF Processes
<1>2. CASE Spawn
  BY <1>2 DEF Spawn, Processes
<1>3. ASSUME NEW name \in Processes, NEW result, pc = name, Settle(name, result)
      PROVE  RunnerInv'
  <2>1. /\ process' = NoProcess /\ options' = options
        /\ pc' = AfterProcess(name, result)
        /\ results' = [results EXCEPT ![name] = result]
    BY <1>3 DEF Settle
  <2>2. CASE name = "compile"
    BY <1>3, <2>1, <2>2 DEF AfterProcess, NoProcess, Processes, TypeInv, Succeeded
  <2>3. CASE name = "emit"
    BY <1>3, <2>1, <2>3 DEF AfterProcess, NoProcess, Processes, TypeInv, Succeeded
  <2>4. CASE name = "test"
    BY <1>3, <2>1, <2>4 DEF AfterProcess, NoProcess, Processes, TypeInv, Succeeded
  <2> QED BY <2>2, <2>3, <2>4 DEF Processes
<1>4. CASE SpawnError
  BY <1>3, <1>4 DEF SpawnError
<1>5. CASE ExitEvent
  <2>1. process # NoProcess
    BY <1>5 DEF ExitEvent, NoProcess
  <2> QED BY <1>3, <1>5, <2>1 DEF ExitEvent
<1>6. CASE MakeOutput
  BY <1>6 DEF MakeOutput, Processes
<1>7. CASE RemoveOutput \/ RemoveOutputFails \/ Return
  <2>1. /\ pc \in {"rm", "return"} /\ pc' \in {"return", "done"}
        /\ UNCHANGED <<options, process, results>>
    BY <1>7 DEF RemoveOutput, RemoveOutputFails, Return, Fail
  <2> QED BY <2>1 DEF Processes
<1>8. CASE ChildExits \/ OutputLimit \/ Timeout
  <2>1. process # NoProcess /\ UNCHANGED <<options, pc, results>>
    BY <1>8 DEF ChildExits, OutputLimit, Timeout, NoProcess
  <2>2. process'.name = process.name
    <3>1. CASE ChildExits
      BY <3>1 DEF ChildExits, TypeInv
    <3>2. CASE OutputLimit \/ Timeout
      BY <3>2 DEF OutputLimit, Timeout, Terminate, TypeInv
    <3> QED BY <1>8, <3>1, <3>2
  <2> QED BY <2>1, <2>2
<1>9. CASE EditDirectory \/ UNCHANGED vars
  <2>1. UNCHANGED <<options, pc, process, results>>
    BY <1>9 DEF EditDirectory, vars
  <2> QED BY <2>1
<1> QED BY <1>1, <1>2, <1>4, <1>5, <1>6, <1>7, <1>8, <1>9 DEF Next, Verify

\* The files are accepted one by one as they are read, the bundle with the
\* last of them; nothing is read again after that.
LEMMA ReadStep == VerifyInv /\ [Next]_vars => ReadInv'
<1> SUFFICES ASSUME TypeInv, RunnerInv, ReadInv, [Next]_vars PROVE ReadInv'
  BY DEF VerifyInv
<1> USE DEF ReadInv, Checking, Testing
<1>1. CASE ReadManifest
  BY <1>1 DEF ReadManifest, Fail
<1>2. CASE TakeInventory
  BY <1>2 DEF TakeInventory, Fail
<1>3. CASE ReadOwnedFile
  <2>1. PICK file : /\ seen' = With(file, disk[file])
                    /\ FileAccepted(file, disk[file]) \/ pc' = "done"
                    /\ \/ pc' \in {"files", "done"}
                       \/ /\ pc' = IF options.providerFile THEN "provider" ELSE "compile"
                          /\ DOMAIN seen \cup {file} = ManifestFiles
                          /\ BindingValid(seen')
    BY <1>3 DEF ReadOwnedFile, Fail
  <2>2. /\ pc = "files" /\ options' = options /\ claimed' = claimed
    BY <1>3 DEF ReadOwnedFile
  <2>3. CASE pc' = "done"
    BY <2>3
  <2>4. ASSUME pc' # "done", NEW f \in DOMAIN seen' PROVE FileAccepted(f, seen[f])'
    <3>1. FileAccepted(f, seen'[f])
      BY <2>1, <2>2, <2>4 DEF With
    <3> QED BY <2>2, <3>1 DEF FileAccepted
  <2>5. CASE pc' = "files"
    BY <2>4, <2>5
  <2>6. CASE pc' \notin {"files", "done"}
    <3>1. DOMAIN seen' = ManifestFiles /\ BindingValid(seen')
      BY <2>1, <2>6 DEF With
    <3>2. Checked'
      <4>1. BindingValid(seen)'
        BY <2>2, <3>1 DEF BindingValid
      <4> QED BY <2>4, <2>6, <3>1, <4>1 DEF Checked
    <3> QED BY <2>1, <2>2, <2>6, <3>2 DEF ProviderChecked
  <2> QED BY <2>3, <2>5, <2>6
<1>4. CASE ReadProvider
  <2>1. /\ pc = "provider" /\ options' = options /\ claimed' = claimed
        /\ seen' = With(Provider, disk[Provider])
        /\ \/ pc' = "done"
           \/ pc' = "compile" /\ disk[Provider] \in Clean \cap Implementing
    BY <1>4, Zenon DEF ReadProvider, Fail
  <2>2. /\ \A f \in ManifestFiles : f \in DOMAIN seen' /\ seen'[f] = seen[f]
        /\ seen'[Provider] = disk[Provider]
    BY <2>1, VerifyAssumption DEF With, Checked
  <2>3. Checked'
    BY <2>1, <2>2, VerifyAssumption DEF Checked, FileAccepted, BindingValid
  <2> QED BY <2>1, <2>2, <2>3 DEF ProviderChecked
<1>5. ASSUME UNCHANGED <<options, seen, claimed>>,
             \/ pc' = pc \/ pc' = "done"
             \/ pc' \in Checking \ {"provider"} /\ pc \in Checking \ {"provider"}
      PROVE  ReadInv'
  <2>1. Checked' = Checked /\ ProviderChecked' = ProviderChecked
    BY <1>5 DEF Checked, ProviderChecked, FileAccepted, BindingValid
  <2>2. \A file : FileAccepted(file, seen[file])' = FileAccepted(file, seen[file])
    BY <1>5 DEF FileAccepted
  <2> QED BY <1>5, <2>1, <2>2
<1>6. CASE SpawnError
  BY <1>5, <1>6 DEF SpawnError, Settle, AfterProcess, Processes
<1>7. CASE ExitEvent
  <2>1. pc \in Processes
    BY <1>7 DEF ExitEvent, NoProcess, RunnerInv
  <2> QED BY <1>5, <1>7, <2>1 DEF ExitEvent, Settle, AfterProcess, Processes, RunnerInv,
                                  NoProcess
<1>8. CASE MakeOutput \/ RemoveOutput \/ RemoveOutputFails \/ Return
  BY <1>5, <1>8 DEF MakeOutput, RemoveOutput, RemoveOutputFails, Return, Fail
<1>9. CASE Spawn \/ ChildExits \/ OutputLimit \/ Timeout \/ EditDirectory \/ UNCHANGED vars
  BY <1>5, <1>9 DEF Spawn, ChildExits, OutputLimit, Timeout, EditDirectory, vars
<1> QED BY <1>1, <1>2, <1>3, <1>4, <1>6, <1>7, <1>8, <1>9 DEF Next, Verify

\* Only a verification whose tests are behind it has a directory left.
LEMMA ReceiptStep == VerifyInv /\ [Next]_vars => ReceiptInv'
<1> SUFFICES ASSUME TypeInv, RunnerInv, ReadInv, ReceiptInv, [Next]_vars PROVE ReceiptInv'
  BY DEF VerifyInv
<1> USE DEF ReceiptInv, Checking, Testing
<1>1. CASE ReadManifest \/ TakeInventory \/ ReadOwnedFile \/ ReadProvider
  <2>1. /\ pc \in {"manifest", "inventory", "files", "provider"}
        /\ UNCHANGED <<process, results, output>>
    BY <1>1 DEF ReadManifest, TakeInventory, ReadOwnedFile, ReadProvider
  <2>2. pc' = "done" => receipt' = FailedReceipt
    <3>1. CASE ReadManifest
      BY <3>1 DEF ReadManifest, Fail
    <3>2. CASE TakeInventory
      BY <3>2 DEF TakeInventory, Fail
    <3>3. CASE ReadOwnedFile
      BY <3>3 DEF ReadOwnedFile, Fail
    <3>4. CASE ReadProvider
      BY <3>4 DEF ReadProvider, Fail
    <3> QED BY <1>1, <3>1, <3>2, <3>3, <3>4
  <2>3. ~TestsRan
    BY <2>1 DEF RunnerInv, TestsRan, Reading, NoProcess, Processes
  <2>4. ~TestsRan'
    BY <2>1, <2>3 DEF TestsRan
  <2> QED BY <2>1, <2>2, <2>4
<1>2. ASSUME UNCHANGED <<options, seen, claimed>>
      PROVE  Checked' = Checked /\ ProviderChecked' = ProviderChecked
  BY <1>2 DEF Checked, ProviderChecked, FileAccepted, BindingValid
<1>3. CASE Spawn
  <2>1. /\ pc \in Processes /\ pc' = pc /\ process'.name = pc
        /\ UNCHANGED <<options, seen, claimed, results, output>>
    BY <1>3 DEF Spawn
  <2> QED BY <1>2, <2>1 DEF TestsRan, Processes, ReadInv
<1>4. ASSUME NEW name \in Processes, NEW result, pc = name, Settle(name, result)
      PROVE  ReceiptInv'
  <2>1. /\ UNCHANGED <<options, seen, claimed, output>>
        /\ pc' \in {"mkdir", "return", "test", "rm"}
        /\ name = "compile" => pc' \in {"mkdir", "return"}
        /\ name # "compile" => pc' \in {"test", "rm"}
    BY <1>4 DEF Settle, AfterProcess, Processes
  <2>2. Checked'
    BY <1>2, <1>4, <2>1 DEF ReadInv, Processes
  <2> QED BY <1>4, <2>1, <2>2
<1>5. CASE SpawnError
  BY <1>4, <1>5 DEF SpawnError
<1>6. CASE ExitEvent
  <2>1. process # NoProcess
    BY <1>6 DEF ExitEvent, NoProcess
  <2> QED BY <1>4, <1>6, <2>1 DEF ExitEvent, RunnerInv
<1>7. CASE MakeOutput \/ RemoveOutput
  <2>1. /\ pc \in {"mkdir", "rm"}
        /\ output' => pc' = "emit"
        /\ pc' = "done" => receipt' = FailedReceipt
        /\ UNCHANGED <<options, seen, claimed, process, results>>
    BY <1>7 DEF MakeOutput, RemoveOutput, Fail
  <2>2. Checked'
    BY <1>2, <2>1 DEF ReadInv
  <2> QED BY <2>1, <2>2
<1>8. CASE RemoveOutputFails
  <2>1. /\ pc = "rm" /\ pc' = "done" /\ receipt' = FailedReceipt
        /\ UNCHANGED <<options, seen, claimed>>
    BY <1>8 DEF RemoveOutputFails, Fail
  <2> QED BY <1>2, <2>1 DEF ReadInv
<1>9. CASE Return
  <2>1. /\ pc = "return" /\ ~output
        /\ receipt' = CompletedReceipt(extras, Succeeded(results["compile"]), TestStatus,
                                       options.providerFile)
        /\ UNCHANGED <<options, seen, claimed, extras, results, process, output>>
    BY <1>9 DEF Return
  <2>2. Checked' /\ ProviderChecked'
    BY <1>2, <2>1 DEF ReadInv
  <2>3. TestStatus' = TestStatus
    BY <2>1 DEF TestStatus, Succeeded
  <2> QED BY <2>1, <2>2, <2>3
<1>10. CASE ChildExits \/ OutputLimit \/ Timeout
  <2>1. /\ process # NoProcess /\ UNCHANGED <<options, pc, results, seen, claimed, output>>
    BY <1>10 DEF ChildExits, OutputLimit, Timeout, NoProcess
  <2>2. Checked' /\ pc' \in Processes
    BY <1>2, <2>1 DEF ReadInv, RunnerInv, Processes
  <2> QED BY <2>1, <2>2 DEF Processes
<1>11. CASE EditDirectory \/ UNCHANGED vars
  <2>1. UNCHANGED <<options, pc, claimed, extras, seen, process, results, output, receipt>>
    BY <1>11 DEF EditDirectory, vars
  <2>2. TestStatus' = TestStatus /\ TestsRan' = TestsRan
    BY <2>1 DEF TestStatus, Succeeded, TestsRan
  <2> QED BY <1>2, <2>1, <2>2
<1> QED BY <1>1, <1>3, <1>5, <1>6, <1>7, <1>8, <1>9, <1>10, <1>11 DEF Next, Verify

THEOREM VerificationInvariant == Spec => []VerifyInv
<1>1. VerifyInv /\ [Next]_vars => VerifyInv'
  BY TypeStep, RunnerStep, ReadStep, ReceiptStep DEF VerifyInv
<1> QED BY VerifyInit, <1>1, PTL DEF Spec

-----------------------------------------------------------------------------
(***************************************************************************)
(* Generated code is executed only when that was asked for and everything  *)
(* was read, accepted and compiled before, whatever is edited meanwhile.   *)
(***************************************************************************)
THEOREM ExecutionIsEarned == Spec => []ExecutionEarned
<1>1. VerifyInv => ExecutionEarned
  <2> SUFFICES ASSUME VerifyInv PROVE ExecutionEarned
    OBVIOUS
  <2> USE DEF VerifyInv
  <2>1. TestsRan =>
          /\ options.runTests
          /\ \A file \in ManifestFiles : FileAccepted(file, seen[file])
          /\ BindingValid(seen)
          /\ Succeeded(results["compile"]) /\ Succeeded(results["emit"])
    BY DEF RunnerInv, ReceiptInv, Checked
  <2> DEFINE tests == receipt.checks["tests.generated_failure_behavior"]
  <2>2. CASE pc = "done" /\ receipt = FailedReceipt
    <3>1. tests = "absent" /\ receipt.overall = "failed"
      BY <2>2 DEF FailedReceipt, CheckIds
    <3> QED BY <2>1, <3>1 DEF ExecutionEarned
  <2>3. CASE pc = "done" /\ receipt # FailedReceipt
    <3>1. tests = TestStatus /\ ~output
      BY <2>3 DEF ReceiptInv, CompletedReceipt, CheckIds, IntegrityChecks
    <3>2. /\ TestStatus = "passed_with_limitations" => Succeeded(results["test"])
          /\ TestStatus = "not_run" => ~TestsRan
      BY DEF TestStatus, RunnerInv
    <3> QED BY <2>1, <3>1, <3>2 DEF ExecutionEarned
  <2> QED BY <2>1, <2>2, <2>3 DEF ExecutionEarned
<1> QED BY VerificationInvariant, <1>1, PTL

(***************************************************************************)
(* A policy that passes was given what it requires by this very run.       *)
(***************************************************************************)
THEOREM PassedPolicyIsEarned == Spec => []PolicyPassedIsEarned
<1>1. VerifyInv => PolicyPassedIsEarned
  <2> SUFFICES ASSUME VerifyInv, pc = "done",
                      NEW policy \in Policies, PolicyExitCode(policy, receipt) = 0
               PROVE  /\ VerifyExitCode(receipt) = 0
                      /\ Checked
                      /\ policy["controlledCompilation"] = "required" =>
                           Succeeded(results["compile"])
                      /\ policy["generatedFailureTests"] = "required" =>
                           Succeeded(results["test"])
                      /\ policy["providerBoundaryComplete"] = "required" =>
                           seen[Provider] \in Clean \cap Implementing
                      /\ policy["realProviderSemantics"] # "required"
                      /\ policy["receiptLimitations"] = "allow_declared"
    BY DEF PolicyPassedIsEarned, Checked
  <2>1. /\ receipt.overall # "failed"
        /\ \A requirement \in Requirements :
             Required(policy, requirement) => Satisfied(policy, receipt, requirement)
        /\ policy["receiptLimitations"] \in {"allow_declared", "forbid"}
    BY VerifyAssumption DEF PolicyExitCode, EvaluateVerificationPolicy, ParsedPolicy
  <2>2. /\ Checked /\ ProviderChecked
        /\ receipt = CompletedReceipt(extras, Succeeded(results["compile"]), TestStatus,
                                      options.providerFile)
    BY <2>1 DEF VerifyInv, ReceiptInv, FailedReceipt
  <2>3. /\ receipt.checks["compilation.public_surfaces"]
             = IF Succeeded(results["compile"]) THEN "passed" ELSE "failed"
        /\ receipt.checks["tests.generated_failure_behavior"] = TestStatus
        /\ receipt.supplied = options.providerFile
        /\ receipt.limited = TRUE
        /\ receipt.levels["real_provider_semantics"] = "not_run"
    BY <2>2 DEF CompletedReceipt, CheckIds, IntegrityChecks, LevelIds
  <2>4. policy["controlledCompilation"] = "required" => Succeeded(results["compile"])
    BY <2>1, <2>3 DEF Requirements, Required, Satisfied, CheckPassed
  <2>5. policy["generatedFailureTests"] = "required" => Succeeded(results["test"])
    BY <2>1, <2>3 DEF Requirements, Required, Satisfied, CheckPassedOrLimited, TestStatus
  <2>6. policy["providerBoundaryComplete"] = "required" =>
          seen[Provider] \in Clean \cap Implementing
    BY <2>1, <2>2, <2>3 DEF Requirements, Required, Satisfied, ProviderChecked
  <2>7. policy["realProviderSemantics"] # "required"
    BY <2>1, <2>3 DEF Requirements, Required, Satisfied
  <2>8. policy["receiptLimitations"] = "allow_declared"
    BY <2>1, <2>3 DEF Requirements, Required, Satisfied
  <2> QED BY <2>1, <2>2, <2>4, <2>5, <2>6, <2>7, <2>8 DEF VerifyExitCode
<1> QED BY VerificationInvariant, <1>1, PTL
-----------------------------------------------------------------------------
(***************************************************************************)
(* The parts of an intact directory, in the order they are looked at, and  *)
(* what each place of the verification has established of them when nobody *)
(* edits the directory.                                                    *)
(***************************************************************************)
InventoryIntact ==
  options.strict => ~extra /\ (disk[Provider] # "missing" => options.providerFile)

FilesIntact ==
  /\ \A file \in ManifestFiles :
       disk[file] = manifest.owns[file] /\ disk[file] \in Clean
  /\ disk[BundleFile] = manifest.names /\ disk[BundleFile] \in ValidBundles

ProviderIntact == options.providerFile => disk[Provider] \in Clean \cap Implementing

NothingRan == results = [name \in Processes |-> NoResult]

\* What the directory is made of, and how far it has been found intact.
Looked ==
  /\ DOMAIN disk = ManifestFiles \cup {Provider}
  /\ disk[Provider] \in Contents \cup {"missing"}
  /\ pc \notin {"manifest", "done"} => claimed = manifest /\ manifest.valid
  /\ pc \notin {"manifest", "inventory", "done"} => InventoryIntact
  /\ pc = "files" => \A file \in DOMAIN seen : seen[file] = disk[file]
  /\ pc \in Checking => FilesIntact
  /\ pc = "provider" => options.providerFile
  /\ pc \in Checking \ {"provider"} => ProviderIntact

\* No process has run while the directory is read, and an error is only
\* unwound from the temporary directory.
Waited ==
  /\ pc \in Reading \cup {"provider"} => NothingRan
  /\ thrown => pc \in {"rm", "done"}

\* The three ways a verification of such a directory ends.
Judged ==
  pc = "done" =>
    \/ receipt = FailedReceipt /\ ~Intact /\ NothingRan
    \/ receipt = FailedReceipt /\ Intact /\ thrown
    \/ /\ Intact /\ ~thrown
       /\ receipt = CompletedReceipt(extras, Succeeded(results["compile"]), TestStatus,
                                     options.providerFile)

QuietInv ==
  /\ edits \in Nat
  /\ edits = 0 => Looked /\ Waited /\ Judged

LEMMA IntactParts ==
  Intact <=> manifest.valid /\ FilesIntact /\ ProviderIntact /\ InventoryIntact
BY DEF Intact, FilesIntact, ProviderIntact, InventoryIntact

\* A directory that has not changed is as intact as it was.
LEMMA IntactFrame ==
  ASSUME UNCHANGED <<options, disk, manifest, extra>>
  PROVE  /\ Intact' = Intact /\ FilesIntact' = FilesIntact
         /\ ProviderIntact' = ProviderIntact /\ InventoryIntact' = InventoryIntact
BY DEF Intact, FilesIntact, ProviderIntact, InventoryIntact

LEMMA QuietInit == Init => QuietInv
<1> SUFFICES ASSUME Init PROVE QuietInv
  OBVIOUS
<1>1. /\ pc = "manifest" /\ ~thrown /\ edits = 0 /\ NothingRan
  BY DEF Init, NothingRan
<1>2. PICK claims \in Manifests \ {NoManifest}, provider \in Contents \cup {"missing"} :
        \E files \in Directories(claims) : disk = [files EXCEPT ![Provider] = provider]
  BY Zenon DEF Init
<1>3. PICK files \in Directories(claims) : disk = [files EXCEPT ![Provider] = provider]
  BY <1>2
<1>4. DOMAIN files = ManifestFiles \cup {Provider}
  BY DEF Directories, Generated
<1>5. DOMAIN disk = ManifestFiles \cup {Provider} /\ disk[Provider] = provider
  BY <1>3, <1>4
<1> QED BY <1>1, <1>2, <1>5 DEF QuietInv, Looked, Waited, Judged, Checking, Testing

-----------------------------------------------------------------------------
\* Each look at the directory ends in the failed receipt exactly when what
\* it looked at is not intact.
LEMMA QuietReading ==
  ASSUME VerifyInv, Looked, Waited,
         ReadManifest \/ TakeInventory \/ ReadOwnedFile \/ ReadProvider
  PROVE  Looked' /\ Waited' /\ Judged'
<1> USE DEF VerifyInv, Looked, Waited, Judged, Reading, Checking, Testing
<1>1. /\ UNCHANGED <<options, disk, manifest, extra, results, thrown>>
      /\ pc \in {"manifest", "inventory", "files", "provider"}
  BY Zenon DEF ReadManifest, TakeInventory, ReadOwnedFile, ReadProvider, directory
<1>2. /\ Intact' = Intact /\ FilesIntact' = FilesIntact
      /\ ProviderIntact' = ProviderIntact /\ InventoryIntact' = InventoryIntact
  BY <1>1, IntactFrame
<1>3. NothingRan /\ NothingRan' /\ ~thrown'
  BY <1>1 DEF NothingRan
<1>4. ASSUME pc' = "done", receipt' = FailedReceipt, ~Intact
      PROVE  Looked' /\ Waited' /\ Judged'
  BY <1>1, <1>2, <1>3, <1>4
<1>5. CASE ReadManifest
  <2>1. CASE manifest.valid
    <3>1. pc' = "inventory" /\ claimed' = manifest
      BY <1>5, <2>1 DEF ReadManifest
    <3> QED BY <1>1, <1>2, <1>3, <2>1, <3>1
  <2>2. CASE ~manifest.valid
    BY <1>4, <1>5, <2>2, IntactParts DEF ReadManifest, Fail
  <2> QED BY <2>1, <2>2
<1>6. CASE TakeInventory
  <2> DEFINE linked == "symlink" \in {disk[file] : file \in DOMAIN disk}
             unexpected == extra \/ (disk[Provider] # "missing" /\ ~options.providerFile)
  <2>1. /\ pc = "inventory" /\ UNCHANGED <<claimed, seen>>
        /\ IF linked \/ (options.strict /\ unexpected)
           THEN Fail ELSE pc' = "files"
    BY <1>6, Zenon DEF TakeInventory
  <2>2. CASE linked
    <3>1. "symlink" \notin Contents
      BY VerifyAssumption DEF Unreadable
    <3>2. PICK file \in DOMAIN disk : disk[file] = "symlink"
      BY <2>2
    <3>3. file \in ManifestFiles /\ disk[file] \notin Clean
      BY <3>1, <3>2, VerifyAssumption
    <3>4. ~Intact
      BY <3>3 DEF Intact
    <3> QED BY <1>4, <2>1, <2>2, <3>4 DEF Fail
  <2>3. CASE ~linked /\ options.strict /\ unexpected
    <3>1. ~Intact
      BY <2>3 DEF Intact
    <3> QED BY <1>4, <2>1, <2>3, <3>1 DEF Fail
  <2>4. CASE ~linked /\ ~(options.strict /\ unexpected)
    <3>1. pc' = "files"
      BY <2>1, <2>4
    <3>2. InventoryIntact
      BY <2>4 DEF InventoryIntact
    <3>3. DOMAIN seen' = {}
      BY <2>1 DEF ReadInv
    <3> QED BY <1>1, <1>2, <1>3, <2>1, <3>1, <3>2, <3>3
  <2> QED BY <2>2, <2>3, <2>4
<1>7. CASE ReadOwnedFile
  <2>1. pc = "files" /\ claimed' = claimed
    BY <1>7 DEF ReadOwnedFile
  <2>2. PICK file \in ManifestFiles :
          /\ seen' = With(file, disk[file])
          /\ \/ /\ pc' = "done" /\ receipt' = FailedReceipt
                /\ ~ /\ FileAccepted(file, disk[file])
                     /\ DOMAIN seen \cup {file} = ManifestFiles => BindingValid(seen')
             \/ FileAccepted(file, disk[file]) /\ pc' = "files"
             \/ /\ FileAccepted(file, disk[file])
                /\ DOMAIN seen \cup {file} = ManifestFiles /\ BindingValid(seen')
                /\ pc' = IF options.providerFile THEN "provider" ELSE "compile"
    <3>1. PICK n \in DOMAIN ManifestOrder :
            LET file == ManifestOrder[n]
                all == DOMAIN seen \cup {file} = ManifestFiles
            IN  /\ seen' = With(file, disk[file])
                /\ IF FileAccepted(file, disk[file]) /\ (all => BindingValid(seen'))
                   THEN pc' = CASE ~all -> "files"
                              [] all -> IF options.providerFile THEN "provider" ELSE "compile"
                   ELSE Fail
      BY <1>7, Zenon DEF ReadOwnedFile
    <3>2. ManifestOrder[n] \in ManifestFiles
      BY DEF ManifestFiles, ToSet
    <3> QED BY <3>1, <3>2 DEF Fail
  <2>3. /\ DOMAIN seen' = DOMAIN seen \cup {file}
        /\ \A f \in DOMAIN seen' : seen'[f] = disk[f]
    BY <2>1, <2>2 DEF With
  <2>4. ASSUME DOMAIN seen' = ManifestFiles
        PROVE  BindingValid(seen') <=>
                 disk[BundleFile] \in ValidBundles /\ disk[BundleFile] = manifest.names
    BY <2>1, <2>3, <2>4, VerifyAssumption DEF BindingValid
  <2>5. CASE pc' = "done"
    <3>1. CASE ~FileAccepted(file, disk[file])
      <4>1. ~Intact
        BY <2>1, <3>1, VerifyAssumption DEF Intact, FileAccepted
      <4> QED BY <1>4, <2>2, <2>5, <4>1
    <3>2. CASE FileAccepted(file, disk[file])
      <4>1. DOMAIN seen' = ManifestFiles /\ ~BindingValid(seen')
        BY <2>2, <2>3, <2>5, <3>2
      <4>2. ~Intact
        BY <2>4, <4>1 DEF Intact
      <4> QED BY <1>4, <2>2, <2>5, <4>2
    <3> QED BY <3>1, <3>2
  <2>6. CASE pc' = "files"
    BY <1>1, <1>2, <1>3, <2>1, <2>3, <2>6
  <2>7. CASE pc' \notin {"done", "files"}
    <3>1. /\ FileAccepted(file, disk[file]) /\ DOMAIN seen' = ManifestFiles
          /\ BindingValid(seen')
          /\ pc' = IF options.providerFile THEN "provider" ELSE "compile"
      BY <2>2, <2>3, <2>7
    <3>2. ASSUME NEW f \in ManifestFiles
          PROVE  disk[f] = manifest.owns[f] /\ disk[f] \in Clean
      <4>1. FileAccepted(f, disk[f])
        BY <2>1, <2>3, <3>1, <3>2 DEF ReadInv
      <4> QED BY <2>1, <4>1 DEF FileAccepted
    <3>3. FilesIntact
      BY <2>4, <3>1, <3>2 DEF FilesIntact
    <3> QED BY <1>1, <1>2, <1>3, <2>1, <3>1, <3>3 DEF ProviderIntact
  <2> QED BY <2>5, <2>6, <2>7
<1>8. CASE ReadProvider
  <2>1. /\ pc = "provider" /\ claimed' = claimed
        /\ IF disk[Provider] \in Clean \cap Implementing THEN pc' = "compile" ELSE Fail
    BY <1>8, Zenon DEF ReadProvider
  <2>2. CASE disk[Provider] \in Clean \cap Implementing
    BY <1>1, <1>2, <1>3, <2>1, <2>2 DEF ProviderIntact
  <2>3. CASE disk[Provider] \notin Clean \cap Implementing
    <3>1. ~Intact
      BY <2>1, <2>3 DEF Intact
    <3> QED BY <1>4, <2>1, <2>3, <3>1 DEF Fail
  <2> QED BY <2>2, <2>3
<1> QED BY <1>5, <1>6, <1>7, <1>8

\* Once the reading is behind, the directory is intact and stays so.
LEMMA QuietChecking ==
  ASSUME VerifyInv, Looked, Waited, Judged,
         UNCHANGED <<options, disk, manifest, extra, claimed, seen>>,
         pc \in Checking \ {"provider"}, pc' \in Checking \ {"provider"},
         thrown' => pc' = "rm"
  PROVE  Looked' /\ Waited' /\ Judged'
BY IntactFrame DEF Looked, Waited, Judged, Checking, Testing, Reading

LEMMA QuietStep == VerifyInv /\ QuietInv /\ [Next]_vars => QuietInv'
<1> SUFFICES ASSUME VerifyInv, QuietInv, [Next]_vars PROVE QuietInv'
  OBVIOUS
<1>1. CASE EditDirectory
  <2>1. edits' = edits + 1
    BY <1>1 DEF EditDirectory
  <2> QED BY <2>1 DEF QuietInv
<1>2. ASSUME edits' = edits, edits = 0 => Looked' /\ Waited' /\ Judged'
      PROVE  QuietInv'
  BY <1>2 DEF QuietInv
<1>3. CASE ReadManifest \/ TakeInventory \/ ReadOwnedFile \/ ReadProvider
  <2>1. edits' = edits
    BY <1>3 DEF ReadManifest, TakeInventory, ReadOwnedFile, ReadProvider
  <2> QED BY <1>2, <1>3, <2>1, QuietReading DEF QuietInv
<1>4. ASSUME UNCHANGED <<options, disk, manifest, extra, claimed, seen, edits>>,
             pc \in Checking \ {"provider"}, pc' \in Checking \ {"provider"},
             thrown' => pc' = "rm" \/ (thrown /\ pc # "rm")
      PROVE  QuietInv'
  <2>1. ASSUME edits = 0 PROVE thrown' => pc' = "rm"
    BY <1>4, <2>1 DEF QuietInv, Waited, Checking, Testing
  <2> QED BY <1>2, <1>4, <2>1, QuietChecking DEF QuietInv
<1> USE DEF directory
<1>5. ASSUME NEW name \in Processes, NEW result, pc = name, Settle(name, result)
      PROVE  QuietInv'
  <2>1. pc' \in {"mkdir", "return", "test", "rm"}
    BY <1>5 DEF Settle, AfterProcess, Processes
  <2>2. UNCHANGED <<options, disk, manifest, extra, claimed, seen, edits, thrown>>
    BY <1>5 DEF Settle
  <2> QED BY <1>4, <1>5, <2>1, <2>2 DEF Processes, Checking, Testing
<1>6. CASE SpawnError
  BY <1>5, <1>6 DEF SpawnError
<1>7. CASE ExitEvent
  <2>1. process # NoProcess
    BY <1>7 DEF ExitEvent, NoProcess
  <2> QED BY <1>5, <1>7, <2>1 DEF ExitEvent, VerifyInv, RunnerInv
<1>8. CASE Spawn \/ ChildExits \/ OutputLimit \/ Timeout
  <2>1. UNCHANGED <<options, disk, manifest, extra, claimed, seen, edits, thrown, pc>>
    BY <1>8, Zenon DEF Spawn, ChildExits, OutputLimit, Timeout
  <2>2. pc \in Processes
    BY <1>8 DEF Spawn, ChildExits, OutputLimit, Timeout, VerifyInv, RunnerInv, NoProcess
  <2> QED BY <1>4, <2>1, <2>2 DEF Processes, Checking, Testing
<1>9. CASE MakeOutput
  <2>1. /\ UNCHANGED <<options, disk, manifest, extra, claimed, seen, edits>>
        /\ pc = "mkdir" /\ pc' \in {"emit", "rm"}
        /\ thrown' => pc' = "rm"
    BY <1>9 DEF MakeOutput
  <2> QED BY <1>4, <2>1 DEF Checking, Testing
<1>10. ASSUME UNCHANGED <<options, disk, manifest, extra, edits>>,
              pc \in Checking \ {"provider"}, pc' = "done",
              \/ receipt' = FailedReceipt /\ thrown'
              \/ /\ edits = 0 => ~thrown'
                 /\ receipt' = CompletedReceipt(extras', Succeeded(results["compile"])',
                                 TestStatus', options'.providerFile)
       PROVE  QuietInv'
  <2>1. ASSUME edits = 0 PROVE Intact'
    BY <1>10, <2>1, IntactFrame, IntactParts DEF QuietInv, Looked, Checking, Testing
  <2> QED BY <1>2, <1>10, <2>1
          DEF QuietInv, Looked, Waited, Judged, Checking, Testing, Reading
<1>11. CASE RemoveOutput
  <2>1. /\ pc = "rm"
        /\ UNCHANGED <<options, disk, manifest, extra, claimed, seen, edits, thrown>>
        /\ IF thrown THEN Fail ELSE pc' = "return"
    BY <1>11, Zenon DEF RemoveOutput
  <2> QED BY <1>4, <1>10, <2>1 DEF Fail, Checking, Testing
<1>12. CASE RemoveOutputFails
  <2>1. /\ pc = "rm" /\ thrown' /\ pc' = "done" /\ receipt' = FailedReceipt
        /\ UNCHANGED <<options, disk, manifest, extra, edits>>
    BY <1>12 DEF RemoveOutputFails, Fail
  <2> QED BY <1>10, <2>1 DEF Checking, Testing
<1>13. CASE Return
  <2>1. /\ pc = "return" /\ pc' = "done"
        /\ UNCHANGED <<options, disk, manifest, extra, extras, results, edits, thrown>>
        /\ receipt' = CompletedReceipt(extras, Succeeded(results["compile"]), TestStatus,
                                       options.providerFile)
    BY <1>13 DEF Return
  <2>2. TestStatus' = TestStatus /\ Succeeded(results["compile"])' = Succeeded(results["compile"])
    BY <2>1 DEF TestStatus, Succeeded
  <2>3. edits = 0 => ~thrown'
    BY <2>1 DEF QuietInv, Waited
  <2> QED BY <1>10, <2>1, <2>2, <2>3 DEF Checking, Testing
<1>14. CASE UNCHANGED vars
  <2>1. UNCHANGED <<options, disk, manifest, extra, claimed, extras, seen, pc, results,
                    thrown, receipt, edits>>
    BY <1>14 DEF vars
  <2>2. TestStatus' = TestStatus /\ NothingRan' = NothingRan
    BY <2>1 DEF TestStatus, Succeeded, NothingRan
  <2> QED BY <1>2, <2>1, <2>2, IntactFrame DEF QuietInv, Looked, Waited, Judged
<1> QED BY <1>1, <1>3, <1>6, <1>7, <1>8, <1>9, <1>11, <1>12, <1>13, <1>14 DEF Next, Verify

\* The receipt of a run that got to its end fails exactly when a process did.
LEMMA CompletedOverall ==
  CompletedReceipt(extras, Succeeded(results["compile"]), TestStatus,
                   options.providerFile).overall # "failed"
    <=> ProcessesSucceeded
<1> DEFINE compiled == Succeeded(results["compile"])
           receiptOf == CompletedReceipt(extras, compiled, TestStatus, options.providerFile)
           checks == receiptOf.checks
<1>1. receiptOf.overall = IF \E c \in CheckIds : checks[c] = "failed"
                          THEN "failed" ELSE "passed_with_limitations"
  BY DEF CompletedReceipt
<1>2. /\ checks["compilation.public_surfaces"] = IF compiled THEN "passed" ELSE "failed"
      /\ checks["tests.generated_failure_behavior"] = TestStatus
      /\ \A c \in CheckIds \ {"compilation.public_surfaces",
                              "tests.generated_failure_behavior"} :
           checks[c] = "failed" => ~compiled
  BY DEF CompletedReceipt, CheckIds, IntegrityChecks
<1>3. TestStatus = "failed" =>
        options.runTests /\ ~(Succeeded(results["emit"]) /\ Succeeded(results["test"]))
  BY DEF TestStatus
<1>4. compiled /\ options.runTests /\ ~(Succeeded(results["emit"]) /\ Succeeded(results["test"]))
        => TestStatus = "failed"
  BY DEF TestStatus
<1>5. {"compilation.public_surfaces", "tests.generated_failure_behavior"} \subseteq CheckIds
  BY DEF CheckIds
<1>6. (\E c \in CheckIds : checks[c] = "failed") <=> ~compiled \/ TestStatus = "failed"
  BY <1>2, <1>5
<1> HIDE DEF receiptOf, compiled
<1>7. receiptOf.overall # "failed" <=> compiled /\ TestStatus # "failed"
  BY <1>1, <1>6
<1>8. compiled /\ TestStatus # "failed" <=> ProcessesSucceeded
  BY <1>3, <1>4 DEF ProcessesSucceeded, compiled
<1> QED BY <1>7, <1>8 DEF receiptOf, compiled

(***************************************************************************)
(* The many reads and processes of a verification nobody disturbs come to  *)
(* what one look at the directory says, whatever the manifest owns.        *)
(***************************************************************************)
THEOREM VerdictOfQuietDirectory == Spec => []QuietVerdict
<1>1. VerifyInv /\ QuietInv /\ [Next]_vars => QuietInv'
  BY QuietStep
<1>2. QuietInv => QuietVerdict
  <2> SUFFICES ASSUME QuietInv, pc = "done", edits = 0
               PROVE  /\ receipt.overall # "failed" <=> Intact /\ ProcessesSucceeded /\ ~thrown
                      /\ ~Intact => NothingRan
    BY DEF QuietVerdict, NothingRan
  <2>1. FailedReceipt.overall = "failed"
    BY DEF FailedReceipt
  <2>2. Judged
    BY DEF QuietInv
  <2> QED BY <2>1, <2>2, CompletedOverall DEF Judged
<1> QED BY VerificationInvariant, QuietInit, <1>1, <1>2, PTL DEF Spec
=============================================================================
