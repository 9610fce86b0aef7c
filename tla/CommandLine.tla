--------------------------- MODULE CommandLine ---------------------------
(***************************************************************************)
(* The design-time commands of the writeguard program on the files of one  *)
(* working directory.                                                      *)
(*                                                                         *)
(* A terminal runs one command at a time; commands of several terminals    *)
(* interleave at every file operation they await.  A command reads its     *)
(* inputs one after the other, computes its artifact from what it read,    *)
(* and publishes it: normalize-mcp and analyze on stdout, which the shell  *)
(* has redirected to a file it emptied first (README.md: "> analysis.json"),*)
(* review and approve through a temporary file renamed to the target,      *)
(* generate through a stage directory renamed to the target.  Meanwhile    *)
(* the developer edits the files the documents tell him to edit.           *)
(***************************************************************************)
EXTENDS GenerationContracts, TLC

CONSTANTS
  Terminals,
  Definitions,       \* MCP tool definitions the developer works with
  Responses,         \* what the OpenAI transport may answer
  SelectionEdits,    \* edits of a draft, as the selection fields they set
  FileCount,         \* files of a generated project
  MaxCommands,       \* bound: commands started
  MaxEdits,          \* bound: edits of the developer
  MaxCrashes,        \* bound: commands killed
  MaxRenameRetries   \* retries of a transient rename error on Windows

ASSUME CommandLineAssumption ==
  FileCount \in Nat \ {0} /\ MaxRenameRetries \in Nat /\ Definitions # {}

Absent == [kind |-> "absent"]
Truncated == [kind |-> "truncated"]       \* emptied by the shell
EmptyDirectory == [kind |-> "directory"]
Nothing == [kind |-> "nothing"]           \* no stage, no artifact

(***************************************************************************)
(* The commands with the files they read, in that order, and the file they *)
(* write.  A review may be read from either of its files.                  *)
(***************************************************************************)
ReviewPaths == {"draft", "approved"}

Commands ==
  {[name |-> "normalize-mcp", inputs |-> <<"definition">>, target |-> "tool"],
   [name |-> "analyze", inputs |-> <<"definition">>, target |-> "analysis"],
   [name |-> "review", inputs |-> <<"tool", "analysis">>, target |-> "draft"]}
  \cup {[name |-> "approve", inputs |-> <<"tool", "analysis", path>>,
         target |-> "approved"] : path \in ReviewPaths}
  \cup {[name |-> "generate", inputs |-> <<"tool", "analysis", path>>,
         target |-> "project"] : path \in ReviewPaths}

Redirected(command) == command.name \in {"normalize-mcp", "analyze"}

VARIABLES
  platform,   \* "posix" or "win32"
  disk,       \* path |-> what is there
  term,       \* terminal |-> the command it runs, or how its last one ended
  started, edits, crashes

vars == <<platform, disk, term, started, edits, crashes>>

NoCommand == [name |-> "none", inputs |-> <<>>, target |-> "none"]

(***************************************************************************)
(* A terminal: the command and where it is, the artifacts it has read,     *)
(* what it publishes, its temporary file or stage directory, the transient *)
(* rename errors it met, and the exit code of the last command.            *)
(***************************************************************************)
IdleTerminal ==
  [command |-> NoCommand, pc |-> "idle", read |-> <<>>, artifact |-> Nothing,
   stage |-> Nothing, retries |-> 0, code |-> -1]

(***************************************************************************)
(* What earlier sessions may have left: nothing but a definition, or the   *)
(* output of normalize-mcp, of analyze, and of review on them, each run on *)
(* the definition there was at that time, the draft perhaps edited.        *)
(***************************************************************************)
EditedDraft(draft, change) == [draft EXCEPT !.selection = change @@ @]

EarlierTools == {NormalizeMcpToolDefinition(d) : d \in Definitions} \ {Refused}

EarlierAnalyses ==
  {RunToolRiskAnalyzer(tool, response) : tool \in EarlierTools, response \in Responses}
    \ {Refused}

EarlierDrafts(tool, analysis) ==
  IF Absent \in {tool, analysis} THEN {}
  ELSE LET drafts == {CreateReviewDraft(tool, analysis)} \ {Refused}
       IN  drafts \cup {EditedDraft(draft, change) :
                          draft \in drafts, change \in SelectionEdits}

Init ==
  /\ platform \in {"posix", "win32"}
  /\ \E definition \in Definitions, tool \in EarlierTools \cup {Absent},
        analysis \in EarlierAnalyses \cup {Absent} :
       \E draft \in EarlierDrafts(tool, analysis) \cup {Absent} :
         disk = [definition |-> definition, tool |-> tool, analysis |-> analysis,
                 draft |-> draft, approved |-> Absent, project |-> Absent]
  /\ term = [t \in Terminals |-> IdleTerminal]
  /\ started = 0 /\ edits = 0 /\ crashes = 0

Name(t) == term[t].command.name
TargetPath(t) == term[t].command.target
Target(t) == disk[TargetPath(t)]
At(t, place) == term[t].pc = place

Goto(t, place) == term' = [term EXCEPT ![t].pc = place]

(***************************************************************************)
(* The exit code runWriteGuardCli maps an error to: 3 for a definition the *)
(* normalizer rejects, otherwise by command.                               *)
(***************************************************************************)
ErrorCode(t) ==
  CASE Name(t) = "normalize-mcp" -> 2
    [] Name(t) = "analyze"       -> 4
    [] OTHER                     -> 5

(***************************************************************************)
(* The command ends; a successful one has reported what it published.      *)
(***************************************************************************)
Ended(t, exitCode) ==
  [IdleTerminal EXCEPT !.code = exitCode, !.stage = term[t].stage,
     !.artifact = IF exitCode = 0 THEN term[t].artifact ELSE Nothing]

End(t, exitCode) == term' = [term EXCEPT ![t] = Ended(t, exitCode)]

EndWithoutStage(t, exitCode) ==
  term' = [term EXCEPT ![t] = [Ended(t, exitCode) EXCEPT !.stage = Nothing]]

-----------------------------------------------------------------------------
(***************************************************************************)
(* The shell starts a command, and empties the file its output goes to.    *)
(***************************************************************************)
Start(t, c) ==
  /\ At(t, "idle") /\ started < MaxCommands
  /\ started' = started + 1
  /\ term' = [term EXCEPT ![t] = [IdleTerminal EXCEPT !.command = c, !.pc = "read"]]
  /\ disk' = IF Redirected(c) THEN [disk EXCEPT ![c.target] = Truncated] ELSE disk
  /\ UNCHANGED <<platform, edits, crashes>>

(***************************************************************************)
(* What the command may make of its inputs, Refused where the code throws. *)
(* Only analyze has a choice: the answer of the model.                     *)
(***************************************************************************)
Outcomes(t, input) ==
  CASE Name(t) = "normalize-mcp" -> {NormalizeMcpToolDefinition(input[1])}
    [] Name(t) = "analyze" ->
         IF AcceptableDefinition(input[1])
         THEN {RunToolRiskAnalyzer(NormalizeMcpToolDefinition(input[1]), response) :
                 response \in Responses}
         ELSE {Refused}
    [] Name(t) = "review"   -> {CreateReviewDraft(input[1], input[2])}
    [] Name(t) = "approve"  -> {Approve(input[1], input[2], input[3])}
    [] Name(t) = "generate" -> {GenerateGuardedToolProject(input[1], input[2], input[3])}

RefusalCode(t, input) ==
  IF Redirected(term[t].command) /\ ~AcceptableDefinition(input[1]) THEN 3 ELSE ErrorCode(t)

(***************************************************************************)
(* The computation follows the last read without another file operation;   *)
(* analyze also awaits the model, which changes no file.                   *)
(***************************************************************************)
Compute(t, input) ==
  \E outcome \in Outcomes(t, input) :
    IF outcome = Refused
    THEN End(t, RefusalCode(t, input))
    ELSE term' = [term EXCEPT ![t].artifact = outcome, ![t].read = <<>>,
                    ![t].pc = IF Redirected(term[t].command) THEN "write" ELSE "check"]

(***************************************************************************)
(* readJsonArtifact: a missing file and one that is not JSON end the       *)
(* command.                                                                *)
(***************************************************************************)
ReadInput(t) ==
  LET inputs == term[t].command.inputs
      input == Append(term[t].read, disk[inputs[Len(term[t].read) + 1]])
  IN  /\ At(t, "read")
      /\ \/ Last(input).kind \in {"absent", "truncated"} /\ End(t, ErrorCode(t))
         \/ /\ Last(input).kind \notin {"absent", "truncated"}
            /\ Len(input) < Len(inputs)
            /\ term' = [term EXCEPT ![t].read = input]
         \/ /\ Last(input).kind \notin {"absent", "truncated"}
            /\ Len(input) = Len(inputs)
            /\ Compute(t, input)
      /\ UNCHANGED <<platform, disk, started, edits, crashes>>

(***************************************************************************)
(* writeResult to the redirected stdout.                                   *)
(***************************************************************************)
WriteResult(t) ==
  /\ At(t, "write")
  /\ disk' = [disk EXCEPT ![TargetPath(t)] = term[t].artifact]
  /\ End(t, 0)
  /\ UNCHANGED <<platform, started, edits, crashes>>

-----------------------------------------------------------------------------
(***************************************************************************)
(* writeNewJsonArtifact and publish: the target must be missing, the       *)
(* content is staged beside it, the target must still be missing, and the  *)
(* stage is renamed to the target.  An error removes the stage.            *)
(***************************************************************************)
CheckTarget(t) ==
  /\ At(t, "check")
  /\ IF Target(t) = Absent THEN Goto(t, "stage") ELSE End(t, ErrorCode(t))
  /\ UNCHANGED <<platform, disk, started, edits, crashes>>

PartsOf(t) == IF Name(t) = "generate" THEN FileCount ELSE 1
PartsWritten(t) == IF term[t].stage = Nothing THEN 0 ELSE term[t].stage.parts

(***************************************************************************)
(* One file of the stage is written, or the write fails.                   *)
(***************************************************************************)
StageFile(t) ==
  LET parts == PartsWritten(t) + 1
  IN  /\ At(t, "stage")
      /\ term' = [term EXCEPT ![t].stage = [kind |-> "stage", parts |-> parts],
                    ![t].pc = IF parts = PartsOf(t) THEN "recheck" ELSE "stage"]
      /\ UNCHANGED <<platform, disk, started, edits, crashes>>

StageError(t) ==
  /\ At(t, "stage") /\ Goto(t, "cleanup")
  /\ UNCHANGED <<platform, disk, started, edits, crashes>>

\* Mutant: a target that appeared ends the command without cleaning up
RecheckKeepsStage(t) ==
  /\ At(t, "recheck")
  /\ IF Target(t) = Absent THEN Goto(t, "rename") ELSE End(t, ErrorCode(t))
  /\ UNCHANGED <<platform, disk, started, edits, crashes>>

RecheckTarget(t) ==
  /\ At(t, "recheck")
  /\ Goto(t, IF Target(t) = Absent THEN "rename" ELSE "cleanup")
  /\ UNCHANGED <<platform, disk, started, edits, crashes>>

(***************************************************************************)
(* rename: a file replaces the file at the target, if there is one; a      *)
(* directory replaces, on POSIX, only an empty directory.                  *)
(***************************************************************************)
RenameAllowed(t) ==
  \/ Name(t) # "generate"
  \/ Target(t) = Absent
  \/ platform = "posix" /\ Target(t) = EmptyDirectory

(***************************************************************************)
(* What a path shows once the stage is renamed to it: the artifact, and    *)
(* for a project how many of its files.                                    *)
(***************************************************************************)
ProjectDirectory(t) ==
  [kind |-> "project", content |-> term[t].artifact, parts |-> PartsWritten(t)]

Published(t) == IF Name(t) = "generate" THEN ProjectDirectory(t) ELSE term[t].artifact

\* Mutant: the files are copied to the target one after the other
CopyFiles(t) ==
  LET copied == IF Target(t).kind = "project" THEN Target(t).parts + 1 ELSE 1
  IN  /\ At(t, "rename")
      /\ disk' = [disk EXCEPT ![TargetPath(t)] =
                    IF Name(t) = "generate" THEN [ProjectDirectory(t) EXCEPT !.parts = copied]
                    ELSE term[t].artifact]
      /\ IF copied < PartsWritten(t) THEN UNCHANGED term ELSE EndWithoutStage(t, 0)
      /\ UNCHANGED <<platform, started, edits, crashes>>

Rename(t) ==
  /\ At(t, "rename")
  /\ RenameAllowed(t)
  /\ disk' = [disk EXCEPT ![TargetPath(t)] = Published(t)]
  /\ EndWithoutStage(t, 0)
  /\ UNCHANGED <<platform, started, edits, crashes>>

(***************************************************************************)
(* rename fails on an existing directory; on Windows also while another    *)
(* process holds one of the files open.  publish retries it there, if the  *)
(* target is still missing.                                                *)
(***************************************************************************)
RenameError(t) ==
  /\ At(t, "rename")
  /\ ~RenameAllowed(t) \/ platform = "win32"
  /\ Goto(t, IF platform = "win32" /\ Name(t) = "generate" THEN "retry" ELSE "cleanup")
  /\ UNCHANGED <<platform, disk, started, edits, crashes>>

RetryRename(t) ==
  /\ At(t, "retry")
  /\ IF term[t].retries < MaxRenameRetries /\ Target(t) = Absent
     THEN term' = [term EXCEPT ![t].pc = "rename", ![t].retries = @ + 1]
     ELSE Goto(t, "cleanup")
  /\ UNCHANGED <<platform, disk, started, edits, crashes>>

RemoveStage(t) ==
  /\ At(t, "cleanup")
  /\ EndWithoutStage(t, ErrorCode(t))
  /\ UNCHANGED <<platform, disk, started, edits, crashes>>

-----------------------------------------------------------------------------
(***************************************************************************)
(* The command is killed wherever it is; its terminal is not used again.   *)
(***************************************************************************)
Crash(t) ==
  /\ ~At(t, "idle") /\ ~At(t, "crashed") /\ crashes < MaxCrashes
  /\ crashes' = crashes + 1
  /\ term' = [term EXCEPT ![t] = [IdleTerminal EXCEPT !.pc = "crashed",
                                                      !.stage = term[t].stage]]
  /\ UNCHANGED <<platform, disk, started, edits>>

Edit(path, value) ==
  /\ edits < MaxEdits
  /\ edits' = edits + 1
  /\ disk' = [disk EXCEPT ![path] = value]
  /\ UNCHANGED <<platform, term, started, crashes>>

(***************************************************************************)
(* The developer replaces the definition, changes the schema in the        *)
(* normalized tool by hand, edits the draft as the documents ask, or makes *)
(* a directory where the project would go.                                 *)
(***************************************************************************)
EditDefinition == \E definition \in Definitions : Edit("definition", definition)

EditTool ==
  \E definition \in Definitions :
    /\ disk["tool"].kind = "tool"
    /\ Edit("tool", [disk["tool"] EXCEPT !.schema = definition.schema])

EditDraft ==
  \E change \in SelectionEdits :
    /\ disk["draft"].kind = "review"
    /\ Edit("draft", EditedDraft(disk["draft"], change))

MakeDirectory == disk["project"] = Absent /\ Edit("project", EmptyDirectory)

Step(t) ==
  \/ ReadInput(t) \/ WriteResult(t) \/ CheckTarget(t) \/ StageFile(t) \/ StageError(t)
  \/ RecheckTarget(t) \/ Rename(t) \/ RenameError(t) \/ RetryRename(t) \/ RemoveStage(t)

Next ==
  \/ \E t \in Terminals : Step(t) \/ Crash(t) \/ \E c \in Commands : Start(t, c)
  \/ EditDefinition \/ EditTool \/ EditDraft \/ MakeDirectory

Spec == Init /\ [][Next]_vars

-----------------------------------------------------------------------------
(***************************************************************************)
(* A project on the disk is complete and was generated from one approved   *)
(* review of one tool and one analysis that belong together: whatever      *)
(* files were edited or replaced between the reads of the commands, the    *)
(* analysis in its bundle is of the definition its tool was normalized     *)
(* from, the review names that tool and that analysis, and the identity it *)
(* enforces is made of fields of the tool that it does not hold sensitive  *)
(* (a review may redact more), required unless their absence was           *)
(* confirmed.                                                              *)
(***************************************************************************)
ApprovedContent(project) ==
  LET bundle == project.bundle
      selection == bundle.review.selection
      identity == ToSet(selection.identity)
  IN  /\ bundle.review.state = "approved"
      /\ bundle.review.binding.sourceDigest = Digest(bundle.tool)
      /\ bundle.review.binding.analysisDigest = Digest(bundle.analysis)
      /\ bundle.tool.provenance = bundle.analysis.provenance
      /\ selection.acknowledged /\ selection.hookAcknowledged
      /\ identity # {} \/ selection.appKeyConfirmed
      /\ identity \subseteq Fields(bundle.tool.schema) \ bundle.tool.sensitive
      /\ \A path \in identity \ selection.optionalConfirmed :
           FieldRequired(bundle.tool.schema, path)

ProjectFromOneApproval ==
  disk["project"].kind = "project" =>
    disk["project"].parts = FileCount /\ ApprovedContent(disk["project"].content)

(***************************************************************************)
(* A published project is final: no command, however it interleaves with   *)
(* another that publishes to the same directory, fails or is killed,       *)
(* changes or removes it, so the manifest a command reports with exit code *)
(* 0 is the one on the disk.                                               *)
(***************************************************************************)
PublishedProjectFinal ==
  [][disk["project"].kind = "project" => disk'["project"] = disk["project"]]_vars

(***************************************************************************)
(* A command that ended tells the truth and tidies up: after exit code 0   *)
(* of generate the complete project it made is on the disk, whatever other *)
(* command was publishing to the same directory, and no command that was   *)
(* not killed leaves a temporary file or a stage directory behind.         *)
(***************************************************************************)
EndedCommandsHonest ==
  \A t \in Terminals : At(t, "idle") =>
    /\ term[t].stage = Nothing
    /\ term[t].artifact.kind = "project" =>
         disk["project"] = [kind |-> "project", content |-> term[t].artifact,
                            parts |-> FileCount]
==============================================================================
