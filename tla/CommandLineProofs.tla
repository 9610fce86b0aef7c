------------------------- MODULE CommandLineProofs -------------------------
(***************************************************************************)
(* Theorems about the design-time commands, for any number of terminals,   *)
(* any definitions, answers and edits, and however many commands run, are  *)
(* killed or fail.                                                         *)
(***************************************************************************)
EXTENDS CommandLine, TLAPS

Running == {"read", "write", "check", "stage", "recheck", "rename", "retry", "cleanup"}

CommandInv ==
  /\ "project" \in DOMAIN disk
  /\ DOMAIN term = Terminals
  /\ \A t \in Terminals :
       /\ DOMAIN term[t] = DOMAIN IdleTerminal
       /\ term[t].pc \in Running \cup {"idle", "crashed"}
       /\ term[t].pc \in Running => term[t].command \in Commands
       /\ term[t].pc = "write" => Redirected(term[t].command)

\* Only generate writes to where a project goes.
LEMMA CommandTargets ==
  ASSUME NEW c \in Commands
  PROVE  /\ Redirected(c) => c.target # "project"
         /\ c.name # "generate" => c.target # "project"
<1>1. CASE c \in {[name |-> "approve", inputs |-> <<"tool", "analysis", path>>,
                   target |-> "approved"] : path \in ReviewPaths}
  BY <1>1 DEF Redirected
<1>2. CASE c \in {[name |-> "generate", inputs |-> <<"tool", "analysis", path>>,
                   target |-> "project"] : path \in ReviewPaths}
  BY <1>2 DEF Redirected
<1> QED BY <1>1, <1>2 DEF Commands, Redirected

LEMMA CommandInit == Init => CommandInv
  BY DEF Init, CommandInv, IdleTerminal, Running

\* A step of a running command moves its terminal and keeps its command.
LEMMA MoveKeeps ==
  ASSUME CommandInv, NEW t \in Terminals, NEW r,
         DOMAIN disk' = DOMAIN disk, term' = [term EXCEPT ![t] = r],
         DOMAIN r = DOMAIN IdleTerminal,
         r.pc \in Running \cup {"idle", "crashed"},
         r.pc \in Running => r.command \in Commands,
         r.pc = "write" => Redirected(r.command)
  PROVE  CommandInv'
  BY DEF CommandInv

LEMMA GotoKeeps ==
  ASSUME CommandInv, NEW t \in Terminals, term[t].pc \in Running,
         DOMAIN disk' = DOMAIN disk,
         NEW place \in Running \ {"write"}, Goto(t, place)
  PROVE  CommandInv'
<1> DEFINE r == [term[t] EXCEPT !.pc = place]
<1>1. term' = [term EXCEPT ![t] = r]
  BY DEF Goto, CommandInv
<1>2. /\ DOMAIN r = DOMAIN IdleTerminal
      /\ r.pc = place /\ r.command = term[t].command
  BY DEF CommandInv, IdleTerminal
<1> QED BY <1>1, <1>2, MoveKeeps DEF CommandInv

LEMMA EndKeeps ==
  ASSUME CommandInv, NEW t \in Terminals, DOMAIN disk' = DOMAIN disk,
         NEW exitCode, End(t, exitCode) \/ EndWithoutStage(t, exitCode)
  PROVE  CommandInv'
<1> DEFINE r == Ended(t, exitCode)
           q == [r EXCEPT !.stage = Nothing]
<1>1. DOMAIN r = DOMAIN IdleTerminal /\ r.pc = "idle"
  BY DEF Ended, IdleTerminal
<1>2. DOMAIN q = DOMAIN IdleTerminal /\ q.pc = "idle"
  <2> HIDE DEF r
  <2>1. DOMAIN q = DOMAIN r /\ q.pc = r.pc
    BY <1>1 DEF IdleTerminal
  <2> QED BY <1>1, <2>1
<1>3. CASE term' = [term EXCEPT ![t] = r]
  BY <1>1, <1>3, MoveKeeps DEF Running
<1>4. CASE term' = [term EXCEPT ![t] = q]
  BY <1>2, <1>4, MoveKeeps DEF Running
<1> QED BY <1>3, <1>4 DEF End, EndWithoutStage

LEMMA CommandStep == CommandInv /\ [Next]_vars => CommandInv'
<1> SUFFICES ASSUME CommandInv, [Next]_vars PROVE CommandInv'
  OBVIOUS
<1> USE DEF At
<1>1. ASSUME NEW t \in Terminals, NEW c \in Commands, Start(t, c)
      PROVE  CommandInv'
  <2> DEFINE r == [IdleTerminal EXCEPT !.command = c, !.pc = "read"]
  <2>1. /\ term' = [term EXCEPT ![t] = r] /\ DOMAIN disk' = DOMAIN disk
    BY <1>1 DEF Start
  <2>2. DOMAIN r = DOMAIN IdleTerminal /\ r.pc = "read" /\ r.command = c
    BY DEF IdleTerminal
  <2> QED BY <2>1, <2>2, MoveKeeps DEF Running
<1>2. ASSUME NEW t \in Terminals, ReadInput(t)
      PROVE  CommandInv'
  <2>0. /\ term[t].pc = "read" /\ disk' = disk
        /\ term[t].pc \in Running
    BY <1>2 DEF ReadInput, Running
  <2>1. CASE \E exitCode : End(t, exitCode)
    BY <2>0, <2>1, EndKeeps
  <2>2. CASE \E input : term' = [term EXCEPT ![t].read = input]
    <3>1. PICK input : term' = [term EXCEPT ![t].read = input]
      BY <2>2
    <3> DEFINE r == [term[t] EXCEPT !.read = input]
    <3>2. /\ DOMAIN r = DOMAIN IdleTerminal
          /\ r.pc = "read" /\ r.command = term[t].command
      BY <2>0 DEF CommandInv, IdleTerminal
    <3>3. term' = [term EXCEPT ![t] = r]
      BY <3>1 DEF CommandInv
    <3> QED BY <2>0, <3>2, <3>3, MoveKeeps DEF CommandInv
  <2>3. CASE \E outcome :
               term' = [term EXCEPT ![t].artifact = outcome, ![t].read = <<>>,
                          ![t].pc = IF Redirected(term[t].command)
                                    THEN "write" ELSE "check"]
    <3>1. PICK outcome :
            term' = [term EXCEPT ![t].artifact = outcome, ![t].read = <<>>,
                       ![t].pc = IF Redirected(term[t].command) THEN "write" ELSE "check"]
      BY <2>3
    <3> DEFINE r == [term[t] EXCEPT !.artifact = outcome, !.read = <<>>,
                       !.pc = IF Redirected(term[t].command) THEN "write" ELSE "check"]
    <3>2. /\ DOMAIN r = DOMAIN IdleTerminal
          /\ r.pc = IF Redirected(term[t].command) THEN "write" ELSE "check"
          /\ r.command = term[t].command
      BY DEF CommandInv, IdleTerminal
    <3>3. term' = [term EXCEPT ![t] = r]
      BY <3>1 DEF CommandInv
    <3> QED BY <2>0, <3>2, <3>3, MoveKeeps DEF CommandInv, Running
  <2>4. ASSUME NEW input, Compute(t, input)
        PROVE  CommandInv'
    BY <2>4, <2>1, <2>3 DEF Compute
  <2> QED BY <1>2, <2>1, <2>2, <2>4 DEF ReadInput
<1>3. ASSUME NEW t \in Terminals,
             WriteResult(t) \/ Rename(t) \/ RemoveStage(t)
      PROVE  CommandInv'
  <2>1. /\ DOMAIN disk' = DOMAIN disk
        /\ \E exitCode : End(t, exitCode) \/ EndWithoutStage(t, exitCode)
    BY <1>3 DEF WriteResult, Rename, RemoveStage
  <2> QED BY <2>1, EndKeeps
<1>4. ASSUME NEW t \in Terminals,
             \/ CheckTarget(t) \/ StageError(t) \/ RecheckTarget(t) \/ RenameError(t)
             \/ RetryRename(t) /\ Goto(t, "cleanup")
      PROVE  CommandInv'
  <2>1. /\ disk' = disk /\ term[t].pc \in Running
        /\ \/ \E exitCode : End(t, exitCode)
           \/ \E place \in Running \ {"write"} : Goto(t, place)
    <3>1. CASE CheckTarget(t)
      BY <3>1 DEF CheckTarget, Running
    <3>2. CASE StageError(t)
      BY <3>2 DEF StageError, Running
    <3>3. CASE RecheckTarget(t)
      BY <3>3 DEF RecheckTarget, Running
    <3>4. CASE RenameError(t)
      BY <3>4 DEF RenameError, Running
    <3>5. CASE RetryRename(t) /\ Goto(t, "cleanup")
      BY <3>5 DEF RetryRename, Running
    <3> QED BY <1>4, <3>1, <3>2, <3>3, <3>4, <3>5
  <2> QED BY <2>1, EndKeeps, GotoKeeps
<1>5. ASSUME NEW t \in Terminals, StageFile(t)
      PROVE  CommandInv'
  <2>1. PICK stage, place :
          /\ place \in {"recheck", "stage"}
          /\ term' = [term EXCEPT ![t].stage = stage, ![t].pc = place]
    BY <1>5 DEF StageFile
  <2> DEFINE r == [term[t] EXCEPT !.stage = stage, !.pc = place]
  <2>2. /\ DOMAIN r = DOMAIN IdleTerminal
        /\ r.pc = place /\ r.command = term[t].command
    BY DEF CommandInv, IdleTerminal
  <2>3. term' = [term EXCEPT ![t] = r]
    BY <2>1 DEF CommandInv
  <2>4. term[t].pc \in Running /\ disk' = disk
    BY <1>5 DEF StageFile, Running
  <2> QED BY <2>1, <2>2, <2>3, <2>4, MoveKeeps DEF CommandInv, Running
<1>6. ASSUME NEW t \in Terminals, RetryRename(t), ~ Goto(t, "cleanup")
      PROVE  CommandInv'
  <2>1. /\ term[t].pc \in Running /\ disk' = disk
        /\ term' = [term EXCEPT ![t].pc = "rename", ![t].retries = @ + 1]
    BY <1>6 DEF RetryRename, Running
  <2> DEFINE r == [term[t] EXCEPT !.pc = "rename", !.retries = @ + 1]
  <2>2. /\ DOMAIN r = DOMAIN IdleTerminal
        /\ r.pc = "rename" /\ r.command = term[t].command
    BY DEF CommandInv, IdleTerminal
  <2>3. term' = [term EXCEPT ![t] = r]
    BY <2>1 DEF CommandInv
  <2> QED BY <2>1, <2>2, <2>3, MoveKeeps DEF CommandInv, Running
<1>7. ASSUME NEW t \in Terminals, Crash(t)
      PROVE  CommandInv'
  <2> DEFINE r == [IdleTerminal EXCEPT !.pc = "crashed", !.stage = term[t].stage]
  <2>1. term' = [term EXCEPT ![t] = r] /\ disk' = disk
    BY <1>7 DEF Crash
  <2>2. DOMAIN r = DOMAIN IdleTerminal /\ r.pc = "crashed"
    BY DEF IdleTerminal
  <2> QED BY <2>1, <2>2, MoveKeeps DEF Running
<1>8. CASE EditDefinition \/ EditTool \/ EditDraft \/ MakeDirectory \/ UNCHANGED vars
  <2>1. term' = term /\ DOMAIN disk' = DOMAIN disk
    BY <1>8 DEF EditDefinition, EditTool, EditDraft, MakeDirectory, Edit, vars
  <2> QED BY <2>1 DEF CommandInv
<1> QED BY <1>1, <1>2, <1>3, <1>4, <1>5, <1>6, <1>7, <1>8 DEF Next, Step

LEMMA CommandCorrect == Spec => []CommandInv
<1> QED BY CommandInit, CommandStep, PTL DEF Spec

LEMMA ProjectStep ==
  CommandInv /\ [Next]_vars =>
    (disk["project"].kind = "project" => disk'["project"] = disk["project"])
<1> SUFFICES ASSUME CommandInv, [Next]_vars, disk["project"].kind = "project"
             PROVE  disk'["project"] = disk["project"]
  OBVIOUS
<1> USE DEF CommandInv, At
<1>1. ASSUME NEW t \in Terminals, NEW c \in Commands, Start(t, c)
      PROVE  disk'["project"] = disk["project"]
  BY <1>1, CommandTargets DEF Start
<1>2. ASSUME NEW t \in Terminals, WriteResult(t)
      PROVE  disk'["project"] = disk["project"]
  BY <1>2, CommandTargets DEF WriteResult, Running, TargetPath
<1>3. ASSUME NEW t \in Terminals, Rename(t)
      PROVE  disk'["project"] = disk["project"]
  <2>1. Target(t) # disk["project"] \/ Name(t) # "generate"
    BY <1>3 DEF Rename, RenameAllowed, Absent, EmptyDirectory
  <2>2. TargetPath(t) # "project"
    BY <1>3, <2>1, CommandTargets DEF Rename, Running, TargetPath, Target, Name
  <2> QED BY <1>3, <2>2 DEF Rename
<1>4. ASSUME NEW t \in Terminals,
             \/ ReadInput(t) \/ CheckTarget(t) \/ StageFile(t) \/ StageError(t)
             \/ RecheckTarget(t) \/ RenameError(t) \/ RetryRename(t) \/ RemoveStage(t)
             \/ Crash(t)
      PROVE  disk' = disk
  BY <1>4 DEF ReadInput, CheckTarget, StageFile, StageError, RecheckTarget, RenameError,
     RetryRename, RemoveStage, Crash
<1>5. CASE EditDefinition \/ EditTool \/ EditDraft \/ MakeDirectory
  BY <1>5 DEF EditDefinition, EditTool, EditDraft, MakeDirectory, Edit, Absent
<1>6. CASE UNCHANGED vars
  BY <1>6 DEF vars
<1> QED BY <1>1, <1>2, <1>3, <1>4, <1>5, <1>6 DEF Next, Step

(***************************************************************************)
(* No command and no edit changes or removes a project once it is there.   *)
(***************************************************************************)
THEOREM ProjectFinal == Spec => PublishedProjectFinal
<1>1. CommandInv /\ [Next]_vars =>
        [disk["project"].kind = "project" => disk'["project"] = disk["project"]]_vars
  BY ProjectStep
<1> QED BY <1>1, CommandCorrect, PTL DEF Spec, PublishedProjectFinal

-----------------------------------------------------------------------------
(***************************************************************************)
(* The generator accepts three artifacts only if they form one approved    *)
(* review of one tool and one analysis.                                    *)
(***************************************************************************)
LEMMA GeneratedIsApproved ==
  ASSUME NEW tool, NEW analysis, NEW review,
         GenerateGuardedToolProject(tool, analysis, review) # Refused
  PROVE  ApprovedContent(GenerateGuardedToolProject(tool, analysis, review))
<1> DEFINE project == GenerateGuardedToolProject(tool, analysis, review)
           selection == review.selection
<1>1. /\ RequestValid(tool, analysis, review)
      /\ project = ProjectOf(tool, analysis, review)
  BY DEF GenerateGuardedToolProject
<1>2. project.bundle = [tool |-> tool, analysis |-> analysis, review |-> review]
  BY <1>1 DEF ProjectOf
<1>3. /\ review.state = "approved"
      /\ AssertBoundArtifacts(tool, analysis, review)
      /\ AssertSelectionSupported(tool, analysis, review)
  BY <1>1 DEF RequestValid, ReviewValid
<1>4. /\ review.binding.sourceDigest = Digest(tool)
      /\ review.binding.analysisDigest = Digest(analysis)
      /\ tool.provenance = analysis.provenance
  BY <1>3 DEF AssertBoundArtifacts, BoundTo
<1>5. /\ selection.acknowledged /\ selection.hookAcknowledged
      /\ SelectedFieldsExist(tool, selection)
      /\ IdentityConfirmed(selection)
      /\ IdentityUsable(tool, selection)
  BY <1>3 DEF AssertSelectionSupported, CapabilitiesUnchanged, ReconciliationUnchanged
<1>6. ToSet(selection.identity) # {} \/ selection.appKeyConfirmed
  BY <1>5 DEF IdentityConfirmed
<1>7. /\ ToSet(selection.identity) \subseteq Fields(tool.schema) \ tool.sensitive
      /\ \A path \in ToSet(selection.identity) \ selection.optionalConfirmed :
           FieldRequired(tool.schema, path)
  <2> HIDE DEF selection
  <2> QED BY <1>5 DEF SelectedFieldsExist, IdentityUsable
<1> HIDE DEF project
<1>8. ApprovedContent(project)
  BY <1>2, <1>3, <1>4, <1>5, <1>6, <1>7 DEF ApprovedContent
<1> QED BY <1>8 DEF project

\* The artifacts of the other commands are no projects.
LEMMA OtherArtifacts ==
  ASSUME NEW tool, NEW analysis, NEW review, NEW response
  PROVE  /\ NormalizeMcpToolDefinition(tool).kind # "project"
         /\ RunToolRiskAnalyzer(tool, response).kind # "project"
         /\ CreateReviewDraft(tool, analysis).kind # "project"
         /\ Approve(tool, analysis, review).kind # "project"
<1> USE DEF Refused
<1>1. NormalizeMcpToolDefinition(tool).kind # "project"
  BY DEF NormalizeMcpToolDefinition
<1>2. \A value : ParseAnalysis(value).kind # "project"
  BY DEF ParseAnalysis
<1>3. \A value : ParseReview(value).kind # "project"
  BY DEF ParseReview
<1>4. \A value : Analyze(value, response).kind # "project"
  BY <1>2 DEF Analyze, AttachTrustedEnvelope
<1>5. RunToolRiskAnalyzer(tool, response).kind # "project"
  BY <1>4 DEF RunToolRiskAnalyzer
<1>6. CreateReviewDraft(tool, analysis).kind # "project"
  BY <1>3 DEF CreateReviewDraft
<1>7. Approve(tool, analysis, review).kind # "project"
  <2> DEFINE approved == [review EXCEPT !.state = "approved", !.attested = TRUE]
  <2>1. ReviewValid(tool, analysis, approved) => approved.kind = "review"
    <3> HIDE DEF approved
    <3> QED BY DEF ReviewValid, ParseReview
  <2> HIDE DEF approved
  <2>2. Approve(tool, analysis, review) =
          IF /\ ReviewValid(tool, analysis, review)
             /\ review.state = "draft"
             /\ ReviewValid(tool, analysis, approved)
          THEN approved ELSE Refused
    BY DEF Approve, approved
  <2> QED BY <2>1, <2>2
<1> QED BY <1>1, <1>5, <1>6, <1>7

(***************************************************************************)
(* What a terminal holds, at each place of its command, when the project's *)
(* path shows d: no stage before it stages, a complete one when it is      *)
(* about to rename, an approved project if it generates, and, once it has  *)
(* reported a project, d is that project.                                  *)
(***************************************************************************)
Publishing == {"write", "check", "stage", "recheck", "rename", "retry", "cleanup"}

Holds(r, d) ==
  /\ r.pc \in {"idle", "read", "write", "check"} => r.stage = Nothing
  /\ r.pc \in {"recheck", "rename", "retry"} =>
       /\ r.stage # Nothing
       /\ r.stage.parts = IF r.command.name = "generate" THEN FileCount ELSE 1
  /\ r.pc \in Publishing =>
       IF r.command.name = "generate"
       THEN ApprovedContent(r.artifact) ELSE r.artifact.kind # "project"
  /\ r.pc = "idle" /\ r.artifact.kind = "project" =>
       d = [kind |-> "project", content |-> r.artifact, parts |-> FileCount]

PublishInv ==
  /\ \A t \in Terminals : Holds(term[t], disk["project"])
  /\ ProjectFromOneApproval

LEMMA PublishInit == Init => PublishInv
  BY DEF Init, PublishInv, Holds, IdleTerminal, Nothing, Absent, Publishing,
     ProjectFromOneApproval

\* A step of one terminal that leaves it, and the project, as they should be.
LEMMA PublishKeeps ==
  ASSUME CommandInv, PublishInv, [Next]_vars,
         NEW t \in Terminals, NEW r, term' = [term EXCEPT ![t] = r],
         Holds(r, disk'["project"]), ProjectFromOneApproval'
  PROVE  PublishInv'
<1>1. ASSUME NEW s \in Terminals, s # t
      PROVE  Holds(term[s], disk'["project"])
  BY <1>1, ProjectStep DEF PublishInv, Holds
<1>2. \A s \in Terminals : term'[s] = IF s = t THEN r ELSE term[s]
  BY DEF CommandInv
<1> QED BY <1>1, <1>2 DEF PublishInv

\* The same for a step that leaves the project's path alone.
LEMMA QuietKeeps ==
  ASSUME CommandInv, PublishInv, [Next]_vars,
         NEW t \in Terminals, NEW r, term' = [term EXCEPT ![t] = r],
         disk'["project"] = disk["project"], Holds(r, disk["project"])
  PROVE  PublishInv'
BY PublishKeeps DEF PublishInv, ProjectFromOneApproval

\* A command that fails reports nothing.
LEMMA FailureHolds ==
  ASSUME NEW t \in Terminals, NEW exitCode, NEW d, exitCode # 0
  PROVE  /\ term[t].stage = Nothing => Holds(Ended(t, exitCode), d)
         /\ Holds([Ended(t, exitCode) EXCEPT !.stage = Nothing], d)
<1> DEFINE r == Ended(t, exitCode)
           q == [r EXCEPT !.stage = Nothing]
<1>1. /\ r.pc = "idle" /\ r.stage = term[t].stage /\ r.artifact = Nothing
      /\ DOMAIN r = DOMAIN IdleTerminal
  BY DEF Ended, IdleTerminal
<1>2. q.pc = "idle" /\ q.stage = Nothing /\ q.artifact = Nothing
  <2> HIDE DEF r
  <2> QED BY <1>1 DEF IdleTerminal
<1> HIDE DEF r, q
<1>3. /\ term[t].stage = Nothing => Holds(r, d)
      /\ Holds(q, d)
  BY <1>1, <1>2 DEF Holds, Nothing, Publishing
<1> QED BY <1>3 DEF r, q

LEMMA ErrorCodes ==
  ASSUME NEW t, NEW input
  PROVE  ErrorCode(t) # 0 /\ RefusalCode(t, input) # 0
BY DEF ErrorCode, RefusalCode

\* Moving on to the next place keeps what the terminal holds.
LEMMA GotoHolds ==
  ASSUME CommandInv, PublishInv, [Next]_vars,
         NEW t \in Terminals, NEW place \in {"stage", "rename", "retry", "cleanup"},
         Goto(t, place), disk' = disk, term[t].pc \in Publishing,
         place \in {"rename", "retry"} => term[t].pc \in {"recheck", "rename"}
  PROVE  PublishInv'
<1> DEFINE r == [term[t] EXCEPT !.pc = place]
<1>1. term' = [term EXCEPT ![t] = r]
  BY DEF Goto, CommandInv
<1>2. /\ r.pc = place /\ r.command = term[t].command
      /\ r.stage = term[t].stage /\ r.artifact = term[t].artifact
  BY DEF CommandInv, IdleTerminal
<1> HIDE DEF r
<1>3. Holds(r, disk["project"])
  BY <1>2 DEF PublishInv, Holds, Publishing
<1> QED BY <1>1, <1>3, QuietKeeps

LEMMA OutcomeHolds ==
  ASSUME NEW t, NEW input, term[t].command \in Commands,
         NEW outcome \in Outcomes(t, input), outcome # Refused
  PROVE  IF Name(t) = "generate" THEN ApprovedContent(outcome) ELSE outcome.kind # "project"
<1>1. Name(t) \in {"normalize-mcp", "analyze", "review", "approve", "generate"}
  BY DEF Commands, Name
<1>2. CASE Name(t) = "normalize-mcp"
  <2>1. outcome = NormalizeMcpToolDefinition(input[1])
    BY <1>2 DEF Outcomes
  <2> QED BY <1>2, <2>1, OtherArtifacts
<1>3. CASE Name(t) = "analyze"
  <2>1. \E tool, response : outcome = RunToolRiskAnalyzer(tool, response)
    BY <1>3 DEF Outcomes
  <2> QED BY <1>3, <2>1, OtherArtifacts
<1>4. CASE Name(t) = "review"
  <2>1. outcome = CreateReviewDraft(input[1], input[2])
    BY <1>4 DEF Outcomes
  <2> QED BY <1>4, <2>1, OtherArtifacts
<1>5. CASE Name(t) = "approve"
  <2>1. outcome = Approve(input[1], input[2], input[3])
    BY <1>5 DEF Outcomes
  <2> QED BY <1>5, <2>1, OtherArtifacts
<1>6. CASE Name(t) = "generate"
  <2>1. outcome = GenerateGuardedToolProject(input[1], input[2], input[3])
    BY <1>6 DEF Outcomes
  <2> QED BY <1>6, <2>1, GeneratedIsApproved
<1> QED BY <1>1, <1>2, <1>3, <1>4, <1>5, <1>6

LEMMA ReadHolds ==
  ASSUME CommandInv, PublishInv, [Next]_vars, NEW t \in Terminals, ReadInput(t)
  PROVE  PublishInv'
<1>0. /\ term[t].pc = "read" /\ disk' = disk
      /\ term[t].stage = Nothing /\ term[t].command \in Commands
  BY DEF ReadInput, At, PublishInv, Holds, CommandInv, Running
<1>1. ASSUME NEW exitCode, exitCode # 0, End(t, exitCode)
      PROVE  PublishInv'
  BY <1>0, <1>1, FailureHolds, QuietKeeps DEF End
<1>2. CASE \E input : term' = [term EXCEPT ![t].read = input]
  <2>1. PICK input : term' = [term EXCEPT ![t].read = input]
    BY <1>2
  <2> DEFINE r == [term[t] EXCEPT !.read = input]
  <2>2. r.pc = "read" /\ r.stage = Nothing
    BY <1>0 DEF CommandInv, IdleTerminal
  <2>3. term' = [term EXCEPT ![t] = r]
    BY <2>1 DEF CommandInv
  <2> HIDE DEF r
  <2>4. Holds(r, disk["project"])
    BY <2>2 DEF Holds, Publishing
  <2> QED BY <1>0, <2>3, <2>4, QuietKeeps
<1>3. ASSUME NEW input, NEW outcome \in Outcomes(t, input), outcome # Refused,
             term' = [term EXCEPT ![t].artifact = outcome, ![t].read = <<>>,
                        ![t].pc = IF Redirected(term[t].command) THEN "write" ELSE "check"]
      PROVE  PublishInv'
  <2> DEFINE r == [term[t] EXCEPT !.artifact = outcome, !.read = <<>>,
                     !.pc = IF Redirected(term[t].command) THEN "write" ELSE "check"]
  <2>1. /\ r.pc \in {"write", "check"} /\ r.stage = Nothing
        /\ r.command = term[t].command /\ r.artifact = outcome
    BY <1>0 DEF CommandInv, IdleTerminal
  <2>2. term' = [term EXCEPT ![t] = r]
    BY <1>3 DEF CommandInv
  <2>3. IF r.command.name = "generate"
        THEN ApprovedContent(outcome) ELSE outcome.kind # "project"
    BY <1>0, <1>3, <2>1, OutcomeHolds DEF Name
  <2> HIDE DEF r
  <2>4. Holds(r, disk["project"])
    BY <2>1, <2>3 DEF Holds
  <2> QED BY <1>0, <2>2, <2>4, QuietKeeps
<1>4. ASSUME NEW input, Compute(t, input)
      PROVE  PublishInv'
  BY <1>1, <1>3, <1>4, ErrorCodes DEF Compute
<1> QED BY <1>1, <1>2, <1>4, ErrorCodes DEF ReadInput

LEMMA StageHolds ==
  ASSUME CommandInv, PublishInv, [Next]_vars, NEW t \in Terminals, StageFile(t)
  PROVE  PublishInv'
<1> DEFINE parts == PartsWritten(t) + 1
           staged == [kind |-> "stage", parts |-> parts]
           place == IF parts = PartsOf(t) THEN "recheck" ELSE "stage"
           r == [term[t] EXCEPT !.stage = staged, !.pc = place]
<1>1. /\ term[t].pc = "stage" /\ disk' = disk
      /\ term' = [term EXCEPT ![t] = r]
  BY DEF StageFile, At, CommandInv
<1>2. /\ r.pc = place /\ r.command = term[t].command
      /\ r.stage = staged /\ r.artifact = term[t].artifact
  BY DEF CommandInv, IdleTerminal
<1>3. /\ staged # Nothing
      /\ \/ place = "stage"
         \/ place = "recheck" /\ staged.parts = PartsOf(t)
  BY DEF Nothing
<1> HIDE DEF r, place, staged
<1>4. Holds(r, disk["project"])
  BY <1>1, <1>2, <1>3 DEF PublishInv, Holds, Publishing, PartsOf, Name
<1> QED BY <1>1, <1>4, QuietKeeps

LEMMA WriteHolds ==
  ASSUME CommandInv, PublishInv, [Next]_vars, NEW t \in Terminals, WriteResult(t)
  PROVE  PublishInv'
<1> DEFINE r == Ended(t, 0)
<1>1. /\ term[t].pc = "write" /\ term' = [term EXCEPT ![t] = r]
      /\ disk'["project"] = disk["project"]
      /\ term[t].command.name # "generate"
  BY CommandTargets
     DEF WriteResult, At, End, CommandInv, Running, TargetPath, Redirected
<1>2. term[t].stage = Nothing /\ term[t].artifact.kind # "project"
  BY <1>1 DEF PublishInv, Holds, Publishing
<1>3. r.pc = "idle" /\ r.stage = Nothing /\ r.artifact = term[t].artifact
  BY <1>2 DEF Ended, IdleTerminal
<1> HIDE DEF r
<1>4. Holds(r, disk["project"])
  BY <1>2, <1>3 DEF Holds, Publishing
<1> QED BY <1>1, <1>4, QuietKeeps

LEMMA RenameHolds ==
  ASSUME CommandInv, PublishInv, [Next]_vars, NEW t \in Terminals, Rename(t)
  PROVE  PublishInv'
<1> DEFINE e == Ended(t, 0)
           r == [e EXCEPT !.stage = Nothing]
<1>1. /\ term[t].pc = "rename" /\ term' = [term EXCEPT ![t] = r]
      /\ disk' = [disk EXCEPT ![TargetPath(t)] = Published(t)]
      /\ term[t].command \in Commands
  BY DEF Rename, At, EndWithoutStage, CommandInv, Running
<1>2. /\ DOMAIN e = DOMAIN IdleTerminal
      /\ e.pc = "idle" /\ e.artifact = term[t].artifact
  BY DEF Ended, IdleTerminal
<1>3. r.pc = "idle" /\ r.stage = Nothing /\ r.artifact = term[t].artifact
  <2> HIDE DEF e
  <2> QED BY <1>2 DEF IdleTerminal
<1> HIDE DEF e, r
<1>4. CASE Name(t) = "generate"
  <2>1. /\ term[t].stage # Nothing /\ term[t].stage.parts = FileCount
        /\ ApprovedContent(term[t].artifact)
    BY <1>1, <1>4 DEF PublishInv, Holds, Publishing, Name
  <2>2. Published(t) = [kind |-> "project", content |-> term[t].artifact,
                        parts |-> FileCount]
    BY <1>4, <2>1 DEF Published, ProjectDirectory, PartsWritten
  <2>3. TargetPath(t) = "project"
    BY <1>1, <1>4 DEF Commands, Name, TargetPath
  <2>4. disk'["project"] = Published(t)
    BY <1>1, <2>3 DEF CommandInv
  <2>5. ProjectFromOneApproval'
    BY <2>1, <2>2, <2>4 DEF ProjectFromOneApproval
  <2>6. Holds(r, disk'["project"])
    BY <1>3, <2>2, <2>4 DEF Holds, Publishing
  <2> QED BY <1>1, <2>5, <2>6, PublishKeeps
<1>5. CASE Name(t) # "generate"
  <2>1. disk'["project"] = disk["project"]
    BY <1>1, <1>5, CommandTargets DEF CommandInv, Name, TargetPath
  <2>2. term[t].artifact.kind # "project"
    BY <1>1, <1>5 DEF PublishInv, Holds, Publishing, Name
  <2>3. Holds(r, disk["project"])
    BY <1>3, <2>2 DEF Holds, Publishing
  <2> QED BY <1>1, <2>1, <2>3, QuietKeeps
<1> QED BY <1>4, <1>5

LEMMA PublishStep == CommandInv /\ PublishInv /\ [Next]_vars => PublishInv'
<1> SUFFICES ASSUME CommandInv, PublishInv, [Next]_vars PROVE PublishInv'
  OBVIOUS
<1> USE DEF At
<1>1. ASSUME NEW t \in Terminals, NEW c \in Commands, Start(t, c)
      PROVE  PublishInv'
  <2> DEFINE r == [IdleTerminal EXCEPT !.command = c, !.pc = "read"]
  <2>1. term' = [term EXCEPT ![t] = r] /\ disk'["project"] = disk["project"]
    BY <1>1, CommandTargets DEF Start, CommandInv
  <2>2. r.pc = "read" /\ r.stage = Nothing
    BY DEF IdleTerminal
  <2> HIDE DEF r
  <2>3. Holds(r, disk["project"])
    BY <2>2 DEF Holds, Publishing
  <2> QED BY <2>1, <2>3, QuietKeeps
<1>2. ASSUME NEW t \in Terminals, CheckTarget(t)
      PROVE  PublishInv'
  <2>1. term[t].pc = "check" /\ disk' = disk /\ term[t].stage = Nothing
    BY <1>2 DEF CheckTarget, PublishInv, Holds
  <2>2. CASE Goto(t, "stage")
    BY <2>1, <2>2, GotoHolds DEF Publishing
  <2>3. CASE End(t, ErrorCode(t))
    BY <2>1, <2>3, FailureHolds, ErrorCodes, QuietKeeps DEF End
  <2> QED BY <1>2, <2>2, <2>3 DEF CheckTarget
<1>3. ASSUME NEW t \in Terminals, StageError(t) \/ RecheckTarget(t) \/ RenameError(t)
      PROVE  PublishInv'
  <2>1. CASE StageError(t)
    BY <2>1, GotoHolds DEF StageError, Publishing
  <2>2. CASE RecheckTarget(t)
    BY <2>2, GotoHolds DEF RecheckTarget, Publishing
  <2>3. CASE RenameError(t)
    BY <2>3, GotoHolds DEF RenameError, Publishing
  <2> QED BY <1>3, <2>1, <2>2, <2>3
<1>4. ASSUME NEW t \in Terminals, RetryRename(t)
      PROVE  PublishInv'
  <2>1. term[t].pc = "retry" /\ disk' = disk
    BY <1>4 DEF RetryRename
  <2>2. CASE Goto(t, "cleanup")
    BY <2>1, <2>2, GotoHolds DEF Publishing
  <2>3. CASE term' = [term EXCEPT ![t].pc = "rename", ![t].retries = @ + 1]
    <3> DEFINE r == [term[t] EXCEPT !.pc = "rename", !.retries = @ + 1]
    <3>1. /\ r.pc = "rename" /\ r.command = term[t].command
          /\ r.stage = term[t].stage /\ r.artifact = term[t].artifact
      BY DEF CommandInv, IdleTerminal
    <3>2. term' = [term EXCEPT ![t] = r]
      BY <2>3 DEF CommandInv
    <3> HIDE DEF r
    <3>3. Holds(r, disk["project"])
      BY <2>1, <3>1 DEF PublishInv, Holds, Publishing
    <3> QED BY <2>1, <3>2, <3>3, QuietKeeps
  <2> QED BY <1>4, <2>2, <2>3 DEF RetryRename
<1>5. ASSUME NEW t \in Terminals, RemoveStage(t)
      PROVE  PublishInv'
  <2>1. disk' = disk /\ EndWithoutStage(t, ErrorCode(t))
    BY <1>5 DEF RemoveStage
  <2> QED BY <2>1, FailureHolds, ErrorCodes, QuietKeeps DEF EndWithoutStage
<1>6. ASSUME NEW t \in Terminals, Crash(t)
      PROVE  PublishInv'
  <2> DEFINE r == [IdleTerminal EXCEPT !.pc = "crashed", !.stage = term[t].stage]
  <2>1. term' = [term EXCEPT ![t] = r] /\ disk' = disk /\ r.pc = "crashed"
    BY <1>6 DEF Crash, IdleTerminal
  <2> HIDE DEF r
  <2>2. Holds(r, disk["project"])
    BY <2>1 DEF Holds, Publishing
  <2> QED BY <2>1, <2>2, QuietKeeps
<1>7. CASE EditDefinition \/ EditTool \/ EditDraft \/ UNCHANGED vars
  <2>1. term' = term /\ disk'["project"] = disk["project"]
    BY <1>7 DEF EditDefinition, EditTool, EditDraft, Edit, vars, CommandInv
  <2> QED BY <2>1 DEF PublishInv, ProjectFromOneApproval
<1>8. CASE MakeDirectory
  <2>1. /\ term' = term /\ disk["project"].kind = "absent"
        /\ disk'["project"].kind = "directory"
    BY <1>8 DEF MakeDirectory, Edit, CommandInv, Absent, EmptyDirectory
  <2>2. \A t \in Terminals : Holds(term[t], disk'["project"])
    BY <2>1 DEF PublishInv, Holds
  <2> QED BY <2>1, <2>2 DEF PublishInv, ProjectFromOneApproval
<1> QED
  BY <1>1, <1>2, <1>3, <1>4, <1>5, <1>6, <1>7, <1>8, ReadHolds, StageHolds, WriteHolds,
     RenameHolds DEF Next, Step

LEMMA PublishCorrect == Spec => []PublishInv
<1> QED BY PublishInit, PublishStep, CommandCorrect, PTL DEF Spec

(***************************************************************************)
(* A project on the disk was generated from one approved review.           *)
(***************************************************************************)
THEOREM ProjectIsApproved == Spec => []ProjectFromOneApproval
<1>1. PublishInv => ProjectFromOneApproval
  BY DEF PublishInv
<1> QED BY <1>1, PublishCorrect, PTL

(***************************************************************************)
(* A command that ended tells the truth and leaves no stage behind.        *)
(***************************************************************************)
THEOREM EndedHonestly == Spec => []EndedCommandsHonest
<1>1. PublishInv => EndedCommandsHonest
  BY DEF PublishInv, Holds, EndedCommandsHonest, At
<1> QED BY <1>1, PublishCorrect, PTL
=============================================================================
