----------------------- MODULE GenerationContracts -----------------------
(***************************************************************************)
(* The developer's review of an analysis, its approval, and the project    *)
(* generated from it: every check an artifact passes between the analysis  *)
(* and the generated files, as predicates on the artifacts themselves.     *)
(*                                                                         *)
(* A review is [kind, state, attested, binding, selection]; its selection  *)
(* copies the proposal's choices and adds what the developer confirms:     *)
(*   [candidate, proposal, strategy, template, identity, optionalConfirmed,*)
(*    appKeyConfirmed, mode, effect, adapter, acknowledged, reconciliation,*)
(*    correlation, hookAcknowledged, redaction, scenarios]                 *)
(***************************************************************************)
EXTENDS AnalysisContracts

CONSTANTS
  MaxFieldDepth,       \* nesting the review accepts (16)
  MaxTypeDepth,        \* nesting the generator accepts (8)
  MaxProperties,       \* properties the generator accepts (256)
  SupportedScenarios   \* failure scenarios the generator has a test for

ASSUME ContractAssumption ==
  MaxFieldDepth \in Nat /\ MaxTypeDepth \in Nat /\ MaxProperties \in Nat

ModelIdentity(analyzer) ==
  IF analyzer = "openai.gpt-5.6"
  THEN [provider |-> "openai", model |-> "gpt-5.6"]
  ELSE [provider |-> "not_applicable", model |-> "none"]

(***************************************************************************)
(* A field is required when it and every object it is nested in are.       *)
(***************************************************************************)
FieldsReadable(schema) ==
  /\ \A path \in DOMAIN schema :
       Depth(path) <= MaxFieldDepth /\ schema[path].feature # "ref"
  /\ NamesOf(schema) \cap UnsafeNames = {}

FieldRequired(schema, path) ==
  \A n \in 1 .. Len(path) : schema[SubSeq(path, 1, n)].required

(***************************************************************************)
(* A review is bound to one tool and one analysis by provenance and by     *)
(* digest.                                                                 *)
(***************************************************************************)
BoundTo(tool, analysis) ==
  [provenance |-> tool.provenance, sourceDigest |-> Digest(tool),
   analysisDigest |-> Digest(analysis), analyzer |-> analysis.analyzer,
   model |-> ModelIdentity(analysis.analyzer)]

\* Mutant: the digests are not compared
BoundByProvenance(tool, analysis, review) ==
  /\ tool.provenance = analysis.provenance
  /\ review.binding.provenance = tool.provenance

AssertBoundArtifacts(tool, analysis, review) ==
  /\ tool.provenance = analysis.provenance
  /\ review.binding = BoundTo(tool, analysis)

-----------------------------------------------------------------------------
(***************************************************************************)
(* What the selection may choose, group by group.                          *)
(***************************************************************************)
CapabilitiesUnchanged(selection, proposal) ==
  /\ selection.mode = proposal.mode
  /\ selection.effect = proposal.effect
  /\ selection.adapter = proposal.adapter
  /\ selection.acknowledged

IdentityUnchanged(selection, proposal) ==
  /\ selection.strategy = proposal.strategy
  /\ selection.template = proposal.template
  /\ ToSet(selection.identity) \subseteq ToSet(proposal.identity)

IdentityConfirmed(selection) ==
  IF selection.strategy = "application_supplied"
  THEN ToSet(selection.identity) = {} /\ selection.appKeyConfirmed
  ELSE ToSet(selection.identity) # {} /\ ~selection.appKeyConfirmed

TemplateMatches(selection) ==
  selection.strategy = "field_template" =>
    /\ selection.template # {}
    /\ selection.template = ToSet(selection.identity)

IdentityUsable(tool, selection) ==
  LET identity == ToSet(selection.identity)
  IN  /\ selection.optionalConfirmed =
           {path \in identity : ~FieldRequired(tool.schema, path)}
      /\ identity \cap (tool.sensitive \cup selection.redaction) = {}

ReconciliationUnchanged(selection, proposal) ==
  /\ selection.reconciliation = proposal.reconciliation
  /\ selection.correlation = proposal.correlation
  /\ selection.reconciliation # "unsupported"
  /\ selection.hookAcknowledged

ScenariosUnchanged(selection, proposal) ==
  /\ IsInjective([n \in DOMAIN selection.scenarios |-> selection.scenarios[n].scenario])
  /\ ToSet(selection.scenarios) \subseteq ToSet(proposal.scenarios)

SelectedFieldsExist(tool, selection) ==
  /\ FieldsReadable(tool.schema)
  /\ IsInjective(selection.identity)
  /\ ToSet(selection.identity) \cup selection.correlation \cup selection.redaction
       \subseteq Fields(tool.schema)

AssertSelectionSupported(tool, analysis, review) ==
  LET selection == review.selection
  IN  /\ analysis.status = "recommendation_only"
      /\ \E candidate \in analysis.candidates, proposal \in analysis.proposals :
           /\ candidate.id = selection.candidate
           /\ candidate.operationKind = "external_write"
           /\ proposal.id = selection.proposal
           /\ proposal.candidate = candidate.id
           /\ CapabilitiesUnchanged(selection, proposal)
           /\ IdentityUnchanged(selection, proposal)
           /\ SelectedFieldsExist(tool, selection)
           /\ IdentityConfirmed(selection)
           /\ TemplateMatches(selection)
           /\ IdentityUsable(tool, selection)
           /\ ReconciliationUnchanged(selection, proposal)
           /\ proposal.redaction \cup tool.sensitive \subseteq selection.redaction
           /\ ScenariosUnchanged(selection, proposal)

-----------------------------------------------------------------------------
(***************************************************************************)
(* Parsing, and the operations the commands call.  Each yields Refused     *)
(* where the code throws.                                                  *)
(***************************************************************************)
ParseReview(value) ==
  IF /\ value.kind = "review"
     /\ value.attested <=> value.state = "approved"
     /\ value.selection.scenarios # <<>>
  THEN value ELSE Refused

ReviewValid(tool, analysis, review) ==
  /\ Refused \notin {ParseTool(tool), ParseAnalysis(analysis), ParseReview(review)}
  /\ AssertBoundArtifacts(tool, analysis, review)
  /\ AssertSelectionSupported(tool, analysis, review)

DraftOf(tool, analysis, candidate, proposal) ==
  [kind |-> "review", state |-> "draft", attested |-> FALSE,
   binding |-> BoundTo(tool, analysis),
   selection |->
     [candidate |-> candidate.id, proposal |-> proposal.id,
      strategy |-> proposal.strategy, template |-> proposal.template,
      identity |-> proposal.identity, optionalConfirmed |-> {},
      appKeyConfirmed |-> FALSE, mode |-> proposal.mode,
      effect |-> proposal.effect, adapter |-> proposal.adapter,
      acknowledged |-> FALSE, reconciliation |-> proposal.reconciliation,
      correlation |-> proposal.correlation, hookAcknowledged |-> FALSE,
      redaction |-> proposal.redaction \cup tool.sensitive,
      scenarios |-> proposal.scenarios]]

CreateReviewDraft(tool, analysis) ==
  IF /\ Refused \notin {ParseTool(tool), ParseAnalysis(analysis)}
     /\ tool.provenance = analysis.provenance
     /\ Cardinality(analysis.proposals) = 1
  THEN LET proposal == CHOOSE p \in analysis.proposals : TRUE
           candidate == CHOOSE c \in analysis.candidates : c.id = proposal.candidate
       IN  ParseReview(DraftOf(tool, analysis, candidate, proposal))
  ELSE Refused

Approve(tool, analysis, review) ==
  LET approved == [review EXCEPT !.state = "approved", !.attested = TRUE]
  IN  IF /\ ReviewValid(tool, analysis, review)
         /\ review.state = "draft"
         /\ ReviewValid(tool, analysis, approved)
      THEN approved ELSE Refused

RequestValid(tool, analysis, review) ==
  /\ ParseReview(review) # Refused
  /\ review.state = "approved" /\ review.attested
  /\ ReviewValid(tool, analysis, review)

(***************************************************************************)
(* What the generator refuses although it may have been approved: a schema *)
(* it cannot type, a scenario it has no test for, an identity inside an    *)
(* array.  The check of the schema does not count the elements of an array *)
(* as a level, but the rendering of its type that follows does, and throws *)
(* (a plain node renders all its fields).                                  *)
(***************************************************************************)
AssertSupportedSchema(schema) ==
  /\ \A path \in DOMAIN schema :
       Len(path) <= MaxTypeDepth /\ schema[path].feature = "plain"
  /\ Cardinality({path \in Fields(schema) : Last(path) # Items}) <= MaxProperties
  /\ NamesOf(schema) \cap UnsafeNames = {}

IdentitySegmentsValid(selection) ==
  \A path \in ToSet(selection.identity) : Items \notin ToSet(path)

ScenarioNames(scenarios) == {item.scenario : item \in ToSet(scenarios)}

ProjectOf(tool, analysis, review) ==
  LET bundle == [tool |-> tool, analysis |-> analysis, review |-> review]
      tested == ScenarioNames(review.selection.scenarios)
      proposal == CHOOSE p \in analysis.proposals : p.id = review.selection.proposal
  IN  [kind |-> "project",
       bundle |-> bundle,
       manifest |-> [source |-> review.binding.sourceDigest,
                     analysis |-> review.binding.analysisDigest,
                     review |-> Digest(review), bundle |-> Digest(bundle),
                     tested |-> tested,
                     omitted |-> ScenarioNames(proposal.scenarios) \ tested]]

GenerateGuardedToolProject(tool, analysis, review) ==
  IF /\ RequestValid(tool, analysis, review)
     /\ AssertSupportedSchema(tool.schema)
     /\ ScenarioNames(review.selection.scenarios) \subseteq SupportedScenarios
     /\ IdentitySegmentsValid(review.selection)
  THEN ProjectOf(tool, analysis, review)
  ELSE Refused
==============================================================================
