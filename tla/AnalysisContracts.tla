------------------------ MODULE AnalysisContracts ------------------------
(***************************************************************************)
(* The design-time contracts of a tool and of its risk analysis: how an    *)
(* MCP tool definition is normalized, what a model's answer must satisfy   *)
(* before it becomes an analysis, and what an analysis must satisfy to be  *)
(* parsed.                                                                 *)
(*                                                                         *)
(* A field path is a sequence of steps, a property name or Items for the   *)
(* elements of an array; <<>> is the schema itself.  A schema is a         *)
(* function from its paths to                                              *)
(*   [required, sensitive : BOOLEAN, feature : Features]                   *)
(* in which an Items step is required, so that it inherits its array's     *)
(* requirement.  Lists the code compares by content are sets; lists in     *)
(* which the code looks for duplicates are sequences of field paths.       *)
(***************************************************************************)
EXTENDS Naturals, Sequences, FiniteSets, SequencesExt

CONSTANTS
  UnsafeNames,       \* property names no artifact may use (__proto__, ...)
  AnalyzerModel      \* the model the OpenAI analyzer asks for

Items == "[]"
Refused == [kind |-> "refused"]

(***************************************************************************)
(* SHA-256 of the canonical serialization: equal exactly when the artifacts *)
(* are, and never equal to an artifact.                                    *)
(***************************************************************************)
Digest(artifact) == <<"sha256", artifact>>

NamesOf(schema) == UNION {ToSet(path) : path \in DOMAIN schema} \ {Items}
Depth(path) == Len(SelectSeq(path, LAMBDA step : step # Items))
Fields(schema) == DOMAIN schema \ {<<>>}

-----------------------------------------------------------------------------
(***************************************************************************)
(* Normalization of a definition [name, schema, object, credentials,       *)
(* hints]: object says that its root type is "object", credentials that    *)
(* some value has the shape of one, hints which of "idempotent" and        *)
(* "lookup" its annotations and description support.                       *)
(***************************************************************************)
DetectSensitivePaths(schema) ==
  {path \in Fields(schema) : schema[path].sensitive /\ Last(path) # Items}

AcceptableDefinition(definition) ==
  /\ NamesOf(definition.schema) \cap UnsafeNames = {}
  /\ definition.object
  /\ ~definition.credentials

NormalizeMcpToolDefinition(definition) ==
  IF AcceptableDefinition(definition)
  THEN [kind |-> "tool",
        provenance |-> [sourceId |-> Digest(definition), toolName |-> definition.name],
        name |-> definition.name,
        schema |-> definition.schema,
        hints |-> definition.hints,
        sensitive |-> DetectSensitivePaths(definition.schema)]
  ELSE Refused

ParseTool(value) ==
  IF value.kind = "tool" /\ value.provenance.toolName = value.name
  THEN value ELSE Refused

-----------------------------------------------------------------------------
(***************************************************************************)
(* A model's output is [risk, candidates, proposals], a candidate          *)
(* [id, operationKind, fields, toolNames] with the fields and the tool     *)
(* names its evidence refers to, a proposal [id, candidate, mode, effect,  *)
(* adapter, strategy, template, identity, reconciliation, correlation,     *)
(* redaction, scenarios] with the template's placeholders for a template.  *)
(***************************************************************************)
EvidenceSafe(tool, candidate) ==
  /\ candidate.fields \subseteq Fields(tool.schema)
  /\ candidate.toolNames \subseteq {tool.name}

ProposalSafe(tool, output, proposal) ==
  /\ proposal.candidate \in {candidate.id : candidate \in output.candidates}
  /\ ToSet(proposal.identity) \cup proposal.correlation \cup proposal.redaction
       \subseteq Fields(tool.schema)
  /\ tool.sensitive \subseteq proposal.redaction
  /\ proposal.strategy = "provider_idempotency_key" => "idempotent" \in tool.hints
  /\ proposal.reconciliation \in {"provider_lookup", "provider_idempotency_lookup"}
       => "lookup" \in tool.hints
  /\ proposal.adapter # "existing_adapter"

AssertPostResponseSafety(tool, output) ==
  /\ \A candidate \in output.candidates : EvidenceSafe(tool, candidate)
  /\ \A proposal \in output.proposals : ProposalSafe(tool, output, proposal)

(***************************************************************************)
(* The public contract of an analysis, as its schema checks it.            *)
(***************************************************************************)
IdentityWellFormed(proposal) ==
  /\ proposal.strategy = "field_template" => proposal.template # {}
  /\ proposal.strategy # "application_supplied" => proposal.identity # <<>>

UniqueIds(items) == Cardinality({item.id : item \in items}) = Cardinality(items)

AnalysisWellFormed(analysis) ==
  /\ analysis.kind = "analysis"
  /\ UniqueIds(analysis.candidates) /\ UniqueIds(analysis.proposals)
  /\ \A item \in analysis.candidates \cup analysis.proposals :
       item.provenance = analysis.provenance
  /\ \A proposal \in analysis.proposals :
       /\ proposal.candidate \in {candidate.id : candidate \in analysis.candidates}
       /\ IdentityWellFormed(proposal)
       /\ proposal.scenarios # <<>>
  /\ analysis.risk = "none" => analysis.candidates = {} /\ analysis.proposals = {}

ParseAnalysis(value) ==
  IF value.kind = "analysis" /\ AnalysisWellFormed(value) THEN value ELSE Refused

With(item, provenance) ==
  [key \in DOMAIN item \cup {"provenance"} |->
     IF key = "provenance" THEN provenance ELSE item[key]]

AttachTrustedEnvelope(tool, output) ==
  ParseAnalysis([kind |-> "analysis", status |-> "recommendation_only",
                 provenance |-> tool.provenance, analyzer |-> "openai.gpt-5.6",
                 risk |-> output.risk,
                 candidates |-> {With(item, tool.provenance) : item \in output.candidates},
                 proposals |-> {With(item, tool.provenance) : item \in output.proposals}])

(***************************************************************************)
(* The transport classifies a failed request by its HTTP status or its     *)
(* connection error, and the analyzer refuses every answer that is not one *)
(* completed, parsed and safe output of the model it asked.  A response is *)
(* [kind : "error" | "refusal" | "incomplete" | "completed", ...].         *)
(***************************************************************************)
ClassifyOpenAIError(failure) ==
  CASE failure = "401"            -> "authentication_failed"
    [] failure \in {"403", "404"} -> "model_access_denied"
    [] failure = "429"            -> "rate_limited"
    [] failure = "timeout"        -> "timeout"
    [] failure = "connection"     -> "network_failure"
    [] OTHER                      -> "service_failure"

AnswerErrorCode(tool, response) ==
  CASE response.model # AnalyzerModel -> "model_identity_mismatch"
    [] OTHER ->
         CASE response.kind = "refusal"    -> "refusal"
           [] response.kind = "incomplete" -> "incomplete_output"
           [] response.kind = "completed"  ->
                IF AssertPostResponseSafety(tool, response.output)
                THEN "none" ELSE "unsupported_capability"

AnalyzerErrorCode(tool, response) ==
  IF response.kind = "error"
  THEN ClassifyOpenAIError(response.failure)
  ELSE AnswerErrorCode(tool, response)

Analyze(tool, response) ==
  IF AnalyzerErrorCode(tool, response) = "none"
  THEN AttachTrustedEnvelope(tool, response.output)
  ELSE Refused

RunToolRiskAnalyzer(toolValue, response) ==
  LET tool == ParseTool(toolValue)
  IN  IF tool = Refused THEN Refused
      ELSE LET result == Analyze(tool, response)
           IN  IF result # Refused /\ result.provenance = tool.provenance
               THEN result ELSE Refused
==============================================================================
