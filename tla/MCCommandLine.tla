-------------------------- MODULE MCCommandLine --------------------------
(***************************************************************************)
(* An instance of CommandLine for TLC: a refund tool, a changed version of *)
(* it and one the normalizer rejects; the answers a model may give for it; *)
(* and edits of the draft, right and wrong.                                *)
(***************************************************************************)
EXTENDS CommandLine

CONSTANTS t1, t2

order == <<"orderId">>
note == <<"note">>
card == <<"card">>
items == <<"items">>
itemId == <<"items", Items, "id">>

Node(required, sensitive) ==
  [required |-> required, sensitive |-> sensitive, feature |-> "plain"]

RefundSchema ==
  (<<>> :> Node(TRUE, FALSE)) @@ (order :> Node(TRUE, FALSE))
  @@ (note :> Node(FALSE, FALSE)) @@ (card :> Node(FALSE, TRUE))
  @@ (items :> Node(TRUE, FALSE)) @@ (<<"items", Items>> :> Node(TRUE, FALSE))
  @@ (itemId :> Node(TRUE, FALSE))

RefundTool ==
  [kind |-> "definition", name |-> "refund", schema |-> RefundSchema, object |-> TRUE,
   credentials |-> FALSE, hints |-> {"lookup"}]

ChangedTool == [RefundTool EXCEPT !.schema[order].required = FALSE,
                                  !.schema[note].sensitive = TRUE]
RejectedTool == [RefundTool EXCEPT !.credentials = TRUE]

RefundProposal ==
  [id |-> "p1", candidate |-> "c1", mode |-> "shadow", effect |-> "irreversible_write",
   adapter |-> "application_hook", strategy |-> "field_template", template |-> {order},
   identity |-> <<order>>, reconciliation |-> "provider_lookup",
   correlation |-> {order}, redaction |-> {card},
   scenarios |-> <<[scenario |-> "duplicate_invocation", handling |-> "suppress_duplicate"],
                   [scenario |-> "storage_unavailable", handling |-> "fail_closed"]>>]

RefundOutput ==
  [risk |-> "high",
   candidates |-> {[id |-> "c1", operationKind |-> "external_write",
                    fields |-> {order}, toolNames |-> {"refund"}]},
   proposals |-> {RefundProposal}]

Answer(output) == [kind |-> "completed", model |-> AnalyzerModel, output |-> output]

TwoDefinitions == {RefundTool, ChangedTool, RejectedTool}

FourResponses ==
  {Answer(RefundOutput),
   Answer([RefundOutput EXCEPT !.proposals = {[RefundProposal EXCEPT !.redaction = {}]}]),
   [kind |-> "completed", model |-> "another", output |-> RefundOutput],
   [kind |-> "refusal", model |-> AnalyzerModel],
   [kind |-> "error", failure |-> "429"]}

Acknowledge == [acknowledged |-> TRUE, hookAcknowledged |-> TRUE,
                scenarios |-> <<RefundProposal.scenarios[1]>>]

DraftEdits ==
  {Acknowledge,
   Acknowledge @@ [optionalConfirmed |-> {order}],
   [acknowledged |-> TRUE, hookAcknowledged |-> TRUE],
   Acknowledge @@ [redaction |-> {card, order}]}

TerminalSymmetry == Permutations(Terminals)
==============================================================================
