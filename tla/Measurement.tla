----------------------------- MODULE Measurement -----------------------------
(***************************************************************************)
(* Evidence and measurement coverage: what a dimension being "measured"    *)
(* means, which dimensions a case requires, and which of them are missing  *)
(* or cannot be measured by the assembled tools.                           *)
(*                                                                         *)
(* Evidence lists are modelled as sets: no reader of the evidence channel  *)
(* that is modelled here depends on its order, and the merge key makes the *)
(* members of a list distinct.                                             *)
(***************************************************************************)
EXTENDS Screening

CONSTANTS
  Precedents,  \* case_id of the precedents the case index can return
  Clauses,     \* clause_id of the clauses the policy index can return
  PolicyOf     \* policy_id of a clause

Dimensions ==
  {"listing_registry", "merchant_profile", "text_compliance", "policy_citation"}

Verdicts == {"POSITIVE", "NEGATIVE"}

ToolNames == {"ProductTool", "MerchantTool", "CaseSearchTool", "PolicySearchTool"}

RuleEngine == "ScreeningRuleEngine"

None == "none"

ScreeningPolicies == {"POLICY_1.1", "POLICY_1.2", "POLICY_4.5"}

(* The object a product or merchant lookup is about: the case's own product *)
(* or merchant, or any other one.                                           *)
Subjects == {"own", "other"}

Policies == {PolicyOf[cl] : cl \in Clauses} \cup ScreeningPolicies

Evidence ==
  [ type    : {"PRODUCT_FACT", "MERCHANT_HISTORY", "MEASUREMENT",
               "CASE_PRECEDENT", "POLICY_REF"},
    source  : ToolNames \cup {RuleEngine},
    ref     : Subjects \cup Precedents \cup Clauses \cup ScreeningPolicies,
    dim     : Dimensions \cup {None},
    verdict : Verdicts \cup {None},
    policy  : Policies \cup {None} ]

(* make_measurement; its ref_id is the pair (dimension, source_ref), which *)
(* EvidenceKey rebuilds from the two fields.                               *)
MeasurementOf(dim, source, ref, verdict) ==
  [ type |-> "MEASUREMENT", source |-> source, ref |-> ref,
    dim |-> dim, verdict |-> verdict, policy |-> None ]

PlainEvidence(type, source, ref, policy) ==
  [ type |-> type, source |-> source, ref |-> ref,
    dim |-> None, verdict |-> None, policy |-> policy ]

(* _evidence_key: (type, source, ref_id). *)
EvidenceKey(e) == <<e.type, e.source, e.dim, e.ref>>

(* Mistakes in NewEvidence: no comparison; or of the whole, not of the key. *)
EveryAnswerIsNew(held, evs) == evs
DifferentAnswerIsNew(held, evs) == evs \ held

(* The evidence whose key is not held yet. *)
NewEvidence(held, evs) ==
  {e \in evs : \A x \in held : EvidenceKey(x) # EvidenceKey(e)}

(* merge_evidence: evidence already held wins over new evidence with its key. *)
MergeEvidence(left, right) == left \cup NewEvidence(left, right)

HasCitableEvidence(evs) ==
  \E e \in evs : e.type \in {"CASE_PRECEDENT", "POLICY_REF"}

Measurements(evs) == {e \in evs : e.type = "MEASUREMENT"}

PositiveDimensions(evs) ==
  {e.dim : e \in {m \in Measurements(evs) : m.verdict = "POSITIVE"}}

RequiredDimensions(evs) ==
  {"listing_registry", "merchant_profile", "text_compliance"}
    \cup (IF PositiveDimensions(evs) # {} THEN {"policy_citation"} ELSE {})

CoveredDimensions(evs) ==
  {"text_compliance"}
    \cup {e.dim : e \in Measurements(evs)}
    \cup (IF HasCitableEvidence(evs) THEN {"policy_citation"} ELSE {})

(* coverage_report: required and not covered, split by whether the         *)
(* environment could have measured it.                                     *)
MissingDimensions(evs, caps) ==
  {d \in RequiredDimensions(evs) \ CoveredDimensions(evs) : caps[d]}

UnmeasurableDimensions(evs, caps) ==
  {d \in RequiredDimensions(evs) \ CoveredDimensions(evs) : ~caps[d]}

(* capabilities_from_tools, from the names of the assembled tools. *)
CapabilitiesFromTools(tools) ==
  [ d \in Dimensions |->
      \/ d = "text_compliance"
      \/ d = "listing_registry" /\ "ProductTool" \in tools
      \/ d = "merchant_profile" /\ "MerchantTool" \in tools
      \/ d = "policy_citation" /\ tools \cap {"CaseSearchTool", "PolicySearchTool"} # {} ]

(* coverage_report's reading of a channel nobody has written yet. *)
UnknownCapabilities == [d \in Dimensions |-> TRUE]

(* rule_hit_measurement: a brand or evasion term in the text is a positive *)
(* text measurement.                                                       *)
RuleHitMeasurement(c) ==
  IF RuleHits(c) \cap {"R-102", "R-302"} # {}
  THEN {MeasurementOf("text_compliance", RuleEngine, "own", "POSITIVE")}
  ELSE {}

==============================================================================
