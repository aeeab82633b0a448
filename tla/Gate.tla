--------------------------------- MODULE Gate ---------------------------------
(***************************************************************************)
(* The deterministic decision overlay: the model only proposes, and the    *)
(* final decision is computed from the facts of the run.  A record of      *)
(* facts stands for the channels of the graph state the overlay reads:     *)
(* case, evidence, capabilities, whether the budget is exceeded, and the   *)
(* degraded flag.                                                          *)
(***************************************************************************)
EXTENDS Measurement

Proposals == {"PASS", "REJECT", "HUMAN_REVIEW"}
NoProposal == "NO_PROPOSAL"

OverrideCodes ==
  {"R1_HARD_RULE", "R2_REJECT_GATE_FAIL", "R3_BUDGET_EXHAUSTED",
   "R3_MEASUREMENT_MISSING", "R3_DIMENSION_UNMEASURABLE",
   "R3_POSITIVE_INSUFFICIENT", "R4_PASS_GATE_FAIL",
   "R5_DEGRADED_OR_FAILED_STEP"}

(* _build_decision; risk level, risk type and hypothesis trace are display *)
(* fields that no later step reads.                                        *)
BuildDecision(evs, outcome, overrides) ==
  [ decision  |-> outcome,
    overrides |-> overrides,
    evidence  |-> evs,
    policy    |-> {e.policy : e \in {x \in evs : x.type = "POLICY_REF"}} ]

NoDecision == BuildDecision({}, "NONE", {})

MissingIn(f) == MissingDimensions(f.evidence, f.capabilities)
UnmeasurableIn(f) == UnmeasurableDimensions(f.evidence, f.capabilities)

RulePositive(c) == RuleHits(c) \cap {"R-102", "R-302"} # {}

(* A mistaken PassGate: complete coverage is taken for a clean result. *)
PassGateCoverageOnly(f) == MissingIn(f) = {} /\ UnmeasurableIn(f) = {}

PassGate(f) ==
  /\ PositiveDimensions(f.evidence) = {}
  /\ ~RulePositive(f.case)
  /\ MissingIn(f) = {}
  /\ UnmeasurableIn(f) = {}

(* A mistaken RejectGate: any citation authorises a rejection. *)
RejectGateCitationOnly(f) == HasCitableEvidence(f.evidence)

RejectGate(f) ==
  /\ "R-302" \in RuleHits(f.case)
  /\ HasCitableEvidence(f.evidence)

(* Mistakes in AbstentionCodes: gaps left to the gates; the flag not read. *)
AbstainOnImpairmentOnly(f) ==
  (IF f.exhausted THEN {"R3_BUDGET_EXHAUSTED"} ELSE {})
    \cup (IF f.degraded THEN {"R5_DEGRADED_OR_FAILED_STEP"} ELSE {})

AbstainWithoutDegraded(f) ==
  (IF f.exhausted THEN {"R3_BUDGET_EXHAUSTED"} ELSE {})
    \cup (IF MissingIn(f) # {} THEN {"R3_MEASUREMENT_MISSING"} ELSE {})
    \cup (IF UnmeasurableIn(f) # {} THEN {"R3_DIMENSION_UNMEASURABLE"} ELSE {})

AbstentionCodes(f) ==
  (IF f.exhausted THEN {"R3_BUDGET_EXHAUSTED"} ELSE {})
    \cup (IF MissingIn(f) # {} THEN {"R3_MEASUREMENT_MISSING"} ELSE {})
    \cup (IF UnmeasurableIn(f) # {} THEN {"R3_DIMENSION_UNMEASURABLE"} ELSE {})
    \cup (IF f.degraded THEN {"R5_DEGRADED_OR_FAILED_STEP"} ELSE {})

(* _policy_citation: a POLICY_REF whose ref_id is the policy itself. *)
PolicyCitation(policy) == PlainEvidence("POLICY_REF", RuleEngine, policy, policy)

(* A mistaken EvasionCitations: the rejection cites what was searched only. *)
NoEvasionCitations(f) == {}

EvasionCitations(f) ==
  IF "R-302" \in RuleHits(f.case)
  THEN {PolicyCitation("POLICY_1.2")}
         \cup (IF "merchant_profile" \in PositiveDimensions(f.evidence)
               THEN {PolicyCitation("POLICY_4.5")} ELSE {})
  ELSE {}

HardRuleReject(f) ==
  BuildDecision(
    MergeEvidence(f.evidence, {PolicyCitation("POLICY_1.1")} \cup EvasionCitations(f)),
    "REJECT", {"R1_HARD_RULE"})

(* A mistaken HumanReview: the probe's label, which no reader of a decision knows. *)
HumanReviewProbeLabel(f, codes) == BuildDecision(f.evidence, "HUMAN", codes)

HumanReview(f, codes) == BuildDecision(f.evidence, "HUMAN_REVIEW", codes)

RejectGateFailCodes(f) ==
  {"R2_REJECT_GATE_FAIL"}
    \cup (IF PositiveDimensions(f.evidence) # {} THEN {"R3_POSITIVE_INSUFFICIENT"} ELSE {})

(* Abstention codes, or the fallback code when there is no proposal either. *)
OverlayCodes(f, proposal) ==
  IF proposal = NoProposal /\ AbstentionCodes(f) = {}
  THEN {"R5_DEGRADED_OR_FAILED_STEP"}
  ELSE AbstentionCodes(f)

(* Adopting a REJECT adds the evasion clauses as its citations. *)
AdoptProposal(f, proposal) ==
  IF proposal = "REJECT"
  THEN BuildDecision(MergeEvidence(f.evidence, EvasionCitations(f)), "REJECT", {})
  ELSE BuildDecision(f.evidence, proposal, {})

(* A mistaken DecisionOverlay: a proposal that passes its gate is adopted   *)
(* before the abstention list is consulted.                                *)
AdoptBeforeAbstaining(f, proposal) ==
  IF HardRuleHit(f.case) THEN HardRuleReject(f)
  ELSE IF (proposal = "PASS" /\ PassGate(f)) \/ (proposal = "REJECT" /\ RejectGate(f))
       THEN AdoptProposal(f, proposal)
  ELSE HumanReview(f, OverlayCodes(f, proposal))

(* run_decision_overlay: hard rule, abstention, gates, adoption, in order. *)
DecisionOverlay(f, proposal) ==
  IF HardRuleHit(f.case) THEN HardRuleReject(f)
  ELSE IF OverlayCodes(f, proposal) # {} THEN HumanReview(f, OverlayCodes(f, proposal))
  ELSE IF proposal = "PASS" /\ ~PassGate(f) THEN HumanReview(f, {"R4_PASS_GATE_FAIL"})
  ELSE IF proposal = "REJECT" /\ ~RejectGate(f) THEN HumanReview(f, RejectGateFailCodes(f))
  ELSE AdoptProposal(f, proposal)

(* gate_probe: the conclusion the facts alone would allow, for the audit trail. *)
GateProbe(f) ==
  IF HardRuleHit(f.case) THEN "REJECT"
  ELSE IF AbstentionCodes(f) # {} THEN "HUMAN"
  ELSE IF PassGate(f) THEN "PASS"
  ELSE IF RejectGate(f) THEN "REJECT"
  ELSE "UNDECIDED"

==============================================================================
