------------------------- MODULE InvestigationDecisions -------------------------
(***************************************************************************)
(* Proofs about the decision a run ends with, for every set of cases,      *)
(* tools and calls and every budget: it is what the overlay computes from  *)
(* the facts of the run, and the audit trail justifies it.                 *)
(***************************************************************************)
EXTENDS InvestigationAudit, InvestigationRefinement

------------------------------------------------------------------------------
(* The two codings of the decision rules *)

(* The overlay passes only what is complete and clean. *)
LEMMA OverlayPasses ==
  ASSUME NEW f, NEW proposal \in Proposals \cup {NoProposal},
         DecisionOverlay(f, proposal).decision = "PASS"
  PROVE  ~HardRuleHit(f.case) /\ AbstentionCodes(f) = {} /\ PassGate(f)
BY DEF DecisionOverlay, OverlayCodes, HardRuleReject, HumanReview, AdoptProposal,
   BuildDecision, Proposals, NoProposal

(* The overlay rejects by the hard rule, or what is complete and evades. *)
LEMMA OverlayRejects ==
  ASSUME NEW f, NEW proposal \in Proposals \cup {NoProposal},
         DecisionOverlay(f, proposal).decision = "REJECT"
  PROVE  \/ HardRuleHit(f.case) /\ DecisionOverlay(f, proposal) = HardRuleReject(f)
         \/ /\ ~HardRuleHit(f.case) /\ AbstentionCodes(f) = {} /\ RejectGate(f)
            /\ DecisionOverlay(f, proposal) = AdoptProposal(f, "REJECT")
<1>1. CASE HardRuleHit(f.case)
  BY <1>1 DEF DecisionOverlay
<1>2. CASE ~HardRuleHit(f.case)
  BY <1>2
  DEF DecisionOverlay, OverlayCodes, HumanReview, AdoptProposal, BuildDecision, Proposals,
      NoProposal
<1> QED
  BY <1>1, <1>2

(* What passes the REJECT gate does not pass the PASS gate. *)
LEMMA GatesExclude ==
  ASSUME NEW f, RejectGate(f)
  PROVE  ~PassGate(f)
BY DEF RejectGate, PassGate, RulePositive

(* The overlay never concludes what the probe rules out, hands over where  *)
(* it finds nothing authorised, and adopts what it shows when proposed.    *)
LEMMA OverlayAgreesWithProbe ==
  ASSUME NEW f, NEW proposal \in Proposals \cup {NoProposal}
  PROVE  LET d == DecisionOverlay(f, proposal).decision
         IN  /\ d = "PASS" => GateProbe(f) = "PASS"
             /\ d = "REJECT" => GateProbe(f) = "REJECT"
             /\ GateProbe(f) \in {"HUMAN", "UNDECIDED"} => d = "HUMAN_REVIEW"
             /\ GateProbe(f) \in {"PASS", "REJECT"} =>
                  DecisionOverlay(f, GateProbe(f)).decision = GateProbe(f)
<1>1. DecisionOverlay(f, proposal).decision = "PASS" => GateProbe(f) = "PASS"
  BY OverlayPasses DEF GateProbe
<1>2. DecisionOverlay(f, proposal).decision = "REJECT" => GateProbe(f) = "REJECT"
  BY OverlayRejects, GatesExclude DEF GateProbe
<1>3. DecisionOverlay(f, proposal).decision \in {"PASS", "REJECT", "HUMAN_REVIEW"}
  BY DEF DecisionOverlay, HardRuleReject, HumanReview, AdoptProposal, BuildDecision, Proposals,
     OverlayCodes
<1>4. GateProbe(f) = "PASS" => DecisionOverlay(f, "PASS").decision = "PASS"
  <2> SUFFICES ASSUME GateProbe(f) = "PASS" PROVE DecisionOverlay(f, "PASS").decision = "PASS"
    OBVIOUS
  <2>1. ~HardRuleHit(f.case) /\ AbstentionCodes(f) = {} /\ PassGate(f)
    BY DEF GateProbe
  <2>2. OverlayCodes(f, "PASS") = {}
    BY <2>1 DEF OverlayCodes, NoProposal
  <2> QED
    BY <2>1, <2>2 DEF DecisionOverlay, AdoptProposal, BuildDecision
<1>5. GateProbe(f) = "REJECT" => DecisionOverlay(f, "REJECT").decision = "REJECT"
  <2> SUFFICES ASSUME GateProbe(f) = "REJECT" PROVE DecisionOverlay(f, "REJECT").decision = "REJECT"
    OBVIOUS
  <2>1. CASE HardRuleHit(f.case)
    BY <2>1 DEF DecisionOverlay, HardRuleReject, BuildDecision
  <2>2. CASE ~HardRuleHit(f.case)
    <3>1. AbstentionCodes(f) = {} /\ RejectGate(f)
      BY <2>2 DEF GateProbe
    <3>2. OverlayCodes(f, "REJECT") = {}
      BY <3>1 DEF OverlayCodes, NoProposal
    <3> QED
      BY <2>2, <3>1, <3>2 DEF DecisionOverlay, AdoptProposal, BuildDecision
  <2> QED
    BY <2>1, <2>2
<1> QED
  BY <1>1, <1>2, <1>3, <1>4, <1>5

------------------------------------------------------------------------------
(* A decision and the facts it rests on *)

(* A decided run holds what the overlay computes, for some proposal, from  *)
(* the facts the run ends with.                                            *)
DecisionInv ==
  Decided => \E proposal \in Proposals \cup {NoProposal} :
               decision = DecisionOverlay(FinalFacts, proposal)

(* Every step keeps DecisionInv: the degraded flag the overlay reads, which*)
(* the decide node clears, is the memory of a failed step.                 *)
LEMMA DecisionStep == TypeOK /\ ControlInv /\ DecisionInv /\ [Next]_vars => DecisionInv'
<1> SUFFICES ASSUME TypeOK, ControlInv, DecisionInv, [Next]_vars, pc' = "done"
             PROVE  \E proposal \in Proposals \cup {NoProposal} :
                      decision' = DecisionOverlay(FinalFacts', proposal)
  BY DEF DecisionInv, Decided
<1>1. failures' = failures => StepFailed' = StepFailed
  BY DEF StepFailed
<1>2. pc = "decide" => degraded = StepFailed
  BY DEF ControlInv, TypeOK, StepFailed
<1>3. CASE DecideUnassisted
  <2>1. /\ UNCHANGED <<case, capabilities, evidence, llm_calls, tool_calls>>
        /\ StepFailed' = degraded
        /\ decision' = DecisionOverlay(FactsOf(evidence, llm_calls, tool_calls, degraded),
                                       NoProposal)
    BY <1>1, <1>2, <1>3 DEF DecideUnassisted
  <2>2. FinalFacts' = FactsOf(evidence, llm_calls, tool_calls, degraded)
    BY <2>1 DEF FinalFacts, FactsOf
  <2> QED
    BY <2>1, <2>2
<1>4. CASE DecideFailed
  <2>1. StepFailed'
    BY <1>4, CriticalFailureRecorded DEF DecideFailed, LLMSteps
  <2>2. StepFailed' = TRUE
    BY <2>1 DEF StepFailed
  <2>3. /\ UNCHANGED <<case, capabilities, evidence, tool_calls>>
        /\ decision' = DecisionOverlay(FactsOf(evidence, llm_calls', tool_calls, TRUE),
                                       NoProposal)
    BY <1>4 DEF DecideFailed
  <2>4. FinalFacts' = FactsOf(evidence, llm_calls', tool_calls, TRUE)
    BY <2>2, <2>3 DEF FinalFacts, FactsOf
  <2> QED
    BY <2>3, <2>4
<1>5. CASE DecideProposed
  <2>1. PICK proposal \in Proposals :
          decision' = DecisionOverlay(FactsOf(evidence, llm_calls', tool_calls, degraded),
                                      proposal)
    BY <1>5 DEF DecideProposed
  <2>2. /\ UNCHANGED <<case, capabilities, evidence, tool_calls>>
        /\ StepFailed' = degraded
    BY <1>1, <1>2, <1>5 DEF DecideProposed
  <2>3. FinalFacts' = FactsOf(evidence, llm_calls', tool_calls, degraded)
    BY <2>2 DEF FinalFacts, FactsOf
  <2> QED
    BY <2>1, <2>3
<1>6. CASE UNCHANGED vars
  <2>1. /\ UNCHANGED <<pc, decision, case, capabilities, evidence, llm_calls, tool_calls>>
        /\ StepFailed' = StepFailed
    BY <1>1, <1>6 DEF vars, channels
  <2>2. FinalFacts' = FinalFacts
    BY <2>1 DEF FinalFacts, FactsOf
  <2> QED
    BY <2>1, <2>2 DEF DecisionInv, Decided
<1>7. ~(Hypothesize \/ PlanSkipped \/ PlanFailed \/ PlanAccepted \/ CallRejected \/ CallFailed
        \/ CallSucceeded \/ CallRaised \/ ToolsReturn \/ ReevaluateSkipped \/ Reevaluate)
  BY DEF Hypothesize, PlanSkipped, PlanFailed, PlanAccepted, CallRejected, CallFailed,
     CallSucceeded, CallRaised, ToolsReturn, ReevaluateSkipped, Reevaluate, RouteAfterPlan,
     RouteAfterReevaluate
<1> QED
  BY <1>3, <1>4, <1>5, <1>6, <1>7 DEF Next

(* Every decided run holds a decision of the overlay about its facts. *)
THEOREM DecisionCorrect == Spec => []DecisionInv
<1>1. Init => DecisionInv
  BY DEF Init, DecisionInv, Decided
<1> QED
  BY <1>1, DecisionStep, ControlCorrect, PTL DEF Spec

(* Over the facts of the decision, the overlay never concludes what the    *)
(* probe rules out, hands over where it finds nothing authorised, and      *)
(* would adopt the verdict it shows, in every run.                         *)
THEOREM ProbeCorrect == Spec => []ProbeAgrees
<1>1. DecisionInv => ProbeAgrees
  BY OverlayAgreesWithProbe DEF DecisionInv, ProbeAgrees, Decided
<1> QED
  BY <1>1, DecisionCorrect, PTL

------------------------------------------------------------------------------
(* Justification *)

(* Facts that call for no abstention come from a run with budget left, no  *)
(* failed step and both lookups on the trail.                              *)
LEMMA NoAbstentionMeansAudited ==
  ASSUME TypeOK, ProvenanceInv, AbstentionCodes(FinalFacts) = {}
  PROVE  /\ \A t \in {"ProductTool", "MerchantTool"} :
              \E i \in Successes(tool_call_history) : tool_call_history[i].call.tool = t
         /\ ~StepFailed
         /\ llm_calls < MaxLLMCalls /\ tool_calls < MaxToolCalls
<1>1. /\ ~FinalFacts.exhausted /\ ~FinalFacts.degraded
      /\ MissingIn(FinalFacts) = {} /\ UnmeasurableIn(FinalFacts) = {}
  BY DEF AbstentionCodes
<1>2. ~StepFailed /\ ~BudgetExceeded(llm_calls, tool_calls) /\ FinalFacts.evidence = evidence
  BY <1>1 DEF FinalFacts, FactsOf
<1>3. llm_calls < MaxLLMCalls /\ tool_calls < MaxToolCalls
  BY <1>2, LimitsAssumption DEF BudgetExceeded, TypeOK
<1>4. RequiredDimensions(evidence) \subseteq CoveredDimensions(evidence)
  BY <1>1, <1>2, NoGapsMeansMeasured, SameReading DEF Promise!FullyMeasured
<1>5. ASSUME NEW d \in {"listing_registry", "merchant_profile"}
      PROVE  \E m \in Measurements(evidence) : m.dim = d
  BY <1>4 DEF RequiredDimensions, CoveredDimensions
<1>6. ASSUME NEW m \in Measurements(evidence), m.source # RuleEngine
      PROVE  \E i \in Successes(tool_call_history) : tool_call_history[i].call.tool = m.source
  <2>1. m \in evidence \ RuleHitMeasurement(case)
    BY <1>6 DEF Measurements, RuleHitMeasurement, MeasurementOf
  <2>2. PICK i \in DOMAIN tool_call_history : m \in tool_call_history[i].added
    BY <2>1 DEF ProvenanceInv, AuditedBy
  <2>3. m.source = tool_call_history[i].call.tool /\ tool_call_history[i].status = "ok"
    BY <2>2 DEF ProvenanceInv, AuditedBy, Answers
  <2> QED
    BY <2>2, <2>3 DEF Successes
<1>7. \A m \in Measurements(evidence) :
        /\ m.dim = "listing_registry" => m.source = "ProductTool"
        /\ m.dim = "merchant_profile" => m.source = "MerchantTool"
  BY DEF ProvenanceInv, MeasuredBySource, Measurements, WorkingEvidence, RuleEngine
<1>8. \A t \in {"ProductTool", "MerchantTool"} :
        \E i \in Successes(tool_call_history) : tool_call_history[i].call.tool = t
  BY <1>5, <1>6, <1>7 DEF RuleEngine
<1> QED
  BY <1>2, <1>3, <1>8

(* A released case was measured clean. *)
LEMMA PassIsJustified == TypeOK /\ ProvenanceInv /\ DecisionInv => PassJustified
<1> SUFFICES ASSUME TypeOK, ProvenanceInv, DecisionInv, Decided, decision.decision = "PASS"
             PROVE  /\ \A t \in {"ProductTool", "MerchantTool"} :
                         \E i \in Successes(tool_call_history) :
                           tool_call_history[i].call.tool = t
                    /\ \A m \in Measurements(evidence) : m.verdict = "NEGATIVE"
                    /\ RuleHits(case) \subseteq {"R-301"}
                    /\ ~StepFailed
                    /\ llm_calls < MaxLLMCalls /\ tool_calls < MaxToolCalls
  BY DEF PassJustified
<1>1. ~HardRuleHit(FinalFacts.case) /\ AbstentionCodes(FinalFacts) = {} /\ PassGate(FinalFacts)
  BY OverlayPasses DEF DecisionInv
<1>2. FinalFacts.case = case /\ FinalFacts.evidence = evidence
  BY DEF FinalFacts, FactsOf
<1>3. PositiveDimensions(evidence) = {} /\ ~RulePositive(case) /\ ~HardRuleHit(case)
  BY <1>1, <1>2 DEF PassGate
<1>4. \A m \in Measurements(evidence) : m.verdict = "NEGATIVE"
  BY <1>3
  DEF PositiveDimensions, ProvenanceInv, MeasuredBySource, Measurements, WorkingEvidence, Verdicts
<1>5. RuleHits(case) \subseteq {"R-301"}
  BY <1>3 DEF RulePositive, HardRuleHit, RuleHits, RuleIds, RuleMatches
<1> QED
  BY <1>1, <1>4, <1>5, NoAbstentionMeansAudited

(* A rejection rests on the blacklist, or on an evasion term, complete     *)
(* measurements and an audited citation.                                   *)
LEMMA RejectIsJustified ==
  TypeOK /\ EvidenceInv /\ ProvenanceInv /\ DecisionInv => RejectJustified
<1> SUFFICES ASSUME TypeOK, EvidenceInv, ProvenanceInv, DecisionInv, Decided,
                    decision.decision = "REJECT"
             PROVE  RejectJustified
  BY DEF RejectJustified
<1>1. FinalFacts.case = case /\ FinalFacts.evidence = evidence
  BY DEF FinalFacts, FactsOf
<1>2. RulesOnlyMeasure(evidence)
  BY DEF EvidenceInv, RulesOnlyMeasure, WorkingEvidence
<1>3. \/ HardRuleHit(case) /\ decision = HardRuleReject(FinalFacts)
      \/ /\ ~HardRuleHit(case) /\ AbstentionCodes(FinalFacts) = {} /\ RejectGate(FinalFacts)
         /\ decision = AdoptProposal(FinalFacts, "REJECT")
  BY <1>1, OverlayRejects DEF DecisionInv
<1>4. CASE HardRuleHit(case) /\ decision = HardRuleReject(FinalFacts)
  <2>1. "POLICY_1.1" \in decision.policy
    BY <1>1, <1>2, <1>4, CitationReachesPolicy DEF HardRuleReject
  <2> QED
    BY <1>4, <2>1 DEF HardRuleHit, RejectJustified
<1>5. CASE /\ ~HardRuleHit(case) /\ AbstentionCodes(FinalFacts) = {} /\ RejectGate(FinalFacts)
           /\ decision = AdoptProposal(FinalFacts, "REJECT")
  <2>1. "R-302" \in RuleHits(case) /\ HasCitableEvidence(evidence)
    BY <1>1, <1>5 DEF RejectGate
  <2>2. case.evasionTerm
    BY <2>1 DEF RuleHits, RuleMatches
  <2>3. decision = BuildDecision(MergeEvidence(evidence, EvasionCitations(FinalFacts)),
                                 "REJECT", {})
    BY <1>1, <1>5 DEF AdoptProposal
  <2>4. /\ PolicyCitation("POLICY_1.2") \in EvasionCitations(FinalFacts)
        /\ "merchant_profile" \in PositiveDimensions(evidence)
             => PolicyCitation("POLICY_4.5") \in EvasionCitations(FinalFacts)
    BY <1>1, <2>1 DEF EvasionCitations
  <2>5. /\ "POLICY_1.2" \in decision.policy
        /\ "merchant_profile" \in PositiveDimensions(evidence)
             => "POLICY_4.5" \in decision.policy
    BY <1>2, <2>3, <2>4, CitationReachesPolicy
  <2>6. \E i \in Successes(tool_call_history) : HasCitableEvidence(tool_call_history[i].added)
    <3>1. PICK e \in evidence : e.type \in {"CASE_PRECEDENT", "POLICY_REF"}
      BY <2>1 DEF HasCitableEvidence
    <3>2. e \notin RuleHitMeasurement(case)
      BY <3>1 DEF RuleHitMeasurement, MeasurementOf
    <3>3. PICK i \in DOMAIN tool_call_history : e \in tool_call_history[i].added
      BY <3>2 DEF ProvenanceInv, AuditedBy
    <3>4. tool_call_history[i].status = "ok"
      BY <3>3 DEF ProvenanceInv, AuditedBy
    <3> QED
      BY <3>1, <3>3, <3>4 DEF Successes, HasCitableEvidence
  <2>7. /\ \A t \in {"ProductTool", "MerchantTool"} :
             \E i \in Successes(tool_call_history) : tool_call_history[i].call.tool = t
        /\ ~StepFailed
    BY <1>5, NoAbstentionMeansAudited
  <2> QED
    BY <2>2, <2>5, <2>6, <2>7 DEF RejectJustified
<1> QED
  BY <1>3, <1>4, <1>5

(* Every released case has audited lookups of product and merchant, no     *)
(* positive measurement, no term hit, no failed step and budget left, in   *)
(* every run.                                                              *)
THEOREM PassCorrect == Spec => []PassJustified
BY PassIsJustified, ProvenanceInvariant, DecisionCorrect, PTL

(* Every rejection cites the rule that authorises it: the blacklist, or    *)
(* the case's own evasion term after audited lookups and an audited call   *)
(* that added a precedent or a policy, in every run.                       *)
THEOREM RejectCorrect == Spec => []RejectJustified
BY RejectIsJustified, ProvenanceInvariant, DecisionCorrect, PTL

==============================================================================
