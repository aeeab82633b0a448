-------------------------- MODULE InvestigationRefinement --------------------------
(***************************************************************************)
(* Proof that every run of the investigation graph is an adjudication:     *)
(* the initial states correspond, and every step is a step of Adjudication *)
(* or leaves it unchanged.                                                 *)
(***************************************************************************)
EXTENDS InvestigationProofs

(* A citation the rule layer adds to a decision reaches its policies. *)
LEMMA CitationReachesPolicy ==
  ASSUME NEW evs, RulesOnlyMeasure(evs), NEW cited, NEW policy,
         PolicyCitation(policy) \in cited, NEW outcome, NEW codes
  PROVE  policy \in BuildDecision(MergeEvidence(evs, cited), outcome, codes).policy
<1> DEFINE cite == PolicyCitation(policy)
<1>1. cite.type = "POLICY_REF" /\ cite.source = RuleEngine /\ cite.policy = policy
  BY DEF PolicyCitation, PlainEvidence
<1>2. \A x \in evs : EvidenceKey(x) # EvidenceKey(cite)
  BY <1>1 DEF RulesOnlyMeasure, EvidenceKey
<1>3. cite \in MergeEvidence(evs, cited)
  BY <1>2 DEF MergeEvidence, NewEvidence
<1> HIDE DEF cite
<1> QED
  BY <1>1, <1>3 DEF BuildDecision

(* Adjudication reads evidence as the investigation does. *)
LEMMA SameReading ==
  ASSUME NEW evs
  PROVE  /\ Promise!PositiveDimensions(evs) = PositiveDimensions(evs)
         /\ Promise!HasCitableEvidence(evs) = HasCitableEvidence(evs)
         /\ Promise!RequiredDimensions(evs) = RequiredDimensions(evs)
         /\ Promise!CoveredDimensions(evs) = CoveredDimensions(evs)
         /\ \A e : Promise!EvidenceKey(e) = EvidenceKey(e)
<1>1. Promise!Measurements(evs) = Measurements(evs)
  BY DEF Promise!Measurements, Measurements
<1>2. Promise!PositiveDimensions(evs) = PositiveDimensions(evs)
  BY <1>1 DEF Promise!PositiveDimensions, PositiveDimensions
<1>3. Promise!HasCitableEvidence(evs) = HasCitableEvidence(evs)
  BY DEF Promise!HasCitableEvidence, HasCitableEvidence
<1>4. Promise!RequiredDimensions(evs) = RequiredDimensions(evs)
  BY <1>2 DEF Promise!RequiredDimensions, RequiredDimensions
<1>5. Promise!CoveredDimensions(evs) = CoveredDimensions(evs)
  BY <1>1, <1>3 DEF Promise!CoveredDimensions, CoveredDimensions
<1>6. \A e : Promise!EvidenceKey(e) = EvidenceKey(e)
  BY DEF Promise!EvidenceKey, EvidenceKey
<1> QED
  BY <1>2, <1>3, <1>4, <1>5, <1>6

(* With nothing missing and nothing unmeasurable, all that is required is  *)
(* covered.                                                                *)
LEMMA NoGapsMeansMeasured ==
  ASSUME NEW f, MissingIn(f) = {}, UnmeasurableIn(f) = {}
  PROVE  Promise!FullyMeasured(f.evidence)
<1>1. RequiredDimensions(f.evidence) \subseteq CoveredDimensions(f.evidence)
  BY DEF MissingIn, UnmeasurableIn, MissingDimensions, UnmeasurableDimensions
<1> QED
  BY <1>1, SameReading DEF Promise!FullyMeasured

(* Whatever the model proposes, the overlay decides what the facts permit. *)
LEMMA OverlayPermitted ==
  ASSUME NEW f, f.case \in Case, f.degraded \in BOOLEAN, RulesOnlyMeasure(f.evidence),
         NEW proposal \in Proposals \cup {NoProposal}
  PROVE  LET d == DecisionOverlay(f, proposal)
         IN  Promise!Permits(f.case, f.evidence, f.degraded, d.decision, d.policy)
<1> DEFINE d == DecisionOverlay(f, proposal)
<1> SUFFICES Promise!Permits(f.case, f.evidence, f.degraded, d.decision, d.policy)
  OBVIOUS
<1>1. CASE HardRuleHit(f.case)
  <2>1. d = HardRuleReject(f)
    BY <1>1 DEF DecisionOverlay
  <2>2. d.decision = "REJECT"
    BY <2>1 DEF HardRuleReject, BuildDecision
  <2>3. "POLICY_1.1" \in d.policy
    BY <2>1, CitationReachesPolicy DEF HardRuleReject
  <2> QED
    BY <1>1, <2>2, <2>3 DEF Promise!Permits, HardRuleHit
<1>2. CASE ~HardRuleHit(f.case) /\ d.decision = "HUMAN_REVIEW"
  BY <1>2 DEF Promise!Permits, HardRuleHit
<1>3. CASE ~HardRuleHit(f.case) /\ d.decision # "HUMAN_REVIEW"
  <2>1. \A codes : d # HumanReview(f, codes)
    BY <1>3 DEF HumanReview, BuildDecision
  <2>2. /\ OverlayCodes(f, proposal) = {}
        /\ proposal = "PASS" => PassGate(f)
        /\ proposal = "REJECT" => RejectGate(f)
        /\ d = AdoptProposal(f, proposal)
    BY <1>3, <2>1 DEF DecisionOverlay
  <2>3. AbstentionCodes(f) = {} /\ proposal # NoProposal
    BY <2>2 DEF OverlayCodes
  <2>4. MissingIn(f) = {} /\ UnmeasurableIn(f) = {} /\ ~f.degraded
    BY <2>3 DEF AbstentionCodes
  <2>5. Promise!Complete(f.evidence, f.degraded)
    BY <2>4, NoGapsMeansMeasured DEF Promise!Complete
  <2>6. d.decision = proposal /\ proposal \in {"PASS", "REJECT"}
    BY <1>3, <2>2, <2>3 DEF AdoptProposal, BuildDecision, Proposals
  <2>7. CASE proposal = "PASS"
    <3>1. PositiveDimensions(f.evidence) = {} /\ ~RulePositive(f.case)
      BY <2>2, <2>7 DEF PassGate
    <3>2. ~f.case.brandTerm /\ ~f.case.evasionTerm
      BY <3>1 DEF RulePositive, RuleHits, RuleIds, RuleMatches
    <3> QED
      BY <1>3, <2>5, <2>6, <2>7, <3>1, <3>2, SameReading DEF Promise!Permits, HardRuleHit
  <2>8. CASE proposal = "REJECT"
    <3>1. "R-302" \in RuleHits(f.case) /\ HasCitableEvidence(f.evidence)
      BY <2>2, <2>8 DEF RejectGate
    <3>2. f.case.evasionTerm
      BY <3>1 DEF RuleHits, RuleMatches
    <3>3. PolicyCitation("POLICY_1.2") \in EvasionCitations(f)
      BY <3>1 DEF EvasionCitations
    <3>4. "POLICY_1.2" \in d.policy
      BY <2>2, <2>8, <3>3, CitationReachesPolicy DEF AdoptProposal
    <3> QED
      BY <1>3, <2>5, <2>6, <2>8, <3>1, <3>2, <3>4, SameReading DEF Promise!Permits, HardRuleHit
  <2> QED
    BY <2>6, <2>7, <2>8
<1> QED
  BY <1>1, <1>2, <1>3

(* The initial states of a run are those of an adjudication. *)
LEMMA RefinementInit == Init => Promise!Init
BY DEF Init, Promise!Init, NoDecision, BuildDecision, StepFailed

(* A step that decides is a Close: the facts permit its decision. *)
LEMMA DecideCloses ==
  ASSUME TypeOK, ControlInv, EvidenceInv,
         DecideUnassisted \/ DecideFailed \/ DecideProposed
  PROVE  Promise!Close
<1>1. /\ pc = "decide" /\ pc' = "done" /\ case' = case /\ evidence' = evidence
      /\ case \in Case /\ RulesOnlyMeasure(evidence)
  BY CasesAssumption
  DEF DecideUnassisted, DecideFailed, DecideProposed, TypeOK, EvidenceInv, RulesOnlyMeasure,
      WorkingEvidence
<1>2. ASSUME NEW llm, NEW deg \in BOOLEAN, NEW proposal \in Proposals \cup {NoProposal},
             decision' = DecisionOverlay(FactsOf(evidence, llm, tool_calls, deg), proposal)
      PROVE  Promise!Permits(case, evidence, deg, decision'.decision, decision'.policy)
  <2> DEFINE f == FactsOf(evidence, llm, tool_calls, deg)
  <2>1. f.case = case /\ f.evidence = evidence /\ f.degraded = deg
    BY DEF FactsOf
  <2> HIDE DEF f
  <2> QED
    BY <1>1, <1>2, <2>1, OverlayPermitted DEF f
<1>3. PICK deg \in BOOLEAN :
        /\ Promise!Permits(case, evidence, deg, decision'.decision, decision'.policy)
        /\ StepFailed' <=> deg
        /\ StepFailed => deg
  <2>1. failures' = failures => (StepFailed' <=> StepFailed)
    BY DEF StepFailed
  <2>2. degraded \in BOOLEAN /\ (degraded <=> StepFailed)
    BY <1>1 DEF ControlInv, TypeOK
  <2>3. CASE DecideUnassisted
    BY <1>2, <2>1, <2>2, <2>3 DEF DecideUnassisted
  <2>4. CASE DecideFailed
    <3>1. StepFailed'
      BY <2>4, CriticalFailureRecorded DEF DecideFailed, LLMSteps
    <3> QED
      BY <1>2, <2>4, <3>1 DEF DecideFailed
  <2>5. CASE DecideProposed
    BY <1>2, <2>1, <2>2, <2>5 DEF DecideProposed
  <2> QED
    BY <2>3, <2>4, <2>5
<1>4. StepFailed' \in BOOLEAN /\ StepFailed' = deg
  BY <1>3 DEF StepFailed
<1> QED
  BY <1>1, <1>3, <1>4 DEF Promise!Close

(* A step between two undecided nodes is an Investigate. *)
LEMMA OpenStepInvestigates ==
  ASSUME TypeOK, ControlInv, EvidenceInv', [Next]_vars,
         pc \notin {"done", "raised"}, pc' \notin {"done", "raised"},
         UNCHANGED <<case, decision>>
  PROVE  Promise!Investigate
<1>1. evidence \subseteq evidence'
  BY EvidenceGrows
<1>2. \A e \in evidence', x \in evidence : EvidenceKey(e) = EvidenceKey(x) => e = x
  BY <1>1 DEF EvidenceInv, KeysUnique, WorkingEvidence
<1>3. StepFailed => StepFailed' /\ evidence' = evidence
  <2> SUFFICES ASSUME StepFailed PROVE UNCHANGED <<failures, evidence>>
    BY DEF StepFailed
  <2> QED
    BY FailedRunSkips
    DEF PlanSkipped, ReevaluateSkipped, DecideUnassisted, vars, channels
<1>4. StepFailed' \in BOOLEAN
  BY DEF StepFailed
<1> QED
  BY <1>1, <1>2, <1>3, <1>4, SameReading DEF Promise!Investigate

(* Every step of a run is a step of an adjudication. *)
LEMMA RefinementStep ==
  TypeOK /\ ControlInv /\ EvidenceInv /\ EvidenceInv' /\ [Next]_vars
    => [Promise!Next]_(Promise!vars)
<1> SUFFICES ASSUME TypeOK, ControlInv, EvidenceInv, EvidenceInv', [Next]_vars
             PROVE  [Promise!Next]_(Promise!vars)
  OBVIOUS
<1>1. CASE UNCHANGED vars
  BY <1>1 DEF vars, channels, Promise!vars, StepFailed
<1>2. CASE DecideUnassisted \/ DecideFailed \/ DecideProposed
  BY <1>2, DecideCloses DEF Promise!Next
<1>3. CASE CallRaised
  <2>1. UNCHANGED <<case, evidence, failures, decision>> /\ pc = "tools" /\ pc' = "raised"
    BY <1>3 DEF CallRaised, channels
  <2>2. StepFailed' <=> StepFailed
    BY <2>1 DEF StepFailed
  <2>3. StepFailed' = StepFailed
    BY <2>2 DEF StepFailed
  <2> QED
    BY <2>1, <2>3 DEF Promise!Next, Promise!Abandon
<1>4. CASE \/ Hypothesize \/ PlanSkipped \/ PlanFailed \/ PlanAccepted \/ CallRejected
           \/ CallFailed \/ CallSucceeded \/ ToolsReturn \/ ReevaluateSkipped \/ Reevaluate
  <2>1. pc \notin {"done", "raised"} /\ pc' \notin {"done", "raised"}
    BY <1>4 DEF Hypothesize, PlanSkipped, PlanFailed, PlanAccepted, CallRejected, CallFailed,
       CallSucceeded, ToolsReturn, ReevaluateSkipped, Reevaluate, RouteAfterPlan,
       RouteAfterReevaluate
  <2>2. UNCHANGED <<case, decision>>
    BY <1>4 DEF Hypothesize, PlanSkipped, PlanFailed, PlanAccepted, CallRejected, CallFailed,
       CallSucceeded, ToolsReturn, ReevaluateSkipped, Reevaluate, channels
  <2> QED
    BY <2>1, <2>2, OpenStepInvestigates DEF Promise!Next
<1> QED
  BY <1>1, <1>2, <1>3, <1>4 DEF Next

(* Every run of the graph is an adjudication. *)
THEOREM Refinement == Spec => ImplementsAdjudication
BY RefinementInit, RefinementStep, EvidenceCorrect, PTL
DEF Spec, ImplementsAdjudication, Promise!Spec

==============================================================================
