---------------------------- MODULE EvaluationProofs ----------------------------
(***************************************************************************)
(* Proofs about an evaluation, for every dataset the generator can build,  *)
(* of any size, every command line, every survey and every proposal of the *)
(* agent: a decision by the hard rule or after a survey of the case's own  *)
(* objects is the label, and the report counts the cases it should.        *)
(***************************************************************************)
EXTENDS EvaluationProperties, SequenceTheorems, FiniteSetTheorems, TLAPS

------------------------------------------------------------------------------
(* The cases the generator can build *)

(* What a recipe can be: the fields a pattern varies, and a blank brand is  *)
(* exactly a gap in the brand.                                              *)
Recipe(r) ==
  /\ r.brand \in {"blacklisted", "listed", "blank"}
  /\ r.planted \in {{}, {"evasion"}, {"brand"}}
  /\ r.gaps \in {{}, {"category"}, {"brand"}}
  /\ r.brand = "blank" <=> r.gaps = {"brand"}
  /\ r.mismatch \in BOOLEAN
  /\ r.merchant \in {"clean", "two", "three", "strong_dirty", "dirty"}

LEMMA PatternsAreRecipes ==
  ASSUME NEW p \in DOMAIN Patterns, NEW r \in Patterns[p]
  PROVE  Recipe(r)
<1> DEFINE I == Inconspicuous
<1>1. r \in { I, [I EXCEPT !.brand = "blacklisted"], [I EXCEPT !.planted = {"evasion"}],
             [I EXCEPT !.planted = {"evasion"}, !.merchant = "dirty"],
             [I EXCEPT !.planted = {"brand"}], [I EXCEPT !.merchant = "two"],
             [I EXCEPT !.merchant = "three"], [I EXCEPT !.gaps = {"category"}],
             [I EXCEPT !.gaps = {"brand"}, !.brand = "blank"], [I EXCEPT !.mismatch = TRUE],
             [I EXCEPT !.planted = {"evasion"}, !.merchant = "strong_dirty"],
             [I EXCEPT !.planted = {"brand"}, !.merchant = "dirty"],
             [I EXCEPT !.brand = "blacklisted", !.planted = {"evasion"}],
             [I EXCEPT !.merchant = "dirty"] }
  <2> HIDE DEF I
  <2>1. Inconspicuous = I
    BY DEF I
  <2> QED
    BY ONLY <2>1, p \in DOMAIN Patterns, r \in Patterns[p] DEF Patterns
<1>2. I.brand = "listed" /\ I.planted = {} /\ I.gaps = {} /\ I.mismatch = FALSE /\ I.merchant = "clean"
  BY DEF Inconspicuous
<1>3. I = [ brand |-> I.brand, planted |-> I.planted, gaps |-> I.gaps,
            mismatch |-> I.mismatch, merchant |-> I.merchant ]
  BY DEF Inconspicuous
<1> QED
  <2> HIDE DEF I
  <2>1. /\ r.brand \in {"blacklisted", "listed", "blank"}
        /\ r.mismatch \in BOOLEAN
        /\ r.merchant \in {"clean", "two", "three", "strong_dirty", "dirty"}
    BY <1>1, <1>2, <1>3
  <2>2. r.planted \in {{}, {"evasion"}, {"brand"}}
    BY <1>1, <1>2, <1>3
  <2>3. /\ r.gaps \in {{}, {"category"}, {"brand"}}
        /\ r.brand = "blank" <=> r.gaps = {"brand"}
    BY <1>1, <1>2, <1>3
  <2> QED
    BY <2>1, <2>2, <2>3 DEF Recipe

(* What every constructed case has in common. *)
Constructed(m) ==
  /\ m.snapshot.brand \in {"blacklisted", "listed", "blank"}
  /\ m.snapshot.categoryBlank = ("category" \in m.gaps)
  /\ m.snapshot.brandTerm \in BOOLEAN /\ m.snapshot.evasionTerm \in BOOLEAN
  /\ m.gaps \in {{}, {"category"}, {"brand"}}
  /\ m.snapshot.brand = "blank" <=> m.gaps = {"brand"}
  /\ m.mismatch \in BOOLEAN
  /\ m.registryBrand = (~m.mismatch /\ m.snapshot.brand # "blank")
  /\ m.removals \in Nat /\ m.relistings \in Nat

LEMMA MerchantNumbers ==
  ASSUME NEW k \in {"clean", "two", "three", "strong_dirty", "dirty"},
         NEW facts \in MerchantFacts[k]
  PROVE  facts[1] \in Nat /\ facts[2] \in Nat
BY DEF MerchantFacts, Ends

(* The builder constructs nothing else. *)
LEMMA ManifestsConstructed ==
  ASSUME NEW m \in Manifests
  PROVE  Constructed(m)
<1>r. PICK p \in DOMAIN Patterns :
        \E r \in Patterns[p] : \E facts \in MerchantFacts[r.merchant] : m = ManifestOf(r, facts)
  BY DEF Manifests
<1>f. PICK r \in Patterns[p] : \E facts \in MerchantFacts[r.merchant] : m = ManifestOf(r, facts)
  BY <1>r
<1>1. PICK facts \in MerchantFacts[r.merchant] : m = ManifestOf(r, facts)
  BY <1>f
<1>2. Recipe(r)
  BY PatternsAreRecipes
<1>3. facts[1] \in Nat /\ facts[2] \in Nat
  BY <1>2, MerchantNumbers DEF Recipe
<1>4. /\ m.snapshot.brand = r.brand
      /\ m.snapshot.categoryBlank = ("category" \in r.gaps)
      /\ m.snapshot.brandTerm = ("brand" \in r.planted)
      /\ m.snapshot.evasionTerm = ("evasion" \in r.planted)
      /\ m.gaps = r.gaps /\ m.mismatch = r.mismatch
      /\ m.registryBrand = (~r.mismatch /\ r.brand # "blank")
      /\ m.removals = facts[1] /\ m.relistings = facts[2]
  BY <1>1 DEF ManifestOf, SnapshotOf
<1> QED
  BY <1>2, <1>3, <1>4 DEF Recipe, Constructed

------------------------------------------------------------------------------
(* The labels, and the rule arm *)

(* The decision of a label, in one condition each. *)
LEMMA LabelDecision ==
  ASSUME NEW m, Constructed(m)
  PROVE  LabelOf(m).decision =
           IF m.snapshot.brand = "blacklisted" \/ m.snapshot.evasionTerm THEN "REJECT"
           ELSE IF m.gaps # {} \/ m.mismatch \/ m.snapshot.brandTerm \/ MerchantDirty(m)
                THEN "HUMAN_REVIEW" ELSE "PASS"
BY DEF LabelOf, Expected, Constructed

(* What the rules see of a constructed case. *)
LEMMA HitsOfCase ==
  ASSUME NEW c
  PROVE  /\ "R-101" \in RuleHits(c) <=> c.brand = "blacklisted"
         /\ "R-102" \in RuleHits(c) <=> c.brandTerm
         /\ "R-301" \in RuleHits(c) <=> (c.brand = "blank" \/ c.categoryBlank)
         /\ "R-302" \in RuleHits(c) <=> c.evasionTerm
         /\ RuleHits(c) \subseteq RuleIds
BY DEF RuleHits, RuleIds, RuleMatches

(* The rule arm against the label of a case. *)
LEMMA RuleArmAgainstLabel ==
  ASSUME NEW m, Constructed(m)
  PROVE  /\ RuleRecord(m).decision = "REJECT" => LabelOf(m).decision = "REJECT"
         /\ RuleRecord(m).decision = "PASS" /\ LabelOf(m).decision # "PASS" =>
              /\ LabelOf(m).decision = "HUMAN_REVIEW"
              /\ MerchantDirty(m) \/ m.mismatch
<1>1. RuleRecord(m).decision =
        [PASS |-> "PASS", REJECT |-> "REJECT", COMPLEX |-> "HUMAN_REVIEW"][Triage(m.snapshot)]
  BY DEF RuleRecord, EvalRecord
<1>2. Triage(m.snapshot) \in {"PASS", "REJECT", "COMPLEX"}
  BY DEF Triage
<1>3. RuleRecord(m).decision = "REJECT" => m.snapshot.brand = "blacklisted"
  BY <1>1, <1>2, HitsOfCase DEF Triage, RejectRules
<1>4. RuleRecord(m).decision = "PASS" => RuleHits(m.snapshot) = {}
  BY <1>1, <1>2 DEF Triage
<1>5. RuleHits(m.snapshot) = {} =>
        /\ m.snapshot.brand = "listed" /\ ~m.snapshot.categoryBlank
        /\ ~m.snapshot.brandTerm /\ ~m.snapshot.evasionTerm
  BY HitsOfCase DEF Constructed
<1>6. RuleHits(m.snapshot) = {} => m.gaps = {}
  BY <1>5 DEF Constructed
<1> QED
  BY <1>3, <1>4, <1>5, <1>6, LabelDecision

------------------------------------------------------------------------------
(* What an investigation may have found *)

(* One piece of evidence about a case. *)
Found(m, e) ==
  \/ e \in RuleHitMeasurement(m.snapshot)
  \/ \E about \in Subjects :
       \/ e = PlainEvidence("PRODUCT_FACT", "ProductTool", about, None)
       \/ e = MeasurementOf("listing_registry", "ProductTool", about, ListingVerdict(m, about))
  \/ \E about \in Subjects, stranger \in Verdicts :
       \/ e = PlainEvidence("MERCHANT_HISTORY", "MerchantTool", about, None)
       \/ e = MeasurementOf("merchant_profile", "MerchantTool", about,
                            MerchantVerdict(m, about, stranger))
  \/ \E p \in Precedents : e = PlainEvidence("CASE_PRECEDENT", "CaseSearchTool", p, None)
  \/ \E cl \in Clauses : e = PlainEvidence("POLICY_REF", "PolicySearchTool", cl, PolicyOf[cl])

LEMMA AnswersFound ==
  ASSUME NEW m, NEW l \in Lookups, NEW stranger \in Verdicts,
         NEW precedents \in SUBSET Precedents, NEW clauses \in SUBSET Clauses,
         NEW e \in AnswerTo(m, l, stranger, precedents, clauses)
  PROVE  Found(m, e)
<1>1. l.tool \in ToolNames /\ l.about \in Subjects
  BY DEF Lookups
<1>2. CASE l.tool = "ProductTool"
  BY <1>1, <1>2 DEF AnswerTo, Found
<1>3. CASE l.tool = "MerchantTool"
  BY <1>1, <1>3 DEF AnswerTo, Found
<1>4. CASE l.tool = "CaseSearchTool"
  BY <1>1, <1>4 DEF AnswerTo, Found
<1>5. CASE l.tool = "PolicySearchTool"
  BY <1>1, <1>5 DEF AnswerTo, Found
<1> QED
  BY <1>1, <1>2, <1>3, <1>4, <1>5 DEF ToolNames

LEMMA FindingsFound ==
  ASSUME NEW m, NEW found \in Findings(m)
  PROVE  /\ RuleHitMeasurement(m.snapshot) \subseteq found.evidence
         /\ \A e \in found.evidence : Found(m, e)
<1>1. PICK survey \in Surveys, stranger \in Verdicts,
           precedents \in SUBSET Precedents, clauses \in SUBSET Clauses :
        found = [ tools |-> {l.tool : l \in survey},
                  evidence |-> RuleHitMeasurement(m.snapshot) \cup
                    UNION {AnswerTo(m, l, stranger, precedents, clauses) : l \in survey} ]
  BY DEF Findings
<1>2. found.evidence = RuleHitMeasurement(m.snapshot) \cup
                         UNION {AnswerTo(m, l, stranger, precedents, clauses) : l \in survey}
  BY <1>1
<1>3. survey \subseteq Lookups
  BY SurveysAssumption
<1>4. \A e \in found.evidence : Found(m, e)
  <2> SUFFICES ASSUME NEW e \in found.evidence
               PROVE  Found(m, e)
    OBVIOUS
  <2>1. CASE e \in RuleHitMeasurement(m.snapshot)
    BY <2>1 DEF Found
  <2>2. CASE \E l \in survey : e \in AnswerTo(m, l, stranger, precedents, clauses)
    BY <2>2, <1>3, AnswersFound
  <2> QED
    BY <1>2, <2>1, <2>2
<1> QED
  BY <1>2, <1>4

------------------------------------------------------------------------------
(* The agent's records *)

(* A record is the outcome of the overlay on the facts of some run. *)
OutcomeOf(record, f, proposal, spent) ==
  /\ record.decision = DecisionOverlay(f, proposal).decision
  /\ record.evidence = DecisionOverlay(f, proposal).evidence
  /\ record.policy = DecisionOverlay(f, proposal).policy
  /\ record.overrides = DecisionOverlay(f, proposal).overrides
  /\ record.overBudget = (spent = "over")
  /\ record.error = FALSE

LEMMA AgentRecordIsOutcome ==
  ASSUME NEW m, NEW record \in AgentRecords(m)
  PROVE  \E found \in Findings(m), spent \in {"within", "exhausted", "over"}, deg \in BOOLEAN,
            proposal \in Proposals \cup {NoProposal} :
           OutcomeOf(record, AgentFacts(m, found, spent, deg), proposal, spent)
<1>1. PICK found \in Findings(m), spent \in {"within", "exhausted", "over"}, deg \in BOOLEAN,
           proposal \in Proposals \cup {NoProposal} :
        record = AgentRecord(DecisionOverlay(AgentFacts(m, found, spent, deg), proposal),
                             found, spent)
  BY DEF AgentRecords
<1>2. OutcomeOf(record, AgentFacts(m, found, spent, deg), proposal, spent)
  BY <1>1 DEF OutcomeOf, AgentRecord, EvalRecord
<1> QED
  BY <1>2

(* The ways the overlay can decide. *)
LEMMA OverlayWays ==
  ASSUME NEW f, NEW proposal \in Proposals \cup {NoProposal}
  PROVE  LET d == DecisionOverlay(f, proposal)
         IN  \/ HardRuleHit(f.case) /\ d = HardRuleReject(f)
             \/ ~HardRuleHit(f.case) /\ d = HumanReview(f, OverlayCodes(f, proposal))
             \/ /\ ~HardRuleHit(f.case) /\ AbstentionCodes(f) = {}
                /\ \/ /\ ~PassGate(f) /\ d = HumanReview(f, {"R4_PASS_GATE_FAIL"})
                   \/ /\ ~RejectGate(f) /\ d = HumanReview(f, RejectGateFailCodes(f))
                   \/ /\ PassGate(f) /\ d = BuildDecision(f.evidence, "PASS", {})
                   \/ /\ RejectGate(f) /\ d = AdoptProposal(f, "REJECT")
                   \/ d = BuildDecision(f.evidence, "HUMAN_REVIEW", {})
<1>1. CASE HardRuleHit(f.case)
  BY <1>1 DEF DecisionOverlay
<1>2. CASE ~HardRuleHit(f.case) /\ OverlayCodes(f, proposal) # {}
  BY <1>2 DEF DecisionOverlay, HumanReview, BuildDecision
<1>3. CASE ~HardRuleHit(f.case) /\ OverlayCodes(f, proposal) = {}
  <2>1. AbstentionCodes(f) = {}
    BY <1>3 DEF OverlayCodes
  <2>2. proposal \in Proposals
    BY <1>3, <2>1 DEF OverlayCodes
  <2> QED
    BY <1>3, <2>1, <2>2 DEF DecisionOverlay, AdoptProposal, Proposals
<1> QED
  BY <1>1, <1>2, <1>3

(* Nothing abstains only over a complete, unimpaired investigation. *)
LEMMA NoAbstention ==
  ASSUME NEW f, AbstentionCodes(f) = {}
  PROVE  /\ ~f.exhausted /\ ~f.degraded
         /\ RequiredDimensions(f.evidence) \subseteq CoveredDimensions(f.evidence)
<1>1. ~f.exhausted /\ ~f.degraded /\ MissingIn(f) = {} /\ UnmeasurableIn(f) = {}
  BY DEF AbstentionCodes
<1> QED
  BY <1>1 DEF MissingIn, UnmeasurableIn, MissingDimensions, UnmeasurableDimensions

(* The codes of the gates are no abstention codes. *)
LEMMA GateCodes ==
  ASSUME NEW f, NEW proposal
  PROVE  OverlayCodes(f, proposal)
           \cap {"R1_HARD_RULE", "R2_REJECT_GATE_FAIL", "R4_PASS_GATE_FAIL"} = {}
BY DEF OverlayCodes, AbstentionCodes

(* A clean survey of the case's own objects rules out every reason for a    *)
(* human but a term in the text.                                            *)
LEMMA OwnSurveyClean ==
  ASSUME NEW m, Constructed(m), NEW record, \A e \in record.evidence : Found(m, e),
         SurveyedOwn(record), PositiveDimensions(record.evidence) = {}
  PROVE  m.gaps = {} /\ ~m.mismatch /\ ~MerchantDirty(m)
<1>1. PICK e \in record.evidence : e.dim = "listing_registry" /\ e.ref = "own"
  BY DEF SurveyedOwn
<1>2. PICK x \in record.evidence : x.dim = "merchant_profile" /\ x.ref = "own"
  BY DEF SurveyedOwn
<1>3. \A y \in record.evidence : y.type = "MEASUREMENT" => y.verdict # "POSITIVE"
  BY DEF PositiveDimensions, Measurements
<1>4. e = MeasurementOf("listing_registry", "ProductTool", "own", ListingVerdict(m, "own"))
  <2>1. Found(m, e)
    OBVIOUS
  <2> QED
    BY <2>1, <1>1 DEF Found, RuleHitMeasurement, PlainEvidence, MeasurementOf, None
<1>5. \E stranger \in Verdicts :
        x = MeasurementOf("merchant_profile", "MerchantTool", "own",
                          MerchantVerdict(m, "own", stranger))
  <2>1. Found(m, x)
    OBVIOUS
  <2> QED
    BY <2>1, <1>2 DEF Found, RuleHitMeasurement, PlainEvidence, MeasurementOf, None
<1>6. ListingVerdict(m, "own") # "POSITIVE"
  BY <1>3, <1>4 DEF MeasurementOf
<1>7. ~MerchantDirty(m)
  BY <1>3, <1>5 DEF MeasurementOf, MerchantVerdict, MerchantDirty, MerchantDirtyMin
<1> QED
  BY <1>6, <1>7 DEF ListingVerdict, Constructed

(* A finding about the case's own objects is a reason not to pass it. *)
LEMMA OwnFindings ==
  ASSUME NEW m, Constructed(m), NEW evs, \A e \in evs : Found(m, e),
         \A e \in evs : e.ref # "other", PositiveDimensions(evs) # {}
  PROVE  LabelOf(m).decision # "PASS"
<1>1. PICK e \in evs : e.type = "MEASUREMENT" /\ e.verdict = "POSITIVE"
  BY DEF PositiveDimensions, Measurements
<1>2. Found(m, e) /\ e.ref # "other"
  OBVIOUS
<1>3. \/ e \in RuleHitMeasurement(m.snapshot)
      \/ e = MeasurementOf("listing_registry", "ProductTool", "own", ListingVerdict(m, "own"))
      \/ \E stranger \in Verdicts :
           e = MeasurementOf("merchant_profile", "MerchantTool", "own",
                             MerchantVerdict(m, "own", stranger))
  BY <1>1, <1>2 DEF Found, PlainEvidence, MeasurementOf, Subjects
<1>4. CASE e \in RuleHitMeasurement(m.snapshot)
  <2>1. m.snapshot.brandTerm \/ m.snapshot.evasionTerm
    BY <1>4, HitsOfCase DEF RuleHitMeasurement
  <2> QED
    BY <2>1, LabelDecision
<1>5. CASE e = MeasurementOf("listing_registry", "ProductTool", "own", ListingVerdict(m, "own"))
  <2>1. m.snapshot.brand = "blank" \/ m.snapshot.categoryBlank \/ ~m.registryBrand
    BY <1>1, <1>5 DEF MeasurementOf, ListingVerdict
  <2>2. m.gaps # {} \/ m.mismatch
    BY <2>1 DEF Constructed
  <2> QED
    BY <2>2, LabelDecision
<1>6. CASE \E stranger \in Verdicts :
             e = MeasurementOf("merchant_profile", "MerchantTool", "own",
                               MerchantVerdict(m, "own", stranger))
  <2>1. MerchantDirty(m)
    BY <1>1, <1>6 DEF MeasurementOf, MerchantVerdict, MerchantDirty, MerchantDirtyMin
  <2> QED
    BY <2>1, LabelDecision
<1> QED
  BY <1>3, <1>4, <1>5, <1>6

------------------------------------------------------------------------------
(* The agent's records against the labels *)

(* What a record of the agent rests on. *)
LEMMA AgentRecordBasis ==
  ASSUME NEW m, NEW record \in AgentRecords(m)
  PROVE  \E f : \E proposal \in Proposals \cup {NoProposal},
                    spent \in {"within", "exhausted", "over"} :
           /\ OutcomeOf(record, f, proposal, spent)
           /\ f.case = m.snapshot /\ f.exhausted = (spent # "within")
           /\ RuleHitMeasurement(m.snapshot) \subseteq f.evidence
           /\ \A e \in f.evidence : Found(m, e)
<1>1. PICK found \in Findings(m), spent \in {"within", "exhausted", "over"}, deg \in BOOLEAN,
           proposal \in Proposals \cup {NoProposal} :
        OutcomeOf(record, AgentFacts(m, found, spent, deg), proposal, spent)
  BY AgentRecordIsOutcome
<1> DEFINE f == AgentFacts(m, found, spent, deg)
<1>2. /\ f.case = m.snapshot /\ f.exhausted = (spent # "within")
      /\ f.evidence = found.evidence
  BY DEF AgentFacts
<1>3. /\ RuleHitMeasurement(m.snapshot) \subseteq f.evidence
      /\ \A e \in f.evidence : Found(m, e)
  BY <1>2, FindingsFound
<1> HIDE DEF f
<1> QED
  BY <1>1, <1>2, <1>3 DEF f

LEMMA AgentAgainstLabel ==
  ASSUME NEW m, Constructed(m), NEW record \in AgentRecords(m)
  PROVE  /\ record.decision \in AutoDecisions
              /\ (SurveyedOwn(record) \/ "R1_HARD_RULE" \in record.overrides)
            => record.decision = LabelOf(m).decision
         /\ ~SurveyedOther(record) =>
              /\ "R4_PASS_GATE_FAIL" \in record.overrides => LabelOf(m).decision # "PASS"
              /\ "R2_REJECT_GATE_FAIL" \in record.overrides => LabelOf(m).decision # "REJECT"
<1>r. PICK f :
        \E proposal \in Proposals \cup {NoProposal}, spent \in {"within", "exhausted", "over"} :
          /\ OutcomeOf(record, f, proposal, spent)
          /\ f.case = m.snapshot /\ f.exhausted = (spent # "within")
          /\ RuleHitMeasurement(m.snapshot) \subseteq f.evidence
          /\ \A e \in f.evidence : Found(m, e)
  BY AgentRecordBasis
<1>1. PICK proposal \in Proposals \cup {NoProposal}, spent \in {"within", "exhausted", "over"} :
        /\ OutcomeOf(record, f, proposal, spent)
        /\ f.case = m.snapshot /\ f.exhausted = (spent # "within")
        /\ RuleHitMeasurement(m.snapshot) \subseteq f.evidence
        /\ \A e \in f.evidence : Found(m, e)
  BY <1>r
<1> DEFINE d == DecisionOverlay(f, proposal)
<1>2. /\ record.decision = d.decision /\ record.evidence = d.evidence
      /\ record.overrides = d.overrides
  BY <1>1 DEF OutcomeOf
<1>3. HardRuleHit(f.case) <=> m.snapshot.brand = "blacklisted"
  BY <1>1 DEF HardRuleHit
<1>4. "R-302" \in RuleHits(f.case) <=> m.snapshot.evasionTerm
  BY <1>1, HitsOfCase
<1> HIDE DEF d
<1>5. CASE HardRuleHit(f.case) /\ d = HardRuleReject(f)
  <2>1. d.decision = "REJECT" /\ d.overrides = {"R1_HARD_RULE"}
    BY <1>5 DEF HardRuleReject, BuildDecision
  <2> QED
    BY <2>1, <1>2, <1>3, <1>5, LabelDecision
<1>6. CASE ~HardRuleHit(f.case) /\ d = HumanReview(f, OverlayCodes(f, proposal))
  <2>1. d.decision = "HUMAN_REVIEW" /\ d.overrides = OverlayCodes(f, proposal)
    BY <1>6 DEF HumanReview, BuildDecision
  <2> QED
    BY <2>1, <1>2, GateCodes DEF AutoDecisions
<1>7. CASE ~PassGate(f) /\ AbstentionCodes(f) = {} /\ d = HumanReview(f, {"R4_PASS_GATE_FAIL"})
  <2>1. d.decision = "HUMAN_REVIEW" /\ d.overrides = {"R4_PASS_GATE_FAIL"}
          /\ d.evidence = f.evidence
    BY <1>7 DEF HumanReview, BuildDecision
  <2>2. PositiveDimensions(f.evidence) # {} \/ RulePositive(f.case)
    <3>1. MissingIn(f) = {} /\ UnmeasurableIn(f) = {}
      BY <1>7 DEF AbstentionCodes
    <3> QED
      BY <3>1, <1>7 DEF PassGate
  <2>3. CASE RulePositive(f.case)
    <3>1. m.snapshot.brandTerm \/ m.snapshot.evasionTerm
      BY <2>3, <1>1, HitsOfCase DEF RulePositive
    <3> QED
      BY <3>1, <2>1, <1>2, LabelDecision DEF AutoDecisions
  <2>4. CASE PositiveDimensions(f.evidence) # {}
    <3>1. ~SurveyedOther(record) => \A e \in f.evidence : e.ref # "other"
      BY <2>1, <1>2 DEF SurveyedOther
    <3>2. ~SurveyedOther(record) => LabelOf(m).decision # "PASS"
      BY <3>1, <2>4, <1>1, OwnFindings
    <3> QED
      BY <3>2, <2>1, <1>2 DEF AutoDecisions
  <2> QED
    BY <2>2, <2>3, <2>4
<1>8. CASE /\ ~HardRuleHit(f.case) /\ AbstentionCodes(f) = {} /\ ~RejectGate(f)
           /\ d = HumanReview(f, RejectGateFailCodes(f))
  <2>1. d.decision = "HUMAN_REVIEW" /\ "R4_PASS_GATE_FAIL" \notin d.overrides
    BY <1>8 DEF HumanReview, BuildDecision, RejectGateFailCodes
  <2>2. ~m.snapshot.evasionTerm
    <3> SUFFICES ASSUME m.snapshot.evasionTerm
                 PROVE  HasCitableEvidence(f.evidence)
      BY <1>4, <1>8 DEF RejectGate
    <3>1. MeasurementOf("text_compliance", RuleEngine, "own", "POSITIVE") \in f.evidence
      BY <1>1, HitsOfCase DEF RuleHitMeasurement
    <3>2. PositiveDimensions(f.evidence) # {}
      BY <3>1 DEF PositiveDimensions, Measurements, MeasurementOf
    <3>3. "policy_citation" \in CoveredDimensions(f.evidence)
      BY <3>2, <1>8, NoAbstention DEF RequiredDimensions
    <3>4. \A e \in Measurements(f.evidence) : e.dim # "policy_citation"
      BY <1>1 DEF Measurements, Found, RuleHitMeasurement, MeasurementOf, PlainEvidence, None
    <3> QED
      BY <3>3, <3>4 DEF CoveredDimensions
  <2>3. LabelOf(m).decision # "REJECT"
    BY <2>2, <1>3, <1>8, LabelDecision
  <2> QED
    BY <2>1, <2>3, <1>2 DEF AutoDecisions
<1>9. CASE ~HardRuleHit(f.case) /\ PassGate(f) /\ d = BuildDecision(f.evidence, "PASS", {})
  <2>1. d.decision = "PASS" /\ d.overrides = {} /\ d.evidence = f.evidence
    BY <1>9 DEF BuildDecision
  <2>2. ~m.snapshot.evasionTerm /\ ~m.snapshot.brandTerm
    BY <1>9, <1>1, HitsOfCase DEF PassGate, RulePositive
  <2>3. SurveyedOwn(record) => m.gaps = {} /\ ~m.mismatch /\ ~MerchantDirty(m)
    BY <2>1, <1>1, <1>2, <1>9, OwnSurveyClean DEF PassGate
  <2>4. SurveyedOwn(record) => LabelOf(m).decision = "PASS"
    BY <2>2, <2>3, <1>3, <1>9, LabelDecision
  <2> QED
    BY <2>1, <2>4, <1>2
<1>10. CASE RejectGate(f) /\ d = AdoptProposal(f, "REJECT")
  <2>1. d.decision = "REJECT" /\ d.overrides = {}
    BY <1>10 DEF AdoptProposal, BuildDecision
  <2>2. LabelOf(m).decision = "REJECT"
    BY <1>10, <1>4, LabelDecision DEF RejectGate
  <2> QED
    BY <2>1, <2>2, <1>2
<1>11. CASE d = BuildDecision(f.evidence, "HUMAN_REVIEW", {})
  <2>1. d.decision = "HUMAN_REVIEW" /\ d.overrides = {}
    BY <1>11 DEF BuildDecision
  <2> QED
    BY <2>1, <1>2 DEF AutoDecisions
<1> QED
  BY OverlayWays, <1>5, <1>6, <1>7, <1>8, <1>9, <1>10, <1>11 DEF d

------------------------------------------------------------------------------
(* The agent's records against the process assertions *)

(* A citation the overlay adds to the evidence of a rejection. *)
Cited(e) == \E policy \in ScreeningPolicies : e = PolicyCitation(policy)

(* What the investigation found has no key in common with a citation, so a  *)
(* merge keeps every citation.                                              *)
LEMMA CitationsKept ==
  ASSUME NEW m, NEW evs, \A e \in evs : Found(m, e),
         NEW cited, \A e \in cited : Cited(e)
  PROVE  MergeEvidence(evs, cited) = evs \cup cited
<1>1. ASSUME NEW e \in cited, NEW x \in evs
      PROVE  EvidenceKey(x) # EvidenceKey(e)
  <2>1. e.type = "POLICY_REF" /\ e.source = RuleEngine
    BY DEF Cited, PolicyCitation, PlainEvidence
  <2>2. x.type = "POLICY_REF" => x.source = "PolicySearchTool"
    <3>1. Found(m, x)
      OBVIOUS
    <3> QED
      BY <3>1 DEF Found, RuleHitMeasurement, MeasurementOf, PlainEvidence
  <2> QED
    BY <2>1, <2>2 DEF EvidenceKey, RuleEngine
<1> QED
  BY <1>1 DEF MergeEvidence, NewEvidence

LEMMA EvasionCited ==
  ASSUME NEW f
  PROVE  /\ \A e \in EvasionCitations(f) : Cited(e)
         /\ "R-302" \in RuleHits(f.case) => PolicyCitation("POLICY_1.2") \in EvasionCitations(f)
BY DEF EvasionCitations, Cited, ScreeningPolicies

(* The evidence of a decision is what was found and what the overlay cites, *)
(* its policies are those of its evidence, and a rejection has a citation.  *)
LEMMA OverlayEvidence ==
  ASSUME NEW m, NEW f, \A e \in f.evidence : Found(m, e),
         NEW proposal \in Proposals \cup {NoProposal}, NEW d, d = DecisionOverlay(f, proposal)
  PROVE  /\ f.evidence \subseteq d.evidence
         /\ \A e \in d.evidence : Found(m, e) \/ Cited(e)
         /\ d.policy = {e.policy : e \in {x \in d.evidence : x.type = "POLICY_REF"}}
         /\ d.decision = "REJECT" => \E e \in d.evidence : Cited(e)
<1> DEFINE PoliciesOf(evs) == {e.policy : e \in {x \in evs : x.type = "POLICY_REF"}}
           hard == {PolicyCitation("POLICY_1.1")} \cup EvasionCitations(f)
<1>1. ASSUME NEW evs, NEW outcome0, NEW overrides, d = BuildDecision(evs, outcome0, overrides)
      PROVE  d.evidence = evs /\ d.policy = PoliciesOf(evs) /\ d.decision = outcome0
  BY <1>1 DEF BuildDecision
<1>2. \A e \in hard : Cited(e)
  BY EvasionCited DEF Cited, ScreeningPolicies
<1>3. CASE d = HardRuleReject(f)
  <2>1. d = BuildDecision(MergeEvidence(f.evidence, hard), "REJECT", {"R1_HARD_RULE"})
    BY <1>3 DEF HardRuleReject
  <2>2. MergeEvidence(f.evidence, hard) = f.evidence \cup hard
    BY <1>2, CitationsKept
  <2>3. d.evidence = f.evidence \cup hard /\ d.policy = PoliciesOf(d.evidence)
    BY <1>1, <2>1, <2>2
  <2> QED
    BY <2>3, <1>2
<1>4. CASE \E codes : d = HumanReview(f, codes)
  <2>1. d.evidence = f.evidence /\ d.policy = PoliciesOf(f.evidence) /\ d.decision # "REJECT"
    BY <1>4, <1>1 DEF HumanReview
  <2> QED
    BY <2>1
<1>5. CASE \E outcome0 \in {"PASS", "HUMAN_REVIEW"} : d = BuildDecision(f.evidence, outcome0, {})
  <2>1. d.evidence = f.evidence /\ d.policy = PoliciesOf(f.evidence) /\ d.decision # "REJECT"
    BY <1>5, <1>1
  <2> QED
    BY <2>1
<1>6. CASE RejectGate(f) /\ d = AdoptProposal(f, "REJECT")
  <2>1. d = BuildDecision(MergeEvidence(f.evidence, EvasionCitations(f)), "REJECT", {})
    BY <1>6 DEF AdoptProposal
  <2>2. MergeEvidence(f.evidence, EvasionCitations(f)) = f.evidence \cup EvasionCitations(f)
    BY EvasionCited, CitationsKept
  <2>3. d.evidence = f.evidence \cup EvasionCitations(f) /\ d.policy = PoliciesOf(d.evidence)
    BY <1>1, <2>1, <2>2
  <2>4. PolicyCitation("POLICY_1.2") \in EvasionCitations(f)
    BY <1>6, EvasionCited DEF RejectGate
  <2> QED
    BY <2>3, <2>4, EvasionCited
<1> QED
  BY OverlayWays, <1>3, <1>4, <1>5, <1>6

LEMMA AgentAssertions ==
  ASSUME NEW m, Constructed(m), NEW record \in AgentRecords(m)
  PROVE  LET failed == ProcessFailures("agent", record, m)
         IN  /\ failed \subseteq {"BUDGET_EXCEEDED"}
             /\ failed # {} /\ record.decision \in AutoDecisions
                  => record.overrides = {"R1_HARD_RULE"}
<1>r. PICK f :
        \E proposal \in Proposals \cup {NoProposal}, spent \in {"within", "exhausted", "over"} :
          /\ OutcomeOf(record, f, proposal, spent)
          /\ f.case = m.snapshot /\ f.exhausted = (spent # "within")
          /\ RuleHitMeasurement(m.snapshot) \subseteq f.evidence
          /\ \A e \in f.evidence : Found(m, e)
  BY AgentRecordBasis
<1>1. PICK proposal \in Proposals \cup {NoProposal}, spent \in {"within", "exhausted", "over"} :
        /\ OutcomeOf(record, f, proposal, spent)
        /\ f.case = m.snapshot /\ f.exhausted = (spent # "within")
        /\ RuleHitMeasurement(m.snapshot) \subseteq f.evidence
        /\ \A e \in f.evidence : Found(m, e)
  BY <1>r
<1> DEFINE d == DecisionOverlay(f, proposal)
<1>2. /\ record.decision = d.decision /\ record.evidence = d.evidence
      /\ record.policy = d.policy /\ record.overrides = d.overrides
      /\ record.overBudget = (spent = "over") /\ record.error = FALSE
  BY <1>1 DEF OutcomeOf
<1>3. /\ f.evidence \subseteq record.evidence
      /\ \A e \in record.evidence : Found(m, e) \/ Cited(e)
      /\ record.policy = {e.policy : e \in {x \in record.evidence : x.type = "POLICY_REF"}}
      /\ record.decision = "REJECT" => \E e \in record.evidence : Cited(e)
  <2> HIDE DEF d
  <2>1. d = DecisionOverlay(f, proposal)
    BY DEF d
  <2>2. /\ f.evidence \subseteq d.evidence
        /\ \A e \in d.evidence : Found(m, e) \/ Cited(e)
        /\ d.policy = {e.policy : e \in {x \in d.evidence : x.type = "POLICY_REF"}}
        /\ d.decision = "REJECT" => \E e \in d.evidence : Cited(e)
    <3>1. \A e \in f.evidence : Found(m, e)
      BY <1>1
    <3> QED
      BY <2>1, <3>1, OverlayEvidence
  <2> QED
    BY <2>2, <1>2
<1>4. record.decision = "REJECT" => record.policy # {} /\ record.evidence # {}
  BY <1>3 DEF Cited, PolicyCitation, PlainEvidence
<1>5. m.snapshot.brand = "blacklisted" => "R1_HARD_RULE" \in record.overrides
  <2> SUFFICES ASSUME m.snapshot.brand = "blacklisted"
               PROVE  "R1_HARD_RULE" \in record.overrides
    OBVIOUS
  <2>1. d = HardRuleReject(f)
    BY <1>1 DEF HardRuleHit, DecisionOverlay
  <2> QED
    BY <2>1, <1>2 DEF HardRuleReject, BuildDecision
<1>6. record.policy \subseteq Policies
  <2> SUFFICES ASSUME NEW e \in record.evidence, e.type = "POLICY_REF"
               PROVE  e.policy \in Policies
    BY <1>3
  <2>1. CASE Found(m, e)
    <3>1. PICK cl \in Clauses :
            e = PlainEvidence("POLICY_REF", "PolicySearchTool", cl, PolicyOf[cl])
      BY <2>1 DEF Found, RuleHitMeasurement, MeasurementOf, PlainEvidence
    <3>2. e.policy = PolicyOf[cl]
      BY <3>1 DEF PlainEvidence
    <3> QED
      BY <3>2 DEF Policies
  <2>2. CASE Cited(e)
    BY <2>2 DEF Cited, PolicyCitation, PlainEvidence, Policies
  <2> QED
    BY <2>1, <2>2, <1>3
<1>7. \A e \in record.evidence : e.type = "CASE_PRECEDENT" => e.ref \in Precedents
  <2> SUFFICES ASSUME NEW e \in record.evidence, e.type = "CASE_PRECEDENT"
               PROVE  e.ref \in Precedents
    OBVIOUS
  <2>1. CASE Found(m, e)
    BY <2>1 DEF Found, RuleHitMeasurement, MeasurementOf, PlainEvidence
  <2>2. CASE Cited(e)
    BY <2>2 DEF Cited, PolicyCitation, PlainEvidence
  <2> QED
    BY <2>1, <2>2, <1>3
<1>8. record.decision = "PASS" => record.evidence # {}
  <2> SUFFICES ASSUME d.decision = "PASS"
               PROVE  f.evidence # {}
    BY <1>2, <1>3
  <2>1. AbstentionCodes(f) = {}
    <3>1. d # HardRuleReject(f) /\ d # HumanReview(f, OverlayCodes(f, proposal))
      BY DEF HardRuleReject, HumanReview, BuildDecision
    <3> QED
      BY <3>1, OverlayWays
  <2>2. "listing_registry" \in CoveredDimensions(f.evidence)
    BY <2>1, NoAbstention DEF RequiredDimensions
  <2> QED
    BY <2>2 DEF CoveredDimensions, Measurements, HasCitableEvidence
<1>9. record.overBudget /\ record.decision \in AutoDecisions
        => record.overrides = {"R1_HARD_RULE"}
  <2> SUFFICES ASSUME spent = "over", d.decision \in AutoDecisions
               PROVE  d.overrides = {"R1_HARD_RULE"}
    BY <1>2
  <2>1. AbstentionCodes(f) # {}
    BY <1>1 DEF AbstentionCodes
  <2>2. d = HardRuleReject(f)
    BY <2>1, OverlayWays DEF HumanReview, BuildDecision, AutoDecisions
  <2> QED
    BY <2>2 DEF HardRuleReject, BuildDecision
<1> DEFINE failed == ProcessFailures("agent", record, m)
<1>10. ASSUME NEW code \in failed
       PROVE  code = "BUDGET_EXCEEDED" /\ record.overBudget
  BY <1>2, <1>4, <1>5, <1>6, <1>7, <1>8 DEF ProcessFailures
<1> QED
  <2> HIDE DEF failed
  <2>1. failed \subseteq {"BUDGET_EXCEEDED"}
    BY <1>10
  <2>2. failed # {} /\ record.decision \in AutoDecisions => record.overrides = {"R1_HARD_RULE"}
    BY <1>9, <1>10
  <2> QED
    BY <2>1, <2>2 DEF failed

------------------------------------------------------------------------------
(* The dataset, the plan and the list of completed arms *)

LEMMA IdsFinite == IsFiniteSet(Ids)
<1>1. CaseOrder \in [1..Len(CaseOrder) -> Ids] /\ Len(CaseOrder) \in Nat
  BY CaseOrderAssumption
<1>2. DOMAIN CaseOrder = 1..Len(CaseOrder)
  BY <1>1
<1>3. CaseOrder \in Surjection(1..Len(CaseOrder), Ids)
  BY <1>1, <1>2 DEF Surjection, Ids
<1>4. IsFiniteSet(1..Len(CaseOrder))
  BY <1>1, FS_Interval
<1> QED
  BY <1>3, <1>4, FS_Surjection

LEMMA SeqWiden ==
  ASSUME NEW S, NEW T, S \subseteq T, NEW s \in Seq(S)
  PROVE  s \in Seq(T)
<1>1. Len(s) \in Nat /\ s \in [1..Len(s) -> S]
  OBVIOUS
<1>2. s \in [1..Len(s) -> T]
  BY <1>1
<1> QED
  BY <1>1, <1>2

LEMMA PlanShape ==
  ASSUME NEW a \in Arguments
  PROVE  /\ Len(Plan(a)) \in Nat /\ Len(Plan(a)) >= 3
         /\ DOMAIN Plan(a) = 1..Len(Plan(a))
         /\ Plan(a)[1] = "rule" /\ Plan(a)[2] = "single" /\ Plan(a)[3] = "agent"
         /\ \A i \in DOMAIN Plan(a) : i > 3 => Plan(a)[i] \in PerturbedArms \cup {"rerun"}
<1>1. a.passK \in Int /\ a.metamorphic \in BOOLEAN
  BY ArgumentsAssumption
<1> DEFINE perturbed == IF a.metamorphic THEN <<"neutral", "paraphrase", "amplified">> ELSE <<>>
           repeated == [i \in 1..(a.passK - 1) |-> "rerun"]
           Later == PerturbedArms \cup {"rerun"}
<1>2. perturbed \in Seq(Later)
  <2>1. <<"neutral", "paraphrase", "amplified">> \in Seq(Later)
    <3>1. "neutral" \in Later /\ "paraphrase" \in Later /\ "amplified" \in Later
      BY DEF PerturbedArms
    <3> HIDE DEF Later
    <3> QED
      BY <3>1
  <2>2. <<>> \in Seq(Later)
    BY EmptySeq
  <2> QED
    BY <2>1, <2>2
<1>3. repeated \in Seq(Later)
  <2> DEFINE n == IF a.passK >= 1 THEN a.passK - 1 ELSE 0
  <2>1. n \in Nat /\ 1..(a.passK - 1) = 1..n
    BY <1>1
  <2>2. repeated \in [1..n -> Later]
    BY <2>1
  <2> HIDE DEF n, repeated
  <2>3. Len(repeated) = n
    BY <2>1, <2>2
  <2> QED
    BY <2>1, <2>2, <2>3
<1> HIDE DEF perturbed, repeated
<1> DEFINE later == perturbed \o repeated
           first == <<"rule", "single", "agent">>
<1>4. later \in Seq(Later)
  BY <1>2, <1>3, ConcatProperties
<1>5. Plan(a) = first \o later
  <2>1. Plan(a) = first \o perturbed \o repeated
    BY DEF Plan, perturbed, repeated
  <2> DEFINE T == Later \cup {"rule", "single", "agent"}
  <2>2. first \in Seq(T)
    <3>1. "rule" \in T /\ "single" \in T /\ "agent" \in T
      OBVIOUS
    <3> HIDE DEF T
    <3> QED
      BY <3>1
  <2>3. perturbed \in Seq(T) /\ repeated \in Seq(T)
    <3>1. Later \subseteq T
      OBVIOUS
    <3> QED
      BY <3>1, <1>2, <1>3, SeqWiden
  <2> HIDE DEF T, first
  <2> QED
    BY <2>1, <2>2, <2>3, ConcatAssociative
<1> HIDE DEF later
<1> QED
  BY <1>4, <1>5

IsList(s) == s \in Seq({s[i] : i \in DOMAIN s})

LEMMA EmptyList == IsList(<<>>) /\ Len(<<>>) = 0 /\ DOMAIN <<>> = {}
BY EmptySeq DEF IsList

LEMMA ListAppended ==
  ASSUME NEW s, IsList(s), NEW e
  PROVE  /\ IsList(Append(s, e)) /\ Len(s) \in Nat
         /\ DOMAIN s = 1..Len(s) /\ Len(Append(s, e)) = Len(s) + 1
         /\ DOMAIN Append(s, e) = 1..(Len(s) + 1)
         /\ \A i \in DOMAIN s : Append(s, e)[i] = s[i]
         /\ Append(s, e)[Len(s) + 1] = e
<1> DEFINE S == {s[i] : i \in DOMAIN s}
           T == S \cup {e}
<1>1. s \in Seq(T) /\ e \in T
  <2>1. s \in Seq(S)
    BY DEF IsList
  <2> HIDE DEF S
  <2> QED
    BY <2>1, SeqWiden
<1> HIDE DEF T
<1>2. /\ Append(s, e) \in Seq(T) /\ Len(Append(s, e)) = Len(s) + 1
      /\ \A i \in 1..Len(s) : Append(s, e)[i] = s[i]
      /\ Append(s, e)[Len(s) + 1] = e
  BY <1>1, AppendProperties
<1>3. Len(s) \in Nat /\ DOMAIN s = 1..Len(s)
  BY <1>1
<1> DEFINE r == Append(s, e)
<1> HIDE DEF r
<1>4. r \in Seq(T)
  BY <1>2 DEF r
<1>5. r \in [1..Len(r) -> T] /\ Len(r) \in Nat /\ DOMAIN r = 1..Len(r)
  BY <1>4
<1>6. r \in Seq({r[i] : i \in DOMAIN r})
  <2>1. r \in [1..Len(r) -> {r[i] : i \in DOMAIN r}]
    BY <1>5
  <2> DEFINE R == {r[i] : i \in DOMAIN r}
  <2> HIDE DEF R
  <2> QED
    BY <2>1, <1>5 DEF R
<1> QED
  BY <1>2, <1>3, <1>5, <1>6 DEF r, IsList

------------------------------------------------------------------------------
(* The work of an evaluation *)

Working == {"audit", "arms"}

(* The arm under way. *)
Arm == Plan(args)[Len(results) + 1]

(* A case waits, runs or has settled, never two of them.                    *)
SlotsKnown ==
  /\ waiting \subseteq Ids /\ running \subseteq Ids /\ basket \subseteq Ids
  /\ waiting \cap running = {}
  /\ (waiting \cup running) \cap DOMAIN outcome = {}
  /\ Cardinality(running) <= Slots(args)
  /\ status \notin Working => waiting = {} /\ running = {}

(* The cases of the arm under way are due; those of an arm that loses none  *)
(* stay complete; and what has settled is an outcome of the arm.            *)
ArmKnown ==
  /\ status = "audit" => DOMAIN outcome \subseteq Ids
  /\ status = "start" => outcome = <<>>
  /\ status = "arms" =>
       /\ Len(results) < Len(Plan(args))
       /\ waiting \cup running \cup DOMAIN outcome \subseteq CasesOf(args, Arm, results)
       /\ Arm \in {"rule", "single"} =>
            SelectCases(args) \subseteq waiting \cup running \cup DOMAIN outcome
       /\ \A c \in DOMAIN outcome : outcome[c] \in OutcomesOf(Arm, dataset[c])

(* The same of every completed arm. *)
ResultsKnown ==
  /\ IsList(results) /\ Len(results) <= Len(Plan(args))
  /\ status \in {"audit", "start"} => results = <<>>
  /\ status \in {"report", "reported"} => Len(results) = Len(Plan(args))
  /\ \A i \in DOMAIN results :
       /\ DOMAIN results[i] \subseteq CasesOf(args, Plan(args)[i], results)
       /\ Plan(args)[i] \in {"rule", "single"} => SelectCases(args) \subseteq DOMAIN results[i]
       /\ \A c \in DOMAIN results[i] : results[i][c] \in OutcomesOf(Plan(args)[i], dataset[c])

WorkInv ==
  /\ dataset \in Datasets /\ args \in Arguments
  /\ status \in {"audit", "start", "arms", "report", "reported", "raised"}
  /\ SlotsKnown /\ ArmKnown /\ ResultsKnown
  /\ status = "reported" => report = Figures

LEMMA CasesSelected ==
  ASSUME NEW a, NEW arm, NEW done
  PROVE  /\ CasesOf(a, arm, done) \subseteq SelectCases(a) /\ SelectCases(a) \subseteq Ids
         /\ arm \notin PerturbedArms => CasesOf(a, arm, done) = SelectCases(a)
BY DEF CasesOf, SelectCases

LEMMA SlotsNumber ==
  ASSUME NEW a \in Arguments
  PROVE  Slots(a) \in Nat /\ Slots(a) >= 1
BY ArgumentsAssumption DEF Slots

LEMMA SubsetFinite ==
  ASSUME NEW S, S \subseteq Ids
  PROVE  IsFiniteSet(S) /\ Cardinality(S) \in Nat
BY IdsFinite, FS_Subset, FS_CardinalityType

(* The figures are computed from what no longer changes. *)
LEMMA FiguresUnchanged ==
  ASSUME UNCHANGED <<inputs, basket, results>>
  PROVE  Figures' = Figures
<1>1. dataset' = dataset /\ args' = args /\ basket' = basket /\ results' = results
  BY DEF inputs
<1>2. \A arm : ResultOf(arm)' = ResultOf(arm)
  BY <1>1 DEF ResultOf
<1>3. \A arm : Asserted(arm)' = Asserted(arm)
  BY <1>1, <1>2 DEF Asserted
<1>4. \A arm : Headline(arm)' = Headline(arm)
  BY <1>1, <1>2, <1>3 DEF Headline
<1>5. Compared' = Compared
  BY <1>1, <1>2 DEF Compared
<1>6. Violations' = Violations
  BY <1>1, <1>2, <1>5 DEF Violations
<1>7. \A c : DecisionsOf(c)' = DecisionsOf(c)
  BY <1>1 DEF DecisionsOf
<1> QED
  BY <1>1, <1>2, <1>4, <1>5, <1>6, <1>7 DEF Figures

LEMMA ResultsStay ==
  ASSUME ResultsKnown, UNCHANGED <<inputs, results>>,
         status' \in {"audit", "start"} => results = <<>>,
         status' \in {"report", "reported"} => Len(results) = Len(Plan(args))
  PROVE  ResultsKnown'
BY DEF ResultsKnown, IsList, inputs

LEMMA WorkInit == Init => WorkInv
<1> SUFFICES ASSUME Init
             PROVE  WorkInv
  OBVIOUS
<1>1. dataset \in Datasets /\ args \in Arguments /\ status \in {"audit", "start"}
        /\ results = <<>> /\ outcome = <<>> /\ running = {} /\ basket = {}
        /\ waiting \subseteq Ids /\ (status = "start" => waiting = {})
  BY DEF Init
<1>2. DOMAIN outcome = {} /\ DOMAIN results = {} /\ Len(results) = 0 /\ IsList(results)
  BY <1>1, EmptyList
<1>3. SlotsKnown
  BY <1>1, <1>2, FS_EmptySet, SlotsNumber DEF SlotsKnown, Working
<1>4. ArmKnown
  BY <1>1, <1>2 DEF ArmKnown
<1>5. ResultsKnown
  BY <1>1, <1>2, PlanShape DEF ResultsKnown
<1> QED
  BY <1>1, <1>3, <1>4, <1>5 DEF WorkInv

LEMMA WorkAdmit ==
  ASSUME WorkInv, Admit
  PROVE  WorkInv'
<1>1. PICK c \in waiting : running' = running \cup {c} /\ waiting' = waiting \ {c}
  BY DEF Admit
<1>2. /\ Cardinality(running) < Slots(args) /\ UNCHANGED <<dataset, args>>
      /\ UNCHANGED <<basket, status, outcome, results, report>>
  BY DEF Admit, inputs
<1>3. status \in Working
  BY <1>1 DEF WorkInv, SlotsKnown
<1>4. Cardinality(running') <= Slots(args)
  <2>1. IsFiniteSet(running) /\ Cardinality(running) \in Nat
    BY SubsetFinite DEF WorkInv, SlotsKnown
  <2>2. c \notin running
    BY DEF WorkInv, SlotsKnown
  <2>3. Cardinality(running \cup {c}) = Cardinality(running) + 1
    BY <2>1, <2>2, FS_AddElement
  <2>4. Slots(args) \in Nat
    BY SlotsNumber DEF WorkInv
  <2> QED
    BY <1>1, <1>2, <2>1, <2>3, <2>4
<1>5. SlotsKnown'
  BY <1>1, <1>2, <1>3, <1>4 DEF WorkInv, SlotsKnown
<1>6. ArmKnown'
  <2>1. waiting' \cup running' = waiting \cup running
    BY <1>1
  <2> QED
    BY <1>2, <1>3, <2>1 DEF WorkInv, ArmKnown, Arm, Working
<1>7. ResultsKnown'
  BY <1>2, ResultsStay DEF WorkInv, ResultsKnown, inputs
<1> QED
  BY <1>2, <1>3, <1>5, <1>6, <1>7 DEF WorkInv, Working

(* A case that gives its slot back. *)
LEMMA SlotReturned ==
  ASSUME WorkInv, NEW c \in running, running' = running \ {c}, UNCHANGED <<inputs, waiting, basket, status>>,
         DOMAIN outcome' \subseteq DOMAIN outcome \cup {c}
  PROVE  SlotsKnown' /\ status \in Working
<1>1. dataset' = dataset /\ args' = args
  BY DEF inputs
<1>2. IsFiniteSet(running) /\ Cardinality(running) \in Nat /\ Slots(args) \in Nat
  BY SubsetFinite, SlotsNumber DEF WorkInv, SlotsKnown
<1>3. Cardinality(running') <= Cardinality(running) /\ Cardinality(running') \in Nat
  BY <1>2, FS_Subset, FS_CardinalityType
<1>4. Cardinality(running') <= Slots(args)
  BY <1>2, <1>3 DEF WorkInv, SlotsKnown
<1> QED
  BY <1>1, <1>4 DEF WorkInv, SlotsKnown

LEMMA WorkCheck ==
  ASSUME WorkInv, NEW c \in Ids, Check(c)
  PROVE  WorkInv'
<1>1. PICK o : Settle(c, o)
  BY DEF Check
<1>2. /\ status = "audit" /\ c \in running /\ running' = running \ {c}
      /\ UNCHANGED <<dataset, args>>
      /\ UNCHANGED <<basket, status, waiting, results, report>>
      /\ DOMAIN outcome' = DOMAIN outcome \cup {c}
  BY <1>1 DEF Check, Settle, inputs
<1>3. SlotsKnown'
  BY <1>2, SlotReturned DEF inputs
<1>4. ArmKnown'
  BY <1>2 DEF WorkInv, ArmKnown
<1>5. ResultsKnown'
  BY <1>2, ResultsStay DEF WorkInv, ResultsKnown, inputs
<1> QED
  BY <1>2, <1>3, <1>4, <1>5 DEF WorkInv

LEMMA WorkFinish ==
  ASSUME WorkInv, NEW c \in Ids, Finish(c)
  PROVE  WorkInv'
<1>1. PICK o \in OutcomesOf(Plan(args)[Len(results) + 1], dataset[c]) : Settle(c, o)
  BY DEF Finish
<1>2. /\ status = "arms" /\ c \in running /\ running' = running \ {c}
      /\ UNCHANGED <<dataset, args>>
      /\ UNCHANGED <<basket, status, waiting, results, report>>
      /\ DOMAIN outcome' = DOMAIN outcome \cup {c}
      /\ \A x \in DOMAIN outcome' : outcome'[x] = IF x = c THEN o ELSE outcome[x]
  BY <1>1 DEF Finish, Settle, inputs
<1>3. SlotsKnown'
  BY <1>2, SlotReturned DEF inputs
<1>4. ArmKnown'
  <2>1. waiting' \cup running' \cup DOMAIN outcome' = waiting \cup running \cup DOMAIN outcome
    BY <1>2
  <2>2. Arm' = Arm
    BY <1>2 DEF Arm
  <2>3. \A x \in DOMAIN outcome' : outcome'[x] \in OutcomesOf(Arm, dataset[x])
    BY <1>1, <1>2 DEF WorkInv, ArmKnown, Arm
  <2> QED
    BY <1>2, <2>1, <2>2, <2>3 DEF WorkInv, ArmKnown
<1>5. ResultsKnown'
  BY <1>2, ResultsStay DEF WorkInv, ResultsKnown, inputs
<1> QED
  BY <1>2, <1>3, <1>4, <1>5 DEF WorkInv

LEMMA WorkFail ==
  ASSUME WorkInv, NEW c \in Ids, Fail(c)
  PROVE  WorkInv'
<1>1. /\ c \in running /\ running' = running \ {c}
      /\ status = "arms" => Arm \notin {"rule", "single"}
      /\ UNCHANGED <<dataset, args>>
      /\ UNCHANGED <<basket, status, waiting, outcome, results, report>>
  BY DEF Fail, Arm, inputs
<1>2. SlotsKnown' /\ status \in Working
  BY <1>1, SlotReturned DEF inputs
<1>3. ArmKnown'
  BY <1>1, <1>2 DEF WorkInv, ArmKnown, Arm, Working
<1>4. ResultsKnown'
  BY <1>1, ResultsStay DEF WorkInv, ResultsKnown, inputs
<1> QED
  BY <1>1, <1>2, <1>3, <1>4 DEF WorkInv, Working

LEMMA WorkSummarize ==
  ASSUME WorkInv, Summarize
  PROVE  WorkInv'
<1>1. /\ status = "audit" /\ status' = "start" /\ waiting = {} /\ running = {}
      /\ outcome' = <<>> /\ basket' \subseteq DOMAIN outcome
      /\ UNCHANGED <<dataset, args>> /\ UNCHANGED <<waiting, running, results>>
  BY DEF Summarize, AllSettled, inputs
<1>2. SlotsKnown'
  BY <1>1, EmptyList DEF WorkInv, SlotsKnown, ArmKnown
<1>3. ArmKnown'
  BY <1>1 DEF ArmKnown
<1>4. ResultsKnown'
  BY <1>1, ResultsStay DEF WorkInv, ResultsKnown, inputs
<1> QED
  BY <1>1, <1>2, <1>3, <1>4 DEF WorkInv

LEMMA WorkStart ==
  ASSUME WorkInv, Start
  PROVE  WorkInv'
<1>1. /\ status = "start" /\ waiting = {} /\ running = {} /\ outcome = <<>> /\ results = <<>>
      /\ UNCHANGED <<dataset, args>> /\ UNCHANGED <<basket, running, outcome, results>>
  BY DEF Start, WorkInv, SlotsKnown, ArmKnown, ResultsKnown, Working, inputs
<1>2. \/ status' = "raised" /\ waiting' = {}
      \/ status' = "arms" /\ waiting' = SelectCases(args)
  BY <1>1 DEF Start
<1>3. DOMAIN outcome = {} /\ Len(results) = 0
  BY <1>1, EmptyList
<1>4. SlotsKnown'
  BY <1>1, <1>2, <1>3, CasesSelected DEF WorkInv, SlotsKnown, Working
<1>5. ArmKnown'
  <2> SUFFICES ASSUME status' = "arms"
               PROVE  ArmKnown'
    BY <1>2 DEF ArmKnown
  <2>1. Arm' = "rule" /\ 0 < Len(Plan(args))
    BY <1>1, <1>3, PlanShape DEF Arm, WorkInv
  <2>2. CasesOf(args, "rule", results) = SelectCases(args)
    BY CasesSelected DEF PerturbedArms
  <2> QED
    BY <1>1, <1>2, <1>3, <2>1, <2>2 DEF ArmKnown
<1>6. ResultsKnown'
  BY <1>1, <1>2, ResultsStay DEF WorkInv, inputs
<1> QED
  BY <1>1, <1>2, <1>4, <1>5, <1>6 DEF WorkInv

(* A completed arm joins the results, and the next one is due. *)
LEMMA WorkGathered ==
  ASSUME WorkInv, Gathered
  PROVE  WorkInv'
<1>1. /\ status = "arms" /\ waiting = {} /\ running = {}
      /\ results' = Append(results, outcome) /\ outcome' = <<>>
      /\ UNCHANGED <<dataset, args>> /\ UNCHANGED <<basket, running>>
  BY DEF Gathered, AllSettled, inputs
<1>2. \/ /\ Len(results') < Len(Plan(args)) /\ status' = "arms"
         /\ waiting' = CasesOf(args, Plan(args)[Len(results') + 1], results')
      \/ /\ ~(Len(results') < Len(Plan(args))) /\ status' = "report" /\ waiting' = {}
  BY <1>1 DEF Gathered
<1> DEFINE n == Len(results)
<1>3. /\ IsList(results') /\ n \in Nat /\ DOMAIN results = 1..n
      /\ Len(results') = n + 1 /\ DOMAIN results' = 1..(n + 1)
      /\ \A i \in 1..n : results'[i] = results[i]
      /\ results'[n + 1] = outcome
  <2> DEFINE r == Append(results, outcome)
  <2>1. /\ IsList(r) /\ n \in Nat /\ DOMAIN results = 1..n
        /\ Len(r) = n + 1 /\ DOMAIN r = 1..(n + 1)
        /\ \A i \in 1..n : r[i] = results[i]
        /\ r[n + 1] = outcome
    BY ListAppended DEF WorkInv, ResultsKnown
  <2> HIDE DEF r
  <2>2. results' = r
    BY <1>1 DEF r
  <2> QED
    BY <2>1, <2>2
<1>4. n < Len(Plan(args)) /\ Len(Plan(args)) \in Nat /\ args \in Arguments
  BY <1>1, PlanShape DEF WorkInv, ArmKnown
<1>5. DOMAIN outcome' = {}
  BY <1>1, EmptyList
<1>6. SlotsKnown'
  <2>1. waiting' \subseteq Ids
    BY <1>2, CasesSelected
  <2> QED
    BY <1>1, <1>2, <1>5, <2>1 DEF WorkInv, SlotsKnown, Working
<1>7. ArmKnown'
  <2> SUFFICES ASSUME status' = "arms"
               PROVE  ArmKnown'
    BY <1>2 DEF ArmKnown
  <2>1. Arm' = Plan(args)[Len(results') + 1]
    BY <1>1 DEF Arm
  <2>2. waiting' = CasesOf(args, Arm', results')
    BY <1>2, <2>1
  <2>3. Arm' \in {"rule", "single"} => SelectCases(args) \subseteq waiting'
    BY <2>2, CasesSelected DEF PerturbedArms
  <2> QED
    BY <1>1, <1>2, <1>5, <2>2, <2>3 DEF ArmKnown
<1>8. ResultsKnown'
  <2>1. ASSUME NEW i \in 1..(n + 1)
        PROVE  /\ DOMAIN results'[i] \subseteq CasesOf(args, Plan(args)[i], results')
               /\ Plan(args)[i] \in {"rule", "single"} => SelectCases(args) \subseteq DOMAIN results'[i]
               /\ \A c \in DOMAIN results'[i] : results'[i][c] \in OutcomesOf(Plan(args)[i], dataset[c])
    <3>1. /\ DOMAIN results'[i] \subseteq CasesOf(args, Plan(args)[i], results)
          /\ Plan(args)[i] \in {"rule", "single"} => SelectCases(args) \subseteq DOMAIN results'[i]
          /\ \A c \in DOMAIN results'[i] : results'[i][c] \in OutcomesOf(Plan(args)[i], dataset[c])
      <4>1. CASE i \in 1..n
        BY <1>3, <4>1 DEF WorkInv, ResultsKnown
      <4>2. CASE i = n + 1
        BY <1>1, <1>3, <4>2 DEF WorkInv, ArmKnown, Arm
      <4> QED
        BY <1>3, <4>1, <4>2
    <3>2. CasesOf(args, Plan(args)[i], results) = CasesOf(args, Plan(args)[i], results')
      <4>1. CASE Plan(args)[i] \in PerturbedArms
        <5>1. i \in DOMAIN Plan(args) /\ i \notin {1, 2, 3}
          BY <1>3, <1>4, <4>1, PlanShape DEF PerturbedArms
        <5>2. 3 \in 1..n
          BY <1>3, <5>1
        <5>3. results'[3] = results[3]
          BY <1>3, <5>2
        <5> QED
          BY <5>3 DEF CasesOf
      <4>2. CASE Plan(args)[i] \notin PerturbedArms
        BY <4>2, CasesSelected
      <4> QED
        BY <4>1, <4>2
    <3> QED
      BY <3>1, <3>2
  <2>2. n + 1 <= Len(Plan(args)) /\ (status' = "report" => n + 1 = Len(Plan(args)))
    BY <1>2, <1>3, <1>4
  <2> QED
    BY <1>1, <1>2, <1>3, <2>1, <2>2 DEF ResultsKnown, IsList
<1> QED
  BY <1>1, <1>2, <1>6, <1>7, <1>8 DEF WorkInv

LEMMA WorkReport ==
  ASSUME WorkInv, Report
  PROVE  WorkInv'
<1>1. /\ status = "report" /\ status' \in {"reported", "raised"}
      /\ UNCHANGED <<dataset, args>>
      /\ UNCHANGED <<basket, waiting, running, outcome, results>>
      /\ status' = "reported" => report' = Figures
  BY DEF Report, inputs
<1>2. Figures' = Figures
  BY <1>1, FiguresUnchanged DEF inputs
<1>3. SlotsKnown'
  BY <1>1 DEF WorkInv, SlotsKnown, Working
<1>4. ArmKnown'
  BY <1>1 DEF ArmKnown
<1>5. ResultsKnown'
  BY <1>1, ResultsStay DEF WorkInv, ResultsKnown, inputs
<1> QED
  BY <1>1, <1>2, <1>3, <1>4, <1>5 DEF WorkInv

LEMMA WorkStutter ==
  ASSUME WorkInv, UNCHANGED vars
  PROVE  WorkInv'
<1>1. /\ UNCHANGED <<dataset, args>> /\ UNCHANGED inputs
      /\ UNCHANGED <<basket, status, waiting, running, outcome, results, report>>
  BY DEF vars, inputs
<1>2. Figures' = Figures
  BY <1>1, FiguresUnchanged
<1>3. SlotsKnown'
  BY <1>1 DEF WorkInv, SlotsKnown, Working
<1>4. ArmKnown'
  BY <1>1 DEF WorkInv, ArmKnown, Arm
<1>5. ResultsKnown'
  BY <1>1, ResultsStay DEF WorkInv, ResultsKnown
<1> QED
  BY <1>1, <1>2, <1>3, <1>4, <1>5 DEF WorkInv

(* What is known of the work of an evaluation is kept by every step. *)
LEMMA WorkInvariant == Spec => []WorkInv
<1>1. WorkInv /\ [Next]_vars => WorkInv'
  BY WorkAdmit, WorkCheck, WorkFinish, WorkFail, WorkSummarize, WorkStart, WorkGathered,
     WorkReport, WorkStutter DEF Next
<1> QED
  BY WorkInit, <1>1, PTL DEF Spec

------------------------------------------------------------------------------
(* The properties of the records *)

(* The case a record is about, and what the record can be. *)
LEMMA RecordsOfArm ==
  ASSUME WorkInv, NEW arm, Completed(arm)
  PROVE  /\ DOMAIN ResultOf(arm) \subseteq SelectCases(args)
         /\ arm \in {"rule", "single"} => DOMAIN ResultOf(arm) = SelectCases(args)
         /\ \A c \in DOMAIN ResultOf(arm) : /\ Constructed(dataset[c])
                                            /\ ResultOf(arm)[c] \in OutcomesOf(arm, dataset[c])
<1>1. PICK i \in DOMAIN results : Plan(args)[i] = arm /\ ResultOf(arm) = results[i]
  BY DEF Completed, ResultOf
<1>2. DOMAIN results[i] \subseteq SelectCases(args) /\ SelectCases(args) \subseteq Ids
  BY CasesSelected DEF WorkInv, ResultsKnown
<1>3. \A c \in Ids : Constructed(dataset[c])
  BY DatasetsAssumption, ManifestsConstructed DEF WorkInv
<1> QED
  BY <1>1, <1>2, <1>3 DEF WorkInv, ResultsKnown

(* The state of an evaluation stays in its types: no case is in two places, *)
(* no more cases run than there are slots, and a perturbed run has only     *)
(* cases with an agent record.                                              *)
THEOREM TypeCorrect == Spec => []TypeOK
<1>1. ASSUME WorkInv
      PROVE  TypeOK
  <2>1. /\ dataset \in Datasets /\ args \in Arguments
        /\ basket \subseteq Ids /\ running \subseteq Ids
        /\ status \in {"audit", "start", "arms", "report", "reported", "raised"}
        /\ Cardinality(running) <= Slots(args)
        /\ waiting \subseteq Ids \ (running \cup DOMAIN outcome)
        /\ running \cap DOMAIN outcome = {}
        /\ Len(results) <= Len(Plan(args))
    BY <1>1 DEF WorkInv, SlotsKnown, ResultsKnown
  <2>2. ASSUME NEW i \in DOMAIN results
        PROVE  /\ DOMAIN results[i] \subseteq Selected
               /\ Plan(args)[i] \in PerturbedArms => DOMAIN results[i] \subseteq DOMAIN results[3]
    BY <1>1, <2>2 DEF WorkInv, ResultsKnown, CasesOf, Selected
  <2> QED
    BY <2>1, <2>2 DEF TypeOK
<1> QED
  BY <1>1, WorkInvariant, PTL

(* On every case that can be built, the automatic decisions of the agent by *)
(* the hard rule or after a survey of the case's own objects are its label, *)
(* and a gate turns the label down only after a survey of other objects.    *)
THEOREM LabelsCorrect == Spec => []DecidesAsLabelled
<1>1. ASSUME WorkInv
      PROVE  DecidesAsLabelled
  <2> SUFFICES ASSUME Completed("agent"), NEW c \in DOMAIN ResultOf("agent")
               PROVE  LET record == ResultOf("agent")[c]
                          label == LabelOf(dataset[c]).decision
                      IN  /\ record.decision \in AutoDecisions
                               /\ (SurveyedOwn(record) \/ "R1_HARD_RULE" \in record.overrides)
                             => record.decision = label
                          /\ ~SurveyedOther(record) =>
                               /\ "R4_PASS_GATE_FAIL" \in record.overrides => label # "PASS"
                               /\ "R2_REJECT_GATE_FAIL" \in record.overrides => label # "REJECT"
    BY DEF DecidesAsLabelled
  <2>1. Constructed(dataset[c]) /\ ResultOf("agent")[c] \in OutcomesOf("agent", dataset[c])
    BY <1>1, RecordsOfArm
  <2>2. ResultOf("agent")[c] \in AgentRecords(dataset[c])
    BY <2>1 DEF OutcomesOf
  <2> QED
    BY <2>1, <2>2, AgentAgainstLabel
<1> QED
  BY <1>1, WorkInvariant, PTL

(* The rule arm never rejects what is not to be rejected, and passes        *)
(* wrongly only what no snapshot shows, for every case that can be built.   *)
THEOREM BlindSpotCorrect == Spec => []BlindSpot
<1>1. ASSUME WorkInv
      PROVE  BlindSpot
  <2> SUFFICES ASSUME Completed("rule"), NEW c \in DOMAIN ResultOf("rule")
               PROVE  LET decision == ResultOf("rule")[c].decision
                          label == LabelOf(dataset[c]).decision
                      IN  /\ decision = "REJECT" => label = "REJECT"
                          /\ decision = "PASS" /\ label # "PASS" =>
                               /\ label = "HUMAN_REVIEW"
                               /\ MerchantDirty(dataset[c]) \/ dataset[c].mismatch
    BY DEF BlindSpot
  <2>1. Constructed(dataset[c]) /\ ResultOf("rule")[c] \in OutcomesOf("rule", dataset[c])
    BY <1>1, RecordsOfArm
  <2>2. ResultOf("rule")[c] = RuleRecord(dataset[c])
    BY <2>1 DEF OutcomesOf
  <2> QED
    BY <2>1, <2>2, RuleArmAgainstLabel
<1> QED
  BY <1>1, WorkInvariant, PTL

(* The agent can break no process assertion but the one on the budget, and  *)
(* of its automatic decisions only the hard rule's can break that one.      *)
THEOREM AssertionsCorrect == Spec => []AssertionsQuiet
<1>1. ASSUME WorkInv
      PROVE  AssertionsQuiet
  <2> SUFFICES ASSUME Completed("agent"), NEW c \in DOMAIN ResultOf("agent")
               PROVE  LET record == ResultOf("agent")[c]
                          failed == ProcessFailures("agent", record, dataset[c])
                      IN  /\ failed \subseteq {"BUDGET_EXCEEDED"}
                          /\ failed # {} /\ record.decision \in AutoDecisions
                               => record.overrides = {"R1_HARD_RULE"}
    BY DEF AssertionsQuiet
  <2>1. Constructed(dataset[c]) /\ ResultOf("agent")[c] \in OutcomesOf("agent", dataset[c])
    BY <1>1, RecordsOfArm
  <2>2. ResultOf("agent")[c] \in AgentRecords(dataset[c])
    BY <2>1 DEF OutcomesOf
  <2> QED
    BY <2>1, <2>2, AgentAssertions
<1> QED
  BY <1>1, WorkInvariant, PTL

------------------------------------------------------------------------------
(* The report *)

LEMMA CardinalityOrder ==
  ASSUME NEW S, NEW T, S \subseteq T, T \subseteq Ids
  PROVE  Cardinality(S) \in Nat /\ Cardinality(T) \in Nat /\ Cardinality(S) <= Cardinality(T)
BY SubsetFinite, FS_Subset

(* The figures of an arm, each within its denominator. *)
LEMMA SelectiveBounds ==
  ASSUME NEW records, DOMAIN records \subseteq Ids, NEW set, NEW asserted, NEW excluded,
         NEW h, h = Selective(records, set, asserted, excluded)
  PROVE  /\ h.total = Cardinality(DOMAIN records \ excluded)
         /\ h.falseRejects <= h.autoWrong /\ h.autoWrong <= h.autoDecided
         /\ h.autoDecided <= h.total
         /\ h.falseRejects <= h.truthPass /\ h.truthPass <= h.total
<1> DEFINE ids == DOMAIN records \ excluded
           grade == [c \in ids |-> GradeCase(records[c], LabelOf(set[c]))]
           auto == {c \in ids : grade[c].predicted \in AutoDecisions}
           clean == {c \in ids : grade[c].truth = "PASS"}
           wrong == {c \in auto : ~grade[c].match \/ c \in asserted}
           rejected == {c \in clean : grade[c].predicted = "REJECT"}
<1>1. /\ h.total = Cardinality(ids) /\ h.autoDecided = Cardinality(auto)
      /\ h.autoWrong = Cardinality(wrong) /\ h.truthPass = Cardinality(clean)
      /\ h.falseRejects = Cardinality(rejected)
  BY DEF Selective
<1>2. \A c \in ids : grade[c].match = (grade[c].predicted = grade[c].truth)
  BY DEF GradeCase
<1> HIDE DEF grade
<1>3. rejected \subseteq wrong
  BY <1>2 DEF AutoDecisions
<1>4. wrong \subseteq auto /\ auto \subseteq ids /\ rejected \subseteq clean /\ clean \subseteq ids
        /\ ids \subseteq Ids
  OBVIOUS
<1> HIDE DEF ids, auto, clean, wrong, rejected
<1>5. /\ Cardinality(rejected) <= Cardinality(wrong) /\ Cardinality(wrong) <= Cardinality(auto)
      /\ Cardinality(auto) <= Cardinality(ids)
      /\ Cardinality(rejected) <= Cardinality(clean) /\ Cardinality(clean) <= Cardinality(ids)
  BY <1>3, <1>4, CardinalityOrder
<1> QED
  BY <1>1, <1>5 DEF ids

(* Every arm of a reported evaluation is complete. *)
LEMMA ReportedArms ==
  ASSUME WorkInv, status = "reported"
  PROVE  \A arm \in Arms : Completed(arm)
<1>1. DOMAIN results = 1..Len(Plan(args))
  BY ListAppended DEF WorkInv, ResultsKnown
<1>2. 1 \in DOMAIN results /\ 2 \in DOMAIN results /\ 3 \in DOMAIN results
  BY <1>1, PlanShape DEF WorkInv
<1> QED
  BY <1>2, PlanShape DEF Completed, Arms, WorkInv

(* The report counts what it says: its denominators are the selected cases  *)
(* with a record and no dispute, whatever failed, those of the rule and the *)
(* single arm all the selected cases without a dispute, and no numerator    *)
(* exceeds its denominator, for any dataset and command line.               *)
THEOREM DenominatorsCorrect == Spec => []DenominatorsHold
<1>1. ASSUME WorkInv
      PROVE  DenominatorsHold
  <2> SUFFICES ASSUME status = "reported"
               PROVE  DenominatorsHold
    BY DEF DenominatorsHold
  <2>1. report = Figures
    BY <1>1 DEF WorkInv
  <2>2. \A arm \in Arms : Completed(arm)
    BY <1>1, ReportedArms
  <2>3. Selected \subseteq Ids
    BY CasesSelected DEF Selected
  <2>4. ASSUME NEW arm \in Arms
        PROVE  /\ DOMAIN ResultOf(arm) \subseteq Selected
               /\ arm \in {"rule", "single"} => DOMAIN ResultOf(arm) = Selected
               /\ report.headline[arm].total = Cardinality(DOMAIN ResultOf(arm) \ basket)
               /\ LET h == report.headline[arm]
                  IN  /\ h.total = Cardinality((Selected \ basket) \cap DOMAIN ResultOf(arm))
                      /\ h.falseRejects <= h.autoWrong /\ h.autoWrong <= h.autoDecided
                      /\ h.autoDecided <= h.total
                      /\ h.falseRejects <= h.truthPass /\ h.truthPass <= h.total
    <3>1. /\ DOMAIN ResultOf(arm) \subseteq Selected
          /\ arm \in {"rule", "single"} => DOMAIN ResultOf(arm) = Selected
      BY <1>1, <2>2, RecordsOfArm DEF Selected
    <3>2. PICK h : h = Selective(ResultOf(arm), dataset, Asserted(arm), basket)
      OBVIOUS
    <3>3. report.headline[arm] = h
      BY <2>1, <3>2 DEF Figures, Headline
    <3>4. (Selected \ basket) \cap DOMAIN ResultOf(arm) = DOMAIN ResultOf(arm) \ basket
      BY <3>1
    <3>5. DOMAIN ResultOf(arm) \subseteq Ids
      BY <2>3, <3>1
    <3>6. /\ h.total = Cardinality(DOMAIN ResultOf(arm) \ basket)
          /\ h.falseRejects <= h.autoWrong /\ h.autoWrong <= h.autoDecided
          /\ h.autoDecided <= h.total
          /\ h.falseRejects <= h.truthPass /\ h.truthPass <= h.total
      BY <3>2, <3>5, SelectiveBounds
    <3> QED
      BY <3>1, <3>3, <3>4, <3>6
  <2>5. \A arm \in {"rule", "single"} :
          report.headline[arm].total = Cardinality(Selected \ basket)
    BY <2>4 DEF Arms
  <2>6. report.tools.covered <= report.tools.expected
          /\ report.tools.redundant <= report.tools.expected
    <3> DEFINE records == ResultOf("agent")
               ids == {c \in DOMAIN records : LabelOf(dataset[c]).tools # {}}
               diff == [c \in ids |-> GradeCase(records[c], LabelOf(dataset[c])).tools]
               covered == {c \in ids : diff[c].missing = {}}
               redundant == {c \in ids : diff[c].extra # {}}
    <3>1. /\ report.tools.expected = Cardinality(ids)
          /\ report.tools.covered = Cardinality(covered)
          /\ report.tools.redundant = Cardinality(redundant)
      BY <2>1 DEF Figures, ToolDiagnostics
    <3>2. ids \subseteq Ids /\ covered \subseteq ids /\ redundant \subseteq ids
      BY <2>3, <2>4 DEF Arms
    <3> HIDE DEF ids, covered, redundant
    <3> QED
      BY <3>1, <3>2, CardinalityOrder
  <2>7. report.compared <= Cardinality(DOMAIN ResultOf("agent"))
    <3>1. Compared \subseteq DOMAIN ResultOf("agent") /\ DOMAIN ResultOf("agent") \subseteq Ids
      BY <2>3, <2>4 DEF Compared, Arms
    <3>2. report.compared = Cardinality(Compared)
      BY <2>1 DEF Figures
    <3> QED
      BY <3>1, <3>2, CardinalityOrder
  <2> QED
    BY <2>4, <2>5, <2>6, <2>7 DEF DenominatorsHold
<1> QED
  BY <1>1, WorkInvariant, PTL

(* A case with an evasion word planted is one to reject. *)
LEMMA AmplifiedLabel ==
  ASSUME NEW m \in Manifests
  PROVE  LabelOf(Perturbed(m, "amplified")).decision = "REJECT"
<1>1. PICK p \in DOMAIN Patterns :
        \E r \in Patterns[p] : \E facts \in MerchantFacts[r.merchant] : m = ManifestOf(r, facts)
  BY DEF Manifests
<1>2. PICK r \in Patterns[p] : \E facts \in MerchantFacts[r.merchant] : m = ManifestOf(r, facts)
  BY <1>1
<1>3. PICK facts \in MerchantFacts[r.merchant] : m = ManifestOf(r, facts)
  BY <1>2
<1> DEFINE x == Perturbed(m, "amplified")
<1>4. x.snapshot.evasionTerm = TRUE
  BY <1>3 DEF Perturbed, ManifestOf, SnapshotOf
<1> HIDE DEF x
<1>5. LabelOf(x).decision = "REJECT"
  BY <1>4 DEF LabelOf, Expected
<1> QED
  BY <1>5 DEF x

(* Metamorphic and repeated runs raise no false alarm: a violation or an    *)
(* inconsistency means that some run decided against its own label.         *)
THEOREM NoFalseAlarmCorrect == Spec => []NoFalseAlarm
<1>1. ASSUME WorkInv, status = "reported", NEW v \in report.violations
      PROVE  \/ ResultOf("agent")[v[1]].decision # LabelOf(dataset[v[1]]).decision
             \/ ResultOf(v[2])[v[1]] # LabelOf(Perturbed(dataset[v[1]], v[2])).decision
  <2>1. v \in Violations
    BY <1>1 DEF WorkInv, Figures
  <2> DEFINE original == ResultOf("agent")[v[1]].decision
             perturbed == [arm \in PerturbedArms |-> ResultOf(arm)[v[1]]]
  <2>2. v[1] \in Compared /\ v[2] \in PerturbedArms
          /\ v[2] \in MetamorphicFailures(original, perturbed)
    BY <2>1 DEF Violations
  <2>3. \/ v[2] # "amplified" /\ ResultOf(v[2])[v[1]] # original
        \/ v[2] = "amplified" /\ Strictness(ResultOf(v[2])[v[1]]) < Strictness(original)
    BY <2>2 DEF MetamorphicFailures
  <2>4. Constructed(dataset[v[1]])
    BY <1>1, <2>2, ReportedArms, RecordsOfArm DEF Compared, Arms
  <2>5. CASE v[2] # "amplified"
    BY <2>3, <2>5 DEF Perturbed
  <2>6. CASE v[2] = "amplified"
    <3>1. LabelOf(Perturbed(dataset[v[1]], "amplified")).decision = "REJECT"
      <4>1. dataset[v[1]] \in Manifests
        <5>1. v[1] \in Ids
          BY <1>1, <2>2, ReportedArms, RecordsOfArm, CasesSelected DEF Compared, Arms
        <5> QED
          BY <1>1, <5>1, DatasetsAssumption DEF WorkInv
      <4> QED
        BY <4>1, AmplifiedLabel
    <3>2. LabelOf(dataset[v[1]]).decision \in {"PASS", "HUMAN_REVIEW", "REJECT"}
      BY <2>4, LabelDecision
    <3> SUFFICES ASSUME original = LabelOf(dataset[v[1]]).decision,
                        ResultOf(v[2])[v[1]] = "REJECT"
                 PROVE  FALSE
      BY <2>6, <3>1
    <3> QED
      BY <2>3, <2>6, <3>2 DEF Strictness
  <2> QED
    BY <2>5, <2>6
<1>2. ASSUME WorkInv, status = "reported"
      PROVE  report.passK.compared - report.passK.consistent
               <= Cardinality({c \in Selected : \E i \in DOMAIN DecisionsOf(c) :
                                 DecisionsOf(c)[i] # LabelOf(dataset[c]).decision})
  <2> DEFINE decisions == [c \in Ids |-> DecisionsOf(c)]
             compared == {c \in DOMAIN decisions : Cardinality(DOMAIN decisions[c]) >= 2}
             consistent == {c \in compared : \A i, j \in DOMAIN decisions[c] :
                                               decisions[c][i] = decisions[c][j]}
             wrong == {c \in Selected : \E i \in DOMAIN DecisionsOf(c) :
                         DecisionsOf(c)[i] # LabelOf(dataset[c]).decision}
  <2>1. /\ report.passK.compared = Cardinality(compared)
        /\ report.passK.consistent = Cardinality(consistent)
    BY <1>2 DEF WorkInv, Figures, PassK
  <2>2. ASSUME NEW c \in compared \ consistent
        PROVE  c \in wrong
    <3>1. c \in Ids
      OBVIOUS
    <3>2. PICK i \in DOMAIN DecisionsOf(c), j \in DOMAIN DecisionsOf(c) :
            DecisionsOf(c)[i] # DecisionsOf(c)[j]
      BY <2>2, <3>1
    <3>3. i \in DOMAIN results /\ c \in DOMAIN results[i]
      BY <3>2 DEF DecisionsOf
    <3>4. c \in Selected
      BY <1>2, <3>3, CasesSelected DEF WorkInv, ResultsKnown, Selected
    <3>5. \E k \in DOMAIN DecisionsOf(c) : DecisionsOf(c)[k] # LabelOf(dataset[c]).decision
      BY <3>2
    <3> QED
      BY <3>4, <3>5
  <2>3. compared \subseteq Ids /\ consistent \subseteq compared /\ wrong \subseteq Ids
    BY CasesSelected DEF Selected
  <2> HIDE DEF compared, consistent, wrong
  <2>4. compared \ consistent \subseteq wrong
    BY <2>2
  <2>5. Cardinality(compared \ consistent) = Cardinality(compared) - Cardinality(consistent)
    <3>1. IsFiniteSet(compared) /\ compared \cap consistent = consistent
      BY <2>3, SubsetFinite
    <3> QED
      BY <3>1, FS_Difference
  <2>6. Cardinality(compared \ consistent) <= Cardinality(wrong)
    BY <2>3, <2>4, CardinalityOrder
  <2> QED
    BY <2>1, <2>5, <2>6 DEF wrong
<1>3. WorkInv => NoFalseAlarm
  BY <1>1, <1>2 DEF NoFalseAlarm
<1> QED
  BY <1>3, WorkInvariant, PTL

==============================================================================
