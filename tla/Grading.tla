------------------------------- MODULE Grading -------------------------------
(***************************************************************************)
(* From a case to a graded record: what each of the three arms makes of a  *)
(* constructed case, how a record is compared with its label, which        *)
(* process assertions it breaks, and the figures of a report.              *)
(***************************************************************************)
EXTENDS Labelling, FiniteSets, Sequences

CONSTANTS
  Surveys,      \* the sets of lookups an investigation may have completed
  ModelAnswers  \* how the one model call of the single arm may end

(* A completed lookup: a tool, and the object it was asked about. *)
Lookups == [tool : ToolNames, about : Subjects]

ASSUME SurveysAssumption == Surveys \subseteq SUBSET Lookups
ASSUME ModelAnswersAssumption == ModelAnswers \subseteq Decisions \cup {"no answer"}

AutoDecisions == {"PASS", "REJECT"}

------------------------------------------------------------------------------
(* The arms *)

EvalRecord(decision, evidence, policy, toolsCalled) ==
  [ decision |-> decision, evidence |-> evidence, policy |-> policy,
    tools |-> toolsCalled, overrides |-> {}, overBudget |-> FALSE, error |-> FALSE ]

(* A mistaken RuleRecord: what triage finds complex goes through. *)
RuleRecordWavedThrough(m) ==
  EvalRecord([PASS |-> "PASS", REJECT |-> "REJECT", COMPLEX |-> "PASS"][Triage(m.snapshot)],
             {}, {}, {})

(* _run_rule: triage, with COMPLEX read as HUMAN_REVIEW. *)
RuleRecord(m) ==
  EvalRecord(
    [PASS |-> "PASS", REJECT |-> "REJECT", COMPLEX |-> "HUMAN_REVIEW"][Triage(m.snapshot)],
    {PlainEvidence("RULE_HIT", RuleEngine, rule, None) : rule \in RuleHits(m.snapshot)},
    {}, {})

(* _run_single: a failed call is a record too. *)
SingleRecords ==
  { IF a = "no answer" THEN [EvalRecord("HUMAN_REVIEW", {}, {}, {}) EXCEPT !.error = TRUE]
    ELSE EvalRecord(a, {}, {}, {}) : a \in ModelAnswers }

(* What the seeded tables answer: the case's own rows as constructed, for    *)
(* another product no conflict, another merchant of either kind.             *)
ListingVerdict(m, about) ==
  IF about = "own" /\ (m.snapshot.brand = "blank" \/ m.snapshot.categoryBlank \/ ~m.registryBrand)
  THEN "POSITIVE" ELSE "NEGATIVE"

MerchantVerdict(m, about, stranger) ==
  IF about = "other" THEN stranger
  ELSE IF m.removals >= 3 \/ m.relistings >= 3 THEN "POSITIVE" ELSE "NEGATIVE"

AnswerTo(m, lookup, stranger, precedents, clauses) ==
  [ ProductTool |->
      {PlainEvidence("PRODUCT_FACT", "ProductTool", lookup.about, None),
       MeasurementOf("listing_registry", "ProductTool", lookup.about,
                     ListingVerdict(m, lookup.about))},
    MerchantTool |->
      {PlainEvidence("MERCHANT_HISTORY", "MerchantTool", lookup.about, None),
       MeasurementOf("merchant_profile", "MerchantTool", lookup.about,
                     MerchantVerdict(m, lookup.about, stranger))},
    CaseSearchTool |->
      {PlainEvidence("CASE_PRECEDENT", "CaseSearchTool", p, None) : p \in precedents},
    PolicySearchTool |->
      {PlainEvidence("POLICY_REF", "PolicySearchTool", cl, PolicyOf[cl]) : cl \in clauses}
  ][lookup.tool]

(* What an investigation may have found: the tools of its completed lookups *)
(* and the evidence they gave.                                              *)
Findings(m) ==
  UNION { { [ tools |-> {l.tool : l \in survey},
              evidence |-> RuleHitMeasurement(m.snapshot) \cup
                UNION {AnswerTo(m, l, stranger, precedents, clauses) : l \in survey} ]
            : stranger \in Verdicts, precedents \in SUBSET Precedents, clauses \in SUBSET Clauses }
          : survey \in Surveys }

(* _run_agent: the overlay over what was found, spent and proposed; over     *)
(* budget implies exhausted.                                                 *)
AgentFacts(m, found, spent, deg) ==
  [ case |-> m.snapshot, exhausted |-> spent # "within", degraded |-> deg,
    evidence |-> found.evidence, capabilities |-> CapabilitiesFromTools(ToolNames) ]

AgentRecord(d, found, spent) ==
  [ EvalRecord(d.decision, d.evidence, d.policy, found.tools)
    EXCEPT !.overrides = d.overrides, !.overBudget = (spent = "over") ]

AgentRecords(m) ==
  { AgentRecord(DecisionOverlay(AgentFacts(m, found, spent, deg), proposal), found, spent)
    : found \in Findings(m), spent \in {"within", "exhausted", "over"}, deg \in BOOLEAN,
      proposal \in Proposals \cup {NoProposal} }

------------------------------------------------------------------------------
(* Grading one record *)

(* grade_case, with an item that was not labelled reported as no difference. *)
Difference(expected, actual) ==
  IF expected = {} THEN [missing |-> {}, extra |-> {}]
  ELSE [missing |-> expected \ actual, extra |-> actual \ expected]

GradeCase(record, label) ==
  [ truth     |-> label.decision,
    predicted |-> record.decision,
    match     |-> record.decision = label.decision,
    tools     |-> Difference(label.tools, record.tools),
    policies  |-> Difference(label.policies, record.policy),
    evidence  |-> Difference(label.evidence, {e.type : e \in record.evidence}) ]

(* check_process_assertions.  Every piece of an agent's evidence carries a    *)
(* reference, so no evidence is no citable evidence.  The citation index     *)
(* holds the corpus the retrieval index was built from, and that contains    *)
(* the policies the gates cite: the citations of an agent always resolve.    *)
ProcessFailures(arm, record, m) ==
  { code \in {"REJECT_WITHOUT_CITATION", "GATE_NOT_TRIGGERED", "BUDGET_EXCEEDED",
              "CITATION_UNRESOLVABLE", "SILENT_DEGRADATION"} :
    \/ /\ code = "REJECT_WITHOUT_CITATION"
       /\ arm = "agent" /\ record.decision = "REJECT"
       /\ record.policy = {} \/ record.evidence = {}
    \/ /\ code = "GATE_NOT_TRIGGERED"
       /\ arm = "agent" /\ m.snapshot.brand = "blacklisted"
       /\ "R1_HARD_RULE" \notin record.overrides
    \/ code = "BUDGET_EXCEEDED" /\ record.overBudget
    \/ /\ code = "CITATION_UNRESOLVABLE"
       /\ \/ ~(record.policy \subseteq Policies)
          \/ \E e \in record.evidence : e.type = "CASE_PRECEDENT" /\ e.ref \notin Precedents
    \/ /\ code = "SILENT_DEGRADATION"
       /\ \/ record.decision \in AutoDecisions /\ record.error
          \/ arm = "agent" /\ record.decision = "PASS" /\ record.evidence = {} }

------------------------------------------------------------------------------
(* Figures over the records of one arm *)

(* A mistaken Selective: the basket is left out of the coverage only. *)
SelectiveOverAll(records, dataset, asserted, excluded) ==
  LET ids == DOMAIN records
      grade == [c \in ids |-> GradeCase(records[c], LabelOf(dataset[c]))]
      auto == {c \in ids : grade[c].predicted \in AutoDecisions}
      clean == {c \in ids : grade[c].truth = "PASS"}
  IN  [ total        |-> Cardinality(ids \ excluded),
        autoDecided  |-> Cardinality(auto),
        autoWrong    |-> Cardinality({c \in auto : ~grade[c].match \/ c \in asserted}),
        truthPass    |-> Cardinality(clean),
        falseRejects |-> Cardinality({c \in clean : grade[c].predicted = "REJECT"}) ]

(* evaluate_selective *)
Selective(records, dataset, asserted, excluded) ==
  LET ids == DOMAIN records \ excluded
      grade == [c \in ids |-> GradeCase(records[c], LabelOf(dataset[c]))]
      auto == {c \in ids : grade[c].predicted \in AutoDecisions}
      clean == {c \in ids : grade[c].truth = "PASS"}
  IN  [ total        |-> Cardinality(ids),
        autoDecided  |-> Cardinality(auto),
        autoWrong    |-> Cardinality({c \in auto : ~grade[c].match \/ c \in asserted}),
        truthPass    |-> Cardinality(clean),
        falseRejects |-> Cardinality({c \in clean : grade[c].predicted = "REJECT"}) ]

(* evaluate_diagnostics: the tool figures, over the cases with expected tools. *)
ToolDiagnostics(records, dataset) ==
  LET ids == {c \in DOMAIN records : LabelOf(dataset[c]).tools # {}}
      diff == [c \in ids |-> GradeCase(records[c], LabelOf(dataset[c])).tools]
  IN  [ expected  |-> Cardinality(ids),
        covered   |-> Cardinality({c \in ids : diff[c].missing = {}}),
        redundant |-> Cardinality({c \in ids : diff[c].extra # {}}) ]

------------------------------------------------------------------------------
(* Checks without labels *)

(* perturb_risk_amplifying plants an evasion word; the two perturbations that *)
(* preserve the meaning change nothing a rule, a tool or the labeller reads.  *)
Perturbed(m, arm) ==
  IF arm = "amplified" THEN [m EXCEPT !.snapshot.evasionTerm = TRUE] ELSE m

(* A mistaken Strictness: handing over counts as the strictest outcome. *)
StrictnessOfCare(decision) == [PASS |-> 0, REJECT |-> 1, HUMAN_REVIEW |-> 2][decision]

Strictness(decision) == [PASS |-> 0, HUMAN_REVIEW |-> 1, REJECT |-> 2][decision]

(* check_metamorphic: the perturbed runs whose decision breaks the relation. *)
MetamorphicFailures(original, perturbed) ==
  { arm \in DOMAIN perturbed :
      \/ arm # "amplified" /\ perturbed[arm] # original
      \/ arm = "amplified" /\ Strictness(perturbed[arm]) < Strictness(original) }

(* pass_k_consistency over the decisions each case has accumulated. *)
PassK(decisions) ==
  LET compared == {c \in DOMAIN decisions : Cardinality(DOMAIN decisions[c]) >= 2}
  IN  [ compared   |-> Cardinality(compared),
        consistent |-> Cardinality({c \in compared :
                         \A i, j \in DOMAIN decisions[c] : decisions[c][i] = decisions[c][j]}) ]

==============================================================================
