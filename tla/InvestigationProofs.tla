-------------------------- MODULE InvestigationProofs --------------------------
(***************************************************************************)
(* Proofs about the investigation, for every set of cases, tools and calls *)
(* and every budget.                                                       *)
(***************************************************************************)
EXTENDS InvestigationProperties, TLAPS, SequenceTheorems

------------------------------------------------------------------------------
(* The decision overlay *)

(* Evidence merged from well-formed lists is well-formed. *)
LEMMA MergeEvidenceType ==
  ASSUME NEW left \in SUBSET Evidence, NEW right \in SUBSET Evidence
  PROVE  MergeEvidence(left, right) \in SUBSET Evidence
BY DEF MergeEvidence, NewEvidence

(* A policy citation of the rule layer is evidence. *)
LEMMA PolicyCitationType ==
  ASSUME NEW policy \in ScreeningPolicies
  PROVE  PolicyCitation(policy) \in Evidence
BY DEF PolicyCitation, PlainEvidence, Evidence, ScreeningPolicies, Policies, RuleEngine, None

(* A decision built from well-formed parts is well-formed. *)
LEMMA BuildDecisionType ==
  ASSUME NEW evs \in SUBSET Evidence,
         NEW outcome \in Proposals \cup {"NONE"},
         NEW codes \in SUBSET OverrideCodes
  PROVE  BuildDecision(evs, outcome, codes) \in Decision
<1>1. {e.policy : e \in {x \in evs : x.type = "POLICY_REF"}} \subseteq Policies \cup {None}
  BY DEF Evidence
<1> QED
  BY <1>1 DEF BuildDecision, Decision

(* Whatever the facts and the proposal, the overlay returns a decision. *)
LEMMA DecisionOverlayType ==
  ASSUME NEW f, f.evidence \in SUBSET Evidence,
         NEW proposal \in Proposals \cup {NoProposal}
  PROVE  DecisionOverlay(f, proposal) \in Decision
<1>1. EvasionCitations(f) \in SUBSET Evidence
  BY PolicyCitationType DEF EvasionCitations, ScreeningPolicies
<1>2. HardRuleReject(f) \in Decision
  <2>1. {PolicyCitation("POLICY_1.1")} \cup EvasionCitations(f) \in SUBSET Evidence
    BY <1>1, PolicyCitationType DEF ScreeningPolicies
  <2> QED
    BY <2>1, MergeEvidenceType, BuildDecisionType DEF HardRuleReject, Proposals, OverrideCodes
<1>3. OverlayCodes(f, proposal) \in SUBSET OverrideCodes
  BY DEF OverlayCodes, AbstentionCodes, OverrideCodes
<1>4. ASSUME NEW codes \in SUBSET OverrideCodes
      PROVE  HumanReview(f, codes) \in Decision
  BY <1>4, BuildDecisionType DEF HumanReview, Proposals
<1>5. RejectGateFailCodes(f) \in SUBSET OverrideCodes
  BY DEF RejectGateFailCodes, OverrideCodes
<1>6. ASSUME proposal \in Proposals
      PROVE  AdoptProposal(f, proposal) \in Decision
  BY <1>1, <1>6, MergeEvidenceType, BuildDecisionType DEF AdoptProposal
<1>7. {"R4_PASS_GATE_FAIL"} \in SUBSET OverrideCodes
  BY DEF OverrideCodes
<1>8. proposal = NoProposal => OverlayCodes(f, proposal) # {}
  BY DEF OverlayCodes
<1> QED
  BY <1>2, <1>3, <1>4, <1>5, <1>6, <1>7, <1>8 DEF DecisionOverlay

------------------------------------------------------------------------------
(* Type correctness *)

(* Every evidence a tool may answer with is well-formed. *)
LEMMA EvidenceChoicesType ==
  ASSUME NEW call, call.tool \in ToolNames, NEW evs \in EvidenceChoices(call)
  PROVE  evs \in SUBSET Evidence
<1>1. SubjectOf(call) \in Subjects
  BY DEF SubjectOf, Subjects
<1>2. ProductEvidence(call) \subseteq SUBSET Evidence
  <2>1. ProductVerdicts(call) \subseteq Verdicts
    BY DEF ProductVerdicts, Verdicts
  <2> QED
    BY <1>1, <2>1
    DEF ProductEvidence, PlainEvidence, MeasurementOf, Evidence, ToolNames, Dimensions
<1>3. MerchantEvidence(call) \subseteq SUBSET Evidence
  BY <1>1 DEF MerchantEvidence, PlainEvidence, MeasurementOf, Evidence, ToolNames, Dimensions
<1>4. CaseSearchEvidence \subseteq SUBSET Evidence
  BY DEF CaseSearchEvidence, PlainEvidence, Evidence, ToolNames
<1>5. PolicySearchEvidence \subseteq SUBSET Evidence
  BY DEF PolicySearchEvidence, PlainEvidence, Evidence, ToolNames, Policies
<1> QED
  BY <1>2, <1>3, <1>4, <1>5 DEF EvidenceChoices, ToolNames

(* A round is a sequence of calls. *)
LEMMA RoundsType ==
  ASSUME NEW S, NEW list \in RoundsOf(S)
  PROVE  list \in Seq(S)
BY LimitsAssumption DEF RoundsOf, SeqOf, PlanLimit

(* The audit rows of skipped duplicates are records. *)
LEMMA SkippedRecordsType ==
  ASSUME NEW first \in Nat, NEW skipped \in Seq(Calls)
  PROVE  SkippedRecords(first, skipped) \in Seq(Record)
<1> DEFINE row(i) == [ seq |-> first + i, call |-> skipped[i], status |-> "skipped",
                       added |-> {}, changed |-> FALSE ]
<1>1. \A i \in 1..Len(skipped) : row(i) \in Record
  BY DEF Record, Statuses
<1>2. DOMAIN skipped = 1..Len(skipped) /\ Len(skipped) \in Nat
  OBVIOUS
<1>3. SkippedRecords(first, skipped) = [i \in 1..Len(skipped) |-> row(i)]
  BY <1>2 DEF SkippedRecords
<1> HIDE DEF row
<1> QED
  BY <1>1, <1>2, <1>3

(* The initial states are well-typed. *)
LEMMA TypeInit == Init => TypeOK
<1> SUFFICES ASSUME Init PROVE TypeOK
  OBVIOUS
<1>1. capabilities \in [Dimensions -> BOOLEAN]
  BY DEF Init, UnknownCapabilities
<1>2. decision \in Decision
  BY BuildDecisionType DEF Init, NoDecision, OverrideCodes
<1>3. <<>> \in Seq(Record) /\ <<>> \in Seq(Failure) /\ <<>> \in Seq(Calls)
  OBVIOUS
<1> QED
  BY <1>1, <1>2, <1>3 DEF Init, TypeOK, Nodes

(* Every step keeps the types. *)
LEMMA TypeStep == TypeOK /\ [Next]_vars => TypeOK'
<1> SUFFICES ASSUME TypeOK, [Next]_vars PROVE TypeOK'
  OBVIOUS
<1> USE DEF TypeOK
<1>1. CASE Hypothesize
  <2>1. MergeEvidence(evidence, RuleHitMeasurement(case)) \in SUBSET Evidence
    <3>1. RuleHitMeasurement(case) \in SUBSET Evidence
      BY DEF RuleHitMeasurement, MeasurementOf, Evidence, Dimensions, Verdicts, Subjects,
         RuleEngine
    <3> QED
      BY <3>1, MergeEvidenceType
  <2>2. CapabilitiesFromTools(tools) \in [Dimensions -> BOOLEAN]
    BY DEF CapabilitiesFromTools
  <2>3. CriticalFailure("hypothesize") \in Failure
    BY DEF CriticalFailure, Failure, LLMSteps
  <2> QED
    BY <1>1, <2>1, <2>2, <2>3 DEF Hypothesize, LLMOutcomes, visit, Nodes
<1>2. CASE PlanSkipped
  BY <1>2 DEF PlanSkipped, RouteAfterPlan, visit, Nodes
<1>3. CASE PlanFailed
  BY <1>3 DEF PlanFailed, RouteAfterPlan, LLMOutcomes, CriticalFailure, Failure, LLMSteps,
     visit, Nodes
<1>4. CASE PlanAccepted
  <2>1. PICK cleaned \in RoundsOf(Calls \ ExecutedCalls(tool_call_history)),
             skipped \in RoundsOf(Calls \cap ExecutedCalls(tool_call_history)) :
          /\ pending_tool_calls' = cleaned
          /\ tool_call_history' =
               tool_call_history \o SkippedRecords(Len(tool_call_history), skipped)
    BY <1>4 DEF PlanAccepted
  <2>2. cleaned \in Seq(Calls) /\ skipped \in Seq(Calls)
    BY RoundsType
  <2>3. tool_call_history' \in Seq(Record)
    BY <2>1, <2>2, SkippedRecordsType
  <2>4. llm_calls' \in Nat
    BY <1>4 DEF PlanAccepted, LLMOutcomes
  <2>5. pc' \in Nodes
    BY <1>4 DEF PlanAccepted, RouteAfterPlan, Nodes
  <2> QED
    BY <1>4, <2>1, <2>2, <2>3, <2>4, <2>5 DEF PlanAccepted, visit
<1>5. CASE CallRejected
  <2>1. ErrorRecord(Head(pending_tool_calls)) \in Record
    BY <1>5 DEF CallRejected, ErrorRecord, NextSeq, Record, Statuses
  <2> QED
    BY <1>5, <2>1 DEF CallRejected
<1>6. CASE CallFailed
  <2>1. ErrorRecord(Head(pending_tool_calls)) \in Record
    BY <1>6 DEF CallFailed, ErrorRecord, NextSeq, Record, Statuses
  <2>2. [step |-> "tool_call", seq |-> NextSeq] \in Failure
    BY DEF Failure, NextSeq
  <2> QED
    BY <1>6, <2>1, <2>2 DEF CallFailed
<1>7. CASE CallSucceeded
  <2> DEFINE call == Head(pending_tool_calls)
  <2>1. PICK evs \in EvidenceChoices(call) :
          /\ visit_added' = visit_added \cup NewEvidence(WorkingEvidence, evs)
          /\ visit_records' =
               Append(visit_records, SuccessRecord(call, NewEvidence(WorkingEvidence, evs)))
    BY <1>7 DEF CallSucceeded
  <2>2. call \in Calls /\ call.tool \in ToolNames
    BY <1>7, ToolsAssumption DEF CallSucceeded, CallAccepted
  <2>3. NewEvidence(WorkingEvidence, evs) \in SUBSET Evidence
    BY <2>2, EvidenceChoicesType DEF NewEvidence
  <2>4. SuccessRecord(call, NewEvidence(WorkingEvidence, evs)) \in Record
    BY <2>2, <2>3 DEF SuccessRecord, NextSeq, Record, Statuses
  <2> QED
    BY <1>7, <2>1, <2>3, <2>4 DEF CallSucceeded
<1>8. CASE CallRaised
  BY <1>8 DEF CallRaised, channels, Nodes
<1>9. CASE ToolsReturn
  <2>1. MergeEvidence(evidence, visit_added) \in SUBSET Evidence
    BY MergeEvidenceType
  <2> QED
    BY <1>9, <2>1 DEF ToolsReturn, Nodes
<1>10. CASE ReevaluateSkipped
  BY <1>10 DEF ReevaluateSkipped, RouteAfterReevaluate, channels, visit, Nodes
<1>11. CASE Reevaluate
  <2>1. PICK outcome \in LLMOutcomes :
          /\ llm_calls' = llm_calls + outcome.attempts
          /\ degraded' = ~outcome.ok
          /\ failures' = IF outcome.ok THEN failures
                         ELSE Append(failures, CriticalFailure("reevaluate"))
          /\ pc' = RouteAfterReevaluate(~outcome.ok, llm_calls + outcome.attempts)
    BY <1>11 DEF Reevaluate
  <2>2. CriticalFailure("reevaluate") \in Failure
    BY DEF CriticalFailure, Failure, LLMSteps
  <2>3. llm_calls' \in Nat /\ failures' \in Seq(Failure)
    BY <2>1, <2>2 DEF LLMOutcomes
  <2>4. degraded' \in BOOLEAN /\ pc' \in Nodes
    BY <2>1 DEF RouteAfterReevaluate, Nodes
  <2> QED
    BY <1>11, <2>3, <2>4 DEF Reevaluate, visit
<1>12. ASSUME NEW llm \in Nat, NEW deg \in BOOLEAN,
              NEW proposal \in Proposals \cup {NoProposal}
       PROVE  DecisionOverlay(FactsOf(evidence, llm, tool_calls, deg), proposal) \in Decision
  <2>1. FactsOf(evidence, llm, tool_calls, deg).evidence \in SUBSET Evidence
    BY DEF FactsOf
  <2> QED
    BY <2>1, DecisionOverlayType
<1>13. CASE DecideUnassisted
  BY <1>12, <1>13 DEF DecideUnassisted, visit, Nodes
<1>14. CASE DecideFailed
  <2>1. llm_calls' \in Nat
    BY <1>14 DEF DecideFailed, LLMOutcomes
  <2>2. decision' \in Decision
    BY <1>12, <1>14, <2>1 DEF DecideFailed
  <2>3. failures' \in Seq(Failure)
    BY <1>14 DEF DecideFailed, CriticalFailure, Failure, LLMSteps
  <2> QED
    BY <1>14, <2>1, <2>2, <2>3 DEF DecideFailed, visit, Nodes
<1>15. CASE DecideProposed
  <2>1. llm_calls' \in Nat
    BY <1>15 DEF DecideProposed, LLMOutcomes
  <2>2. decision' \in Decision
    BY <1>12, <1>15, <2>1 DEF DecideProposed
  <2> QED
    BY <1>15, <2>1, <2>2 DEF DecideProposed, visit, Nodes
<1>16. CASE UNCHANGED vars
  BY <1>16 DEF vars, channels, visit
<1> QED
  BY <1>1, <1>2, <1>3, <1>4, <1>5, <1>6, <1>7, <1>8, <1>9, <1>10, <1>11, <1>13, <1>14,
     <1>15, <1>16 DEF Next

(* The type invariant holds in every run. *)
THEOREM TypeCorrect == Spec => []TypeOK
BY TypeInit, TypeStep, PTL DEF Spec

------------------------------------------------------------------------------
(* Control, degradation and budget *)

(* What is known at each node of the graph.  The locals of the tools node  *)
(* are empty elsewhere, tools are only called within both budgets by a run *)
(* none of whose model steps failed, and until the decision the degraded   *)
(* flag is exactly the memory of a failed model step.                      *)
ControlInv ==
  /\ pc = "hypothesize" => llm_calls = 0 /\ tool_calls = 0 /\ rounds = 0
                             /\ evidence = {} /\ failures = <<>>
  /\ pc # "tools" => visit_calls = 0 /\ visit_added = {} /\ visit_records = <<>>
                       /\ visit_failures = <<>>
  /\ pc \in {"tools", "reevaluate"} => ~degraded /\ llm_calls < MaxLLMCalls
  /\ pc = "tools" => tool_calls < MaxToolCalls
  /\ \A i \in DOMAIN visit_failures : visit_failures[i].step = "tool_call"
  /\ pc # "done" => (degraded <=> StepFailed)

(* BudgetBound and RoundBound with what makes them inductive: the model    *)
(* calls a run must have paid for by the time it reaches each node.        *)
BudgetInv ==
  /\ BudgetBound
  /\ RoundBound
  /\ 2 * rounds <= llm_calls
  /\ pc = "plan" => 2 * rounds + 1 <= llm_calls
  /\ pc = "tools" => 2 * rounds + 2 <= llm_calls

(* A critical failure appended to the failures is a failed step. *)
LEMMA CriticalFailureRecorded ==
  ASSUME TypeOK, NEW step \in LLMSteps,
         failures' = Append(failures, CriticalFailure(step))
  PROVE  StepFailed'
<1>1. /\ Len(failures') = Len(failures) + 1
      /\ Len(failures) \in Nat
      /\ DOMAIN failures' = 1..Len(failures')
      /\ failures'[Len(failures) + 1] = CriticalFailure(step)
  BY DEF TypeOK, CriticalFailure, Failure
<1>2. failures'[Len(failures) + 1].step \in LLMSteps
  BY <1>1 DEF CriticalFailure
<1> QED
  BY <1>1, <1>2 DEF StepFailed

(* Warnings of the tools node are no failed step. *)
LEMMA WarningsAreNotFailures ==
  ASSUME TypeOK, failures' = failures \o visit_failures,
         \A i \in DOMAIN visit_failures : visit_failures[i].step = "tool_call"
  PROVE  StepFailed' <=> StepFailed
<1>1. /\ failures \in Seq(Failure) /\ visit_failures \in Seq(Failure)
      /\ DOMAIN failures = 1..Len(failures)
      /\ DOMAIN visit_failures = 1..Len(visit_failures)
      /\ DOMAIN failures' = 1..(Len(failures) + Len(visit_failures))
      /\ Len(failures) \in Nat /\ Len(visit_failures) \in Nat
  BY DEF TypeOK
<1>2. \A i \in 1..Len(failures) : failures'[i] = failures[i]
  BY <1>1
<1>3. \A i \in DOMAIN failures' : i > Len(failures) => failures'[i].step = "tool_call"
  BY <1>1
<1>4. "tool_call" \notin LLMSteps
  BY DEF LLMSteps
<1> QED
  BY <1>1, <1>2, <1>3, <1>4 DEF StepFailed

(* ControlInv holds initially. *)
LEMMA ControlInit == Init => ControlInv
<1> SUFFICES ASSUME Init PROVE ControlInv
  OBVIOUS
<1>1. ~StepFailed
  BY DEF Init, StepFailed
<1> QED
  BY <1>1 DEF Init, ControlInv

(* Every step keeps ControlInv. *)
LEMMA ControlStep == TypeOK /\ ControlInv /\ [Next]_vars => ControlInv'
<1> SUFFICES ASSUME TypeOK, ControlInv, [Next]_vars PROVE ControlInv'
  OBVIOUS
<1>1. failures' = failures => (StepFailed' <=> StepFailed)
  BY DEF StepFailed
<1>2. CASE Hypothesize
  <2>1. PICK outcome \in LLMOutcomes :
          /\ degraded' = ~outcome.ok
          /\ failures' = IF outcome.ok THEN failures
                         ELSE Append(failures, CriticalFailure("hypothesize"))
    BY <1>2 DEF Hypothesize
  <2>2. ~StepFailed
    BY <1>2 DEF Hypothesize, ControlInv, StepFailed
  <2>3. degraded' <=> StepFailed'
    BY <1>1, <2>1, <2>2, CriticalFailureRecorded DEF LLMSteps, LLMOutcomes
  <2> QED
    BY <1>2, <2>3 DEF Hypothesize, ControlInv, visit
<1>3. CASE PlanSkipped
  BY <1>1, <1>3 DEF PlanSkipped, ControlInv, RouteAfterPlan, visit
<1>4. CASE PlanFailed
  <2>1. StepFailed'
    BY <1>4, CriticalFailureRecorded DEF PlanFailed, LLMSteps
  <2> QED
    BY <1>4, <2>1 DEF PlanFailed, ControlInv, RouteAfterPlan, visit
<1>5. CASE PlanAccepted
  <2>1. ~degraded /\ ~degraded' /\ ~StepFailed'
    BY <1>1, <1>5 DEF PlanAccepted, CanCallLLM, ControlInv
  <2>2. ASSUME pc' = "tools"
        PROVE  llm_calls' < MaxLLMCalls /\ tool_calls' < MaxToolCalls
    <3>1. ~BudgetExceeded(llm_calls', tool_calls)
      BY <1>5, <2>2 DEF PlanAccepted, RouteAfterPlan
    <3>2. llm_calls' \in Nat /\ tool_calls' = tool_calls /\ tool_calls \in Nat
      BY <1>5 DEF PlanAccepted, TypeOK, LLMOutcomes
    <3> QED
      BY <3>1, <3>2, LimitsAssumption DEF BudgetExceeded
  <2>3. pc' \in {"tools", "decide"}
    BY <1>5 DEF PlanAccepted, RouteAfterPlan
  <2> QED
    BY <1>5, <2>1, <2>2, <2>3 DEF PlanAccepted, ControlInv, visit
<1>6. CASE CallRejected
  BY <1>1, <1>6 DEF CallRejected, ControlInv
<1>7. CASE CallFailed
  <2>1. \A i \in DOMAIN visit_failures' : visit_failures'[i].step = "tool_call"
    <3>1. visit_failures \in Seq(Failure)
          /\ visit_failures' = Append(visit_failures, [step |-> "tool_call", seq |-> NextSeq])
      BY <1>7 DEF CallFailed, TypeOK
    <3>2. \A i \in DOMAIN visit_failures : visit_failures[i].step = "tool_call"
      BY DEF ControlInv
    <3> QED
      BY <3>1, <3>2
  <2> QED
    BY <1>1, <1>7, <2>1 DEF CallFailed, ControlInv
<1>8. CASE CallSucceeded
  BY <1>1, <1>8 DEF CallSucceeded, ControlInv
<1>9. CASE CallRaised
  BY <1>1, <1>9 DEF CallRaised, ControlInv, channels
<1>10. CASE ToolsReturn
  <2>1. StepFailed' <=> StepFailed
    BY <1>10, WarningsAreNotFailures DEF ToolsReturn, ControlInv
  <2> QED
    BY <1>10, <2>1 DEF ToolsReturn, ControlInv
<1>11. CASE ReevaluateSkipped
  BY <1>1, <1>11 DEF ReevaluateSkipped, RouteAfterReevaluate, ControlInv, channels, visit
<1>12. CASE Reevaluate
  <2>1. PICK outcome \in LLMOutcomes :
          /\ degraded' = ~outcome.ok
          /\ failures' = IF outcome.ok THEN failures
                         ELSE Append(failures, CriticalFailure("reevaluate"))
    BY <1>12 DEF Reevaluate
  <2>2. ~StepFailed
    BY <1>12 DEF Reevaluate, CanCallLLM, ControlInv
  <2>3. degraded' <=> StepFailed'
    BY <1>1, <2>1, <2>2, CriticalFailureRecorded DEF LLMSteps, LLMOutcomes
  <2>4. pc' \in {"plan", "decide"}
    BY <1>12 DEF Reevaluate, RouteAfterReevaluate
  <2> QED
    BY <1>12, <2>3, <2>4 DEF Reevaluate, ControlInv, visit
<1>13. CASE DecideUnassisted
  BY <1>13 DEF DecideUnassisted, ControlInv, visit
<1>14. CASE DecideFailed
  BY <1>14 DEF DecideFailed, ControlInv, visit
<1>15. CASE DecideProposed
  BY <1>15 DEF DecideProposed, ControlInv, visit
<1>16. CASE UNCHANGED vars
  BY <1>1, <1>16 DEF ControlInv, vars, channels, visit
<1> QED
  BY <1>2, <1>3, <1>4, <1>5, <1>6, <1>7, <1>8, <1>9, <1>10, <1>11, <1>12, <1>13, <1>14,
     <1>15, <1>16 DEF Next

(* BudgetInv holds initially. *)
LEMMA BudgetInit == Init => BudgetInv
BY LimitsAssumption DEF Init, BudgetInv, BudgetBound, RoundBound

(* Every step keeps BudgetInv. *)
LEMMA BudgetStep ==
  TypeOK /\ TypeOK' /\ ControlInv /\ ControlInv' /\ BudgetInv /\ [Next]_vars => BudgetInv'
<1> SUFFICES ASSUME TypeOK, TypeOK', ControlInv, ControlInv', BudgetInv, [Next]_vars
             PROVE  BudgetInv'
  OBVIOUS
<1>1. /\ llm_calls \in Nat /\ tool_calls \in Nat /\ visit_calls \in Nat /\ rounds \in Nat
      /\ llm_calls' \in Nat /\ tool_calls' \in Nat /\ visit_calls' \in Nat /\ rounds' \in Nat
      /\ MaxLLMCalls \in Nat \ {0} /\ MaxToolCalls \in Nat \ {0}
  BY LimitsAssumption DEF TypeOK
<1>2. ASSUME CanCallLLM PROVE llm_calls < MaxLLMCalls
  BY <1>1, <1>2 DEF CanCallLLM, BudgetExceeded
<1> USE DEF BudgetInv, BudgetBound, RoundBound
<1>3. CASE Hypothesize
  <2>1. /\ llm_calls = 0 /\ rounds = 0 /\ llm_calls' \in {1, 2}
        /\ tool_calls' = tool_calls /\ visit_calls' = visit_calls /\ rounds' = rounds
        /\ pc' = "plan"
    BY <1>3 DEF Hypothesize, ControlInv, LLMOutcomes, visit
  <2> QED
    BY <1>1, <2>1
<1>4. CASE PlanSkipped
  <2>1. pc' = "decide"
    BY <1>4 DEF PlanSkipped, RouteAfterPlan
  <2> QED
    BY <1>1, <1>4, <2>1 DEF PlanSkipped, visit
<1>5. CASE PlanFailed \/ PlanAccepted
  <2>1. /\ pc = "plan" /\ llm_calls < MaxLLMCalls
        /\ llm_calls' \in {llm_calls + 1, llm_calls + 2}
        /\ tool_calls' = tool_calls /\ visit_calls' = visit_calls /\ rounds' = rounds
        /\ pc' \in {"tools", "decide"}
    BY <1>2, <1>5 DEF PlanFailed, PlanAccepted, RouteAfterPlan, LLMOutcomes, visit
  <2> QED
    BY <1>1, <2>1
<1>6. CASE CallRejected
  BY <1>1, <1>6 DEF CallRejected
<1>7. CASE CallFailed \/ CallSucceeded
  <2>1. /\ tool_calls + visit_calls < MaxToolCalls /\ visit_calls' = visit_calls + 1
        /\ tool_calls' = tool_calls /\ llm_calls' = llm_calls /\ rounds' = rounds /\ pc' = pc
    BY <1>7 DEF CallFailed, CallSucceeded, ToolBudgetLeft
  <2> QED
    BY <1>1, <2>1
<1>8. CASE CallRaised
  BY <1>1, <1>8 DEF CallRaised, channels
<1>9. CASE ToolsReturn
  <2>1. /\ pc = "tools" /\ pc' = "reevaluate" /\ rounds' = rounds + 1
        /\ tool_calls' = tool_calls + visit_calls /\ visit_calls' = 0 /\ llm_calls' = llm_calls
    BY <1>9 DEF ToolsReturn
  <2>2. 2 * rounds + 2 <= llm_calls /\ llm_calls < MaxLLMCalls
    BY <2>1 DEF ControlInv
  <2> QED
    BY <1>1, <2>1, <2>2
<1>10. CASE ReevaluateSkipped
  <2>1. pc' = "decide"
    BY <1>10 DEF ReevaluateSkipped, CanCallLLM, RouteAfterReevaluate
  <2> QED
    BY <1>1, <1>10, <2>1 DEF ReevaluateSkipped, channels, visit
<1>11. CASE Reevaluate
  <2>1. /\ llm_calls < MaxLLMCalls /\ llm_calls' \in {llm_calls + 1, llm_calls + 2}
        /\ tool_calls' = tool_calls /\ visit_calls' = visit_calls /\ rounds' = rounds
        /\ pc' \in {"plan", "decide"}
    BY <1>2, <1>11 DEF Reevaluate, RouteAfterReevaluate, LLMOutcomes, visit
  <2> QED
    BY <1>1, <2>1
<1>12. CASE DecideUnassisted
  BY <1>1, <1>12 DEF DecideUnassisted, visit
<1>13. CASE DecideFailed \/ DecideProposed
  <2>1. /\ llm_calls < MaxLLMCalls /\ llm_calls' \in {llm_calls + 1, llm_calls + 2}
        /\ tool_calls' = tool_calls /\ visit_calls' = visit_calls /\ rounds' = rounds
        /\ pc' = "done"
    BY <1>2, <1>13 DEF DecideFailed, DecideProposed, LLMOutcomes, visit
  <2> QED
    BY <1>1, <2>1
<1>14. CASE UNCHANGED vars
  BY <1>1, <1>14 DEF vars, channels, visit
<1> QED
  BY <1>3, <1>4, <1>5, <1>6, <1>7, <1>8, <1>9, <1>10, <1>11, <1>12, <1>13, <1>14 DEF Next

(* The control invariant holds in every run. *)
THEOREM ControlCorrect == Spec => [](TypeOK /\ ControlInv)
BY TypeInit, TypeStep, ControlInit, ControlStep, PTL DEF Spec

(* The budgets and the number of rounds are bounded in every run. *)
THEOREM BudgetCorrect == Spec => [](BudgetBound /\ RoundBound)
<1>1. TypeOK /\ TypeOK' /\ ControlInv /\ ControlInv' /\ BudgetInv /\ [Next]_vars => BudgetInv'
  BY BudgetStep
<1>2. BudgetInv => BudgetBound /\ RoundBound
  BY DEF BudgetInv
<1> QED
  BY <1>1, <1>2, BudgetInit, ControlCorrect, PTL DEF Spec

(* The model budget alone bounds the rounds of tools, in every run. *)
THEOREM RoundsCorrect == Spec => []RoundBound
BY BudgetCorrect, PTL

------------------------------------------------------------------------------
(* Tool calls per round *)

(* RoundCost with what makes it inductive: the calls of the visit still    *)
(* under way, those charged and those waiting, are at most one plan.       *)
RoundInv ==
  /\ RoundCost
  /\ pc = "tools" => visit_calls + Len(pending_tool_calls) <= MaxRoundCalls

(* RoundInv holds initially. *)
LEMMA RoundInit == Init => RoundInv
BY LimitsAssumption DEF Init, RoundInv, RoundCost

(* Every step keeps RoundInv. *)
LEMMA RoundStep == TypeOK /\ TypeOK' /\ ControlInv /\ RoundInv /\ [Next]_vars => RoundInv'
<1> SUFFICES ASSUME TypeOK, TypeOK', ControlInv, RoundInv, [Next]_vars PROVE RoundInv'
  OBVIOUS
<1>1. /\ tool_calls \in Nat /\ visit_calls \in Nat /\ rounds \in Nat /\ MaxRoundCalls \in Nat
      /\ Len(pending_tool_calls) \in Nat /\ pending_tool_calls \in Seq(Calls)
  BY LimitsAssumption DEF TypeOK
<1> USE DEF RoundInv, RoundCost
<1>2. CASE /\ UNCHANGED <<tool_calls, visit_calls, rounds>>
           /\ pc' # "tools"
  BY <1>2
<1>3. CASE PlanAccepted
  <2>1. PICK cleaned \in RoundsOf(Calls \ ExecutedCalls(tool_call_history)),
             skipped \in RoundsOf(Calls \cap ExecutedCalls(tool_call_history)) :
          /\ Len(cleaned) + Len(skipped) <= PlanLimit
          /\ pending_tool_calls' = cleaned
    BY <1>3 DEF PlanAccepted
  <2>2. Len(cleaned) \in Nat /\ Len(skipped) \in Nat
    BY RoundsType, LenProperties
  <2>3. Len(pending_tool_calls') <= MaxRoundCalls
    BY <1>1, <2>1, <2>2 DEF PlanLimit
  <2>4. visit_calls = 0 /\ UNCHANGED <<tool_calls, visit_calls, rounds>>
    BY <1>3 DEF PlanAccepted, ControlInv, visit
  <2> QED
    BY <1>1, <2>2, <2>1, <2>3, <2>4
<1>4. CASE CallRejected
  <2>1. Len(pending_tool_calls') = Len(pending_tool_calls) - 1
    BY <1>1, <1>4 DEF CallRejected
  <2> QED
    BY <1>1, <1>4, <2>1 DEF CallRejected
<1>5. CASE CallFailed \/ CallSucceeded
  <2>1. /\ pending_tool_calls # <<>> /\ pending_tool_calls' = Tail(pending_tool_calls)
        /\ visit_calls' = visit_calls + 1 /\ UNCHANGED <<tool_calls, rounds, pc>>
        /\ pc = "tools"
    BY <1>5 DEF CallFailed, CallSucceeded
  <2>2. Len(pending_tool_calls') = Len(pending_tool_calls) - 1 /\ Len(pending_tool_calls) > 0
    BY <1>1, <2>1
  <2> QED
    BY <1>1, <2>1, <2>2
<1>6. CASE CallRaised
  BY <1>1, <1>6 DEF CallRaised, channels
<1>7. CASE ToolsReturn
  <2>1. /\ tool_calls' = tool_calls + visit_calls /\ visit_calls' = 0
        /\ rounds' = rounds + 1 /\ pc' = "reevaluate"
    BY <1>7 DEF ToolsReturn
  <2>2. MaxRoundCalls * (rounds + 1) = MaxRoundCalls * rounds + MaxRoundCalls
    BY <1>1, SMT
  <2>3. MaxRoundCalls * rounds \in Nat
    BY <1>1
  <2> QED
    BY <1>1, <2>1, <2>2, <2>3
<1>8. CASE Hypothesize \/ PlanSkipped \/ PlanFailed \/ ReevaluateSkipped \/ Reevaluate
  <2>1. /\ UNCHANGED <<tool_calls, visit_calls, rounds>>
        /\ pc' # "tools"
    BY <1>8 DEF Hypothesize, PlanSkipped, PlanFailed, ReevaluateSkipped, Reevaluate,
       RouteAfterPlan, RouteAfterReevaluate, channels, visit
  <2> QED
    BY <1>2, <2>1
<1>9. CASE DecideUnassisted \/ DecideFailed \/ DecideProposed
  <2>1. /\ UNCHANGED <<tool_calls, visit_calls, rounds>>
        /\ pc' # "tools"
    BY <1>9 DEF DecideUnassisted, DecideFailed, DecideProposed, visit
  <2> QED
    BY <1>2, <2>1
<1>10. CASE UNCHANGED vars
  BY <1>10 DEF vars, channels, visit
<1> QED
  BY <1>3, <1>4, <1>5, <1>6, <1>7, <1>8, <1>9, <1>10 DEF Next

(* No visit of the tools node costs more than one plan. *)
THEOREM RoundCostCorrect == Spec => []RoundCost
<1>1. TypeOK /\ TypeOK' /\ ControlInv /\ RoundInv /\ [Next]_vars => RoundInv'
  BY RoundStep
<1>2. RoundInv => RoundCost
  BY DEF RoundInv
<1> QED
  BY <1>1, <1>2, RoundInit, ControlCorrect, PTL DEF Spec

(* The limits every production run starts with (build_initial_state leaves *)
(* BudgetLimits at its defaults) and the length of a plan.                 *)
ProductionLimits == MaxLLMCalls = 10 /\ MaxToolCalls = 15 /\ MaxRoundCalls = 3

Slack ==
  ProductionLimits =>
    /\ tool_calls + visit_calls < MaxToolCalls
    /\ pc = "reevaluate" => CanCallLLM

(* In production the tool budget cannot run out: the model budget pays for *)
(* four rounds only, and a run that re-evaluates always may call the model.*)
THEOREM ProductionToolBudget == Spec => []Slack
<1>1. ASSUME TypeOK, ControlInv, BudgetInv, RoundInv, ProductionLimits
      PROVE  /\ tool_calls + visit_calls < MaxToolCalls
             /\ pc = "reevaluate" => CanCallLLM
  <2> USE <1>1 DEF ProductionLimits
  <2>1. /\ tool_calls \in Nat /\ visit_calls \in Nat /\ rounds \in Nat /\ llm_calls \in Nat
        /\ 2 * rounds < 10 /\ tool_calls <= 3 * rounds /\ visit_calls <= 3
    BY DEF TypeOK, BudgetInv, RoundBound, RoundInv, RoundCost
  <2>2. pc = "tools" => 2 * rounds + 2 < 10
    BY <2>1 DEF ControlInv, BudgetInv
  <2>3. pc # "tools" => visit_calls = 0
    BY DEF ControlInv
  <2>4. tool_calls + visit_calls < MaxToolCalls
    BY <2>1, <2>2, <2>3
  <2>5. pc = "reevaluate" => ~degraded /\ llm_calls < MaxLLMCalls
    BY DEF ControlInv
  <2> QED
    BY <2>1, <2>4, <2>5 DEF CanCallLLM, BudgetExceeded
<1>2. TypeOK /\ TypeOK' /\ ControlInv /\ ControlInv' /\ BudgetInv /\ [Next]_vars => BudgetInv'
  BY BudgetStep
<1>3. TypeOK /\ TypeOK' /\ ControlInv /\ RoundInv /\ [Next]_vars => RoundInv'
  BY RoundStep
<1>4. TypeOK /\ ControlInv /\ BudgetInv /\ RoundInv => Slack
  BY <1>1 DEF Slack
<1> QED
  BY <1>2, <1>3, <1>4, BudgetInit, RoundInit, ControlCorrect, PTL DEF Spec

(* A run that has failed or is out of budget calls nothing any more. *)
LEMMA StopsStep ==
  ASSUME TypeOK, ControlInv, [Next]_vars,
         StepFailed \/ BudgetExceeded(llm_calls, tool_calls)
  PROVE  UNCHANGED <<llm_calls, tool_calls, visit_calls, evidence>>
<1>1. pc \notin {"hypothesize", "tools"}
  <2>1. /\ llm_calls \in Nat /\ tool_calls \in Nat
        /\ MaxLLMCalls \in Nat \ {0} /\ MaxToolCalls \in Nat \ {0}
    BY LimitsAssumption DEF TypeOK
  <2>2. pc # "hypothesize"
    BY <2>1 DEF ControlInv, StepFailed, BudgetExceeded
  <2>3. pc # "tools"
    BY <2>1 DEF ControlInv, BudgetExceeded
  <2> QED
    BY <2>2, <2>3
<1>2. pc # "done" => ~CanCallLLM
  BY DEF ControlInv, CanCallLLM
<1>3. CASE PlanSkipped \/ ReevaluateSkipped \/ DecideUnassisted
  BY <1>3 DEF PlanSkipped, ReevaluateSkipped, DecideUnassisted, channels, visit
<1>4. CASE UNCHANGED vars
  BY <1>4 DEF vars, channels, visit
<1>5. ~(Hypothesize \/ CallRejected \/ CallFailed \/ CallSucceeded \/ CallRaised \/ ToolsReturn)
  BY <1>1 DEF Hypothesize, CallRejected, CallFailed, CallSucceeded, CallRaised, ToolsReturn
<1>6. ~(PlanFailed \/ PlanAccepted \/ Reevaluate \/ DecideFailed \/ DecideProposed)
  BY <1>2 DEF PlanFailed, PlanAccepted, Reevaluate, DecideFailed, DecideProposed
<1> QED
  BY <1>3, <1>4, <1>5, <1>6 DEF Next

(* Once a model step has failed or a budget is used up, no model or tool   *)
(* is called and no evidence is added.                                     *)
THEOREM StopsCorrect == Spec => StopsInvestigating
<1>1. TypeOK /\ ControlInv /\ [Next]_vars
      => [ StepFailed \/ BudgetExceeded(llm_calls, tool_calls)
             => UNCHANGED <<llm_calls, tool_calls, visit_calls, evidence>> ]_vars
  BY StopsStep
<1> QED
  BY <1>1, ControlCorrect, PTL DEF Spec, StopsInvestigating

------------------------------------------------------------------------------
(* What a decision says of degradation *)

(* Outside the blacklist, the overlay reports degradation exactly when the *)
(* facts say so, provided a missing proposal is explained by the facts.    *)
LEMMA OverlayReportsDegradation ==
  ASSUME NEW f, NEW proposal, f.degraded \in BOOLEAN, f.exhausted \in BOOLEAN,
         ~HardRuleHit(f.case),
         proposal = NoProposal => f.degraded \/ f.exhausted
  PROVE  "R5_DEGRADED_OR_FAILED_STEP" \in DecisionOverlay(f, proposal).overrides <=> f.degraded
<1>1. proposal = NoProposal => AbstentionCodes(f) # {}
  BY DEF AbstentionCodes
<1>2. OverlayCodes(f, proposal) = AbstentionCodes(f)
  BY <1>1 DEF OverlayCodes
<1>3. "R5_DEGRADED_OR_FAILED_STEP" \in AbstentionCodes(f) <=> f.degraded
  BY DEF AbstentionCodes
<1>4. CASE AbstentionCodes(f) # {}
  BY <1>2, <1>3, <1>4 DEF DecisionOverlay, HumanReview, BuildDecision
<1>5. CASE AbstentionCodes(f) = {}
  BY <1>2, <1>3, <1>5
  DEF DecisionOverlay, HumanReview, AdoptProposal, BuildDecision, RejectGateFailCodes
<1> QED
  BY <1>4, <1>5

(* The hard rule's decision reports nothing but the hard rule. *)
LEMMA HardRuleOverrides ==
  ASSUME NEW f, NEW proposal, HardRuleHit(f.case)
  PROVE  DecisionOverlay(f, proposal).overrides = {"R1_HARD_RULE"}
BY DEF DecisionOverlay, HardRuleReject, BuildDecision

(* Every step keeps the attribution of degradation. *)
LEMMA DegradationStep ==
  TypeOK /\ ControlInv /\ DegradationReported /\ [Next]_vars => DegradationReported'
<1> SUFFICES ASSUME TypeOK, ControlInv, DegradationReported, [Next]_vars, pc' = "done"
             PROVE  "R5_DEGRADED_OR_FAILED_STEP" \in decision'.overrides
                      <=> StepFailed' /\ case'.brand # "blacklisted"
  BY DEF DegradationReported, Decided
<1>1. ASSUME NEW llm, NEW deg \in BOOLEAN, NEW proposal,
             proposal = NoProposal => deg \/ BudgetExceeded(llm, tool_calls)
      PROVE  "R5_DEGRADED_OR_FAILED_STEP"
               \in DecisionOverlay(FactsOf(evidence, llm, tool_calls, deg), proposal).overrides
                 <=> deg /\ case.brand # "blacklisted"
  <2> DEFINE f == FactsOf(evidence, llm, tool_calls, deg)
  <2>1. /\ f.case = case /\ f.degraded = deg /\ f.exhausted = BudgetExceeded(llm, tool_calls)
        /\ f.exhausted \in BOOLEAN
    BY DEF FactsOf, BudgetExceeded
  <2>2. HardRuleHit(f.case) <=> case.brand = "blacklisted"
    BY <2>1 DEF HardRuleHit
  <2> HIDE DEF f
  <2>3. CASE HardRuleHit(f.case)
    BY <2>2, <2>3, HardRuleOverrides DEF f
  <2>4. CASE ~HardRuleHit(f.case)
    BY <1>1, <2>1, <2>2, <2>4, OverlayReportsDegradation DEF f
  <2> QED
    BY <2>3, <2>4
<1>2. failures' = failures => (StepFailed' <=> StepFailed)
  BY DEF StepFailed
<1>3. CASE DecideUnassisted
  <2>1. /\ decision' = DecisionOverlay(FactsOf(evidence, llm_calls, tool_calls, degraded),
                                       NoProposal)
        /\ degraded \/ BudgetExceeded(llm_calls, tool_calls)
        /\ degraded \in BOOLEAN /\ case' = case
        /\ StepFailed' <=> degraded
    BY <1>2, <1>3 DEF DecideUnassisted, CanCallLLM, ControlInv, TypeOK
  <2> QED
    BY <1>1, <2>1
<1>4. CASE DecideFailed
  <2>1. /\ decision' = DecisionOverlay(FactsOf(evidence, llm_calls', tool_calls, TRUE),
                                       NoProposal)
        /\ case' = case
        /\ StepFailed'
    BY <1>4, CriticalFailureRecorded DEF DecideFailed, LLMSteps
  <2> QED
    BY <1>1, <2>1
<1>5. CASE DecideProposed
  <2>1. PICK proposal \in Proposals :
          decision' = DecisionOverlay(FactsOf(evidence, llm_calls', tool_calls, degraded),
                                      proposal)
    BY <1>5 DEF DecideProposed
  <2>2. degraded \in BOOLEAN /\ case' = case /\ (StepFailed' <=> degraded)
    BY <1>2, <1>5 DEF DecideProposed, ControlInv, TypeOK
  <2>3. proposal # NoProposal
    BY DEF Proposals, NoProposal
  <2> QED
    BY <1>1, <2>1, <2>2, <2>3
<1>6. CASE UNCHANGED vars
  BY <1>2, <1>6 DEF DegradationReported, Decided, vars, channels
<1>7. ~(Hypothesize \/ PlanSkipped \/ PlanFailed \/ PlanAccepted \/ CallRejected \/ CallFailed
        \/ CallSucceeded \/ CallRaised \/ ToolsReturn \/ ReevaluateSkipped \/ Reevaluate)
  BY DEF Hypothesize, PlanSkipped, PlanFailed, PlanAccepted, CallRejected, CallFailed,
     CallSucceeded, CallRaised, ToolsReturn, ReevaluateSkipped, Reevaluate, RouteAfterPlan,
     RouteAfterReevaluate
<1> QED
  BY <1>3, <1>4, <1>5, <1>6, <1>7 DEF Next

(* Degradation is reported on the decision exactly when a step has failed. *)
THEOREM DegradationCorrect == Spec => []DegradationReported
<1>1. Init => DegradationReported
  BY DEF Init, DegradationReported, Decided
<1>2. TypeOK /\ ControlInv /\ DegradationReported /\ [Next]_vars => DegradationReported'
  BY DegradationStep
<1> QED
  BY <1>1, <1>2, ControlCorrect, PTL DEF Spec

------------------------------------------------------------------------------
(* Evidence *)

(* No two pieces of evidence share a key. *)
KeysUnique(evs) == \A e, x \in evs : EvidenceKey(e) = EvidenceKey(x) => e = x

(* The rule engine contributes measurements to an investigation; the       *)
(* policies it cites are added to decisions only.                          *)
RulesOnlyMeasure(evs) == \A e \in evs : e.source = RuleEngine => e.type = "MEASUREMENT"

EvidenceInv == KeysUnique(WorkingEvidence) /\ RulesOnlyMeasure(WorkingEvidence)

(* One answer of a tool never repeats a key, and is signed by the tool. *)
LEMMA AnswersWellKeyed ==
  ASSUME NEW call, call.tool \in ToolNames, NEW evs \in EvidenceChoices(call)
  PROVE  KeysUnique(evs) /\ \A e \in evs : e.source # RuleEngine
<1>1. \A e \in ProductEvidence(call) :
         KeysUnique(e) /\ \A x \in e : x.source # RuleEngine
  BY DEF ProductEvidence, PlainEvidence, MeasurementOf, KeysUnique, EvidenceKey, RuleEngine
<1>2. \A e \in MerchantEvidence(call) :
         KeysUnique(e) /\ \A x \in e : x.source # RuleEngine
  BY DEF MerchantEvidence, PlainEvidence, MeasurementOf, KeysUnique, EvidenceKey, RuleEngine
<1>3. \A e \in CaseSearchEvidence :
         KeysUnique(e) /\ \A x \in e : x.source # RuleEngine
  BY DEF CaseSearchEvidence, PlainEvidence, KeysUnique, EvidenceKey, RuleEngine
<1>4. \A e \in PolicySearchEvidence :
         KeysUnique(e) /\ \A x \in e : x.source # RuleEngine
  BY DEF PolicySearchEvidence, PlainEvidence, KeysUnique, EvidenceKey, RuleEngine
<1> QED
  BY <1>1, <1>2, <1>3, <1>4 DEF EvidenceChoices, ToolNames

(* Merging new evidence keeps keys unique. *)
LEMMA NewEvidenceKeepsKeys ==
  ASSUME NEW held, NEW evs, KeysUnique(held), KeysUnique(evs)
  PROVE  KeysUnique(held \cup NewEvidence(held, evs))
BY DEF KeysUnique, NewEvidence

(* A run that has failed a step can only skip, decide or stutter. *)
LEMMA FailedRunSkips ==
  ASSUME TypeOK, ControlInv, [Next]_vars, StepFailed
  PROVE  PlanSkipped \/ ReevaluateSkipped \/ DecideUnassisted \/ UNCHANGED vars
<1>1. pc \notin {"hypothesize", "tools"}
  BY DEF ControlInv, StepFailed
<1>2. pc # "done" => ~CanCallLLM
  BY DEF ControlInv, CanCallLLM
<1> QED
  BY <1>1, <1>2
  DEF Next, Hypothesize, CallRejected, CallFailed, CallSucceeded, CallRaised, ToolsReturn,
      PlanFailed, PlanAccepted, Reevaluate, DecideFailed, DecideProposed

(* Every step keeps EvidenceInv. *)
LEMMA EvidenceStep == TypeOK /\ ControlInv /\ EvidenceInv /\ [Next]_vars => EvidenceInv'
<1> SUFFICES ASSUME TypeOK, ControlInv, EvidenceInv, [Next]_vars PROVE EvidenceInv'
  OBVIOUS
<1>1. ASSUME evidence' \cup visit_added' \subseteq evidence \cup visit_added
      PROVE  EvidenceInv'
  BY <1>1 DEF EvidenceInv, KeysUnique, RulesOnlyMeasure, WorkingEvidence, EvidenceKey
<1>2. CASE Hypothesize
  <2>1. evidence' \cup visit_added' \subseteq RuleHitMeasurement(case)
    BY <1>2 DEF Hypothesize, ControlInv, MergeEvidence, NewEvidence, visit
  <2> QED
    BY <2>1 DEF EvidenceInv, KeysUnique, RulesOnlyMeasure, WorkingEvidence, EvidenceKey,
       RuleHitMeasurement, MeasurementOf
<1>3. CASE CallSucceeded
  <2> DEFINE call == Head(pending_tool_calls)
  <2>1. PICK evs \in EvidenceChoices(call) :
          visit_added' = visit_added \cup NewEvidence(WorkingEvidence, evs)
    BY <1>3 DEF CallSucceeded
  <2>2. call.tool \in ToolNames /\ evidence' = evidence
    BY <1>3, ToolsAssumption DEF CallSucceeded, CallAccepted, TypeOK
  <2>3. KeysUnique(evs) /\ \A e \in evs : e.source # RuleEngine
    BY <2>2, AnswersWellKeyed
  <2>4. WorkingEvidence' = WorkingEvidence \cup NewEvidence(WorkingEvidence, evs)
    BY <2>1, <2>2 DEF WorkingEvidence
  <2>5. KeysUnique(WorkingEvidence \cup NewEvidence(WorkingEvidence, evs))
    BY <2>3, NewEvidenceKeepsKeys DEF EvidenceInv
  <2>6. RulesOnlyMeasure(WorkingEvidence \cup NewEvidence(WorkingEvidence, evs))
    BY <2>3 DEF EvidenceInv, RulesOnlyMeasure, NewEvidence
  <2> QED
    BY <2>4, <2>5, <2>6 DEF EvidenceInv, KeysUnique, RulesOnlyMeasure
<1>4. CASE CallRaised
  BY <1>1, <1>4 DEF CallRaised, channels
<1>5. CASE ToolsReturn
  <2>1. evidence' \cup visit_added' \subseteq evidence \cup visit_added
    BY <1>5 DEF ToolsReturn, MergeEvidence, NewEvidence
  <2> QED
    BY <1>1, <2>1
<1>6. ASSUME UNCHANGED <<evidence, visit_added>> PROVE EvidenceInv'
  BY <1>1, <1>6
<1>7. CASE PlanSkipped \/ PlanFailed \/ PlanAccepted \/ CallRejected \/ CallFailed
  BY <1>6, <1>7 DEF PlanSkipped, PlanFailed, PlanAccepted, CallRejected, CallFailed, visit
<1>8. CASE ReevaluateSkipped \/ Reevaluate \/ DecideUnassisted \/ DecideFailed
           \/ DecideProposed \/ UNCHANGED vars
  BY <1>6, <1>8 DEF ReevaluateSkipped, Reevaluate, DecideUnassisted, DecideFailed,
     DecideProposed, vars, channels, visit
<1> QED
  BY <1>2, <1>3, <1>4, <1>5, <1>7, <1>8 DEF Next

(* Evidence keys stay unique in every run. *)
THEOREM EvidenceCorrect == Spec => [](TypeOK /\ ControlInv /\ EvidenceInv)
<1>1. Init => EvidenceInv
  BY DEF Init, EvidenceInv, KeysUnique, RulesOnlyMeasure, WorkingEvidence
<1> QED
  BY <1>1, EvidenceStep, ControlCorrect, PTL DEF Spec

(* What a step adds to the published evidence never revises it. *)
LEMMA EvidenceGrows ==
  ASSUME TypeOK, ControlInv, [Next]_vars
  PROVE  evidence \subseteq evidence'
<1>1. CASE Hypothesize \/ ToolsReturn
  BY <1>1 DEF Hypothesize, ToolsReturn, MergeEvidence
<1>2. CASE PlanSkipped \/ PlanFailed \/ PlanAccepted \/ CallRejected \/ CallFailed
           \/ CallSucceeded \/ CallRaised
  BY <1>2 DEF PlanSkipped, PlanFailed, PlanAccepted, CallRejected, CallFailed, CallSucceeded,
     CallRaised, channels
<1>3. CASE ReevaluateSkipped \/ Reevaluate \/ DecideUnassisted \/ DecideFailed
           \/ DecideProposed \/ UNCHANGED vars
  BY <1>3 DEF ReevaluateSkipped, Reevaluate, DecideUnassisted, DecideFailed, DecideProposed,
     vars, channels
<1> QED
  BY <1>1, <1>2, <1>3 DEF Next

(* Published evidence is never withdrawn, replaced or contradicted. *)
THEOREM EvidenceGrowth == Spec => EvidenceOnlyGrows
<1>1. TypeOK /\ ControlInv /\ EvidenceInv' /\ [Next]_vars
      => [ /\ evidence \subseteq evidence'
           /\ \A e, x \in evidence' : EvidenceKey(e) = EvidenceKey(x) => e = x ]_vars
  BY EvidenceGrows DEF EvidenceInv, KeysUnique, WorkingEvidence
<1> QED
  BY <1>1, EvidenceCorrect, PTL DEF Spec, EvidenceOnlyGrows

==============================================================================
