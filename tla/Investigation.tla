----------------------------- MODULE Investigation -----------------------------
(***************************************************************************)
(* One run of the investigation graph:                                     *)
(*   hypothesize -> plan -> (tools -> reevaluate -> plan)* -> decide       *)
(* with its budget, degradation, de-duplication and audit channels.  A     *)
(* graph node is one step (the graph applies its update and evaluates the  *)
(* route in one super-step), except the tools node, which takes one step   *)
(* per tool call and publishes its results when it returns.                *)
(***************************************************************************)
EXTENDS Gate, Integers, SequencesExt

CONSTANTS
  Cases,          \* the cases a run may be started for
  ToolWorlds,     \* the sets of tools a graph may be assembled with
  Calls,          \* the tool calls the planner may propose
  MaxRoundCalls,  \* calls per plan (PlanOutput.tools max_length)
  MaxLLMCalls,    \* limits.max_llm_calls
  MaxToolCalls    \* limits.max_tool_calls

(* A call names a tool, assembled or not, and its arguments: about the     *)
(* case's own object, about it with other parameters, about another        *)
(* object, or arguments the tool's schema rejects.                         *)
CallArgs == {"own", "own_variant", "other", "malformed"}
CallType == [tool : ToolNames \cup {"UnknownTool"}, args : CallArgs]

ASSUME CasesAssumption == Cases \subseteq Case
ASSUME ToolsAssumption == ToolWorlds \subseteq SUBSET ToolNames
ASSUME CallsAssumption == Calls \subseteq CallType
ASSUME LimitsAssumption ==
  /\ MaxLLMCalls \in Nat \ {0}
  /\ MaxToolCalls \in Nat \ {0}
  /\ MaxRoundCalls \in Nat

VARIABLES
  \* channels of the graph state
  case, capabilities, evidence, tool_call_history, llm_calls, tool_calls,
  pending_tool_calls, degraded, failures, decision,
  \* locals of one visit of the tools node
  visit_calls,     \* calls charged to the budget in this visit
  visit_added,     \* added_all
  visit_records,   \* records
  visit_failures,  \* warn_failures
  \* assembly and control
  tools,           \* names of the assembled tools
  pc,              \* the node to run next
  rounds           \* completed visits of the tools node (history variable)

channels == <<case, capabilities, evidence, tool_call_history, llm_calls,
              tool_calls, pending_tool_calls, degraded, failures, decision>>
visit == <<visit_calls, visit_added, visit_records, visit_failures>>
vars == <<channels, visit, tools, pc, rounds>>

Statuses == {"ok", "error", "skipped"}
LLMSteps == {"hypothesize", "plan", "reevaluate", "decide"}
Record == [seq : Nat, call : Calls, status : Statuses,
           added : SUBSET Evidence, changed : BOOLEAN]
Failure == [step : LLMSteps \cup {"tool_call"}, seq : Nat]

------------------------------------------------------------------------------
(* Budget *)

(* budget_exceeded, over either dimension. *)
BudgetExceeded(llm, tool) == llm >= MaxLLMCalls \/ tool >= MaxToolCalls

(* The outcomes of call_structured_llm: a validated answer on the first or *)
(* second attempt, a truncated first answer, or two failed attempts.       *)
LLMOutcomes == [ok : BOOLEAN, attempts : {1, 2}]

(* A mistaken CanCallLLM: the entry check of the budget is forgotten. *)
CanCallUnlessDegraded == ~degraded

CanCallLLM == ~degraded /\ ~BudgetExceeded(llm_calls, tool_calls)

CriticalFailure(step) == [step |-> step, seq |-> 0]

(* What the overlay and the gate probe read, over given working values. *)
FactsOf(evs, llm, tool, deg) ==
  [ case |-> case, evidence |-> evs, capabilities |-> capabilities,
    exhausted |-> BudgetExceeded(llm, tool), degraded |-> deg ]

------------------------------------------------------------------------------
(* Routing *)

(* A mistaken RouteAfterPlan: the plan that uses up the budget is carried out. *)
RouteAfterPlanUnbudgeted(pending, deg, llm) ==
  IF deg \/ pending = <<>> THEN "decide" ELSE "tools"

RouteAfterPlan(pending, deg, llm) ==
  IF deg \/ BudgetExceeded(llm, tool_calls) \/ pending = <<>>
  THEN "decide" ELSE "tools"

(* is_converged: no required dimension is still measurable and unmeasured. *)
Converged == MissingDimensions(evidence, capabilities) = {}

RouteAfterReevaluate(deg, llm) ==
  IF deg \/ BudgetExceeded(llm, tool_calls) \/ Converged
  THEN "decide" ELSE "plan"

------------------------------------------------------------------------------
(* Nodes *)

Init ==
  /\ case \in Cases
  /\ tools \in ToolWorlds
  /\ capabilities = UnknownCapabilities
  /\ evidence = {}
  /\ tool_call_history = <<>>
  /\ llm_calls = 0
  /\ tool_calls = 0
  /\ pending_tool_calls = <<>>
  /\ degraded = FALSE
  /\ failures = <<>>
  /\ decision = NoDecision
  /\ visit_calls = 0
  /\ visit_added = {}
  /\ visit_records = <<>>
  /\ visit_failures = <<>>
  /\ pc = "hypothesize"
  /\ rounds = 0

(* A fresh budget is never exceeded, so the entry check never stops this node. *)
Hypothesize ==
  /\ pc = "hypothesize"
  /\ pc' = "plan"
  /\ evidence' = MergeEvidence(evidence, RuleHitMeasurement(case))
  /\ capabilities' = CapabilitiesFromTools(tools)
  /\ \E outcome \in LLMOutcomes :
       /\ llm_calls' = llm_calls + outcome.attempts
       /\ degraded' = ~outcome.ok
       /\ failures' = IF outcome.ok THEN failures
                      ELSE Append(failures, CriticalFailure("hypothesize"))
  /\ UNCHANGED <<case, tool_call_history, tool_calls, pending_tool_calls,
                 decision, visit, tools, rounds>>

(* plan without a model call: degraded, or budget exceeded on entry. *)
PlanSkipped ==
  /\ pc = "plan"
  /\ ~CanCallLLM
  /\ pending_tool_calls' = <<>>
  /\ pc' = RouteAfterPlan(<<>>, degraded, llm_calls)
  /\ UNCHANGED <<case, capabilities, evidence, tool_call_history, llm_calls,
                 tool_calls, degraded, failures, decision, visit, tools, rounds>>

PlanFailed ==
  /\ pc = "plan"
  /\ CanCallLLM
  /\ \E outcome \in LLMOutcomes :
       /\ ~outcome.ok
       /\ llm_calls' = llm_calls + outcome.attempts
  /\ pending_tool_calls' = <<>>
  /\ degraded' = TRUE
  /\ failures' = Append(failures, CriticalFailure("plan"))
  /\ pc' = RouteAfterPlan(<<>>, TRUE, llm_calls')
  /\ UNCHANGED <<case, capabilities, evidence, tool_call_history, tool_calls,
                 decision, visit, tools, rounds>>

(* A mistaken ExecutedCalls: a success that added nothing does not count. *)
ProductiveCalls(records) ==
  {records[i].call : i \in {j \in DOMAIN records : records[j].added # {}}}

(* dedup_pending compares proposals with the calls that succeeded. *)
ExecutedCalls(records) ==
  {records[i].call : i \in {j \in DOMAIN records : records[j].status = "ok"}}

(* A mistaken PlanLimit: the schema admits one call too many. *)
PlanLimitOffByOne == MaxRoundCalls + 1

(* The longest list of calls the schema of a plan admits. *)
PlanLimit == MaxRoundCalls

(* The order of a round is the planner's (list order, then priority) and   *)
(* repetitions within it are dropped, so a round is any list of distinct   *)
(* calls, no longer than a plan.                                           *)
RoundsOf(S) == {list \in SeqOf(S, PlanLimit) : IsInjective(list)}

(* A mistaken SkippedRecords: numbered from the last record, not after it. *)
SkippedRecordsOffByOne(first, skipped) ==
  [ i \in DOMAIN skipped |->
      [ seq |-> first + i - 1, call |-> skipped[i], status |-> "skipped",
        added |-> {}, changed |-> FALSE ] ]

SkippedRecords(first, skipped) ==
  [ i \in DOMAIN skipped |->
      [ seq |-> first + i, call |-> skipped[i], status |-> "skipped",
        added |-> {}, changed |-> FALSE ] ]

(* A validated plan; "conclude" is the empty proposal. *)
PlanAccepted ==
  /\ pc = "plan"
  /\ CanCallLLM
  /\ \E outcome \in LLMOutcomes :
       /\ outcome.ok
       /\ llm_calls' = llm_calls + outcome.attempts
  /\ LET executed == ExecutedCalls(tool_call_history)
     IN \E cleaned \in RoundsOf(Calls \ executed),
           skipped \in RoundsOf(Calls \cap executed) :
          /\ Len(cleaned) + Len(skipped) <= PlanLimit
          /\ pending_tool_calls' = cleaned
          /\ tool_call_history' =
               tool_call_history \o SkippedRecords(Len(tool_call_history), skipped)
  /\ degraded' = FALSE
  /\ pc' = RouteAfterPlan(pending_tool_calls', FALSE, llm_calls')
  /\ UNCHANGED <<case, capabilities, evidence, tool_calls, failures, decision,
                 visit, tools, rounds>>

------------------------------------------------------------------------------
(* The tools node.  The remainder of pending_tool_calls is the loop's      *)
(* iteration state; the channel itself is read by no other node.           *)

(* A mistaken ToolBudgetLeft: the calls of this visit are not counted. *)
ToolBudgetLeftOnEntry == tool_calls < MaxToolCalls

ToolBudgetLeft == tool_calls + visit_calls < MaxToolCalls

NextSeq == Len(tool_call_history) + Len(visit_records) + 1

CallAccepted(call) == call.tool \in tools /\ call.args # "malformed"

(* The object a call is about; its other parameters are not part of it. *)
SubjectOf(call) == IF call.args = "other" THEN "other" ELSE "own"

(* Verdicts of the product consistency check: a case with a blank brand or *)
(* category never matches, and another product is reported as CONFIRMED.   *)
ProductVerdicts(call) ==
  IF SubjectOf(call) = "other" THEN {"NEGATIVE"}
  ELSE IF case.brand = "blank" \/ case.categoryBlank THEN {"POSITIVE"}
  ELSE Verdicts

(* to_evidence of the four tools, over every answer its source may give. *)
ProductEvidence(call) ==
  { {PlainEvidence("PRODUCT_FACT", "ProductTool", SubjectOf(call), None),
     MeasurementOf("listing_registry", "ProductTool", SubjectOf(call), v)}
    : v \in ProductVerdicts(call) }

MerchantEvidence(call) ==
  { {PlainEvidence("MERCHANT_HISTORY", "MerchantTool", SubjectOf(call), None),
     MeasurementOf("merchant_profile", "MerchantTool", SubjectOf(call), v)}
    : v \in Verdicts }

CaseSearchEvidence ==
  { {PlainEvidence("CASE_PRECEDENT", "CaseSearchTool", p, None) : p \in hits}
    : hits \in SUBSET Precedents }

PolicySearchEvidence ==
  { {PlainEvidence("POLICY_REF", "PolicySearchTool", cl, PolicyOf[cl]) : cl \in hits}
    : hits \in SUBSET Clauses }

EvidenceChoices(call) ==
  [ ProductTool      |-> ProductEvidence(call),
    MerchantTool     |-> MerchantEvidence(call),
    CaseSearchTool   |-> CaseSearchEvidence,
    PolicySearchTool |-> PolicySearchEvidence ][call.tool]

ErrorRecord(call) ==
  [ seq |-> NextSeq, call |-> call, status |-> "error",
    added |-> {}, changed |-> FALSE ]

(* Unknown tool or arguments the schema rejects: recorded, not charged. *)
CallRejected ==
  /\ pc = "tools"
  /\ pending_tool_calls # <<>>
  /\ ToolBudgetLeft
  /\ ~CallAccepted(Head(pending_tool_calls))
  /\ visit_records' = Append(visit_records, ErrorRecord(Head(pending_tool_calls)))
  /\ pending_tool_calls' = Tail(pending_tool_calls)
  /\ UNCHANGED <<case, capabilities, evidence, tool_call_history, llm_calls,
                 tool_calls, degraded, failures, decision, visit_calls,
                 visit_added, visit_failures, tools, pc, rounds>>

(* A mistaken CallFailed: a call that failed is not charged. *)
CallFailedUncharged ==
  /\ pc = "tools"
  /\ pending_tool_calls # <<>>
  /\ ToolBudgetLeft
  /\ CallAccepted(Head(pending_tool_calls))
  /\ visit_records' = Append(visit_records, ErrorRecord(Head(pending_tool_calls)))
  /\ visit_failures' = Append(visit_failures, [step |-> "tool_call", seq |-> NextSeq])
  /\ pending_tool_calls' = Tail(pending_tool_calls)
  /\ UNCHANGED <<case, capabilities, evidence, tool_call_history, llm_calls,
                 tool_calls, degraded, failures, decision, visit_calls,
                 visit_added, tools, pc, rounds>>

(* The tool answers ok=False (object not found): charged, warned about. *)
CallFailed ==
  /\ pc = "tools"
  /\ pending_tool_calls # <<>>
  /\ ToolBudgetLeft
  /\ CallAccepted(Head(pending_tool_calls))
  /\ Head(pending_tool_calls).tool \in {"ProductTool", "MerchantTool"}
  /\ visit_calls' = visit_calls + 1
  /\ visit_records' = Append(visit_records, ErrorRecord(Head(pending_tool_calls)))
  /\ visit_failures' = Append(visit_failures, [step |-> "tool_call", seq |-> NextSeq])
  /\ pending_tool_calls' = Tail(pending_tool_calls)
  /\ UNCHANGED <<case, capabilities, evidence, tool_call_history, llm_calls,
                 tool_calls, degraded, failures, decision, visit_added,
                 tools, pc, rounds>>

(* The gate probe of the visit's working state, over given evidence and    *)
(* calls charged.                                                          *)
WorkingEvidence == evidence \cup visit_added

ProbeOf(evs, charged) ==
  GateProbe(FactsOf(evs, llm_calls, tool_calls + charged, degraded))

(* A mistaken ProbeBefore: taken once, when the visit starts. *)
ProbeAtVisitStart == ProbeOf(evidence, 0)

ProbeBefore == ProbeOf(WorkingEvidence, visit_calls)

SuccessRecord(call, added) ==
  [ seq |-> NextSeq, call |-> call, status |-> "ok", added |-> added,
    changed |-> ProbeBefore # ProbeOf(WorkingEvidence \cup added, visit_calls + 1) ]

(* The tool answers, at once or after one retry. *)
CallSucceeded ==
  /\ pc = "tools"
  /\ pending_tool_calls # <<>>
  /\ ToolBudgetLeft
  /\ CallAccepted(Head(pending_tool_calls))
  /\ \E evs \in EvidenceChoices(Head(pending_tool_calls)) :
       LET added == NewEvidence(WorkingEvidence, evs)
       IN /\ visit_added' = visit_added \cup added
          /\ visit_records' =
               Append(visit_records, SuccessRecord(Head(pending_tool_calls), added))
  /\ visit_calls' = visit_calls + 1
  /\ pending_tool_calls' = Tail(pending_tool_calls)
  /\ UNCHANGED <<case, capabilities, evidence, tool_call_history, llm_calls,
                 tool_calls, degraded, failures, decision, visit_failures,
                 tools, pc, rounds>>

(* A tool raises twice: the exception leaves the graph, and nothing of the *)
(* visit is published.                                                     *)
CallRaised ==
  /\ pc = "tools"
  /\ pending_tool_calls # <<>>
  /\ ToolBudgetLeft
  /\ CallAccepted(Head(pending_tool_calls))
  /\ pc' = "raised"
  /\ visit_calls' = 0
  /\ visit_added' = {}
  /\ visit_records' = <<>>
  /\ visit_failures' = <<>>
  /\ UNCHANGED <<channels, tools, rounds>>

(* A mistaken ToolsReturn: calls beyond the budget are waited for. *)
ToolsReturnWhenDrained ==
  /\ pc = "tools"
  /\ pending_tool_calls = <<>>
  /\ pc' = "reevaluate"
  /\ rounds' = rounds + 1
  /\ evidence' = MergeEvidence(evidence, visit_added)
  /\ tool_call_history' = tool_call_history \o visit_records
  /\ failures' = failures \o visit_failures
  /\ tool_calls' = tool_calls + visit_calls
  /\ visit_calls' = 0 /\ visit_added' = {}
  /\ visit_records' = <<>> /\ visit_failures' = <<>>
  /\ UNCHANGED <<case, capabilities, llm_calls, pending_tool_calls, degraded,
                 decision, tools>>

(* The loop ends, or breaks on the tool budget; the visit is published. *)
ToolsReturn ==
  /\ pc = "tools"
  /\ pending_tool_calls = <<>> \/ ~ToolBudgetLeft
  /\ pc' = "reevaluate"
  /\ rounds' = rounds + 1
  /\ pending_tool_calls' = <<>>
  /\ evidence' = MergeEvidence(evidence, visit_added)
  /\ tool_call_history' = tool_call_history \o visit_records
  /\ failures' = failures \o visit_failures
  /\ tool_calls' = tool_calls + visit_calls
  /\ visit_calls' = 0
  /\ visit_added' = {}
  /\ visit_records' = <<>>
  /\ visit_failures' = <<>>
  /\ UNCHANGED <<case, capabilities, llm_calls, degraded, decision, tools>>

------------------------------------------------------------------------------
(* The hypotheses themselves feed no route, gate or budget, and are not    *)
(* part of this module.                                                    *)

ReevaluateSkipped ==
  /\ pc = "reevaluate"
  /\ ~CanCallLLM
  /\ pc' = RouteAfterReevaluate(degraded, llm_calls)
  /\ UNCHANGED <<channels, visit, tools, rounds>>

Reevaluate ==
  /\ pc = "reevaluate"
  /\ CanCallLLM
  /\ \E outcome \in LLMOutcomes :
       /\ llm_calls' = llm_calls + outcome.attempts
       /\ degraded' = ~outcome.ok
       /\ failures' = IF outcome.ok THEN failures
                      ELSE Append(failures, CriticalFailure("reevaluate"))
       /\ pc' = RouteAfterReevaluate(~outcome.ok, llm_calls + outcome.attempts)
  /\ UNCHANGED <<case, capabilities, evidence, tool_call_history, tool_calls,
                 pending_tool_calls, decision, visit, tools, rounds>>

(* decide without a proposal: degraded, or budget exceeded on entry. *)
DecideUnassisted ==
  /\ pc = "decide"
  /\ ~CanCallLLM
  /\ decision' = DecisionOverlay(FactsOf(evidence, llm_calls, tool_calls, degraded),
                                 NoProposal)
  /\ degraded' = FALSE
  /\ pc' = "done"
  /\ UNCHANGED <<case, capabilities, evidence, tool_call_history, llm_calls,
                 tool_calls, pending_tool_calls, failures, visit, tools, rounds>>

DecideFailed ==
  /\ pc = "decide"
  /\ CanCallLLM
  /\ \E outcome \in LLMOutcomes :
       /\ ~outcome.ok
       /\ llm_calls' = llm_calls + outcome.attempts
  /\ decision' = DecisionOverlay(FactsOf(evidence, llm_calls', tool_calls, TRUE),
                                 NoProposal)
  /\ failures' = Append(failures, CriticalFailure("decide"))
  /\ degraded' = FALSE
  /\ pc' = "done"
  /\ UNCHANGED <<case, capabilities, evidence, tool_call_history, tool_calls,
                 pending_tool_calls, visit, tools, rounds>>

DecideProposed ==
  /\ pc = "decide"
  /\ CanCallLLM
  /\ \E outcome \in LLMOutcomes :
       /\ outcome.ok
       /\ llm_calls' = llm_calls + outcome.attempts
  /\ \E proposal \in Proposals :
       decision' = DecisionOverlay(FactsOf(evidence, llm_calls', tool_calls, degraded),
                                   proposal)
  /\ degraded' = FALSE
  /\ pc' = "done"
  /\ UNCHANGED <<case, capabilities, evidence, tool_call_history, tool_calls,
                 pending_tool_calls, failures, visit, tools, rounds>>

Next ==
  \/ Hypothesize
  \/ PlanSkipped \/ PlanFailed \/ PlanAccepted
  \/ CallRejected \/ CallFailed \/ CallSucceeded \/ CallRaised \/ ToolsReturn
  \/ ReevaluateSkipped \/ Reevaluate
  \/ DecideUnassisted \/ DecideFailed \/ DecideProposed

Spec == Init /\ [][Next]_vars

(* One coroutine drives the graph and every model or tool call it awaits   *)
(* returns or raises, so a run that can take a step takes it.              *)
FairSpec == Spec /\ WF_vars(Next)

==============================================================================
