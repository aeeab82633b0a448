------------------------ MODULE InvestigationProperties ------------------------
(***************************************************************************)
(* What one run of the investigation graph must guarantee, over the        *)
(* behaviours of module Investigation.                                     *)
(***************************************************************************)
EXTENDS Investigation

(* The audit trail, including what the current visit has not published yet. *)
Trail == tool_call_history \o visit_records

Successes(trail) == {i \in DOMAIN trail : trail[i].status = "ok"}

(* All failures, with those the current visit has not published yet, and   *)
(* the warnings of the tools node among a list of them.                    *)
AllFailures == failures \o visit_failures

Warnings(list) == {i \in DOMAIN list : list[i].step = "tool_call"}

(* Some model step has exhausted its attempts. *)
StepFailed == \E i \in DOMAIN failures : failures[i].step \in LLMSteps

Decided == pc = "done"

(* The facts the final decision was computed from. *)
FinalFacts == FactsOf(evidence, llm_calls, tool_calls, StepFailed)

Decision ==
  [ decision : Proposals \cup {"NONE"}, overrides : SUBSET OverrideCodes,
    evidence : SUBSET Evidence, policy : SUBSET (Policies \cup {None}) ]

Nodes == {"hypothesize", "plan", "tools", "reevaluate", "decide", "done", "raised"}

(* Type invariant: every channel of the graph state, and every local of the *)
(* tools node, stays in the set its readers expect.                         *)
TypeOK ==
  /\ case \in Cases
  /\ tools \in ToolWorlds
  /\ capabilities \in [Dimensions -> BOOLEAN]
  /\ evidence \in SUBSET Evidence
  /\ tool_call_history \in Seq(Record)
  /\ llm_calls \in Nat
  /\ tool_calls \in Nat
  /\ pending_tool_calls \in Seq(Calls)
  /\ degraded \in BOOLEAN
  /\ failures \in Seq(Failure)
  /\ decision \in Decision
  /\ visit_calls \in Nat
  /\ visit_added \in SUBSET Evidence
  /\ visit_records \in Seq(Record)
  /\ visit_failures \in Seq(Failure)
  /\ pc \in Nodes
  /\ rounds \in Nat

------------------------------------------------------------------------------
(* Budget and rounds *)

(* The tool budget is never overrun, even inside a round; the model budget *)
(* is overrun by at most the retry of the call that exhausts it            *)
(* (call_structured_llm charges both attempts after they were made).       *)
BudgetBound ==
  /\ llm_calls <= MaxLLMCalls + 1
  /\ tool_calls + visit_calls <= MaxToolCalls

(* Every unit of tool budget is explained by the audit trail: a successful *)
(* call, or a failed one that left a warning (tools_node charges the three *)
(* error paths differently).                                               *)
ChargesAudited ==
  tool_calls + visit_calls =
    Cardinality(Successes(Trail)) + Cardinality(Warnings(AllFailures))

(* The model budget alone bounds the loop: every round of tools was paid   *)
(* for by a plan, and every earlier one by a re-evaluation.                *)
RoundBound == 2 * rounds < MaxLLMCalls

(* A visit of the tools node never charges more than one plan may propose, *)
(* so the rounds, and with them the model budget, bound the tool calls     *)
(* whatever the tool budget is.                                            *)
RoundCost ==
  /\ tool_calls <= MaxRoundCalls * rounds
  /\ visit_calls <= MaxRoundCalls

(* Once a model step has failed or a budget is used up, no model or tool   *)
(* is called again and no fact is added: the run goes straight to decide.  *)
StopsInvestigating ==
  [][ StepFailed \/ BudgetExceeded(llm_calls, tool_calls)
        => UNCHANGED <<llm_calls, tool_calls, visit_calls, evidence>> ]_vars

------------------------------------------------------------------------------
(* Audit trail and evidence *)

(* The audit trail is numbered without gaps across the plan node (skipped  *)
(* duplicates) and the tools node, and the tool warnings point at error    *)
(* records, a later warning at a later record, so no two at the same.      *)
AuditTrail ==
  /\ \A i \in DOMAIN Trail : Trail[i].seq = i
  /\ \A i \in Warnings(AllFailures) :
       /\ AllFailures[i].seq \in DOMAIN Trail
       /\ Trail[AllFailures[i].seq].status = "error"
  /\ \A i, j \in Warnings(AllFailures) : i < j => AllFailures[i].seq < AllFailures[j].seq

(* A call that has succeeded is not executed again, whatever the planner   *)
(* proposes in whatever later round (dedup_pending).                       *)
NoRepeatedSuccess ==
  \A i, j \in Successes(Trail) : Trail[i].call = Trail[j].call => i = j

(* A piece of evidence answers a call: the tool that was called has signed *)
(* it, and a lookup's is about the object the call has asked for.          *)
Answers(e, call) ==
  /\ e.source = call.tool
  /\ call.tool \in {"ProductTool", "MerchantTool"} => e.ref = SubjectOf(call)

(* Every piece of evidence comes from the rules or from exactly one        *)
(* audited call, and all that an audited call added is held as evidence;   *)
(* a call that added evidence succeeded, and the evidence answers it.      *)
EvidenceProvenance ==
  LET held == evidence \cup visit_added
      ByCall(e) == {i \in DOMAIN Trail : e \in Trail[i].added}
  IN /\ \A i \in DOMAIN Trail : Trail[i].added \subseteq held
     /\ \A i \in DOMAIN Trail : \A e \in Trail[i].added :
          Trail[i].status = "ok" /\ Answers(e, Trail[i].call)
     /\ \A e \in held \ RuleHitMeasurement(case) : Cardinality(ByCall(e)) = 1
     /\ \A e \in RuleHitMeasurement(case) : ByCall(e) = {}

(* Published evidence is never withdrawn, and no later answer on the same  *)
(* dimension of the same object replaces or contradicts it.                *)
EvidenceOnlyGrows ==
  [][ /\ evidence \subseteq evidence'
      /\ \A e, x \in evidence' : EvidenceKey(e) = EvidenceKey(x) => e = x ]_vars

(* The marginal-gain audit: a call recorded as having changed the decision *)
(* contributed evidence, or it was the one that used up the tool budget.   *)
MarginalGain ==
  \A i \in DOMAIN Trail :
    Trail[i].changed /\ Trail[i].added = {} =>
      /\ tool_calls + visit_calls = MaxToolCalls
      /\ \A j \in Successes(Trail) : j <= i

------------------------------------------------------------------------------
(* Decisions *)

(* A released case was measured clean: both lookups it needs succeeded and *)
(* are on the audit trail, no measurement is positive, no term rule is     *)
(* hit, no model step failed and budget was left when it was decided.      *)
PassJustified ==
  Decided /\ decision.decision = "PASS" =>
    /\ \A t \in {"ProductTool", "MerchantTool"} :
         \E i \in Successes(tool_call_history) : tool_call_history[i].call.tool = t
    /\ \A m \in Measurements(evidence) : m.verdict = "NEGATIVE"
    /\ RuleHits(case) \subseteq {"R-301"}
    /\ ~StepFailed
    /\ llm_calls < MaxLLMCalls /\ tool_calls < MaxToolCalls

(* A rejection rests on the blacklist, or on the listing's own evasion     *)
(* term together with a citation some audited search contributed; and the  *)
(* policies it cites are those of the rule that authorises it, with the    *)
(* aggravated one when the merchant's history is positive as well.         *)
RejectJustified ==
  Decided /\ decision.decision = "REJECT" =>
    \/ case.brand = "blacklisted" /\ "POLICY_1.1" \in decision.policy
    \/ /\ case.evasionTerm /\ "POLICY_1.2" \in decision.policy
       /\ "merchant_profile" \in PositiveDimensions(evidence)
            => "POLICY_4.5" \in decision.policy
       /\ \E i \in Successes(tool_call_history) :
            HasCitableEvidence(tool_call_history[i].added)
       /\ \A t \in {"ProductTool", "MerchantTool"} :
            \E i \in Successes(tool_call_history) : tool_call_history[i].call.tool = t
       /\ ~StepFailed

(* No silent degradation, and no false alarm: outside the blacklist, the   *)
(* degradation code is on the decision exactly when some model step of the *)
(* run failed, however the flag was set and cleared on the way; the        *)
(* overlay's fallback for a missing proposal never has to speak for it.    *)
DegradationReported ==
  Decided =>
    ("R5_DEGRADED_OR_FAILED_STEP" \in decision.overrides
       <=> StepFailed /\ case.brand # "blacklisted")

(* The audit probe and the overlay are two codings of the same rules: over *)
(* the facts of the decision the overlay never concludes what the probe    *)
(* rules out, it hands over where the probe finds nothing authorised, and  *)
(* it adopts the verdict the probe shows when that is the one proposed.    *)
ProbeAgrees ==
  Decided =>
    LET probe == GateProbe(FinalFacts)
    IN /\ decision.decision = "PASS" => probe = "PASS"
       /\ decision.decision = "REJECT" => probe = "REJECT"
       /\ probe \in {"HUMAN", "UNDECIDED"} => decision.decision = "HUMAN_REVIEW"
       /\ probe \in {"PASS", "REJECT"} =>
            DecisionOverlay(FinalFacts, probe).decision = probe

(* The investigation keeps what Adjudication promises. *)
Promise == INSTANCE Adjudication WITH
  facts   <- evidence,
  failed  <- StepFailed,
  phase   <- IF pc = "done" THEN "closed" ELSE IF pc = "raised" THEN "abandoned" ELSE "open",
  verdict <- decision.decision,
  grounds <- decision.policy

(* Every run of the graph is an adjudication: facts only accumulate, stop  *)
(* at the first failed step, and close the case with a verdict they permit.*)
ImplementsAdjudication == Promise!Spec

------------------------------------------------------------------------------
(* Termination *)

(* Every run decides its case or raises; it never idles in the loop.       *)
Termination == <>(pc \in {"done", "raised"})

------------------------------------------------------------------------------
(* What the documentation says of a run, checked against the code. *)

(* PASS needs this case's required dimensions measured, and negative       *)
(* (00-system-design.md section 8.2, the PASS gate).                       *)
PassMeasuredThisCase ==
  Decided /\ decision.decision = "PASS" =>
    \A d \in {"listing_registry", "merchant_profile"} :
      \E m \in Measurements(evidence) : m.dim = d /\ m.ref = "own"

==============================================================================
