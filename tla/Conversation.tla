----------------------------- MODULE Conversation -----------------------------
(***************************************************************************)
(* The dialogue of one run with its model: the calls the four nodes make,  *)
(* the history they append to, and the cursor that says which evidence the *)
(* model has been told.  What is decided from the answers is the business  *)
(* of module Investigation; here a plan names tools or none, and a visit   *)
(* of the tools adds evidence.  A run that a tool ends just stops.         *)
(***************************************************************************)
EXTENDS LLMShell

CONSTANTS
  MaxLLMCalls,    \* limits.max_llm_calls
  MaxNewEvidence  \* bound on the evidence of one visit of the tools

ASSUME ConversationAssumption == MaxLLMCalls \in Nat \ {0} /\ MaxNewEvidence \in Nat

VARIABLES
  evidence, llm_evidence_cursor, degraded, llm_calls,  \* channels
  tool_budget_left,  \* tool_calls < limits.max_tool_calls
  text_hit,          \* whether the rules measure the text as positive
  node               \* the node to run next

graph == <<evidence, llm_evidence_cursor, degraded, llm_calls, tool_budget_left,
           text_hit, node>>
vars == <<shell, graph>>

(* Evidence, as the prompts treat it: the measurement of the rules, what   *)
(* may be cited, and the rest of what tools contribute.                    *)
EvidenceKinds == {"rule", "citable", "other"}
Indices(list) == DOMAIN list

Init ==
  /\ llm_messages = <<>>
  /\ call = NoCall
  /\ sent = <<>>
  /\ requests = 0
  /\ evidence = <<>>
  /\ llm_evidence_cursor = 0
  /\ degraded = FALSE
  /\ llm_calls = 0
  /\ tool_budget_left = TRUE
  /\ text_hit \in BOOLEAN
  /\ node = "hypothesize"

BudgetExceeded(calls) == calls >= MaxLLMCalls \/ ~tool_budget_left

CanCallLLM == ~degraded /\ ~BudgetExceeded(llm_calls)

(* A mistaken ShownEvidence: the first new piece is taken for told. *)
ShownOffByOne(n) == {i \in DOMAIN evidence : n = "reevaluate" /\ i > llm_evidence_cursor + 1}

(* build_turn_message: reevaluate is shown the evidence behind the cursor, *)
(* decide what may be cited, the others none.  (The coverage lists of plan *)
(* and decide name verdicts, no evidence.)                                 *)
ShownEvidence(n) ==
  {i \in DOMAIN evidence :
     \/ n = "reevaluate" /\ i > llm_evidence_cursor
     \/ n = "decide" /\ evidence[i] = "citable"}

BeginCall ==
  /\ call.stage = "idle"
  /\ node \in LLMNodes
  /\ CanCallLLM
  /\ StartCall(Turn(node, ShownEvidence(node)))
  /\ UNCHANGED graph

MakeAttempt == Attempt /\ UNCHANGED graph

------------------------------------------------------------------------------
(* The nodes, on return of their call or without one *)

Returning(n) == node = n /\ call.stage \in {"answered", "failed"}

(* A mistaken ChargedCalls: the attempt that succeeds is charged only. *)
OneChargePerCall == llm_calls + 1

ChargedCalls == llm_calls + call.attempt

(* What every node does with the outcome of its call. *)
Conclude ==
  /\ llm_messages' = llm_messages \o call.messages
  /\ llm_calls' = ChargedCalls
  /\ call' = NoCall
  /\ UNCHANGED <<sent, requests, tool_budget_left, text_hit>>

HypothesizeReturns ==
  /\ Returning("hypothesize")
  /\ Conclude
  /\ degraded' = (call.stage = "failed")
  /\ evidence' = IF text_hit THEN <<"rule">> ELSE <<>>
  /\ node' = "plan"
  /\ UNCHANGED llm_evidence_cursor

(* The model planned tools (pending) or none. *)
PlanReturns ==
  /\ Returning("plan")
  /\ Conclude
  /\ degraded' = (call.stage = "failed")
  /\ \E pending \in BOOLEAN :
       node' = IF pending /\ ~degraded' /\ ~BudgetExceeded(llm_calls')
               THEN "tools" ELSE "decide"
  /\ UNCHANGED <<evidence, llm_evidence_cursor>>

Tools ==
  /\ node = "tools"
  /\ \E n \in 0..MaxNewEvidence :
       \E new \in [1..n -> {"citable", "other"}] : evidence' = evidence \o new
  /\ tool_budget_left' \in BOOLEAN
  /\ node' = "reevaluate"
  /\ UNCHANGED <<shell, llm_evidence_cursor, degraded, llm_calls, text_hit>>

(* A mistaken CursorAfterCall: moved although nothing may have been said. *)
CursorMovedAlways == Len(evidence)

(* A mistaken CursorAfterCall: one piece too far. *)
CursorPastEnd == IF call.messages # <<>> THEN Len(evidence) + 1 ELSE llm_evidence_cursor

(* The cursor moves on if the call left something in the history. *)
CursorAfterCall == IF call.messages # <<>> THEN Len(evidence) ELSE llm_evidence_cursor

(* Whether the hypotheses have converged is up to the model. *)
ReevaluateReturns ==
  /\ Returning("reevaluate")
  /\ Conclude
  /\ degraded' = (call.stage = "failed")
  /\ llm_evidence_cursor' = CursorAfterCall
  /\ \E converged \in BOOLEAN :
       node' = IF converged \/ degraded' \/ BudgetExceeded(llm_calls')
               THEN "decide" ELSE "plan"
  /\ UNCHANGED evidence

(* decide clears the flag whatever came of its call. *)
DecideReturns ==
  /\ Returning("decide")
  /\ Conclude
  /\ degraded' = FALSE
  /\ node' = "done"
  /\ UNCHANGED <<evidence, llm_evidence_cursor>>

(* plan, reevaluate and decide without a call; the edges lead to decide. *)
CallSkipped ==
  /\ call.stage = "idle"
  /\ node \in {"plan", "reevaluate", "decide"}
  /\ ~CanCallLLM
  /\ node' = IF node = "decide" THEN "done" ELSE "decide"
  /\ degraded' = (degraded /\ node # "decide")
  /\ UNCHANGED <<shell, evidence, llm_evidence_cursor, llm_calls, tool_budget_left, text_hit>>

------------------------------------------------------------------------------

Next ==
  \/ BeginCall \/ MakeAttempt \/ CallSkipped
  \/ HypothesizeReturns \/ PlanReturns \/ Tools \/ ReevaluateReturns \/ DecideReturns

Spec == Init /\ [][Next]_vars

==============================================================================
