# Verification of product-review-agent

TLA+ models, TLC configurations and TLAPS proofs for the agent that adjudicates
product listings (`src/pra`).  A listing is screened by rules; a listing the rules
cannot settle is investigated by a graph of model and tool steps, and closed by a
deterministic overlay that decides PASS, REJECT or HUMAN_REVIEW.

The question the project asks: *whatever the language model proposes, whatever the
tools answer, and whatever fails on the way, does the deterministic part keep the
promises the design makes* - a release only on complete negative measurements, a
rejection only on grounds that can be cited, no silent degradation, bounded cost,
an audit trail that explains every charge and every piece of evidence?

## 1. Inventory

| Component | State | Operations | Interacts with | What makes it correct |
|---|---|---|---|---|
| Screening (`screening/`) | none | `triage`, `rule_evidence` | service (triage), agent (`rule_hit_ids`, `rule_hit_measurement`) | a reject rule wins; the agent's re-check agrees |
| Measurements (`guardrails/measurements.py`, `domain/measurement.py`, reducer in `agent/state.py`) | evidence channel | `merge_evidence`, coverage, capabilities | every node, gate | what is measured is never unmeasured; nothing missing counts as measured |
| Gate (`guardrails/gate.py`, `hard_rules.py`, `metrics.py`) | none | `run_decision_overlay`, `gate_probe` | decide node, tools node | verdicts only on the grounds of design 8.2; probe and overlay agree |
| Investigation graph (`agent/graph.py`, `agent/nodes/`) | the channels of `AgentState` | five nodes, two conditional edges | models, tools, checkpointer | bounded loop, no work after a failure, failures reported |
| Tools node (`agent/tools_node.py`) | locals of one visit | one step per call | tools, reducer, probe | budget per call, gap-free audit, no lost or doubled evidence |
| Evidence tools (`tools/`) | none (read only) | `call`, `to_evidence` | MySQL, retrieval | a measurement is about the object asked for |
| LLM shell (`guardrails/llm_shell.py`) | attempts, feedback | `call_structured_llm` | back-end | never raises; charges every attempt |
| Back-end and prompts (`litellm_backend.py`, `llm_prompts.py`) | conversation history | `complete` | model gateway | history is a well-formed, append-only prefix |
| Persistence (`infra/persist_service.py`) | five tables | `run_and_persist`, `run_screening_direct` | graph, MySQL, other requests | result agrees with its run; nothing half-written is final |
| API and wiring (`api/`, `wiring.py`) | graph singleton | `POST /reviews` | persistence | errors are explicit |
| Retrieval (`rag/`) | corpus in memory, one Chroma collection for all processes | seed, search | search tools, other processes | a search finds its candidates while others seed; the collection ends up as the corpus |
| Evaluation harness (`scripts/run_evaluation.py`, `cross_check_labels.py`, `scripts/evaluation/`) | records of three arms, excluded cases | audit, arms, perturbed and repeated runs, figures | screening, graph, labels | a failed case is in no figure, no figure counts a case it excludes, a correct agent raises no alarm |
| Dataset and corpus builders (`scripts/build_*.py`, `scripts/evaluation/generator`, `labeling`) | files | generate, label | harness, retrieval | labels agree with the rules the program implements |

Hard behaviours: the model budget is checked before a call and charged after it;
the tool budget can run out inside a visit; the degraded flag is set, cleared and
read by different nodes; a tool exception loses what its visit had collected; audit
numbers are assigned in two nodes; evidence is de-duplicated in two places; the
decision rules are coded twice, and a third time by the labeller; requests for one case
run concurrently and commit node by node; processes of several releases empty and refill
one collection that others search; the cases of an evaluation run concurrently and fail
one by one.  `PROJECT.json` lists each at its line.

## 2. Plan

Modules, in the order they are written; each is checked and proved about before the
next is begun.

| # | Modules | Composes | Status |
|---|---|---|---|
| 1 | `Screening`, `Measurement`, `Gate` (pure definitions) | - | written |
| 2 | `Adjudication` (abstract promise), `Investigation`, `InvestigationProperties`, `MCInvestigation` | 1 | written |
| 3 | `InvestigationProofs`, `InvestigationRefinement`, `InvestigationAudit`, `InvestigationDecisions` | 2 | written |
| 4 | `Persistence`, `PersistenceProperties`, `MCPersistence`, `PersistenceProofs` | - | written |
| 5 | `LLMShell` (attempts of one call), `Conversation` (the calls of a run, history, evidence cursor), `ConversationProperties`, `MCConversation`, `ConversationProofs` | - | written |
| 5a | `StructuredCall`: the call as `Investigation` assumes it, implemented by `LLMShell` | 5 | planned |
| 6 | `ReviewService`: `Persistence` driven by `Investigation`, so that the trace rows are those of the graph and the rows of a result those of its decision | 2, 4 | planned |
| 7 | `RagIndex` (seeding of a collection by several processes while others search), `RagIndexProperties`, `MCRagIndex`, `RagIndexProofs` | - | written |
| 8 | `Labelling` (generator and labeller), `Grading` (arms, grading, figures), `EvaluationRun`, `EvaluationProperties`, `MCEvaluation` | 1 | written |
| 8a | `EvaluationProofs` | 8 | written |

Abstract specifications: `Adjudication` (written); `StructuredCall`; `CaseLedger` for persistence: a case as the
list of its concluded runs, whose
last entry is its result.

Runs planned: the composed service (one case, two requests, one round).

Theorems planned: `Persistence` implements `CaseLedger`, `LLMShell` implements
`StructuredCall`, and the invariants of `ReviewService` from those of its parts.

## 3. Modules and the code

`PROJECT.json` maps each definition to its lines; this is the overview.

**`Screening`** (`screening/`, `guardrails/hard_rules.py`).  A case is the four
features its rules read: brand (listed, blank, blacklisted), a blank category, a brand term and
an evasion term in the text.  `RuleHits`, `Triage` and `HardRuleHit` follow the rules.

**`Measurement`** (`domain/measurement.py`, `guardrails/measurements.py`, the reducer
of `agent/state.py`).  Evidence is a record of type, source, dimension, verdict,
object and policy; lists of evidence are sets, since no decision depends on their
order.  `NewEvidence` is the filter both the tools node and the reducer
apply: the first evidence with a key stays.  Coverage is the three operators `Covered`,
`Missing` and `UnmeasurableDimensions`.

**`Gate`** (`guardrails/gate.py`, `metrics.py`).  `DecisionOverlay` is the chain of
returns of `run_decision_overlay`, over a record of facts; `GateProbe` is the second
coding of the rules used for the marginal-gain audit.

**`Investigation`** (`agent/graph.py`, `agent/nodes/`, `agent/tools_node.py`,
`guardrails/budget.py`, `dedup.py`, `converge.py`).  The variables are the channels of
`AgentState` the properties need, the locals of one visit of the tools node, and the
node to run next.

| Action | Code |
|---|---|
| `Hypothesize` | `hypothesize_node`, including the rules' measurement and a failed call |
| `PlanSkipped`, `PlanFailed`, `PlanAccepted` | `plan_node`: budget or degradation, two failed attempts, `_apply_plan` with `dedup_pending` |
| `CallRejected`, `CallFailed`, `CallSucceeded`, `CallRaised` | one iteration of the loop of `tools_node`: unknown tool or arguments, business failure, success, an exception after the retry |
| `ToolsReturn` | the end of the loop, budget break included, and the reducers |
| `ReevaluateSkipped`, `Reevaluate` | `reevaluate_node` and `route_after_reevaluate` |
| `DecideUnassisted`, `DecideFailed`, `DecideProposed` | `decide_node` without a call, with a failed call, with a proposal |

A node other than the tools node is one step: the graph applies its update and
evaluates its route in one super-step, and nothing else writes the state of a run.  The
models are a nondeterministic choice over what their schemas admit, the tools one over
the answers their sources may give.

**`Persistence`** (`infra/persist_service.py`, `infra/db.py`, `wiring.py`).  The five
tables, and per request its session: the case row it holds, the evidence it has
observed, and of its graph the evidence channel and the decision.  A step is what happens
between two awaits: one read, or one commit with what it flushes.

| Action | Code |
|---|---|
| `Receive` | `process_review`: triage, and the `session.get` of its branch |
| `DirectReview` | `run_screening_direct`, one commit |
| `OpenRun`, `PersistExtraEvidence` | `_open_run`, `_persist_extra_evidence` |
| `AssembleGraph`, `AssemblyFailed` | `get_production_graph`, outside the try block |
| `StreamNode`, `StreamTools`, `StreamDecide`, `StreamFailed` | `_stream_and_trace`, one commit per node (with `PublishEvidence`: the reducer of the graph, and the consumer's own merge), and an exception of the graph |
| `PersistSuccess`, `PersistFailure` | the two endings, one commit each |
| `DuplicateRejected`, `SessionFailed`, `Crash` | second insert of a case, a failed statement or commit, the end of the process or task |

`NetChange` is the behaviour of the ORM that makes this component hard: an attribute
set to the value it was loaded with is not written, so two sessions that hold the
same row overwrite each other's changes column by column.  `RowAfterOpen` relies
on `expire_on_commit=False`: a session never re-reads the row it opened.

**`LLMShell`** (`guardrails/llm_shell.py`, `litellm_backend.py`) is one structured
call: `call_structured_llm` around `LiteLLMBackend.complete`.  A message is its kind
(turn, correction, or an answer that validates, does not, or is empty), its node and
the evidence it shows.

| Action | Code |
|---|---|
| `AttemptRaised` | time-out, gateway error or refused history: retry without a correction |
| `AttemptValidated` | the answer validates |
| `AttemptRejected` | the first answer does not: retry with a correction |
| `AttemptGivenUp` | the second answer does not either, or the first was cut off |

**`Conversation`** (`llm_prompts.py`, the four model nodes) drives the shell through one
run.  `BeginCall` renders the state of a node, the `...Returns` actions are what the node
does with the outcome, `CallSkipped` is a node that may not call, `Tools` adds evidence.
What the model decides is a choice here (tools or none, converged or not), and module
`Investigation` is where it matters.  The two modules overlap in the route of a run and
differ in the question: `Investigation` takes a call as one step with its attempts
counted, `Conversation` opens it.

**`RagIndex`** (`rag/index.py`, `lazy_index.py`, `chroma_store.py`, `bm25.py`).  Each process
has a corpus (its release) and a stage; the collection maps a row key to the row stored
under it.  A process awaits nothing while it seeds or searches, so its steps are its
calls to the Chroma server, and other processes come in between.

| Action | Code |
|---|---|
| `ListIds` | first search: `_LazyIndex._resolve`, embedding, `_open_collection`, the ids read by `_seed` |
| `DeleteStale`, `DeleteOwn`, `AddNodes` | the three writing calls of `_seed` |
| `BuildFailed` | any of them raises; nothing is cached, what was done stays |
| `Search` | `search` of both index classes: candidates, filters, fusion, truncation |
| `Restart` | end of the process and start with the same or another release |

`Matches` is used twice, as the code does: over the rows in memory for the BM25 side,
and over the stored metadata for the side of the server.  `Best` is any choice of n of a
set, since scores are data; `Added` is what Chroma does with an id it already has.

**`Labelling`** (`evaluation/generator/builder.py`, `evaluation/labeling/labeler.py`) are
operators: `Manifests` is every case the generator can build, a pattern at a time, and
`LabelOf` the decision, tools, policies and evidence the labeller expects of one.  The
thresholds are the labeller's own and are not shared with module `Grading`, as in the code.

**`Grading`** (`run_evaluation.py`, `evaluation/grading`, `metrics`, `metamorphic.py`) are the
operators between a case and its figures: `RuleRecord`, `SingleRecords` and `AgentRecords` are
what the arms may record, the last being `DecisionOverlay` over every survey, spending,
degradation and proposal; `GradeCase`, `ProcessFailures`, `Selective`, `ToolDiagnostics`,
`MetamorphicFailures` and `PassK` are the evaluators.

**`EvaluationRun`** (`run_evaluation.py`, `cross_check_labels.py`) is the schedule.

The cases of an arm are waiting for a slot, running, or settled; `Position` is the place of a
case in the file, by which they are admitted and limited.

| Action | Code |
|---|---|
| `Admit`, `Finish`, `Fail` | `_run_arm._one`: a slot of the semaphore, a record, an exception that stays the case's own |
| `Check`, `Summarize` | `_check_one` and `summarize` of the audit, whose basket is excluded |
| `Start` | `_select_cases`, `_load_exclude_ids` and the check of `--pass-k` |
| `Gathered` | the end of `_run_arm` and the choice of the next arm and its cases |
| `Report` | the figures, and `write_json_file` before they are printed |

`AgentRecords` stands for a run of module `Investigation`: it takes what an
investigation may have found as a choice over sets of completed lookups, and the decision
from the same `DecisionOverlay`.

## 4. What the runs show

| Run | Instance | Question |
|---|---|---|
| `verdicts` | 5 kinds of case, with all tools and without the product lookup, one call per tool, 5 model and 4 tool calls | is every verdict one the facts permit? |
| `trail` | one case, variants, other objects and malformed calls, 8 model and 3 tool calls, with fairness | do budget, audit trail and evidence agree, and does every run end? |
| `tables` | 2 requests over 2 cases and 4 contents, a round of up to 2 calls with up to 2 findings | do result, trace and evidence agree with their run? |
| `settling` | 3 requests for one case, with fairness | who wins, and does a case leave INVESTIGATING? |
| `conversation` | 7 model calls, up to 2 pieces of evidence per visit of the tools | is the model told everything, once, in a history the gateway accepts? |
| `index` | 3 processes, 2 releases of 3 keys, 3 restarts, 5 queries, both kinds of index | does a search survive the seeding of others, and does the collection settle? |
| `labels` | one case: each of the `Manifests`, each set of lookups about the own and other objects, every proposal | do decisions, labels and assertions agree? |
| `evaluation` | 2 cases, 7 command lines, audit, 3 arms, perturbed and repeated runs, every case may fail in each, with fairness | does it end, and what is in its figures? |
| `other_object`, `opening`, `snapshot`, `record` | the smallest instance that shows it | findings, below |

**Decisions.**  A released case has a successful, audited lookup of product and
merchant, no positive measurement, no text hit, no failed step and budget left
(`PassJustified`).  A rejection has the blacklist, or an evasion term with a citation
a search contributed, and cites the policies of the rule that authorised it
(`RejectJustified`).  Degradation is reported exactly when a step failed
(`DegradationReported`).  Over the facts of a decision, the overlay concludes nothing the
probe rules out, hands over where the probe finds no verdict authorised, and adopts the probe's
verdict when that is proposed (`ProbeAgrees`); a
call recorded as decisive added evidence or spent the last unit of budget
(`MarginalGain`).  `ImplementsAdjudication` is the refinement to the abstract promise.

**Bookkeeping.**  Tool calls stay within their budget, model calls within one retry of
theirs (`BudgetBound`); each charge is explained by an audit record
(`ChargesAudited`), numbered without gaps across the two nodes that number them, and each tool warning
points at an error record of its own (`AuditTrail`); no success is repeated (`NoRepeatedSuccess`), while a failed call is
executed as often as it is proposed, at the cost `BudgetBound` allows; each piece of evidence comes from the rules
or one audited call that succeeded and that it answers (`EvidenceProvenance`) and is never withdrawn; after a failure
nothing is called or learnt (`StopsInvestigating`).  `RoundBound` and `RoundCost` bound
the loop and each visit of it, and every run decides its case or raises (`Termination`).

**Tables.**  The effective result of a case is that of the last run concluded for it
(`EffectiveResult`), a case none of whose runs was concluded is not decided, and the
result agrees with its run: decided with this verdict, or failed and
sent to human review (`ResultExplained`).  Traces are paths of the graph
(`TraceIsPath`); once a run counts as finished, decided or failed, its evidence rows are
exactly what the graph had published, with the rules' hits and the citations of a rejection
(`EvidenceComplete`): the rows of a decided run come from the final state of the graph, those
of a failed one from what the consumer of the stream has merged, so the two merges must agree.  A case is INVESTIGATING only because of a run that the tables
show as unfinished (`InvestigatingExplained`), and leaves that status unless a request
was cut off (`Settles`).  What is *not* so: nothing ever closes a run that was cut
off; an operator has to.

**Conversation.**  The history is a dialogue (`Dialogue`) and records what was asked
(`AskedAsRecorded`): up to the turn of the last call it is the last request, and after it
both hold the same correction or none, although the back-end renders each attempt from the
state before the call and the shell collects what is kept of it.  Evidence before the cursor has been told in
exactly one re-evaluation turn, evidence behind it in none (`ToldOnce`; the decide turn
repeats what may be cited); once tools have been asked, nobody
plans or decides without having been told everything (`AskedWhenInformed`); every attempt
is charged (`AttemptsCharged`).

**Retrieval.**  While no other release's rows are mixed in, a search finds its candidates, all
of them if `top_k` allows and each once, at every moment of every seeding: the BM25 ranking of the
process's own rows covers for what the collection lacks (`SeedingHidden`).  The
mutant that ranks by the collection alone breaks it.  Once all processes
have an index over one corpus, the collection is that corpus (`SettledCollection`); with
two releases at a time neither is promised, and the last one to seed decides what the server
filters by.

**Evaluation.**  The labels and the program are two codings of one rule book, and agree on
every case the generator can build (`DecidesAsLabelled`): an automatic decision after a
survey of the own objects or by the hard rule is the label, and the gates never turn the label
down unless other objects were looked up.  The
rule arm wrongly passes only what no snapshot shows, and rejects nothing wrongly (`BlindSpot`).  The process assertions charge the
agent for nothing but an overrun budget, and of its automatic decisions only those of the hard rule
(`AssertionsQuiet`): there a correct rejection counts as wrong.  A report counts the
selected, undisputed cases that have a record, of which the rule and the single arm lose none
(`DenominatorsHold`), an agent that decides as
labelled raises no metamorphic and no consistency alarm (`NoFalseAlarm`), and every
evaluation ends (`Completes`).

### Bounds

- Cases, calls and contents hold one member per path the code distinguishes.  Splitting
  verdicts (one call per tool, all tools) from bookkeeping (one case, awkward
  calls) keeps both exhaustive.
- `verdicts`: four tool calls are one per tool, so every combination of answers
  occurs; five model calls allow two plans with a re-evaluation, and every node to be the
  one that meets the limit.  `trail`: eight model calls allow three rounds, so a call
  can succeed, be proposed again, and be skipped or repeated twice; three tool calls are
  fewer than two plans propose, so the budget runs out inside a visit.  Production has
  10 and 15 calls, and theorem `ProductionToolBudget` is about those.
- `tables`: two requests interleave at every commit, on the same case or not; findings are two
  and independent, and the rules' measurement comes before them, so an update can repeat nothing,
  add to what was observed, or bring nothing.
  `settling`: three requests are what it takes for a stale session to meet both an older
  and a newer conclusion; there the investigations have no rounds of tools, because
  neither the case nor the result row depends on the steps in between.
- `conversation`: seven calls are hypothesize, two full rounds and a third plan, or fewer
  with retries, so the budget ends at every node, after a first and after a second attempt;
  two pieces of evidence distinguish "all that is new" from "the first" or "the last".
- `index`: two processes that seed and one that searches; three keys are a row of both
  releases whose status changes, one that is dropped and one that is new, so a search meets
  every kind of stale and missing row; three restarts let each process change its release, or
  one of them go forth and back.  Processes are symmetric.
- `labels`: figures are not asked, so one case suffices, and everything about it is
  exhaustive.  The ends of a range stand for it, because only thresholds are applied.
- `evaluation`: two cases are the fewest of which one can fail, be excluded or be cut off while
  the other goes on; the datasets pair labels of all three decisions, the command lines are
  chosen so that each switch occurs, with slots for none, one and both of the cases.
- A node that streams no row (a visit that returns before its first call) is left out
  of `Persistence`: `ProductionToolBudget` shows it cannot occur with the limits in use.

### Fairness

`FairSpec` of `Investigation` is weak fairness of the next step of a run: it is one
coroutine, every call it awaits returns or raises (the gateway call has a
timeout, the graph a recursion limit the bound on rounds stays below).  `FairSpec` of
`Persistence` is weak fairness of each request's own progress, since requests are
coroutines of their own and commit or fail; failures of sessions and crashes are possible
at every step and never forced.  `FairSpec` of `EvaluationRun` is weak fairness of the steps of
the event loop and, case by case, of giving back the slot: every call an arm awaits has a
timeout or is bounded by the graph.  That a case succeeds is not assumed.

### Findings

1. `other_object`: a case can pass although the listing or the merchant that was measured is
   another one; coverage asks for the dimension only.
2. `opening`: a run may be opened on a case that stays DECIDED, because the status write
   is skipped as no change.
3. `snapshot`: a case submitted again keeps its first snapshot, while its result is replaced.
4. `record`: the evidence of the rules is shown only by a re-evaluation.  When the first
   plan names no tool, decide is asked of a model that never saw it, by a prompt that refers
   to the history for it.

`PROJECT.json` quotes the line each of them is compared with.

## 5. What is proved

Every invariant and action property of a passing run is the statement of a theorem: it
holds for every value of the constants that satisfies the named assumptions, of which TLC
evaluates every instance.  They are `CasesAssumption`, `ToolsAssumption`, `CallsAssumption`
and `LimitsAssumption` for the investigation, `TriageAssumption`, `FindingsAssumption` and
`BoundsAssumption` for persistence, `ConversationAssumption`, `ProcessesAssumption`, `KeysAssumption`,
`AbsentAssumption`, `CorporaAssumption`, `QueriesAssumption` and `MaxRestartsAssumption` for
the index, `CaseOrderAssumption`, `DatasetsAssumption`, `ArgumentsAssumption`,
`SurveysAssumption` and `ModelAnswersAssumption` for the evaluation.  They type the
constants (the call budgets are positive), and ask that there is a case in the dataset, a
row in each corpus and a process, that ids are distinct and keys finite in number.

**Investigation** (`InvestigationProofs`).

- `TypeCorrect`: `TypeOK` is inductive by itself.
- `ControlInv` says what holds at each node: the locals of the tools node are
  empty elsewhere, tools run only within both budgets, and before the decision the
  degraded flag is exactly the memory of a failed step.  The last part is what the
  safety of the flag rests on: four nodes write it and five places read it, and `StopsCorrect`
  and `DegradationCorrect` follow from it.
- `BudgetInv` strengthens `BudgetBound` and `RoundBound` by the model calls a run must
  have paid for when it reaches each node; without `2 * rounds + 2 <= llm_calls` at the
  tools node the bound on rounds is not inductive.  `RoundsCorrect` states the bound by itself.
- `RoundInv` adds the calls still waiting in a visit to `RoundCost`.  With
  `BudgetInv` it gives `ProductionToolBudget`: with the limits 10, 15 and 3 the tool
  budget never runs out, and the branch of `reevaluate` that returns without a call is
  never taken.
- `EvidenceInv` (keys are unique, also counting the visit under way) gives `EvidenceGrowth`.

**Bookkeeping** (`InvestigationAudit`).  A visit of the tools node works on copies that are
published when it returns and dropped when a tool raises.  So each property is kept in two
forms, of what is published and of the trail of the visit under way; the second alone
does not survive `CallRaised`, the first alone is not kept by `ToolsReturn`.

- `NumberInv` (`AuditTrailCorrect`): numbers are positions in the trail, a warning points
  to an error record, published warnings to a published one, and later warnings to later records;
  `AppendedInOrder` adds a warning at the end, `AllInOrder` joins published and waiting ones.
- `ChargeInv` (`ChargesCorrect`): the charges are the successes and the warnings, counted in
  both forms.  The lemmas on cardinalities of the successes and warnings of a longer
  trail are what each step needs.
- `RepeatInv` (`NoRepetition`): what still waits in a round is free of repetitions and none of
  it has succeeded before; `dedup_pending` establishes it from the history it is given.
- `ProvenanceInv` (`ProvenanceCorrect`): the history accounts for the evidence, the trail for
  the working evidence, record by record: what was added answers the record's call
  (`Answers`), which succeeded; and a measurement has the source of its dimension.
- `MarginalGain` is inductive with `EvidenceInv` (`MarginalGainCorrect`): the probe after a call
  that added nothing and left budget is the probe before it (`ProbeOf`, `ProbeBefore`).

**Decisions** (`InvestigationDecisions`).  `DecisionInv`: a decided run holds what the overlay
computes from the facts it ended with, for some proposal.  It needs `ControlInv`, because
the decide node clears the flag the overlay read.  `OverlayPasses` and `OverlayRejects`
then read the chain of returns backwards, for `PassCorrect` and `RejectCorrect`, and
`ProvenanceInv` says which audited call a measurement or citation came from; `OverlayAgreesWithProbe` compares
the two codings of the rules on any facts, for `ProbeCorrect`.

**Refinement** (`InvestigationRefinement`): evidence, the recorded failures, the node and
the decision are mapped to the facts, the failure, the phase and the verdict of
`Adjudication`; `OverlayPermitted` shows that the ordered chain of returns yields
only verdicts the declarative rules permit, and each action of the graph is a step or a
stutter.

**Persistence** (`PersistenceProofs`): `TypeCorrect`, and `InvestigatingCorrect`: no
interleaving of commits, failures and crashes strands a case.  `SessionInv`
is what makes it inductive: a session that investigates holds its case as INVESTIGATING
in memory, so DECIDED is always a change the ORM writes, and the run it will conclude
is unfinished.  The mutant `RowAsRead`, in which the session keeps the status it
read, breaks both.

- `RunInv` says what the rows of a run may be in each phase of its request: none before it is
  opened, the rule hits until it is concluded; what the session has observed meanwhile
  equals the evidence channel of its graph and is explained by the trace it has written, and
  the decision holds that channel and the citations of a rejection.  `EvidenceComplete` says
  this only of concluded runs and is not inductive without the runs still streaming;
  with `RunInv`, `TraceCorrect` and `EvidenceRowsCorrect` are proved one action at a time.
- `ResultInv` adds to the result's agreement with its run that the request of the run has
  ended, so that nobody changes the run afterwards; `ResultCorrect` and `EffectiveCorrect`
  follow, for any number of requests that conclude in any order.

**Conversation** (`ConversationProofs`): `TypeCorrect`, where the type of a message
depends on how much evidence there is, so that each step needs the growth of the evidence
(`MessagesGrow`) and the emptiness of it before hypothesize returns (`StartInv`);
`AttemptsCorrect`, where `AccountInv` says by how much the attempts are ahead of the charges
at each stage of a call.

- `ShapeInv` lists what a call may have collected by its stage, and that the last request
  of an answered call is the one that was answered.
- `HistoryInv`: the history is a dialogue, the call under way has the turn of its node, and
  while no call has failed the last answer was valid.  From the two, `DialogueCorrect`;
  `RecordCorrect` compares request and history by the lengths the shape fixes.
- `ToldInv` names the turn that told a piece of evidence, `InformedInv` puts the cursor at the
  end of the evidence whenever plan or decide may call after a tool contributed:
  `ToldCorrect`, `InformedCorrect`.

**Retrieval** (`RagIndexProofs`): `TypeCorrect`; `SearchFindsCandidates`, whose core is that on an
unmixed collection the stored candidates are among the own ones (`UnmixedSearch`), so that
the fusion is the BM25 ranking whatever is missing; and `CollectionSettles`.  The last
needs `Converging`: once every process has left the start with one corpus, no row of
another one can return, a row that is stored is the corpus's, and a row that is missing
is owed by a process that has yet to add it.  Releases, processes and restarts are
unbounded there.

**Evaluation** (`EvaluationProofs`), for datasets of any size built from `Manifests`, and every
command line.

- Per case: `ManifestsConstructed` is what every recipe of the generator has in common,
  `LabelDecision` the label in one condition per decision, `FindingsFound` what a survey can
  establish, `OverlayWays` the grounds of each verdict of the overlay.  They give
  `AgentAgainstLabel` (an automatic decision on own lookups is the label) and
  `AgentAssertions` (what a process assertion can charge an agent with).
- `WorkInv` lifts them to the run: a case waits, runs or has settled and the slots are
  bound (`SlotsKnown`); the cases of the arm under way are due, the rule and the single
  arm lose none, and every outcome is one this arm can record (`ArmKnown`); the same of
  the completed arms (`ResultsKnown`); and a report holds the figures of these results.
- `LabelsCorrect`, `BlindSpotCorrect` and `AssertionsCorrect` need it for the origin of the
  outcomes, `DenominatorsCorrect` for the completeness of the first two arms, and
  `NoFalseAlarmCorrect` compares outcomes of several arms about one case.

With TLC alone stays liveness: `Termination`, `Settles` and `Completes`, since temporal
reasoning under fairness and ENABLED are out of the prover's reach.  So is induction over
data, which is why what a proof must see through (`SelectCases`, `DecisionsOf`, `AskedAfter`,
`Conclusions`) is written over sets and positions and not as a recursive filter; no RECURSIVE
operator is used.  The properties of the runs that expect a violation are the findings above.

## 6. What is not modelled

- **Repeated submissions**: design 9.2 has the persistence layer review a product version
  once; no code does, so there is nothing to model (listed as a hazard).
- **Data no property tells apart**: hypotheses, priors, weights, risk level and type,
  confidence, token counts, latencies, the text of prompts and coverage lines, JSON
  truncation, timestamps.
- **Text matching**: whether a term occurs in a listing is an input; folding, word
  boundaries and the lists are not modelled.
- **Tools' sources**: the read-only MySQL and retrieval queries are the answers they may give.
- **Scores**: embeddings, BM25 and fusion scores, and so the order of hits; `build_rag_corpus`,
  which reformats sources into the corpus files.
- **Evaluation**: the text of the reports, cost and latency figures, risk types and
  evidence gain, credentials; the counts per pattern and the files of the dataset; an
  audit over a part of the dataset.
- **Back-end details**: JSON extraction, token and cache statistics, the `single_call`
  baseline, which has no history.
- **API validation, tracing callbacks**: stateless conversions.
- **In the database**: isolation is reduced to what one statement reads and one commit
  writes; lock waits end as a commit or as `SessionFailed`.
