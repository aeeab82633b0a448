---------------------------- MODULE EvaluationRun ----------------------------
(***************************************************************************)
(* An evaluation from the audit of the labels to the report.  A model of   *)
(* another provider cross-checks the labels and its disagreements become   *)
(* the list of excluded cases; then the rule, single and agent arms, the   *)
(* perturbed runs and the repeated runs follow one another, each of them   *)
(* over its cases concurrently, and the report is computed and written.    *)
(***************************************************************************)
EXTENDS Grading, Integers

CONSTANTS
  CaseOrder,  \* the ids of the dataset, in file order
  Foreign,    \* an id of another dataset
  Datasets,   \* the datasets an evaluation may be given
  Arguments   \* its command lines

Ids == {CaseOrder[i] : i \in DOMAIN CaseOrder}

ASSUME CaseOrderAssumption ==
  CaseOrder \in Seq(Ids) \ {<<>>} /\ Foreign \notin Ids
    /\ \A i, j \in DOMAIN CaseOrder : CaseOrder[i] = CaseOrder[j] => i = j
ASSUME DatasetsAssumption == Datasets \subseteq [Ids -> Manifests]
ASSUME ArgumentsAssumption ==
  Arguments \subseteq
    [ ids : SUBSET (Ids \cup {Foreign}), limit : Nat, exclude : {"nothing", "basket", "foreign"},
      concurrency : Int, metamorphic : BOOLEAN, passK : Int, writable : BOOLEAN ]

VARIABLES
  dataset,  \* the manifest of each case
  args,     \* the command line; both stay as they are during a run
  basket,   \* the cases the cross-check disagreed about
  status,   \* "audit", "start", "arms", "report", "reported" or "raised"
  waiting,  \* the cases of this arm that have not taken a slot
  running,  \* the cases holding a slot of the semaphore
  outcome,  \* what the cases of this arm came to; a failed one has no entry
  results,  \* the outcomes of the completed arms, in the order of Plan
  report

inputs == <<dataset, args>>
vars == <<inputs, basket, status, waiting, running, outcome, results, report>>

------------------------------------------------------------------------------
(* The command line *)

(* The arms of a run: ARMS, then the perturbed and the repeated agent runs. *)
Plan(a) ==
  <<"rule", "single", "agent">>
    \o (IF a.metamorphic THEN <<"neutral", "paraphrase", "amplified">> ELSE <<>>)
    \o [i \in 1..(a.passK - 1) |-> "rerun"]

(* The place of a case in the file. *)
Position(c) == CHOOSE i \in DOMAIN CaseOrder : CaseOrder[i] = c

(* _select_cases: filtered by id, then cut to the first ones. *)
SelectCases(a) ==
  LET named == {c \in Ids : a.ids = {} \/ c \in a.ids}
      Before(c) == {d \in named : Position(d) < Position(c)}
  IN  {c \in named : a.limit > 0 => Cardinality(Before(c)) < a.limit}

(* An id outside the dataset on either list, or a number of runs below one. *)
Unusable(a) == Foreign \in a.ids \/ a.exclude = "foreign" \/ a.passK < 1

(* A mistaken Slots: the number of slots as given. *)
SlotsAsGiven(a) == a.concurrency

(* asyncio.Semaphore(max(1, concurrency)) *)
Slots(a) == IF a.concurrency < 1 THEN 1 ELSE a.concurrency

------------------------------------------------------------------------------
(* Completed arms *)

Completed(arm) == \E i \in DOMAIN results : Plan(args)[i] = arm

ResultOf(arm) == results[CHOOSE i \in DOMAIN results : Plan(args)[i] = arm]

PerturbedArms == {"neutral", "paraphrase", "amplified"}

(* A mistaken CasesOf: cases without an agent record are perturbed as well. *)
SelectedCasesOf(a, arm, done) == SelectCases(a)

(* The cases the next arm runs: perturbed are those with an agent record. *)
CasesOf(a, arm, done) ==
  {c \in SelectCases(a) : arm \in PerturbedArms => c \in DOMAIN done[3]}

(* What one case may come to in an arm; of a perturbed or repeated run only *)
(* the decision is read.                                                    *)
OutcomesOf(arm, m) ==
  CASE arm = "rule"   -> {RuleRecord(m)}
    [] arm = "single" -> SingleRecords
    [] arm = "agent"  -> AgentRecords(m)
    [] OTHER          -> {r.decision : r \in AgentRecords(Perturbed(m, arm))}

------------------------------------------------------------------------------
Init ==
  /\ dataset \in Datasets
  /\ args \in Arguments
  /\ basket = {}
  /\ status = IF args.exclude = "basket" THEN "audit" ELSE "start"
  /\ waiting = IF args.exclude = "basket" THEN Ids ELSE {}
  /\ running = {}
  /\ outcome = <<>>
  /\ results = <<>>
  /\ report = <<>>

(* async with sem: slots are taken in the order of the cases. *)
Admit ==
  /\ Cardinality(running) < Slots(args)
  /\ \E c \in waiting :
       /\ \A d \in waiting : Position(c) <= Position(d)
       /\ running' = running \cup {c}
       /\ waiting' = waiting \ {c}
  /\ UNCHANGED <<inputs, basket, status, outcome, results, report>>

Settle(c, o) ==
  /\ running' = running \ {c}
  /\ outcome' = [x \in DOMAIN outcome \cup {c} |-> IF x = c THEN o ELSE outcome[x]]
  /\ UNCHANGED <<inputs, basket, status, waiting, results, report>>

(* _check_one: the verdict of the auditing model. *)
Check(c) ==
  /\ status = "audit" /\ c \in running
  /\ \E verdict \in Decisions : Settle(c, verdict)

(* _one: the case has run to its record. *)
Finish(c) ==
  /\ status = "arms" /\ c \in running
  /\ \E o \in OutcomesOf(Plan(args)[Len(results) + 1], dataset[c]) : Settle(c, o)

(* The exception of a case, or the failed call of a check, is its own: the   *)
(* slot is released and the other cases go on.  Neither the rules nor the    *)
(* single arm, which turns a failed call into a record, raises.              *)
Fail(c) ==
  /\ c \in running
  /\ status = "arms" => Plan(args)[Len(results) + 1] \notin {"rule", "single"}
  /\ running' = running \ {c}
  /\ UNCHANGED <<inputs, basket, status, waiting, outcome, results, report>>

AllSettled == waiting = {} /\ running = {}

(* summarize: only a verdict that differs puts a case into the basket. *)
Summarize ==
  /\ status = "audit" /\ AllSettled
  /\ basket' = {c \in DOMAIN outcome : outcome[c] # LabelOf(dataset[c]).decision}
  /\ outcome' = <<>>
  /\ status' = "start"
  /\ UNCHANGED <<inputs, waiting, running, results, report>>

(* The arguments are checked before the first arm. *)
Start ==
  /\ status = "start"
  /\ IF Unusable(args)
     THEN status' = "raised" /\ UNCHANGED waiting
     ELSE status' = "arms" /\ waiting' = SelectCases(args)
  /\ UNCHANGED <<inputs, basket, running, outcome, results, report>>

(* asyncio.gather has returned: the next arm starts, or the report is due. *)
Gathered ==
  /\ status = "arms" /\ AllSettled
  /\ results' = Append(results, outcome)
  /\ outcome' = <<>>
  /\ IF Len(results') < Len(Plan(args))
     THEN waiting' = CasesOf(args, Plan(args)[Len(results') + 1], results') /\ UNCHANGED status
     ELSE status' = "report" /\ UNCHANGED waiting
  /\ UNCHANGED <<inputs, basket, running, report>>

------------------------------------------------------------------------------
(* The report *)

Arms == {"rule", "single", "agent"}

Asserted(arm) ==
  {c \in DOMAIN ResultOf(arm) : ProcessFailures(arm, ResultOf(arm)[c], dataset[c]) # {}}

Headline(arm) == Selective(ResultOf(arm), dataset, Asserted(arm), basket)

(* A case is compared when it has a record of every perturbed run. *)
Compared ==
  IF args.metamorphic
  THEN {c \in DOMAIN ResultOf("agent") : \A arm \in PerturbedArms : c \in DOMAIN ResultOf(arm)}
  ELSE {}

Violations ==
  { v \in Compared \X PerturbedArms :
      v[2] \in MetamorphicFailures(ResultOf("agent")[v[1]].decision,
                                  [arm \in PerturbedArms |-> ResultOf(arm)[v[1]]]) }

(* The decisions a case has accumulated, by the run: a run it failed in adds *)
(* none.                                                                     *)
DecisionsOf(c) ==
  [ i \in {k \in DOMAIN results : Plan(args)[k] \in {"agent", "rerun"}
                                   /\ c \in DOMAIN results[k]} |->
      IF Plan(args)[i] = "agent" THEN results[i][c].decision ELSE results[i][c] ]

Figures ==
  [ headline   |-> [arm \in Arms |-> Headline(arm)],
    tools      |-> ToolDiagnostics(ResultOf("agent"), dataset),
    compared   |-> Cardinality(Compared),
    violations |-> Violations,
    passK      |-> PassK([c \in Ids |-> DecisionsOf(c)]) ]

(* write_json_file comes before the report is printed. *)
Report ==
  /\ status = "report"
  /\ IF args.writable
     THEN status' = "reported" /\ report' = Figures
     ELSE status' = "raised" /\ UNCHANGED report
  /\ UNCHANGED <<inputs, basket, waiting, running, outcome, results>>

Next ==
  \/ Admit
  \/ \E c \in Ids : Check(c) \/ Finish(c) \/ Fail(c)
  \/ Summarize
  \/ Start
  \/ Gathered
  \/ Report

Spec == Init /\ [][Next]_vars

(* A call of a model or a tool returns or times out, so a case gives its slot *)
(* back; the event loop runs whatever else can run.                           *)
Leave(c) == c \in running /\ running' = running \ {c}

FairSpec ==
  /\ Spec
  /\ WF_vars(Admit \/ Summarize \/ Start \/ Gathered \/ Report)
  /\ \A c \in Ids : WF_running(Leave(c))

==============================================================================
