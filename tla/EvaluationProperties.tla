------------------------- MODULE EvaluationProperties -------------------------
(***************************************************************************)
(* What an evaluation must get right for its figures to mean something.    *)
(***************************************************************************)
EXTENDS EvaluationRun

Selected == SelectCases(args)

(* Shapes; perturbed runs concern cases with an agent record only, and a     *)
(* case waits, runs or has settled, never two of them.                       *)
TypeOK ==
  /\ dataset \in Datasets /\ args \in Arguments
  /\ basket \subseteq Ids /\ running \subseteq Ids
  /\ status \in {"audit", "start", "arms", "report", "reported", "raised"}
  /\ Cardinality(running) <= Slots(args)
  /\ waiting \subseteq Ids \ (running \cup DOMAIN outcome)
  /\ running \cap DOMAIN outcome = {}
  /\ Len(results) <= Len(Plan(args))
  /\ \A i \in DOMAIN results :
       /\ DOMAIN results[i] \subseteq Selected
       /\ Plan(args)[i] \in PerturbedArms => DOMAIN results[i] \subseteq DOMAIN results[3]

------------------------------------------------------------------------------
(* Single records against their labels *)

(* Each dimension a tool measures was measured about the case's own object. *)
SurveyedOwn(record) ==
  \A d \in {"listing_registry", "merchant_profile"} :
    \E e \in record.evidence : e.dim = d /\ e.ref = "own"

SurveyedOther(record) == \E e \in record.evidence : e.ref = "other"

(* The labeller derives its labels from the manifest and the rule book, the   *)
(* agent decides on the snapshot and on what its tools measure; they agree on *)
(* every case the generator can build (label_case, run_decision_overlay).  An *)
(* automatic decision after a survey of the case's own objects, or by the     *)
(* hard rule, is the label; and a gate that turned the proposal down after a  *)
(* survey of nothing else has not turned down the label.                      *)
DecidesAsLabelled ==
  Completed("agent") =>
    \A c \in DOMAIN ResultOf("agent") :
      LET record == ResultOf("agent")[c]
          label == LabelOf(dataset[c]).decision
      IN  /\ record.decision \in AutoDecisions
               /\ (SurveyedOwn(record) \/ "R1_HARD_RULE" \in record.overrides)
             => record.decision = label
          /\ ~SurveyedOther(record) =>
               /\ "R4_PASS_GATE_FAIL" \in record.overrides => label # "PASS"
               /\ "R2_REJECT_GATE_FAIL" \in record.overrides => label # "REJECT"

(* The rule arm never rejects wrongly, and what it lets pass against the      *)
(* label is only what no snapshot shows: a case for a human whose merchant    *)
(* history or registry row is not clean.                                      *)
BlindSpot ==
  Completed("rule") =>
    \A c \in DOMAIN ResultOf("rule") :
      LET decision == ResultOf("rule")[c].decision
          label == LabelOf(dataset[c]).decision
      IN  /\ decision = "REJECT" => label = "REJECT"
          /\ decision = "PASS" /\ label # "PASS" =>
               /\ label = "HUMAN_REVIEW"
               /\ MerchantDirty(dataset[c]) \/ dataset[c].mismatch

(* The process assertions restate, over the record, what the graph promises: *)
(* of the agent only an overrun budget can break one, and no automatic       *)
(* decision is charged for it except the hard rule's.                        *)
AssertionsQuiet ==
  Completed("agent") =>
    \A c \in DOMAIN ResultOf("agent") :
      LET record == ResultOf("agent")[c]
          failures == ProcessFailures("agent", record, dataset[c])
      IN  /\ failures \subseteq {"BUDGET_EXCEEDED"}
          /\ failures # {} /\ record.decision \in AutoDecisions
               => record.overrides = {"R1_HARD_RULE"}

------------------------------------------------------------------------------
(* The report *)

(* Every case of the denominators was selected, was not disputed by the       *)
(* cross-check and has a record; a failed case is in no figure of its arm,    *)
(* and each numerator stays within its denominator, in every arm.  The rule   *)
(* and the single arm lose no case: all that was selected and not disputed is *)
(* in their totals, against which the agent's shows how many it has lost.     *)
DenominatorsHold ==
  status = "reported" =>
    /\ \A arm \in Arms :
         LET h == report.headline[arm]
         IN  /\ h.total = Cardinality((Selected \ basket) \cap DOMAIN ResultOf(arm))
             /\ h.falseRejects <= h.autoWrong /\ h.autoWrong <= h.autoDecided
             /\ h.autoDecided <= h.total
             /\ h.falseRejects <= h.truthPass /\ h.truthPass <= h.total
    /\ \A arm \in {"rule", "single"} :
         report.headline[arm].total = Cardinality(Selected \ basket)
    /\ report.tools.covered <= report.tools.expected
    /\ report.tools.redundant <= report.tools.expected
    /\ report.compared <= Cardinality(DOMAIN ResultOf("agent"))

(* An agent that decides every run as that run's own case is labelled, the    *)
(* perturbed cases by the labels of the perturbed cases, is reported without  *)
(* a metamorphic violation and as consistent in every compared case.          *)
NoFalseAlarm ==
  status = "reported" =>
    /\ \A v \in report.violations :
         \/ ResultOf("agent")[v[1]].decision # LabelOf(dataset[v[1]]).decision
         \/ ResultOf(v[2])[v[1]] # LabelOf(Perturbed(dataset[v[1]], v[2])).decision
    /\ report.passK.compared - report.passK.consistent
         <= Cardinality({c \in Selected : \E i \in DOMAIN DecisionsOf(c) :
                           DecisionsOf(c)[i] # LabelOf(dataset[c]).decision})

(* Every evaluation ends, whatever its cases came to and whatever concurrency *)
(* it was given: in a report or in an error.                                  *)
Completes == <>(status \in {"reported", "raised"})

==============================================================================
