----------------------------- MODULE Adjudication -----------------------------
(***************************************************************************)
(* What an investigation promises, independently of how it is carried out: *)
(* facts about a case are collected and never revised, a failed step ends  *)
(* the collection, and the case is closed once, by a verdict the facts     *)
(* permit, or abandoned without a verdict.                                 *)
(*                                                                         *)
(* Permits states the decision rules one verdict at a time (the PASS gate, *)
(* the REJECT gate and the hard rule of the design), where the code        *)
(* computes a verdict through an ordered chain of returns.                 *)
(***************************************************************************)
EXTENDS Measurement

CONSTANT Cases

VARIABLES
  case,     \* the case under investigation
  facts,    \* evidence collected so far
  failed,   \* whether a model step has failed
  phase,    \* "open", "closed" or "abandoned"
  verdict,  \* "NONE" until the case is closed
  grounds   \* policies the verdict cites

vars == <<case, facts, failed, phase, verdict, grounds>>

FullyMeasured(evs) == RequiredDimensions(evs) \subseteq CoveredDimensions(evs)

(* A verdict of the model may stand only on a complete, unimpaired record. *)
Complete(evs, impaired) == FullyMeasured(evs) /\ ~impaired

Permits(c, evs, impaired, v, cited) ==
  \/ c.brand = "blacklisted" /\ v = "REJECT" /\ "POLICY_1.1" \in cited
  \/ c.brand # "blacklisted" /\ v = "HUMAN_REVIEW"
  \/ /\ c.brand # "blacklisted" /\ v = "PASS"
     /\ Complete(evs, impaired)
     /\ PositiveDimensions(evs) = {}
     /\ ~c.brandTerm /\ ~c.evasionTerm
  \/ /\ c.brand # "blacklisted" /\ v = "REJECT"
     /\ Complete(evs, impaired)
     /\ c.evasionTerm
     /\ HasCitableEvidence(evs)
     /\ "POLICY_1.2" \in cited

Init ==
  /\ case \in Cases
  /\ facts = {}
  /\ failed = FALSE
  /\ phase = "open"
  /\ verdict = "NONE"
  /\ grounds = {}

(* Facts may be added and a step may fail; what is known is not revised,   *)
(* and nothing is collected after a failure.                               *)
Investigate ==
  /\ phase = "open"
  /\ facts \subseteq facts'
  /\ \A e \in facts', x \in facts : EvidenceKey(e) = EvidenceKey(x) => e = x
  /\ failed' \in BOOLEAN
  /\ failed => failed' /\ facts' = facts
  /\ UNCHANGED <<case, phase, verdict, grounds>>

(* The last step, the model's proposal, may itself fail. *)
Close ==
  /\ phase = "open"
  /\ phase' = "closed"
  /\ failed' \in BOOLEAN
  /\ failed => failed'
  /\ Permits(case, facts, failed', verdict', grounds')
  /\ UNCHANGED <<case, facts>>

Abandon ==
  /\ phase = "open"
  /\ phase' = "abandoned"
  /\ UNCHANGED <<case, facts, failed, verdict, grounds>>

Next == Investigate \/ Close \/ Abandon

Spec == Init /\ [][Next]_vars

==============================================================================
