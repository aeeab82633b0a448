------------------------------ MODULE Screening ------------------------------
(***************************************************************************)
(* The screening rule layer: which rules a product case hits, and the      *)
(* three-way triage verdict.  A case is reduced to what the rules read.    *)
(***************************************************************************)

(* A case snapshot: brand and category state, and whether the title or the *)
(* description contains a brand term or an evasion term.                   *)
Case ==
  [ brand         : {"blacklisted", "listed", "blank"},
    categoryBlank : BOOLEAN,
    brandTerm     : BOOLEAN,
    evasionTerm   : BOOLEAN ]

RuleIds == {"R-101", "R-102", "R-301", "R-302"}

(* Rule.match of the four declared rules. *)
RuleMatches(rule, c) ==
  \/ rule = "R-101" /\ c.brand = "blacklisted"
  \/ rule = "R-102" /\ c.brandTerm
  \/ rule = "R-301" /\ (c.brand = "blank" \/ c.categoryBlank)
  \/ rule = "R-302" /\ c.evasionTerm

RuleHits(c) == {rule \in RuleIds : RuleMatches(rule, c)}

RejectRules == {"R-101"}

(* triage: a reject rule wins over complex rules, no hit means PASS. *)
Triage(c) ==
  IF RuleHits(c) \cap RejectRules # {} THEN "REJECT"
  ELSE IF RuleHits(c) # {} THEN "COMPLEX"
  ELSE "PASS"

(* hard_rule_hit: the agent's own re-check of the brand blacklist. *)
HardRuleHit(c) == c.brand = "blacklisted"

==============================================================================
