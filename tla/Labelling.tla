------------------------------ MODULE Labelling ------------------------------
(***************************************************************************)
(* The evaluation set, labelled by construction: the generator plants      *)
(* facts into a case and lists them in a manifest, and an independent      *)
(* labeller derives the expected decision from the manifest and a frozen   *)
(* rule book, without importing the code under test.  Texts are reduced to *)
(* the kinds of term they contain; a text that does not scan back to what  *)
(* was planted aborts the build.                                           *)
(***************************************************************************)
EXTENDS Gate, Naturals

Decisions == {"PASS", "REJECT", "HUMAN_REVIEW"}

------------------------------------------------------------------------------
(* Generator *)

(* randint(lo, hi): its ends stand for it, only a threshold is ever applied. *)
Ends(lo, hi) == {lo, hi}

(* _merchant: <<removals, title relistings>> of each kind of merchant, for *)
(* even and for odd ordinals.                                              *)
MerchantFacts ==
  [ clean        |-> Ends(0, 1) \X Ends(0, 1),
    two          |-> ({2} \X Ends(0, 1)) \cup (Ends(0, 1) \X {2}),
    three        |-> {<<3, 0>>, <<0, 3>>},
    strong_dirty |-> Ends(5, 9) \X Ends(3, 6),
    dirty        |-> (Ends(3, 8) \X Ends(0, 2)) \cup (Ends(0, 2) \X Ends(3, 6)) ]

(* What a construction pattern varies about an inconspicuous case. *)
Inconspicuous ==
  [ brand |-> "listed", planted |-> {}, gaps |-> {}, mismatch |-> FALSE,
    merchant |-> "clean" ]

(* The branches of _build_one, for every pattern of _PATTERN_PLAN. *)
Patterns ==
  [ clean                          |-> {Inconspicuous},
    blacklist_brand                |-> {[Inconspicuous EXCEPT !.brand = "blacklisted"]},
    evasion_word_clean_merchant    |-> {[Inconspicuous EXCEPT !.planted = {"evasion"}]},
    evasion_word_dirty_merchant    |-> {[Inconspicuous EXCEPT !.planted = {"evasion"},
                                                              !.merchant = "dirty"]},
    brand_word_only                |-> {[Inconspicuous EXCEPT !.planted = {"brand"}]},
    merchant_count_two             |-> {[Inconspicuous EXCEPT !.merchant = "two"]},
    merchant_count_three           |-> {[Inconspicuous EXCEPT !.merchant = "three"]},
    snapshot_gap                   |-> {[Inconspicuous EXCEPT !.gaps = {"category"}],
                                        [Inconspicuous EXCEPT !.gaps = {"brand"},
                                                              !.brand = "blank"]},
    registry_mismatch              |-> {[Inconspicuous EXCEPT !.mismatch = TRUE]},
    strong_evasion                 |-> {[Inconspicuous EXCEPT !.planted = {"evasion"},
                                                              !.merchant = "strong_dirty"]},
    brand_word_plus_dirty_merchant |-> {[Inconspicuous EXCEPT !.planted = {"brand"},
                                                              !.merchant = "dirty"]},
    blacklist_plus_evasion         |-> {[Inconspicuous EXCEPT !.brand = "blacklisted",
                                                              !.planted = {"evasion"}]},
    merchant_dirty_only            |-> {[Inconspicuous EXCEPT !.merchant = "dirty"]},
    hidden_evasion_in_description  |-> {[Inconspicuous EXCEPT !.planted = {"evasion"}]} ]

(* The snapshot the arms are given. *)
SnapshotOf(recipe) ==
  [ brand         |-> recipe.brand,
    categoryBlank |-> "category" \in recipe.gaps,
    brandTerm     |-> "brand" \in recipe.planted,
    evasionTerm   |-> "evasion" \in recipe.planted ]

(* Case and manifest; the registry has no brand where the snapshot has none *)
(* and where a mismatch is constructed.                                     *)
ManifestOf(recipe, facts) ==
  [ snapshot      |-> SnapshotOf(recipe),
    gaps          |-> recipe.gaps,
    mismatch      |-> recipe.mismatch,
    registryBrand |-> ~recipe.mismatch /\ recipe.brand # "blank",
    removals      |-> facts[1],
    relistings    |-> facts[2] ]

(* build_dataset: every case the plan can produce. *)
Manifests ==
  UNION { { ManifestOf(recipe, facts) : facts \in MerchantFacts[recipe.merchant] }
          : recipe \in UNION {Patterns[p] : p \in DOMAIN Patterns} }

------------------------------------------------------------------------------
(* Labeller *)

MerchantDirtyMin == 3

(* A mistaken MerchantDirty: the threshold has to be exceeded. *)
MerchantDirtyAbove(m) ==
  m.removals > MerchantDirtyMin \/ m.relistings > MerchantDirtyMin

MerchantDirty(m) ==
  m.removals >= MerchantDirtyMin \/ m.relistings >= MerchantDirtyMin

(* rulebook.json: tool_to_evidence *)
EvidenceOfTool ==
  [ ProductTool |-> "PRODUCT_FACT", MerchantTool |-> "MERCHANT_HISTORY",
    CaseSearchTool |-> "CASE_PRECEDENT", PolicySearchTool |-> "POLICY_REF" ]

(* _derive_expected_evidence and the assembly of the expected outcome. *)
Expected(m, decision, requiredTools, policies) ==
  [ decision |-> decision,
    tools    |-> requiredTools,
    policies |-> policies,
    evidence |->
      {EvidenceOfTool[t] : t \in requiredTools}
        \cup (IF m.snapshot.evasionTerm \/ m.snapshot.brandTerm
                 \/ m.snapshot.brand = "blacklisted" THEN {"RULE_HIT"} ELSE {})
        \cup (IF m.gaps # {} THEN {"MEASUREMENT"} ELSE {})
        \cup (IF decision = "REJECT" THEN {"POLICY_REF"} ELSE {}) ]

(* label_case: blacklist, evasion words, gaps and conflicts, brand words and *)
(* a merchant's history, nothing, in that order.                             *)
LabelOf(m) ==
  IF m.snapshot.brand = "blacklisted"
  THEN Expected(m, "REJECT", {}, {"POLICY_1.1"})
  ELSE IF m.snapshot.evasionTerm
  THEN IF MerchantDirty(m)
       THEN Expected(m, "REJECT", {"MerchantTool", "PolicySearchTool"},
                     {"POLICY_1.2", "POLICY_4.5"})
       ELSE Expected(m, "REJECT", {"PolicySearchTool"}, {"POLICY_1.2"})
  ELSE IF m.mismatch /\ m.gaps = {}
  THEN Expected(m, "HUMAN_REVIEW", {"ProductTool"}, {})
  ELSE IF m.gaps # {} \/ m.snapshot.brandTerm \/ MerchantDirty(m)
  THEN Expected(m, "HUMAN_REVIEW", {"MerchantTool", "ProductTool"}, {})
  ELSE Expected(m, "PASS", {"MerchantTool", "ProductTool"}, {})

==============================================================================
