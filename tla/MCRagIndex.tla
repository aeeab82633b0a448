------------------------------ MODULE MCRagIndex ------------------------------
(* Two releases of a small corpus: the second one expires a clause, adds its *)
(* successor and drops a row of one category.                      *)
EXTENDS RagIndexProperties, TLC

CONSTANTS a, b, c

MCRow(status, category, risks) == [status |-> status, category |-> category, risks |-> risks]

OldRelease ==
  (a :> MCRow("EFFECTIVE", "full", {"ip"}) @@ b :> MCRow("EFFECTIVE", "shoes", {"ip"})
   @@ c :> Absent)

NewRelease ==
  (a :> MCRow("EXPIRED", "full", {"ip"}) @@ b :> Absent
   @@ c :> MCRow("EFFECTIVE", "full", {"evasion"}))

MCCorpora == {OldRelease, NewRelease}

MCQuery(category, risks, effectiveOnly, topK) ==
  [category |-> category, risks |-> risks, effectiveOnly |-> effectiveOnly, topK |-> topK]

MCQueries ==
  { MCQuery("any", {}, TRUE, 5), MCQuery("any", {}, FALSE, 1),
    MCQuery("shoes", {}, TRUE, 5), MCQuery("any", {"ip"}, TRUE, 1),
    MCQuery("shoes", {"evasion"}, FALSE, 5) }

Symmetry == Permutations(Processes)

==============================================================================
