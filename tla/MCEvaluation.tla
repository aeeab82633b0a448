----------------------------- MODULE MCEvaluation -----------------------------
(* Small instances of the evaluation: one case of every kind the generator    *)
(* can build, and a few runs over two cases with every switch of the command. *)
EXTENDS EvaluationProperties, TLC

CONSTANTS c1, c2

MCPrecedents == {"CASE_1"}
MCClauses == {"CLAUSE_1"}
MCPolicyOf == [cl \in MCClauses |-> "POLICY_2.1"]

Asked(tool, about) == [tool |-> tool, about |-> about]

OwnLookups == {Asked("ProductTool", "own"), Asked("MerchantTool", "own")}
Searches == {Asked("CaseSearchTool", "own"), Asked("PolicySearchTool", "own")}

CommandLine(ids, limit, exclude, concurrency, metamorphic, passK, writable) ==
  [ ids |-> ids, limit |-> limit, exclude |-> exclude, concurrency |-> concurrency,
    metamorphic |-> metamorphic, passK |-> passK, writable |-> writable ]

------------------------------------------------------------------------------
(* labels: one case *)

OneCase == <<c1>>

EveryCase == [{c1} -> Manifests]

EverySurvey ==
  SUBSET (OwnLookups \cup Searches
            \cup {Asked("ProductTool", "other"), Asked("MerchantTool", "other")})

OneAnswer == {"PASS"}

PlainArguments == {CommandLine({}, 0, "nothing", 1, FALSE, 1, TRUE)}

------------------------------------------------------------------------------
(* evaluation: two cases *)

TwoCases == <<c1, c2>>

(* A clean case, one of a merchant with a history, one of an evasion word. *)
Clean == ManifestOf(Inconspicuous, <<0, 0>>)
MerchantHistory == ManifestOf([Inconspicuous EXCEPT !.merchant = "dirty"], <<3, 0>>)
Evasive == ManifestOf([Inconspicuous EXCEPT !.planted = {"evasion"}], <<0, 0>>)
Hard == ManifestOf([Inconspicuous EXCEPT !.brand = "blacklisted"], <<0, 0>>)

FewDatasets == {(c1 :> Clean @@ c2 :> MerchantHistory), (c1 :> Evasive @@ c2 :> Hard)}

FewSurveys == {OwnLookups \cup {Asked("PolicySearchTool", "own")}}

FewAnswers == {"REJECT", "no answer"}

FewArguments ==
  { CommandLine({}, 0, "basket", 2, FALSE, 1, TRUE),
    CommandLine({}, 0, "nothing", 2, FALSE, 2, TRUE),
    CommandLine({c2}, 0, "nothing", 0, TRUE, 1, TRUE),
    CommandLine({}, 1, "basket", 0, TRUE, 3, TRUE),
    CommandLine({}, 1, "nothing", 1, FALSE, 2, FALSE),
    CommandLine({c1, Foreign}, 0, "nothing", 1, FALSE, 1, TRUE),
    CommandLine({}, 0, "foreign", 1, FALSE, 1, TRUE) }

==============================================================================
