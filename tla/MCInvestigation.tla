---------------------------- MODULE MCInvestigation ----------------------------
(* Small instances of the investigation for TLC. *)
EXTENDS InvestigationProperties

MCPrecedents == {"CASE_1"}
MCClauses == {"CLAUSE_1"}
MCPolicyOf == [cl \in MCClauses |-> "POLICY_1.2"]

Listing(brand, categoryBlank, brandTerm, evasionTerm) ==
  [ brand |-> brand, categoryBlank |-> categoryBlank,
    brandTerm |-> brandTerm, evasionTerm |-> evasionTerm ]

MCCases ==
  { Listing("listed", FALSE, FALSE, FALSE),
    Listing("listed", FALSE, FALSE, TRUE),
    Listing("listed", FALSE, TRUE, FALSE),
    Listing("blank", FALSE, FALSE, FALSE),
    Listing("blacklisted", FALSE, FALSE, TRUE) }

AllTools == {"ProductTool", "MerchantTool", "CaseSearchTool", "PolicySearchTool"}

MCToolWorlds == {AllTools, AllTools \ {"ProductTool"}}

ToolCall(tool, args) == [tool |-> tool, args |-> args]

(* One call per tool: enough for every verdict to be reached. *)
VerdictCalls ==
  { ToolCall("ProductTool", "own"), ToolCall("MerchantTool", "own"),
    ToolCall("CaseSearchTool", "own"), ToolCall("PolicySearchTool", "own") }

(* Variants of one lookup, another object's lookup, and a call that is     *)
(* rejected: what the audit trail and the de-duplication have to cope with.*)
TrailCases == {Listing("listed", FALSE, FALSE, FALSE)}

TrailWorlds == {AllTools}

TrailCalls ==
  { ToolCall("ProductTool", "own"), ToolCall("ProductTool", "other"),
    ToolCall("MerchantTool", "own"), ToolCall("MerchantTool", "own_variant"),
    ToolCall("PolicySearchTool", "malformed") }

==============================================================================
