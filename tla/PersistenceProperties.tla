------------------------- MODULE PersistenceProperties -------------------------
(***************************************************************************)
(* What the review tables promise their readers, whatever requests,        *)
(* failures and crashes interleave.                                        *)
(***************************************************************************)
EXTENDS Persistence

CaseRow ==
  [ status : CaseStatus \cup {"ABSENT"}, triage : TriageVerdicts \cup {"NONE"},
    snapshot : Contents \cup {"NONE"} ]

RunRow ==
  [status : RunStatus \cup {"ABSENT"}, trigger : {"NONE", "INITIAL", "SCREENING_DIRECT"}]

(* Type invariant of the tables and the sessions. *)
TypeOK ==
  /\ review_case \in [Cases -> CaseRow]
  /\ review_run \in [Requests -> RunRow]
  /\ review_trace \in [Requests -> Seq(StepTypes)]
  /\ review_evidence \in [Requests -> SUBSET EvidenceKinds]
  /\ review_result \in [Cases -> [ source : Requests \cup {"NONE"},
                                   decision : Decisions \cup {"NONE"} ]]
  /\ submitted \in [Requests -> [case : Cases, content : Contents]]
  /\ case_row \in [Requests -> CaseRow]
  /\ graph_evidence \in [Requests -> SUBSET EvidenceKinds]
  /\ latest_evidence \in [Requests -> SUBSET EvidenceKinds]
  /\ decision \in [Requests -> [ verdict : Decisions \cup {"NONE"},
                                 evidence : SUBSET EvidenceKinds ]]
  /\ pc \in [Requests -> Ended \cup {"idle", "opening", "directing", "opened", "assembling",
                                     "streaming", "failing"}]
  /\ graph_ready \in BOOLEAN
  /\ concluded \in Seq(Requests)

Traced(r, step) == \E i \in DOMAIN review_trace[r] : review_trace[r][i] = step

(* A run the tables show as neither decided nor failed. *)
Unfinished(r) == review_run[r].status = "RUNNING" /\ ~Traced(r, "infra_error")

(* The effective result of a case can be explained from the run it names:  *)
(* that run belongs to the case, and either it is decided with this very   *)
(* decision (by the rules, or traced up to DECIDE), or it failed, was      *)
(* traced as such, and the result asks for human review.                   *)
ResultExplained ==
  \A c \in Cases : review_result[c] # NoResult =>
    LET r == review_result[c].source
        verdict == review_result[c].decision
    IN /\ r \in Requests /\ CaseOf(r) = c
       /\ \/ /\ review_run[r] = [status |-> "DECIDED", trigger |-> "SCREENING_DIRECT"]
             /\ verdict = TriageOf[ContentOf(r)]
          \/ /\ review_run[r] = [status |-> "DECIDED", trigger |-> "INITIAL"]
             /\ Streamed(r)
             /\ verdict = decision[r].verdict
          \/ /\ review_run[r].status = "RUNNING"
             /\ Last(review_trace[r]) = "infra_error"
             /\ verdict = "HUMAN_REVIEW"

(* The positions of the runs of a case in the order of conclusion. *)
Conclusions(c) == {i \in DOMAIN concluded : CaseOf(concluded[i]) = c}

(* The last run of a case to be concluded provides its effective result,   *)
(* a case none of whose runs was concluded has no result and is not        *)
(* decided, and every answered request has concluded its run.              *)
EffectiveResult ==
  /\ \A c \in Cases :
       \/ /\ Conclusions(c) = {}
          /\ review_result[c] = NoResult /\ review_case[c].status # "DECIDED"
       \/ \E i \in Conclusions(c) :
            /\ \A j \in Conclusions(c) : j <= i
            /\ review_result[c].source = concluded[i]
  /\ \A r \in Requests : pc[r] = "ok" => \E i \in DOMAIN concluded : concluded[i] = r

(* A case stays under investigation only because of a run the tables show  *)
(* as unfinished: once every run of a case is decided or recorded as       *)
(* failed, the case is decided, in whatever order the commits landed and   *)
(* although a session may skip writing a status it believes unchanged.     *)
InvestigatingExplained ==
  \A c \in Cases : review_case[c].status = "INVESTIGATING" =>
    \E r \in Requests : CaseOf(r) = c /\ Unfinished(r)

(* A list of steps that is a path of the graph, with a failure only at its *)
(* end.                                                                    *)
IsPath(trace) ==
  \A i \in DOMAIN trace :
    \/ trace[i] \in NextSteps(SubSeq(trace, 1, i - 1))
    \/ trace[i] = "TOOL_CALL" /\ i > 1 /\ trace[i - 1] = "TOOL_CALL"
    \/ trace[i] = "infra_error" /\ i = Len(trace)

(* The trace of a run is a path of the graph, only an investigation has    *)
(* one, and a run traced as failed was not decided.                        *)
TraceIsPath ==
  \A r \in Requests :
    /\ IsPath(review_trace[r])
    /\ review_trace[r] # <<>> => review_run[r].trigger = "INITIAL"
    /\ Traced(r, "infra_error") => review_run[r].status = "RUNNING"

(* What the evidence rows of a concluded investigation have to be: the     *)
(* rules' hits, all its graph had published by then, and the citations a   *)
(* rejection added.                                                        *)
EvidenceDue(r) ==
  {"RULE_HIT"} \cup graph_evidence[r]
    \cup (IF review_run[r].status = "DECIDED" /\ decision[r].verdict = "REJECT"
          THEN {"CITATION"} ELSE {})

(* Evidence is complete when it matters: the rows of a concluded           *)
(* investigation, also of one that failed, are all the evidence its graph  *)
(* had published and nothing else, whether they were taken from the final  *)
(* state or from what the stream had shown; the trace shows a step that    *)
(* may have published each.  An unfinished run shows its rule hits only.   *)
EvidenceComplete ==
  \A r \in Requests :
    /\ Unfinished(r) => review_evidence[r] \subseteq {"RULE_HIT"}
    /\ review_run[r].trigger = "INITIAL" /\ ~Unfinished(r) =>
         /\ review_evidence[r] = EvidenceDue(r)
         /\ Traced(r, "HYPOTHESIZE") => RuleMeasurement(r) \subseteq review_evidence[r]
         /\ review_evidence[r] \cap Findings # {} => Traced(r, "TOOL_CALL")

(* A case under investigation is decided in the end, unless a request was  *)
(* cut off before it could conclude its run.                               *)
Settles ==
  \A c \in Cases :
    review_case[c].status = "INVESTIGATING" ~>
      \/ review_case[c].status = "DECIDED"
      \/ \E r \in Requests : CaseOf(r) = c /\ Unfinished(r) /\ pc[r] \in Ended

------------------------------------------------------------------------------
(* What the documentation says of the tables, checked against the code. *)

(* Opening a run sets an existing case to INVESTIGATING (persist_service,  *)
(* _open_run).                                                             *)
OpeningMarksCase ==
  [][ \A r \in Requests : pc[r] = "opening" /\ pc'[r] = "opened" =>
        review_case'[CaseOf(r)].status = "INVESTIGATING" ]_vars

(* The stored snapshot is the input the effective result was reached on    *)
(* (001_review_core_tables.sql: full snapshot of the input, for replay).   *)
SnapshotReplays ==
  \A c \in Cases :
    review_result[c] # NoResult => review_case[c].snapshot = ContentOf(review_result[c].source)

==============================================================================
