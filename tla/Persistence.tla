------------------------------ MODULE Persistence ------------------------------
(***************************************************************************)
(* Concurrent review requests over the five review tables.  A request is   *)
(* triaged and either decided at once by the rules (run_screening_direct)  *)
(* or investigated (run_and_persist), node by node, with a commit each.    *)
(* A step is what happens between two awaits: one read, or one commit with *)
(* what it flushes.  Requests share nothing but the tables and the         *)
(* process-wide graph; a run has the identity of its request, because      *)
(* every request draws a fresh run id.                                     *)
(***************************************************************************)
EXTENDS Naturals, SequencesExt

CONSTANTS
  Requests,      \* requests, each also the id of the run it opens
  Cases,         \* case ids requests are submitted under
  Contents,      \* contents a case may be submitted with
  TriageOf,      \* verdict of the screening rules on a content
  TextHits,      \* contents whose text the rules measure as positive
  Findings,      \* what the tools of an investigation may find
  MaxRounds,     \* bound on the rounds of tools of one investigation
  MaxRoundCalls  \* bound on the calls of one round

TriageVerdicts == {"PASS", "REJECT", "COMPLEX"}

ASSUME TriageAssumption ==
  /\ TriageOf \in [Contents -> TriageVerdicts]
  /\ TextHits \subseteq Contents
ASSUME FindingsAssumption ==
  Findings \cap {"RULE_HIT", "MEASUREMENT", "CITATION"} = {}
ASSUME BoundsAssumption == MaxRounds \in Nat /\ MaxRoundCalls \in Nat

VARIABLES
  \* the tables
  review_case, review_run, review_trace, review_evidence, review_result,
  \* the requests
  submitted,        \* case and content of each request
  case_row,         \* the review_case row as the session of the request knows it
  graph_evidence,   \* the evidence channel of the graph state
  latest_evidence,  \* progress.latest_evidence
  decision,         \* decision of the final state of the graph
  pc,
  \* the process
  graph_ready,      \* whether the graph singleton is assembled
  concluded         \* runs in the order of their final commits (history variable)

tables == <<review_case, review_run, review_trace, review_evidence, review_result>>
session == <<case_row, graph_evidence, latest_evidence, decision>>
vars == <<tables, session, submitted, pc, graph_ready, concluded>>

CaseStatus == {"INVESTIGATING", "DECIDED"}
RunStatus == {"RUNNING", "DECIDED"}
Decisions == {"PASS", "REJECT", "HUMAN_REVIEW"}
StepTypes == {"HYPOTHESIZE", "PLAN", "TOOL_CALL", "REEVALUATE", "DECIDE", "infra_error"}

(* A piece of evidence is what contributed it, the triage, the measurement *)
(* of the rules in the graph or the gate, or what a tool has found.        *)
EvidenceKinds == {"RULE_HIT", "MEASUREMENT", "CITATION"} \cup Findings

NoCase == [status |-> "ABSENT", triage |-> "NONE", snapshot |-> "NONE"]
NoRun == [status |-> "ABSENT", trigger |-> "NONE"]
NoResult == [source |-> "NONE", decision |-> "NONE"]

CaseOf(r) == submitted[r].case
ContentOf(r) == submitted[r].content

Ended == {"ok", "error", "crashed"}

Init ==
  /\ review_case = [c \in Cases |-> NoCase]
  /\ review_run = [r \in Requests |-> NoRun]
  /\ review_trace = [r \in Requests |-> <<>>]
  /\ review_evidence = [r \in Requests |-> {}]
  /\ review_result = [c \in Cases |-> NoResult]
  /\ submitted \in [Requests -> [case : Cases, content : Contents]]
  /\ case_row = [r \in Requests |-> NoCase]
  /\ graph_evidence = [r \in Requests |-> {}]
  /\ latest_evidence = [r \in Requests |-> {}]
  /\ decision = [r \in Requests |-> [verdict |-> "NONE", evidence |-> {}]]
  /\ pc = [r \in Requests |-> "idle"]
  /\ graph_ready = FALSE
  /\ concluded = <<>>

------------------------------------------------------------------------------
(* Rows *)

(* The unit of work writes a column only if the value set differs from the *)
(* value read; otherwise what the table holds by now stays.                *)
NetChange(read, new, stored) == IF new = read THEN stored ELSE new

(* The row of r's case once its session has flushed a status and a triage  *)
(* result: inserted if the session read none, else updated.  The snapshot  *)
(* is written by the insert only.                                          *)
CaseWritten(r, status, triage) ==
  LET read == case_row[r]
      stored == review_case[CaseOf(r)]
  IN IF read.status = "ABSENT"
     THEN [status |-> status, triage |-> triage, snapshot |-> ContentOf(r)]
     ELSE [ status |-> NetChange(read.status, status, stored.status),
            triage |-> NetChange(read.triage, triage, stored.triage),
            snapshot |-> stored.snapshot ]

(* The session found no case, and another request has inserted it since. *)
DuplicateCase(r) ==
  case_row[r].status = "ABSENT" /\ review_case[CaseOf(r)].status # "ABSENT"

(* A mistaken RowAfterOpen: the session keeps the status it read. *)
RowAsRead(r) == case_row

(* expire_on_commit=False: the session keeps the row as it last set it. *)
RowAfterOpen(r) ==
  [case_row EXCEPT ![r].status = "INVESTIGATING", ![r].triage = "COMPLEX"]

(* A mistaken CaseConcluded: the case stays as it is. *)
CaseLeftOpen(r) == review_case

CaseConcluded(r) ==
  [review_case EXCEPT ![CaseOf(r)].status = NetChange(case_row[r].status, "DECIDED", @)]

(* A mistaken RunAfterFailure: the run is decided with its case. *)
RunDecidedOnFailure(r) == [review_run EXCEPT ![r].status = "DECIDED"]

(* A failed run stays RUNNING. *)
RunAfterFailure(r) == review_run

(* A mistaken UpsertResult: run and verdict in each other's column. *)
UpsertResultSwapped(r, verdict) ==
  [review_result EXCEPT ![CaseOf(r)] = [source |-> verdict, decision |-> r]]

(* A mistaken UpsertResult: the first verdict of a case stays. *)
InsertResultOnce(r, verdict) ==
  IF review_result[CaseOf(r)] # NoResult THEN review_result
  ELSE [review_result EXCEPT ![CaseOf(r)] = [source |-> r, decision |-> verdict]]

UpsertResult(r, verdict) ==
  [review_result EXCEPT ![CaseOf(r)] = [source |-> r, decision |-> verdict]]

------------------------------------------------------------------------------
(* Admission *)

(* process_review triages the case and its branch reads the case row. *)
Receive(r) ==
  /\ pc[r] = "idle"
  /\ case_row' = [case_row EXCEPT ![r] = review_case[CaseOf(r)]]
  /\ pc' = [pc EXCEPT ![r] = IF TriageOf[ContentOf(r)] = "COMPLEX"
                             THEN "opening" ELSE "directing"]
  /\ UNCHANGED <<tables, graph_evidence, latest_evidence, decision, submitted, graph_ready,
                 concluded>>

(* The direct decision: case, run, rule hits and result in one commit. *)
DirectReview(r) ==
  LET verdict == TriageOf[ContentOf(r)]
  IN /\ pc[r] = "directing"
     /\ ~DuplicateCase(r)
     /\ review_case' = [review_case EXCEPT ![CaseOf(r)] = CaseWritten(r, "DECIDED", verdict)]
     /\ review_run' = [review_run EXCEPT ![r] = [status |-> "DECIDED",
                                                 trigger |-> "SCREENING_DIRECT"]]
     /\ review_evidence' = [review_evidence EXCEPT ![r] =
                              IF verdict = "REJECT" THEN {"RULE_HIT"} ELSE {}]
     /\ review_result' = UpsertResult(r, verdict)
     /\ pc' = [pc EXCEPT ![r] = "ok"]
     /\ concluded' = Append(concluded, r)
     /\ UNCHANGED <<review_trace, session, submitted, graph_ready>>

------------------------------------------------------------------------------
(* Investigation *)

OpenRun(r) ==
  /\ pc[r] = "opening"
  /\ ~DuplicateCase(r)
  /\ review_case' =
       [review_case EXCEPT ![CaseOf(r)] = CaseWritten(r, "INVESTIGATING", "COMPLEX")]
  /\ review_run' = [review_run EXCEPT ![r] = [status |-> "RUNNING", trigger |-> "INITIAL"]]
  /\ case_row' = RowAfterOpen(r)
  /\ pc' = [pc EXCEPT ![r] = "opened"]
  /\ UNCHANGED <<review_trace, review_evidence, review_result, graph_evidence,
                 latest_evidence, decision, submitted, graph_ready, concluded>>

(* A case that needs investigation has a rule hit, so there is a commit. *)
PersistExtraEvidence(r) ==
  /\ pc[r] = "opened"
  /\ review_evidence' = [review_evidence EXCEPT ![r] = @ \cup {"RULE_HIT"}]
  /\ pc' = [pc EXCEPT ![r] = "assembling"]
  /\ UNCHANGED <<review_case, review_run, review_trace, review_result, session,
                 submitted, graph_ready, concluded>>

AssembleGraph(r) ==
  /\ pc[r] = "assembling"
  /\ graph_ready' = TRUE
  /\ pc' = [pc EXCEPT ![r] = "streaming"]
  /\ UNCHANGED <<tables, session, submitted, concluded>>

(* No credentials for the model, or an assembly error: raised outside the  *)
(* try block, with the run already opened.                                 *)
AssemblyFailed(r) ==
  /\ pc[r] = "assembling"
  /\ ~graph_ready
  /\ pc' = [pc EXCEPT ![r] = "error"]
  /\ UNCHANGED <<tables, session, submitted, graph_ready, concluded>>

(* The nodes the graph may run after the last one that was traced. *)
NextSteps(trace) ==
  IF trace = <<>> THEN {"HYPOTHESIZE"}
  ELSE [ HYPOTHESIZE |-> {"PLAN"},
         PLAN        |-> {"TOOL_CALL", "DECIDE"},
         TOOL_CALL   |-> {"REEVALUATE"},
         REEVALUATE  |-> {"PLAN", "DECIDE"},
         DECIDE      |-> {},
         infra_error |-> {} ][Last(trace)]

RoundsIn(trace) == Len(SelectSeq(trace, LAMBDA step : step = "REEVALUATE"))

(* A mistaken ObservedEvidence: the update replaces what was observed. *)
ObservedReplaced(r, update) == IF update = {} THEN latest_evidence[r] ELSE update

ObservedEvidence(r, update) == latest_evidence[r] \cup update

(* The evidence of the first node: the measurement of the text rules. *)
RuleMeasurement(r) == IF ContentOf(r) \in TextHits THEN {"MEASUREMENT"} ELSE {}

(* A node publishes evidence: the reducer of the graph adds it to the      *)
(* channel, and the consumer of the stream to what it has observed.        *)
PublishEvidence(r, update) ==
  /\ graph_evidence' = [graph_evidence EXCEPT ![r] = @ \cup update]
  /\ latest_evidence' = [latest_evidence EXCEPT ![r] = ObservedEvidence(r, update)]

(* An update of a model node other than decide, traced by one row. *)
StreamNode(r) ==
  /\ pc[r] = "streaming"
  /\ \E step \in NextSteps(review_trace[r]) \ {"TOOL_CALL", "DECIDE"} :
       /\ review_trace' = [review_trace EXCEPT ![r] = Append(@, step)]
       /\ PublishEvidence(r, IF step = "HYPOTHESIZE" THEN RuleMeasurement(r) ELSE {})
  /\ UNCHANGED <<review_case, review_run, review_evidence, review_result, case_row,
                 decision, submitted, pc, graph_ready, concluded>>

(* An update of the tools node, traced by one row per call. *)
StreamTools(r) ==
  /\ pc[r] = "streaming"
  /\ "TOOL_CALL" \in NextSteps(review_trace[r])
  /\ RoundsIn(review_trace[r]) < MaxRounds
  /\ \E calls \in 1..MaxRoundCalls, found \in SUBSET Findings :
       /\ review_trace' = [review_trace EXCEPT ![r] = @ \o [i \in 1..calls |-> "TOOL_CALL"]]
       /\ PublishEvidence(r, found)
  /\ UNCHANGED <<review_case, review_run, review_evidence, review_result, case_row,
                 decision, submitted, pc, graph_ready, concluded>>

(* decide ends the graph.  A rejection adds the citations of the gate. *)
StreamDecide(r) ==
  /\ pc[r] = "streaming"
  /\ "DECIDE" \in NextSteps(review_trace[r])
  /\ \E verdict \in Decisions :
       decision' = [decision EXCEPT ![r] =
         [ verdict |-> verdict,
           evidence |-> graph_evidence[r]
                          \cup (IF verdict = "REJECT" THEN {"CITATION"} ELSE {}) ]]
  /\ review_trace' = [review_trace EXCEPT ![r] = Append(@, "DECIDE")]
  /\ UNCHANGED <<review_case, review_run, review_evidence, review_result, case_row,
                 graph_evidence, latest_evidence, submitted, pc, graph_ready, concluded>>

Streamed(r) == review_trace[r] # <<>> /\ Last(review_trace[r]) = "DECIDE"

PersistSuccess(r) ==
  /\ pc[r] = "streaming"
  /\ Streamed(r)
  /\ review_evidence' = [review_evidence EXCEPT ![r] = @ \cup decision[r].evidence]
  /\ review_result' = UpsertResult(r, decision[r].verdict)
  /\ review_run' = [review_run EXCEPT ![r].status = "DECIDED"]
  /\ review_case' = CaseConcluded(r)
  /\ pc' = [pc EXCEPT ![r] = "ok"]
  /\ concluded' = Append(concluded, r)
  /\ UNCHANGED <<review_trace, session, submitted, graph_ready>>

(* A mistaken StreamFailed: the run is concluded with what there is. *)
StreamFailureSwallowed(r) ==
  /\ pc[r] = "streaming"
  /\ ~Streamed(r)
  /\ review_trace' = [review_trace EXCEPT ![r] = Append(@, "DECIDE")]
  /\ UNCHANGED <<review_case, review_run, review_evidence, review_result, session,
                 submitted, pc, graph_ready, concluded>>

(* The graph raises (a tool has failed twice). *)
StreamFailed(r) ==
  /\ pc[r] = "streaming"
  /\ ~Streamed(r)
  /\ pc' = [pc EXCEPT ![r] = "failing"]
  /\ UNCHANGED <<tables, session, submitted, graph_ready, concluded>>

(* _persist_failure: the case is closed for human review with the evidence *)
(* observed so far, the run stays RUNNING, and the exception goes on.      *)
PersistFailure(r) ==
  /\ pc[r] = "failing"
  /\ review_result' = UpsertResult(r, "HUMAN_REVIEW")
  /\ review_evidence' = [review_evidence EXCEPT ![r] = @ \cup latest_evidence[r]]
  /\ review_trace' = [review_trace EXCEPT ![r] = Append(@, "infra_error")]
  /\ review_case' = CaseConcluded(r)
  /\ pc' = [pc EXCEPT ![r] = "error"]
  /\ concluded' = Append(concluded, r)
  /\ review_run' = RunAfterFailure(r)
  /\ UNCHANGED <<session, submitted, graph_ready>>

------------------------------------------------------------------------------
(* Faults *)

(* Two first submissions of a case: the second insert breaks its key. *)
DuplicateRejected(r) ==
  /\ pc[r] \in {"opening", "directing"}
  /\ DuplicateCase(r)
  /\ pc' = [pc EXCEPT ![r] = "error"]
  /\ UNCHANGED <<tables, session, submitted, graph_ready, concluded>>

(* A statement or commit fails (connection, deadlock) and is rolled back.  *)
(* Inside the try block _persist_failure follows, and fails as well: the   *)
(* session refuses work until a rollback nobody issues.                    *)
SessionFailed(r) ==
  /\ pc[r] \in {"idle", "opening", "directing", "opened", "streaming", "failing"}
  /\ pc' = [pc EXCEPT ![r] = "error"]
  /\ UNCHANGED <<tables, session, submitted, graph_ready, concluded>>

(* The process dies or cancels the request; no handler runs. *)
Crash(r) ==
  /\ pc[r] \notin Ended \cup {"idle"}
  /\ pc' = [pc EXCEPT ![r] = "crashed"]
  /\ UNCHANGED <<tables, session, submitted, graph_ready, concluded>>

------------------------------------------------------------------------------

Progress(r) ==
  \/ Receive(r) \/ DirectReview(r) \/ DuplicateRejected(r)
  \/ OpenRun(r) \/ PersistExtraEvidence(r) \/ AssembleGraph(r) \/ AssemblyFailed(r)
  \/ StreamNode(r) \/ StreamTools(r) \/ StreamDecide(r) \/ StreamFailed(r)
  \/ PersistSuccess(r) \/ PersistFailure(r)

Next == \E r \in Requests : Progress(r) \/ SessionFailed(r) \/ Crash(r)

Spec == Init /\ [][Next]_vars

(* Each request is a coroutine of its own whose awaits return or raise. *)
FairSpec == Spec /\ \A r \in Requests : WF_vars(Progress(r))

==============================================================================
