--------------------------- MODULE PersistenceProofs ---------------------------
(***************************************************************************)
(* Proofs about the review tables, for any number of requests, cases and   *)
(* contents and every interleaving of commits, failures and crashes.       *)
(***************************************************************************)
EXTENDS PersistenceProperties, TLAPS, SequenceTheorems

(* The tables and the sessions are well-typed initially. *)
LEMMA TypeInit == Init => TypeOK
<1> SUFFICES ASSUME Init PROVE TypeOK
  OBVIOUS
<1>1. <<>> \in Seq(StepTypes) /\ <<>> \in Seq(Requests)
  OBVIOUS
<1> QED
  BY <1>1 DEF Init, TypeOK, CaseRow, RunRow, NoCase, NoRun, NoResult

(* What a session flushes into the case table is a row. *)
LEMMA CaseWrittenType ==
  ASSUME TypeOK, NEW r \in Requests, NEW status \in CaseStatus, NEW triage \in TriageVerdicts
  PROVE  CaseWritten(r, status, triage) \in CaseRow
<1>1. /\ CaseOf(r) \in Cases /\ ContentOf(r) \in Contents
      /\ case_row[r] \in CaseRow /\ review_case[CaseOf(r)] \in CaseRow
  BY DEF TypeOK, CaseOf, ContentOf
<1> QED
  BY <1>1 DEF CaseWritten, NetChange, CaseRow

(* The nodes of the graph are steps, and none of them is a failure. *)
LEMMA StepsTyped ==
  ASSUME NEW trace \in Seq(StepTypes), NEW step \in NextSteps(trace)
  PROVE  step \in StepTypes \ {"infra_error"}
<1>1. CASE trace = <<>>
  BY <1>1 DEF NextSteps, StepTypes
<1>2. CASE trace # <<>>
  <2>1. Last(trace) \in StepTypes
    BY <1>2 DEF Last
  <2> QED
    BY <1>2, <2>1 DEF NextSteps, StepTypes
<1> QED
  BY <1>1, <1>2

(* What a concluding run leaves in the result and case tables is well-typed. *)
LEMMA ConcludeType ==
  ASSUME TypeOK, NEW r \in Requests, NEW verdict \in Decisions \cup {"NONE"}
  PROVE  /\ UpsertResult(r, verdict) \in [Cases -> [ source : Requests \cup {"NONE"},
                                                     decision : Decisions \cup {"NONE"} ]]
         /\ CaseConcluded(r) \in [Cases -> CaseRow]
<1>1. /\ CaseOf(r) \in Cases
      /\ case_row[r] \in CaseRow /\ review_case[CaseOf(r)] \in CaseRow
  BY DEF TypeOK, CaseOf
<1> QED
  BY <1>1 DEF TypeOK, UpsertResult, CaseConcluded, NetChange, CaseRow, CaseStatus

(* What is known of a request by its phase: only triaged cases are decided *)
(* directly; a request that has not opened its run has left no row of it;  *)
(* one that investigates has a running run without a failure, and its      *)
(* session holds the case as being investigated, so that DECIDED is a      *)
(* change it will write.                                                   *)
SessionInv ==
  \A r \in Requests :
    /\ pc[r] = "directing" => TriageOf[ContentOf(r)] # "COMPLEX"
    /\ pc[r] \in {"idle", "opening", "directing"} =>
         review_run[r] = NoRun /\ review_trace[r] = <<>>
    /\ pc[r] \in {"opened", "assembling", "streaming", "failing"} =>
         Unfinished(r) /\ case_row[r].status = "INVESTIGATING"

(* What the graph and the consumer of its stream hold stays well-typed. *)
LEMMA PublishType ==
  ASSUME TypeOK, NEW r \in Requests, NEW update \in SUBSET EvidenceKinds,
         PublishEvidence(r, update)
  PROVE  /\ graph_evidence' \in [Requests -> SUBSET EvidenceKinds]
         /\ latest_evidence' \in [Requests -> SUBSET EvidenceKinds]
BY DEF TypeOK, PublishEvidence, ObservedEvidence

(* What the first node publishes is evidence. *)
LEMMA MeasurementKind ==
  ASSUME NEW r \in Requests, NEW step
  PROVE  (IF step = "HYPOTHESIZE" THEN RuleMeasurement(r) ELSE {}) \in SUBSET EvidenceKinds
BY DEF RuleMeasurement, EvidenceKinds

(* Every step keeps the types. *)
LEMMA TypeStep == TypeOK /\ SessionInv /\ [Next]_vars => TypeOK'
<1> SUFFICES ASSUME TypeOK, SessionInv, [Next]_vars PROVE TypeOK'
  OBVIOUS
<1> USE DEF TypeOK
<1>1. CASE UNCHANGED vars
  BY <1>1 DEF vars, tables, session
<1>2. ASSUME NEW r \in Requests, Progress(r) \/ SessionFailed(r) \/ Crash(r) PROVE TypeOK'
  <2>0. CaseOf(r) \in Cases /\ ContentOf(r) \in Contents /\ TriageOf[ContentOf(r)] \in TriageVerdicts
    BY TriageAssumption DEF CaseOf, ContentOf
  <2>1. CASE Receive(r)
    BY <2>0, <2>1 DEF Receive, tables
  <2>2. CASE DirectReview(r)
    <3> DEFINE verdict == TriageOf[ContentOf(r)]
    <3>1. verdict \in Decisions \cup {"NONE"}
      BY <2>0, <2>2 DEF DirectReview, SessionInv, TriageVerdicts, Decisions
    <3>2. CaseWritten(r, "DECIDED", verdict) \in CaseRow
      BY <2>0, CaseWrittenType DEF CaseStatus
    <3>3. UpsertResult(r, verdict) \in [Cases -> [ source : Requests \cup {"NONE"},
                                                   decision : Decisions \cup {"NONE"} ]]
      BY <3>1, ConcludeType
    <3> HIDE DEF verdict
    <3>4. /\ review_case' = [review_case EXCEPT ![CaseOf(r)] = CaseWritten(r, "DECIDED", verdict)]
          /\ review_result' = UpsertResult(r, verdict)
      BY <2>2 DEF DirectReview, verdict
    <3>5. review_case' \in [Cases -> CaseRow]
      BY <2>0, <3>2, <3>4
    <3>6. review_evidence' \in [Requests -> SUBSET EvidenceKinds]
      BY <2>2 DEF DirectReview, EvidenceKinds
    <3> QED
      BY <2>2, <3>3, <3>4, <3>5, <3>6 DEF DirectReview, session, RunRow, RunStatus, Ended
  <2>3. CASE OpenRun(r)
    <3>1. CaseWritten(r, "INVESTIGATING", "COMPLEX") \in CaseRow
      BY CaseWrittenType DEF CaseStatus, TriageVerdicts
    <3>2. RowAfterOpen(r) \in [Requests -> CaseRow]
      <4>1. [case_row[r] EXCEPT !.status = "INVESTIGATING", !.triage = "COMPLEX"] \in CaseRow
        BY case_row[r] \in CaseRow DEF CaseRow, CaseStatus, TriageVerdicts
      <4> QED
        BY <4>1 DEF RowAfterOpen
    <3> QED
      BY <2>0, <2>3, <3>1, <3>2 DEF OpenRun, RunRow, RunStatus
  <2>4. CASE PersistExtraEvidence(r)
    BY <2>4 DEF PersistExtraEvidence, session, EvidenceKinds
  <2>5. CASE AssembleGraph(r)
    BY <2>5 DEF AssembleGraph, tables, session
  <2>6. CASE StreamNode(r)
    <3>1. PICK step \in NextSteps(review_trace[r]) \ {"TOOL_CALL", "DECIDE"} :
            /\ review_trace' = [review_trace EXCEPT ![r] = Append(@, step)]
            /\ PublishEvidence(r, IF step = "HYPOTHESIZE" THEN RuleMeasurement(r) ELSE {})
      BY <2>6 DEF StreamNode
    <3>2. step \in StepTypes
      BY StepsTyped
    <3>3. graph_evidence' \in [Requests -> SUBSET EvidenceKinds]
          /\ latest_evidence' \in [Requests -> SUBSET EvidenceKinds]
      BY <3>1, PublishType, MeasurementKind
    <3>4. review_trace' \in [Requests -> Seq(StepTypes)]
      BY <3>1, <3>2
    <3>5. UNCHANGED <<review_case, review_run, review_evidence, review_result, case_row,
                      decision, submitted, pc, graph_ready, concluded>>
      BY <2>6 DEF StreamNode
    <3> QED
      BY <3>3, <3>4, <3>5
  <2>7. CASE StreamTools(r)
    <3>1. PICK calls \in 1..MaxRoundCalls, found \in SUBSET Findings :
            /\ review_trace' =
                 [review_trace EXCEPT ![r] = @ \o [i \in 1..calls |-> "TOOL_CALL"]]
            /\ PublishEvidence(r, found)
      BY <2>7 DEF StreamTools
    <3>2. calls \in Nat /\ "TOOL_CALL" \in StepTypes
      BY BoundsAssumption DEF StepTypes
    <3> DEFINE rows == [i \in 1..calls |-> "TOOL_CALL"]
    <3>3. rows \in Seq(StepTypes)
      BY <3>2
    <3> HIDE DEF rows
    <3>4. review_trace[r] \o rows \in Seq(StepTypes)
      BY <3>3
    <3>5. review_trace' = [review_trace EXCEPT ![r] = @ \o rows]
      BY <3>1 DEF rows
    <3>6. found \subseteq EvidenceKinds
      BY DEF EvidenceKinds
    <3>7. graph_evidence' \in [Requests -> SUBSET EvidenceKinds]
          /\ latest_evidence' \in [Requests -> SUBSET EvidenceKinds]
      BY <3>1, <3>6, PublishType
    <3> QED
      BY <2>7, <3>4, <3>5, <3>7 DEF StreamTools
  <2>8. CASE StreamDecide(r)
    <3>1. PICK verdict \in Decisions :
            decision' = [decision EXCEPT ![r] =
              [ verdict |-> verdict,
                evidence |-> graph_evidence[r]
                               \cup (IF verdict = "REJECT" THEN {"CITATION"} ELSE {}) ]]
      BY <2>8 DEF StreamDecide
    <3>2. graph_evidence[r] \cup (IF verdict = "REJECT" THEN {"CITATION"} ELSE {})
            \in SUBSET EvidenceKinds
      BY DEF EvidenceKinds
    <3>3. Append(review_trace[r], "DECIDE") \in Seq(StepTypes)
      BY DEF StepTypes
    <3> QED
      BY <2>8, <3>1, <3>2, <3>3 DEF StreamDecide
  <2>9. CASE PersistSuccess(r)
    <3>1. decision[r].verdict \in Decisions \cup {"NONE"} /\ decision[r].evidence \subseteq EvidenceKinds
      OBVIOUS
    <3>2. /\ review_result' = UpsertResult(r, decision[r].verdict)
          /\ review_case' = CaseConcluded(r)
      BY <2>9 DEF PersistSuccess
    <3>3. review_run' = [review_run EXCEPT ![r] = [review_run[r] EXCEPT !.status = "DECIDED"]]
      BY <2>9 DEF PersistSuccess
    <3>4. review_run' \in [Requests -> RunRow]
      <4>1. [review_run[r] EXCEPT !.status = "DECIDED"] \in RunRow
        BY review_run[r] \in RunRow DEF RunRow, RunStatus
      <4> QED
        BY <3>3, <4>1
    <3>5. review_evidence' \in [Requests -> SUBSET EvidenceKinds]
      BY <2>9, <3>1 DEF PersistSuccess
    <3>6. /\ review_result' \in [Cases -> [ source : Requests \cup {"NONE"},
                                            decision : Decisions \cup {"NONE"} ]]
          /\ review_case' \in [Cases -> CaseRow]
      BY <3>1, <3>2, ConcludeType
    <3>7. /\ pc' = [pc EXCEPT ![r] = "ok"] /\ concluded' = Append(concluded, r)
          /\ UNCHANGED <<review_trace, case_row, graph_evidence, latest_evidence, decision, submitted,
                         graph_ready>>
      BY <2>9 DEF PersistSuccess, session
    <3> QED
      BY <3>4, <3>5, <3>6, <3>7 DEF Ended
  <2>10. CASE PersistFailure(r)
    BY <2>10, ConcludeType DEF PersistFailure, Decisions, RunAfterFailure, StepTypes, Ended, session
  <2>11. CASE AssemblyFailed(r) \/ DuplicateRejected(r) \/ SessionFailed(r) \/ Crash(r)
                \/ StreamFailed(r)
    BY <2>11 DEF AssemblyFailed, DuplicateRejected, SessionFailed, Crash, StreamFailed, tables,
       session, Ended
  <2> QED
    BY <1>2, <2>1, <2>2, <2>3, <2>4, <2>5, <2>6, <2>7, <2>8, <2>9, <2>10, <2>11 DEF Progress
<1> QED
  BY <1>1, <1>2 DEF Next

(* The phases before a run is opened, and those of an open run. *)
Before == {"idle", "opening", "directing"}
Investigating == {"opened", "assembling", "streaming", "failing"}

(* A step of r changes the runs, traces, evidence, sessions and phases of  *)
(* r only.                                                                 *)
LEMMA OthersUntouched ==
  ASSUME TypeOK, NEW r \in Requests, Progress(r) \/ SessionFailed(r) \/ Crash(r),
         NEW q \in Requests \ {r}
  PROVE  /\ review_run'[q] = review_run[q] /\ review_trace'[q] = review_trace[q]
         /\ review_evidence'[q] = review_evidence[q]
         /\ case_row'[q] = case_row[q] /\ latest_evidence'[q] = latest_evidence[q]
         /\ graph_evidence'[q] = graph_evidence[q]
         /\ decision'[q] = decision[q] /\ pc'[q] = pc[q]
         /\ submitted' = submitted
<1> USE DEF TypeOK
<1>1. CASE Receive(r) \/ DirectReview(r) \/ DuplicateRejected(r) \/ SessionFailed(r) \/ Crash(r)
  BY <1>1 DEF Receive, DirectReview, DuplicateRejected, SessionFailed, Crash, tables, session
<1>2. CASE OpenRun(r)
  BY <1>2 DEF OpenRun, RowAfterOpen
<1>3. CASE PersistExtraEvidence(r) \/ AssembleGraph(r) \/ AssemblyFailed(r) \/ StreamFailed(r)
  BY <1>3 DEF PersistExtraEvidence, AssembleGraph, AssemblyFailed, StreamFailed, tables, session
<1>4. CASE StreamNode(r)
  BY <1>4 DEF StreamNode, PublishEvidence
<1>5. CASE StreamTools(r)
  BY <1>5 DEF StreamTools, PublishEvidence
<1>6. CASE StreamDecide(r)
  BY <1>6 DEF StreamDecide
<1>7. CASE PersistSuccess(r) \/ PersistFailure(r)
  BY <1>7 DEF PersistSuccess, PersistFailure, RunAfterFailure, session
<1> QED
  BY <1>1, <1>2, <1>3, <1>4, <1>5, <1>6, <1>7 DEF Progress

(* Tracing another step of the graph records no failure. *)
LEMMA TraceAddsNoFailure ==
  ASSUME TypeOK, NEW r \in Requests, NEW rows \in Seq(StepTypes),
         \A i \in DOMAIN rows : rows[i] # "infra_error",
         review_trace'[r] = review_trace[r] \o rows,
         ~Traced(r, "infra_error")
  PROVE  ~Traced(r, "infra_error")'
<1>1. review_trace[r] \in Seq(StepTypes) /\ review_trace'[r] = review_trace[r] \o rows
  BY DEF TypeOK
<1>2. \A i \in DOMAIN review_trace[r] : review_trace[r][i] # "infra_error"
  BY DEF Traced
<1>3. \A i \in DOMAIN (review_trace[r] \o rows) : (review_trace[r] \o rows)[i] # "infra_error"
  BY <1>1, <1>2
<1> QED
  BY <1>1, <1>3 DEF Traced

(* SessionInv holds initially. *)
LEMMA SessionInit == Init => SessionInv
BY DEF Init, SessionInv

(* Every step keeps SessionInv. *)
LEMMA SessionStep == TypeOK /\ SessionInv /\ [Next]_vars => SessionInv'
<1> SUFFICES ASSUME TypeOK, SessionInv, [Next]_vars PROVE SessionInv'
  OBVIOUS
<1>1. CASE UNCHANGED vars
  BY <1>1 DEF vars, tables, session, SessionInv, Unfinished, Traced, ContentOf
<1>2. ASSUME NEW r \in Requests, Progress(r) \/ SessionFailed(r) \/ Crash(r) PROVE SessionInv'
  <2> DEFINE Known(q) ==
        /\ pc[q] = "directing" => TriageOf[ContentOf(q)] # "COMPLEX"
        /\ pc[q] \in {"idle", "opening", "directing"} =>
             review_run[q] = NoRun /\ review_trace[q] = <<>>
        /\ pc[q] \in {"opened", "assembling", "streaming", "failing"} =>
             Unfinished(q) /\ case_row[q].status = "INVESTIGATING"
  <2>1. ASSUME NEW q \in Requests \ {r} PROVE Known(q)'
    <3>1. Known(q)
      BY DEF SessionInv
    <3> QED
      BY <1>2, <2>1, <3>1, OthersUntouched DEF Unfinished, Traced, ContentOf
  <2>2. Known(r)'
    <3> USE DEF TypeOK
    <3>0. Known(r) /\ submitted[r].content = ContentOf(r)
      BY DEF SessionInv, ContentOf
    <3>1. CASE Receive(r)
      BY <3>0, <3>1 DEF Receive, tables, ContentOf
    <3>2. CASE DirectReview(r) \/ PersistSuccess(r) \/ PersistFailure(r)
      <4>1. pc'[r] \in Ended
        BY <3>2 DEF DirectReview, PersistSuccess, PersistFailure, Ended
      <4> QED
        BY <4>1 DEF Ended
    <3>3. CASE OpenRun(r)
      <4>1. /\ pc'[r] = "opened" /\ review_run'[r].status = "RUNNING"
            /\ review_trace' = review_trace /\ review_trace[r] = <<>>
        BY <3>0, <3>3 DEF OpenRun
      <4>2. case_row'[r].status = "INVESTIGATING"
        <5>1. case_row' = [case_row EXCEPT ![r] =
                [case_row[r] EXCEPT !.status = "INVESTIGATING", !.triage = "COMPLEX"]]
          BY <3>3 DEF OpenRun, RowAfterOpen
        <5>2. DOMAIN case_row[r] = {"status", "triage", "snapshot"}
          BY DEF CaseRow
        <5> QED
          BY <5>1, <5>2
      <4> QED
        BY <4>1, <4>2 DEF Unfinished, Traced
    <3>4. CASE PersistExtraEvidence(r) \/ AssembleGraph(r) \/ StreamFailed(r)
      <4>1. /\ pc[r] \in Investigating /\ pc'[r] \in Investigating
            /\ UNCHANGED <<review_run, review_trace, case_row>>
        BY <3>4 DEF PersistExtraEvidence, AssembleGraph, StreamFailed, tables, session,
           Investigating
      <4> QED
        BY <3>0, <4>1 DEF Unfinished, Traced, Investigating
    <3>5. CASE StreamNode(r) \/ StreamTools(r) \/ StreamDecide(r)
      <4>1. ~Traced(r, "infra_error")'
        <5>1. CASE StreamNode(r)
          <6>1. PICK step \in NextSteps(review_trace[r]) :
                  review_trace' = [review_trace EXCEPT ![r] = Append(@, step)]
            BY <5>1 DEF StreamNode
          <6>2. step \in StepTypes \ {"infra_error"}
            BY StepsTyped
          <6>3. <<step>> \in Seq(StepTypes) /\ review_trace'[r] = review_trace[r] \o <<step>>
            BY <6>1, <6>2
          <6>4. \A i \in DOMAIN <<step>> : <<step>>[i] # "infra_error"
            BY <6>2
          <6> QED
            BY <3>0, <5>1, <6>3, <6>4, TraceAddsNoFailure DEF Unfinished, StreamNode
        <5>2. CASE StreamTools(r)
          <6>1. PICK calls \in 1..MaxRoundCalls :
                  review_trace' = [review_trace EXCEPT ![r] = @ \o [i \in 1..calls |-> "TOOL_CALL"]]
            BY <5>2 DEF StreamTools
          <6>2. calls \in Nat /\ "TOOL_CALL" \in StepTypes
            BY BoundsAssumption DEF StepTypes
          <6> DEFINE rows == [i \in 1..calls |-> "TOOL_CALL"]
          <6>3. rows \in Seq(StepTypes) /\ \A i \in DOMAIN rows : rows[i] # "infra_error"
            BY <6>2
          <6>4. review_trace'[r] = review_trace[r] \o rows
            BY <6>1
          <6> HIDE DEF rows
          <6> QED
            BY <3>0, <5>2, <6>3, <6>4, TraceAddsNoFailure DEF Unfinished, StreamTools
        <5>3. CASE StreamDecide(r)
          <6>1. <<"DECIDE">> \in Seq(StepTypes) /\ review_trace'[r] = review_trace[r] \o <<"DECIDE">>
            BY <5>3 DEF StreamDecide, StepTypes
          <6>2. \A i \in DOMAIN <<"DECIDE">> : <<"DECIDE">>[i] # "infra_error"
            OBVIOUS
          <6> QED
            BY <3>0, <5>3, <6>1, <6>2, TraceAddsNoFailure DEF Unfinished, StreamDecide
        <5> QED
          BY <3>5, <5>1, <5>2, <5>3
      <4>2. /\ pc[r] = "streaming" /\ pc'[r] = "streaming"
            /\ UNCHANGED <<review_run, case_row>>
        BY <3>5 DEF StreamNode, StreamTools, StreamDecide
      <4> QED
        BY <3>0, <4>1, <4>2 DEF Unfinished
    <3>6. CASE AssemblyFailed(r) \/ DuplicateRejected(r) \/ SessionFailed(r) \/ Crash(r)
      <4>1. pc'[r] \in Ended
        BY <3>6 DEF AssemblyFailed, DuplicateRejected, SessionFailed, Crash, Ended
      <4> QED
        BY <4>1 DEF Ended
    <3> QED
      BY <1>2, <3>1, <3>2, <3>3, <3>4, <3>5, <3>6 DEF Progress
  <2> QED
    BY <2>1, <2>2 DEF SessionInv
<1> QED
  BY <1>1, <1>2 DEF Next

(* The tables and the sessions are well-typed in every behaviour. *)
THEOREM TypeCorrect == Spec => []TypeOK
BY TypeInit, TypeStep, SessionInit, SessionStep, PTL DEF Spec

------------------------------------------------------------------------------

(* A step that concludes a run leaves its case decided: the session of the *)
(* run holds the case as being investigated, so the change is written.     *)
LEMMA ConclusionDecides ==
  ASSUME TypeOK, SessionInv, NEW r \in Requests, pc[r] \in Investigating,
         review_case' = CaseConcluded(r)
  PROVE  /\ review_case'[CaseOf(r)].status = "DECIDED"
         /\ \A c \in Cases \ {CaseOf(r)} : review_case'[c] = review_case[c]
<1>1. case_row[r].status = "INVESTIGATING"
  BY DEF SessionInv, Investigating
<1>2. CaseOf(r) \in Cases /\ review_case \in [Cases -> CaseRow]
  BY DEF TypeOK, CaseOf
<1>3. review_case' = [review_case EXCEPT ![CaseOf(r)] =
                        [review_case[CaseOf(r)] EXCEPT !.status = "DECIDED"]]
  BY <1>1 DEF CaseConcluded, NetChange
<1>4. DOMAIN review_case[CaseOf(r)] = {"status", "triage", "snapshot"}
  BY <1>2 DEF CaseRow
<1> QED
  BY <1>2, <1>3, <1>4

(* The steps that leave the case table alone finish no run. *)
LEMMA OtherStepsFinishNothing ==
  ASSUME TypeOK, SessionInv, SessionInv', NEW r \in Requests,
         \/ Receive(r) \/ PersistExtraEvidence(r) \/ AssembleGraph(r) \/ AssemblyFailed(r)
         \/ StreamNode(r) \/ StreamTools(r) \/ StreamDecide(r) \/ StreamFailed(r)
         \/ DuplicateRejected(r) \/ SessionFailed(r) \/ Crash(r)
  PROVE  review_case' = review_case /\ (Unfinished(r) => Unfinished(r)')
<1>1. CASE PersistExtraEvidence(r) \/ AssembleGraph(r) \/ StreamFailed(r)
           \/ StreamNode(r) \/ StreamTools(r) \/ StreamDecide(r)
  <2>1. review_case' = review_case
    BY <1>1 DEF PersistExtraEvidence, AssembleGraph, StreamFailed, StreamNode, StreamTools,
       StreamDecide, tables
  <2>2. pc'[r] \in Investigating
    BY <1>1 DEF TypeOK, PersistExtraEvidence, AssembleGraph, StreamFailed, StreamNode,
       StreamTools, StreamDecide, Investigating
  <2> QED
    BY <2>1, <2>2 DEF SessionInv, Investigating
<1>2. CASE Receive(r) \/ AssemblyFailed(r) \/ DuplicateRejected(r) \/ SessionFailed(r) \/ Crash(r)
  BY <1>2 DEF Receive, AssemblyFailed, DuplicateRejected, SessionFailed, Crash, tables,
     Unfinished, Traced
<1> QED
  BY <1>1, <1>2

(* Every step keeps InvestigatingExplained. *)
LEMMA ExplainedStep ==
  TypeOK /\ SessionInv /\ SessionInv' /\ InvestigatingExplained /\ [Next]_vars
  => InvestigatingExplained'
<1> SUFFICES ASSUME TypeOK, SessionInv, SessionInv', InvestigatingExplained, [Next]_vars
             PROVE  InvestigatingExplained'
  OBVIOUS
<1>1. CASE UNCHANGED vars
  BY <1>1 DEF vars, tables, InvestigatingExplained, Unfinished, Traced, CaseOf
<1>2. ASSUME NEW r \in Requests, Progress(r) \/ SessionFailed(r) \/ Crash(r),
             NEW c \in Cases, review_case'[c].status = "INVESTIGATING"
      PROVE  \E q \in Requests : CaseOf(q)' = c /\ Unfinished(q)'
  <2>1. submitted' = submitted
    BY <1>2 DEF Progress, SessionFailed, Crash, Receive, DirectReview, DuplicateRejected, OpenRun,
       PersistExtraEvidence, AssembleGraph, AssemblyFailed, StreamNode, StreamTools, StreamDecide,
       StreamFailed, PersistSuccess, PersistFailure
  <2>2. \A q \in Requests \ {r} : Unfinished(q) => Unfinished(q)'
    BY <1>2, OthersUntouched DEF Unfinished, Traced
  <2>3. review_case[c].status = "INVESTIGATING" =>
          \E q \in Requests : CaseOf(q) = c /\ Unfinished(q)
    BY DEF InvestigatingExplained
  <2>4. CASE OpenRun(r)
    <3>1. CASE c = CaseOf(r)
      <4>1. pc'[r] = "opened"
        BY <2>4 DEF OpenRun, TypeOK
      <4>2. Unfinished(r)'
        BY <4>1 DEF SessionInv
      <4> QED
        BY <2>1, <3>1, <4>2 DEF CaseOf
    <3>2. CASE c # CaseOf(r)
      <4>1. review_case'[c] = review_case[c]
        BY <2>4, <3>2 DEF OpenRun, TypeOK
      <4> QED
        BY <1>2, <2>1, <2>2, <2>3, <3>2, <4>1 DEF CaseOf
    <3> QED
      BY <3>1, <3>2
  <2>5. CASE DirectReview(r)
    <3>1. ~Unfinished(r)
      BY <2>5 DEF DirectReview, SessionInv, Unfinished, NoRun
    <3>2. review_case[c].status = "INVESTIGATING"
      <4>1. review_case' = [review_case EXCEPT ![CaseOf(r)] =
                              CaseWritten(r, "DECIDED", TriageOf[ContentOf(r)])]
        BY <2>5 DEF DirectReview
      <4>2. CaseWritten(r, "DECIDED", TriageOf[ContentOf(r)]).status
              \in {"DECIDED", review_case[CaseOf(r)].status}
        BY DEF CaseWritten, NetChange
      <4> QED
        BY <1>2, <4>1, <4>2 DEF TypeOK
    <3> QED
      BY <2>1, <2>2, <2>3, <3>1, <3>2 DEF CaseOf
  <2>6. CASE PersistSuccess(r) \/ PersistFailure(r)
    <3>1. pc[r] \in Investigating /\ review_case' = CaseConcluded(r)
      BY <2>6 DEF PersistSuccess, PersistFailure, Investigating
    <3>2. c # CaseOf(r) /\ review_case'[c] = review_case[c]
      BY <1>2, <3>1, ConclusionDecides
    <3> QED
      BY <1>2, <2>1, <2>2, <2>3, <3>2 DEF CaseOf
  <2>7. CASE ~(OpenRun(r) \/ DirectReview(r) \/ PersistSuccess(r) \/ PersistFailure(r))
    <3>1. review_case' = review_case /\ (Unfinished(r) => Unfinished(r)')
      BY <1>2, <2>7, OtherStepsFinishNothing DEF Progress
    <3> QED
      BY <1>2, <2>1, <2>2, <2>3, <3>1 DEF CaseOf
  <2> QED
    BY <2>4, <2>5, <2>6, <2>7
<1>3. CASE Next
  BY <1>2, <1>3 DEF Next, InvestigatingExplained
<1> QED
  BY <1>1, <1>3

(* A case stays under investigation only because of a run that the tables  *)
(* show as unfinished, for any number of concurrent requests, whatever     *)
(* fails or crashes.                                                       *)
THEOREM InvestigatingCorrect == Spec => []InvestigatingExplained
<1>1. Init => InvestigatingExplained
  BY DEF Init, InvestigatingExplained, NoCase
<1> QED
  BY <1>1, TypeInit, TypeStep, SessionInit, SessionStep, ExplainedStep, PTL DEF Spec

------------------------------------------------------------------------------
(* The trace of a run *)

(* The last step of a list that grew is the last of what it grew by. *)
LEMMA GrownTrace ==
  ASSUME NEW trace \in Seq(StepTypes), NEW rows \in Seq(StepTypes), rows # <<>>
  PROVE  /\ trace \o rows \in Seq(StepTypes) /\ trace \o rows # <<>>
         /\ Len(trace) \in Nat /\ Len(rows) \in Nat \ {0}
         /\ DOMAIN trace = 1..Len(trace) /\ DOMAIN rows = 1..Len(rows)
         /\ DOMAIN (trace \o rows) = 1..(Len(trace) + Len(rows))
         /\ Len(trace \o rows) = Len(trace) + Len(rows)
         /\ \A i \in DOMAIN trace : (trace \o rows)[i] = trace[i]
         /\ \A i \in DOMAIN rows : (trace \o rows)[Len(trace) + i] = rows[i]
         /\ \A i \in 1..(Len(trace) + Len(rows)) :
              i \in DOMAIN trace \/ \E j \in DOMAIN rows : i = Len(trace) + j
         /\ Last(trace \o rows) = Last(rows)
<1>1. /\ trace \o rows \in Seq(StepTypes) /\ Len(trace) \in Nat /\ Len(rows) \in Nat \ {0}
      /\ Len(trace \o rows) = Len(trace) + Len(rows)
      /\ DOMAIN trace = 1..Len(trace) /\ DOMAIN rows = 1..Len(rows)
      /\ DOMAIN (trace \o rows) = 1..(Len(trace) + Len(rows))
      /\ \A i \in 1..(Len(trace) + Len(rows)) :
           (trace \o rows)[i] = IF i <= Len(trace) THEN trace[i] ELSE rows[i - Len(trace)]
  BY ConcatProperties, LenProperties, EmptySeq
<1>2. \A i \in 1..(Len(trace) + Len(rows)) :
        i \in DOMAIN trace \/ (i - Len(trace) \in DOMAIN rows /\ i = Len(trace) + (i - Len(trace)))
  BY <1>1
<1>3. \A i \in DOMAIN rows : (trace \o rows)[Len(trace) + i] = rows[i]
  BY <1>1
<1>4. Last(trace \o rows) = Last(rows)
  BY <1>1, <1>3 DEF Last
<1>5. trace \o rows # <<>>
  BY <1>1
<1>6. \A i \in DOMAIN trace : (trace \o rows)[i] = trace[i]
  BY <1>1
<1>7. \A i \in 1..(Len(trace) + Len(rows)) :
        i \in DOMAIN trace \/ \E j \in DOMAIN rows : i = Len(trace) + j
  BY <1>2
<1> QED
  BY <1>1, <1>3, <1>4, <1>5, <1>6, <1>7

(* A list that grew starts as it did before. *)
LEMMA GrownPrefix ==
  ASSUME NEW trace \in Seq(StepTypes), NEW rows \in Seq(StepTypes), NEW i \in 0..Len(trace)
  PROVE  SubSeq(trace \o rows, 1, i) = SubSeq(trace, 1, i)
OBVIOUS

(* A path without a failure goes on by a step of the graph, by several     *)
(* calls of one round, or ends with a failure.                             *)
LEMMA PathGrows ==
  ASSUME NEW trace \in Seq(StepTypes), IsPath(trace),
         \A i \in DOMAIN trace : trace[i] # "infra_error",
         NEW rows \in Seq(StepTypes), rows # <<>>,
         rows[1] \in NextSteps(trace) \/ (rows[1] = "infra_error" /\ Len(rows) = 1),
         \A i \in DOMAIN rows : i > 1 => rows[i] = "TOOL_CALL" /\ rows[i - 1] = "TOOL_CALL"
  PROVE  IsPath(trace \o rows)
<1> DEFINE longer == trace \o rows
<1>1. /\ Len(trace) \in Nat /\ Len(rows) \in Nat \ {0} /\ Len(longer) = Len(trace) + Len(rows)
      /\ DOMAIN trace = 1..Len(trace) /\ DOMAIN rows = 1..Len(rows)
      /\ DOMAIN longer = 1..(Len(trace) + Len(rows))
      /\ \A i \in DOMAIN trace : longer[i] = trace[i]
      /\ \A i \in DOMAIN rows : longer[Len(trace) + i] = rows[i]
      /\ \A i \in DOMAIN longer : i \in DOMAIN trace \/ \E j \in DOMAIN rows : i = Len(trace) + j
  BY GrownTrace
<1>2. \A i \in 0..Len(trace) : SubSeq(longer, 1, i) = SubSeq(trace, 1, i)
  BY GrownPrefix
<1>3. SubSeq(trace, 1, Len(trace)) = trace
  OBVIOUS
<1> HIDE DEF longer
<1>4. ASSUME NEW i \in DOMAIN trace
      PROVE  \/ longer[i] \in NextSteps(SubSeq(longer, 1, i - 1))
             \/ longer[i] = "TOOL_CALL" /\ i > 1 /\ longer[i - 1] = "TOOL_CALL"
  <2>1. i \in 1..Len(trace) /\ i - 1 \in 0..Len(trace)
    BY <1>1
  <2>2. i > 1 => i - 1 \in DOMAIN trace
    BY <1>1, <2>1
  <2>3. SubSeq(longer, 1, i - 1) = SubSeq(trace, 1, i - 1)
    BY <1>2, <2>1
  <2> QED
    BY <1>1, <2>2, <2>3 DEF IsPath
<1>5. ASSUME NEW j \in DOMAIN rows
      PROVE  \/ longer[Len(trace) + j] \in NextSteps(SubSeq(longer, 1, Len(trace) + j - 1))
             \/ /\ longer[Len(trace) + j] = "TOOL_CALL" /\ Len(trace) + j > 1
                /\ longer[Len(trace) + j - 1] = "TOOL_CALL"
             \/ longer[Len(trace) + j] = "infra_error" /\ Len(trace) + j = Len(longer)
  <2>1. CASE j = 1
    <3>1. SubSeq(longer, 1, Len(trace) + j - 1) = trace
      BY <1>1, <1>2, <1>3, <2>1
    <3> QED
      BY <1>1, <2>1, <3>1
  <2>2. CASE j > 1
    <3>1. j - 1 \in DOMAIN rows /\ Len(trace) + j - 1 = Len(trace) + (j - 1)
      BY <1>1, <2>2
    <3> QED
      BY <1>1, <2>2, <3>1
  <2> QED
    BY <1>1, <2>1, <2>2
<1>6. IsPath(longer)
  BY <1>1, <1>4, <1>5 DEF IsPath
<1> QED
  BY <1>6 DEF longer

(* What the stream of the graph adds to the trace of a run: the next node  *)
(* of a path, which for the tools node is one row per call.                *)
Streams(r, rows) ==
  /\ rows \in Seq(StepTypes) /\ rows # <<>>
  /\ review_trace'[r] = review_trace[r] \o rows
  /\ rows[1] \in NextSteps(review_trace[r])
  /\ \A i \in DOMAIN rows : i > 1 => rows[i] = "TOOL_CALL" /\ rows[i - 1] = "TOOL_CALL"
  /\ \A i \in DOMAIN rows : rows[i] # "infra_error"

(* A list of one step. *)
LEMMA SingleRow ==
  ASSUME NEW step \in StepTypes
  PROVE  /\ <<step>> \in Seq(StepTypes) /\ <<step>> # <<>> /\ Len(<<step>>) = 1
         /\ DOMAIN <<step>> = {1} /\ <<step>>[1] = step /\ Last(<<step>>) = step
BY DEF Last

(* A step of the graph is streamed by a row of its own. *)
LEMMA OneRowStreams ==
  ASSUME NEW r \in Requests, NEW step \in StepTypes \ {"infra_error"},
         step \in NextSteps(review_trace[r]),
         review_trace'[r] = review_trace[r] \o <<step>>
  PROVE  Streams(r, <<step>>)
<1>1. /\ <<step>> \in Seq(StepTypes) /\ <<step>> # <<>>
      /\ DOMAIN <<step>> = {1} /\ <<step>>[1] = step
  BY SingleRow
<1> DEFINE rows == <<step>>
<1> HIDE DEF rows
<1>2. /\ rows \in Seq(StepTypes) /\ rows # <<>> /\ DOMAIN rows = {1} /\ rows[1] = step
      /\ review_trace'[r] = review_trace[r] \o rows
  BY <1>1 DEF rows
<1>3. \A i \in DOMAIN rows : i = 1
  BY <1>2
<1>4. \A i \in DOMAIN rows : i > 1 => rows[i] = "TOOL_CALL" /\ rows[i - 1] = "TOOL_CALL"
  BY <1>3
<1>5. \A i \in DOMAIN rows : rows[i] # "infra_error"
  BY <1>2, <1>3
<1> QED
  BY <1>2, <1>4, <1>5 DEF Streams, rows

(* An update of a model node streams that node. *)
LEMMA NodeStreams ==
  ASSUME TypeOK, NEW r \in Requests, StreamNode(r)
  PROVE  \E step \in StepTypes \ {"TOOL_CALL", "DECIDE", "infra_error"} :
           /\ Streams(r, <<step>>)
           /\ PublishEvidence(r, IF step = "HYPOTHESIZE" THEN RuleMeasurement(r) ELSE {})
<1> USE DEF TypeOK
<1>1. PICK step \in NextSteps(review_trace[r]) \ {"TOOL_CALL", "DECIDE"} :
        /\ review_trace' = [review_trace EXCEPT ![r] = Append(@, step)]
        /\ PublishEvidence(r, IF step = "HYPOTHESIZE" THEN RuleMeasurement(r) ELSE {})
  BY DEF StreamNode
<1>2. step \in StepTypes \ {"infra_error"}
  BY StepsTyped
<1>3. review_trace'[r] = review_trace[r] \o <<step>>
  BY <1>1, <1>2, AppendIsConcat
<1>4. Streams(r, <<step>>)
  BY <1>1, <1>2, <1>3, OneRowStreams
<1> QED
  BY <1>1, <1>2, <1>4

(* An update of the tools node streams its calls. *)
LEMMA ToolsStream ==
  ASSUME TypeOK, NEW r \in Requests, StreamTools(r)
  PROVE  \E rows \in Seq(StepTypes), found \in SUBSET Findings :
           /\ Streams(r, rows)
           /\ \A i \in DOMAIN rows : rows[i] = "TOOL_CALL"
           /\ PublishEvidence(r, found)
<1> USE DEF TypeOK
<1>1. PICK calls \in 1..MaxRoundCalls, found \in SUBSET Findings :
        /\ review_trace' = [review_trace EXCEPT ![r] = @ \o [i \in 1..calls |-> "TOOL_CALL"]]
        /\ PublishEvidence(r, found)
  BY DEF StreamTools
<1>2. calls \in Nat \ {0} /\ "TOOL_CALL" \in StepTypes
  BY BoundsAssumption DEF StepTypes
<1> DEFINE rows == [i \in 1..calls |-> "TOOL_CALL"]
<1>3. rows \in Seq(StepTypes) /\ DOMAIN rows = 1..calls /\ \A i \in DOMAIN rows : rows[i] = "TOOL_CALL"
  BY <1>2
<1>4. review_trace'[r] = review_trace[r] \o rows
  BY <1>1
<1>5. "TOOL_CALL" \in NextSteps(review_trace[r])
  BY DEF StreamTools
<1> HIDE DEF rows
<1>6. 1 \in DOMAIN rows /\ rows # <<>> /\ \A i \in DOMAIN rows : i > 1 => i - 1 \in DOMAIN rows
  BY <1>2, <1>3
<1>7. Streams(r, rows)
  BY <1>3, <1>4, <1>5, <1>6 DEF Streams
<1> QED
  BY <1>1, <1>3, <1>7

(* The last update streams the decision. *)
LEMMA DecideStreams ==
  ASSUME TypeOK, NEW r \in Requests, StreamDecide(r)
  PROVE  /\ Streams(r, <<"DECIDE">>)
         /\ \E verdict \in Decisions :
              decision'[r] = [ verdict |-> verdict,
                               evidence |-> graph_evidence[r]
                                 \cup (IF verdict = "REJECT" THEN {"CITATION"} ELSE {}) ]
<1> USE DEF TypeOK
<1>1. "DECIDE" \in StepTypes
  BY DEF StepTypes
<1>2. review_trace'[r] = review_trace[r] \o <<"DECIDE">>
  <2>1. review_trace'[r] = Append(review_trace[r], "DECIDE")
    BY DEF StreamDecide
  <2> QED
    BY <1>1, <2>1, AppendIsConcat
<1>3. Streams(r, <<"DECIDE">>)
  BY <1>1, <1>2, OneRowStreams DEF StreamDecide
<1>4. PICK verdict \in Decisions :
        decision' = [decision EXCEPT ![r] =
          [ verdict |-> verdict,
            evidence |-> graph_evidence[r]
                           \cup (IF verdict = "REJECT" THEN {"CITATION"} ELSE {}) ]]
  BY DEF StreamDecide
<1>5. decision'[r] = [ verdict |-> verdict,
                       evidence |-> graph_evidence[r]
                         \cup (IF verdict = "REJECT" THEN {"CITATION"} ELSE {}) ]
  BY <1>4
<1> QED
  BY <1>3, <1>5

(* What was traced stays traced, what is streamed is traced too, and the   *)
(* trace stays a path.                                                     *)
LEMMA StreamTraces ==
  ASSUME TypeOK, NEW r \in Requests, NEW rows, Streams(r, rows)
  PROVE  /\ \A step : Traced(r, step)' <=> Traced(r, step) \/ \E i \in DOMAIN rows : rows[i] = step
         /\ ~Traced(r, "infra_error") /\ IsPath(review_trace[r]) => IsPath(review_trace'[r])
         /\ review_trace'[r] # <<>> /\ Last(review_trace'[r]) = Last(rows)
<1>1. review_trace[r] \in Seq(StepTypes) /\ rows \in Seq(StepTypes) /\ rows # <<>>
      /\ review_trace'[r] = review_trace[r] \o rows
  BY DEF TypeOK, Streams
<1>2. ASSUME NEW step
      PROVE  Traced(r, step)' <=> Traced(r, step) \/ \E i \in DOMAIN rows : rows[i] = step
  <2> DEFINE trace == review_trace[r]
             longer == trace \o rows
  <2>1. /\ Len(trace) \in Nat /\ Len(rows) \in Nat
        /\ DOMAIN trace = 1..Len(trace) /\ DOMAIN rows = 1..Len(rows)
        /\ DOMAIN longer = 1..(Len(trace) + Len(rows))
        /\ \A i \in DOMAIN trace : longer[i] = trace[i]
        /\ \A i \in DOMAIN rows : longer[Len(trace) + i] = rows[i]
        /\ \A i \in DOMAIN longer : i \in DOMAIN trace \/ \E j \in DOMAIN rows : i = Len(trace) + j
    BY <1>1, GrownTrace
  <2>2. review_trace'[r] = longer
    BY <1>1
  <2> HIDE DEF trace, longer
  <2>3. \A i \in DOMAIN trace : i \in DOMAIN longer
    BY <2>1
  <2>4. \A i \in DOMAIN rows : Len(trace) + i \in DOMAIN longer
    BY <2>1
  <2>5. (\E i \in DOMAIN longer : longer[i] = step)
          <=> (\E i \in DOMAIN trace : trace[i] = step) \/ \E i \in DOMAIN rows : rows[i] = step
    BY <2>1, <2>3, <2>4
  <2> QED
    BY <2>2, <2>5 DEF Traced, trace
<1>3. ~Traced(r, "infra_error") /\ IsPath(review_trace[r]) => IsPath(review_trace'[r])
  BY <1>1, PathGrows DEF Streams, Traced
<1>4. review_trace'[r] # <<>> /\ Last(review_trace'[r]) = Last(rows)
  <2> DEFINE trace == review_trace[r]
  <2>1. trace \o rows # <<>> /\ Last(trace \o rows) = Last(rows)
    BY <1>1, GrownTrace
  <2> QED
    BY <1>1, <2>1
<1> QED
  BY <1>2, <1>3, <1>4

------------------------------------------------------------------------------
(* What is known of a run by its phase *)

(* TraceIsPath and EvidenceComplete of one run. *)
PathKnown(r) ==
  /\ IsPath(review_trace[r])
  /\ review_trace[r] # <<>> => review_run[r].trigger = "INITIAL"
  /\ Traced(r, "infra_error") => review_run[r].status = "RUNNING"

EvidenceKnown(r) ==
  /\ Unfinished(r) => review_evidence[r] \subseteq {"RULE_HIT"}
  /\ review_run[r].trigger = "INITIAL" /\ ~Unfinished(r) =>
       /\ review_evidence[r] = EvidenceDue(r)
       /\ Traced(r, "HYPOTHESIZE") => RuleMeasurement(r) \subseteq review_evidence[r]
       /\ review_evidence[r] \cap Findings # {} => Traced(r, "TOOL_CALL")

(* The consumer of the stream has observed what the graph holds, and the   *)
(* trace it has written explains it.                                       *)
ObservedKnown(r) ==
  /\ latest_evidence[r] = graph_evidence[r]
  /\ graph_evidence[r] \subseteq {"MEASUREMENT"} \cup Findings
  /\ Traced(r, "HYPOTHESIZE") => RuleMeasurement(r) \subseteq graph_evidence[r]
  /\ graph_evidence[r] \cap Findings # {} => Traced(r, "TOOL_CALL")

(* A run has no rows before it is opened and none but its rule hits until  *)
(* it is concluded; meanwhile its session has observed what the graph      *)
(* holds, and the decision of the final state has that evidence.           *)
RunKnown(r) ==
  /\ pc[r] \in Before \cup {"opened"} => review_evidence[r] = {}
  /\ pc[r] \in Before \cup {"opened", "assembling"} =>
       review_trace[r] = <<>> /\ graph_evidence[r] = {} /\ latest_evidence[r] = {}
  /\ pc[r] \in Investigating \ {"opened"} => review_evidence[r] = {"RULE_HIT"}
  /\ pc[r] \in Investigating => review_run[r].trigger = "INITIAL" /\ ObservedKnown(r)
  /\ pc[r] = "streaming" /\ Streamed(r) =>
       decision[r].evidence = graph_evidence[r]
         \cup (IF decision[r].verdict = "REJECT" THEN {"CITATION"} ELSE {})
  /\ PathKnown(r)
  /\ EvidenceKnown(r)

RunInv == \A r \in Requests : RunKnown(r)

(* RunInv holds initially. *)
LEMMA RunInit == Init => RunInv
<1> SUFFICES ASSUME Init, NEW r \in Requests PROVE RunKnown(r)
  BY DEF RunInv
<1>1. /\ pc[r] = "idle" /\ review_evidence[r] = {} /\ review_trace[r] = <<>>
      /\ graph_evidence[r] = {} /\ latest_evidence[r] = {} /\ review_run[r] = NoRun
  BY DEF Init
<1>2. PathKnown(r)
  BY <1>1 DEF PathKnown, IsPath, Traced
<1>3. EvidenceKnown(r)
  BY <1>1 DEF EvidenceKnown, Unfinished, NoRun
<1> QED
  BY <1>1, <1>2, <1>3 DEF RunKnown, Before, Investigating

(* What is known of a run depends on nothing but its own rows, its session *)
(* and its phase.                                                          *)
LEMMA RunKnownLocal ==
  ASSUME NEW r \in Requests, RunKnown(r),
         review_run'[r] = review_run[r], review_trace'[r] = review_trace[r],
         review_evidence'[r] = review_evidence[r], latest_evidence'[r] = latest_evidence[r],
         graph_evidence'[r] = graph_evidence[r],
         decision'[r] = decision[r], submitted' = submitted,
         pc'[r] = pc[r] \/ pc'[r] \in Ended
  PROVE  RunKnown(r)'
<1>1. RuleMeasurement(r)' = RuleMeasurement(r)
  BY DEF RuleMeasurement, ContentOf
<1>2. PathKnown(r)' /\ EvidenceKnown(r)'
  BY <1>1 DEF RunKnown, PathKnown, IsPath, EvidenceKnown, EvidenceDue, Unfinished, Traced
<1>3. CASE pc'[r] = pc[r]
  BY <1>1, <1>2, <1>3 DEF RunKnown, ObservedKnown, Traced, Streamed
<1>4. CASE pc'[r] \in Ended
  BY <1>2, <1>4 DEF RunKnown, Before, Investigating, Ended
<1> QED
  BY <1>3, <1>4

(* A run decided by the rules has no trace. *)
LEMMA RunDirect ==
  ASSUME TypeOK, SessionInv, NEW r \in Requests, RunKnown(r), DirectReview(r)
  PROVE  RunKnown(r)'
<1>1. /\ pc'[r] = "ok" /\ review_trace'[r] = <<>>
      /\ review_run'[r] = [status |-> "DECIDED", trigger |-> "SCREENING_DIRECT"]
  BY DEF TypeOK, SessionInv, DirectReview
<1>2. PathKnown(r)'
  BY <1>1 DEF PathKnown, IsPath, Traced
<1>3. EvidenceKnown(r)'
  BY <1>1 DEF EvidenceKnown, Unfinished
<1> QED
  BY <1>1, <1>2, <1>3 DEF RunKnown, Before, Investigating

(* A run that is opened has no evidence yet. *)
LEMMA RunOpened ==
  ASSUME TypeOK, SessionInv, NEW r \in Requests, RunKnown(r), OpenRun(r)
  PROVE  RunKnown(r)'
<1>1. /\ pc[r] \in Before /\ pc'[r] = "opened" /\ review_trace'[r] = <<>>
      /\ review_run'[r] = [status |-> "RUNNING", trigger |-> "INITIAL"]
      /\ UNCHANGED <<review_evidence, graph_evidence, latest_evidence>>
  BY DEF TypeOK, SessionInv, OpenRun, Before
<1>2. review_evidence'[r] = {} /\ graph_evidence'[r] = {} /\ latest_evidence'[r] = {}
  BY <1>1 DEF RunKnown
<1>3. PathKnown(r)'
  BY <1>1 DEF PathKnown, IsPath, Traced
<1>4. EvidenceKnown(r)'
  BY <1>1, <1>2 DEF EvidenceKnown, Unfinished, Traced
<1>5. ObservedKnown(r)'
  BY <1>1, <1>2 DEF ObservedKnown, Traced
<1> QED
  BY <1>1, <1>2, <1>3, <1>4, <1>5 DEF RunKnown, Before, Investigating

(* The rule hits are the only evidence of a run before the stream starts. *)
LEMMA RunHits ==
  ASSUME TypeOK, SessionInv, NEW r \in Requests, RunKnown(r), PersistExtraEvidence(r)
  PROVE  RunKnown(r)'
<1>1. /\ pc[r] = "opened" /\ pc'[r] = "assembling"
      /\ review_evidence'[r] = review_evidence[r] \cup {"RULE_HIT"}
      /\ UNCHANGED <<review_run, review_trace, graph_evidence, latest_evidence, submitted>>
  BY DEF TypeOK, PersistExtraEvidence, session
<1>2. /\ review_evidence'[r] = {"RULE_HIT"} /\ review_trace[r] = <<>>
      /\ graph_evidence[r] = {} /\ latest_evidence[r] = {}
  BY <1>1 DEF RunKnown
<1>3. Unfinished(r)' /\ review_run[r].trigger = "INITIAL"
  BY <1>1 DEF SessionInv, RunKnown, Unfinished, Traced, Investigating
<1>4. PathKnown(r)' /\ ObservedKnown(r)'
  BY <1>1, <1>2, <1>3 DEF PathKnown, IsPath, ObservedKnown, Traced
<1>5. EvidenceKnown(r)'
  BY <1>2, <1>3 DEF EvidenceKnown
<1> QED
  BY <1>1, <1>2, <1>3, <1>4, <1>5 DEF RunKnown, Before, Investigating

(* Assembling the graph and a raising graph write no row. *)
LEMMA RunSilent ==
  ASSUME TypeOK, NEW r \in Requests, RunKnown(r), AssembleGraph(r) \/ StreamFailed(r)
  PROVE  RunKnown(r)'
<1>1. /\ pc[r] \in Investigating \ {"opened"} /\ pc'[r] \in {"streaming", "failing"}
      /\ pc'[r] = "streaming" => review_trace[r] = <<>>
      /\ UNCHANGED <<review_run, review_trace, review_evidence, graph_evidence,
                     latest_evidence, decision, submitted>>
  BY DEF TypeOK, AssembleGraph, StreamFailed, tables, session, Investigating, RunKnown
<1>2. RuleMeasurement(r)' = RuleMeasurement(r)
  BY <1>1 DEF RuleMeasurement, ContentOf
<1>3. PathKnown(r)' /\ EvidenceKnown(r)'
  BY <1>1, <1>2 DEF RunKnown, PathKnown, IsPath, EvidenceKnown, EvidenceDue, Unfinished, Traced
<1>4. ObservedKnown(r)' /\ review_run'[r].trigger = "INITIAL" /\ review_evidence'[r] = {"RULE_HIT"}
  BY <1>1, <1>2 DEF RunKnown, ObservedKnown, Traced, Investigating
<1>5. pc'[r] = "streaming" => ~Streamed(r)'
  BY <1>1 DEF Streamed
<1> QED
  BY <1>1, <1>3, <1>4, <1>5 DEF RunKnown, Before, Investigating

(* A step of the stream that records, with its rows, the evidence they     *)
(* explain.                                                                *)
LEMMA RunStreams ==
  ASSUME TypeOK, SessionInv, SessionInv', NEW r \in Requests, RunKnown(r),
         pc[r] = "streaming", pc'[r] = "streaming",
         NEW rows, Streams(r, rows),
         review_run' = review_run, review_evidence' = review_evidence, submitted' = submitted,
         NEW update \in SUBSET ({"MEASUREMENT"} \cup Findings), PublishEvidence(r, update),
         (\E i \in DOMAIN rows : rows[i] = "HYPOTHESIZE") => RuleMeasurement(r) \subseteq update,
         update \cap Findings # {} => \E i \in DOMAIN rows : rows[i] = "TOOL_CALL",
         Last(rows) = "DECIDE" =>
           decision'[r].evidence = graph_evidence'[r]
             \cup (IF decision'[r].verdict = "REJECT" THEN {"CITATION"} ELSE {})
  PROVE  RunKnown(r)'
<1>1. Unfinished(r) /\ Unfinished(r)' /\ review_run[r].trigger = "INITIAL"
      /\ review_evidence[r] = {"RULE_HIT"} /\ ObservedKnown(r) /\ IsPath(review_trace[r])
  BY DEF SessionInv, RunKnown, Investigating, PathKnown
<1>2. RuleMeasurement(r)' = RuleMeasurement(r)
  BY DEF RuleMeasurement, ContentOf
<1>3. /\ \A step : Traced(r, step)' <=> Traced(r, step) \/ \E i \in DOMAIN rows : rows[i] = step
      /\ IsPath(review_trace'[r]) /\ Last(review_trace'[r]) = Last(rows)
  BY <1>1, StreamTraces DEF Unfinished
<1>4. PathKnown(r)'
  BY <1>1, <1>3 DEF PathKnown, IsPath, Unfinished
<1>5. EvidenceKnown(r)'
  BY <1>1 DEF EvidenceKnown
<1>6. ObservedKnown(r)'
  <2>1. /\ graph_evidence'[r] = graph_evidence[r] \cup update
        /\ latest_evidence'[r] = latest_evidence[r] \cup update
    BY DEF TypeOK, PublishEvidence, ObservedEvidence
  <2> QED
    BY <1>1, <1>2, <1>3, <2>1 DEF ObservedKnown
<1> QED
  BY <1>1, <1>3, <1>4, <1>5, <1>6 DEF RunKnown, Before, Investigating, Streamed

(* The three kinds of updates of the stream. *)
LEMMA RunStreamed ==
  ASSUME TypeOK, SessionInv, SessionInv', NEW r \in Requests, RunKnown(r),
         StreamNode(r) \/ StreamTools(r) \/ StreamDecide(r)
  PROVE  RunKnown(r)'
<1>1. CASE StreamNode(r)
  <2>1. PICK step \in StepTypes \ {"TOOL_CALL", "DECIDE", "infra_error"} :
          /\ Streams(r, <<step>>)
          /\ PublishEvidence(r, IF step = "HYPOTHESIZE" THEN RuleMeasurement(r) ELSE {})
    BY <1>1, NodeStreams
  <2> DEFINE rows == <<step>>
             update == IF step = "HYPOTHESIZE" THEN RuleMeasurement(r) ELSE {}
  <2>2. DOMAIN rows = {1} /\ rows[1] = step /\ Last(rows) = step
    BY SingleRow
  <2>3. /\ update \in SUBSET ({"MEASUREMENT"} \cup Findings) /\ update \cap Findings = {}
        /\ PublishEvidence(r, update)
        /\ step = "HYPOTHESIZE" => RuleMeasurement(r) \subseteq update
    BY <2>1, FindingsAssumption DEF RuleMeasurement
  <2>4. /\ pc[r] = "streaming" /\ pc'[r] = "streaming"
        /\ UNCHANGED <<review_run, review_evidence, submitted>>
    BY <1>1 DEF StreamNode
  <2>5. Streams(r, rows)
    BY <2>1
  <2> HIDE DEF rows, update
  <2> QED
    BY <2>2, <2>3, <2>4, <2>5, RunStreams
<1>2. CASE StreamTools(r)
  <2>1. PICK rows \in Seq(StepTypes), found \in SUBSET Findings :
          /\ Streams(r, rows)
          /\ \A i \in DOMAIN rows : rows[i] = "TOOL_CALL"
          /\ PublishEvidence(r, found)
    BY <1>2, ToolsStream
  <2>2. Len(rows) \in DOMAIN rows /\ Last(rows) = "TOOL_CALL"
    <3>1. Len(rows) \in DOMAIN rows
      BY <2>1 DEF Streams
    <3> QED
      BY <2>1, <3>1 DEF Last
  <2>3. found \in SUBSET ({"MEASUREMENT"} \cup Findings)
    OBVIOUS
  <2>4. /\ pc[r] = "streaming" /\ pc'[r] = "streaming"
        /\ UNCHANGED <<review_run, review_evidence, submitted>>
    BY <1>2 DEF StreamTools
  <2> QED
    BY <2>1, <2>2, <2>3, <2>4, RunStreams
<1>3. CASE StreamDecide(r)
  <2> DEFINE rows == <<"DECIDE">>
  <2>1. Streams(r, rows) /\ DOMAIN rows = {1} /\ rows[1] = "DECIDE"
    BY <1>3, DecideStreams
  <2>2. /\ pc[r] = "streaming" /\ pc'[r] = "streaming" 
        /\ UNCHANGED <<review_run, review_evidence, graph_evidence, latest_evidence, submitted>>
    BY <1>3 DEF StreamDecide
  <2>3. PICK verdict \in Decisions :
          decision'[r] = [ verdict |-> verdict,
                           evidence |-> graph_evidence[r]
                             \cup (IF verdict = "REJECT" THEN {"CITATION"} ELSE {}) ]
    BY <1>3, DecideStreams
  <2>4. decision'[r].evidence = graph_evidence'[r]
          \cup (IF decision'[r].verdict = "REJECT" THEN {"CITATION"} ELSE {})
    BY <2>2, <2>3
  <2> DEFINE update == {}
  <2>5. /\ update \in SUBSET ({"MEASUREMENT"} \cup Findings) /\ update \cap Findings = {}
        /\ PublishEvidence(r, update)
    BY <2>2 DEF TypeOK, PublishEvidence, ObservedEvidence
  <2> HIDE DEF rows, update
  <2>6. ~\E i \in DOMAIN rows : rows[i] = "HYPOTHESIZE"
    BY <2>1
  <2> QED
    BY <2>1, <2>2, <2>4, <2>5, <2>6, RunStreams
<1> QED
  BY <1>1, <1>2, <1>3

(* The rows of a run the graph has decided are complete. *)
LEMMA RunSucceeds ==
  ASSUME TypeOK, SessionInv, NEW r \in Requests, RunKnown(r), PersistSuccess(r)
  PROVE  RunKnown(r)'
<1>1. /\ pc[r] = "streaming" /\ pc'[r] = "ok" /\ Streamed(r)
      /\ review_evidence'[r] = review_evidence[r] \cup decision[r].evidence
      /\ UNCHANGED <<review_trace, graph_evidence, decision, submitted>>
  BY DEF TypeOK, PersistSuccess, session
<1>2. review_run'[r].status = "DECIDED" /\ review_run'[r].trigger = review_run[r].trigger
  <2>1. review_run'[r] = [review_run[r] EXCEPT !.status = "DECIDED"]
    BY DEF TypeOK, PersistSuccess
  <2>2. DOMAIN review_run[r] = {"status", "trigger"}
    BY DEF TypeOK, RunRow
  <2> QED
    BY <2>1, <2>2
<1>3. /\ review_evidence[r] = {"RULE_HIT"} /\ review_run[r].trigger = "INITIAL"
      /\ ObservedKnown(r)
      /\ decision[r].evidence = graph_evidence[r]
           \cup (IF decision[r].verdict = "REJECT" THEN {"CITATION"} ELSE {})
  BY <1>1 DEF RunKnown, Investigating
<1>4. ~Traced(r, "infra_error") /\ IsPath(review_trace[r])
  BY <1>1 DEF SessionInv, Unfinished, RunKnown, PathKnown
<1>5. RuleMeasurement(r)' = RuleMeasurement(r)
  BY <1>1 DEF RuleMeasurement, ContentOf
<1>6. PathKnown(r)'
  BY <1>1, <1>2, <1>3, <1>4 DEF PathKnown, IsPath, Traced
<1>7. EvidenceKnown(r)'
  <2>1. review_evidence'[r] = EvidenceDue(r)'
    BY <1>1, <1>2, <1>3 DEF EvidenceDue
  <2>2. review_evidence'[r] \cap Findings = graph_evidence[r] \cap Findings
    BY <1>1, <1>3, FindingsAssumption
  <2>3. ~Unfinished(r)' /\ \A step : Traced(r, step)' <=> Traced(r, step)
    BY <1>1, <1>2 DEF Unfinished, Traced
  <2>4. Traced(r, "HYPOTHESIZE") => RuleMeasurement(r)' \subseteq review_evidence'[r]
    BY <1>1, <1>3, <1>5 DEF ObservedKnown
  <2> QED
    BY <1>3, <2>1, <2>2, <2>3, <2>4 DEF EvidenceKnown, ObservedKnown
<1> QED
  BY <1>1, <1>6, <1>7 DEF RunKnown, Before, Investigating

(* The rows of a run that failed are complete as well, and its trace ends  *)
(* with the failure.                                                       *)
LEMMA RunFails ==
  ASSUME TypeOK, SessionInv, NEW r \in Requests, RunKnown(r), PersistFailure(r)
  PROVE  /\ RunKnown(r)'
         /\ review_run'[r].status = "RUNNING" /\ Last(review_trace'[r]) = "infra_error"
<1> DEFINE trace == review_trace[r]
           rows == <<"infra_error">>
<1>1. /\ pc[r] = "failing" /\ pc'[r] = "error" /\ trace \in Seq(StepTypes)
      /\ review_evidence'[r] = review_evidence[r] \cup latest_evidence[r]
      /\ review_trace'[r] = Append(trace, "infra_error")
      /\ UNCHANGED <<review_run, graph_evidence, submitted>>
  BY DEF TypeOK, PersistFailure, RunAfterFailure, session
<1>2. /\ review_evidence[r] = {"RULE_HIT"} /\ review_run[r].trigger = "INITIAL"
      /\ ObservedKnown(r) /\ IsPath(trace)
      /\ review_run[r].status = "RUNNING" /\ \A i \in DOMAIN trace : trace[i] # "infra_error"
  BY <1>1 DEF RunKnown, PathKnown, Investigating, SessionInv, Unfinished, Traced
<1>3. "infra_error" \in StepTypes
  BY DEF StepTypes
<1>4. /\ rows \in Seq(StepTypes) /\ rows # <<>> /\ Len(rows) = 1 /\ DOMAIN rows = {1}
      /\ rows[1] = "infra_error" /\ Last(rows) = "infra_error"
  BY <1>3, SingleRow
<1>5. review_trace'[r] = trace \o rows
  BY <1>1, <1>3, AppendIsConcat
<1> HIDE DEF rows, trace
<1>6. IsPath(trace \o rows)
  <2>1. \A i \in DOMAIN rows : i > 1 => rows[i] = "TOOL_CALL" /\ rows[i - 1] = "TOOL_CALL"
    BY <1>4
  <2> QED
    BY <1>1, <1>2, <1>4, <2>1, PathGrows
<1>7. /\ Last(trace \o rows) = "infra_error"
      /\ Len(trace) + 1 \in DOMAIN (trace \o rows) /\ (trace \o rows)[Len(trace) + 1] = "infra_error"
      /\ \A i \in DOMAIN trace : i \in DOMAIN (trace \o rows) /\ (trace \o rows)[i] = trace[i]
      /\ \A i \in DOMAIN (trace \o rows) : i \in DOMAIN trace \/ (trace \o rows)[i] = "infra_error"
  <2>1. /\ Len(trace) \in Nat /\ DOMAIN trace = 1..Len(trace)
        /\ DOMAIN (trace \o rows) = 1..(Len(trace) + 1)
        /\ \A i \in DOMAIN trace : (trace \o rows)[i] = trace[i]
        /\ (trace \o rows)[Len(trace) + 1] = "infra_error"
        /\ Last(trace \o rows) = "infra_error"
    BY <1>1, <1>4, GrownTrace
  <2>2. \A i \in 1..(Len(trace) + 1) : i \in 1..Len(trace) \/ i = Len(trace) + 1
    BY <2>1
  <2> QED
    <3>1. Len(trace) + 1 \in DOMAIN (trace \o rows)
      BY <2>1
    <3>2. \A i \in DOMAIN trace : i \in DOMAIN (trace \o rows)
      BY <2>1
    <3>3. \A i \in DOMAIN (trace \o rows) : i \in DOMAIN trace \/ i = Len(trace) + 1
      BY <2>1, <2>2
    <3> QED
      BY <2>1, <3>1, <3>2, <3>3
<1>8. /\ Traced(r, "infra_error")'
      /\ \A step : step # "infra_error" => (Traced(r, step)' <=> Traced(r, step))
  BY <1>5, <1>7 DEF Traced, trace
<1>9. RuleMeasurement(r)' = RuleMeasurement(r)
  BY <1>1 DEF RuleMeasurement, ContentOf
<1>10. PathKnown(r)'
  BY <1>1, <1>2, <1>5, <1>6 DEF PathKnown
<1>11. EvidenceKnown(r)'
  <2>1. review_evidence'[r] = {"RULE_HIT"} \cup graph_evidence[r]
    BY <1>1, <1>2 DEF ObservedKnown
  <2>2. review_evidence'[r] = EvidenceDue(r)'
    BY <1>1, <1>2, <2>1 DEF EvidenceDue
  <2>3. review_evidence'[r] \cap Findings = graph_evidence[r] \cap Findings
    BY <2>1, FindingsAssumption
  <2> QED
    BY <1>2, <1>8, <1>9, <2>1, <2>2, <2>3 DEF EvidenceKnown, ObservedKnown, Unfinished
<1>12. RunKnown(r)'
  BY <1>1, <1>10, <1>11 DEF RunKnown, Before, Investigating
<1> QED
  BY <1>1, <1>2, <1>5, <1>7, <1>12

(* Receiving a request writes nothing. *)
LEMMA RunReceived ==
  ASSUME TypeOK, NEW r \in Requests, RunKnown(r), Receive(r)
  PROVE  RunKnown(r)'
<1>1. /\ pc[r] = "idle" /\ pc'[r] \in {"opening", "directing"}
      /\ UNCHANGED <<review_run, review_trace, review_evidence, graph_evidence,
                     latest_evidence, decision, submitted>>
  BY DEF TypeOK, Receive, tables
<1>2. /\ review_trace'[r] = <<>> /\ review_evidence'[r] = {}
      /\ graph_evidence'[r] = {} /\ latest_evidence'[r] = {}
  BY <1>1 DEF RunKnown, Before
<1>3. RuleMeasurement(r)' = RuleMeasurement(r)
  BY <1>1 DEF RuleMeasurement, ContentOf
<1>4. PathKnown(r)' /\ EvidenceKnown(r)'
  BY <1>1, <1>3 DEF RunKnown, PathKnown, IsPath, EvidenceKnown, EvidenceDue, Unfinished, Traced
<1> QED
  BY <1>1, <1>2, <1>4 DEF RunKnown, Before, Investigating

(* Every step keeps RunInv. *)
LEMMA RunStep == TypeOK /\ SessionInv /\ SessionInv' /\ RunInv /\ [Next]_vars => RunInv'
<1> SUFFICES ASSUME TypeOK, SessionInv, SessionInv', RunInv, [Next]_vars PROVE RunInv'
  OBVIOUS
<1>1. CASE UNCHANGED vars
  BY <1>1, RunKnownLocal DEF vars, tables, session, RunInv
<1>2. ASSUME NEW r \in Requests, Progress(r) \/ SessionFailed(r) \/ Crash(r), NEW q \in Requests
      PROVE  RunKnown(q)'
  <2>0. RunKnown(q) /\ RunKnown(r)
    BY DEF RunInv
  <2>1. CASE q # r
    BY <1>2, <2>0, <2>1, OthersUntouched, RunKnownLocal
  <2>2. CASE AssemblyFailed(r) \/ DuplicateRejected(r) \/ SessionFailed(r) \/ Crash(r)
    <3>1. /\ pc'[r] \in Ended
          /\ UNCHANGED <<review_run, review_trace, review_evidence, graph_evidence,
                         latest_evidence, decision, submitted>>
      BY <2>2 DEF TypeOK, AssemblyFailed, DuplicateRejected, SessionFailed, Crash, tables, session,
         Ended
    <3>2. RunKnown(r)'
      BY <2>0, <3>1, RunKnownLocal
    <3> QED
      BY <2>1, <3>2
  <2>3. ASSUME Progress(r), ~(AssemblyFailed(r) \/ DuplicateRejected(r)) PROVE RunKnown(r)'
    BY <2>0, <2>3, RunReceived, RunDirect, RunOpened, RunHits, RunSilent, RunStreamed,
       RunSucceeds, RunFails DEF Progress
  <2> QED
    BY <1>2, <2>1, <2>2, <2>3
<1> QED
  BY <1>1, <1>2 DEF Next, RunInv

(* The four invariants of the sessions hold together. *)
LEMMA RunInvariant == Spec => [](TypeOK /\ SessionInv /\ RunInv)
BY TypeInit, TypeStep, SessionInit, SessionStep, RunInit, RunStep, PTL DEF Spec

(* The trace of every run is a path of the graph, also when commits fail   *)
(* and processes die: a failure is traced at its end or not at all, and no *)
(* run is both decided and traced as failed.                               *)
THEOREM TraceCorrect == Spec => []TraceIsPath
<1>1. RunInv => TraceIsPath
  BY DEF RunInv, RunKnown, PathKnown, TraceIsPath
<1> QED
  BY <1>1, RunInvariant, PTL

(* The evidence rows of an investigation that was concluded, by a decision *)
(* or by a failure, are the rules' hits, all the evidence its graph had    *)
(* published and the citations of a rejection, and nothing else; those of  *)
(* an unfinished run are its rule hits at most.                            *)
THEOREM EvidenceRowsCorrect == Spec => []EvidenceComplete
<1>1. RunInv => EvidenceComplete
  BY DEF RunInv, RunKnown, EvidenceKnown, EvidenceComplete
<1> QED
  BY <1>1, RunInvariant, PTL

------------------------------------------------------------------------------
(* The effective result of a case *)

(* ResultExplained of one case, and why it lasts: the run it names has     *)
(* ended, and an ended request takes no further step.                      *)
ResultKnown(c) ==
  review_result[c] # NoResult =>
    LET r == review_result[c].source
        verdict == review_result[c].decision
    IN /\ r \in Requests /\ CaseOf(r) = c /\ pc[r] \in Ended
       /\ \/ /\ review_run[r] = [status |-> "DECIDED", trigger |-> "SCREENING_DIRECT"]
             /\ verdict = TriageOf[ContentOf(r)]
          \/ /\ review_run[r] = [status |-> "DECIDED", trigger |-> "INITIAL"]
             /\ Streamed(r)
             /\ verdict = decision[r].verdict
          \/ /\ review_run[r].status = "RUNNING"
             /\ Last(review_trace[r]) = "infra_error"
             /\ verdict = "HUMAN_REVIEW"

ResultInv == \A c \in Cases : ResultKnown(c)

(* An ended request takes no step. *)
LEMMA EndedStays ==
  ASSUME NEW r \in Requests, Progress(r) \/ SessionFailed(r) \/ Crash(r)
  PROVE  pc[r] \notin Ended
BY DEF Progress, SessionFailed, Crash, Receive, DirectReview, DuplicateRejected, OpenRun,
   PersistExtraEvidence, AssembleGraph, AssemblyFailed, StreamNode, StreamTools, StreamDecide,
   StreamFailed, PersistSuccess, PersistFailure, Ended

(* A result stays explained while it stays and its run takes no step. *)
LEMMA ResultKnownLocal ==
  ASSUME TypeOK, NEW c \in Cases, ResultKnown(c), review_result'[c] = review_result[c],
         \A q \in Requests : pc[q] \in Ended =>
           /\ review_run'[q] = review_run[q] /\ review_trace'[q] = review_trace[q]
           /\ decision'[q] = decision[q] /\ pc'[q] = pc[q],
         submitted' = submitted
  PROVE  ResultKnown(c)'
BY DEF ResultKnown, CaseOf, ContentOf, Streamed

(* A concluding request answers its case: what it writes is explained by   *)
(* its run, and no other case is touched.                                  *)
LEMMA Concludes ==
  ASSUME TypeOK, SessionInv, RunInv, NEW r \in Requests,
         DirectReview(r) \/ PersistSuccess(r) \/ PersistFailure(r),
         NEW c \in Cases
  PROVE  /\ c = CaseOf(r) => ResultKnown(c)' /\ review_result'[c].source = r
         /\ c # CaseOf(r) => review_result'[c] = review_result[c] /\ review_case'[c] = review_case[c]
         /\ concluded' = Append(concluded, r)
<1>1. /\ CaseOf(r)' = CaseOf(r) /\ ContentOf(r)' = ContentOf(r) /\ CaseOf(r) \in Cases
      /\ DOMAIN review_result = Cases
  BY DEF TypeOK, CaseOf, ContentOf, DirectReview, PersistSuccess, PersistFailure
<1>2. CASE DirectReview(r)
  <2>1. /\ review_result' = UpsertResult(r, TriageOf[ContentOf(r)])
        /\ review_run'[r] = [status |-> "DECIDED", trigger |-> "SCREENING_DIRECT"]
        /\ pc'[r] \in Ended /\ concluded' = Append(concluded, r)
        /\ review_case' = [review_case EXCEPT ![CaseOf(r)] =
                             CaseWritten(r, "DECIDED", TriageOf[ContentOf(r)])]
    BY <1>2 DEF DirectReview, TypeOK, Ended
  <2>2. CASE c = CaseOf(r)
    <3>1. review_result'[c] = [source |-> r, decision |-> TriageOf[ContentOf(r)]]
      BY <1>1, <2>1, <2>2 DEF UpsertResult
    <3>2. ResultKnown(c)'
      BY <1>1, <2>1, <2>2, <3>1 DEF ResultKnown
    <3> QED
      BY <2>1, <2>2, <3>1, <3>2
  <2>3. CASE c # CaseOf(r)
    BY <2>1, <2>3 DEF TypeOK, UpsertResult
  <2> QED
    BY <2>2, <2>3
<1>3. CASE PersistSuccess(r)
  <2>1. /\ review_result' = UpsertResult(r, decision[r].verdict) /\ review_case' = CaseConcluded(r)
        /\ UNCHANGED <<review_trace, decision>> /\ Streamed(r) /\ pc[r] \in Investigating
        /\ pc'[r] \in Ended /\ concluded' = Append(concluded, r)
    BY <1>3 DEF PersistSuccess, session, TypeOK, Ended, Investigating
  <2>2. CASE c = CaseOf(r)
    <3>1. review_result'[c] = [source |-> r, decision |-> decision[r].verdict]
      BY <1>1, <2>1, <2>2 DEF UpsertResult
    <3>2. review_run'[r] = [status |-> "DECIDED", trigger |-> "INITIAL"]
      <4>1. review_run[r] \in RunRow /\ review_run[r].trigger = "INITIAL"
        BY <2>1 DEF TypeOK, RunInv, RunKnown
      <4>2. review_run'[r] = [review_run[r] EXCEPT !.status = "DECIDED"]
        BY <1>3 DEF PersistSuccess, TypeOK
      <4> QED
        BY <4>1, <4>2 DEF RunRow
    <3>3. Streamed(r)' /\ decision'[r].verdict = decision[r].verdict
      BY <2>1 DEF Streamed
    <3>4. ResultKnown(c)'
      BY <1>1, <2>1, <2>2, <3>1, <3>2, <3>3 DEF ResultKnown
    <3> QED
      BY <2>1, <2>2, <3>1, <3>4
  <2>3. CASE c # CaseOf(r)
    BY <2>1, <2>3, ConclusionDecides DEF TypeOK, UpsertResult
  <2> QED
    BY <2>2, <2>3
<1>4. CASE PersistFailure(r)
  <2>1. /\ review_result' = UpsertResult(r, "HUMAN_REVIEW") /\ review_case' = CaseConcluded(r)
        /\ pc[r] \in Investigating /\ pc'[r] \in Ended /\ concluded' = Append(concluded, r)
    BY <1>4 DEF PersistFailure, TypeOK, Ended, Investigating
  <2>2. CASE c = CaseOf(r)
    <3>1. review_result'[c] = [source |-> r, decision |-> "HUMAN_REVIEW"]
      BY <1>1, <2>1, <2>2 DEF UpsertResult
    <3>2. review_run'[r].status = "RUNNING" /\ Last(review_trace'[r]) = "infra_error"
      BY <1>4, RunFails DEF RunInv
    <3>3. ResultKnown(c)'
      BY <1>1, <2>1, <2>2, <3>1, <3>2 DEF ResultKnown
    <3> QED
      BY <2>1, <2>2, <3>1, <3>3
  <2>3. CASE c # CaseOf(r)
    BY <2>1, <2>3, ConclusionDecides DEF TypeOK, UpsertResult
  <2> QED
    BY <2>2, <2>3
<1> QED
  BY <1>2, <1>3, <1>4

(* The other steps leave results and conclusions alone and answer nobody;  *)
(* opening a run does not decide a case.                                   *)
LEMMA OtherStepsConcludeNothing ==
  ASSUME TypeOK, NEW r \in Requests, Progress(r) \/ SessionFailed(r) \/ Crash(r),
         ~(DirectReview(r) \/ PersistSuccess(r) \/ PersistFailure(r))
  PROVE  /\ review_result' = review_result /\ concluded' = concluded /\ pc'[r] # "ok"
         /\ \A c \in Cases : review_case'[c].status = "DECIDED" => review_case[c].status = "DECIDED"
<1>1. CASE OpenRun(r)
  <2>1. /\ review_result' = review_result /\ concluded' = concluded /\ pc'[r] # "ok"
        /\ review_case' = [review_case EXCEPT ![CaseOf(r)] =
                             CaseWritten(r, "INVESTIGATING", "COMPLEX")]
    BY <1>1 DEF OpenRun, TypeOK
  <2>2. CaseWritten(r, "INVESTIGATING", "COMPLEX").status
          \in {"INVESTIGATING", review_case[CaseOf(r)].status}
    BY DEF CaseWritten, NetChange
  <2> QED
    BY <2>1, <2>2 DEF TypeOK
<1>2. CASE Receive(r) \/ PersistExtraEvidence(r) \/ AssembleGraph(r) \/ StreamNode(r)
             \/ StreamTools(r) \/ StreamDecide(r) \/ StreamFailed(r)
  BY <1>2 DEF Receive, PersistExtraEvidence, AssembleGraph, StreamNode, StreamTools, StreamDecide,
     StreamFailed, tables, TypeOK
<1>3. CASE AssemblyFailed(r) \/ DuplicateRejected(r) \/ SessionFailed(r) \/ Crash(r)
  BY <1>3 DEF AssemblyFailed, DuplicateRejected, SessionFailed, Crash, tables, TypeOK
<1> QED
  BY <1>1, <1>2, <1>3 DEF Progress

(* Every step keeps ResultInv. *)
LEMMA ResultStep == TypeOK /\ SessionInv /\ RunInv /\ ResultInv /\ [Next]_vars => ResultInv'
<1> SUFFICES ASSUME TypeOK, SessionInv, RunInv, ResultInv, [Next]_vars, NEW c \in Cases
             PROVE  ResultKnown(c)'
  BY DEF ResultInv
<1>0. ResultKnown(c)
  BY DEF ResultInv
<1>1. CASE UNCHANGED vars
  BY <1>0, <1>1 DEF vars, tables, session, ResultKnown, CaseOf, ContentOf, Streamed
<1>2. ASSUME NEW r \in Requests, Progress(r) \/ SessionFailed(r) \/ Crash(r)
      PROVE  ResultKnown(c)'
  <2>1. submitted' = submitted
    BY <1>2 DEF Progress, SessionFailed, Crash, Receive, DirectReview, DuplicateRejected, OpenRun,
       PersistExtraEvidence, AssembleGraph, AssemblyFailed, StreamNode, StreamTools, StreamDecide,
       StreamFailed, PersistSuccess, PersistFailure
  <2>2. pc[r] \notin Ended
    BY <1>2, EndedStays
  <2>3. ASSUME NEW q \in Requests, pc[q] \in Ended
        PROVE  /\ review_run'[q] = review_run[q] /\ review_trace'[q] = review_trace[q]
               /\ decision'[q] = decision[q] /\ pc'[q] = pc[q]
    BY <1>2, <2>2, <2>3, OthersUntouched
  <2>4. CASE review_result'[c] = review_result[c]
    BY <1>0, <2>1, <2>3, <2>4, ResultKnownLocal
  <2>5. CASE DirectReview(r) \/ PersistSuccess(r) \/ PersistFailure(r)
    BY <2>4, <2>5, Concludes
  <2>6. CASE ~(DirectReview(r) \/ PersistSuccess(r) \/ PersistFailure(r))
    BY <1>2, <2>4, <2>6, OtherStepsConcludeNothing
  <2> QED
    BY <2>5, <2>6
<1> QED
  BY <1>1, <1>2 DEF Next

(* The result of a case follows the last conclusion of one of its runs. *)
LEMMA EffectiveStep ==
  TypeOK /\ SessionInv /\ RunInv /\ EffectiveResult /\ [Next]_vars => EffectiveResult'
<1> SUFFICES ASSUME TypeOK, SessionInv, RunInv, EffectiveResult, [Next]_vars
             PROVE  EffectiveResult'
  OBVIOUS
<1> DEFINE Effective(c) ==
             \/ /\ Conclusions(c) = {}
                /\ review_result[c] = NoResult /\ review_case[c].status # "DECIDED"
             \/ \E i \in Conclusions(c) :
                  /\ \A j \in Conclusions(c) : j <= i
                  /\ review_result[c].source = concluded[i]
           Answered(r) == pc[r] = "ok" => \E i \in DOMAIN concluded : concluded[i] = r
<1>0. (\A c \in Cases : Effective(c)) /\ \A r \in Requests : Answered(r)
  BY DEF EffectiveResult
<1>1. CASE UNCHANGED vars
  BY <1>1 DEF vars, tables, EffectiveResult, Conclusions, CaseOf
<1>2. ASSUME NEW r \in Requests, Progress(r) \/ SessionFailed(r) \/ Crash(r)
      PROVE  (\A c \in Cases : Effective(c)') /\ \A q \in Requests : Answered(q)'
  <2>1. submitted' = submitted
    BY <1>2 DEF Progress, SessionFailed, Crash, Receive, DirectReview, DuplicateRejected, OpenRun,
       PersistExtraEvidence, AssembleGraph, AssemblyFailed, StreamNode, StreamTools, StreamDecide,
       StreamFailed, PersistSuccess, PersistFailure
  <2>2. \A q \in Requests \ {r} : pc'[q] = pc[q]
    BY <1>2, OthersUntouched
  <2>3. CASE DirectReview(r) \/ PersistSuccess(r) \/ PersistFailure(r)
    <3>1. /\ concluded' = Append(concluded, r)
          /\ \A c \in Cases : c = CaseOf(r) => review_result'[c].source = r
          /\ \A c \in Cases : c # CaseOf(r) =>
               review_result'[c] = review_result[c] /\ review_case'[c] = review_case[c]
      <4>1. CaseOf(r) \in Cases
        BY DEF TypeOK, CaseOf
      <4> QED
        BY <2>3, <4>1, Concludes
    <3> DEFINE n == Len(concluded) + 1
    <3>2. /\ DOMAIN concluded = 1..(n - 1) /\ DOMAIN concluded' = 1..n /\ n \in Nat \ {0}
          /\ concluded'[n] = r /\ \A i \in 1..(n - 1) : concluded'[i] = concluded[i]
      BY <3>1 DEF TypeOK
    <3> HIDE DEF n
    <3>3. /\ \A i \in DOMAIN concluded : i \in DOMAIN concluded'
          /\ \A i \in DOMAIN concluded' : (i \in DOMAIN concluded \/ i = n) /\ i <= n
          /\ n \in DOMAIN concluded' /\ n \notin DOMAIN concluded
      BY <3>2
    <3>4. ASSUME NEW c \in Cases PROVE Effective(c)'
      <4>1. CASE c = CaseOf(r)
        <5>1. n \in Conclusions(c)'
          BY <2>1, <3>2, <3>3, <4>1 DEF Conclusions, CaseOf
        <5>2. \A j \in Conclusions(c)' : j <= n
          BY <3>3 DEF Conclusions
        <5> QED
          BY <3>1, <3>2, <4>1, <5>1, <5>2
      <4>2. CASE c # CaseOf(r)
        <5>1. Conclusions(c)' = Conclusions(c)
          BY <2>1, <3>2, <3>3, <4>2 DEF Conclusions, CaseOf
        <5>2. \A i \in Conclusions(c) : concluded'[i] = concluded[i]
          BY <3>2 DEF Conclusions
        <5>3. review_result'[c] = review_result[c] /\ review_case'[c] = review_case[c]
          BY <3>1, <4>2
        <5> QED
          BY <1>0, <5>1, <5>2, <5>3
      <4> QED
        BY <4>1, <4>2
    <3>5. \A q \in Requests : Answered(q)'
      BY <1>0, <2>2, <3>2, <3>3
    <3> QED
      BY <3>4, <3>5
  <2>4. CASE ~(DirectReview(r) \/ PersistSuccess(r) \/ PersistFailure(r))
    <3>1. /\ review_result' = review_result /\ concluded' = concluded /\ pc'[r] # "ok"
          /\ \A c \in Cases : review_case'[c].status = "DECIDED" => review_case[c].status = "DECIDED"
      BY <1>2, <2>4, OtherStepsConcludeNothing
    <3>2. \A c \in Cases : Conclusions(c)' = Conclusions(c)
      BY <2>1, <3>1 DEF Conclusions, CaseOf
    <3>3. \A c \in Cases : Effective(c)'
      BY <1>0, <3>1, <3>2
    <3>4. \A q \in Requests : Answered(q)'
      BY <1>0, <2>2, <3>1
    <3> QED
      BY <3>3, <3>4
  <2> QED
    BY <2>3, <2>4
<1> QED
  BY <1>1, <1>2 DEF Next, EffectiveResult

(* The effective result of a case can be explained from the tables by the  *)
(* run it names, whatever requests for the case have been answered, have   *)
(* failed or were cut off in the meantime.                                 *)
THEOREM ResultCorrect == Spec => []ResultExplained
<1>1. Init => ResultInv
  BY DEF Init, ResultInv, ResultKnown
<1>2. ResultInv => ResultExplained
  BY DEF ResultInv, ResultKnown, ResultExplained
<1> QED
  BY <1>1, <1>2, ResultStep, RunInvariant, PTL DEF Spec

(* The result of a case is that of its last concluded run, for any number  *)
(* of concurrent requests: no answer is lost to an earlier one, and a case *)
(* without a conclusion is never shown as decided.                         *)
THEOREM EffectiveCorrect == Spec => []EffectiveResult
<1>1. Init => EffectiveResult
  BY DEF Init, EffectiveResult, Conclusions, NoCase
<1> QED
  BY <1>1, EffectiveStep, RunInvariant, PTL DEF Spec

==============================================================================
