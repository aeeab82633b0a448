--------------------------- MODULE InvestigationAudit ---------------------------
(***************************************************************************)
(* Proofs about the audit trail of an investigation: how its records are   *)
(* numbered, what they charge, which calls they repeat and which evidence  *)
(* they account for, for every set of cases, tools and calls and every     *)
(* budget.                                                                 *)
(***************************************************************************)
EXTENDS InvestigationProofs, FiniteSetTheorems

------------------------------------------------------------------------------
(* What each step does to the trail and to the failures.  A visit of the   *)
(* tools node appends to locals which ToolsReturn publishes and CallRaised *)
(* drops, so that every fact about the trail is needed twice: of what is   *)
(* published, and of what the visit adds to it.                            *)

(* The steps that leave the trail and its charges alone. *)
Quiet ==
  \/ Hypothesize \/ PlanSkipped \/ PlanFailed \/ ReevaluateSkipped \/ Reevaluate
  \/ DecideUnassisted \/ DecideFailed \/ DecideProposed \/ UNCHANGED vars

(* The rows of a list appended to another keep their positions. *)
LEMMA ConcatFacts ==
  ASSUME NEW S, NEW s \in Seq(S), NEW t \in Seq(S)
  PROVE  /\ s \o t \in Seq(S) /\ Len(s \o t) = Len(s) + Len(t)
         /\ DOMAIN s = 1..Len(s) /\ DOMAIN (s \o t) = 1..(Len(s) + Len(t))
         /\ Len(s) \in Nat /\ Len(t) \in Nat
         /\ \A i \in DOMAIN s : i \in DOMAIN (s \o t) /\ (s \o t)[i] = s[i]
         /\ \A i \in DOMAIN (s \o t) : i \in DOMAIN s \/ i - Len(s) \in DOMAIN t
         /\ \A i \in DOMAIN (s \o t) : i \notin DOMAIN s => (s \o t)[i] = t[i - Len(s)]
BY ConcatProperties, LenProperties

(* The last row of a list is the new one, the others keep their positions. *)
LEMMA AppendFacts ==
  ASSUME NEW S, NEW s \in Seq(S), NEW e \in S
  PROVE  /\ Append(s, e) \in Seq(S) /\ Len(s) \in Nat
         /\ DOMAIN s = 1..Len(s) /\ DOMAIN Append(s, e) = DOMAIN s \cup {Len(s) + 1}
         /\ Len(s) + 1 \notin DOMAIN s
         /\ \A i \in DOMAIN s : Append(s, e)[i] = s[i]
         /\ Append(s, e)[Len(s) + 1] = e
BY AppendProperties, LenProperties

(* The trail is made of records, those of the history first. *)
LEMMA TrailFacts ==
  ASSUME TypeOK
  PROVE  /\ Trail \in Seq(Record) /\ tool_call_history \in Seq(Record)
         /\ AllFailures \in Seq(Failure) /\ failures \in Seq(Failure)
         /\ NextSeq = Len(Trail) + 1
         /\ visit_records = <<>> => Trail = tool_call_history
         /\ visit_failures = <<>> => AllFailures = failures
BY ConcatFacts, ConcatEmptySeq DEF TypeOK, Trail, AllFailures, NextSeq

(* A quiet step touches neither trail nor charges. *)
LEMMA QuietKeepsTrail ==
  ASSUME Quiet
  PROVE  UNCHANGED <<case, tool_call_history, visit_records, visit_added, visit_calls,
                     visit_failures, tool_calls, tools, Trail>>
BY DEF Quiet, Hypothesize, PlanSkipped, PlanFailed, ReevaluateSkipped, Reevaluate,
   DecideUnassisted, DecideFailed, DecideProposed, vars, channels, visit, Trail

(* A quiet step leaves the warnings where they are. *)
LEMMA QuietKeepsWarnings ==
  ASSUME TypeOK, ControlInv, Quiet
  PROVE  /\ Warnings(failures') = Warnings(failures)
         /\ \A i \in Warnings(failures) : failures'[i] = failures[i]
         /\ Warnings(AllFailures') = Warnings(AllFailures)
         /\ \A i \in Warnings(AllFailures) : AllFailures'[i] = AllFailures[i]
<1>1. visit_failures' = visit_failures
  BY QuietKeepsTrail
<1>2. \/ failures' = failures
      \/ /\ visit_failures = <<>>
         /\ \E step \in LLMSteps : failures' = Append(failures, CriticalFailure(step))
  <2>1. UNCHANGED vars \/ pc # "tools"
    BY DEF Quiet, Hypothesize, PlanSkipped, PlanFailed, ReevaluateSkipped, Reevaluate,
       DecideUnassisted, DecideFailed, DecideProposed
  <2>2. pc # "tools" => visit_failures = <<>>
    BY DEF ControlInv
  <2>3. \/ failures' = failures
        \/ \E step \in LLMSteps : failures' = Append(failures, CriticalFailure(step))
    BY DEF Quiet, Hypothesize, PlanSkipped, PlanFailed, ReevaluateSkipped, Reevaluate,
       DecideUnassisted, DecideFailed, DecideProposed, vars, channels, LLMSteps
  <2> QED
    BY <2>1, <2>2, <2>3 DEF vars, channels
<1>3. CASE failures' = failures
  BY <1>1, <1>3 DEF Warnings, AllFailures
<1>4. ASSUME visit_failures = <<>>, NEW step \in LLMSteps,
             failures' = Append(failures, CriticalFailure(step))
      PROVE  /\ Warnings(failures') = Warnings(failures)
             /\ \A i \in Warnings(failures) : failures'[i] = failures[i]
  <2>1. failures \in Seq(Failure) /\ CriticalFailure(step) \in Failure
    BY DEF TypeOK, CriticalFailure, Failure, LLMSteps
  <2>2. CriticalFailure(step).step # "tool_call"
    BY DEF CriticalFailure, LLMSteps
  <2>3. /\ DOMAIN failures' = DOMAIN failures \cup {Len(failures) + 1}
        /\ Len(failures) + 1 \notin DOMAIN failures
        /\ \A i \in DOMAIN failures : failures'[i] = failures[i]
        /\ failures'[Len(failures) + 1] = CriticalFailure(step)
    BY <1>4, <2>1, AppendFacts
  <2> QED
    BY <2>2, <2>3 DEF Warnings
<1>5. CASE /\ visit_failures = <<>>
           /\ \E step \in LLMSteps : failures' = Append(failures, CriticalFailure(step))
  <2>1. PICK step \in LLMSteps : failures' = Append(failures, CriticalFailure(step))
    BY <1>5
  <2>2. AllFailures = failures
    BY <1>5, TrailFacts
  <2>3. failures' \in Seq(Failure) /\ AllFailures' = failures' \o <<>>
    BY <1>1, <1>5, <2>1, AppendFacts DEF TypeOK, CriticalFailure, Failure, AllFailures
  <2>4. AllFailures' = failures'
    BY <2>3, ConcatEmptySeq
  <2> QED
    BY <1>4, <1>5, <2>1, <2>2, <2>4
<1> QED
  BY <1>2, <1>3, <1>5

(* What the plan node appends to the history is a list of skipped records, *)
(* numbered on from it.                                                    *)
LEMMA PlanAppends ==
  ASSUME TypeOK, ControlInv, PlanAccepted
  PROVE  \E rows \in Seq(Record) :
           /\ tool_call_history' = tool_call_history \o rows
           /\ \A i \in DOMAIN rows :
                /\ rows[i].seq = Len(tool_call_history) + i
                /\ rows[i].status = "skipped" /\ rows[i].added = {} /\ ~rows[i].changed
           /\ Trail = tool_call_history /\ Trail' = tool_call_history'
           /\ UNCHANGED <<case, tool_calls, failures, visit, AllFailures>>
<1>1. PICK skipped \in RoundsOf(Calls \cap ExecutedCalls(tool_call_history)) :
        tool_call_history' =
          tool_call_history \o SkippedRecords(Len(tool_call_history), skipped)
  BY DEF PlanAccepted
<1> DEFINE rows == SkippedRecords(Len(tool_call_history), skipped)
<1>2. skipped \in Seq(Calls) /\ Len(tool_call_history) \in Nat
  BY RoundsType, LenProperties DEF TypeOK
<1>3. rows \in Seq(Record)
  BY <1>2, SkippedRecordsType
<1>4. \A i \in DOMAIN rows :
        /\ rows[i].seq = Len(tool_call_history) + i
        /\ rows[i].status = "skipped" /\ rows[i].added = {} /\ ~rows[i].changed
  BY DEF SkippedRecords
<1>5. visit_records = <<>> /\ UNCHANGED <<case, tool_calls, failures, visit>>
  BY DEF PlanAccepted, ControlInv
<1>6. tool_call_history' \in Seq(Record)
  BY <1>1, <1>3, ConcatProperties DEF TypeOK
<1>7. Trail = tool_call_history /\ Trail' = tool_call_history'
  BY <1>5, <1>6, ConcatEmptySeq DEF Trail, TypeOK, visit
<1> HIDE DEF rows
<1> QED
  BY <1>1, <1>3, <1>4, <1>5, <1>7 DEF AllFailures, visit, rows

(* A record appended to those of the visit is appended to the trail.       *)
LEMMA AppendsToTrail ==
  ASSUME TypeOK, NEW record \in Record, visit_records' = Append(visit_records, record),
         tool_call_history' = tool_call_history
  PROVE  Trail' = Append(Trail, record)
<1>1. tool_call_history \in Seq(Record) /\ visit_records \in Seq(Record)
  BY DEF TypeOK
<1>2. Append(visit_records, record) = visit_records \o <<record>>
  BY <1>1, AppendIsConcat
<1>3. <<record>> \in Seq(Record)
  OBVIOUS
<1>4. (tool_call_history \o visit_records) \o <<record>>
        = tool_call_history \o (visit_records \o <<record>>)
  BY <1>1, <1>3, ConcatAssociative
<1>5. Append(tool_call_history \o visit_records, record)
        = (tool_call_history \o visit_records) \o <<record>>
  BY <1>1, AppendIsConcat, ConcatProperties
<1> QED
  BY <1>2, <1>4, <1>5 DEF Trail

(* A call that fails or is rejected leaves an error record that adds       *)
(* nothing.                                                                *)
LEMMA ErrorAppends ==
  ASSUME TypeOK, CallRejected \/ CallFailed
  PROVE  /\ pc = "tools" /\ pending_tool_calls # <<>> /\ ToolBudgetLeft
         /\ pending_tool_calls' = Tail(pending_tool_calls)
         /\ UNCHANGED <<case, evidence, tool_call_history, tool_calls, failures,
                        visit_added, pc>>
         /\ \E record \in Record :
              /\ record.seq = Len(Trail) + 1
              /\ record.call = Head(pending_tool_calls)
              /\ record.status = "error" /\ record.added = {} /\ ~record.changed
              /\ Trail' = Append(Trail, record)
<1> DEFINE record == ErrorRecord(Head(pending_tool_calls))
<1>1. record \in Record
  BY DEF CallRejected, CallFailed, ErrorRecord, NextSeq, Record, Statuses, TypeOK
<1>2. visit_records' = Append(visit_records, record)
  BY DEF CallRejected, CallFailed
<1>3. /\ record.seq = Len(Trail) + 1 /\ record.call = Head(pending_tool_calls)
      /\ record.status = "error" /\ record.added = {} /\ ~record.changed
  BY TrailFacts DEF ErrorRecord
<1>4. /\ pc = "tools" /\ pending_tool_calls # <<>> /\ ToolBudgetLeft
      /\ pending_tool_calls' = Tail(pending_tool_calls)
      /\ UNCHANGED <<case, evidence, tool_call_history, tool_calls, failures,
                     visit_added, pc>>
  BY DEF CallRejected, CallFailed
<1> HIDE DEF record
<1>5. Trail' = Append(Trail, record)
  BY <1>1, <1>2, <1>4, AppendsToTrail
<1> QED
  BY <1>1, <1>3, <1>4, <1>5

(* A call that succeeds leaves a record of what it added.                  *)
LEMMA SuccessAppends ==
  ASSUME TypeOK, CallSucceeded
  PROVE  /\ pc = "tools" /\ pending_tool_calls # <<>> /\ ToolBudgetLeft
         /\ pending_tool_calls' = Tail(pending_tool_calls)
         /\ visit_calls' = visit_calls + 1
         /\ UNCHANGED <<case, evidence, tool_call_history, tool_calls, failures,
                        visit_failures, pc>>
         /\ Head(pending_tool_calls).tool \in ToolNames
         /\ \E evs \in EvidenceChoices(Head(pending_tool_calls)), record \in Record :
              /\ record = SuccessRecord(Head(pending_tool_calls),
                                        NewEvidence(WorkingEvidence, evs))
              /\ record.seq = Len(Trail) + 1
              /\ record.call = Head(pending_tool_calls)
              /\ record.status = "ok" /\ record.added = NewEvidence(WorkingEvidence, evs)
              /\ visit_added' = visit_added \cup record.added
              /\ Trail' = Append(Trail, record)
<1> DEFINE call == Head(pending_tool_calls)
<1>1. PICK evs \in EvidenceChoices(call) :
        /\ visit_added' = visit_added \cup NewEvidence(WorkingEvidence, evs)
        /\ visit_records' =
             Append(visit_records, SuccessRecord(call, NewEvidence(WorkingEvidence, evs)))
  BY DEF CallSucceeded
<1> DEFINE record == SuccessRecord(call, NewEvidence(WorkingEvidence, evs))
<1>2. call \in Calls /\ call.tool \in ToolNames
  BY ToolsAssumption DEF CallSucceeded, CallAccepted, TypeOK
<1>3. record \in Record
  <2>1. NewEvidence(WorkingEvidence, evs) \in SUBSET Evidence
    BY <1>2, EvidenceChoicesType DEF NewEvidence
  <2> QED
    BY <1>2, <2>1 DEF SuccessRecord, NextSeq, Record, Statuses, TypeOK
<1>4. /\ record.seq = Len(Trail) + 1 /\ record.call = call /\ record.status = "ok"
      /\ record.added = NewEvidence(WorkingEvidence, evs)
  BY TrailFacts DEF SuccessRecord
<1>5. /\ pc = "tools" /\ pending_tool_calls # <<>> /\ ToolBudgetLeft
      /\ pending_tool_calls' = Tail(pending_tool_calls)
      /\ visit_calls' = visit_calls + 1
      /\ UNCHANGED <<case, evidence, tool_call_history, tool_calls, failures,
                     visit_failures, pc>>
  BY DEF CallSucceeded
<1>6. visit_records' = Append(visit_records, record)
      /\ record = SuccessRecord(call, NewEvidence(WorkingEvidence, evs))
  BY <1>1
<1> HIDE DEF record
<1>7. Trail' = Append(Trail, record)
  BY <1>3, <1>5, <1>6, AppendsToTrail
<1>8. visit_added' = visit_added \cup record.added
  BY <1>1, <1>4
<1> QED
  BY <1>2, <1>3, <1>4, <1>5, <1>6, <1>7, <1>8

(* When the tools node returns, the visit becomes the history.             *)
LEMMA ReturnPublishes ==
  ASSUME TypeOK, EvidenceInv, ToolsReturn
  PROVE  /\ Trail' = Trail /\ tool_call_history' = Trail
         /\ AllFailures' = AllFailures /\ failures' = AllFailures
         /\ tool_calls' = tool_calls + visit_calls /\ visit_calls' = 0
         /\ evidence' = WorkingEvidence /\ visit_added' = {} /\ visit_failures' = <<>>
         /\ case' = case /\ pc' = "reevaluate"
<1>1. Trail \in Seq(Record) /\ AllFailures \in Seq(Failure)
  BY TrailFacts
<1>2. tool_call_history' = Trail /\ failures' = AllFailures
      /\ visit_records' = <<>> /\ visit_failures' = <<>>
  BY DEF ToolsReturn, Trail, AllFailures
<1>3. Trail' = Trail /\ AllFailures' = AllFailures
  BY <1>1, <1>2, ConcatEmptySeq DEF Trail, AllFailures
<1>4. NewEvidence(evidence, visit_added) \subseteq visit_added
      /\ \A e \in visit_added : e \in evidence \/ e \in NewEvidence(evidence, visit_added)
  BY DEF NewEvidence, EvidenceInv, KeysUnique, WorkingEvidence
<1>5. evidence' = WorkingEvidence
  BY <1>4 DEF ToolsReturn, MergeEvidence, WorkingEvidence
<1> QED
  BY <1>2, <1>3, <1>5 DEF ToolsReturn

(* A tool that raises takes the visit with it.                             *)
LEMMA RaiseDrops ==
  ASSUME TypeOK, CallRaised
  PROVE  /\ Trail' = tool_call_history /\ AllFailures' = failures /\ visit_failures' = <<>>
         /\ WorkingEvidence' = evidence
         /\ visit_calls' = 0 /\ pc' = "raised"
         /\ UNCHANGED <<case, evidence, tool_call_history, failures, tool_calls>>
<1>1. /\ visit_records' = <<>> /\ visit_failures' = <<>> /\ visit_added' = {}
      /\ UNCHANGED <<case, evidence, tool_call_history, failures, tool_calls>>
  BY DEF CallRaised, channels
<1>2. Trail' = tool_call_history /\ AllFailures' = failures
  BY <1>1, ConcatEmptySeq DEF Trail, AllFailures, TypeOK
<1> QED
  BY <1>1, <1>2 DEF CallRaised, WorkingEvidence

------------------------------------------------------------------------------
(* Numbering *)

(* Every tool warning of a list points at an error record of a trail. *)
PointsAtErrors(list, trail) ==
  \A i \in Warnings(list) :
    list[i].seq \in DOMAIN trail /\ trail[list[i].seq].status = "error"

(* A later warning of a list points at a later record. *)
InOrder(list) == \A i, j \in Warnings(list) : i < j => list[i].seq < list[j].seq

(* AuditTrail in the form a step keeps: published warnings point into the  *)
(* history, so that they stay true when a raising tool drops the visit,    *)
(* and those of the visit behind it.                                       *)
NumberInv ==
  /\ \A i \in DOMAIN Trail : Trail[i].seq = i
  /\ PointsAtErrors(failures, tool_call_history) /\ InOrder(failures)
  /\ PointsAtErrors(visit_failures, Trail) /\ InOrder(visit_failures)
  /\ \A i \in Warnings(visit_failures) : visit_failures[i].seq > Len(tool_call_history)

(* A warning stays true of every longer trail. *)
LEMMA LongerTrail ==
  ASSUME NEW list, NEW trail \in Seq(Record), NEW more \in Seq(Record),
         PointsAtErrors(list, trail)
  PROVE  PointsAtErrors(list, trail \o more)
BY ConcatFacts DEF PointsAtErrors

(* So it does when one record is appended, and a new warning about an      *)
(* error record just appended is true.                                     *)
LEMMA AppendedError ==
  ASSUME NEW list \in Seq(Failure), NEW trail \in Seq(Record), NEW record \in Record,
         PointsAtErrors(list, trail)
  PROVE  /\ PointsAtErrors(list, Append(trail, record))
         /\ \A f \in Failure :
              record.status = "error" /\ f.seq = Len(trail) + 1
                => PointsAtErrors(Append(list, f), Append(trail, record))
BY AppendFacts DEF PointsAtErrors, Warnings

(* The warnings of two lists are those of their concatenation. *)
LEMMA JoinedWarnings ==
  ASSUME NEW list \in Seq(Failure), NEW more \in Seq(Failure), NEW trail,
         PointsAtErrors(list, trail), PointsAtErrors(more, trail)
  PROVE  PointsAtErrors(list \o more, trail)
BY ConcatFacts DEF PointsAtErrors, Warnings

(* All warnings point at error records of the trail. *)
LEMMA AllPointAtErrors == TypeOK /\ NumberInv => PointsAtErrors(AllFailures, Trail)
BY LongerTrail, JoinedWarnings DEF TypeOK, NumberInv, Trail, AllFailures

(* A warning about a record behind the trail keeps a list in order. *)
LEMMA AppendedInOrder ==
  ASSUME NEW list \in Seq(Failure), NEW trail \in Seq(Record), NEW f \in Failure,
         PointsAtErrors(list, trail), InOrder(list), f.seq = Len(trail) + 1
  PROVE  InOrder(Append(list, f))
<1>1. /\ DOMAIN Append(list, f) = DOMAIN list \cup {Len(list) + 1} /\ Len(list) \in Nat
      /\ \A i \in DOMAIN list : i \in Nat /\ i < Len(list) + 1 /\ Append(list, f)[i] = list[i]
      /\ Append(list, f)[Len(list) + 1] = f
  BY AppendFacts
<1>2. \A i \in Warnings(list) : list[i].seq < f.seq
  <2>1. DOMAIN trail = 1..Len(trail) /\ Len(trail) \in Nat
    BY AppendFacts, LenProperties
  <2> QED
    BY <2>1 DEF PointsAtErrors
<1> QED
  BY <1>1, <1>2 DEF InOrder, Warnings

(* All warnings are in order: the published ones point into the history,   *)
(* those of the visit behind it.                                           *)
LEMMA AllInOrder == TypeOK /\ NumberInv => InOrder(AllFailures)
<1> SUFFICES ASSUME TypeOK, NumberInv PROVE InOrder(AllFailures)
  OBVIOUS
<1>1. /\ failures \in Seq(Failure) /\ visit_failures \in Seq(Failure)
      /\ Len(failures) \in Nat /\ Len(tool_call_history) \in Nat
      /\ DOMAIN tool_call_history = 1..Len(tool_call_history)
  BY LenProperties DEF TypeOK
<1>2. /\ \A i \in Warnings(AllFailures) :
           \/ i \in Warnings(failures) /\ AllFailures[i] = failures[i]
           \/ /\ i \notin DOMAIN failures /\ i - Len(failures) \in Warnings(visit_failures)
              /\ AllFailures[i] = visit_failures[i - Len(failures)]
      /\ DOMAIN failures = 1..Len(failures)
      /\ \A i \in DOMAIN AllFailures : i \in Nat \ {0}
  BY <1>1, ConcatFacts DEF Warnings, AllFailures
<1>3. SUFFICES ASSUME NEW i \in Warnings(AllFailures), NEW j \in Warnings(AllFailures), i < j
               PROVE  AllFailures[i].seq < AllFailures[j].seq
  BY DEF InOrder
<1>4. i \in Nat \ {0} /\ j \in Nat \ {0}
  BY <1>2 DEF Warnings
<1>5. CASE j \in DOMAIN failures
  <2>1. i \in DOMAIN failures
    BY <1>1, <1>2, <1>3, <1>4, <1>5
  <2> QED
    BY <1>2, <1>3, <1>5, <2>1 DEF NumberInv, InOrder
<1>6. CASE j \notin DOMAIN failures /\ i \in DOMAIN failures
  <2>1. failures[i].seq \in 1..Len(tool_call_history)
    BY <1>1, <1>2, <1>6 DEF NumberInv, PointsAtErrors
  <2>2. /\ j - Len(failures) \in Warnings(visit_failures)
        /\ AllFailures[j] = visit_failures[j - Len(failures)]
        /\ AllFailures[i] = failures[i]
    BY <1>2, <1>6 DEF Warnings
  <2>3. visit_failures[j - Len(failures)].seq > Len(tool_call_history)
    BY <2>2 DEF NumberInv
  <2>4. visit_failures[j - Len(failures)].seq \in Nat
    <3> DEFINE k == j - Len(failures)
    <3>1. k \in DOMAIN visit_failures
      BY <2>2 DEF Warnings
    <3> HIDE DEF k
    <3>2. visit_failures[k] \in Failure
      BY <1>1, <3>1
    <3> QED
      BY <3>2 DEF Failure, k
  <2> QED
    BY <1>1, <2>1, <2>2, <2>3, <2>4
<1>7. CASE j \notin DOMAIN failures /\ i \notin DOMAIN failures
  <2>1. i - Len(failures) < j - Len(failures)
    BY <1>1, <1>3, <1>4
  <2> QED
    BY <1>2, <1>7, <2>1 DEF NumberInv, InOrder, Warnings
<1> QED
  BY <1>5, <1>6, <1>7

(* Every step keeps NumberInv. *)
LEMMA NumberStep ==
  TypeOK /\ ControlInv /\ EvidenceInv /\ NumberInv /\ [Next]_vars => NumberInv'
<1> SUFFICES ASSUME TypeOK, ControlInv, EvidenceInv, NumberInv, [Next]_vars
             PROVE  NumberInv'
  OBVIOUS
<1>1. /\ Trail \in Seq(Record) /\ tool_call_history \in Seq(Record)
      /\ visit_failures \in Seq(Failure) /\ NextSeq = Len(Trail) + 1
  BY TrailFacts DEF TypeOK
<1>2. CASE Quiet
  <2>1. /\ UNCHANGED <<tool_call_history, visit_failures, Trail>>
        /\ Warnings(failures') = Warnings(failures)
        /\ \A i \in Warnings(failures) : failures'[i] = failures[i]
    BY <1>2, QuietKeepsTrail, QuietKeepsWarnings
  <2>2. PointsAtErrors(failures', tool_call_history) /\ InOrder(failures')
    BY <2>1 DEF NumberInv, PointsAtErrors, InOrder
  <2> QED
    BY <2>1, <2>2 DEF NumberInv, PointsAtErrors, InOrder
<1>3. CASE PlanAccepted
  <2>1. PICK rows \in Seq(Record) :
          /\ tool_call_history' = tool_call_history \o rows
          /\ \A i \in DOMAIN rows : rows[i].seq = Len(tool_call_history) + i
          /\ Trail = tool_call_history /\ Trail' = tool_call_history'
          /\ UNCHANGED <<failures, visit>>
    BY <1>3, PlanAppends
  <2>2. \A i \in DOMAIN Trail' : Trail'[i].seq = i
    BY <1>1, <2>1, ConcatFacts DEF NumberInv
  <2>3. PointsAtErrors(failures, Trail') /\ PointsAtErrors(visit_failures, Trail')
    BY <1>1, <2>1, LongerTrail DEF NumberInv
  <2>4. visit_failures = <<>>
    BY <1>3 DEF ControlInv, PlanAccepted
  <2>5. Warnings(visit_failures') = {}
    BY <2>1, <2>4 DEF Warnings, visit
  <2> QED
    BY <2>1, <2>2, <2>3, <2>5 DEF NumberInv, PointsAtErrors, InOrder, visit
<1>4. ASSUME NEW record \in Record, record.seq = Len(Trail) + 1,
             Trail' = Append(Trail, record), UNCHANGED <<tool_call_history, failures>>
      PROVE  /\ \A i \in DOMAIN Trail' : Trail'[i].seq = i
             /\ PointsAtErrors(failures', tool_call_history')
  BY <1>1, <1>4, AppendFacts DEF NumberInv, PointsAtErrors
<1>0. Len(tool_call_history) \in Nat /\ Len(tool_call_history) <= Len(Trail)
  BY ConcatFacts DEF Trail, TypeOK
<1>5. CASE CallRejected \/ CallFailed
  <2>1. PICK record \in Record :
          /\ record.seq = Len(Trail) + 1 /\ record.status = "error"
          /\ Trail' = Append(Trail, record)
          /\ UNCHANGED <<tool_call_history, failures>>
    BY <1>5, ErrorAppends
  <2>2. \/ visit_failures' = visit_failures
        \/ visit_failures' = Append(visit_failures, [step |-> "tool_call", seq |-> NextSeq])
    BY <1>5 DEF CallRejected, CallFailed
  <2>3. [step |-> "tool_call", seq |-> NextSeq] \in Failure
    BY DEF Failure, NextSeq, TypeOK
  <2>4. PointsAtErrors(visit_failures', Trail')
    BY <1>1, <2>1, <2>2, <2>3, AppendedError DEF NumberInv
  <2>5. InOrder(visit_failures')
    BY <1>1, <2>2, <2>3, AppendedInOrder DEF NumberInv
  <2>6. \A i \in Warnings(visit_failures') : visit_failures'[i].seq > Len(tool_call_history)
    <3> DEFINE warning == [step |-> "tool_call", seq |-> NextSeq]
    <3>1. warning.seq > Len(tool_call_history)
      BY <1>0, <1>1, LenProperties
    <3>2. warning \in Failure /\ (visit_failures' = visit_failures
                                  \/ visit_failures' = Append(visit_failures, warning))
      BY <2>2, <2>3
    <3> HIDE DEF warning
    <3>3. CASE visit_failures' = visit_failures
      BY <3>3 DEF NumberInv
    <3>4. CASE visit_failures' = Append(visit_failures, warning)
      <4>1. /\ DOMAIN visit_failures' = DOMAIN visit_failures \cup {Len(visit_failures) + 1}
            /\ \A i \in DOMAIN visit_failures : visit_failures'[i] = visit_failures[i]
            /\ visit_failures'[Len(visit_failures) + 1] = warning
        BY <1>1, <3>2, <3>4, AppendFacts
      <4> QED
        BY <3>1, <4>1 DEF NumberInv, Warnings
    <3> QED
      BY <3>2, <3>3, <3>4
  <2>7. InOrder(failures')
    BY <2>1 DEF NumberInv
  <2> QED
    BY <1>4, <2>1, <2>4, <2>5, <2>6, <2>7 DEF NumberInv, PointsAtErrors, InOrder
<1>6. CASE CallSucceeded
  <2>1. PICK record \in Record :
          /\ record.seq = Len(Trail) + 1
          /\ Trail' = Append(Trail, record)
          /\ UNCHANGED <<tool_call_history, failures, visit_failures>>
    BY <1>6, SuccessAppends
  <2>2. PointsAtErrors(visit_failures', Trail')
    BY <1>1, <2>1, AppendedError DEF NumberInv
  <2> QED
    BY <1>4, <2>1, <2>2 DEF NumberInv, PointsAtErrors, InOrder
<1>7. CASE CallRaised
  <2>1. /\ Trail' = tool_call_history /\ visit_failures' = <<>>
        /\ UNCHANGED <<tool_call_history, failures>>
    BY <1>7, RaiseDrops
  <2>2. \A i \in DOMAIN tool_call_history : tool_call_history[i].seq = i
    BY <1>1, ConcatFacts DEF NumberInv, Trail, TypeOK
  <2> QED
    BY <2>1, <2>2 DEF NumberInv, PointsAtErrors, InOrder, Warnings
<1>8. CASE ToolsReturn
  <2>1. /\ Trail' = Trail /\ tool_call_history' = Trail /\ failures' = AllFailures
        /\ visit_failures' = <<>>
    BY <1>8, ReturnPublishes
  <2>2. PointsAtErrors(AllFailures, Trail) /\ InOrder(AllFailures)
    BY AllPointAtErrors, AllInOrder
  <2> QED
    BY <2>1, <2>2 DEF NumberInv, PointsAtErrors, InOrder, Warnings
<1> QED
  BY <1>2, <1>3, <1>5, <1>6, <1>7, <1>8 DEF Next, Quiet

(* NumberInv holds initially. *)
LEMMA NumberInit == Init => NumberInv
<1> SUFFICES ASSUME Init PROVE NumberInv
  OBVIOUS
<1>1. Trail = <<>> /\ failures = <<>> /\ visit_failures = <<>>
  BY DEF Init, Trail
<1> QED
  BY <1>1 DEF NumberInv, PointsAtErrors, InOrder, Warnings

(* The audit trail is numbered without gaps, and the tool warnings point   *)
(* at error records, later ones at later records, in every run.            *)
THEOREM AuditTrailCorrect == Spec => []AuditTrail
<1>1. TypeOK /\ ControlInv /\ EvidenceInv /\ NumberInv /\ [Next]_vars => NumberInv'
  BY NumberStep
<1>2. TypeOK /\ NumberInv => AuditTrail
  BY AllPointAtErrors, AllInOrder DEF NumberInv, AuditTrail, PointsAtErrors, InOrder
<1> QED
  BY <1>1, <1>2, NumberInit, EvidenceCorrect, PTL DEF Spec

------------------------------------------------------------------------------
(* Charges *)

(* What a trail and a list of failures account for: its successes, and the *)
(* failed calls that left a warning.                                       *)
Charges(trail, list) == Cardinality(Successes(trail)) + Cardinality(Warnings(list))

(* ChargesAudited with the same equation of what is published, which is    *)
(* what remains when a raising tool drops the visit.                       *)
ChargeInv ==
  /\ tool_calls = Charges(tool_call_history, failures)
  /\ tool_calls + visit_calls = Charges(Trail, AllFailures)

(* The successes of a trail are counted in a natural number. *)
LEMMA SuccessesCounted ==
  ASSUME NEW trail \in Seq(Record)
  PROVE  IsFiniteSet(Successes(trail)) /\ Cardinality(Successes(trail)) \in Nat
<1>1. Successes(trail) \in SUBSET (1..Len(trail)) /\ Len(trail) \in Nat
  BY LenProperties DEF Successes
<1>2. IsFiniteSet(1..Len(trail))
  BY <1>1, FS_Interval
<1>3. IsFiniteSet(Successes(trail))
  BY <1>1, <1>2, FS_Subset
<1> QED
  BY <1>3, FS_CardinalityType

(* So are the warnings of a list. *)
LEMMA WarningsCounted ==
  ASSUME NEW list \in Seq(Failure)
  PROVE  IsFiniteSet(Warnings(list)) /\ Cardinality(Warnings(list)) \in Nat
<1>1. Warnings(list) \in SUBSET (1..Len(list)) /\ Len(list) \in Nat
  BY LenProperties DEF Warnings
<1>2. IsFiniteSet(1..Len(list))
  BY <1>1, FS_Interval
<1>3. IsFiniteSet(Warnings(list))
  BY <1>1, <1>2, FS_Subset
<1> QED
  BY <1>3, FS_CardinalityType

(* A record appended to a trail is a new success, or none. *)
LEMMA SuccessesAppended ==
  ASSUME NEW trail \in Seq(Record), NEW record \in Record
  PROVE  /\ record.status # "ok" => Successes(Append(trail, record)) = Successes(trail)
         /\ record.status = "ok"
              => /\ Successes(Append(trail, record)) = Successes(trail) \cup {Len(trail) + 1}
                 /\ Cardinality(Successes(Append(trail, record)))
                      = Cardinality(Successes(trail)) + 1
<1>1. record.status # "ok" => Successes(Append(trail, record)) = Successes(trail)
  BY AppendFacts DEF Successes
<1>2. record.status = "ok"
        => Successes(Append(trail, record)) = Successes(trail) \cup {Len(trail) + 1}
  BY AppendFacts DEF Successes
<1>3. Len(trail) + 1 \notin Successes(trail)
  BY AppendFacts DEF Successes
<1> QED
  BY <1>1, <1>2, <1>3, SuccessesCounted, FS_AddElement

(* A tool warning appended to a list is one warning more. *)
LEMMA WarningsAppended ==
  ASSUME NEW list \in Seq(Failure), NEW f \in Failure, f.step = "tool_call"
  PROVE  Cardinality(Warnings(Append(list, f))) = Cardinality(Warnings(list)) + 1
<1>1. Warnings(Append(list, f)) = Warnings(list) \cup {Len(list) + 1}
  BY AppendFacts DEF Warnings
<1>2. Len(list) + 1 \notin Warnings(list)
  BY AppendFacts DEF Warnings
<1> QED
  BY <1>1, <1>2, WarningsCounted, FS_AddElement

(* Rows that succeeded at nothing add no success to a trail. *)
LEMMA SuccessesKept ==
  ASSUME NEW trail \in Seq(Record), NEW rows \in Seq(Record),
         \A i \in DOMAIN rows : rows[i].status = "skipped"
  PROVE  Successes(trail \o rows) = Successes(trail)
BY ConcatFacts DEF Successes

(* Every step keeps ChargeInv. *)
LEMMA ChargeStep ==
  TypeOK /\ ControlInv /\ EvidenceInv /\ ChargeInv /\ [Next]_vars => ChargeInv'
<1> SUFFICES ASSUME TypeOK, ControlInv, EvidenceInv, ChargeInv, [Next]_vars
             PROVE  ChargeInv'
  OBVIOUS
<1>1. /\ Trail \in Seq(Record) /\ tool_call_history \in Seq(Record)
      /\ failures \in Seq(Failure) /\ visit_failures \in Seq(Failure)
      /\ AllFailures \in Seq(Failure)
      /\ tool_calls \in Nat /\ visit_calls \in Nat
  BY TrailFacts DEF TypeOK
<1>2. /\ Cardinality(Successes(Trail)) \in Nat /\ Cardinality(Warnings(AllFailures)) \in Nat
      /\ Cardinality(Successes(tool_call_history)) \in Nat
      /\ Cardinality(Warnings(failures)) \in Nat
  BY <1>1, SuccessesCounted, WarningsCounted
<1>3. CASE Quiet
  BY <1>3, QuietKeepsTrail, QuietKeepsWarnings DEF ChargeInv, Charges
<1>4. CASE PlanAccepted
  <2>1. PICK rows \in Seq(Record) :
          /\ tool_call_history' = tool_call_history \o rows
          /\ \A i \in DOMAIN rows : rows[i].status = "skipped"
          /\ Trail = tool_call_history /\ Trail' = tool_call_history'
          /\ UNCHANGED <<tool_calls, failures, visit, AllFailures>>
    BY <1>4, PlanAppends
  <2>2. Successes(Trail') = Successes(Trail)
        /\ Successes(tool_call_history') = Successes(tool_call_history)
    BY <1>1, <2>1, SuccessesKept
  <2> QED
    BY <2>1, <2>2 DEF ChargeInv, Charges, visit
<1>5. CASE CallRejected \/ CallFailed
  <2>1. PICK record \in Record :
          /\ record.status = "error"
          /\ Trail' = Append(Trail, record)
          /\ UNCHANGED <<tool_call_history, tool_calls, failures>>
    BY <1>5, ErrorAppends
  <2>2. Successes(Trail') = Successes(Trail)
    BY <1>1, <2>1, SuccessesAppended
  <2>3. CASE UNCHANGED <<visit_calls, visit_failures>>
    BY <2>1, <2>2, <2>3 DEF ChargeInv, Charges, AllFailures
  <2>4. CASE CallFailed
    <3> DEFINE warning == [step |-> "tool_call", seq |-> NextSeq]
    <3>1. warning \in Failure /\ warning.step = "tool_call"
      BY DEF Failure, NextSeq, TypeOK
    <3>2. visit_failures' = Append(visit_failures, warning) /\ visit_calls' = visit_calls + 1
      BY <2>4 DEF CallFailed
    <3> HIDE DEF warning
    <3>3. AllFailures' = Append(AllFailures, warning)
      <4>1. Append(visit_failures, warning) = visit_failures \o <<warning>>
        BY <1>1, <3>1, AppendIsConcat
      <4>2. <<warning>> \in Seq(Failure)
        BY <3>1
      <4>3. (failures \o visit_failures) \o <<warning>> = failures \o (visit_failures \o <<warning>>)
        BY <1>1, <4>2, ConcatAssociative
      <4>4. Append(AllFailures, warning) = AllFailures \o <<warning>>
        BY <1>1, <3>1, AppendIsConcat
      <4> QED
        BY <2>1, <3>2, <4>1, <4>3, <4>4 DEF AllFailures
    <3>4. Cardinality(Warnings(AllFailures')) = Cardinality(Warnings(AllFailures)) + 1
      BY <1>1, <3>1, <3>3, WarningsAppended
    <3>5. tool_calls' = Charges(tool_call_history', failures')
      BY <2>1 DEF ChargeInv, Charges
    <3>6. tool_calls' + visit_calls' = Charges(Trail', AllFailures')
      <4>1. tool_calls + visit_calls
              = Cardinality(Successes(Trail)) + Cardinality(Warnings(AllFailures))
        BY DEF ChargeInv, Charges
      <4>2. Charges(Trail', AllFailures')
              = Cardinality(Successes(Trail)) + (Cardinality(Warnings(AllFailures)) + 1)
        BY <2>2, <3>4 DEF Charges
      <4>3. tool_calls' + visit_calls' = (tool_calls + visit_calls) + 1
        BY <1>1, <2>1, <3>2
      <4> QED
        BY <1>2, <4>1, <4>2, <4>3
    <3> QED
      BY <3>5, <3>6 DEF ChargeInv
  <2>5. CallRejected => UNCHANGED <<visit_calls, visit_failures>>
    BY DEF CallRejected
  <2> QED
    BY <1>5, <2>3, <2>4, <2>5
<1>6. CASE CallSucceeded
  <2>1. PICK record \in Record :
          /\ record.status = "ok"
          /\ Trail' = Append(Trail, record)
          /\ UNCHANGED <<tool_call_history, tool_calls, failures, visit_failures>>
          /\ visit_calls' = visit_calls + 1
    BY <1>6, SuccessAppends
  <2>2. Cardinality(Successes(Trail')) = Cardinality(Successes(Trail)) + 1
    BY <1>1, <2>1, SuccessesAppended
  <2>3. tool_calls' = Charges(tool_call_history', failures')
    BY <2>1 DEF ChargeInv, Charges
  <2>4. tool_calls' + visit_calls' = Charges(Trail', AllFailures')
    <3>1. tool_calls + visit_calls
            = Cardinality(Successes(Trail)) + Cardinality(Warnings(AllFailures))
      BY DEF ChargeInv, Charges
    <3>2. AllFailures' = AllFailures
      BY <2>1 DEF AllFailures
    <3>3. Charges(Trail', AllFailures')
            = (Cardinality(Successes(Trail)) + 1) + Cardinality(Warnings(AllFailures))
      BY <2>2, <3>2 DEF Charges
    <3>4. tool_calls' + visit_calls' = (tool_calls + visit_calls) + 1
      BY <1>1, <2>1
    <3> QED
      BY <1>2, <3>1, <3>3, <3>4
  <2> QED
    BY <2>3, <2>4 DEF ChargeInv
<1>7. CASE CallRaised
  BY <1>1, <1>7, RaiseDrops DEF ChargeInv, Charges
<1>8. CASE ToolsReturn
  BY <1>1, <1>8, ReturnPublishes DEF ChargeInv, Charges
<1> QED
  BY <1>3, <1>4, <1>5, <1>6, <1>7, <1>8 DEF Next, Quiet

(* ChargeInv holds initially. *)
LEMMA ChargeInit == Init => ChargeInv
<1> SUFFICES ASSUME Init PROVE ChargeInv
  OBVIOUS
<1>1. /\ Trail = <<>> /\ AllFailures = <<>> /\ tool_call_history = <<>> /\ failures = <<>>
      /\ tool_calls = 0 /\ visit_calls = 0
  BY DEF Init, Trail, AllFailures
<1>2. Successes(<<>>) = {} /\ Warnings(<<>>) = {}
  BY DEF Successes, Warnings
<1>3. Cardinality({}) = 0
  BY FS_EmptySet
<1>4. Charges(<<>>, <<>>) = Cardinality({}) + Cardinality({})
  BY <1>2 DEF Charges
<1>5. Charges(<<>>, <<>>) = 0
  BY <1>3, <1>4
<1> QED
  BY <1>1, <1>5 DEF ChargeInv

(* The tool charge is the number of successes and of tool warnings on the  *)
(* trail, in every run, also when a tool raises and its visit is dropped.  *)
THEOREM ChargesCorrect == Spec => []ChargesAudited
<1>1. TypeOK /\ ControlInv /\ EvidenceInv /\ ChargeInv /\ [Next]_vars => ChargeInv'
  BY ChargeStep
<1>2. ChargeInv => ChargesAudited
  BY DEF ChargeInv, Charges, ChargesAudited
<1> QED
  BY <1>1, <1>2, ChargeInit, EvidenceCorrect, PTL DEF Spec

------------------------------------------------------------------------------
(* No call succeeds twice *)

(* NoRepeatedSuccess with what makes it inductive: what is still waiting   *)
(* in a round is distinct, and none of it has succeeded.                   *)
RepeatInv ==
  /\ NoRepeatedSuccess
  /\ pc = "tools" =>
       /\ IsInjective(pending_tool_calls)
       /\ \A i \in Successes(Trail), k \in DOMAIN pending_tool_calls :
            Trail[i].call # pending_tool_calls[k]

(* The calls after the head of a list without repetitions differ from it   *)
(* and from one another.                                                   *)
LEMMA TailDistinct ==
  ASSUME NEW list \in Seq(Calls), list # <<>>, IsInjective(list)
  PROVE  /\ IsInjective(Tail(list))
         /\ \A k \in DOMAIN Tail(list) :
              /\ k + 1 \in DOMAIN list /\ Tail(list)[k] = list[k + 1]
              /\ Tail(list)[k] # Head(list)
         /\ 1 \in DOMAIN list /\ list[1] = Head(list)
<1>1. /\ Len(list) \in Nat /\ Len(list) > 0 /\ DOMAIN list = 1..Len(list)
      /\ DOMAIN Tail(list) = 1..(Len(list) - 1)
      /\ \A k \in DOMAIN Tail(list) : Tail(list)[k] = list[k + 1]
      /\ Head(list) = list[1]
  OBVIOUS
<1>2. \A k \in DOMAIN Tail(list) : k + 1 \in DOMAIN list /\ k + 1 # 1 /\ k \in Nat
  BY <1>1
<1> QED
  BY <1>1, <1>2 DEF IsInjective

(* Every step keeps RepeatInv. *)
LEMMA RepeatStep ==
  TypeOK /\ ControlInv /\ EvidenceInv /\ RepeatInv /\ [Next]_vars => RepeatInv'
<1> SUFFICES ASSUME TypeOK, ControlInv, EvidenceInv, RepeatInv, [Next]_vars
             PROVE  RepeatInv'
  OBVIOUS
<1>1. /\ Trail \in Seq(Record) /\ tool_call_history \in Seq(Record)
      /\ pending_tool_calls \in Seq(Calls)
  BY TrailFacts DEF TypeOK
<1>2. CASE Quiet
  <2>1. Trail' = Trail
    BY <1>2, QuietKeepsTrail
  <2>2. pc' # "tools" \/ UNCHANGED <<pc, pending_tool_calls>>
    BY <1>2 DEF Quiet, Hypothesize, PlanSkipped, PlanFailed, ReevaluateSkipped, Reevaluate,
       DecideUnassisted, DecideFailed, DecideProposed, RouteAfterPlan, RouteAfterReevaluate,
       vars, channels
  <2> QED
    BY <2>1, <2>2 DEF RepeatInv, NoRepeatedSuccess
<1>3. CASE PlanAccepted
  <2>1. PICK rows \in Seq(Record) :
          /\ tool_call_history' = tool_call_history \o rows
          /\ \A i \in DOMAIN rows : rows[i].status = "skipped"
          /\ Trail = tool_call_history /\ Trail' = tool_call_history'
    BY <1>3, PlanAppends
  <2>2. Successes(Trail') = Successes(Trail)
    BY <1>1, <2>1, SuccessesKept
  <2>3. \A i \in Successes(Trail) : Trail'[i] = Trail[i]
    BY <1>1, <2>1, ConcatFacts DEF Successes
  <2>4. PICK cleaned \in RoundsOf(Calls \ ExecutedCalls(tool_call_history)) :
          pending_tool_calls' = cleaned
    BY <1>3 DEF PlanAccepted
  <2>5. cleaned \in Seq(Calls \ ExecutedCalls(tool_call_history)) /\ IsInjective(cleaned)
    BY RoundsType DEF RoundsOf
  <2>6. \A k \in DOMAIN cleaned : cleaned[k] \notin ExecutedCalls(Trail)
    BY <2>1, <2>5
  <2>7. \A i \in Successes(Trail) : Trail[i].call \in ExecutedCalls(Trail)
    BY DEF ExecutedCalls, Successes
  <2> QED
    BY <2>2, <2>3, <2>4, <2>5, <2>6, <2>7 DEF RepeatInv, NoRepeatedSuccess
<1>4. CASE CallRejected \/ CallFailed
  <2>1. PICK record \in Record :
          /\ record.status = "error"
          /\ Trail' = Append(Trail, record)
          /\ pc = "tools" /\ pending_tool_calls # <<>>
          /\ pending_tool_calls' = Tail(pending_tool_calls)
    BY <1>4, ErrorAppends
  <2>2. Successes(Trail') = Successes(Trail)
    BY <1>1, <2>1, SuccessesAppended
  <2>3. \A i \in Successes(Trail) : Trail'[i] = Trail[i]
    BY <1>1, <2>1, AppendFacts DEF Successes
  <2>4. /\ IsInjective(pending_tool_calls')
        /\ \A k \in DOMAIN pending_tool_calls' :
             /\ k + 1 \in DOMAIN pending_tool_calls
             /\ pending_tool_calls'[k] = pending_tool_calls[k + 1]
    BY <1>1, <2>1, TailDistinct DEF RepeatInv
  <2>5. NoRepeatedSuccess'
    BY <2>2, <2>3 DEF RepeatInv, NoRepeatedSuccess
  <2>6. \A i \in Successes(Trail), k \in DOMAIN pending_tool_calls :
          Trail[i].call # pending_tool_calls[k]
    BY <2>1 DEF RepeatInv
  <2>7. \A i \in Successes(Trail'), k \in DOMAIN pending_tool_calls' :
          Trail'[i].call # pending_tool_calls'[k]
    BY <2>2, <2>3, <2>4, <2>6
  <2> QED
    BY <2>4, <2>5, <2>7 DEF RepeatInv
<1>5. CASE CallSucceeded
  <2>1. PICK record \in Record :
          /\ record.status = "ok" /\ record.call = Head(pending_tool_calls)
          /\ Trail' = Append(Trail, record)
          /\ pc = "tools" /\ pending_tool_calls # <<>>
          /\ pending_tool_calls' = Tail(pending_tool_calls)
    BY <1>5, SuccessAppends
  <2>2. Successes(Trail') = Successes(Trail) \cup {Len(Trail) + 1}
    BY <1>1, <2>1, SuccessesAppended
  <2>3. /\ \A i \in Successes(Trail) : Trail'[i] = Trail[i]
        /\ Trail'[Len(Trail) + 1] = record
    BY <1>1, <2>1, AppendFacts DEF Successes
  <2>4. /\ IsInjective(pending_tool_calls')
        /\ \A k \in DOMAIN pending_tool_calls' :
             /\ k + 1 \in DOMAIN pending_tool_calls
             /\ pending_tool_calls'[k] = pending_tool_calls[k + 1]
             /\ pending_tool_calls'[k] # record.call
        /\ 1 \in DOMAIN pending_tool_calls /\ pending_tool_calls[1] = record.call
    BY <1>1, <2>1, TailDistinct DEF RepeatInv
  <2>5. \A i \in Successes(Trail) : Trail[i].call # record.call
    BY <2>1, <2>4 DEF RepeatInv
  <2>6. NoRepeatedSuccess'
    BY <2>2, <2>3, <2>5 DEF RepeatInv, NoRepeatedSuccess
  <2>7. \A i \in Successes(Trail'), k \in DOMAIN pending_tool_calls' :
          Trail'[i].call # pending_tool_calls'[k]
    <3>1. \A i \in Successes(Trail), k \in DOMAIN pending_tool_calls :
            Trail[i].call # pending_tool_calls[k]
      BY <2>1 DEF RepeatInv
    <3> QED
      BY <2>2, <2>3, <2>4, <3>1
  <2> QED
    BY <2>4, <2>6, <2>7 DEF RepeatInv
<1>6. CASE CallRaised
  <2>1. Trail' = tool_call_history /\ pc' = "raised"
    BY <1>6, RaiseDrops
  <2>2. \A i \in Successes(tool_call_history) :
          i \in Successes(Trail) /\ Trail[i] = tool_call_history[i]
    BY ConcatFacts DEF Successes, Trail, TypeOK
  <2> QED
    BY <2>1, <2>2 DEF RepeatInv, NoRepeatedSuccess
<1>7. CASE ToolsReturn
  BY <1>7, ReturnPublishes DEF RepeatInv, NoRepeatedSuccess
<1> QED
  BY <1>2, <1>3, <1>4, <1>5, <1>6, <1>7 DEF Next, Quiet

(* No two successes of a run are the same call. *)
THEOREM NoRepetition == Spec => []NoRepeatedSuccess
<1>1. TypeOK /\ ControlInv /\ EvidenceInv /\ RepeatInv /\ [Next]_vars => RepeatInv'
  BY RepeatStep
<1>2. Init => RepeatInv
  BY DEF Init, RepeatInv, NoRepeatedSuccess, Trail, Successes
<1>3. RepeatInv => NoRepeatedSuccess
  BY DEF RepeatInv
<1> QED
  BY <1>1, <1>2, <1>3, EvidenceCorrect, PTL DEF Spec

------------------------------------------------------------------------------
(* Provenance *)

(* A trail accounts for the evidence held: what a record added is held and *)
(* answers its call, which succeeded, no two records added the same, and   *)
(* what the rules did not contribute was added by some record.             *)
AuditedBy(held, trail) ==
  /\ \A i \in DOMAIN trail : \A e \in trail[i].added :
       e \in held /\ Answers(e, trail[i].call) /\ trail[i].status = "ok"
  /\ \A i, j \in DOMAIN trail : trail[i].added \cap trail[j].added # {} => i = j
  /\ \A e \in held \ RuleHitMeasurement(case) : \E i \in DOMAIN trail : e \in trail[i].added

(* Each dimension is measured by one source only, and with a verdict. *)
MeasuredBySource(evs) ==
  \A m \in Measurements(evs) :
    /\ m.verdict \in Verdicts
    /\ \/ m.dim = "listing_registry" /\ m.source = "ProductTool"
       \/ m.dim = "merchant_profile" /\ m.source = "MerchantTool"
       \/ m.dim = "text_compliance" /\ m.source = RuleEngine

(* What makes EvidenceProvenance inductive: the history alone accounts for *)
(* the published evidence, the whole trail for the working evidence.       *)
ProvenanceInv ==
  /\ AuditedBy(evidence, tool_call_history)
  /\ AuditedBy(WorkingEvidence, Trail)
  /\ MeasuredBySource(WorkingEvidence)
  /\ pc # "hypothesize" => RuleHitMeasurement(case) \subseteq evidence

(* One answer of a tool is signed by it and about the object it was asked  *)
(* for, and measures its dimension only.                                   *)
LEMMA AnswersSigned ==
  ASSUME NEW call, call.tool \in ToolNames, NEW evs \in EvidenceChoices(call)
  PROVE  (\A e \in evs : Answers(e, call)) /\ MeasuredBySource(evs)
<1>1. \A s \in ProductEvidence(call) :
        /\ \A e \in s : e.source = "ProductTool" /\ e.ref = SubjectOf(call)
        /\ MeasuredBySource(s)
  <2>1. ProductVerdicts(call) \subseteq Verdicts
    BY DEF ProductVerdicts, Verdicts
  <2> QED
    BY <2>1
    DEF ProductEvidence, PlainEvidence, MeasurementOf, MeasuredBySource, Measurements
<1>2. \A s \in MerchantEvidence(call) :
        /\ \A e \in s : e.source = "MerchantTool" /\ e.ref = SubjectOf(call)
        /\ MeasuredBySource(s)
  BY DEF MerchantEvidence, PlainEvidence, MeasurementOf, MeasuredBySource, Measurements
<1>3. \A s \in CaseSearchEvidence :
        (\A e \in s : e.source = "CaseSearchTool") /\ MeasuredBySource(s)
  BY DEF CaseSearchEvidence, PlainEvidence, MeasuredBySource, Measurements
<1>4. \A s \in PolicySearchEvidence :
        (\A e \in s : e.source = "PolicySearchTool") /\ MeasuredBySource(s)
  BY DEF PolicySearchEvidence, PlainEvidence, MeasuredBySource, Measurements
<1> QED
  BY <1>1, <1>2, <1>3, <1>4 DEF EvidenceChoices, ToolNames, Answers

(* A record that adds nothing leaves the account as it was. *)
LEMMA NothingAdded ==
  ASSUME NEW held, NEW trail \in Seq(Record), NEW rows \in Seq(Record),
         \A i \in DOMAIN rows : rows[i].added = {}, AuditedBy(held, trail)
  PROVE  AuditedBy(held, trail \o rows)
<1>1. /\ \A i \in DOMAIN trail : i \in DOMAIN (trail \o rows) /\ (trail \o rows)[i] = trail[i]
      /\ \A i \in DOMAIN (trail \o rows) : i \notin DOMAIN trail => (trail \o rows)[i].added = {}
  BY ConcatFacts
<1> QED
  BY <1>1 DEF AuditedBy

(* A record of new evidence accounts for it. *)
LEMMA NewlyAdded ==
  ASSUME NEW held, NEW trail \in Seq(Record), NEW record \in Record, AuditedBy(held, trail),
         record.added \cap held = {},
         \A e \in record.added : Answers(e, record.call) /\ record.status = "ok"
  PROVE  AuditedBy(held \cup record.added, Append(trail, record))
<1> DEFINE longer == Append(trail, record)
<1>1. /\ DOMAIN longer = DOMAIN trail \cup {Len(trail) + 1} /\ Len(trail) + 1 \notin DOMAIN trail
      /\ \A i \in DOMAIN trail : longer[i] = trail[i]
      /\ longer[Len(trail) + 1] = record
  BY AppendFacts
<1> HIDE DEF longer
<1>2. \A i \in DOMAIN longer : \A e \in longer[i].added :
        /\ e \in held \cup record.added
        /\ Answers(e, longer[i].call) /\ longer[i].status = "ok"
  BY <1>1 DEF AuditedBy
<1>3. \A i \in DOMAIN trail : trail[i].added \cap record.added = {}
  BY DEF AuditedBy
<1>4. \A i, j \in DOMAIN longer : longer[i].added \cap longer[j].added # {} => i = j
  BY <1>1, <1>3 DEF AuditedBy
<1>5. \A e \in (held \cup record.added) \ RuleHitMeasurement(case) :
        \E i \in DOMAIN longer : e \in longer[i].added
  BY <1>1 DEF AuditedBy
<1> QED
  BY <1>2, <1>4, <1>5 DEF AuditedBy, longer

(* Every step keeps ProvenanceInv. *)
LEMMA ProvenanceStep ==
  TypeOK /\ ControlInv /\ EvidenceInv /\ ProvenanceInv /\ [Next]_vars => ProvenanceInv'
<1> SUFFICES ASSUME TypeOK, ControlInv, EvidenceInv, ProvenanceInv, [Next]_vars
             PROVE  ProvenanceInv'
  OBVIOUS
<1>1. Trail \in Seq(Record) /\ tool_call_history \in Seq(Record)
  BY TrailFacts
<1>2. ASSUME UNCHANGED <<case, evidence, visit_added, tool_call_history, Trail>>,
             pc # "hypothesize" \/ UNCHANGED pc
      PROVE  ProvenanceInv'
  BY <1>2 DEF ProvenanceInv, AuditedBy, MeasuredBySource, WorkingEvidence
<1>3. CASE Hypothesize
  <2>1. evidence = {} /\ visit_added = {} /\ visit_added' = {}
        /\ UNCHANGED <<case, tool_call_history, Trail>>
    BY <1>3, QuietKeepsTrail DEF Hypothesize, ControlInv, Quiet, visit
  <2>2. evidence' = RuleHitMeasurement(case) /\ WorkingEvidence' = RuleHitMeasurement(case)
    BY <1>3, <2>1 DEF Hypothesize, MergeEvidence, NewEvidence, WorkingEvidence
  <2>3. MeasuredBySource(RuleHitMeasurement(case))
    BY DEF MeasuredBySource, Measurements, RuleHitMeasurement, MeasurementOf, Verdicts
  <2>4. /\ \A i \in DOMAIN tool_call_history : tool_call_history[i].added = {}
        /\ \A i \in DOMAIN Trail : Trail[i].added = {}
    <3>1. WorkingEvidence = {}
      BY <2>1 DEF WorkingEvidence
    <3> QED
      BY <2>1, <3>1 DEF ProvenanceInv, AuditedBy
  <2>5. /\ AuditedBy(evidence, tool_call_history)'
        /\ AuditedBy(WorkingEvidence, Trail)'
    BY <2>1, <2>2, <2>4 DEF AuditedBy
  <2> QED
    BY <2>1, <2>2, <2>3, <2>5 DEF ProvenanceInv, MeasuredBySource
<1>4. CASE Quiet /\ ~Hypothesize
  <2>1. UNCHANGED <<case, visit_added, tool_call_history, Trail>>
    BY <1>4, QuietKeepsTrail
  <2>2. evidence' = evidence /\ (pc # "hypothesize" \/ UNCHANGED pc)
    BY <1>4 DEF Quiet, PlanSkipped, PlanFailed, ReevaluateSkipped, Reevaluate,
       DecideUnassisted, DecideFailed, DecideProposed, vars, channels
  <2> QED
    BY <1>2, <2>1, <2>2
<1>5. CASE PlanAccepted
  <2>1. PICK rows \in Seq(Record) :
          /\ tool_call_history' = tool_call_history \o rows
          /\ \A i \in DOMAIN rows : rows[i].added = {}
          /\ Trail = tool_call_history /\ Trail' = tool_call_history'
          /\ case' = case
    BY <1>5, PlanAppends
  <2>2. evidence' = evidence /\ WorkingEvidence' = WorkingEvidence /\ pc = "plan"
    BY <1>5 DEF PlanAccepted, WorkingEvidence, visit
  <2>3. AuditedBy(evidence, tool_call_history \o rows)
        /\ AuditedBy(WorkingEvidence, tool_call_history \o rows)
    BY <1>1, <2>1, NothingAdded DEF ProvenanceInv
  <2> QED
    BY <2>1, <2>2, <2>3 DEF ProvenanceInv, AuditedBy, MeasuredBySource
<1>6. CASE CallRejected \/ CallFailed
  <2>1. PICK record \in Record :
          /\ record.added = {}
          /\ Trail' = Append(Trail, record)
          /\ UNCHANGED <<case, evidence, tool_call_history, visit_added, pc>>
    BY <1>6, ErrorAppends
  <2>2. AuditedBy(WorkingEvidence \cup {}, Append(Trail, record))
    BY <1>1, <2>1, NewlyAdded DEF ProvenanceInv
  <2>3. WorkingEvidence' = WorkingEvidence \cup {}
    BY <2>1 DEF WorkingEvidence
  <2> QED
    BY <2>1, <2>2, <2>3 DEF ProvenanceInv, AuditedBy, MeasuredBySource
<1>7. CASE CallSucceeded
  <2>1. PICK evs \in EvidenceChoices(Head(pending_tool_calls)), record \in Record :
          /\ record.call = Head(pending_tool_calls) /\ record.status = "ok"
          /\ record.added = NewEvidence(WorkingEvidence, evs)
          /\ visit_added' = visit_added \cup record.added
          /\ Trail' = Append(Trail, record)
    BY <1>7, SuccessAppends
  <2>2. /\ Head(pending_tool_calls).tool \in ToolNames /\ pc = "tools"
        /\ UNCHANGED <<case, evidence, tool_call_history, pc>>
    BY <1>7, SuccessAppends
  <2>3. (\A e \in evs : Answers(e, record.call)) /\ MeasuredBySource(evs)
    BY <2>1, <2>2, AnswersSigned
  <2>4. record.added \cap WorkingEvidence = {} /\ record.added \subseteq evs
    BY <2>1 DEF NewEvidence
  <2>5. WorkingEvidence' = WorkingEvidence \cup record.added
    BY <2>1, <2>2 DEF WorkingEvidence
  <2>6. AuditedBy(WorkingEvidence \cup record.added, Append(Trail, record))
    BY <1>1, <2>1, <2>3, <2>4, NewlyAdded DEF ProvenanceInv
  <2>7. MeasuredBySource(WorkingEvidence \cup record.added)
    BY <2>3, <2>4 DEF ProvenanceInv, MeasuredBySource, Measurements
  <2>8. AuditedBy(evidence, tool_call_history)'
    BY <2>2 DEF ProvenanceInv, AuditedBy
  <2>9. AuditedBy(WorkingEvidence, Trail)'
    <3>1. AuditedBy(WorkingEvidence', Trail')
      BY <2>1, <2>5, <2>6
    <3> QED
      BY <2>2, <3>1 DEF AuditedBy
  <2>10. MeasuredBySource(WorkingEvidence)'
    BY <2>5, <2>7 DEF MeasuredBySource
  <2> QED
    BY <2>2, <2>8, <2>9, <2>10 DEF ProvenanceInv
<1>8. CASE CallRaised
  <2>1. /\ Trail' = tool_call_history /\ WorkingEvidence' = evidence
        /\ UNCHANGED <<case, evidence, tool_call_history>> /\ pc = "tools"
    BY <1>8, RaiseDrops DEF CallRaised
  <2>2. MeasuredBySource(evidence)
    BY DEF ProvenanceInv, MeasuredBySource, Measurements, WorkingEvidence
  <2> QED
    BY <2>1, <2>2 DEF ProvenanceInv, AuditedBy, MeasuredBySource
<1>9. CASE ToolsReturn
  <2>1. /\ Trail' = Trail /\ tool_call_history' = Trail /\ evidence' = WorkingEvidence
        /\ WorkingEvidence' = WorkingEvidence /\ case' = case
    BY <1>9, ReturnPublishes DEF WorkingEvidence
  <2>2. RuleHitMeasurement(case) \subseteq WorkingEvidence
    BY <1>9 DEF ProvenanceInv, WorkingEvidence, ToolsReturn
  <2> QED
    BY <2>1, <2>2 DEF ProvenanceInv, AuditedBy, MeasuredBySource
<1> QED
  BY <1>3, <1>4, <1>5, <1>6, <1>7, <1>8, <1>9 DEF Next, Quiet

(* ProvenanceInv holds initially. *)
LEMMA ProvenanceInit == Init => ProvenanceInv
<1> SUFFICES ASSUME Init PROVE ProvenanceInv
  OBVIOUS
<1>1. Trail = <<>> /\ tool_call_history = <<>> /\ evidence = {} /\ WorkingEvidence = {}
      /\ pc = "hypothesize"
  BY DEF Init, Trail, WorkingEvidence
<1> QED
  BY <1>1 DEF ProvenanceInv, AuditedBy, MeasuredBySource, Measurements

(* The account of the trail is the provenance of the evidence. *)
LEMMA AuditedProvenance == TypeOK /\ ProvenanceInv => EvidenceProvenance
<1> SUFFICES ASSUME TypeOK, ProvenanceInv PROVE EvidenceProvenance
  OBVIOUS
<1> DEFINE ByCall(e) == {i \in DOMAIN Trail : e \in Trail[i].added}
<1>1. AuditedBy(WorkingEvidence, Trail) /\ WorkingEvidence = evidence \cup visit_added
  BY DEF ProvenanceInv, WorkingEvidence
<1>2. \A i \in DOMAIN Trail : Trail[i].added \subseteq WorkingEvidence
  BY <1>1 DEF AuditedBy
<1>3. ASSUME NEW e \in WorkingEvidence \ RuleHitMeasurement(case)
      PROVE  Cardinality(ByCall(e)) = 1
  <2>1. PICK i \in DOMAIN Trail : e \in Trail[i].added
    BY <1>1 DEF AuditedBy
  <2>2. \A j \in DOMAIN Trail : e \in Trail[j].added => j = i
    BY <1>1, <2>1 DEF AuditedBy
  <2>3. ByCall(e) = {i}
    BY <2>1, <2>2
  <2> QED
    BY <2>3, FS_Singleton
<1>4. ASSUME NEW e \in RuleHitMeasurement(case)
      PROVE  ByCall(e) = {}
  <2>1. e.source = RuleEngine
    BY DEF RuleHitMeasurement, MeasurementOf
  <2>2. \A i \in DOMAIN Trail : Trail[i].call.tool # RuleEngine
    <3>1. \A i \in DOMAIN Trail : Trail[i] \in Record
      BY TrailFacts
    <3> QED
      BY <3>1, CallsAssumption DEF Record, CallType, ToolNames, RuleEngine
  <2> QED
    BY <1>1, <2>1, <2>2 DEF AuditedBy, Answers
<1>5. \A i \in DOMAIN Trail : \A e \in Trail[i].added :
        Trail[i].status = "ok" /\ Answers(e, Trail[i].call)
  BY <1>1 DEF AuditedBy
<1> QED
  BY <1>1, <1>2, <1>3, <1>4, <1>5 DEF EvidenceProvenance

(* The trail accounts for the evidence in every run. *)
THEOREM ProvenanceInvariant == Spec => [](TypeOK /\ ControlInv /\ EvidenceInv /\ ProvenanceInv)
BY ProvenanceInit, ProvenanceStep, EvidenceCorrect, PTL DEF Spec

(* Every piece of evidence comes from the rules or from exactly one        *)
(* audited call, which succeeded and which it answers, in every run.       *)
THEOREM ProvenanceCorrect == Spec => []EvidenceProvenance
BY ProvenanceInvariant, AuditedProvenance, PTL

------------------------------------------------------------------------------
(* Marginal gain *)

(* With budget to spare, a call that adds nothing leaves the probe alone.  *)
LEMMA NoGainNoChange ==
  ASSUME TypeOK, ToolBudgetLeft, tool_calls + visit_calls + 1 # MaxToolCalls
  PROVE  ProbeOf(WorkingEvidence \cup {}, visit_calls + 1) = ProbeBefore
<1>1. tool_calls \in Nat /\ visit_calls \in Nat /\ MaxToolCalls \in Nat
  BY LimitsAssumption DEF TypeOK
<1>2. BudgetExceeded(llm_calls, tool_calls + (visit_calls + 1))
        <=> BudgetExceeded(llm_calls, tool_calls + visit_calls)
  BY <1>1 DEF BudgetExceeded, ToolBudgetLeft
<1>3. BudgetExceeded(llm_calls, tool_calls + (visit_calls + 1))
        = BudgetExceeded(llm_calls, tool_calls + visit_calls)
  BY <1>2 DEF BudgetExceeded
<1> QED
  BY <1>3 DEF ProbeOf, ProbeBefore, FactsOf

(* Every step keeps MarginalGain: a record that breaks even is followed by *)
(* no other call, because it can only be the last the budget allowed.      *)
LEMMA MarginalStep ==
  TypeOK /\ ControlInv /\ EvidenceInv /\ MarginalGain /\ [Next]_vars => MarginalGain'
<1> SUFFICES ASSUME TypeOK, ControlInv, EvidenceInv, MarginalGain, [Next]_vars
             PROVE  MarginalGain'
  OBVIOUS
<1>1. /\ Trail \in Seq(Record) /\ tool_call_history \in Seq(Record)
      /\ tool_calls \in Nat /\ visit_calls \in Nat /\ MaxToolCalls \in Nat
  BY TrailFacts, LimitsAssumption DEF TypeOK
<1>2. ToolBudgetLeft => \A i \in DOMAIN Trail : ~(Trail[i].changed /\ Trail[i].added = {})
  BY <1>1 DEF MarginalGain, ToolBudgetLeft
<1>3. CASE Quiet
  BY <1>3, QuietKeepsTrail DEF MarginalGain
<1>4. CASE PlanAccepted
  <2>1. PICK rows \in Seq(Record) :
          /\ tool_call_history' = tool_call_history \o rows
          /\ \A i \in DOMAIN rows : rows[i].status = "skipped" /\ ~rows[i].changed
          /\ Trail = tool_call_history /\ Trail' = tool_call_history'
          /\ UNCHANGED <<tool_calls, visit>>
    BY <1>4, PlanAppends
  <2>2. Successes(Trail') = Successes(Trail)
    BY <1>1, <2>1, SuccessesKept
  <2>3. \A i \in DOMAIN Trail' :
          \/ i \in DOMAIN Trail /\ Trail'[i] = Trail[i]
          \/ ~Trail'[i].changed
    BY <1>1, <2>1, ConcatFacts
  <2> QED
    BY <2>1, <2>2, <2>3 DEF MarginalGain, visit
<1>5. CASE CallRejected \/ CallFailed
  <2>1. PICK record \in Record :
          /\ ToolBudgetLeft /\ ~record.changed
          /\ Trail' = Append(Trail, record)
    BY <1>5, ErrorAppends
  <2>2. \A i \in DOMAIN Trail' :
          \/ i \in DOMAIN Trail /\ Trail'[i] = Trail[i]
          \/ ~Trail'[i].changed
    BY <1>1, <2>1, AppendFacts
  <2> QED
    BY <1>2, <2>1, <2>2 DEF MarginalGain
<1>6. CASE CallSucceeded
  <2>1. PICK evs \in EvidenceChoices(Head(pending_tool_calls)), record \in Record :
          /\ record = SuccessRecord(Head(pending_tool_calls), NewEvidence(WorkingEvidence, evs))
          /\ record.added = NewEvidence(WorkingEvidence, evs)
          /\ Trail' = Append(Trail, record)
    BY <1>6, SuccessAppends
  <2>2. ToolBudgetLeft /\ tool_calls' = tool_calls /\ visit_calls' = visit_calls + 1
    BY <1>6, SuccessAppends
  <2>3. record.changed /\ record.added = {} => tool_calls' + visit_calls' = MaxToolCalls
    <3>1. record.changed
            <=> ProbeBefore # ProbeOf(WorkingEvidence \cup record.added, visit_calls + 1)
      BY <2>1 DEF SuccessRecord
    <3> QED
      BY <1>1, <2>2, <3>1, NoGainNoChange
  <2>4. /\ DOMAIN Trail' = DOMAIN Trail \cup {Len(Trail) + 1}
        /\ DOMAIN Trail = 1..Len(Trail) /\ Len(Trail) \in Nat
        /\ \A i \in DOMAIN Trail : Trail'[i] = Trail[i]
        /\ Trail'[Len(Trail) + 1] = record
    BY <1>1, <2>1, AppendFacts
  <2>5. \A j \in Successes(Trail') : j <= Len(Trail) + 1
    BY <2>4 DEF Successes
  <2>6. \A i \in DOMAIN Trail' :
          Trail'[i].changed /\ Trail'[i].added = {} => i = Len(Trail) + 1
    BY <1>2, <2>2, <2>4
  <2>7. ASSUME NEW i \in DOMAIN Trail', Trail'[i].changed, Trail'[i].added = {}
        PROVE  /\ tool_calls' + visit_calls' = MaxToolCalls
               /\ \A j \in Successes(Trail') : j <= i
    BY <2>3, <2>4, <2>5, <2>6, <2>7
  <2> QED
    BY <2>7 DEF MarginalGain
<1>7. CASE CallRaised
  <2>1. Trail' = tool_call_history /\ ToolBudgetLeft
    BY <1>7, RaiseDrops DEF CallRaised
  <2>2. \A i \in DOMAIN tool_call_history : i \in DOMAIN Trail /\ Trail[i] = tool_call_history[i]
    BY ConcatFacts DEF Trail, TypeOK
  <2> QED
    BY <1>2, <2>1, <2>2 DEF MarginalGain
<1>8. CASE ToolsReturn
  <2>1. Trail' = Trail /\ tool_calls' + visit_calls' = tool_calls + visit_calls
    BY <1>1, <1>8, ReturnPublishes
  <2> QED
    BY <2>1 DEF MarginalGain
<1> QED
  BY <1>3, <1>4, <1>5, <1>6, <1>7, <1>8 DEF Next, Quiet

(* A call recorded as having changed the decision contributed evidence, or *)
(* was the one that used up the tool budget, in every run.                 *)
THEOREM MarginalGainCorrect == Spec => []MarginalGain
<1>1. Init => MarginalGain
  BY DEF Init, MarginalGain, Trail
<1> QED
  BY <1>1, MarginalStep, EvidenceCorrect, PTL DEF Spec

==============================================================================
