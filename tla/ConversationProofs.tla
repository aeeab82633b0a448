-------------------------- MODULE ConversationProofs --------------------------
(***************************************************************************)
(* Proofs about the conversation of a run, for every budget and any amount *)
(* of evidence.                                                            *)
(***************************************************************************)
EXTENDS ConversationProperties, TLAPS, SequenceTheorems, FiniteSetTheorems

(* Nothing is known before hypothesize returns; a turn shows evidence that *)
(* exists, so the types of the messages depend on how much there is.       *)
StartInv == node = "hypothesize" => evidence = <<>> /\ llm_evidence_cursor = 0

TypeInv == TypeOK /\ StartInv

(* More evidence means more messages. *)
LEMMA MessagesGrow ==
  ASSUME NEW S, NEW T, S \subseteq T
  PROVE  /\ Message(S) \subseteq Message(T)
         /\ Seq(Message(S)) \subseteq Seq(Message(T))
<1>1. SUBSET S \subseteq SUBSET T
  OBVIOUS
<1>2. Message(S) \subseteq Message(T)
  BY <1>1 DEF Message
<1> QED
  BY <1>2

(* What the attempts of a call render and collect is made of messages. *)
LEMMA MessagesTyped ==
  ASSUME TypeOK, NEW kind \in Answers
  PROVE  /\ Rendered(call) \in Seq(Message(DOMAIN evidence))
         /\ Collected(kind) \in Seq(Message(DOMAIN evidence))
<1> DEFINE M == Message(DOMAIN evidence)
<1>1. call.turn \in M /\ call.turn.node \in LLMNodes
  BY DEF TypeOK, CallRecord, Message
<1>2. Correction(call.turn.node) \in M /\ Answer(call.turn.node, kind) \in M
  BY <1>1 DEF Correction, Answer, Message, Answers
<1>3. call.messages \in Seq(M) /\ llm_messages \in Seq(M)
  BY DEF TypeOK, CallRecord
<1> HIDE DEF M
<1>4. /\ <<call.turn>> \in Seq(M) /\ <<Correction(call.turn.node)>> \in Seq(M)
      /\ <<Answer(call.turn.node, kind)>> \in Seq(M) /\ <<>> \in Seq(M)
  BY <1>1, <1>2
<1>5. NewMessages(call) \in Seq(M) /\ KeptAnswer(call, kind) \in Seq(M)
  BY <1>4 DEF NewMessages, KeptAnswer
<1>6. Collected(kind) \in Seq(M)
  BY <1>3, <1>5 DEF Collected
<1>7. Rendered(call) \in Seq(M)
  BY <1>3, <1>4 DEF Rendered
<1> QED
  BY <1>6, <1>7 DEF M

LEMMA TypeInit == Init => TypeInv
<1> SUFFICES ASSUME Init PROVE TypeInv
  OBVIOUS
<1>1. <<>> \in Seq(Message(DOMAIN evidence)) /\ <<>> \in Seq(EvidenceKinds)
  OBVIOUS
<1>2. NoCall \in CallRecord
  BY <1>1 DEF NoCall, CallRecord, Stages, Turn, Message, LLMNodes
<1>3. llm_evidence_cursor \in 0..Len(evidence)
  BY DEF Init
<1> QED
  BY <1>1, <1>2, <1>3 DEF Init, TypeInv, TypeOK, StartInv, LLMNodes

(* An attempt keeps the shell well-typed and touches nothing else. *)
LEMMA AttemptType ==
  ASSUME TypeInv, MakeAttempt
  PROVE  TypeInv'
<1> USE DEF TypeInv
<1>1. Request /\ UNCHANGED <<graph, llm_messages>>
  BY DEF MakeAttempt, Attempt, AttemptRaised, AttemptValidated, AttemptRejected,
         AttemptGivenUp, AttemptAnswered
<1>2. requests' \in Nat /\ sent' \in Seq(Message(DOMAIN evidence))
  <2>1. Rendered(call) \in Seq(Message(DOMAIN evidence))
    BY MessagesTyped DEF Answers
  <2> QED
    BY <1>1, <2>1 DEF Request, TypeOK
<1>3. call' \in CallRecord
  <2>1. \A kind \in Answers : Collected(kind) \in Seq(Message(DOMAIN evidence))
    BY MessagesTyped
  <2>2. call \in CallRecord
    BY DEF TypeOK
  <2>3. CASE AttemptRaised
    BY <2>2, <2>3 DEF AttemptRaised, CallRecord, Stages
  <2>4. CASE AttemptValidated
    BY <2>1, <2>2, <2>4 DEF AttemptValidated, CallRecord, Stages, Answers
  <2>5. CASE AttemptRejected
    BY <2>1, <2>2, <2>5 DEF AttemptRejected, CallRecord, Stages, Answers
  <2>6. CASE AttemptGivenUp
    BY <2>1, <2>2, <2>6 DEF AttemptGivenUp, CallRecord, Stages, Answers
  <2> QED
    BY <2>3, <2>4, <2>5, <2>6 DEF MakeAttempt, Attempt
<1>4. CallRecord' = CallRecord
  BY <1>1 DEF CallRecord, graph
<1> QED
  BY <1>1, <1>2, <1>3, <1>4 DEF TypeOK, StartInv, graph

(* The part of the state that the end of a call writes, whatever evidence  *)
(* the node adds.                                                          *)
LEMMA ConcludeType ==
  ASSUME TypeInv, Conclude, DOMAIN evidence \subseteq DOMAIN evidence'
  PROVE  /\ llm_messages' \in Seq(Message(DOMAIN evidence'))
         /\ sent' \in Seq(Message(DOMAIN evidence'))
         /\ call' \in CallRecord'
         /\ requests' \in Nat /\ llm_calls' \in Nat
         /\ tool_budget_left' \in BOOLEAN /\ text_hit' \in BOOLEAN
<1>1. /\ llm_messages \in Seq(Message(DOMAIN evidence)) /\ sent \in Seq(Message(DOMAIN evidence))
      /\ call.messages \in Seq(Message(DOMAIN evidence)) /\ call.attempt \in {1, 2}
  BY DEF TypeInv, TypeOK, CallRecord
<1>2. llm_messages \o call.messages \in Seq(Message(DOMAIN evidence))
  <2> DEFINE M == Message(DOMAIN evidence)
  <2>1. llm_messages \in Seq(M) /\ call.messages \in Seq(M)
    BY <1>1
  <2> HIDE DEF M
  <2>2. llm_messages \o call.messages \in Seq(M)
    BY <2>1
  <2> QED
    BY <2>2 DEF M
<1>3. Seq(Message(DOMAIN evidence)) \subseteq Seq(Message(DOMAIN evidence'))
  BY MessagesGrow
<1>4. NoCall \in CallRecord'
  <2>1. <<>> \in Seq(Message(DOMAIN evidence'))
    OBVIOUS
  <2> QED
    BY <2>1 DEF NoCall, CallRecord, Stages, Turn, Message, LLMNodes
<1> QED
  BY <1>1, <1>2, <1>3, <1>4 DEF Conclude, ChargedCalls, TypeInv, TypeOK

(* A step keeps the types. *)
LEMMA TypeStep == TypeInv /\ [Next]_vars => TypeInv'
<1> SUFFICES ASSUME TypeInv, [Next]_vars PROVE TypeInv'
  OBVIOUS
<1> USE DEF TypeInv
<1>e. /\ evidence \in Seq(EvidenceKinds) /\ Len(evidence) \in Nat
      /\ DOMAIN evidence = 1..Len(evidence) /\ llm_evidence_cursor \in 0..Len(evidence)
  BY DEF TypeOK
<1>1. CASE BeginCall
  <2>1. Turn(node, ShownEvidence(node)) \in Message(DOMAIN evidence)
    BY <1>1 DEF BeginCall, Turn, Message, ShownEvidence
  <2>2. <<>> \in Seq(Message(DOMAIN evidence))
    OBVIOUS
  <2>3. call' \in CallRecord
    BY <1>1, <2>1, <2>2 DEF BeginCall, StartCall, NoCall, CallRecord, Stages
  <2> QED
    BY <1>1, <2>3 DEF BeginCall, StartCall, graph, TypeOK, StartInv, CallRecord
<1>2. CASE MakeAttempt
  BY <1>2, AttemptType
<1>3. CASE HypothesizeReturns
  <2>1. evidence = <<>> /\ llm_evidence_cursor' = 0
    BY <1>3 DEF HypothesizeReturns, Returning, StartInv
  <2>2. evidence' \in Seq(EvidenceKinds) /\ Len(evidence') \in Nat
    <3>1. "rule" \in EvidenceKinds
      BY DEF EvidenceKinds
    <3>2. <<"rule">> \in Seq(EvidenceKinds) /\ <<>> \in Seq(EvidenceKinds)
      BY <3>1
    <3>3. evidence' = <<"rule">> \/ evidence' = <<>>
      BY <1>3 DEF HypothesizeReturns
    <3> QED
      BY <3>2, <3>3
  <2>3. DOMAIN evidence \subseteq DOMAIN evidence'
    BY <2>1
  <2> QED
    BY <1>3, <2>1, <2>2, <2>3, ConcludeType DEF HypothesizeReturns, TypeOK, StartInv, LLMNodes
<1>4. CASE PlanReturns
  <2>1. evidence' = evidence /\ llm_evidence_cursor' = llm_evidence_cursor
    BY <1>4 DEF PlanReturns
  <2>2. node' \in {"tools", "decide"} /\ degraded' \in BOOLEAN
    BY <1>4 DEF PlanReturns
  <2> QED
    BY <1>4, <1>e, <2>1, <2>2, ConcludeType DEF PlanReturns, TypeOK, StartInv, LLMNodes
<1>5. CASE Tools
  <2>a. PICK n \in 0..MaxNewEvidence :
          \E new \in [1..n -> {"citable", "other"}] : evidence' = evidence \o new
    BY <1>5 DEF Tools
  <2>1. PICK new \in [1..n -> {"citable", "other"}] : evidence' = evidence \o new
    BY <2>a
  <2>2. new \in Seq(EvidenceKinds) /\ Len(new) \in Nat
    <3>1. n \in Nat /\ new \in [1..n -> EvidenceKinds]
      BY ConversationAssumption DEF EvidenceKinds
    <3> QED
      BY <3>1
  <2>3. /\ evidence' \in Seq(EvidenceKinds) /\ Len(evidence') = Len(evidence) + Len(new)
        /\ DOMAIN evidence' = 1..Len(evidence')
    BY <1>e, <2>1, <2>2
  <2>4. DOMAIN evidence \subseteq DOMAIN evidence' /\ llm_evidence_cursor' \in 0..Len(evidence')
    BY <1>5, <1>e, <2>2, <2>3 DEF Tools
  <2>5. /\ Message(DOMAIN evidence) \subseteq Message(DOMAIN evidence')
        /\ Seq(Message(DOMAIN evidence)) \subseteq Seq(Message(DOMAIN evidence'))
    BY <2>4, MessagesGrow
  <2>6. call' \in CallRecord'
    BY <1>5, <2>5 DEF Tools, shell, CallRecord, TypeOK
  <2> QED
    BY <1>5, <2>3, <2>4, <2>5, <2>6 DEF Tools, shell, TypeOK, StartInv, LLMNodes
<1>6. CASE ReevaluateReturns
  <2>1. /\ evidence' = evidence /\ llm_evidence_cursor' \in 0..Len(evidence)
        /\ node' \in {"plan", "decide"} /\ degraded' \in BOOLEAN
    BY <1>6, <1>e DEF ReevaluateReturns, CursorAfterCall
  <2> QED
    BY <1>6, <1>e, <2>1, ConcludeType DEF ReevaluateReturns, TypeOK, StartInv, LLMNodes
<1>7. CASE DecideReturns
  <2>1. evidence' = evidence /\ llm_evidence_cursor' = llm_evidence_cursor
    BY <1>7 DEF DecideReturns
  <2> QED
    BY <1>7, <1>e, <2>1, ConcludeType DEF DecideReturns, TypeOK, StartInv
<1>8. CASE CallSkipped
  <2>1. UNCHANGED <<shell, evidence, llm_evidence_cursor, llm_calls, tool_budget_left, text_hit>>
    BY <1>8 DEF CallSkipped
  <2>2. node' \in {"done", "decide"} /\ degraded' \in BOOLEAN
    BY <1>8 DEF CallSkipped, TypeOK
  <2> QED
    BY <2>1, <2>2 DEF shell, TypeOK, StartInv, LLMNodes, CallRecord
<1>9. CASE UNCHANGED vars
  BY <1>9 DEF vars, shell, graph, TypeOK, StartInv, CallRecord
<1> QED
  BY <1>1, <1>2, <1>3, <1>4, <1>5, <1>6, <1>7, <1>8, <1>9 DEF Next

LEMMA TypeInvariant == Spec => []TypeInv
<1> QED
  BY TypeInit, TypeStep, PTL DEF Spec

(* Type correctness: the history and the call under way are made of        *)
(* messages that show only evidence there is, and the cursor never points  *)
(* beyond the evidence.                                                    *)
THEOREM TypeCorrect == Spec => []TypeOK
<1>1. TypeInv => TypeOK
  BY DEF TypeInv
<1> QED
  BY <1>1, TypeInvariant, PTL

------------------------------------------------------------------------------
(* The account of attempts *)

(* During a call the attempts made are ahead of the charges by those of    *)
(* this call, and the call was begun within the budget.                    *)
AccountInv ==
  /\ call.stage = "idle" => requests = llm_calls /\ requests <= MaxLLMCalls + 1
  /\ call.stage = "attempting" => requests = llm_calls + call.attempt - 1
  /\ call.stage \in {"answered", "failed"} => requests = llm_calls + call.attempt
  /\ call.stage # "idle" => llm_calls < MaxLLMCalls

LEMMA AccountInit == Init => AccountInv
  BY ConversationAssumption DEF Init, AccountInv, NoCall

LEMMA AccountStep == TypeInv /\ AccountInv /\ [Next]_vars => AccountInv'
<1> SUFFICES ASSUME TypeInv, AccountInv, [Next]_vars PROVE AccountInv'
  OBVIOUS
<1>t. /\ call \in CallRecord /\ requests \in Nat /\ llm_calls \in Nat /\ MaxLLMCalls \in Nat
      /\ call.stage \in Stages /\ call.attempt \in {1, 2}
  BY ConversationAssumption DEF TypeInv, TypeOK, CallRecord
<1>1. CASE BeginCall
  <2>1. call'.stage = "attempting" /\ call'.attempt = 1
    BY <1>1 DEF BeginCall, StartCall, NoCall
  <2>2. UNCHANGED <<requests, llm_calls>> /\ llm_calls < MaxLLMCalls
    BY <1>1, <1>t DEF BeginCall, StartCall, graph, CanCallLLM, BudgetExceeded
  <2> QED
    BY <1>1, <1>t, <2>1, <2>2 DEF AccountInv, BeginCall
<1>2. CASE MakeAttempt
  <2>1. /\ call.stage = "attempting" /\ requests' = requests + 1 /\ llm_calls' = llm_calls
    BY <1>2 DEF MakeAttempt, Attempt, AttemptRaised, AttemptValidated, AttemptRejected,
                AttemptGivenUp, AttemptAnswered, Request, graph
  <2>2. \/ call'.stage = "attempting" /\ call.attempt = 1 /\ call'.attempt = 2
        \/ call'.stage \in {"answered", "failed"} /\ call'.attempt = call.attempt
    <3>1. CASE AttemptRaised
      BY <1>t, <2>1, <3>1 DEF AttemptRaised, CallRecord
    <3>2. CASE AttemptValidated
      BY <1>t, <2>1, <3>2 DEF AttemptValidated, CallRecord
    <3>3. CASE AttemptRejected
      BY <1>t, <2>1, <3>3 DEF AttemptRejected, CallRecord
    <3>4. CASE AttemptGivenUp
      BY <1>t, <2>1, <3>4 DEF AttemptGivenUp, CallRecord
    <3> QED
      BY <1>2, <3>1, <3>2, <3>3, <3>4 DEF MakeAttempt, Attempt
  <2> QED
    BY <1>t, <2>1, <2>2 DEF AccountInv
<1>3. ASSUME NEW n \in LLMNodes, Returning(n), Conclude PROVE AccountInv'
  <2>1. call'.stage = "idle" /\ requests' = requests /\ llm_calls' = llm_calls + call.attempt
    BY <1>3 DEF Conclude, NoCall, ChargedCalls
  <2> QED
    BY <1>3, <1>t, <2>1 DEF AccountInv, Returning
<1>4. CASE HypothesizeReturns
  BY <1>3, <1>4 DEF HypothesizeReturns, LLMNodes
<1>5. CASE PlanReturns
  BY <1>3, <1>5 DEF PlanReturns, LLMNodes
<1>6. CASE ReevaluateReturns
  BY <1>3, <1>6 DEF ReevaluateReturns, LLMNodes
<1>7. CASE DecideReturns
  BY <1>3, <1>7 DEF DecideReturns, LLMNodes
<1>8. CASE Tools \/ CallSkipped \/ UNCHANGED vars
  BY <1>8 DEF Tools, CallSkipped, vars, shell, graph, AccountInv
<1> QED
  BY <1>1, <1>2, <1>4, <1>5, <1>6, <1>7, <1>8 DEF Next

(* Every attempt is charged exactly once, whatever became of it, and the   *)
(* gateway is asked at most once more often than the budget allows.        *)
THEOREM AttemptsCorrect == Spec => []AttemptsCharged
<1>1. TypeInv /\ AccountInv => AttemptsCharged
  BY ConversationAssumption DEF TypeInv, TypeOK, CallRecord, Stages, AccountInv,
     AttemptsCharged, Calling
<1> QED
  BY <1>1, TypeInvariant, AccountInit, AccountStep, PTL DEF Spec

------------------------------------------------------------------------------
(* The messages of a call *)

Invalid == Answer(call.turn.node, "invalid")
Valid == Answer(call.turn.node, "valid")
Corrected == Correction(call.turn.node)

(* What a first answer that did not validate leaves, and what the retry    *)
(* with a correction makes of it.                                          *)
Rejected == {<<call.turn>>, <<call.turn, Invalid>>}
Retried == {<<call.turn, Corrected>>, <<call.turn, Invalid, Corrected>>}
RetriedValid == {<<call.turn, Corrected, Valid>>, <<call.turn, Invalid, Corrected, Valid>>}
RetriedInvalid == {<<call.turn, Corrected, Invalid>>, <<call.turn, Invalid, Corrected, Invalid>>}

(* Every list of messages a call may have collected, by its stage; when it *)
(* is answered, the last request is the one that was.                      *)
ShapeInv ==
  /\ call.stage = "idle" => call = NoCall
  /\ call.stage = "attempting" =>
       IF call.corrected THEN call.attempt = 2 /\ call.messages \in Rejected
       ELSE call.messages = <<>>
  /\ call.stage = "answered" =>
       /\ sent = Rendered(call)
       /\ IF call.corrected THEN call.messages \in RetriedValid
          ELSE call.messages = <<call.turn, Valid>>
  /\ call.stage = "failed" =>
       call.messages \in {<<>>} \cup Rejected \cup Retried \cup RetriedInvalid

(* A list that is another one with one element more. *)
LEMMA OneMore ==
  ASSUME NEW S, NEW s \in Seq(S), NEW t \in Seq(S), NEW e \in S,
         Len(t) = Len(s) + 1, \A i \in 1..Len(s) : t[i] = s[i], t[Len(s) + 1] = e
  PROVE  s \o <<e>> = t
<1>1. <<e>> \in Seq(S) /\ Len(<<e>>) = 1 /\ <<e>>[1] = e
  OBVIOUS
<1> DEFINE last == <<e>>
<1> HIDE DEF last
<1>2. last \in Seq(S) /\ Len(last) = 1 /\ last[1] = e
  BY <1>1 DEF last
<1>3. /\ s \o last \in Seq(S) /\ Len(s \o last) = Len(s) + 1 /\ Len(s) \in Nat
      /\ \A i \in 1..(Len(s) + 1) :
           (s \o last)[i] = IF i <= Len(s) THEN s[i] ELSE last[i - Len(s)]
  <2>1. /\ s \o last \in Seq(S) /\ Len(s \o last) = Len(s) + Len(last)
        /\ \A i \in 1..(Len(s) + Len(last)) :
             (s \o last)[i] = IF i <= Len(s) THEN s[i] ELSE last[i - Len(s)]
    BY <1>2, ConcatProperties
  <2>2. Len(s) \in Nat
    BY LenProperties
  <2> QED
    BY <1>2, <2>1, <2>2
<1>4. \A i \in 1..Len(t) : (s \o last)[i] = t[i]
  <2>1. \A i \in 1..(Len(s) + 1) : i \in 1..Len(s) \/ i = Len(s) + 1
    BY <1>3
  <2>2. \A i \in 1..Len(s) : (s \o last)[i] = s[i]
    BY <1>3
  <2>3. (s \o last)[Len(s) + 1] = e
    BY <1>2, <1>3
  <2> QED
    BY <2>1, <2>2, <2>3
<1>5. s \o last = t
  BY <1>3, <1>4, SeqEqual
<1> QED
  BY <1>5 DEF last

(* Short lists, joined. *)
LEMMA JoinAfter1 ==
  ASSUME NEW S, NEW a \in S, NEW b \in S
  PROVE  <<a>> \o <<b>> = <<a, b>> /\ <<a>> \o <<>> = <<a>>
<1> DEFINE s == <<a>>
           t == <<a, b>>
<1>1. s \in Seq(S) /\ t \in Seq(S)
  OBVIOUS
<1>2. Len(s) = 1 /\ Len(t) = 2 /\ t[2] = b
  OBVIOUS
<1>3. \A i \in 1..1 : t[i] = s[i]
  OBVIOUS
<1> HIDE DEF s, t
<1>4. s \o <<b>> = t
  <2>1. Len(t) = Len(s) + 1 /\ t[Len(s) + 1] = b
    BY <1>2
  <2>2. \A i \in 1..Len(s) : t[i] = s[i]
    BY <1>2, <1>3
  <2> QED
    BY <1>1, <2>1, <2>2, OneMore
<1>5. s \o <<>> = s
  BY <1>1, ConcatEmptySeq
<1> QED
  BY <1>4, <1>5 DEF s, t

LEMMA JoinAfter2 ==
  ASSUME NEW S, NEW a \in S, NEW b \in S, NEW c \in S
  PROVE  <<a, b>> \o <<c>> = <<a, b, c>> /\ <<a, b>> \o <<>> = <<a, b>>
<1> DEFINE s == <<a, b>>
           t == <<a, b, c>>
<1>1. s \in Seq(S) /\ t \in Seq(S)
  OBVIOUS
<1>2. Len(s) = 2 /\ Len(t) = 3 /\ t[3] = c
  OBVIOUS
<1>3. \A i \in 1..2 : t[i] = s[i]
  OBVIOUS
<1> HIDE DEF s, t
<1>4. s \o <<c>> = t
  <2>1. Len(t) = Len(s) + 1 /\ t[Len(s) + 1] = c
    BY <1>2
  <2>2. \A i \in 1..Len(s) : t[i] = s[i]
    BY <1>2, <1>3
  <2> QED
    BY <1>1, <2>1, <2>2, OneMore
<1>5. s \o <<>> = s
  BY <1>1, ConcatEmptySeq
<1> QED
  BY <1>4, <1>5 DEF s, t

LEMMA JoinAfter3 ==
  ASSUME NEW S, NEW a \in S, NEW b \in S, NEW c \in S, NEW d \in S
  PROVE  <<a, b, c>> \o <<d>> = <<a, b, c, d>> /\ <<a, b, c>> \o <<>> = <<a, b, c>>
<1> DEFINE s == <<a, b, c>>
           t == <<a, b, c, d>>
<1>1. s \in Seq(S) /\ t \in Seq(S)
  OBVIOUS
<1>2. Len(s) = 3 /\ Len(t) = 4 /\ t[4] = d
  OBVIOUS
<1>3. \A i \in 1..3 : t[i] = s[i]
  OBVIOUS
<1> HIDE DEF s, t
<1>4. s \o <<d>> = t
  <2>1. Len(t) = Len(s) + 1 /\ t[Len(s) + 1] = d
    BY <1>2
  <2>2. \A i \in 1..Len(s) : t[i] = s[i]
    BY <1>2, <1>3
  <2> QED
    BY <1>1, <2>1, <2>2, OneMore
<1>5. s \o <<>> = s
  BY <1>1, ConcatEmptySeq
<1> QED
  BY <1>4, <1>5 DEF s, t

(* What an answer adds to a call that has been corrected or not. *)
LEMMA CollectedShapes ==
  ASSUME call.corrected => call.messages \in Rejected, ~call.corrected => call.messages = <<>>,
         call.corrected \in BOOLEAN
  PROVE  /\ Collected("valid") \in IF call.corrected THEN RetriedValid ELSE {<<call.turn, Valid>>}
         /\ Collected("invalid") \in IF call.corrected THEN RetriedInvalid
                                     ELSE {<<call.turn, Invalid>>}
         /\ Collected("empty") \in IF call.corrected THEN Retried ELSE {<<call.turn>>}
<1> DEFINE S == {call.turn, Invalid, Valid, Corrected}
<1>0. call.turn \in S /\ Invalid \in S /\ Valid \in S /\ Corrected \in S
  OBVIOUS
<1> HIDE DEF S
<1>1. /\ KeptAnswer(call, "valid") = <<Valid>> /\ KeptAnswer(call, "invalid") = <<Invalid>>
      /\ KeptAnswer(call, "empty") = <<>>
  BY DEF KeptAnswer, Valid, Invalid
<1>2. CASE ~call.corrected
  <2>1. call.messages = <<>> /\ NewMessages(call) = <<call.turn>>
    BY <1>2 DEF NewMessages
  <2>2. <<>> \o <<call.turn>> = <<call.turn>>
    BY <1>0, ConcatEmptySeq
  <2>3. /\ Collected("valid") = <<call.turn>> \o <<Valid>>
        /\ Collected("invalid") = <<call.turn>> \o <<Invalid>>
        /\ Collected("empty") = <<call.turn>> \o <<>>
    BY <1>1, <2>1, <2>2 DEF Collected
  <2>4. /\ Collected("valid") = <<call.turn, Valid>> /\ Collected("invalid") = <<call.turn, Invalid>>
        /\ Collected("empty") = <<call.turn>>
    BY <1>0, <2>3, JoinAfter1
  <2> QED
    BY <1>2, <2>4
<1>3. CASE call.corrected
  <2>1. call.messages \in Rejected /\ NewMessages(call) = <<Corrected>>
    BY <1>3 DEF NewMessages, Corrected
  <2>2. /\ Collected("valid") = (call.messages \o <<Corrected>>) \o <<Valid>>
        /\ Collected("invalid") = (call.messages \o <<Corrected>>) \o <<Invalid>>
        /\ Collected("empty") = (call.messages \o <<Corrected>>) \o <<>>
    BY <1>1, <2>1 DEF Collected
  <2>3. CASE call.messages = <<call.turn>>
    <3>1. call.messages \o <<Corrected>> = <<call.turn, Corrected>>
      BY <1>0, <2>3, JoinAfter1
    <3>2. /\ Collected("valid") = <<call.turn, Corrected, Valid>>
          /\ Collected("invalid") = <<call.turn, Corrected, Invalid>>
          /\ Collected("empty") = <<call.turn, Corrected>>
      BY <1>0, <2>2, <3>1, JoinAfter2
    <3> QED
      BY <1>3, <3>2 DEF RetriedValid, RetriedInvalid, Retried
  <2>4. CASE call.messages = <<call.turn, Invalid>>
    <3>1. call.messages \o <<Corrected>> = <<call.turn, Invalid, Corrected>>
      BY <1>0, <2>4, JoinAfter2
    <3>2. <<call.turn, Invalid, Corrected>> \o <<Valid>> = <<call.turn, Invalid, Corrected, Valid>>
      BY <1>0, JoinAfter3
    <3>3. <<call.turn, Invalid, Corrected>> \o <<Invalid>>
            = <<call.turn, Invalid, Corrected, Invalid>>
      BY <1>0, JoinAfter3
    <3>4. Collected("empty") = <<call.turn, Invalid, Corrected>>
      BY <1>0, <2>2, <3>1, JoinAfter3
    <3> QED
      BY <1>3, <2>2, <3>1, <3>2, <3>3, <3>4 DEF RetriedValid, RetriedInvalid, Retried
  <2> QED
    BY <2>1, <2>3, <2>4 DEF Rejected
<1> QED
  BY <1>2, <1>3

(* An attempt leaves one of these lists. *)
LEMMA AttemptShape ==
  ASSUME TypeOK, ShapeInv, MakeAttempt
  PROVE  ShapeInv'
<1>1. /\ call.stage = "attempting" /\ call \in CallRecord /\ llm_messages' = llm_messages
      /\ call.corrected => call.messages \in Rejected
      /\ ~call.corrected => call.messages = <<>>
      /\ call.corrected \in BOOLEAN
  BY DEF MakeAttempt, Attempt, AttemptRaised, AttemptValidated, AttemptRejected,
         AttemptGivenUp, AttemptAnswered, Request, TypeOK, CallRecord, ShapeInv
<1>2. /\ Collected("valid") \in IF call.corrected THEN RetriedValid ELSE {<<call.turn, Valid>>}
      /\ Collected("invalid") \in IF call.corrected THEN RetriedInvalid
                                  ELSE {<<call.turn, Invalid>>}
      /\ Collected("empty") \in IF call.corrected THEN Retried ELSE {<<call.turn>>}
  BY <1>1, CollectedShapes
<1>3. ASSUME call'.turn = call.turn
      PROVE  /\ Rejected' = Rejected /\ Retried' = Retried
             /\ RetriedValid' = RetriedValid /\ RetriedInvalid' = RetriedInvalid /\ Valid' = Valid
  BY <1>3 DEF Rejected, Retried, RetriedValid, RetriedInvalid, Valid, Invalid, Corrected
<1>4. CASE AttemptRaised
  <2>1. CASE call.attempt = 1
    <3>1. /\ call'.stage = "attempting" /\ call'.turn = call.turn /\ ~call'.corrected
          /\ call'.messages = <<>>
      BY <1>1, <1>4, <2>1 DEF AttemptRaised, ShapeInv, CallRecord
    <3> QED
      BY <3>1 DEF ShapeInv
  <2>2. CASE call.attempt # 1
    <3>1. /\ call'.stage = "failed" /\ call'.turn = call.turn /\ call'.messages = call.messages
      BY <1>1, <1>4, <2>2 DEF AttemptRaised, CallRecord
    <3>2. call'.messages \in {<<>>} \cup Rejected'
      BY <1>1, <1>3, <3>1
    <3> QED
      BY <3>1, <3>2 DEF ShapeInv
  <2> QED
    BY <2>1, <2>2
<1>5. CASE AttemptValidated
  <2>1. /\ call'.stage = "answered" /\ call'.turn = call.turn /\ call'.corrected = call.corrected
        /\ call'.messages = Collected("valid")
    BY <1>1, <1>5 DEF AttemptValidated, CallRecord
  <2>2. sent' = Rendered(call)'
    BY <1>1, <1>5, <2>1 DEF AttemptValidated, AttemptAnswered, Request, Rendered
  <2>3. IF call'.corrected THEN call'.messages \in RetriedValid'
        ELSE call'.messages = <<call'.turn, Valid'>>
    BY <1>2, <1>3, <2>1
  <2> QED
    BY <2>1, <2>2, <2>3 DEF ShapeInv
<1>6. CASE AttemptRejected
  <2>1. PICK kind \in {"invalid", "empty"} :
          /\ call.attempt = 1
          /\ call' = [call EXCEPT !.attempt = 2, !.corrected = TRUE, !.messages = Collected(kind)]
    BY <1>6 DEF AttemptRejected
  <2>2. ~call.corrected
    BY <1>1, <2>1 DEF ShapeInv
  <2>3. /\ call'.stage = "attempting" /\ call'.turn = call.turn /\ call'.corrected
        /\ call'.attempt = 2 /\ call'.messages = Collected(kind)
    BY <1>1, <2>1 DEF CallRecord
  <2>4. call'.messages \in Rejected'
    BY <1>2, <1>3, <2>2, <2>3 DEF Rejected
  <2> QED
    BY <2>3, <2>4 DEF ShapeInv
<1>7. CASE AttemptGivenUp
  <2>1. PICK kind \in {"invalid", "empty"} :
          call' = [call EXCEPT !.stage = "failed", !.messages = Collected(kind)]
    BY <1>7 DEF AttemptGivenUp
  <2>2. call'.stage = "failed" /\ call'.turn = call.turn /\ call'.messages = Collected(kind)
    BY <1>1, <2>1 DEF CallRecord
  <2>3. call'.messages \in Rejected \cup Retried \cup RetriedInvalid
    BY <1>2, <2>2 DEF Rejected
  <2> QED
    BY <1>3, <2>2, <2>3 DEF ShapeInv
<1> QED
  BY <1>4, <1>5, <1>6, <1>7 DEF MakeAttempt, Attempt

(* The messages of one call: its turn, corrections and answers of the same *)
(* node after it, each after what it answers or corrects.                  *)
Segment(messages, turn) ==
  \A i \in DOMAIN messages :
    IF i = 1 THEN messages[i] = turn
    ELSE /\ messages[i].node = turn.node /\ messages[i].shows = {}
         /\ \/ messages[i].kind = "correction" /\ messages[i - 1].kind \in {"turn", "invalid"}
            \/ messages[i].kind \in {"valid", "invalid"}
               /\ messages[i - 1].kind \in {"turn", "correction"}

(* The lists a call may have collected are such segments. *)
LEMMA ShapesAreSegments ==
  ASSUME call.turn.kind = "turn"
  PROVE  \A s \in {<<>>, <<call.turn, Valid>>} \cup Rejected \cup Retried
                    \cup RetriedValid \cup RetriedInvalid : Segment(s, call.turn)
<1> DEFINE turn == call.turn
<1>1. /\ Invalid.kind = "invalid" /\ Invalid.node = turn.node /\ Invalid.shows = {}
      /\ Valid.kind = "valid" /\ Valid.node = turn.node /\ Valid.shows = {}
      /\ Corrected.kind = "correction" /\ Corrected.node = turn.node /\ Corrected.shows = {}
      /\ turn.kind = "turn"
  BY DEF Invalid, Valid, Corrected, Answer, Correction
<1> HIDE DEF turn
<1>2. Segment(<<>>, turn) /\ Segment(<<turn>>, turn)
  BY DEF Segment
<1>3. /\ Segment(<<turn, Valid>>, turn) /\ Segment(<<turn, Invalid>>, turn)
      /\ Segment(<<turn, Corrected>>, turn)
  BY <1>1 DEF Segment
<1>4. /\ Segment(<<turn, Corrected, Valid>>, turn) /\ Segment(<<turn, Corrected, Invalid>>, turn)
      /\ Segment(<<turn, Invalid, Corrected>>, turn)
  BY <1>1 DEF Segment
<1>5. /\ Segment(<<turn, Invalid, Corrected, Valid>>, turn)
      /\ Segment(<<turn, Invalid, Corrected, Invalid>>, turn)
  BY <1>1 DEF Segment
<1> QED
  BY <1>2, <1>3, <1>4, <1>5 DEF turn, Rejected, Retried, RetriedValid, RetriedInvalid

(* Appending a list to another. *)
LEMMA Appended ==
  ASSUME NEW S, NEW h \in Seq(S), NEW s \in Seq(S)
  PROVE  /\ h \o s \in Seq(S) /\ Len(h) \in Nat /\ Len(s) \in Nat
         /\ Len(h \o s) = Len(h) + Len(s)
         /\ DOMAIN h = 1..Len(h) /\ DOMAIN s = 1..Len(s)
         /\ DOMAIN (h \o s) = 1..(Len(h) + Len(s))
         /\ \A i \in DOMAIN h : i \in DOMAIN (h \o s) /\ (h \o s)[i] = h[i]
         /\ \A i \in DOMAIN s : Len(h) + i \in DOMAIN (h \o s) /\ (h \o s)[Len(h) + i] = s[i]
         /\ \A i \in DOMAIN (h \o s) : i \in DOMAIN h \/ \E j \in DOMAIN s : i = Len(h) + j
<1>1. /\ h \o s \in Seq(S) /\ Len(h) \in Nat /\ Len(s) \in Nat
      /\ Len(h \o s) = Len(h) + Len(s)
      /\ DOMAIN h = 1..Len(h) /\ DOMAIN s = 1..Len(s)
      /\ DOMAIN (h \o s) = 1..(Len(h) + Len(s))
      /\ \A i \in 1..(Len(h) + Len(s)) :
           (h \o s)[i] = IF i <= Len(h) THEN h[i] ELSE s[i - Len(h)]
  BY ConcatProperties, LenProperties
<1>2. \A i \in DOMAIN h : i \in DOMAIN (h \o s) /\ (h \o s)[i] = h[i]
  BY <1>1
<1>3. \A i \in DOMAIN s : Len(h) + i \in DOMAIN (h \o s) /\ (h \o s)[Len(h) + i] = s[i]
  BY <1>1
<1>4. \A i \in DOMAIN (h \o s) :
        i \in DOMAIN h \/ (i - Len(h) \in DOMAIN s /\ i = Len(h) + (i - Len(h)))
  BY <1>1
<1>5. \A i \in DOMAIN (h \o s) : i \in DOMAIN h \/ \E j \in DOMAIN s : i = Len(h) + j
  BY <1>4
<1> QED
  BY <1>1, <1>2, <1>3, <1>5

(* A dialogue goes on with the messages of a call if it is empty and the   *)
(* call is that of hypothesize, or if it ends with a valid answer.         *)
LEMMA DialogueGrows ==
  ASSUME NEW S, NEW h \in Seq(S), NEW s \in Seq(S), NEW turn,
         IsDialogue(h), Segment(s, turn), turn.kind = "turn",
         IF h = <<>> THEN turn.node = "hypothesize" ELSE Last(h).kind = "valid"
  PROVE  IsDialogue(h \o s)
<1> DEFINE long == h \o s
           m == Len(h)
<1>1. /\ m \in Nat /\ Len(s) \in Nat /\ DOMAIN h = 1..m /\ DOMAIN s = 1..Len(s)
      /\ \A i \in DOMAIN h : long[i] = h[i]
      /\ \A i \in DOMAIN s : long[m + i] = s[i]
      /\ \A i \in DOMAIN long : i \in DOMAIN h \/ \E j \in DOMAIN s : i = m + j
  BY Appended
<1>2. m # 0 => h[m].kind = "valid"
  BY <1>1 DEF Last
<1>3. m = 0 => turn.node = "hypothesize"
  BY <1>1
<1> DEFINE Fits(messages, i) ==
             \/ /\ messages[i].kind = "turn"
                /\ IF i = 1 THEN messages[i].node = "hypothesize"
                   ELSE messages[i - 1].kind = "valid"
             \/ /\ messages[i].kind = "correction" /\ i > 1
                /\ messages[i - 1].kind \in {"turn", "invalid"}
                /\ messages[i - 1].node = messages[i].node
             \/ /\ messages[i].kind \in {"valid", "invalid"} /\ i > 1
                /\ messages[i - 1].kind \in {"turn", "correction"}
                /\ messages[i - 1].node = messages[i].node
<1> HIDE DEF long, m
<1>4. ASSUME NEW i \in DOMAIN h PROVE Fits(long, i)
  <2>1. Fits(h, i)
    BY DEF IsDialogue
  <2>2. i \in 1..m /\ (i # 1 => i - 1 \in DOMAIN h)
    BY <1>1
  <2> QED
    BY <1>1, <2>1, <2>2
<1>5. ASSUME NEW j \in DOMAIN s PROVE Fits(long, m + j)
  <2>0. j \in 1..Len(s) /\ j \in Nat
    BY <1>1
  <2>1. CASE j = 1
    <3>1. long[m + j] = turn
      BY <1>1, <2>1 DEF Segment
    <3>2. CASE m = 0
      BY <1>3, <2>1, <3>1, <3>2
    <3>3. CASE m # 0
      <4>1. m \in DOMAIN h /\ m + j - 1 = m /\ m + j # 1
        BY <1>1, <2>1, <3>3
      <4>2. long[m + j - 1].kind = "valid"
        BY <1>1, <1>2, <3>3, <4>1
      <4> QED
        BY <3>1, <4>1, <4>2
    <3> QED
      BY <3>2, <3>3
  <2>2. CASE j # 1
    <3>1. j - 1 \in DOMAIN s /\ (m + j) - 1 = m + (j - 1) /\ m + j > 1
      BY <1>1, <2>0, <2>2
    <3>2. long[m + j] = s[j] /\ long[(m + j) - 1] = s[j - 1]
      BY <1>1, <3>1
    <3>3. s[j - 1].node = turn.node
      BY <3>1 DEF Segment
    <3>4. /\ s[j].node = turn.node
          /\ \/ s[j].kind = "correction" /\ s[j - 1].kind \in {"turn", "invalid"}
             \/ s[j].kind \in {"valid", "invalid"} /\ s[j - 1].kind \in {"turn", "correction"}
      BY <2>2 DEF Segment
    <3> DEFINE k == m + j
    <3>5. k > 1 /\ long[k] = s[j] /\ long[k - 1] = s[j - 1]
      BY <3>1, <3>2
    <3> HIDE DEF k
    <3>6. Fits(long, k)
      BY <3>3, <3>4, <3>5
    <3> QED
      BY <3>6 DEF k
  <2> QED
    BY <2>1, <2>2
<1>6. \A i \in DOMAIN long : Fits(long, i)
  BY <1>1, <1>4, <1>5
<1> QED
  BY <1>6 DEF IsDialogue, long

------------------------------------------------------------------------------
(* The history *)

(* The history is a dialogue; a call is under way only in a node that was  *)
(* allowed one, with the turn of this node; hypothesize starts from        *)
(* nothing, and as long as no call has failed the last answer was valid.   *)
HistoryInv ==
  /\ IsDialogue(llm_messages)
  /\ Calling => node \in LLMNodes /\ CanCallLLM /\ call.turn = Turn(node, ShownEvidence(node))
  /\ node = "hypothesize" => llm_messages = <<>> /\ ~degraded
  /\ ~degraded /\ node \notin {"done", "hypothesize"} =>
       llm_messages # <<>> /\ Last(llm_messages).kind = "valid"

LEMMA HistoryInit == Init => ShapeInv /\ HistoryInv
BY DEF Init, ShapeInv, HistoryInv, IsDialogue, Calling, NoCall

(* The end of a call appends its messages to the history. *)
LEMMA CallEnds ==
  ASSUME TypeInv, ShapeInv, HistoryInv, NEW n \in LLMNodes, Returning(n), Conclude
  PROVE  /\ call.messages \in Seq(Message(DOMAIN evidence))
         /\ llm_messages \in Seq(Message(DOMAIN evidence))
         /\ llm_messages' = llm_messages \o call.messages
         /\ call.turn = Turn(n, ShownEvidence(n)) /\ Segment(call.messages, call.turn)
         /\ call.stage = "answered" => call.messages # <<>>
         /\ IsDialogue(llm_messages')
         /\ call.stage = "answered" => llm_messages' # <<>> /\ Last(llm_messages').kind = "valid"
         /\ ShapeInv' /\ ~Calling'
<1>1. /\ call.messages \in Seq(Message(DOMAIN evidence))
      /\ llm_messages \in Seq(Message(DOMAIN evidence))
  BY DEF TypeInv, TypeOK, CallRecord
<1>2. llm_messages' = llm_messages \o call.messages /\ call' = NoCall
  BY DEF Conclude
<1>3. /\ node = n /\ call.stage \in {"answered", "failed"} /\ Calling
      /\ call.turn = Turn(n, ShownEvidence(n)) /\ CanCallLLM
  BY DEF Returning, Calling, HistoryInv
<1>4. call.turn.kind = "turn" /\ call.turn.node = n
  BY <1>3 DEF Turn
<1>5. call.messages \in {<<>>, <<call.turn, Valid>>} \cup Rejected \cup Retried
                          \cup RetriedValid \cup RetriedInvalid
  BY <1>3 DEF ShapeInv
<1>6. Segment(call.messages, call.turn)
  BY <1>4, <1>5, ShapesAreSegments
<1>7. IF llm_messages = <<>> THEN call.turn.node = "hypothesize"
      ELSE Last(llm_messages).kind = "valid"
  BY <1>3, <1>4 DEF HistoryInv, CanCallLLM, LLMNodes
<1>8. IsDialogue(llm_messages \o call.messages)
  BY <1>1, <1>4, <1>6, <1>7, DialogueGrows DEF HistoryInv
<1>9. call.stage = "answered" =>
        Len(call.messages) \in DOMAIN call.messages /\ call.messages[Len(call.messages)] = Valid
  <2>1. call.stage = "answered" =>
          call.messages \in {<<call.turn, Valid>>, <<call.turn, Corrected, Valid>>,
                             <<call.turn, Invalid, Corrected, Valid>>}
    BY DEF ShapeInv, RetriedValid
  <2>2. Len(<<call.turn, Valid>>) = 2 /\ <<call.turn, Valid>>[2] = Valid
    OBVIOUS
  <2>3. Len(<<call.turn, Corrected, Valid>>) = 3 /\ <<call.turn, Corrected, Valid>>[3] = Valid
    OBVIOUS
  <2>4. /\ Len(<<call.turn, Invalid, Corrected, Valid>>) = 4
        /\ <<call.turn, Invalid, Corrected, Valid>>[4] = Valid
    OBVIOUS
  <2>5. call.stage = "answered" =>
          Len(call.messages) \in Nat \ {0} /\ call.messages[Len(call.messages)] = Valid
    <3>1. CASE call.messages = <<call.turn, Valid>>
      BY <2>2, <3>1
    <3>2. CASE call.messages = <<call.turn, Corrected, Valid>>
      BY <2>3, <3>2
    <3>3. CASE call.messages = <<call.turn, Invalid, Corrected, Valid>>
      BY <2>4, <3>3
    <3> QED
      BY <2>1, <3>1, <3>2, <3>3
  <2> QED
    BY <1>1, <2>5, LenProperties
<1>10. ASSUME call.stage = "answered"
       PROVE  /\ call.messages # <<>>
              /\ llm_messages' # <<>> /\ Last(llm_messages').kind = "valid"
  <2> DEFINE s == call.messages
             h == llm_messages
  <2>1. /\ Len(h) \in Nat /\ Len(s) \in Nat /\ Len(s) \in DOMAIN s /\ DOMAIN s = 1..Len(s)
        /\ Len(h \o s) = Len(h) + Len(s) /\ (h \o s)[Len(h) + Len(s)] = s[Len(s)]
        /\ s[Len(s)] = Valid
    BY <1>1, <1>9, <1>10, Appended
  <2>2. Valid.kind = "valid"
    BY DEF Valid, Answer
  <2>3. s # <<>> /\ h \o s # <<>> /\ Last(h \o s) = Valid
    BY <2>1 DEF Last
  <2> QED
    BY <1>2, <2>2, <2>3
<1>11. ShapeInv' /\ ~Calling'
  BY <1>2 DEF ShapeInv, NoCall, Calling
<1> QED
  BY <1>1, <1>2, <1>3, <1>6, <1>8, <1>10, <1>11

(* A step keeps the shape of the call and the history. *)
LEMMA HistoryStep ==
  TypeInv /\ ShapeInv /\ HistoryInv /\ [Next]_vars => ShapeInv' /\ HistoryInv'
<1> SUFFICES ASSUME TypeInv, ShapeInv, HistoryInv, [Next]_vars PROVE ShapeInv' /\ HistoryInv'
  OBVIOUS
<1>1. CASE BeginCall
  <2>1. /\ call'.stage = "attempting" /\ ~call'.corrected /\ call'.messages = <<>>
        /\ call'.turn = Turn(node, ShownEvidence(node))
        /\ node \in LLMNodes /\ CanCallLLM /\ UNCHANGED <<graph, llm_messages>>
    BY <1>1 DEF BeginCall, StartCall, NoCall
  <2>2. ShapeInv'
    BY <2>1 DEF ShapeInv
  <2>3. HistoryInv'
    BY <2>1 DEF HistoryInv, IsDialogue, Calling, CanCallLLM, BudgetExceeded, ShownEvidence, graph
  <2> QED
    BY <2>2, <2>3
<1>2. CASE MakeAttempt
  <2>1. UNCHANGED <<graph, llm_messages>> /\ call'.turn = call.turn /\ Calling
    <3>1. /\ UNCHANGED <<graph, llm_messages>> /\ call.stage = "attempting" /\ call \in CallRecord
      BY <1>2 DEF MakeAttempt, Attempt, AttemptRaised, AttemptValidated, AttemptRejected,
         AttemptGivenUp, AttemptAnswered, Request, TypeInv, TypeOK
    <3>2. call'.turn = call.turn
      BY <1>2, <3>1 DEF MakeAttempt, Attempt, AttemptRaised, AttemptValidated, AttemptRejected,
         AttemptGivenUp, CallRecord
    <3> QED
      BY <3>1, <3>2 DEF Calling
  <2>2. ShapeInv'
    BY <1>2, AttemptShape DEF TypeInv
  <2>3. HistoryInv'
    BY <2>1 DEF HistoryInv, IsDialogue, Calling, CanCallLLM, BudgetExceeded, ShownEvidence, graph
  <2> QED
    BY <2>2, <2>3
<1>3. CASE HypothesizeReturns
  <2>1. /\ ShapeInv' /\ ~Calling' /\ IsDialogue(llm_messages')
        /\ call.stage = "answered" => llm_messages' # <<>> /\ Last(llm_messages').kind = "valid"
    BY <1>3, CallEnds DEF HypothesizeReturns, LLMNodes
  <2>2. node' = "plan" /\ (~degraded' => call.stage = "answered")
    BY <1>3 DEF HypothesizeReturns, Returning
  <2> QED
    BY <2>1, <2>2 DEF HistoryInv
<1>4. CASE PlanReturns
  <2>1. /\ ShapeInv' /\ ~Calling' /\ IsDialogue(llm_messages')
        /\ call.stage = "answered" => llm_messages' # <<>> /\ Last(llm_messages').kind = "valid"
    BY <1>4, CallEnds DEF PlanReturns, LLMNodes
  <2>2. node' \in {"tools", "decide"} /\ (~degraded' => call.stage = "answered")
    BY <1>4 DEF PlanReturns, Returning
  <2> QED
    BY <2>1, <2>2 DEF HistoryInv
<1>5. CASE ReevaluateReturns
  <2>1. /\ ShapeInv' /\ ~Calling' /\ IsDialogue(llm_messages')
        /\ call.stage = "answered" => llm_messages' # <<>> /\ Last(llm_messages').kind = "valid"
    BY <1>5, CallEnds DEF ReevaluateReturns, LLMNodes
  <2>2. node' \in {"plan", "decide"} /\ (~degraded' => call.stage = "answered")
    BY <1>5 DEF ReevaluateReturns, Returning
  <2> QED
    BY <2>1, <2>2 DEF HistoryInv
<1>6. CASE DecideReturns
  <2>1. ShapeInv' /\ ~Calling' /\ IsDialogue(llm_messages')
    BY <1>6, CallEnds DEF DecideReturns, LLMNodes
  <2> QED
    BY <1>6, <2>1 DEF DecideReturns, HistoryInv, IsDialogue
<1>7. CASE Tools
  <2>1. UNCHANGED shell /\ node = "tools" /\ node' = "reevaluate" /\ degraded' = degraded
    BY <1>7 DEF Tools
  <2>2. ~Calling /\ ~Calling'
    BY <2>1 DEF HistoryInv, LLMNodes, Calling, shell
  <2> QED
    BY <2>1, <2>2 DEF HistoryInv, IsDialogue, shell, ShapeInv, Rendered, Rejected, Retried,
       RetriedValid, RetriedInvalid, Valid, Invalid, Corrected
<1>8. CASE CallSkipped
  <2>1. /\ UNCHANGED shell /\ node \in {"plan", "reevaluate", "decide"} /\ call.stage = "idle"
        /\ node' \in {"decide", "done"} /\ (node' = "decide" => degraded' = degraded)
    BY <1>8 DEF CallSkipped, TypeInv, TypeOK
  <2> QED
    BY <2>1 DEF HistoryInv, IsDialogue, shell, ShapeInv, Calling
<1>9. CASE UNCHANGED vars
  BY <1>9 DEF vars, shell, graph, HistoryInv, IsDialogue, ShapeInv, Calling, CanCallLLM,
     BudgetExceeded, ShownEvidence, Rendered, Rejected, Retried, RetriedValid, RetriedInvalid,
     Valid, Invalid, Corrected
<1> QED
  BY <1>1, <1>2, <1>3, <1>4, <1>5, <1>6, <1>7, <1>8, <1>9 DEF Next

LEMMA HistoryInvariant == Spec => [](TypeInv /\ ShapeInv /\ HistoryInv)
BY TypeInit, TypeStep, HistoryInit, HistoryStep, PTL DEF Spec

(* In the history turns follow valid answers, corrections and answers what *)
(* they refer to, and the last message is a valid answer when another call *)
(* may be made, for every budget and whatever is lost, empty, invalid or   *)
(* corrected on the way.                                                   *)
THEOREM DialogueCorrect == Spec => []Dialogue
<1>1. TypeInv /\ HistoryInv => Dialogue
  BY DEF HistoryInv, Dialogue, CanCallLLM, TypeInv
<1> QED
  BY <1>1, HistoryInvariant, PTL

------------------------------------------------------------------------------
(* What was asked *)

(* A list with two more pieces starts with the list and the first of them. *)
LEMMA FirstOfMore ==
  ASSUME NEW S, NEW h \in Seq(S), NEW s \in Seq(S), s # <<>>, NEW rest \in Seq(S),
         NEW g, g = h \o <<s[1]>>
  PROVE  /\ g \in Seq(S) /\ Len(g) = Len(h) + 1
         /\ SubSeq(h \o s, 1, Len(h) + 1) = g /\ SubSeq(g \o rest, 1, Len(h) + 1) = g
<1> DEFINE one == <<s[1]>>
           long == h \o s
<1>1. /\ s[1] \in S /\ Len(s) \in Nat \ {0} /\ Len(h) \in Nat
  BY LenProperties, EmptySeq
<1>2. one \in Seq(S) /\ Len(one) = 1 /\ one[1] = s[1]
  BY <1>1
<1> HIDE DEF one
<1>3. /\ g \in Seq(S) /\ Len(g) = Len(h) + 1
      /\ \A i \in 1..(Len(h) + 1) : g[i] = IF i <= Len(h) THEN h[i] ELSE one[i - Len(h)]
  <2>1. /\ g \in Seq(S) /\ Len(g) = Len(h) + Len(one)
        /\ \A i \in 1..(Len(h) + Len(one)) :
             g[i] = IF i <= Len(h) THEN h[i] ELSE one[i - Len(h)]
    <3>1. g = h \o one
      BY DEF one
    <3> QED
      BY <1>2, <3>1, ConcatProperties
  <2> QED
    BY <1>1, <1>2, <2>1
<1>4. /\ long \in Seq(S) /\ Len(long) = Len(h) + Len(s)
      /\ \A i \in 1..(Len(h) + Len(s)) :
           long[i] = IF i <= Len(h) THEN h[i] ELSE s[i - Len(h)]
  BY ConcatProperties
<1>5. \A i \in 1..(Len(h) + 1) : i \in 1..(Len(h) + Len(s)) /\ (i <= Len(h) \/ i - Len(h) = 1)
  BY <1>1
<1> HIDE DEF long
<1>6. \A i \in 1..(Len(h) + 1) : long[i] = g[i] /\ long[i] \in S
  <2>1. \A i \in 1..(Len(h) + 1) : long[i] = g[i]
    BY <1>2, <1>3, <1>4, <1>5
  <2>2. \A i \in 1..(Len(h) + 1) : g[i] \in S
    BY <1>1, <1>3, ElementOfSeq
  <2> QED
    BY <2>1, <2>2
<1>7. SubSeq(long, 1, Len(h) + 1) = g
  <2> DEFINE n == Len(h) + 1
  <2>1. n \in Nat \ {0}
    BY <1>1
  <2>2. \A i \in 1..n : long[i] = g[i] /\ long[i] \in S
    BY <1>6
  <2>3. Len(g) = n
    BY <1>3
  <2> HIDE DEF n
  <2>4. /\ SubSeq(long, 1, n) \in Seq(S) /\ Len(SubSeq(long, 1, n)) = n
        /\ \A i \in 1..n : SubSeq(long, 1, n)[i] = long[i]
    <3>1. /\ SubSeq(long, 1, n) \in Seq(S)
          /\ Len(SubSeq(long, 1, n)) = IF 1 <= n THEN n - 1 + 1 ELSE 0
          /\ \A i \in 1..(n - 1 + 1) : SubSeq(long, 1, n)[i] = long[1 + i - 1]
      BY <2>1, <2>2, SubSeqProperties
    <3>2. n - 1 + 1 = n /\ 1 <= n /\ \A i \in 1..n : 1 + i - 1 = i
      BY <2>1
    <3> QED
      BY <3>1, <3>2
  <2> QED
    BY <1>3, <2>2, <2>3, <2>4, SeqEqual DEF n
<1>8. SubSeq(g \o rest, 1, Len(h) + 1) = g
  BY <1>1, <1>3
<1> QED
  BY <1>3, <1>7, <1>8 DEF long

(* The list of a call that was answered, after the turn: the answer, or    *)
(* the correction and the answer with the first answer before them or not. *)
LEMMA AnsweredLists ==
  ASSUME call.turn.kind = "turn"
  PROVE  /\ \A j \in DOMAIN <<call.turn, Valid>> :
              j > 1 => <<call.turn, Valid>>[j].kind \notin {"turn", "correction"}
         /\ \A s \in RetriedValid : \E c \in DOMAIN s :
              /\ c > 1 /\ s[c] = Corrected
              /\ \A j \in DOMAIN s : j > 1 =>
                   (s[j].kind \in {"turn", "correction"} <=> j = c)
<1>1. /\ Invalid.kind = "invalid" /\ Valid.kind = "valid" /\ Corrected.kind = "correction"
  BY DEF Invalid, Valid, Corrected, Answer, Correction
<1>2. \A j \in DOMAIN <<call.turn, Valid>> :
        j > 1 => <<call.turn, Valid>>[j].kind \notin {"turn", "correction"}
  BY <1>1
<1> DEFINE Only(s, c) ==
             /\ c \in DOMAIN s /\ c > 1 /\ s[c] = Corrected
             /\ \A j \in DOMAIN s : j > 1 => (s[j].kind \in {"turn", "correction"} <=> j = c)
<1>3. Only(<<call.turn, Corrected, Valid>>, 2)
  BY <1>1
<1>4. Only(<<call.turn, Invalid, Corrected, Valid>>, 3)
  BY <1>1
<1> HIDE DEF Only
<1>5. \A s \in RetriedValid : \E c : Only(s, c)
  BY <1>3, <1>4 DEF RetriedValid
<1> QED
  BY <1>2, <1>5 DEF Only

(* The end of a call that was answered records the request that was.       *)
LEMMA AnswerRecorded ==
  ASSUME TypeInv, ShapeInv, HistoryInv, NEW n \in LLMNodes, Returning(n), Conclude,
         call.stage = "answered"
  PROVE  AskedAsRecorded'
<1>0. PICK S, h, s, turn, correction, rest, m :
        /\ S = Message(DOMAIN evidence) /\ h = llm_messages /\ s = call.messages
        /\ turn = call.turn /\ correction = Corrected
        /\ rest = (IF call.corrected THEN <<correction>> ELSE <<>>)
        /\ m = Len(h) + 1
  OBVIOUS
<1> DEFINE g == h \o <<turn>>
           long == h \o s
           asked == {i \in DOMAIN long : i > m /\ long[i].kind \in {"turn", "correction"}}
<1>1. h \in Seq(S) /\ s \in Seq(S) /\ s # <<>> /\ llm_messages' = long
  BY <1>0, CallEnds
<1>2. /\ turn.kind = "turn" /\ turn \in S /\ turn.node = n /\ call.corrected \in BOOLEAN
  BY <1>0, CallEnds DEF Turn, TypeInv, TypeOK, CallRecord
<1>3. correction \in S
  BY <1>0, <1>2 DEF Corrected, Correction, Message
<1>4. sent' = g \o rest
  BY <1>0 DEF Conclude, ShapeInv, Rendered, Corrected
<1>5. IF call.corrected THEN s \in RetriedValid ELSE s = <<turn, Valid>>
  BY <1>0 DEF ShapeInv
<1>6. s[1] = turn
  BY <1>0, <1>2, <1>5 DEF RetriedValid
<1>7. /\ rest \in Seq(S)
      /\ call.corrected => Len(rest) = 1 /\ 1 \in DOMAIN rest /\ rest[1] = correction
      /\ ~call.corrected => Len(rest) = 0
  <2>1. <<correction>> \in Seq(S) /\ <<>> \in Seq(S)
    BY <1>3
  <2>2. Len(<<correction>>) = 1 /\ 1 \in DOMAIN <<correction>> /\ <<correction>>[1] = correction
    OBVIOUS
  <2> QED
    BY <1>0, <1>2, <2>1, <2>2
<1>8. m \in Nat \ {0} /\ Len(h) \in Nat /\ m = Len(h) + 1
  BY <1>0, <1>1, LenProperties
<1>9. /\ g \in Seq(S) /\ Len(g) = m
      /\ SubSeq(long, 1, m) = g /\ SubSeq(g \o rest, 1, m) = g
  <2>1. h \in Seq(S) /\ s \in Seq(S) /\ s # <<>> /\ rest \in Seq(S) /\ g = h \o <<s[1]>>
    BY <1>1, <1>6, <1>7
  <2> HIDE DEF g
  <2>2. /\ g \in Seq(S) /\ Len(g) = Len(h) + 1
        /\ SubSeq(h \o s, 1, Len(h) + 1) = g /\ SubSeq(g \o rest, 1, Len(h) + 1) = g
    BY <2>1, FirstOfMore
  <2> QED
    BY <1>8, <2>2
<1>10. /\ Len(s) \in Nat \ {0} /\ DOMAIN s = 1..Len(s) /\ DOMAIN h = 1..Len(h)
       /\ Len(long) = Len(h) + Len(s)
       /\ \A i \in DOMAIN h : long[i] = h[i]
       /\ \A j \in DOMAIN s : Len(h) + j \in DOMAIN long /\ long[Len(h) + j] = s[j]
       /\ \A i \in DOMAIN long : i \in DOMAIN h \/ \E j \in DOMAIN s : i = Len(h) + j
  <2>1. Len(s) # 0
    BY <1>1, EmptySeq
  <2> QED
    BY <1>1, <2>1, Appended
<1>11. AskedAfter(m)' = asked
  BY <1>1 DEF AskedAfter
<1>12. m <= Len(long)
  BY <1>8, <1>10
<1>13. Len(g \o rest) = m + Len(rest)
  BY <1>7, <1>9, ConcatProperties
<1>14. \A i \in DOMAIN long : i > m => \E j \in DOMAIN s : j > 1 /\ i = Len(h) + j
  BY <1>8, <1>10
<1>15. m <= Len(llm_messages') /\ SubSeq(sent', 1, m) = SubSeq(llm_messages', 1, m)
  BY <1>1, <1>4, <1>9, <1>12
<1>16. CASE ~call.corrected
  <2>1. \A j \in DOMAIN s : j > 1 => s[j].kind \notin {"turn", "correction"}
    BY <1>0, <1>2, <1>5, <1>16, AnsweredLists
  <2>2. asked = {}
    BY <1>10, <1>14, <2>1
  <2>3. m = Len(sent') /\ m \in 0..Len(sent')
    BY <1>4, <1>7, <1>8, <1>13, <1>16
  <2> QED
    BY <1>11, <1>15, <2>2, <2>3 DEF AskedAsRecorded
<1>17. CASE call.corrected
  <2>1. PICK c \in DOMAIN s :
          /\ c > 1 /\ s[c] = correction
          /\ \A j \in DOMAIN s : j > 1 => (s[j].kind \in {"turn", "correction"} <=> j = c)
    BY <1>0, <1>2, <1>5, <1>17, AnsweredLists
  <2>2. PICK p : p = Len(h) + c
    OBVIOUS
  <2>3. p \in DOMAIN long /\ long[p] = correction /\ p > m
    BY <1>8, <1>10, <2>1, <2>2
  <2>4. long[p].kind \in {"turn", "correction"}
    BY <2>1, <2>3
  <2>5. \A i \in DOMAIN long : i > m /\ long[i].kind \in {"turn", "correction"} => i = p
    BY <1>10, <1>14, <2>1, <2>2
  <2>6. AskedAfter(m)' = {p}
    BY <1>11, <2>3, <2>4, <2>5
  <2>7. m + 1 = Len(sent') /\ m \in 0..Len(sent')
    <3>1. Len(sent') = m + 1
      BY <1>4, <1>7, <1>13, <1>17
    <3> QED
      BY <1>8, <3>1
  <2>8. (g \o rest)[m + 1] = correction
    <3>1. \A i \in DOMAIN rest : (g \o rest)[Len(g) + i] = rest[i]
      <4>1. g \in Seq(S) /\ rest \in Seq(S)
        BY <1>7, <1>9
      <4> HIDE DEF g
      <4> QED
        BY <4>1, Appended
    <3> QED
      BY <1>7, <1>9, <1>17, <3>1
  <2>9. sent'[m + 1] = llm_messages'[p]
    BY <1>1, <1>4, <2>3, <2>8
  <2> QED
    BY <1>15, <2>6, <2>7, <2>9 DEF AskedAsRecorded
<1> QED
  BY <1>2, <1>16, <1>17

(* Every step keeps AskedAsRecorded. *)
LEMMA RecordedStep ==
  TypeInv /\ ShapeInv /\ HistoryInv /\ AskedAsRecorded /\ [Next]_vars => AskedAsRecorded'
<1> SUFFICES ASSUME TypeInv, ShapeInv, HistoryInv, AskedAsRecorded, [Next]_vars
             PROVE  AskedAsRecorded'
  OBVIOUS
<1>1. CASE BeginCall \/ MakeAttempt
  <2>1. call'.stage \in Stages \ {"idle"}
    <3>1. CASE BeginCall
      BY <3>1 DEF BeginCall, StartCall, NoCall, Stages
    <3>2. CASE MakeAttempt
      BY <3>2 DEF MakeAttempt, Attempt, AttemptRaised, AttemptValidated, AttemptRejected,
         AttemptGivenUp, AttemptAnswered, Request, TypeInv, TypeOK, CallRecord, Stages
    <3> QED
      BY <1>1, <3>1, <3>2
  <2> QED
    BY <2>1 DEF AskedAsRecorded, Calling
<1>2. ASSUME NEW n \in LLMNodes, Returning(n), Conclude, degraded' = (call.stage = "failed")
      PROVE  AskedAsRecorded'
  <2>1. CASE call.stage = "answered"
    BY <1>2, <2>1, AnswerRecorded
  <2>2. CASE call.stage # "answered"
    BY <1>2, <2>2 DEF Returning, AskedAsRecorded
  <2> QED
    BY <2>1, <2>2
<1>3. CASE HypothesizeReturns \/ PlanReturns \/ ReevaluateReturns
  BY <1>2, <1>3 DEF HypothesizeReturns, PlanReturns, ReevaluateReturns, LLMNodes
<1>4. CASE DecideReturns
  BY <1>4 DEF DecideReturns, AskedAsRecorded
<1>5. CASE Tools
  <2>1. UNCHANGED shell /\ node # "done" /\ degraded' = degraded
    BY <1>5 DEF Tools
  <2> QED
    BY <2>1 DEF shell, AskedAsRecorded, AskedAfter, Calling
<1>6. CASE CallSkipped
  <2>1. UNCHANGED shell /\ node # "done" /\ (node' # "done" => degraded' = degraded)
    BY <1>6 DEF CallSkipped, TypeInv, TypeOK
  <2> QED
    BY <2>1 DEF shell, AskedAsRecorded, AskedAfter, Calling
<1>7. CASE UNCHANGED vars
  BY <1>7 DEF vars, shell, graph, AskedAsRecorded, AskedAfter, Calling
<1> QED
  BY <1>1, <1>3, <1>4, <1>5, <1>6, <1>7 DEF Next

(* Up to the turn of the last call the history is the last request, and    *)
(* after it both hold the same correction or none, whatever became of the  *)
(* attempts, as long as no call has failed for good.                       *)
THEOREM RecordCorrect == Spec => []AskedAsRecorded
<1>1. Init => AskedAsRecorded
  BY DEF Init, AskedAsRecorded, AskedAfter
<1> QED
  BY <1>1, HistoryInvariant, RecordedStep, PTL DEF Spec

------------------------------------------------------------------------------
(* What was told *)

(* ToldOnce, with the turn that told a piece of evidence. *)
ToldInv ==
  \A i \in DOMAIN evidence :
    IF i <= llm_evidence_cursor THEN \E k \in DOMAIN llm_messages : ToldBy(i) = {k}
    ELSE ToldBy(i) = {}

(* plan and decide are reached, if they may call, with all evidence told   *)
(* as soon as some of it is not the rules' own.                            *)
InformedInv ==
  node \in {"plan", "decide"} /\ CanCallLLM /\ (\E i \in DOMAIN evidence : evidence[i] # "rule") =>
    llm_evidence_cursor = Len(evidence)

(* The messages of a call tell what its turn shows, once, if it is one of  *)
(* reevaluate.                                                             *)
LEMMA CallTells ==
  ASSUME TypeInv, ShapeInv, HistoryInv, NEW n \in LLMNodes, Returning(n), Conclude, NEW i
  PROVE  \/ /\ ToldBy(i)' = ToldBy(i)
            /\ call.messages = <<>> \/ n # "reevaluate" \/ i \notin ShownEvidence(n)
         \/ /\ ToldBy(i)' = ToldBy(i) \cup {Len(llm_messages) + 1}
            /\ Len(llm_messages) + 1 \in DOMAIN llm_messages'
            /\ call.messages # <<>> /\ n = "reevaluate" /\ i \in ShownEvidence(n)
<1>0. PICK S, h, s, turn :
        /\ S = Message(DOMAIN evidence) /\ h = llm_messages /\ s = call.messages
        /\ turn = call.turn
  OBVIOUS
<1> DEFINE long == h \o s
           Tells(m) == m.node = "reevaluate" /\ i \in m.shows
<1>1. /\ h \in Seq(S) /\ s \in Seq(S) /\ llm_messages' = long /\ Segment(s, turn)
      /\ turn = Turn(n, ShownEvidence(n))
  BY <1>0, CallEnds
<1>2. turn.node = n /\ turn.shows = ShownEvidence(n)
  BY <1>1 DEF Turn
<1>3. /\ Len(h) \in Nat /\ Len(s) \in Nat
      /\ DOMAIN h = 1..Len(h) /\ DOMAIN s = 1..Len(s)
      /\ \A k \in DOMAIN h : k \in DOMAIN long /\ long[k] = h[k]
      /\ \A j \in DOMAIN s : Len(h) + j \in DOMAIN long /\ long[Len(h) + j] = s[j]
      /\ \A k \in DOMAIN long : k \in DOMAIN h \/ \E j \in DOMAIN s : k = Len(h) + j
  BY <1>1, Appended
<1>4. \A j \in DOMAIN s : Tells(s[j]) <=> j = 1 /\ n = "reevaluate" /\ i \in ShownEvidence(n)
  BY <1>2, <1>1 DEF Segment
<1>5. ToldBy(i) = {k \in DOMAIN h : Tells(h[k])} /\ ToldBy(i)' = {k \in DOMAIN long : Tells(long[k])}
  BY <1>0, <1>1 DEF ToldBy
<1> HIDE DEF long, Tells
<1>6. \A k : k \in ToldBy(i)' <=> \/ k \in ToldBy(i)
                                  \/ \E j \in DOMAIN s : k = Len(h) + j /\ Tells(s[j])
  BY <1>3, <1>5
<1>7. s # <<>> => 1 \in DOMAIN s
  BY <1>1, <1>3, EmptySeq
<1>8. s = <<>> => DOMAIN s = {}
  BY <1>3
<1>9. CASE s # <<>> /\ n = "reevaluate" /\ i \in ShownEvidence(n)
  <2>1. \A k : k \in ToldBy(i)' <=> k \in ToldBy(i) \/ k = Len(h) + 1
    BY <1>4, <1>6, <1>7, <1>9
  <2>2. Len(h) + 1 \in DOMAIN llm_messages'
    BY <1>1, <1>3, <1>7, <1>9
  <2>3. ToldBy(i)' = ToldBy(i) \cup {Len(h) + 1}
    BY <2>1, <1>5
  <2> QED
    BY <1>0, <1>9, <2>2, <2>3
<1>10. CASE ~(s # <<>> /\ n = "reevaluate" /\ i \in ShownEvidence(n))
  <2>1. \A k : k \in ToldBy(i)' <=> k \in ToldBy(i)
    BY <1>4, <1>6, <1>8, <1>10
  <2>2. ToldBy(i)' = ToldBy(i)
    BY <2>1, <1>5
  <2> QED
    BY <1>0, <1>10, <2>2
<1> QED
  BY <1>9, <1>10

LEMMA ToldInit == Init => ToldInv /\ InformedInv
BY DEF Init, ToldInv, InformedInv

(* Every step keeps ToldInv. *)
LEMMA ToldStep == TypeInv /\ ShapeInv /\ HistoryInv /\ ToldInv /\ [Next]_vars => ToldInv'
<1> SUFFICES ASSUME TypeInv, ShapeInv, HistoryInv, ToldInv, [Next]_vars PROVE ToldInv'
  OBVIOUS
<1> DEFINE Told(i) == IF i <= llm_evidence_cursor
                      THEN \E k \in DOMAIN llm_messages : ToldBy(i) = {k} ELSE ToldBy(i) = {}
<1>e. /\ Len(evidence) \in Nat /\ DOMAIN evidence = 1..Len(evidence)
      /\ llm_evidence_cursor \in 0..Len(evidence)
      /\ llm_messages \in Seq(Message(DOMAIN evidence))
      /\ evidence \in Seq(EvidenceKinds)
  BY DEF TypeInv, TypeOK
<1>1. CASE BeginCall \/ MakeAttempt \/ CallSkipped \/ UNCHANGED vars
  <2>1. UNCHANGED <<llm_messages, evidence, llm_evidence_cursor>>
    BY <1>1 DEF BeginCall, StartCall, MakeAttempt, Attempt, AttemptRaised, AttemptValidated,
       AttemptRejected, AttemptGivenUp, AttemptAnswered, CallSkipped, vars, shell, graph
  <2> QED
    BY <2>1 DEF ToldInv, ToldBy
<1>2. CASE HypothesizeReturns
  <2>1. llm_messages = <<>> /\ llm_evidence_cursor' = 0
    BY <1>2 DEF HypothesizeReturns, Returning, HistoryInv, TypeInv, StartInv
  <2>2. \A i : ToldBy(i) = {}
    BY <2>1 DEF ToldBy
  <2>3. \A i : ToldBy(i)' = ToldBy(i)
    BY <1>2, CallTells DEF HypothesizeReturns, LLMNodes
  <2>4. \A i \in DOMAIN evidence' : ~(i <= 0)
    <3>1. DOMAIN evidence' \subseteq {1}
      BY <1>2 DEF HypothesizeReturns
    <3> QED
      BY <3>1
  <2> QED
    BY <2>1, <2>2, <2>3, <2>4 DEF ToldInv
<1>3. CASE PlanReturns \/ DecideReturns
  <2>1. UNCHANGED <<evidence, llm_evidence_cursor>>
    BY <1>3 DEF PlanReturns, DecideReturns
  <2>2. \A i : ToldBy(i)' = ToldBy(i)
    BY <1>3, CallTells DEF PlanReturns, DecideReturns, LLMNodes
  <2>3. DOMAIN llm_messages \subseteq DOMAIN llm_messages'
    <3>1. PICK n \in LLMNodes : Returning(n) /\ Conclude
      BY <1>3 DEF PlanReturns, DecideReturns, LLMNodes
    <3>2. /\ call.messages \in Seq(Message(DOMAIN evidence))
          /\ llm_messages' = llm_messages \o call.messages
      BY <3>1, CallEnds
    <3> QED
      BY <1>e, <3>2, Appended
  <2> QED
    BY <2>1, <2>2, <2>3 DEF ToldInv
<1>4. CASE Tools
  <2>1. /\ UNCHANGED <<llm_messages, llm_evidence_cursor>>
        /\ \A i : ToldBy(i)' = ToldBy(i)
    BY <1>4 DEF Tools, shell, ToldBy
  <2>2. \A i \in DOMAIN llm_messages : llm_messages[i].shows \subseteq DOMAIN evidence
    <3>1. \A i \in DOMAIN llm_messages : llm_messages[i] \in Message(DOMAIN evidence)
      BY <1>e
    <3>2. \A m \in Message(DOMAIN evidence) : m.shows \in SUBSET (DOMAIN evidence)
      BY DEF Message
    <3> QED
      BY <3>1, <3>2
  <2>3. \A i : i \notin DOMAIN evidence => ToldBy(i) = {}
    BY <2>2 DEF ToldBy
  <2>4. \A i : i \notin DOMAIN evidence /\ i \in Nat \ {0} => ~(i <= llm_evidence_cursor)
    BY <1>e
  <2>5. \A i \in DOMAIN evidence' : i \in Nat \ {0}
    <3>1. evidence' \in Seq(EvidenceKinds)
      BY TypeStep DEF TypeInv, TypeOK
    <3> QED
      BY <3>1
  <2> QED
    BY <2>1, <2>3, <2>4, <2>5 DEF ToldInv
<1>5. CASE ReevaluateReturns
  <2>1. /\ Returning("reevaluate") /\ Conclude /\ "reevaluate" \in LLMNodes
        /\ evidence' = evidence
        /\ llm_evidence_cursor' = IF call.messages # <<>> THEN Len(evidence) ELSE llm_evidence_cursor
    BY <1>5 DEF ReevaluateReturns, LLMNodes, CursorAfterCall
  <2>2. DOMAIN llm_messages \subseteq DOMAIN llm_messages'
    <3>1. /\ call.messages \in Seq(Message(DOMAIN evidence))
          /\ llm_messages' = llm_messages \o call.messages
      BY <2>1, CallEnds
    <3> QED
      BY <1>e, <3>1, Appended
  <2>3. ASSUME NEW i \in DOMAIN evidence PROVE Told(i)'
    <3>1. Told(i)
      BY DEF ToldInv
    <3>2. i \in ShownEvidence("reevaluate") <=> ~(i <= llm_evidence_cursor)
      BY <1>e DEF ShownEvidence
    <3>3. CASE call.messages = <<>>
      <4>1. ToldBy(i)' = ToldBy(i) /\ llm_evidence_cursor' = llm_evidence_cursor
        BY <2>1, <3>3, CallTells
      <4> QED
        BY <2>2, <3>1, <4>1
    <3>4. CASE call.messages # <<>> /\ i <= llm_evidence_cursor
      <4>1. ToldBy(i)' = ToldBy(i) /\ i <= llm_evidence_cursor'
        BY <1>e, <2>1, <3>2, <3>4, CallTells
      <4> QED
        BY <2>2, <3>1, <3>4, <4>1
    <3>5. CASE call.messages # <<>> /\ ~(i <= llm_evidence_cursor)
      <4>1. /\ ToldBy(i)' = ToldBy(i) \cup {Len(llm_messages) + 1}
            /\ Len(llm_messages) + 1 \in DOMAIN llm_messages'
        BY <2>1, <3>2, <3>5, CallTells
      <4>2. ToldBy(i) = {} /\ i <= llm_evidence_cursor'
        BY <1>e, <2>1, <3>1, <3>5
      <4> QED
        BY <4>1, <4>2
    <3> QED
      BY <3>3, <3>4, <3>5
  <2> QED
    BY <2>1, <2>3 DEF ToldInv
<1> QED
  BY <1>1, <1>2, <1>3, <1>4, <1>5 DEF Next

(* Every step keeps InformedInv. *)
LEMMA InformedStep ==
  TypeInv /\ ShapeInv /\ HistoryInv /\ InformedInv /\ [Next]_vars => InformedInv'
<1> SUFFICES ASSUME TypeInv, ShapeInv, HistoryInv, InformedInv, [Next]_vars PROVE InformedInv'
  OBVIOUS
<1> USE DEF InformedInv, CanCallLLM, BudgetExceeded
<1>1. CASE BeginCall \/ MakeAttempt \/ UNCHANGED vars
  <2>1. UNCHANGED graph
    BY <1>1 DEF BeginCall, MakeAttempt, vars
  <2> QED
    BY <2>1 DEF graph
<1>2. CASE HypothesizeReturns
  <2>1. \A i \in DOMAIN evidence' : evidence'[i] = "rule"
    BY <1>2 DEF HypothesizeReturns
  <2> QED
    BY <2>1
<1>3. CASE PlanReturns
  <2>1. /\ node = "plan" /\ CanCallLLM /\ UNCHANGED <<evidence, llm_evidence_cursor>>
    BY <1>3 DEF PlanReturns, Returning, HistoryInv, Calling
  <2> QED
    BY <2>1
<1>4. CASE Tools
  <2>1. node' = "reevaluate"
    BY <1>4 DEF Tools
  <2> QED
    BY <2>1
<1>5. CASE ReevaluateReturns
  <2>1. /\ Returning("reevaluate") /\ Conclude /\ evidence' = evidence
        /\ degraded' = (call.stage = "failed")
        /\ llm_evidence_cursor' = IF call.messages # <<>> THEN Len(evidence) ELSE llm_evidence_cursor
    BY <1>5 DEF ReevaluateReturns, CursorAfterCall
  <2>2. call.stage = "answered" => call.messages # <<>>
    BY <2>1, CallEnds DEF LLMNodes
  <2>3. ~degraded' => llm_evidence_cursor' = Len(evidence)
    BY <2>1, <2>2 DEF Returning
  <2> QED
    BY <2>1, <2>3
<1>6. CASE DecideReturns
  <2>1. node' = "done"
    BY <1>6 DEF DecideReturns
  <2> QED
    BY <2>1
<1>7. CASE CallSkipped
  <2>1. /\ UNCHANGED <<evidence, llm_evidence_cursor, llm_calls, tool_budget_left>>
        /\ node' # "done" => degraded' = degraded
        /\ ~CanCallLLM
    BY <1>7 DEF CallSkipped, TypeInv, TypeOK
  <2> QED
    BY <2>1
<1> QED
  BY <1>1, <1>2, <1>3, <1>4, <1>5, <1>6, <1>7 DEF Next

(* The re-evaluations of the history show every piece of evidence before   *)
(* the cursor once and no other, for any amount of evidence and whatever   *)
(* becomes of the calls.                                                   *)
THEOREM ToldCorrect == Spec => []ToldOnce
<1>1. ToldInv => ToldOnce
  <2> SUFFICES ASSUME ToldInv, NEW i \in DOMAIN evidence
               PROVE  Cardinality(ToldBy(i)) = IF i <= llm_evidence_cursor THEN 1 ELSE 0
    BY DEF ToldOnce
  <2>1. CASE i <= llm_evidence_cursor
    <3>1. PICK k \in DOMAIN llm_messages : ToldBy(i) = {k}
      BY <2>1 DEF ToldInv
    <3> QED
      BY <2>1, <3>1, FS_Singleton
  <2>2. CASE ~(i <= llm_evidence_cursor)
    BY <2>2, FS_EmptySet DEF ToldInv
  <2> QED
    BY <2>1, <2>2
<1> QED
  BY <1>1, HistoryInvariant, ToldInit, ToldStep, PTL DEF Spec

(* Once tools have added evidence, plan and decide are only asked of a     *)
(* model that has been told all of it.                                     *)
THEOREM InformedCorrect == Spec => []AskedWhenInformed
<1>1. TypeInv /\ HistoryInv /\ ToldInv /\ InformedInv => AskedWhenInformed
  <2> SUFFICES ASSUME TypeInv, HistoryInv, ToldInv, InformedInv,
                      Calling, node \in {"plan", "decide"},
                      \E i \in DOMAIN evidence : evidence[i] # "rule",
                      NEW i \in DOMAIN evidence
               PROVE  ToldBy(i) # {}
    BY DEF AskedWhenInformed
  <2>1. llm_evidence_cursor = Len(evidence)
    BY DEF HistoryInv, InformedInv
  <2>2. i <= llm_evidence_cursor
    BY <2>1 DEF TypeInv, TypeOK
  <2> QED
    BY <2>2 DEF ToldInv
<1> QED
  BY <1>1, HistoryInvariant, ToldInit, ToldStep, InformedStep, PTL DEF Spec

==============================================================================
