------------------------------- MODULE LLMShell -------------------------------
(***************************************************************************)
(* One structured model call: call_structured_llm, which makes at most two *)
(* attempts through LiteLLMBackend.complete and always returns.  A step is *)
(* one attempt; the run is a single coroutine, so nothing else happens     *)
(* while an attempt is awaited.                                            *)
(***************************************************************************)
EXTENDS Naturals, SequencesExt

VARIABLES
  llm_messages,  \* channel: the conversation so far
  call,          \* the call under way, with the locals of the shell
  sent,          \* messages of the last request (history variable)
  requests       \* attempts made (history variable)

shell == <<llm_messages, call, sent, requests>>

LLMNodes == {"hypothesize", "plan", "reevaluate", "decide"}

(* Messages: the turn of a node, which shows it some evidence; a correction *)
(* after an answer that did not validate; and the answers of the model.    *)
Answers == {"valid", "invalid", "empty"}
Message(Shown) ==
  [kind : {"turn", "correction"} \cup Answers, node : LLMNodes, shows : SUBSET Shown]

Turn(node, shown) == [kind |-> "turn", node |-> node, shows |-> shown]
Correction(node) == [kind |-> "correction", node |-> node, shows |-> {}]
Answer(node, kind) == [kind |-> kind, node |-> node, shows |-> {}]

(* attempt: 1 or 2; corrected: the feedback list is not empty; messages:   *)
(* what the attempts so far add to the conversation.                       *)
Stages == {"idle", "attempting", "answered", "failed"}
NoCall == [ stage |-> "idle", turn |-> Turn("hypothesize", {}), attempt |-> 1,
            corrected |-> FALSE, messages |-> <<>> ]

StartCall(turn) ==
  /\ call' = [NoCall EXCEPT !.stage = "attempting", !.turn = turn]
  /\ UNCHANGED <<llm_messages, sent, requests>>

------------------------------------------------------------------------------
(* LiteLLMBackend.complete *)

(* _validated_history: an empty message in the history is refused. *)
HistoryUsable == \A i \in DOMAIN llm_messages : llm_messages[i].kind # "empty"

(* A mistaken NewMessages: the retry reports the turn again. *)
TurnReportedAgain(c) ==
  <<c.turn>> \o IF c.corrected THEN <<Correction(c.turn.node)>> ELSE <<>>

(* What an attempt adds besides the answer: its turn, or on a corrected    *)
(* retry the correction only, the first attempt having reported the turn.  *)
NewMessages(c) == IF c.corrected THEN <<Correction(c.turn.node)>> ELSE <<c.turn>>

(* A mistaken Rendered: on a retry the turn is taken to be in the history. *)
RetryWithoutTurn(c) == llm_messages \o NewMessages(c)

(* The state of the node still holds the history before the call, so every *)
(* attempt carries the turn.                                               *)
Rendered(c) ==
  llm_messages \o <<c.turn>> \o IF c.corrected THEN <<Correction(c.turn.node)>> ELSE <<>>

(* A mistaken KeptAnswer: every answer is kept. *)
EveryAnswerKept(c, kind) == <<Answer(c.turn.node, kind)>>

(* An empty answer is not kept: the gateway would refuse it as history. *)
KeptAnswer(c, kind) == IF kind = "empty" THEN <<>> ELSE <<Answer(c.turn.node, kind)>>

Request ==
  /\ call.stage = "attempting"
  /\ requests' = requests + 1
  /\ sent' = IF HistoryUsable THEN Rendered(call) ELSE sent

------------------------------------------------------------------------------
(* call_structured_llm *)

(* No answer (time-out, gateway error, refused history): retried after a   *)
(* back-off, without a correction.                                         *)
AttemptRaised ==
  /\ Request
  /\ call' = IF call.attempt = 1 THEN [call EXCEPT !.attempt = 2]
             ELSE [call EXCEPT !.stage = "failed"]
  /\ UNCHANGED llm_messages

AttemptAnswered(kind) ==
  /\ Request
  /\ HistoryUsable
  /\ UNCHANGED llm_messages

Collected(kind) == call.messages \o NewMessages(call) \o KeptAnswer(call, kind)

AttemptValidated ==
  /\ AttemptAnswered("valid")
  /\ call' = [call EXCEPT !.stage = "answered", !.messages = Collected("valid")]

AttemptRejected ==
  \E kind \in {"invalid", "empty"} :
    /\ AttemptAnswered(kind)
    /\ call.attempt = 1
    /\ call' = [call EXCEPT !.attempt = 2, !.corrected = TRUE, !.messages = Collected(kind)]

(* The second answer does not validate, or the first is cut off (finish    *)
(* reason "length"), which a retry would not cure.                         *)
AttemptGivenUp ==
  \E kind \in {"invalid", "empty"}, truncated \in BOOLEAN :
    /\ AttemptAnswered(kind)
    /\ call.attempt = 2 \/ truncated
    /\ call' = [call EXCEPT !.stage = "failed", !.messages = Collected(kind)]

Attempt == AttemptRaised \/ AttemptValidated \/ AttemptRejected \/ AttemptGivenUp

==============================================================================
