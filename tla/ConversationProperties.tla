------------------------ MODULE ConversationProperties ------------------------
(***************************************************************************)
(* What the conversation of a run with its model must be, whatever the     *)
(* gateway and the model do.                                               *)
(***************************************************************************)
EXTENDS Conversation, FiniteSetsExt

Calling == call.stage # "idle"

CallRecord ==
  [ stage : Stages, turn : Message(DOMAIN evidence), attempt : {1, 2},
    corrected : BOOLEAN, messages : Seq(Message(DOMAIN evidence)) ]

(* Type invariant; a message shows only evidence there is, and the cursor  *)
(* points into the evidence (build_turn_message restarts it at 0 if not).  *)
TypeOK ==
  /\ llm_messages \in Seq(Message(DOMAIN evidence))
  /\ sent \in Seq(Message(DOMAIN evidence))
  /\ call \in CallRecord
  /\ requests \in Nat
  /\ evidence \in Seq(EvidenceKinds)
  /\ llm_evidence_cursor \in 0..Len(evidence)
  /\ degraded \in BOOLEAN
  /\ llm_calls \in Nat
  /\ tool_budget_left \in BOOLEAN
  /\ text_hit \in BOOLEAN
  /\ node \in LLMNodes \cup {"tools", "done"}

(* A list of messages in which a turn follows only a valid answer (the     *)
(* first is that of hypothesize), a correction the turn or the answer it   *)
(* corrects, and an answer the turn or the correction of the same node.    *)
IsDialogue(messages) ==
  LET Follows(i, kinds) ==
        /\ i > 1
        /\ messages[i - 1].kind \in kinds
        /\ messages[i - 1].node = messages[i].node
  IN \A i \in DOMAIN messages :
       \/ /\ messages[i].kind = "turn"
          /\ IF i = 1 THEN messages[i].node = "hypothesize"
             ELSE messages[i - 1].kind = "valid"
       \/ messages[i].kind = "correction" /\ Follows(i, {"turn", "invalid"})
       \/ messages[i].kind \in {"valid", "invalid"} /\ Follows(i, {"turn", "correction"})

(* The history is a dialogue the gateway accepts, and ends with a valid    *)
(* answer whenever another call may be made.  An attempt that never        *)
(* arrived, an answer that was empty, and a corrected retry leave no gap   *)
(* and no second turn.                                                     *)
Dialogue ==
  /\ IsDialogue(llm_messages)
  /\ node # "done" /\ CanCallLLM /\ llm_messages # <<>> => Last(llm_messages).kind = "valid"

(* The turns and corrections of the history after its first n messages. *)
AskedAfter(n) ==
  {i \in DOMAIN llm_messages : i > n /\ llm_messages[i].kind \in {"turn", "correction"}}

(* The history records what was asked: it is the last request with the     *)
(* answers it got, also when that request was a retry, although the        *)
(* request is built by the back-end from a state the shell does not update *)
(* between attempts, and the record is collected by the shell.  Up to the  *)
(* turn of the last call the two are the same, and after it both hold the  *)
(* same correction or none.                                                *)
AskedAsRecorded ==
  ~Calling /\ ~degraded /\ node # "done" =>
    \E n \in 0..Len(sent) :
      /\ n <= Len(llm_messages) /\ SubSeq(sent, 1, n) = SubSeq(llm_messages, 1, n)
      /\ \/ n = Len(sent) /\ AskedAfter(n) = {}
         \/ n + 1 = Len(sent) /\ \E i \in AskedAfter(n) : /\ AskedAfter(n) = {i}
                                                        /\ sent[n + 1] = llm_messages[i]

(* The turns of the history that told the model evidence i. *)
ToldBy(i) ==
  {k \in DOMAIN llm_messages : llm_messages[k].node = "reevaluate" /\ i \in llm_messages[k].shows}

(* The cursor is right: the evidence before it was told exactly once, the  *)
(* evidence behind it not at all, whatever attempts were lost, repeated or *)
(* corrected.                                                              *)
ToldOnce ==
  \A i \in DOMAIN evidence :
    Cardinality(ToldBy(i)) = IF i <= llm_evidence_cursor THEN 1 ELSE 0

(* Once the tools have been asked, plan and decide are only asked of a     *)
(* model that has been told all the evidence (their turns show none, or    *)
(* what may be cited, and refer to the history for the rest).              *)
AskedWhenInformed ==
  Calling /\ node \in {"plan", "decide"} /\ (\E i \in DOMAIN evidence : evidence[i] # "rule") =>
    \A i \in DOMAIN evidence : ToldBy(i) # {}

(* Between calls every attempt made is charged, once, and none is made     *)
(* when the budget is used up except the retry of the last call.           *)
AttemptsCharged ==
  /\ ~Calling => llm_calls = requests
  /\ requests <= MaxLLMCalls + 1

------------------------------------------------------------------------------
(* What the prompts say of the conversation, checked on the code. *)

(* The history is the complete record of the investigation, and holds the  *)
(* evidence that a turn does not show (AGENT_SYSTEM_PROMPT and the decide  *)
(* turn, llm_prompts.py:86 and 682): whoever is asked to decide has been   *)
(* shown all the evidence.  The coverage list of a turn gives the verdict  *)
(* of a dimension, not the evidence it rests on.                           *)
CompleteRecord ==
  Calling /\ node = "decide" =>
    \A i \in DOMAIN evidence : i \in call.turn.shows \/ ToldBy(i) # {}

==============================================================================
