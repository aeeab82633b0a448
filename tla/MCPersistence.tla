----------------------------- MODULE MCPersistence -----------------------------
(* Small instances of the persistence of reviews for TLC. *)
EXTENDS PersistenceProperties

(* A content the rules pass, one they reject, and two they cannot settle:  *)
(* a blank brand, and a term in the text.                                  *)
MCContents == {"clean", "banned", "blank", "term"}
MCTriageOf == [clean |-> "PASS", banned |-> "REJECT", blank |-> "COMPLEX", term |-> "COMPLEX"]
MCTextHits == {"banned", "term"}

(* One content for each path of a request. *)
TwoContents == {"clean", "blank"}
TwoTriageOf == [clean |-> "PASS", blank |-> "COMPLEX"]

==============================================================================
