-------------------------- MODULE RagIndexProperties --------------------------
(***************************************************************************)
(* What the retrieval index promises its callers and its operator.         *)
(***************************************************************************)
EXTENDS RagIndex

(* The collection holds no row of another release than the one p runs. *)
Unmixed(p) == \A k \in Held : collection[k] = corpus[p][k]

(* _seed empties and refills the collection in separate calls while other  *)
(* processes search it.  As long as no other release is mixed in, a search *)
(* still finds its candidates, all of them if top_k allows, each once,     *)
(* however little of the collection is there at that moment.               *)
SeedingHidden ==
  (answer.asked /\ Unmixed(answer.process)) =>
    LET found == {x[1] : x \in answer.hits}
        candidates == Candidates(answer.process, answer.query)
    IN  /\ found \subseteq candidates
        /\ Cardinality(answer.hits) = Cardinality(found)
        /\ Cardinality(candidates) <= answer.query.topK => found = candidates

(* Whatever failed, raced or ran another release before: once every process *)
(* has an index over one and the same corpus, the collection is exactly     *)
(* that corpus (_seed: stale ids are purged, own ids rewritten).            *)
SettledCollection ==
  \A c \in Corpora :
    (\A p \in Processes : pc[p] = "ready" /\ corpus[p] = c) => collection = c

==============================================================================
