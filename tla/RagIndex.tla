------------------------------- MODULE RagIndex -------------------------------
(***************************************************************************)
(* The retrieval index behind PolicySearchTool and CaseSearchTool.  Every  *)
(* service process holds its corpus in memory and, on its first search,    *)
(* seeds the one Chroma collection all processes share; a search fuses the *)
(* ranking of that collection with a local BM25 ranking.                   *)
(*                                                                         *)
(* A process runs its seeding and its searches without awaiting anything,  *)
(* so only other processes interleave, between two calls to the server.    *)
(* Similarity scores are numbers no property tells apart: a ranking is any *)
(* choice of the right size.  A node id is a hash of the collection name   *)
(* and the row key, and the collection name is the same for every process  *)
(* of one kind of index: rows are keyed by their key.                      *)
(***************************************************************************)
EXTENDS Naturals, FiniteSets

CONSTANTS
  Processes,    \* service processes
  Keys,         \* clause_id or case_id of every row of every release
  Corpora,      \* the corpus files of the releases: a row, or Absent, per key
  Absent,       \* no row under this key
  Queries,      \* the searches a process may run
  MaxRestarts   \* bound: restarts of a process, all processes together

Kinds == {"policy", "case"}

FullCategory == "full"
AnyCategory == "any"

(* A row: what the filters read of it.  Its wording is left out, and so is   *)
(* that a precedent has no status: no filter on cases reads one.             *)
Row == [status : {"EFFECTIVE", "EXPIRED"}, category : {"shoes", "bags", FullCategory},
        risks : SUBSET {"ip", "evasion"}]

Stored == Row \cup {Absent}

(* The arguments of search; the text of the query only ranks. *)
Query == [category : {"shoes", "bags", AnyCategory}, risks : SUBSET {"ip", "evasion"},
          effectiveOnly : BOOLEAN, topK : Nat \ {0}]

ASSUME ProcessesAssumption == Processes # {}
ASSUME KeysAssumption == IsFiniteSet(Keys)
ASSUME AbsentAssumption == Absent \notin Row
ASSUME CorporaAssumption ==
  Corpora \subseteq {c \in [Keys -> Stored] : \E k \in Keys : c[k] # Absent}
ASSUME QueriesAssumption == Queries \subseteq Query
ASSUME MaxRestartsAssumption == MaxRestarts \in Nat

VARIABLES
  kind,        \* the kind of index, the same for all processes
  corpus,      \* _rows of the release a process runs
  collection,  \* the shared collection: the row stored under a key, or Absent
  pc,          \* how far a process is with its index
  stale,       \* stale_ids a seeding process has read and will delete
  answer,      \* the search just answered, or NoAnswer
  restarts     \* restarts so far

vars == <<kind, corpus, collection, pc, stale, answer, restarts>>

Own(p) == {k \in Keys : corpus[p][k] # Absent}
Held == {k \in Keys : collection[k] # Absent}

NoAnswer == [asked |-> FALSE]

TypeOK ==
  /\ kind \in Kinds
  /\ corpus \in [Processes -> Corpora]
  /\ collection \in [Keys -> Stored]
  /\ pc \in [Processes -> {"unbuilt", "listed", "purged", "cleared", "ready"}]
  /\ stale \in [Processes -> SUBSET Keys]
  /\ answer = NoAnswer
     \/ answer \in [asked : {TRUE}, process : Processes, query : Queries,
                    hits : SUBSET (Keys \X Row)]
  /\ restarts \in 0..MaxRestarts

Init ==
  /\ kind \in Kinds
  /\ corpus \in [Processes -> Corpora]
  /\ collection = [k \in Keys |-> Absent]
  /\ pc = [p \in Processes |-> "unbuilt"]
  /\ stale = [p \in Processes |-> {}]
  /\ answer = NoAnswer
  /\ restarts = 0

-----------------------------------------------------------------------------
(* Filters *)

RisksOverlap(row, q) == q.risks # {} => row.risks \cap q.risks # {}

PolicyMatches(row, q) ==
  /\ q.effectiveOnly => row.status = "EFFECTIVE"
  /\ q.category # AnyCategory => row.category \in {q.category, FullCategory}
  /\ RisksOverlap(row, q)

CaseMatches(row, q) ==
  /\ q.category # AnyCategory => row.category = q.category
  /\ RisksOverlap(row, q)

Matches(row, q) ==
  IF kind = "policy" THEN PolicyMatches(row, q) ELSE CaseMatches(row, q)

(* _policy_candidates, _case_candidates: the filters over the rows in memory. *)
Candidates(p, q) == {k \in Own(p) : Matches(corpus[p][k], q)}

(* _filters_of, evaluated by the server: the same filters over stored metadata. *)
Filtered(q) == {k \in Held : Matches(collection[k], q)}

-----------------------------------------------------------------------------
(* Search *)

(* The best n of a set under some scoring, or all of it when it is smaller. *)
Best(set, n) ==
  IF Cardinality(set) <= n THEN {set}
  ELSE {s \in SUBSET set : Cardinality(s) = n}

VectorRankings(p, q) ==
  Best({<<k, collection[k]>> : k \in Filtered(q)}, Cardinality(Own(p)))

BM25Ranking(p, q) == {<<k, corpus[p][k]>> : k \in Candidates(p, q)}

(* _to_ranked: nodes of a row this process does not have are dropped. *)
Ranked(p, nodes) == {x \in nodes : x[1] \in Own(p)}

(* A mistaken _rank_hybrid: the collection alone is asked. *)
VectorOnly(p, q) == {Ranked(p, v) : v \in VectorRankings(p, q)}

(* _rank_hybrid: reciprocal rank fusion merges nodes that are equal in text  *)
(* and metadata, so one key may come twice, in two versions.                 *)
HybridRankings(p, q) ==
  UNION { {Ranked(p, fused) : fused \in Best(v \cup BM25Ranking(p, q), Cardinality(Own(p)))} :
          v \in VectorRankings(p, q) }

(* search: nothing is asked without a candidate.  A hit is answered by the    *)
(* row of the process itself; the pairs keep apart what the fusion kept apart, *)
(* so that a row that comes twice counts twice.                              *)
SearchHits(p, q) ==
  IF Candidates(p, q) = {} THEN {{}}
  ELSE UNION {Best(r, q.topK) : r \in HybridRankings(p, q)}

(* A search of a process whose index is built. *)
Search(p, q) ==
  /\ pc[p] = "ready"
  /\ \E hits \in SearchHits(p, q) :
       answer' = [asked |-> TRUE, process |-> p, query |-> q, hits |-> hits]
  /\ UNCHANGED <<kind, corpus, collection, pc, stale, restarts>>

-----------------------------------------------------------------------------
(* The first search of a process builds its index (_LazyIndex._resolve), one *)
(* call to the server after the other.                                       *)

Stage(p, from, to) ==
  /\ pc[p] = from
  /\ pc' = [pc EXCEPT ![p] = to]
  /\ answer' = NoAnswer
  /\ UNCHANGED <<kind, corpus, restarts>>

(* Embedding done, the collection is opened or created, its ids are read. *)
ListIds(p) ==
  /\ Stage(p, "unbuilt", "listed")
  /\ stale' = [stale EXCEPT ![p] = Held \ Own(p)]
  /\ UNCHANGED collection

Without(keys) ==
  [k \in Keys |-> IF k \in keys THEN Absent ELSE collection[k]]

DeleteStale(p) ==
  /\ stale[p] # {}
  /\ Stage(p, "listed", "purged")
  /\ collection' = Without(stale[p])
  /\ stale' = [stale EXCEPT ![p] = {}]

(* A mistaken DeleteOwn: only rows in need of an update would be written. *)
DeleteNothing(p) ==
  /\ Stage(p, "purged", "cleared") \/ (stale[p] = {} /\ Stage(p, "listed", "cleared"))
  /\ UNCHANGED <<collection, stale>>

DeleteOwn(p) ==
  /\ Stage(p, "purged", "cleared") \/ (stale[p] = {} /\ Stage(p, "listed", "cleared"))
  /\ collection' = Without(Own(p))
  /\ UNCHANGED stale

(* Chroma's add: an id that is already there keeps the record it has. *)
Added(p) ==
  [k \in Keys |-> IF collection[k] = Absent THEN corpus[p][k] ELSE collection[k]]

AddNodes(p) ==
  /\ Stage(p, "cleared", "ready")
  /\ collection' = Added(p)
  /\ UNCHANGED stale

(* A mistaken BuildFailed: the failure is remembered with the index. *)
BuildFailedCached(p) ==
  /\ \E from \in {"listed", "purged", "cleared"} : Stage(p, from, "failed")
  /\ stale' = [stale EXCEPT ![p] = {}]
  /\ UNCHANGED collection

(* Embedding or one of the calls raises: nothing is cached, what the calls   *)
(* before it did stays, and the next search starts again.                    *)
BuildFailed(p) ==
  /\ \E from \in {"listed", "purged", "cleared"} : Stage(p, from, "unbuilt")
  /\ stale' = [stale EXCEPT ![p] = {}]
  /\ UNCHANGED collection

(* A process is stopped, wherever it is, and started with the same release or *)
(* another one; its index lives in memory only.                               *)
Restart(p) ==
  /\ restarts < MaxRestarts
  /\ restarts' = restarts + 1
  /\ \E c \in Corpora : corpus' = [corpus EXCEPT ![p] = c]
  /\ pc' = [pc EXCEPT ![p] = "unbuilt"]
  /\ stale' = [stale EXCEPT ![p] = {}]
  /\ answer' = NoAnswer
  /\ UNCHANGED <<kind, collection>>

Next ==
  \E p \in Processes :
    \/ ListIds(p) \/ DeleteStale(p) \/ DeleteOwn(p) \/ AddNodes(p)
    \/ BuildFailed(p) \/ Restart(p)
    \/ \E q \in Queries : Search(p, q)

Spec == Init /\ [][Next]_vars

==============================================================================
