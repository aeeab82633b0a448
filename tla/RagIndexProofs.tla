---------------------------- MODULE RagIndexProofs ----------------------------
(***************************************************************************)
(* For any number of processes, releases, keys and restarts: the types,    *)
(* what a search finds while the collection is being seeded, and what the  *)
(* collection holds once every process has its index.                      *)
(***************************************************************************)
EXTENDS RagIndexProperties, FiniteSetTheorems, Functions, TLAPS

(* What a choice of the best keeps of the set it chooses from. *)
LEMMA BestSubset ==
  ASSUME NEW S, NEW n, NEW T \in Best(S, n)
  PROVE  /\ T \subseteq S
         /\ Cardinality(S) <= n => T = S
  BY DEF Best

(* The candidates of a search are keys of rows that the process holds. *)
LEMMA CorpusType ==
  ASSUME TypeOK, NEW p \in Processes
  PROVE  /\ corpus[p] \in Corpora
         /\ corpus[p] \in [Keys -> Stored]
         /\ \A k \in Own(p) : k \in Keys /\ corpus[p][k] \in Row
  BY CorporaAssumption DEF TypeOK, Own, Stored

(* Every hit of a search is a key with a row. *)
LEMMA HitsType ==
  ASSUME TypeOK, NEW p \in Processes, NEW q \in Queries, NEW hits \in SearchHits(p, q)
  PROVE  hits \in SUBSET (Keys \X Row)
<1>1. CASE Candidates(p, q) = {}
  BY <1>1 DEF SearchHits
<1>2. CASE Candidates(p, q) # {}
  <2>1. PICK r \in HybridRankings(p, q) : hits \in Best(r, q.topK)
    BY <1>2 DEF SearchHits
  <2>2. PICK v \in VectorRankings(p, q) :
          r \in {Ranked(p, fused) : fused \in Best(v \cup BM25Ranking(p, q), Cardinality(Own(p)))}
    BY <2>1 DEF HybridRankings
  <2>3. PICK fused \in Best(v \cup BM25Ranking(p, q), Cardinality(Own(p))) :
          r = Ranked(p, fused)
    BY <2>2
  <2>4. v \subseteq {<<k, collection[k]>> : k \in Filtered(q)}
    BY <2>2, BestSubset DEF VectorRankings
  <2>5. \A k \in Filtered(q) : k \in Keys /\ collection[k] \in Row
    BY DEF Filtered, Held, TypeOK, Stored
  <2>6. BM25Ranking(p, q) \subseteq Keys \X Row
    BY CorpusType DEF BM25Ranking, Candidates
  <2>7. fused \subseteq Keys \X Row
    BY <2>3, <2>4, <2>5, <2>6, BestSubset
  <2>8. hits \subseteq r
    BY <2>1, BestSubset
  <2> QED BY <2>3, <2>7, <2>8 DEF Ranked
<1> QED BY <1>1, <1>2

(* Type correctness. *)
LEMMA InitTypeOK == Init => TypeOK
  BY MaxRestartsAssumption DEF Init, TypeOK, Stored

LEMMA NextTypeOK == TypeOK /\ [Next]_vars => TypeOK'
<1> SUFFICES ASSUME TypeOK, [Next]_vars PROVE TypeOK'
  OBVIOUS
<1>1. ASSUME NEW p \in Processes, ListIds(p) PROVE TypeOK'
  BY <1>1 DEF ListIds, Stage, TypeOK, Held
<1>2. ASSUME NEW p \in Processes, DeleteStale(p) PROVE TypeOK'
  BY <1>2 DEF DeleteStale, Stage, TypeOK, Without, Stored
<1>3. ASSUME NEW p \in Processes, DeleteOwn(p) PROVE TypeOK'
  BY <1>3 DEF DeleteOwn, Stage, TypeOK, Without, Stored
<1>4. ASSUME NEW p \in Processes, AddNodes(p) PROVE TypeOK'
  <2>1. Added(p) \in [Keys -> Stored]
    BY CorpusType DEF Added, TypeOK
  <2> QED BY <1>4, <2>1 DEF AddNodes, Stage, TypeOK
<1>5. ASSUME NEW p \in Processes, BuildFailed(p) PROVE TypeOK'
  BY <1>5 DEF BuildFailed, Stage, TypeOK
<1>6. ASSUME NEW p \in Processes, Restart(p) PROVE TypeOK'
  BY <1>6, MaxRestartsAssumption DEF Restart, TypeOK
<1>7. ASSUME NEW p \in Processes, NEW q \in Queries, Search(p, q) PROVE TypeOK'
  <2>1. PICK hits \in SearchHits(p, q) :
          answer' = [asked |-> TRUE, process |-> p, query |-> q, hits |-> hits]
    BY <1>7 DEF Search
  <2>2. hits \in SUBSET (Keys \X Row)
    BY HitsType
  <2> DEFINE Hits == SUBSET (Keys \X Row)
  <2>3. answer' \in [asked : {TRUE}, process : Processes, query : Queries, hits : Hits]
    <3> hits \in Hits
      BY <2>2
    <3> HIDE DEF Hits
    <3> QED BY <2>1
  <2> QED BY <1>7, <2>3 DEF Search, TypeOK
<1>8. CASE UNCHANGED vars
  BY <1>8 DEF vars, TypeOK
<1> QED BY <1>1, <1>2, <1>3, <1>4, <1>5, <1>6, <1>7, <1>8 DEF Next

(* Every variable keeps its type, whatever the processes do. *)
THEOREM TypeCorrect == Spec => []TypeOK
  BY InitTypeOK, NextTypeOK, PTL DEF Spec

-----------------------------------------------------------------------------
(* What a search finds. *)

(* Keys paired with their rows are as many as the keys. *)
LEMMA PairsCardinality ==
  ASSUME NEW K \in SUBSET Keys, NEW f \in [Keys -> Stored]
  PROVE  /\ IsFiniteSet(K)
         /\ IsFiniteSet({<<k, f[k]>> : k \in K})
         /\ Cardinality({<<k, f[k]>> : k \in K}) = Cardinality(K)
<1> DEFINE Pairs == {<<k, f[k]>> : k \in K}
           pair == [k \in K |-> <<k, f[k]>>]
<1>1. IsFiniteSet(K)
  BY KeysAssumption, FS_Subset
<1>2. pair \in Bijection(K, Pairs)
  <2>1. pair \in [K -> Pairs]
    OBVIOUS
  <2>2. \A x, y \in K : pair[x] = pair[y] => x = y
    OBVIOUS
  <2>3. \A y \in Pairs : \E x \in K : pair[x] = y
    OBVIOUS
  <2> HIDE DEF pair, Pairs
  <2> QED BY <2>1, <2>2, <2>3 DEF Bijection, Injection, Surjection, IsInjective
<1>3. ExistsBijection(K, Pairs)
  BY <1>2 DEF ExistsBijection
<1> QED BY <1>1, <1>3, FS_Bijection

(* While no other release is mixed in, the vector ranking has nothing the   *)
(* local one has not, and a search chooses its hits from the candidates.    *)
LEMMA UnmixedSearch ==
  ASSUME TypeOK, NEW p \in Processes, NEW q \in Queries, Unmixed(p),
         NEW hits \in SearchHits(p, q)
  PROVE  /\ hits \subseteq BM25Ranking(p, q)
         /\ Cardinality(BM25Ranking(p, q)) <= q.topK => hits = BM25Ranking(p, q)
<1>1. CASE Candidates(p, q) = {}
  BY <1>1 DEF SearchHits, BM25Ranking
<1>2. CASE Candidates(p, q) # {}
  <2>1. PICK r \in HybridRankings(p, q) : hits \in Best(r, q.topK)
    BY <1>2 DEF SearchHits
  <2>2. PICK v \in VectorRankings(p, q) :
          r \in {Ranked(p, fused) : fused \in Best(v \cup BM25Ranking(p, q), Cardinality(Own(p)))}
    BY <2>1 DEF HybridRankings
  <2>3. PICK fused \in Best(v \cup BM25Ranking(p, q), Cardinality(Own(p))) :
          r = Ranked(p, fused)
    BY <2>2
  <2>4. v \subseteq {<<k, collection[k]>> : k \in Filtered(q)}
    BY <2>2, BestSubset DEF VectorRankings
  <2>5. \A k \in Filtered(q) : k \in Candidates(p, q) /\ collection[k] = corpus[p][k]
    BY DEF Filtered, Held, Unmixed, Candidates, Own
  <2>6. v \cup BM25Ranking(p, q) = BM25Ranking(p, q)
    BY <2>4, <2>5 DEF BM25Ranking
  <2>7. Cardinality(BM25Ranking(p, q)) <= Cardinality(Own(p))
    <3>1. Own(p) \in SUBSET Keys /\ Candidates(p, q) \in SUBSET Own(p)
      BY DEF Own, Candidates
    <3>2. IsFiniteSet(Own(p))
      BY <3>1, KeysAssumption, FS_Subset
    <3>3. Cardinality(Candidates(p, q)) <= Cardinality(Own(p))
      BY <3>1, <3>2, FS_Subset
    <3>4. corpus[p] \in [Keys -> Stored] /\ Candidates(p, q) \in SUBSET Keys
      BY <3>1, CorpusType
    <3>5. Cardinality(BM25Ranking(p, q)) = Cardinality(Candidates(p, q))
      BY <3>4, PairsCardinality DEF BM25Ranking
    <3> QED BY <3>3, <3>5
  <2>8. fused = BM25Ranking(p, q)
    BY <2>3, <2>6, <2>7, BestSubset
  <2>9. r = BM25Ranking(p, q)
    BY <2>3, <2>8 DEF Ranked, BM25Ranking, Candidates
  <2> QED BY <2>1, <2>9, BestSubset
<1> QED BY <1>1, <1>2

LEMMA SearchSeedingHidden ==
  ASSUME TypeOK, NEW p \in Processes, NEW q \in Queries, Search(p, q)
  PROVE  SeedingHidden'
<1>1. PICK hits \in SearchHits(p, q) :
        answer' = [asked |-> TRUE, process |-> p, query |-> q, hits |-> hits]
  BY DEF Search
<1>2. answer'.process = p /\ answer'.query = q /\ answer'.hits = hits
  BY <1>1
<1> DEFINE found == {x[1] : x \in hits}
           candidates == Candidates(p, q)
<1>3. UNCHANGED <<kind, corpus, collection>>
  BY DEF Search
<1>4. Candidates(p, q)' = candidates
  BY <1>3 DEF Candidates, Own, Matches
<1>5. Unmixed(p)' <=> Unmixed(p)
  BY <1>3 DEF Unmixed, Held
<1>6. ASSUME Unmixed(p)
      PROVE  /\ found \subseteq candidates
             /\ Cardinality(hits) = Cardinality(found)
             /\ Cardinality(candidates) <= q.topK => found = candidates
  <2>1. hits \subseteq BM25Ranking(p, q)
    BY <1>6, UnmixedSearch
  <2>2. found \subseteq candidates
    BY <2>1 DEF BM25Ranking
  <2>3. hits = {<<k, corpus[p][k]>> : k \in found}
    BY <2>1 DEF BM25Ranking
  <2>4. candidates \in SUBSET Keys /\ corpus[p] \in [Keys -> Stored]
    BY CorpusType DEF Candidates, Own
  <2>5. Cardinality(hits) = Cardinality(found)
    <3>1. found \in SUBSET Keys
      BY <2>2, <2>4
    <3> HIDE DEF found
    <3> QED BY <3>1, <2>3, <2>4, PairsCardinality
  <2>6. ASSUME Cardinality(candidates) <= q.topK PROVE found = candidates
    <3>1. Cardinality(BM25Ranking(p, q)) = Cardinality(candidates)
      BY <2>4, PairsCardinality DEF BM25Ranking
    <3>2. hits = BM25Ranking(p, q)
      BY <1>6, <2>6, <3>1, UnmixedSearch
    <3>3. \A k \in candidates : <<k, corpus[p][k]>> \in hits
      BY <3>2 DEF BM25Ranking
    <3>4. ASSUME NEW k \in candidates PROVE k \in found
      <4> DEFINE x == <<k, corpus[p][k]>>
      <4>1. x \in hits
        BY <3>3
      <4>2. x[1] = k
        OBVIOUS
      <4> QED BY <4>1, <4>2
    <3> QED BY <3>4, <2>2
  <2> QED BY <2>2, <2>5, <2>6
<1> QED BY <1>2, <1>4, <1>5, <1>6 DEF SeedingHidden

(* A search finds its candidates while the collection is deleted and filled. *)
THEOREM SearchFindsCandidates == Spec => []SeedingHidden
<1>1. Init => SeedingHidden
  BY DEF Init, SeedingHidden, NoAnswer
<1>2. TypeOK /\ SeedingHidden /\ [Next]_vars => SeedingHidden'
  <2> SUFFICES ASSUME TypeOK, SeedingHidden, [Next]_vars PROVE SeedingHidden'
    OBVIOUS
  <2>1. CASE UNCHANGED vars
    BY <2>1 DEF vars, SeedingHidden, Unmixed, Held, Candidates, Own, Matches
  <2>2. CASE answer' = NoAnswer
    BY <2>2 DEF SeedingHidden, NoAnswer
  <2>3. ASSUME NEW p \in Processes, NEW q \in Queries, Search(p, q) PROVE SeedingHidden'
    BY <2>3, SearchSeedingHidden
  <2> QED BY <2>1, <2>2, <2>3
       DEF Next, ListIds, DeleteStale, DeleteOwn, AddNodes, BuildFailed, Restart, Stage
<1> QED BY <1>1, <1>2, TypeCorrect, PTL DEF Spec

-----------------------------------------------------------------------------
(* What the collection holds in the end. *)

(* Once all processes run corpus c and have started to seed, a key or a row *)
(* that does not belong to c is one that a process is about to delete, and  *)
(* a row of c is missing only while a process is about to add it.           *)
Started(c) == \A p \in Processes : corpus[p] = c /\ pc[p] # "unbuilt"

ForeignKeyDoomed(c) ==
  \A k \in Held : c[k] = Absent => \E p \in Processes : k \in stale[p]

ForeignRowDoomed(c) ==
  \A k \in Held : c[k] # Absent /\ collection[k] # c[k] =>
    \E p \in Processes : pc[p] \in {"listed", "purged"}

MissingRowAwaited(c) ==
  \A k \in Keys : c[k] # Absent /\ collection[k] = Absent =>
    \E p \in Processes : pc[p] # "ready"

StaleListed ==
  \A p \in Processes :
    /\ pc[p] # "listed" => stale[p] = {}
    /\ stale[p] \cap Own(p) = {}

Converging ==
  \A c \in Corpora :
    Started(c) => ForeignKeyDoomed(c) /\ ForeignRowDoomed(c) /\ MissingRowAwaited(c)

IInv == TypeOK /\ StaleListed /\ Converging

LEMMA InitIInv == Init => IInv
<1> SUFFICES ASSUME Init PROVE IInv
  OBVIOUS
<1>1. StaleListed
  BY DEF Init, StaleListed
<1>2. Converging
  BY ProcessesAssumption DEF Init, Converging, Started
<1> QED BY <1>1, <1>2, InitTypeOK DEF IInv

LEMMA StaleStep ==
  ASSUME IInv, [Next]_vars
  PROVE  StaleListed'
<1> USE DEF IInv, TypeOK, StaleListed, Own
<1>1. ASSUME NEW p \in Processes, ListIds(p) PROVE StaleListed'
  BY <1>1 DEF ListIds, Stage, Held
<1>2. ASSUME NEW p \in Processes, DeleteStale(p) PROVE StaleListed'
  BY <1>2 DEF DeleteStale, Stage
<1>3. ASSUME NEW p \in Processes, DeleteOwn(p) PROVE StaleListed'
  BY <1>3 DEF DeleteOwn, Stage
<1>4. ASSUME NEW p \in Processes, AddNodes(p) PROVE StaleListed'
  BY <1>4 DEF AddNodes, Stage
<1>5. ASSUME NEW p \in Processes, BuildFailed(p) PROVE StaleListed'
  BY <1>5 DEF BuildFailed, Stage
<1>6. ASSUME NEW p \in Processes, Restart(p) PROVE StaleListed'
  BY <1>6 DEF Restart
<1>7. ASSUME NEW p \in Processes, NEW q \in Queries, Search(p, q) PROVE StaleListed'
  BY <1>7 DEF Search
<1>8. CASE UNCHANGED vars
  BY <1>8 DEF vars
<1> QED BY <1>1, <1>2, <1>3, <1>4, <1>5, <1>6, <1>7, <1>8 DEF Next

(* A process that fails or restarts has not started; any other step leaves  *)
(* the corpora alone, and all but the first step of a seeding leave the     *)
(* processes started.                                                       *)
LEMMA ConvergingStep ==
  ASSUME IInv, [Next]_vars
  PROVE  Converging'
<1> SUFFICES ASSUME NEW c \in Corpora, Started(c)'
             PROVE  (ForeignKeyDoomed(c) /\ ForeignRowDoomed(c) /\ MissingRowAwaited(c))'
  BY DEF Converging
<1> DEFINE Claim == ForeignKeyDoomed(c) /\ ForeignRowDoomed(c) /\ MissingRowAwaited(c)
<1>a. Started(c) => Claim
  BY DEF IInv, Converging
<1>c. c \in [Keys -> Stored]
  BY CorporaAssumption
<1> USE DEF ForeignKeyDoomed, ForeignRowDoomed, MissingRowAwaited, Held
<1>1. ASSUME NEW p \in Processes, ListIds(p) PROVE Claim'
  <2>1. corpus[p] = c
    BY <1>1 DEF ListIds, Stage, Started
  <2>2. stale'[p] = Held \ Own(p) /\ pc'[p] = "listed" /\ collection' = collection
    BY <1>1 DEF ListIds, Stage, IInv, TypeOK
  <2> QED BY <2>1, <2>2 DEF Own
<1>2. ASSUME NEW p \in Processes, DeleteStale(p) PROVE Claim'
  <2>1. Started(c)
    BY <1>2 DEF DeleteStale, Stage, Started, IInv, TypeOK
  <2>2. collection' = Without(stale[p]) /\ stale' = [stale EXCEPT ![p] = {}]
    BY <1>2 DEF DeleteStale
  <2>3. pc' = [pc EXCEPT ![p] = "purged"]
    BY <1>2 DEF DeleteStale, Stage
  <2>4. \A k \in stale[p] : c[k] = Absent
    BY <2>1 DEF IInv, TypeOK, StaleListed, Own, Started
  <2>5. ForeignKeyDoomed(c)'
    <3> SUFFICES ASSUME NEW k \in Keys, collection'[k] # Absent, c[k] = Absent
                 PROVE  \E r \in Processes : k \in stale'[r]
      OBVIOUS
    <3>1. k \in Held /\ k \notin stale[p]
      BY <2>2 DEF Without
    <3>2. PICK r \in Processes : k \in stale[r]
      BY <3>1, <2>1, <1>a
    <3> QED BY <3>1, <3>2, <2>2 DEF IInv, TypeOK
  <2>6. ForeignRowDoomed(c)'
    BY <2>3 DEF IInv, TypeOK
  <2>7. MissingRowAwaited(c)'
    BY <2>3 DEF IInv, TypeOK
  <2> QED BY <2>5, <2>6, <2>7
<1>3. ASSUME NEW p \in Processes, DeleteOwn(p) PROVE Claim'
  <2>1. Started(c)
    BY <1>3 DEF DeleteOwn, Stage, Started, IInv, TypeOK
  <2>2. collection' = Without(Own(p)) /\ stale' = stale /\ pc'[p] = "cleared"
    BY <1>3 DEF DeleteOwn, Stage, IInv, TypeOK
  <2>3. corpus[p] = c
    BY <2>1 DEF Started
  <2>4. \A k \in Keys : collection'[k] # Absent => collection'[k] = collection[k] /\ c[k] = Absent
    BY <2>2, <2>3 DEF Without, Own
  <2> QED BY <2>1, <2>2, <2>4, <1>a
<1>4. ASSUME NEW p \in Processes, AddNodes(p) PROVE Claim'
  <2>1. Started(c) /\ corpus[p] = c
    BY <1>4 DEF AddNodes, Stage, Started, IInv, TypeOK
  <2>2. collection' = Added(p) /\ stale' = stale
    BY <1>4 DEF AddNodes
  <2>3. pc[p] = "cleared" /\ pc' = [pc EXCEPT ![p] = "ready"]
    BY <1>4 DEF AddNodes, Stage
  <2>4. \A k \in Keys : collection'[k] = IF collection[k] = Absent THEN c[k] ELSE collection[k]
    BY <2>1, <2>2 DEF Added
  <2>5. ForeignKeyDoomed(c)' /\ MissingRowAwaited(c)'
    BY <2>1, <2>2, <2>4, <1>a
  <2>6. ForeignRowDoomed(c)'
    <3> SUFFICES ASSUME NEW k \in Keys, c[k] # Absent, collection'[k] # c[k]
                 PROVE  \E r \in Processes : pc'[r] \in {"listed", "purged"}
      OBVIOUS
    <3>1. k \in Held /\ collection[k] # c[k]
      BY <2>4
    <3>2. PICK r \in Processes : pc[r] \in {"listed", "purged"}
      BY <3>1, <2>1, <1>a
    <3> QED BY <3>2, <2>3 DEF IInv, TypeOK
  <2> QED BY <2>5, <2>6
<1>5. ASSUME NEW p \in Processes, BuildFailed(p) PROVE Claim'
  <2>1. pc'[p] = "unbuilt"
    BY <1>5 DEF BuildFailed, Stage, IInv, TypeOK
  <2> QED BY <2>1 DEF Started
<1>6. ASSUME NEW p \in Processes, Restart(p) PROVE Claim'
  <2>1. pc'[p] = "unbuilt"
    BY <1>6 DEF Restart, IInv, TypeOK
  <2> QED BY <2>1 DEF Started
<1>7. ASSUME NEW p \in Processes, NEW q \in Queries, Search(p, q) PROVE Claim'
  BY <1>7, <1>a DEF Search, Started
<1>8. CASE UNCHANGED vars
  BY <1>8, <1>a DEF vars, Started
<1> QED BY <1>1, <1>2, <1>3, <1>4, <1>5, <1>6, <1>7, <1>8 DEF Next

LEMMA SettledFromIInv ==
  ASSUME IInv
  PROVE  SettledCollection
<1> SUFFICES ASSUME NEW c \in Corpora, \A p \in Processes : pc[p] = "ready" /\ corpus[p] = c
             PROVE  collection = c
  BY DEF SettledCollection
<1>1. ForeignKeyDoomed(c) /\ ForeignRowDoomed(c) /\ MissingRowAwaited(c)
  BY DEF IInv, Converging, Started
<1>2. \A p \in Processes : stale[p] = {}
  BY DEF IInv, StaleListed
<1>3. \A k \in Keys : collection[k] = c[k]
  BY <1>1, <1>2, ProcessesAssumption
     DEF ForeignKeyDoomed, ForeignRowDoomed, MissingRowAwaited, Held
<1>4. collection \in [Keys -> Stored] /\ c \in [Keys -> Stored]
  BY CorporaAssumption DEF IInv, TypeOK
<1> QED BY <1>3, <1>4

(* Once every process has an index over the same corpus, the shared         *)
(* collection is that corpus, whatever happened on the way.                 *)
THEOREM CollectionSettles == Spec => []SettledCollection
<1>1. IInv /\ [Next]_vars => IInv'
  BY NextTypeOK, StaleStep, ConvergingStep DEF IInv
<1>2. IInv => SettledCollection
  BY SettledFromIInv
<1> QED BY InitIInv, <1>1, <1>2, PTL DEF Spec

==============================================================================
