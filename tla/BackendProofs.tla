---------------------------- MODULE BackendProofs ----------------------------
(***************************************************************************)
(* What the server's retrieval cache, circuit breaker, registries and      *)
(* corpus ingest guarantee, for every number of searches, callers, jobs,   *)
(* documents and chunks, every limit, and every way keys belong to matters.*)
(***************************************************************************)
EXTENDS RetrievalCache, CircuitBreaker, CorpusIngest, WorkflowRegistry, InductionLemmas

(* The inductive invariants.                                               *)

\* An invalidation drops what a namespace lists, so every entry must be listed;
\* an answer must be as new as the cache before it is stored as well as after.
CacheInv ==
  /\ CacheTypeOK /\ expiry \in Seq(Keys)
  /\ invalidated \in [CacheMatters -> Nat]
  /\ \A n \in CacheMatters : invalidated[n] <= version[n]
  /\ value \in [Keys -> [read : Nat, overtaken : BOOLEAN]]
  /\ search \in [Searchers -> [at : {"idle", "searching", "found"},
                               key : Keys \cup {Nobody.key}, read : Nat, overtaken : BOOLEAN]]
  /\ \A s \in Searchers : search[s].at # "idle" => search[s].key \in Keys
  /\ \A k \in InCache : NamespaceOf[k] # NoMatter => k \in namespaces[NamespaceOf[k]]
  /\ \A s \in Searchers :
       search[s].at = "found" /\ NamespaceOf[search[s].key] # NoMatter =>
         search[s].read >= invalidated[NamespaceOf[search[s].key]] \/ search[s].overtaken
  /\ CacheFresh

\* While the breaker is not closed no call begins, and each call still under way
\* can add one failure; a closed one has room for one more.
BreakerInv ==
  /\ circuit \in {"closed", "open", "cooled"}
  /\ calling \subseteq Callers /\ hit \subseteq calling /\ outages \in 0..MaxOutages
  /\ failures \in Nat
  /\ circuit = "closed" => failures < Threshold
  /\ circuit # "closed" => failures + Cardinality(calling) < Threshold + Cardinality(Callers)

\* A document under way was not passed, and has exactly the chunks before `from`.
CorpusInv ==
  /\ DOMAIN inWeaviate = 1..CorpusSize
  /\ \A d \in 1..CorpusSize : inWeaviate[d] \in [Chunks(d) -> {0, 1}]
  /\ step \in {"off", "count", "clear", "insert"}
  /\ document \in 1..CorpusSize + 1 /\ from \in Nat /\ passed \subseteq 1..CorpusSize
  /\ step \in {"clear", "insert"} => document \in (1..CorpusSize) \ passed
  /\ step = "clear" => from = 0
  /\ step = "insert" =>
       \A c \in Chunks(document) : inWeaviate[document][c] = IF c <= from THEN 1 ELSE 0
  /\ CorpusExact

\* Every job is in the order of age once.
RegistryInv ==
  /\ RegistryTypeOK /\ UnfinishedKept
  /\ updated \in Seq(Nat) /\ IsOneToOne(updated)
  /\ mostJobs \in Nat /\ mostRuns \in Nat

-----------------------------------------------------------------------------
(* The retrieval cache.                                                    *)

\* What is left of the cache without some keys.
LEMMA WithoutFacts ==
  ASSUME CacheInv, NEW keys
  PROVE  /\ Without(keys) \in Seq(Keys)
         /\ Members(Without(keys)) = InCache \ keys
         /\ Len(Without(keys)) \in 0..Len(expiry) /\ Len(expiry) \in Nat
         /\ InCache \cap keys # {} => Len(Without(keys)) < Len(expiry)
<1> DEFINE S == InCache \ keys
<1>1. expiry \in Seq(Keys) /\ Members(expiry) = InCache
  BY DEF CacheInv, InCache
<1>2. /\ Sublist(expiry, S) \in Seq(Keys)
      /\ Members(Sublist(expiry, S)) = Members(expiry) \cap S
      /\ Len(Sublist(expiry, S)) \in 0..Len(expiry)
      /\ ~(Members(expiry) \subseteq S) => Len(Sublist(expiry, S)) < Len(expiry)
  <2> HIDE DEF S
  <2> QED BY <1>1, SublistFacts
<1>3. Len(expiry) \in Nat
  BY <1>1, LenProperties
<1> QED BY <1>1, <1>2, <1>3 DEF Without

\* An answer is stored; the cache keeps to its limit and lists what it has.
LEMMA SetsKeeps ==
  ASSUME CacheInv, NEW s \in Searchers, Sets(s)
  PROVE  CacheInv'
<1> USE RetrievalCacheAssumption
<1> DEFINE k == search[s].key
           oldest == IF Len(expiry) >= MaxEntries THEN {Head(expiry)} ELSE {}
           left == Without(oldest \cup {k})
<1>1. /\ search[s].at = "found" /\ k \in Keys
      /\ expiry' = Append(left, k)
      /\ value' = [value EXCEPT ![k] = [read |-> search[s].read, overtaken |-> search[s].overtaken]]
      /\ namespaces' = Registered(k, oldest)
      /\ search' = [search EXCEPT ![s] = Nobody]
      /\ UNCHANGED <<version, due, invalidated>>
  BY DEF Sets, CacheInv
<1>2. /\ left \in Seq(Keys) /\ Members(left) = InCache \ (oldest \cup {k})
      /\ Len(left) \in 0..Len(expiry) /\ Len(expiry) \in Nat
      /\ InCache \cap (oldest \cup {k}) # {} => Len(left) < Len(expiry)
  BY WithoutFacts
<1>3. /\ expiry' \in Seq(Keys) /\ Len(expiry') = Len(left) + 1
      /\ InCache' = (InCache \ oldest) \cup {k}
  <2> HIDE DEF left, k, oldest
  <2>1. /\ expiry' \in Seq(Keys) /\ Len(expiry') = Len(left) + 1
        /\ Members(expiry') = Members(left) \cup {k}
    BY <1>1, <1>2, AppendFacts
  <2> QED BY <1>2, <2>1 DEF InCache
<1>4. Len(expiry') <= MaxEntries
  <2>1. CASE Len(expiry) >= MaxEntries
    <3>1. 1 \in 1..Len(expiry) /\ Head(expiry) = expiry[1]
      BY <1>2, <2>1 DEF CacheInv
    <3>2. Head(expiry) \in InCache /\ Head(expiry) \in oldest
      BY <2>1, <3>1 DEF InCache, Members
    <3> QED BY <1>2, <1>3, <3>2 DEF CacheInv, CacheTypeOK
  <2>2. CASE ~(Len(expiry) >= MaxEntries)
    BY <1>2, <1>3, <2>2
  <2> QED BY <2>1, <2>2
<1> HIDE DEF left
<1>5. /\ namespaces' \in [CacheMatters -> SUBSET Keys]
      /\ InCache' \subseteq Keys
      /\ value' \in [Keys -> [read : Nat, overtaken : BOOLEAN]]
  BY <1>1, <1>3 DEF CacheInv, CacheTypeOK, Registered
<1>6. /\ search' \in [Searchers -> [at : {"idle", "searching", "found"},
                     key : Keys \cup {Nobody.key}, read : Nat, overtaken : BOOLEAN]]
      /\ \A t \in Searchers : search'[t] = IF t = s THEN Nobody ELSE search[t]
      /\ Nobody.at = "idle"
  BY <1>1 DEF CacheInv, Nobody
<1>7. ASSUME NEW l \in InCache', NamespaceOf[l] # NoMatter
      PROVE  /\ l \in namespaces'[NamespaceOf[l]]
             /\ value'[l].read >= invalidated'[NamespaceOf[l]] \/ value'[l].overtaken
  <2>1. l \in Keys /\ NamespaceOf[l] \in CacheMatters
    BY <1>5, <1>7
  <2>2. CASE l = k
    BY <1>1, <2>1, <2>2, <1>7 DEF CacheInv, Registered
  <2>3. CASE l # k
    <3>1. l \in InCache /\ l \notin oldest
      BY <1>3, <2>3
    <3> QED BY <1>1, <1>7, <2>1, <2>3, <3>1 DEF CacheInv, CacheFresh, Registered
  <2> QED BY <2>2, <2>3
<1>8. CacheTypeOK'
  BY <1>1, <1>4, <1>5 DEF CacheInv, CacheTypeOK
<1>9. \A t \in Searchers :
        search'[t].at # "idle" =>
          /\ search'[t].key \in Keys
          /\ search'[t].at = "found" /\ NamespaceOf[search'[t].key] # NoMatter =>
               \/ search'[t].read >= invalidated'[NamespaceOf[search'[t].key]]
               \/ search'[t].overtaken
  BY <1>1, <1>6 DEF CacheInv
<1>10. CacheFresh'
  BY <1>7 DEF CacheFresh
<1>11. /\ invalidated' \in [CacheMatters -> Nat]
       /\ \A n \in CacheMatters : invalidated'[n] <= version'[n]
  BY <1>1 DEF CacheInv
<1> QED BY <1>3, <1>5, <1>6, <1>7, <1>8, <1>9, <1>10, <1>11 DEF CacheInv

\* A search begins, answers or fails.
LEMMA SearchKeeps ==
  ASSUME CacheInv, NEW s \in Searchers,
         (\E k \in Keys : Miss(s, k)) \/ Finds(s) \/ SearchFails(s)
  PROVE  CacheInv'
<1> USE RetrievalCacheAssumption
<1>1. UNCHANGED <<version, due, invalidated, value, namespaces>>
  BY DEF Miss, Finds, SearchFails
<1>2. /\ expiry' \in Seq(Keys) /\ InCache' \subseteq InCache
      /\ Len(expiry') <= Len(expiry) /\ Len(expiry) \in Nat /\ Len(expiry') \in Nat
  <2>1. CASE \E k \in Keys : expiry' = Without({k})
    <3>1. PICK k \in Keys : expiry' = Without({k})
      BY <2>1
    <3> QED BY <3>1, WithoutFacts DEF InCache
  <2>2. CASE UNCHANGED expiry
    BY <2>2, LenProperties DEF CacheInv, InCache
  <2> QED BY <2>1, <2>2 DEF Miss, Finds, SearchFails
<1>3. search[s].key \in Keys => NamespaceOf[search[s].key] \in CacheMatters \cup {NoMatter}
  OBVIOUS
<1>4. /\ search' \in [Searchers -> [at : {"idle", "searching", "found"},
                     key : Keys \cup {Nobody.key}, read : Nat, overtaken : BOOLEAN]]
      /\ \A t \in Searchers : search'[t].at # "idle" => search'[t].key \in Keys
      /\ \A t \in Searchers :
           search'[t].at = "found" /\ NamespaceOf[search'[t].key] # NoMatter =>
             \/ search'[t].read >= invalidated[NamespaceOf[search'[t].key]]
             \/ search'[t].overtaken
  <2>1. ASSUME NEW k \in Keys, Miss(s, k)
        PROVE  <1>4
    BY <2>1 DEF Miss, CacheInv, Nobody
  <2>2. CASE Finds(s)
    <3> DEFINE now == IF NamespaceOf[search[s].key] = NoMatter THEN 0
                      ELSE version[NamespaceOf[search[s].key]]
    <3>1. search[s].key \in Keys /\ now \in Nat
      BY <1>3, <2>2 DEF Finds, CacheInv, CacheTypeOK
    <3>2. NamespaceOf[search[s].key] # NoMatter => now >= invalidated[NamespaceOf[search[s].key]]
      BY <1>3, <3>1 DEF CacheInv
    <3>3. search' = [search EXCEPT ![s] = [@ EXCEPT !.at = "found", !.read = now]]
      BY <2>2 DEF Finds, CacheInv
    <3> HIDE DEF now
    <3> QED BY <3>1, <3>2, <3>3 DEF CacheInv
  <2>3. CASE SearchFails(s)
    BY <2>3 DEF SearchFails, CacheInv, Nobody
  <2> QED BY <2>1, <2>2, <2>3
<1>5. CacheTypeOK'
  BY <1>1, <1>2 DEF CacheInv, CacheTypeOK
<1> QED BY <1>1, <1>2, <1>4, <1>5 DEF CacheInv, CacheFresh

\* A matter's index changes, and the cache is told.
LEMMA ChangeKeeps ==
  ASSUME CacheInv, NEW n \in CacheMatters, ChangeIndex(n) \/ Invalidate(n)
  PROVE  CacheInv'
<1> USE RetrievalCacheAssumption
<1>1. CASE ChangeIndex(n)
  BY <1>1 DEF ChangeIndex, CacheInv, CacheTypeOK, CacheFresh, InCache
<1>2. CASE Invalidate(n)
  <2>1. /\ expiry' = Without(namespaces[n])
        /\ namespaces' = [namespaces EXCEPT ![n] = {}]
        /\ invalidated' = [invalidated EXCEPT ![n] = version[n]]
        /\ UNCHANGED <<version, value>>
        /\ \A s \in Searchers :
             search'[s] = IF search[s].at = "found" /\ NamespaceOf[search[s].key] = n
                            THEN [search[s] EXCEPT !.overtaken = TRUE] ELSE search[s]
    BY <1>2 DEF Invalidate
  <2>2. /\ expiry' \in Seq(Keys) /\ InCache' = InCache \ namespaces[n]
        /\ Len(expiry') <= Len(expiry) /\ Len(expiry) \in Nat /\ Len(expiry') \in Nat
    BY <2>1, WithoutFacts DEF InCache
  <2>3. CacheTypeOK'
    BY <2>1, <2>2 DEF CacheInv, CacheTypeOK
  <2>4. /\ invalidated' \in [CacheMatters -> Nat]
        /\ \A m \in CacheMatters : invalidated'[m] <= version'[m]
    BY <2>1 DEF CacheInv, CacheTypeOK
  <2>5. search' \in [Searchers -> [at : {"idle", "searching", "found"},
                     key : Keys \cup {Nobody.key}, read : Nat, overtaken : BOOLEAN]]
    <3>1. ASSUME NEW s \in Searchers
          PROVE  search'[s] \in [at : {"idle", "searching", "found"}, key : Keys \cup {Nobody.key},
                                 read : Nat, overtaken : BOOLEAN]
      <4>1. search[s] \in [at : {"idle", "searching", "found"}, key : Keys \cup {Nobody.key},
                           read : Nat, overtaken : BOOLEAN]
        BY DEF CacheInv
      <4> QED BY <2>1, <4>1
    <3>2. search' = [s \in Searchers |-> search'[s]]
      BY <1>2 DEF Invalidate
    <3> QED BY <3>1, <3>2
  <2>6. ASSUME NEW s \in Searchers, search'[s].at # "idle"
        PROVE  /\ search'[s].key \in Keys
               /\ search'[s].at = "found" /\ NamespaceOf[search'[s].key] # NoMatter =>
                    \/ search'[s].read >= invalidated'[NamespaceOf[search'[s].key]]
                    \/ search'[s].overtaken
    <3>1. search[s] \in [at : {"idle", "searching", "found"}, key : Keys \cup {Nobody.key},
                         read : Nat, overtaken : BOOLEAN]
      BY DEF CacheInv
    <3>2. search'[s].at = search[s].at /\ search'[s].key = search[s].key
          /\ search'[s].read = search[s].read
      BY <2>1, <3>1
    <3>3. search[s].key \in Keys
      BY <2>6, <3>2 DEF CacheInv
    <3>4. CASE search[s].at = "found" /\ NamespaceOf[search[s].key] = n
      BY <2>1, <3>1, <3>2, <3>3, <3>4
    <3>5. CASE ~(search[s].at = "found" /\ NamespaceOf[search[s].key] = n)
      BY <2>1, <3>2, <3>3, <3>5 DEF CacheInv
    <3> QED BY <3>4, <3>5
  <2>7. ASSUME NEW k \in InCache', NamespaceOf[k] # NoMatter
        PROVE  /\ k \in namespaces'[NamespaceOf[k]]
               /\ value'[k].read >= invalidated'[NamespaceOf[k]] \/ value'[k].overtaken
    <3>1. k \in InCache /\ k \in Keys /\ NamespaceOf[k] # n
      BY <2>2, <2>7 DEF CacheInv, CacheTypeOK
    <3> QED BY <2>1, <2>7, <3>1 DEF CacheInv, CacheFresh
  <2> QED BY <2>1, <2>2, <2>3, <2>4, <2>5, <2>6, <2>7 DEF CacheInv, CacheFresh
<1> QED BY <1>1, <1>2

\* The invariant of the cache holds.
LEMMA CacheInvHolds == CacheSpec => []CacheInv
<1>1. CacheInit => CacheInv
  <2> SUFFICES ASSUME CacheInit
               PROVE  CacheInv
    OBVIOUS
  <2>1. expiry \in Seq(Keys) /\ Len(expiry) = 0 /\ InCache = {}
    BY EmptySeq DEF CacheInit, InCache, Members
  <2> QED BY <2>1, RetrievalCacheAssumption
          DEF CacheInit, CacheInv, CacheTypeOK, CacheFresh, Nobody
<1>2. CacheInv /\ [CacheNext]_cacheVars => CacheInv'
  <2> SUFFICES ASSUME CacheInv, [CacheNext]_cacheVars
               PROVE  CacheInv'
    OBVIOUS
  <2>1. ASSUME NEW s \in Searchers,
               (\E k \in Keys : Hit(s, k) \/ Miss(s, k)) \/ Finds(s) \/ Sets(s) \/ SearchFails(s)
        PROVE  CacheInv'
    <3>1. CASE (\E k \in Keys : Miss(s, k)) \/ Finds(s) \/ SearchFails(s)
      BY <3>1, SearchKeeps
    <3>2. CASE Sets(s)
      BY <3>2, SetsKeeps
    <3>3. CASE \E k \in Keys : Hit(s, k)
      BY <3>3 DEF Hit, cacheVars, CacheInv, CacheTypeOK, CacheFresh, InCache
    <3> QED BY <2>1, <3>1, <3>2, <3>3
  <2>2. CASE UNCHANGED cacheVars
    BY <2>2 DEF cacheVars, CacheInv, CacheTypeOK, CacheFresh, InCache
  <2> QED BY <2>1, <2>2, ChangeKeeps DEF CacheNext
<1> QED BY <1>1, <1>2, PTL DEF CacheSpec

\* The cache keeps to max_entries, and what it has in a namespace is of keys.
THEOREM CacheTypeCorrect == CacheSpec => []CacheTypeOK
<1>1. CacheInv => CacheTypeOK
  BY DEF CacheInv
<1> QED BY <1>1, CacheInvHolds, PTL

\* No entry of a matter was read before the last invalidation, except by a
\* search that had its answer when the invalidation came.
THEOREM CacheStaysFresh == CacheSpec => []CacheFresh
<1>1. CacheInv => CacheFresh
  BY DEF CacheInv
<1> QED BY <1>1, CacheInvHolds, PTL

-----------------------------------------------------------------------------
(* The circuit breaker.                                                    *)

LEMMA BreakerStarts ==
  BreakerInit => BreakerInv
BY FS_EmptySet, CircuitBreakerAssumption DEF BreakerInit, BreakerInv

LEMMA BreakerKeeps ==
  BreakerInv /\ [BreakerNext]_breakerVars => BreakerInv'
<1> USE CircuitBreakerAssumption
<1> SUFFICES ASSUME BreakerInv, [BreakerNext]_breakerVars
             PROVE  BreakerInv'
  OBVIOUS
<1>1. IsFiniteSet(Callers) /\ Cardinality(Callers) \in Nat
  BY FS_CardinalityType
<1>2. /\ IsFiniteSet(calling) /\ Cardinality(calling) \in Nat
      /\ Cardinality(calling) <= Cardinality(Callers)
  BY <1>1, FS_Subset, FS_CardinalityType DEF BreakerInv
<1>3. ASSUME NEW c \in Callers, before_call(c)
      PROVE  BreakerInv'
  BY <1>3 DEF before_call, LetsThrough, BreakerInv
<1>4. ASSUME NEW c \in Callers, record_success(c)
      PROVE  BreakerInv'
  BY <1>4 DEF record_success, BreakerInv
<1>5. ASSUME NEW c \in Callers, record_failure(c)
      PROVE  BreakerInv'
  <2>1. c \in calling /\ calling' = calling \ {c} /\ failures' = failures + 1
    BY <1>5 DEF record_failure, BreakerInv
  <2>2. Cardinality(calling') = Cardinality(calling) - 1
    BY <1>2, <2>1, FS_RemoveElement
  <2> QED BY <1>1, <1>2, <1>5, <2>1, <2>2 DEF record_failure, BreakerInv
<1>6. CASE CoolsDown
  BY <1>6 DEF CoolsDown, BreakerInv
<1>7. CASE ProviderFails
  BY <1>7 DEF ProviderFails, BreakerInv
<1>8. CASE ProviderRecovers
  BY <1>8 DEF ProviderRecovers, BreakerInv
<1>9. CASE UNCHANGED breakerVars
  BY <1>9 DEF breakerVars, BreakerInv
<1> QED BY <1>3, <1>4, <1>5, <1>6, <1>7, <1>8, <1>9 DEF BreakerNext

LEMMA BreakerTyped ==
  BreakerInv => BreakerTypeOK
<1> USE CircuitBreakerAssumption
<1> SUFFICES ASSUME BreakerInv
             PROVE  BreakerTypeOK
  OBVIOUS
<1>1. IsFiniteSet(Callers) /\ Cardinality(Callers) \in Nat
  BY FS_CardinalityType
<1>2. Cardinality(calling) \in Nat
  BY <1>1, FS_Subset, FS_CardinalityType DEF BreakerInv
<1> QED BY <1>1, <1>2 DEF BreakerInv, BreakerTypeOK

\* While it is open only calls that began before can fail, once each: the number
\* of failures stays below the threshold and the callers together.
THEOREM BreakerTypeCorrect == BreakerSpec => []BreakerTypeOK
<1> QED BY BreakerStarts, BreakerKeeps, BreakerTyped, PTL DEF BreakerSpec

-----------------------------------------------------------------------------
(* The corpus ingest.                                                      *)

\* The number of chunks tells a document that is there, and one that is not.
LEMMA IndexedChunks ==
  ASSUME CorpusInv, NEW d \in 1..CorpusSize
  PROVE  /\ ChunkCount[d] \in Nat
         /\ indexed_chunks(d) = ChunkCount[d] <=> \A c \in Chunks(d) : inWeaviate[d][c] = 1
         /\ indexed_chunks(d) = 0 <=> \A c \in Chunks(d) : inWeaviate[d][c] = 0
<1> DEFINE N == ChunkCount[d]
           g == inWeaviate[d]
           f == CHOOSE h : h = [n \in 0..N |-> IF n = 0 THEN 0 ELSE h[n - 1] + g[n]]
<1>1. N \in Nat /\ \A n \in 1..N : g[n] \in {0, 1}
  BY CorpusIngestAssumption DEF CorpusInv, Chunks
<1>2. Tells(f, g, N)
  <2> HIDE DEF N, g
  <2> QED BY <1>1, ZeroOneSum
<1>3. indexed_chunks(d) = f[N]
  BY DEF indexed_chunks
<1> HIDE DEF f
<1> QED BY <1>1, <1>2, <1>3 DEF Tells, Chunks

LEMMA CorpusInit ==
  CorpusIngestInit => CorpusInv
BY CorpusIngestAssumption DEF CorpusIngestInit, CorpusInv, CorpusExact, Chunks

\* A document is counted: skipped only if it is whole, cleared or inserted only
\* if no run went past it.
LEMMA CountKeeps ==
  ASSUME CorpusInv, CountChunks
  PROVE  CorpusInv'
<1> USE CorpusIngestAssumption
<1>1. /\ step = "count" /\ document \in 1..CorpusSize /\ from' = 0
      /\ UNCHANGED <<inWeaviate, ingests>>
  BY DEF CountChunks, CorpusInv
<1>2. /\ ChunkCount[document] \in Nat
      /\ indexed_chunks(document) = ChunkCount[document]
           <=> \A c \in Chunks(document) : inWeaviate[document][c] = 1
      /\ indexed_chunks(document) = 0
           <=> \A c \in Chunks(document) : inWeaviate[document][c] = 0
  BY <1>1, IndexedChunks
<1>3. CASE Decision(document) = "skip"
  <2>1. \A c \in Chunks(document) : inWeaviate[document][c] = 1
    BY <1>2, <1>3 DEF Decision
  <2>2. document' = document + 1 /\ step' = "count" /\ passed' = passed \cup {document}
    BY <1>3 DEF CountChunks, NextDocument
  <2> QED BY <1>1, <2>1, <2>2 DEF CorpusInv, CorpusExact, Chunks
<1>4. CASE Decision(document) # "skip"
  <2>1. step' = Decision(document) /\ UNCHANGED <<document, passed>>
    BY <1>4 DEF CountChunks
  <2>2. document \notin passed
    <3>1. indexed_chunks(document) # ChunkCount[document]
      BY <1>4 DEF Decision
    <3>2. ~(\A c \in Chunks(document) : inWeaviate[document][c] = 1)
      BY <1>2, <3>1
    <3> QED BY <3>2 DEF CorpusInv, CorpusExact
  <2>3. step' \in {"clear", "insert"}
    BY <1>4, <2>1 DEF Decision
  <2>4. step' = "insert" => \A c \in Chunks(document) : inWeaviate[document][c] = 0
    BY <1>2, <1>4, <2>1 DEF Decision
  <2>5. \A c \in Chunks(document) : c > 0
    BY DEF Chunks
  <2> QED BY <1>1, <2>1, <2>2, <2>3, <2>4, <2>5 DEF CorpusInv, CorpusExact, Chunks
<1> QED BY <1>3, <1>4

LEMMA ClearKeeps ==
  ASSUME CorpusInv, ClearDocument
  PROVE  CorpusInv'
<1> USE CorpusIngestAssumption
<1>1. /\ step = "clear" /\ document \in (1..CorpusSize) \ passed /\ from = 0
      /\ step' = "insert" /\ UNCHANGED <<ingests, document, from, passed>>
  BY DEF ClearDocument, CorpusInv
<1>2. /\ inWeaviate'[document] = [c \in Chunks(document) |-> 0]
      /\ \A d \in (1..CorpusSize) \ {document} : inWeaviate'[d] = inWeaviate[d]
      /\ DOMAIN inWeaviate' = 1..CorpusSize
  BY <1>1 DEF ClearDocument, CorpusInv
<1>3. \A d \in 1..CorpusSize : inWeaviate'[d] \in [Chunks(d) -> {0, 1}]
  BY <1>2 DEF CorpusInv
<1>4. \A c \in Chunks(document) : c > 0 /\ inWeaviate'[document][c] = 0
  BY <1>2 DEF Chunks
<1>5. CorpusExact'
  BY <1>1, <1>2 DEF CorpusInv, CorpusExact, Chunks
<1> QED BY <1>1, <1>2, <1>3, <1>4, <1>5 DEF CorpusInv, Chunks

\* The chunks before `from` stay as they are, those of the batch become 1; a
\* document is passed once no chunk is left.
LEMMA InsertKeeps ==
  ASSUME CorpusInv, NEW failed, InsertChunks(failed)
  PROVE  CorpusInv'
<1> USE CorpusIngestAssumption
<1> DEFINE batch == {c \in Chunks(document) : from < c /\ c <= from + IngestBatch}
<1>1. /\ step = "insert" /\ document \in (1..CorpusSize) \ passed /\ from \in Nat
      /\ failed \subseteq batch /\ from' = from + IngestBatch /\ from' \in Nat
      /\ \A c \in Chunks(document) :
           c \in Nat /\ inWeaviate[document][c] = IF c <= from THEN 1 ELSE 0
  BY DEF InsertChunks, CorpusInv, Chunks
<1>2. /\ inWeaviate'[document] =
           [c \in Chunks(document) |->
              inWeaviate[document][c] + IF c \in batch \ failed THEN 1 ELSE 0]
      /\ \A d \in (1..CorpusSize) \ {document} : inWeaviate'[d] = inWeaviate[d]
      /\ DOMAIN inWeaviate' = 1..CorpusSize
  BY <1>1 DEF InsertChunks, CorpusInv
<1>3. \A c \in Chunks(document) :
        inWeaviate'[document][c] =
          IF c <= from \/ (c <= from + IngestBatch /\ c \notin failed) THEN 1 ELSE 0
  BY <1>1, <1>2
<1>4. \A d \in 1..CorpusSize : inWeaviate'[d] \in [Chunks(d) -> {0, 1}]
  <2>1. inWeaviate'[document] \in [Chunks(document) -> {0, 1}]
    <3>1. \A c \in Chunks(document) : inWeaviate'[document][c] \in {0, 1}
      BY <1>3
    <3>2. inWeaviate'[document] = [c \in Chunks(document) |-> inWeaviate'[document][c]]
      BY <1>2
    <3> QED BY <3>1, <3>2
  <2> QED BY <1>2, <2>1 DEF CorpusInv
<1>5. \A d \in passed : d # document /\ \A c \in Chunks(d) : inWeaviate'[d][c] = 1
  BY <1>1, <1>2 DEF CorpusInv, CorpusExact
<1>6. CASE failed # {}
  <2>1. step' = "off" /\ UNCHANGED <<document, passed>>
    BY <1>6 DEF InsertChunks
  <2> QED BY <1>1, <1>2, <1>4, <1>5, <2>1 DEF CorpusInv, CorpusExact, Chunks
<1>7. CASE failed = {} /\ from' >= ChunkCount[document]
  <2>1. document' = document + 1 /\ step' = "count" /\ passed' = passed \cup {document}
    BY <1>7 DEF InsertChunks, NextDocument
  <2>2. \A c \in Chunks(document) : inWeaviate'[document][c] = 1
    BY <1>1, <1>3, <1>7 DEF Chunks
  <2>3. CorpusExact'
    BY <1>5, <2>1, <2>2 DEF CorpusExact, Chunks
  <2>4. document' \in 1..CorpusSize + 1
    BY <1>1, <2>1
  <2>5. passed' \subseteq 1..CorpusSize
    BY <1>1, <2>1 DEF CorpusInv
  <2> HIDE DEF batch
  <2> QED BY <1>1, <1>2, <1>4, <2>1, <2>3, <2>4, <2>5 DEF CorpusInv, Chunks
<1>8. CASE failed = {} /\ ~(from' >= ChunkCount[document])
  <2>1. UNCHANGED <<step, document, passed>>
    BY <1>8 DEF InsertChunks
  <2>2. \A c \in Chunks(document) : inWeaviate'[document][c] = IF c <= from' THEN 1 ELSE 0
    BY <1>1, <1>3, <1>8
  <2> QED BY <1>1, <1>2, <1>4, <1>5, <2>1, <2>2 DEF CorpusInv, CorpusExact, Chunks
<1> QED BY <1>6, <1>7, <1>8

LEMMA CorpusKeeps ==
  CorpusInv /\ [CorpusIngestNext]_corpusIngestVars => CorpusInv'
<1> SUFFICES ASSUME CorpusInv, [CorpusIngestNext]_corpusIngestVars
             PROVE  CorpusInv'
  OBVIOUS
<1>1. CASE StartIngest
  BY <1>1, CorpusIngestAssumption DEF StartIngest, CorpusInv, CorpusExact, Chunks
<1>2. CASE CountChunks
  BY <1>2, CountKeeps
<1>3. CASE ClearDocument
  BY <1>3, ClearKeeps
<1>4. CASE EndIngest
  BY <1>4 DEF EndIngest, CorpusInv, CorpusExact, Chunks
<1>5. ASSUME NEW failed, InsertChunks(failed)
      PROVE  CorpusInv'
  BY <1>5, InsertKeeps
<1>6. CASE UNCHANGED corpusIngestVars
  BY <1>6 DEF corpusIngestVars, CorpusInv, CorpusExact, Chunks
<1> QED BY <1>1, <1>2, <1>3, <1>4, <1>5, <1>6 DEF CorpusIngestNext

\* Documents, steps and copies stay in their sets.
THEOREM CorpusTypeCorrect == CorpusIngestSpec => []CorpusIngestTypeOK
<1>1. CorpusInv => CorpusIngestTypeOK
  BY DEF CorpusInv, CorpusIngestTypeOK
<1> QED BY <1>1, CorpusInit, CorpusKeeps, PTL DEF CorpusIngestSpec

\* However many runs were interrupted, and wherever: a document a run went past
\* has each of its chunks in the index once.  The count alone tells a whole
\* document from a part of one, because a chunk is never there twice.
THEOREM CorpusStaysExact == CorpusIngestSpec => []CorpusExact
<1>1. CorpusInv => CorpusExact
  BY DEF CorpusInv
<1> QED BY <1>1, CorpusInit, CorpusKeeps, PTL DEF CorpusIngestSpec

-----------------------------------------------------------------------------
(* The registries.                                                         *)

\* The submitted jobs are numbered, and those of them in a set are finitely many.
LEMMA SubmittedFacts ==
  ASSUME RegistryTypeOK
  PROVE  /\ Len(jobStatus) \in Nat /\ Submitted = 1..Len(jobStatus)
         /\ IsFiniteSet(Submitted) /\ Cardinality(Submitted) = Len(jobStatus)
         /\ \A j \in Submitted : jobStatus[j] \in {"queued", "running", "ended"}
         /\ \A S \in SUBSET Submitted : IsFiniteSet(S) /\ Cardinality(S) \in Nat
<1>1. /\ Len(jobStatus) \in Nat /\ Submitted = 1..Len(jobStatus)
      /\ \A j \in Submitted : jobStatus[j] \in {"queued", "running", "ended"}
  BY LenProperties, ElementOfSeq DEF RegistryTypeOK, Submitted
<1>2. IsFiniteSet(Submitted) /\ Cardinality(Submitted) = Len(jobStatus)
  BY <1>1, FS_Interval
<1> QED BY <1>1, <1>2, FS_Subset, FS_CardinalityType

\* A job is touched: it is the last in the order, and every other stays in it.
LEMMA TouchedFacts ==
  ASSUME RegistryInv, NEW j \in Nat
  PROVE  /\ Touched(j) \in Seq(Nat) /\ IsOneToOne(Touched(j))
         /\ Members(Touched(j)) = Submitted \cup {j}
         /\ Len(Touched(j)) = Cardinality(Submitted \cup {j})
<1> DEFINE s == Sublist(updated, Submitted \ {j})
<1>1. updated \in Seq(Nat) /\ IsOneToOne(updated) /\ Members(updated) = Submitted
  BY DEF RegistryInv, RegistryTypeOK
<1>2. s \in Seq(Nat) /\ Members(s) = Submitted \ {j} /\ IsOneToOne(s)
  BY <1>1, SublistFacts
<1>3. Touched(j) = Append(s, j)
  BY DEF Touched
<1> HIDE DEF s
<1>4. Touched(j) \in Seq(Nat) /\ IsOneToOne(Touched(j)) /\ Members(Touched(j)) = Submitted \cup {j}
  BY <1>2, <1>3, AppendFacts
<1> QED BY <1>4, OneToOneLength

\* What a registry forgets is finished; and if it is full, either nothing in it
\* is finished or something is forgotten.
LEMMA EvictedFacts ==
  ASSUME RegistryInv, NEW entries \in SUBSET Submitted, NEW over, NEW max \in Nat
  PROVE  /\ Evicted(entries, over, max) \subseteq entries \cap over
         /\ Cardinality(entries) >= max /\ entries \cap over # {} =>
              Evicted(entries, over, max) # {}
<1> DEFINE finished == FinishedEntries(entries, over)
           n == Larger(1, Len(finished) \div 2)
           first == {finished[i] : i \in {i \in DOMAIN finished : i <= n}}
<1>1. updated \in Seq(Nat) /\ Members(updated) = Submitted
  BY DEF RegistryInv, RegistryTypeOK
<1>2. /\ finished \in Seq(Nat) /\ Members(finished) = entries \cap over
      /\ Len(finished) \in Nat /\ DOMAIN finished = 1..Len(finished)
  BY <1>1, SublistFacts, LenProperties DEF FinishedEntries
<1>3. n \in Nat /\ n >= 1
  BY <1>2 DEF Larger
<1>4. Evicted(entries, over, max) = IF Cardinality(entries) < max THEN {} ELSE first
  BY DEF Evicted
<1> HIDE DEF finished, n
<1>5. first \subseteq entries \cap over
  BY <1>2 DEF Members
<1>6. entries \cap over # {} => first # {}
  <2> SUFFICES ASSUME entries \cap over # {}
               PROVE  first # {}
    OBVIOUS
  <2>1. 1 \in 1..Len(finished)
    BY <1>2 DEF Members
  <2>2. finished[1] \in first
    BY <1>2, <1>3, <2>1
  <2> QED BY <2>2
<1>7. Cardinality(entries) \in Nat
  BY SubmittedFacts DEF RegistryInv
<1> QED BY <1>4, <1>5, <1>6, <1>7

\* A full registry takes one more entry, and what it then holds is within its
\* limit, within what it held, or nothing but what is unfinished.
LEMMA RoomMade ==
  ASSUME RegistryInv, NEW entries \in SUBSET Submitted, NEW over, NEW max \in Nat, NEW j,
         NEW most \in Nat, Cardinality(entries) <= Larger(max, most),
         NEW some \in Nat, Cardinality(entries \ over) + 1 <= some
  PROVE  Cardinality((entries \ Evicted(entries, over, max)) \cup {j})
           <= Larger(max, Larger(most, some))
<1> DEFINE ev == Evicted(entries, over, max)
           left == entries \ ev
<1>1. ev \subseteq entries /\ (Cardinality(entries) >= max /\ entries \cap over # {} => ev # {})
  BY EvictedFacts
<1>2. \A S \in SUBSET Submitted : IsFiniteSet(S) /\ Cardinality(S) \in Nat
  BY SubmittedFacts DEF RegistryInv
<1>3. left \subseteq Submitted /\ IsFiniteSet(left) /\ Cardinality(left) \in Nat
      /\ IsFiniteSet(entries) /\ Cardinality(entries) \in Nat
  BY <1>2
<1>4. Cardinality(left \cup {j}) \in Nat /\ Cardinality(left \cup {j}) <= Cardinality(left) + 1
  BY <1>3, FS_AddElement
<1>5. Cardinality(left) <= Cardinality(entries)
  BY <1>3, FS_Subset
<1>6. CASE Cardinality(entries) < max
  BY <1>3, <1>4, <1>5, <1>6 DEF Larger
<1>7. CASE Cardinality(entries) >= max /\ entries \cap over = {}
  <2>1. entries \ over = entries
    BY <1>7
  <2>2. Cardinality(entries) + 1 <= some
    BY <2>1
  <2> QED BY <1>3, <1>4, <1>5, <2>2 DEF Larger
<1>8. CASE Cardinality(entries) >= max /\ entries \cap over # {}
  <2>1. PICK e \in ev : e \in entries
    BY <1>1, <1>8
  <2>2. left \in SUBSET (entries \ {e})
    BY <2>1
  <2>3. IsFiniteSet(entries \ {e}) /\ Cardinality(entries \ {e}) = Cardinality(entries) - 1
    BY <1>3, <2>1, FS_RemoveElement
  <2>4. Cardinality(left) <= Cardinality(entries \ {e})
    BY <2>2, <2>3, FS_Subset
  <2> QED BY <1>3, <1>4, <2>3, <2>4 DEF Larger
<1> QED BY <1>3, <1>6, <1>7, <1>8

\* The parts of the invariant that say what is forgotten, from what makes room.
LEMMA SubmitKeeps ==
  ASSUME RegistryInv, NEW withRun \in BOOLEAN, SubmitJob(withRun)
  PROVE  RegistryInv'
<1> USE WorkflowRegistryAssumption
<1> DEFINE j == Len(jobStatus) + 1
           unfinished == Cardinality(Submitted \ Ended) + 1
           runs == Cardinality(carriesRun' \ runDone)
<1>1. /\ Len(jobStatus) \in Nat /\ Submitted = 1..Len(jobStatus)
      /\ IsFiniteSet(Submitted) /\ Cardinality(Submitted) = Len(jobStatus)
      /\ \A S \in SUBSET Submitted : IsFiniteSet(S) /\ Cardinality(S) \in Nat
  BY SubmittedFacts DEF RegistryInv
<1>2. j \in Nat /\ j \notin Submitted
  BY <1>1
<1>3. /\ jobEntries \subseteq Submitted /\ carriesRun \subseteq Submitted
      /\ runEntries \subseteq carriesRun /\ runDone \subseteq carriesRun
      /\ Ended \subseteq Submitted /\ mostJobs \in Nat /\ mostRuns \in Nat
      /\ jobStatus \in Seq({"queued", "running", "ended"})
  BY DEF RegistryInv, RegistryTypeOK, Ended
<1>4. /\ jobEntries' = (jobEntries \ Evicted(jobEntries, Ended, MaxJobEntries)) \cup {j}
      /\ carriesRun' = IF withRun THEN carriesRun \cup {j} ELSE carriesRun
      /\ runEntries' = IF withRun
                         THEN (runEntries \ Evicted(runEntries, runDone, MaxRunEntries)) \cup {j}
                         ELSE runEntries
      /\ jobStatus' = Append(jobStatus, "queued") /\ updated' = Touched(j)
      /\ mostJobs' = Larger(mostJobs, unfinished) /\ mostRuns' = Larger(mostRuns, runs)
      /\ runDone' = runDone
  BY DEF SubmitJob
<1>5. /\ jobStatus' \in Seq({"queued", "running", "ended"})
      /\ Len(jobStatus') = j /\ Submitted' = Submitted \cup {j} /\ Ended' = Ended
  <2>1. /\ jobStatus' \in Seq({"queued", "running", "ended"}) /\ Len(jobStatus') = j
        /\ \A i \in Submitted : jobStatus'[i] = jobStatus[i]
        /\ jobStatus'[j] = "queued"
    BY <1>1, <1>3, <1>4, AppendProperties
  <2>2. Submitted' = 1..j
    BY <2>1, LenProperties DEF Submitted
  <2>3. Submitted' = Submitted \cup {j}
    BY <1>1, <2>2
  <2>4. \A i \in Submitted \cup {j} : jobStatus'[i] = "ended" <=> i \in Ended
    BY <1>2, <2>1 DEF Ended
  <2>5. Ended' = {i \in Submitted \cup {j} : jobStatus'[i] = "ended"}
    BY <2>3 DEF Ended
  <2> QED BY <1>3, <2>1, <2>3, <2>4, <2>5
<1>6. /\ updated' \in Seq(Nat) /\ IsOneToOne(updated') /\ Members(updated') = Submitted'
      /\ Len(updated') = Len(jobStatus')
  <2>1. Cardinality(Submitted \cup {j}) = Len(jobStatus) + 1
    BY <1>1, <1>2, FS_AddElement
  <2> QED BY <1>2, <1>4, <1>5, <2>1, TouchedFacts
<1>7. /\ Evicted(jobEntries, Ended, MaxJobEntries) \subseteq jobEntries \cap Ended
      /\ Evicted(runEntries, runDone, MaxRunEntries) \subseteq runEntries \cap runDone
  <2>1. runEntries \in SUBSET Submitted
    BY <1>3
  <2> QED BY <1>3, <2>1, EvictedFacts
<1>8. unfinished \in Nat /\ Cardinality(jobEntries') <= Larger(MaxJobEntries, mostJobs')
  <2>1. Submitted \ Ended \in SUBSET Submitted /\ jobEntries \ Ended \in SUBSET (Submitted \ Ended)
    BY <1>3
  <2>2. unfinished \in Nat /\ Cardinality(jobEntries \ Ended) + 1 <= unfinished
    BY <1>1, <2>1, FS_Subset
  <2>3. Cardinality(jobEntries) <= Larger(MaxJobEntries, mostJobs)
    BY DEF RegistryInv, UnfinishedKept
  <2> HIDE DEF unfinished, j
  <2> QED BY <1>3, <1>4, <2>2, <2>3, RoomMade
<1>9. runs \in Nat /\ Cardinality(runEntries') <= Larger(MaxRunEntries, mostRuns')
  <2>1. Cardinality(runEntries) <= Larger(MaxRunEntries, mostRuns)
    BY DEF RegistryInv, UnfinishedKept
  <2>2. /\ IsFiniteSet(carriesRun \ runDone) /\ Cardinality(carriesRun \ runDone) \in Nat
        /\ Cardinality(runEntries \ runDone) \in Nat /\ Cardinality(runEntries) \in Nat
    <3>1. carriesRun \ runDone \in SUBSET Submitted /\ runEntries \ runDone \in SUBSET Submitted
          /\ runEntries \in SUBSET Submitted
      BY <1>3
    <3> QED BY <1>1, <3>1
  <2>3. CASE withRun
    <3>1. carriesRun' \ runDone = (carriesRun \ runDone) \cup {j}
      BY <1>2, <1>3, <1>4, <2>3
    <3>2. runs = Cardinality(carriesRun \ runDone) + 1
      <4>1. j \notin carriesRun \ runDone
        BY <1>2, <1>3
      <4> QED BY <2>2, <3>1, <4>1, FS_AddElement
    <3>3. Cardinality(runEntries \ runDone) <= Cardinality(carriesRun \ runDone)
      <4>1. runEntries \ runDone \in SUBSET (carriesRun \ runDone)
        BY <1>3
      <4> QED BY <2>2, <4>1, FS_Subset
    <3>4. runs \in Nat /\ Cardinality(runEntries \ runDone) + 1 <= runs
      BY <2>2, <3>2, <3>3
    <3>5. runEntries \in SUBSET Submitted
      BY <1>3
    <3> HIDE DEF runs, j
    <3>6. runEntries' = (runEntries \ Evicted(runEntries, runDone, MaxRunEntries)) \cup {j}
      BY <1>4, <2>3
    <3> QED BY <1>3, <1>4, <2>1, <3>4, <3>5, <3>6, RoomMade
  <2>4. CASE ~withRun
    <3>1. runs = Cardinality(carriesRun \ runDone) /\ runEntries' = runEntries
      BY <1>4, <2>4
    <3>2. runs \in Nat /\ Cardinality(runEntries') = Cardinality(runEntries)
      BY <2>2, <3>1
    <3> HIDE DEF runs
    <3>3. mostRuns' = IF mostRuns > runs THEN mostRuns ELSE runs
      BY <1>4 DEF Larger
    <3> QED BY <1>3, <2>1, <2>2, <3>2, <3>3 DEF Larger
  <2> QED BY <2>3, <2>4
<1>10. mostJobs' \in Nat /\ mostRuns' \in Nat
  <2> HIDE DEF unfinished, runs
  <2> QED BY <1>3, <1>4, <1>8, <1>9 DEF Larger
<1>11. RegistryTypeOK'
  <2>1. jobEntries' \subseteq Submitted' /\ carriesRun' \subseteq Submitted'
        /\ runEntries' \subseteq carriesRun' /\ runDone' \subseteq carriesRun'
    BY <1>3, <1>4, <1>5, <1>7
  <2> QED BY <1>5, <1>6, <2>1 DEF RegistryTypeOK
<1>12. Submitted' \ Ended' \subseteq jobEntries' /\ carriesRun' \ runDone' \subseteq runEntries'
  <2>1. Submitted \ Ended \subseteq jobEntries /\ carriesRun \ runDone \subseteq runEntries
    BY DEF RegistryInv, UnfinishedKept
  <2> HIDE DEF j
  <2> QED BY <1>4, <1>5, <1>7, <2>1
<1> QED BY <1>6, <1>8, <1>9, <1>10, <1>11, <1>12 DEF RegistryInv, UnfinishedKept

\* A job changes status: the order of age is the only other thing that moves.
LEMMA StatusKeeps ==
  ASSUME RegistryInv, NEW j \in Submitted, NEW now \in {"running", "ended"},
         jobStatus' = [jobStatus EXCEPT ![j] = now], updated' = Touched(j),
         UNCHANGED <<jobEntries, runEntries, carriesRun, runDone, mostJobs, mostRuns>>,
         jobStatus[j] # "ended"
  PROVE  RegistryInv'
<1>1. /\ Len(jobStatus) \in Nat /\ Submitted = 1..Len(jobStatus)
      /\ Cardinality(Submitted) = Len(jobStatus) /\ j \in Nat
  BY SubmittedFacts DEF RegistryInv
<1>2. /\ jobStatus' \in Seq({"queued", "running", "ended"})
      /\ Len(jobStatus') = Len(jobStatus) /\ Submitted' = Submitted
  BY <1>1, ExceptSeq DEF RegistryInv, RegistryTypeOK, Submitted
<1>3. Submitted' \ Ended' \subseteq Submitted \ Ended
  BY <1>2 DEF Ended, Submitted
<1>4. Submitted \cup {j} = Submitted
  OBVIOUS
<1>5. /\ updated' \in Seq(Nat) /\ IsOneToOne(updated') /\ Members(updated') = Submitted'
      /\ Len(updated') = Len(jobStatus')
  BY <1>1, <1>2, <1>4, TouchedFacts
<1> QED BY <1>2, <1>3, <1>5 DEF RegistryInv, RegistryTypeOK, UnfinishedKept

LEMMA RegistryStarts ==
  RegistryInit => RegistryInv
<1> SUFFICES ASSUME RegistryInit
             PROVE  RegistryInv
  OBVIOUS
<1>1. Submitted = {} /\ Ended = {} /\ Members(updated) = {} /\ Len(updated) = 0 /\ Len(jobStatus) = 0
  BY DEF RegistryInit, Submitted, Ended, Members
<1>2. IsOneToOne(updated)
  BY <1>1 DEF IsOneToOne
<1> QED BY <1>1, <1>2, FS_EmptySet, WorkflowRegistryAssumption
        DEF RegistryInit, RegistryInv, RegistryTypeOK, UnfinishedKept, Larger

LEMMA RegistryKeeps ==
  RegistryInv /\ [RegistryNext]_registryVars => RegistryInv'
<1> SUFFICES ASSUME RegistryInv, [RegistryNext]_registryVars
             PROVE  RegistryInv'
  OBVIOUS
<1>1. ASSUME NEW withRun \in BOOLEAN, SubmitJob(withRun)
      PROVE  RegistryInv'
  BY <1>1, SubmitKeeps
<1>2. ASSUME NEW j \in Submitted, BeginJob(j)
      PROVE  RegistryInv'
  BY <1>2, StatusKeeps DEF BeginJob
<1>3. ASSUME NEW j \in Submitted, RunIsDone(j)
      PROVE  RegistryInv'
  <2>1. runDone' = runDone \cup {j} /\ j \in carriesRun
        /\ UNCHANGED <<jobEntries, runEntries, carriesRun, jobStatus, updated, mostJobs, mostRuns>>
    BY <1>3 DEF RunIsDone
  <2> QED BY <2>1 DEF RegistryInv, RegistryTypeOK, UnfinishedKept, Submitted, Ended
<1>4. ASSUME NEW j \in Submitted, EndJob(j)
      PROVE  RegistryInv'
  BY <1>4, StatusKeeps DEF EndJob
<1>5. CASE UNCHANGED registryVars
  BY <1>5 DEF registryVars, RegistryInv, RegistryTypeOK, UnfinishedKept, Submitted, Ended
<1> QED BY <1>1, <1>2, <1>3, <1>4, <1>5 DEF RegistryNext

\* Every job is in the order of age exactly once, and no registry knows of a
\* job that was not submitted, or of a run of a job that carries none.
THEOREM RegistryTypeCorrect == RegistrySpec => []RegistryTypeOK
<1>1. RegistryInv => RegistryTypeOK
  BY DEF RegistryInv
<1> QED BY <1>1, RegistryStarts, RegistryKeeps, PTL DEF RegistrySpec

\* Neither registry forgets what is not finished, and each is over its limit
\* only as far as unfinished entries once filled it, for all limits.
THEOREM UnfinishedStaysKept == RegistrySpec => []UnfinishedKept
<1>1. RegistryInv => UnfinishedKept
  BY DEF RegistryInv
<1> QED BY <1>1, RegistryStarts, RegistryKeeps, PTL DEF RegistrySpec
=============================================================================
