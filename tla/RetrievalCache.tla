--------------------------- MODULE RetrievalCache ---------------------------
(***************************************************************************)
(* The retrieval cache (TTLCache of caching.py) between the searches of    *)
(* several questions (_search of retrieval/retrieve.py) and the uploads    *)
(* and removals of api/routes/matters.py, which drop what was found for    *)
(* their matter.  Each method of the cache is one step: a lock covers it.  *)
(*                                                                         *)
(* What a search finds is known by the version of the matter's index it    *)
(* read.  Time is not modelled: an entry may expire at any moment.         *)
(***************************************************************************)
EXTENDS Integers, Sequences, FiniteSets, Sublists

CONSTANTS
  CacheMatters,  \* matters
  NoMatter,      \* the namespace of a search outside any matter
  Keys,          \* cache keys: query, collection and filters
  NamespaceOf,   \* the matter each key's filters name
  Searchers,     \* searches that can run at once
  MaxEntries,    \* max_entries
  MaxChanges     \* bound: changes to each matter's index

ASSUME RetrievalCacheAssumption ==
  /\ NoMatter \notin CacheMatters
  /\ NamespaceOf \in [Keys -> CacheMatters \cup {NoMatter}]
  /\ MaxEntries \in Nat \ {0} /\ MaxChanges \in Nat

VARIABLES
  version,      \* changes to each matter's index so far
  due,          \* matters whose change has not yet invalidated the cache
  invalidated,  \* each matter's version when it was last invalidated (history)
  expiry,       \* keys in the cache, the oldest first
  value,        \* what each key was last set to
  namespaces,   \* _namespaces
  search        \* where each search is

cacheVars == <<version, due, invalidated, expiry, value, namespaces, search>>

Nobody == [at |-> "idle", key |-> CHOOSE k \in Keys : TRUE, read |-> 0, overtaken |-> FALSE]
InCache == Members(expiry)
Without(keys) == Sublist(expiry, InCache \ keys)

-----------------------------------------------------------------------------
\* get(): a hit ends the search; a miss, or an expired entry, goes on to
\* Weaviate.  An expired entry leaves its name in the namespace.
Hit(s, k) ==
  /\ search[s].at = "idle" /\ k \in InCache
  /\ UNCHANGED cacheVars

Miss(s, k) ==
  /\ search[s].at = "idle"
  /\ expiry' = Without({k})
  /\ search' = [search EXCEPT ![s] = [Nobody EXCEPT !.at = "searching", !.key = k]]
  /\ UNCHANGED <<version, due, invalidated, value, namespaces>>

\* hybrid_search answers from the index as it is.
Finds(s) ==
  /\ search[s].at = "searching"
  /\ search' = [search EXCEPT ![s].at = "found",
                  ![s].read = IF NamespaceOf[search[s].key] = NoMatter THEN 0
                              ELSE version[NamespaceOf[search[s].key]]]
  /\ UNCHANGED <<version, due, invalidated, expiry, value, namespaces>>

\* Mutant: the key is registered before the oldest goes, and may be it.
Registered_First(k, oldest) ==
  [n \in CacheMatters |-> (namespaces[n] \cup IF n = NamespaceOf[k] THEN {k} ELSE {}) \ oldest]

\* set(): when full the oldest goes, its name too; then the key is registered.
Registered(k, oldest) ==
  [n \in CacheMatters |-> (namespaces[n] \ oldest) \cup IF n = NamespaceOf[k] THEN {k} ELSE {}]

Sets(s) ==
  /\ search[s].at = "found"
  /\ LET k == search[s].key
         oldest == IF Len(expiry) >= MaxEntries THEN {Head(expiry)} ELSE {}
     IN /\ expiry' = Append(Without(oldest \cup {k}), k)
        /\ value' = [value EXCEPT ![k] = [read |-> search[s].read, overtaken |-> search[s].overtaken]]
        /\ namespaces' = Registered(k, oldest)
  /\ search' = [search EXCEPT ![s] = Nobody]
  /\ UNCHANGED <<version, due, invalidated>>

\* A search fails, and with it its question.
SearchFails(s) ==
  /\ search[s].at = "searching"
  /\ search' = [search EXCEPT ![s] = Nobody]
  /\ UNCHANGED <<version, due, invalidated, expiry, value, namespaces>>

-----------------------------------------------------------------------------
\* An ingest job or a removal changes the matter's index ...
ChangeIndex(n) ==
  /\ version[n] < MaxChanges
  /\ version' = [version EXCEPT ![n] = @ + 1]
  /\ due' = due \cup {n}
  /\ UNCHANGED <<invalidated, expiry, value, namespaces, search>>

\* ... and, ending, calls invalidate_namespace().
Invalidate(n) ==
  /\ n \in due
  /\ due' = due \ {n}
  /\ expiry' = Without(namespaces[n])
  /\ namespaces' = [namespaces EXCEPT ![n] = {}]
  /\ invalidated' = [invalidated EXCEPT ![n] = version[n]]
  /\ search' = [s \in Searchers |->
                  IF search[s].at = "found" /\ NamespaceOf[search[s].key] = n
                    THEN [search[s] EXCEPT !.overtaken = TRUE] ELSE search[s]]
  /\ UNCHANGED <<version, value>>

CacheInit ==
  /\ version = [n \in CacheMatters |-> 0] /\ invalidated = version /\ due = {}
  /\ expiry = <<>> /\ namespaces = [n \in CacheMatters |-> {}]
  /\ value = [k \in Keys |-> [read |-> 0, overtaken |-> FALSE]]
  /\ search = [s \in Searchers |-> Nobody]

CacheNext ==
  \/ \E s \in Searchers :
       \/ \E k \in Keys : Hit(s, k) \/ Miss(s, k)
       \/ Finds(s) \/ Sets(s) \/ SearchFails(s)
  \/ \E n \in CacheMatters : ChangeIndex(n) \/ Invalidate(n)

CacheSpec == CacheInit /\ [][CacheNext]_cacheVars

-----------------------------------------------------------------------------
(* Properties *)

CacheTypeOK ==
  /\ version \in [CacheMatters -> 0..MaxChanges]
  /\ InCache \subseteq Keys /\ Len(expiry) <= MaxEntries
  /\ namespaces \in [CacheMatters -> SUBSET Keys]

\* No question is answered "from results computed before the document existed"
\* (caching.py:143): what the cache holds for a matter was read since the last
\* invalidation - or by a search that had its answer but had not stored it when
\* the invalidation came, the one gap the code leaves (retrieve.py:74).
CacheFresh ==
  \A k \in InCache : NamespaceOf[k] # NoMatter =>
    value[k].read >= invalidated[NamespaceOf[k]] \/ value[k].overtaken
=============================================================================
