--------------------------- MODULE CircuitBreaker ---------------------------
(***************************************************************************)
(* The circuit breaker around the reranker (resilience.py, rerank of       *)
(* retrieval/rerank.py), called from the worker threads of several         *)
(* questions at once.  Each method is one step: a lock covers it.  Time is *)
(* a step of its own: an open breaker has cooled down or not.              *)
(***************************************************************************)
EXTENDS Integers, FiniteSets

CONSTANTS
  Callers,      \* questions at their rerank
  Threshold,    \* failure_threshold
  MaxOutages    \* bound: times the provider fails for a while

ASSUME CircuitBreakerAssumption ==
  Threshold \in Nat \ {0} /\ MaxOutages \in Nat /\ IsFiniteSet(Callers)

VARIABLES
  failures,   \* _failures
  circuit,    \* _opened_at: "closed", "open" or "cooled"
  calling,    \* callers awaiting the provider
  hit,        \* of those, the ones an outage caught: they may yet fail
  healthy,    \* the provider answers
  outages     \* outages so far

breakerVars == <<failures, circuit, calling, hit, healthy, outages>>

\* Mutant: an open breaker stays open.
LetsThrough_Never == circuit = "closed"

\* before_call: whether it lets a call through; else it raises and the caller
\* keeps the retriever's order.
LetsThrough == circuit \in {"closed", "cooled"}

before_call(c) ==
  /\ c \notin calling /\ LetsThrough
  /\ calling' = calling \cup {c}
  /\ circuit' = "closed"
  /\ failures' = IF circuit = "cooled" THEN Threshold - 1 ELSE failures
  /\ hit' = IF healthy THEN hit ELSE hit \cup {c}
  /\ UNCHANGED <<healthy, outages>>

record_success(c) ==
  /\ c \in calling
  /\ calling' = calling \ {c} /\ hit' = hit \ {c}
  /\ failures' = 0 /\ circuit' = "closed"
  /\ UNCHANGED <<healthy, outages>>

record_failure(c) ==
  /\ c \in hit
  /\ calling' = calling \ {c} /\ hit' = hit \ {c}
  /\ failures' = failures + 1
  /\ circuit' = IF failures' >= Threshold /\ circuit = "closed" THEN "open" ELSE circuit
  /\ UNCHANGED <<healthy, outages>>

CoolsDown ==
  /\ circuit = "open" /\ circuit' = "cooled"
  /\ UNCHANGED <<failures, calling, hit, healthy, outages>>

ProviderFails ==
  /\ healthy /\ outages < MaxOutages
  /\ healthy' = FALSE /\ outages' = outages + 1
  /\ hit' = calling
  /\ UNCHANGED <<failures, circuit, calling>>

ProviderRecovers ==
  /\ ~healthy /\ healthy' = TRUE
  /\ UNCHANGED <<failures, circuit, calling, hit, outages>>

BreakerInit ==
  failures = 0 /\ circuit = "closed" /\ calling = {} /\ hit = {} /\ healthy = TRUE /\ outages = 0

BreakerNext ==
  \/ \E c \in Callers : before_call(c) \/ record_success(c) \/ record_failure(c)
  \/ CoolsDown \/ ProviderFails \/ ProviderRecovers

\* Time passes, calls end by their timeouts, and questions keep being asked.
BreakerFairness ==
  /\ WF_breakerVars(CoolsDown)
  /\ WF_breakerVars(\E c \in Callers : before_call(c))
  /\ \A c \in Callers : WF_breakerVars(record_success(c) \/ record_failure(c))

BreakerSpec == BreakerInit /\ [][BreakerNext]_breakerVars /\ BreakerFairness

-----------------------------------------------------------------------------
(* Properties *)

\* Only calls that began before the breaker opened can fail while it is open.
BreakerTypeOK ==
  /\ failures \in 0..Threshold + Cardinality(Callers) - 1
  /\ circuit \in {"closed", "open", "cooled"}
  /\ calling \subseteq Callers /\ hit \subseteq calling /\ outages \in 0..MaxOutages

\* A provider that is well again for good gets its calls again for good,
\* whatever the calls still under way when it recovered report, and in whatever
\* order they do (resilience.py:47).
BreakerRecovers == <>[]healthy => <>[](circuit = "closed")
=============================================================================
