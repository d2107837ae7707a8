----------------------------- MODULE QueryGraph -----------------------------
(***************************************************************************)
(* One question on its way through the retrieval graph, as the streaming   *)
(* route runs it: the nodes of retrieval/graph.py and the events of        *)
(* stream_query in retrieval/run.py.  One worker thread runs it, a node at *)
(* a time; every call of a node - Weaviate, the reranker, a model - may    *)
(* fail.                                                                   *)
(*                                                                         *)
(* Abstracted: a passage is a name with a collection; what a search, the   *)
(* citation graph or the reranker comes up with is any choice of passages  *)
(* it can reach, in any order.  A planner's narrower filter and its        *)
(* relaxation only choose among those.  Query texts are compared as the    *)
(* review does, up to case.  The plan, review and token events carry       *)
(* progress and are left out.                                              *)
(***************************************************************************)
EXTENDS Integers, Sequences, FiniteSets, Functions

CONSTANTS
  Passages,
  Collections,
  CollectionOf,   \* the collection of each passage
  Allowed,        \* collections the user's filters allow
  Admitted,       \* passages within the user's courts and years
  Texts,          \* what a search can ask for ...
  Question,       \* ... the user's own words among it
  MaxFound,       \* bound: new passages the searches of one pass find
  MaxLookups,     \* passages the question's authorities bring in
  MaxNeighbours,  \* graph_max_neighbours
  MaxLeaves,      \* topics_max_nodes * topics_max_leaves
  Budget,         \* graph_candidate_budget
  RerankTop,      \* the reranker's top_n
  Keep,           \* what rerank keeps, by mode
  MaxSubqueries,  \* planner_max_subqueries
  MaxFollowUps,   \* research_max_follow_ups
  MaxRounds       \* research_max_rounds

Modes == {"search", "ask", "research"}

ASSUME PassagesAssumption ==
  /\ CollectionOf \in [Passages -> Collections]
  /\ Allowed \subseteq Collections
  /\ Admitted \subseteq Passages
  /\ Question \in Texts
ASSUME LimitsAssumption ==
  /\ Keep \in [Modes -> Nat]
  /\ \A n \in {MaxFound, MaxLookups, MaxNeighbours, MaxLeaves, Budget, RerankTop,
               MaxSubqueries, MaxFollowUps} : n \in Nat
  /\ MaxRounds \in Nat \ {0}

VARIABLES
  mode,       \* the request's mode
  graphOn,    \* graph_expansion_enabled
  topicsOn,   \* topics_enabled
  node,       \* the node to run next, "end", or how the stream ended
  plan,       \* searches of the plan, as <<text, collection>>
  followUps,  \* searches the last review asked for
  rounds,     \* reviews completed
  searched,   \* texts the searches on record asked for (`retrieval`)
  documents,  \* the pool, then the passages kept of it
  scored,     \* passages that carry a hybrid score
  grounded,   \* the verifier's verdict, or "none"
  sources,    \* the passages on show
  reply,      \* the reply on show
  verdict,    \* the verdict on show
  passes,     \* history: the texts searched for, pass by pass
  carried,    \* history: what the last review was written over
  pooled      \* history: size of the pool the last pass began with

request == <<mode, graphOn, topicsOn>>
shown   == <<sources, reply, verdict>>
history == <<passes, carried, pooled>>
vars    == <<request, node, plan, followUps, rounds, searched, documents, scored,
             grounded, shown, history>>

Nodes   == {"plan", "retrieve", "expand", "topics", "rerank", "review", "generate", "verify",
            "decline"}
InScope == {p \in Admitted : CollectionOf[p] \in Allowed}

\* Lists of at most n passages of S, each once: a pool is keyed by identity.
ListsOf(S, n) == UNION {Injection(1..k, S) : k \in 0..n}
Larger(m, n)  == IF m > n THEN m ELSE n
Smaller(m, n) == IF m < n THEN m ELSE n
Searches      == Texts \X Collections
TextsOf(S)    == {s[1] : s \in S}
Reached(S)    == {s[2] : s \in S}

Init ==
  /\ mode \in Modes
  /\ graphOn \in BOOLEAN
  /\ topicsOn \in BOOLEAN
  /\ node = "plan"
  /\ plan = {}
  /\ followUps = {}
  /\ rounds = 0
  /\ searched = {}
  /\ documents = <<>>
  /\ scored = {}
  /\ grounded = "none"
  /\ sources = <<>>
  /\ reply = "none"
  /\ verdict = "none"
  /\ passes = <<>>
  /\ carried = {}
  /\ pooled = 0

-----------------------------------------------------------------------------
\* What the model's plan is cut down to, and the fallback: one text everywhere.
Plans ==
  {S \in SUBSET (Texts \X Allowed) : S # {} /\ Cardinality(S) <= MaxSubqueries}
  \cup {{t} \X Allowed : t \in Texts}

Plan ==
  /\ node = "plan"
  /\ Allowed # {}
  /\ plan' \in Plans
  /\ node' = "retrieve"
  /\ UNCHANGED <<request, followUps, rounds, searched, documents, scored, grounded, shown,
                 history>>

\* The plan's searches and the user's own words, once per collection it touches.
WithOriginal(S) == S \cup ({Question} \X Reached(S))

\* Mutant: the searches of earlier passes are not kept on record.
Recorded_Forgets(searches) == TextsOf(searches)

\* A follow-up pass puts its searches on record behind those of the passes before.
Recorded(searches) == TextsOf(searches) \cup (IF followUps = {} THEN {} ELSE searched)

\* A first pass replaces the pool, a follow-up pass adds to it, behind what was
\* kept.  A search sees one collection through the user's courts and years.
Retrieve ==
  /\ node = "retrieve"
  /\ LET searches == IF followUps = {} THEN WithOriginal(plan) ELSE followUps
         kept     == IF followUps = {} THEN <<>> ELSE documents
         within   == {p \in Admitted : CollectionOf[p] \in Reached(searches)}
     IN  \E found \in ListsOf(within \ Range(kept), MaxFound) :
           /\ documents' = kept \o found
           /\ scored' = (scored \cap Range(kept)) \cup Range(found)
           /\ carried' = Range(kept)
           /\ pooled' = Len(documents')
           /\ searched' = Recorded(searches)
           /\ passes' = Append(passes, TextsOf(searches))
  /\ followUps' = {}
  /\ node' = "expand"
  /\ UNCHANGED <<request, plan, rounds, grounded, shown>>

-----------------------------------------------------------------------------
\* Mutant: what was added is not counted.
Fits_Unbounded(originals, added, kept) == kept = Range(originals)

\* _within_budget: which originals stay when some passages are added.  Python's
\* slice counts a negative room from the far end.  No score counts as the lowest.
Fits(originals, added, kept) ==
  LET size == Len(originals)
      room == Larger(size, Budget) - Len(added)
  IN  IF added = <<>> \/ room >= size
        THEN kept = Range(originals)
        ELSE /\ kept \subseteq Range(originals)
             /\ Cardinality(kept) = IF room >= 0 THEN room ELSE Larger(0, size + room)
             /\ kept \subseteq scored \/ Range(originals) \cap scored \subseteq kept

\* One list keeps another's order.
InOrder(front, whole) ==
  \A i, j \in DOMAIN front : i < j =>
    \E m, n \in DOMAIN whole : m < n /\ whole[m] = front[i] /\ whole[n] = front[j]

\* The pool a node hands on: the originals that stay, as they stood, and what it added.
Widen(added) ==
  \E kept \in SUBSET Range(documents) :
  \E front \in Bijection(1..Cardinality(kept), kept) :
    /\ Fits(documents, added, kept)
    /\ InOrder(front, documents)
    /\ documents' = front \o added

\* Mutant: passages the graph knows by address are not checked.
Expand_Unchecked ==
  /\ node = "expand" /\ graphOn
  /\ \E lookups \in ListsOf(Passages \ Range(documents), MaxLookups) : Widen(lookups)
  /\ node' = "topics"
  /\ UNCHANGED <<request, plan, followUps, rounds, searched, scored, grounded, shown, history>>

\* Lookups, fetched by address and checked against the user's filters; then
\* neighbours of the top candidates, searched for, when the question is relational.
Expand ==
  /\ node = "expand" /\ graphOn
  /\ \E lookups \in ListsOf(InScope \ Range(documents), MaxLookups) :
     \E neighbours \in ListsOf(InScope \ (Range(documents) \cup Range(lookups)),
                               IF documents = <<>> THEN 0 ELSE MaxNeighbours) :
       /\ Widen(lookups \o neighbours)
       /\ scored' = scored \cup Range(neighbours)
  /\ node' = "topics"
  /\ UNCHANGED <<request, plan, followUps, rounds, searched, grounded, shown, history>>

\* Leaves of the summaries that match.  Only their collection is checked.
Topics ==
  /\ node = "topics" /\ topicsOn
  /\ \E leaves \in ListsOf({p \in Passages : CollectionOf[p] \in Allowed} \ Range(documents),
                           MaxLeaves) :
       Widen(leaves)
  /\ node' = "rerank"
  /\ UNCHANGED <<request, plan, followUps, rounds, searched, scored, grounded, shown, history>>

\* A stage that is switched off hands the pool on as it is.
SwitchedOff ==
  /\ \/ node = "expand" /\ ~graphOn /\ node' = "topics"
     \/ node = "topics" /\ ~topicsOn /\ node' = "rerank"
  /\ UNCHANGED <<request, plan, followUps, rounds, searched, documents, scored, grounded,
                 shown, history>>

-----------------------------------------------------------------------------
RouteAfterRerank(kept) ==
  CASE mode = "search"   -> "end"
    [] mode = "research" -> "review"
    [] OTHER             -> IF kept # <<>> THEN "generate" ELSE "decline"

\* Mutant: the candidates are sent as the sources, ahead of the cut.
Rerank_SendsCandidates ==
  /\ node = "rerank"
  /\ documents' \in ListsOf(Range(documents), Smaller(RerankTop, Keep[mode]))
  /\ sources' = documents
  /\ node' = RouteAfterRerank(documents')
  /\ UNCHANGED <<request, plan, followUps, rounds, searched, scored, grounded, reply, verdict,
                 history>>

\* Reranked, cut to the reranker's own size, to the threshold and to the mode's
\* size; or, when the reranker or its breaker refuses, the front of the pool.
Rerank ==
  /\ node = "rerank"
  /\ \/ documents' \in ListsOf(Range(documents), Smaller(RerankTop, Keep[mode]))
     \/ documents' = SubSeq(documents, 1, Smaller(Len(documents), Keep[mode]))
  /\ sources' = documents'
  /\ node' = RouteAfterRerank(documents')
  /\ UNCHANGED <<request, plan, followUps, rounds, searched, scored, grounded, reply, verdict,
                 history>>

RouteAfterReview(asked) ==
  IF asked # {} THEN "retrieve" ELSE IF documents # <<>> THEN "generate" ELSE "decline"

\* Mutant: the last round may ask for another one too.
Review_OneTooMany ==
  /\ node = "review"
  /\ rounds' = rounds + 1
  /\ \E asked \in SUBSET ((Texts \ searched) \X Allowed) :
       /\ Cardinality(asked) <= MaxFollowUps
       /\ Cardinality(TextsOf(asked)) = Cardinality(asked)
       /\ rounds' > MaxRounds \/ documents = <<>> => asked = {}
       /\ followUps' = asked
       /\ node' = RouteAfterReview(asked)
  /\ UNCHANGED <<request, plan, searched, documents, scored, grounded, shown, history>>

\* What the model asks for, cut to the user's collections, to texts not searched
\* for yet and to max_follow_ups; nothing in the last round, over no passages, or
\* when the call fails.
Review ==
  /\ node = "review"
  /\ rounds' = rounds + 1
  /\ \E asked \in SUBSET ((Texts \ searched) \X Allowed) :
       /\ Cardinality(asked) <= MaxFollowUps
       /\ Cardinality(TextsOf(asked)) = Cardinality(asked)
       /\ rounds' >= MaxRounds \/ documents = <<>> => asked = {}
       /\ followUps' = asked
       /\ node' = RouteAfterReview(asked)
  /\ UNCHANGED <<request, plan, searched, documents, scored, grounded, shown, history>>

-----------------------------------------------------------------------------
\* `done`: the answer, over the passages on show.
Generate ==
  /\ node = "generate"
  /\ reply' = "offered"
  /\ node' = "verify"
  /\ UNCHANGED <<request, plan, followUps, rounds, searched, documents, scored, grounded,
                 sources, verdict, history>>

\* Mutant: an ungrounded answer is written again until one passes.
Verify_UntilGrounded ==
  /\ node = "verify"
  /\ grounded' \in {"grounded", "ungrounded"}
  /\ node' = IF grounded' = "grounded" THEN "end" ELSE "generate"
  /\ UNCHANGED <<request, plan, followUps, rounds, searched, documents, scored, shown, history>>

\* A first verdict against the answer gets a second opinion.
Verify ==
  /\ node = "verify"
  /\ \E verdicts \in {<<TRUE>>, <<FALSE, TRUE>>, <<FALSE, FALSE>>} :
       grounded' = IF TRUE \in Range(verdicts) THEN "grounded" ELSE "ungrounded"
  /\ node' = IF grounded' = "grounded" THEN "end" ELSE "decline"
  /\ UNCHANGED <<request, plan, followUps, rounds, searched, documents, scored, shown, history>>

Decline ==
  /\ node = "decline"
  /\ documents' = <<>>
  /\ node' = "end"
  /\ UNCHANGED <<request, plan, followUps, rounds, searched, scored, grounded, shown, history>>

\* Mutant: the stream's last word forgets that an answer was sent.
Close_Again ==
  /\ node = "end"
  /\ \/ /\ grounded # "none"
        /\ verdict' = IF grounded = "grounded" THEN "grounded" ELSE "withdrawn"
     \/ /\ grounded = "none"
        /\ UNCHANGED verdict
  /\ reply' = IF mode = "search" THEN "passages" ELSE "declined"
  /\ node' = "closed"
  /\ UNCHANGED <<request, plan, followUps, rounds, searched, documents, scored, grounded,
                 sources, history>>

\* The graph is done: the verdict on what was answered, or `done` without one.
Close ==
  /\ node = "end"
  /\ \/ /\ reply = "offered" /\ grounded # "none"
        /\ verdict' = IF grounded = "grounded" THEN "grounded" ELSE "withdrawn"
        /\ UNCHANGED reply
     \/ /\ reply # "offered"
        /\ reply' = IF mode = "search" THEN "passages" ELSE "declined"
        /\ UNCHANGED verdict
  /\ node' = "closed"
  /\ UNCHANGED <<request, plan, followUps, rounds, searched, documents, scored, grounded,
                 sources, history>>

\* A call fails in a node that has nothing to fall back on, or a review answers
\* with nothing the node can read: `error`.  Or the stream's last word cannot be
\* put together, and it breaks off without one.
Fail ==
  /\ node \in {"plan", "retrieve", "expand", "topics", "review", "generate", "verify", "end"}
  /\ node' = "failed"
  /\ UNCHANGED <<request, plan, followUps, rounds, searched, documents, scored, grounded,
                 shown, history>>

Next ==
  \/ Plan \/ Retrieve \/ Expand \/ Topics \/ SwitchedOff \/ Rerank \/ Review
  \/ Generate \/ Verify \/ Decline \/ Close \/ Fail

Spec == Init /\ [][Next]_vars

\* One thread runs the graph; every call in it has a timeout.
FairSpec == Spec /\ WF_vars(Next)

-----------------------------------------------------------------------------
(* Properties.                                                             *)

TypeOK ==
  /\ mode \in Modes /\ graphOn \in BOOLEAN /\ topicsOn \in BOOLEAN
  /\ node \in Nodes \cup {"end", "closed", "failed"}
  /\ plan \subseteq Searches
  /\ followUps \subseteq Searches
  /\ rounds \in 0..MaxRounds
  /\ searched \subseteq Texts
  /\ documents \in Seq(Passages)
  /\ scored \subseteq Passages
  /\ grounded \in {"none", "grounded", "ungrounded"}
  /\ sources \in Seq(Passages)
  /\ reply \in {"none", "offered", "passages", "declined"}
  /\ verdict \in {"none", "grounded", "withdrawn"}
  /\ passes \in Seq(SUBSET Texts) /\ Len(passes) \in 0..MaxRounds
  /\ carried \subseteq Passages
  /\ pooled \in Nat

\* "Never a search already run" (retrieval/review.py): no two passes search for the
\* same text, however many reviews there are.  A review sees the searches on
\* record only, so every pass must leave there what the passes before it ran.
NeverSearchedTwice ==
  \A i, j \in DOMAIN passes : i < j => passes[i] \cap passes[j] = {}

\* "The pool handed on never grows past a budget" (retrieval/expand.py): neither
\* graph nor topics make the pool that is reranked larger than the one that was
\* retrieved, or than the budget - as long as what one of them adds fits in it.
PoolWithinBudget ==
  MaxLookups + MaxNeighbours <= Budget /\ MaxLeaves <= Budget /\ node = "rerank" =>
    Len(documents) <= Larger(pooled, Budget)

\* "The user's own restrictions ... Hard constraints" (retrieval/state.py), as far
\* as they are kept: without topics, no pass, no follow-up and no citation brings
\* in a passage of a collection, court or year the user excluded.
ScopeWithoutTopics == ~topicsOn => Range(documents) \cup Range(sources) \subseteq InScope

\* The answer is written over the passages the reader was shown last, so that its
\* markers mean the same passages to both.
AnswersOverSources == node \in {"generate", "verify"} => documents = sources

\* A question is not left hanging: its stream ends, whatever fails.
Ends == <>(node \in {"closed", "failed"})

\* The stream is what AnswerStream promises.
Stream == INSTANCE AnswerStream WITH
            Lists <- Seq(Passages),
            phase <- IF node \in {"closed", "failed"} THEN node ELSE "open"

ImplementsStream == Stream!Spec

-----------------------------------------------------------------------------
(* What the comments promise and the code does not keep.                   *)

\* "The user's own restrictions, from the request.  Hard constraints" (state.py):
\* no passage is considered that the user's filters exclude.
UserScopeIsHard == Range(documents) \subseteq InScope

\* "What the first pass kept stays, and the reranker judges old and new together"
\* (retrieval/retrieve.py).
KeptStays == node = "rerank" => carried \subseteq Range(documents)
=============================================================================
