-------------------------- MODULE QueryGraphProofs --------------------------
(***************************************************************************)
(* What QueryGraph guarantees for every corpus, filter, question, budget   *)
(* and number of rounds.                                                   *)
(***************************************************************************)
EXTENDS QueryGraph, SequenceTheorems, FiniteSetTheorems, TLAPS

(* The inductive invariants.                                               *)

\* The passes so far, by the reviews so far; a pass under way has a round left.
Counted ==
  /\ node \in {"plan", "retrieve"} => rounds < MaxRounds /\ Len(passes) = rounds
  /\ node \in {"expand", "topics", "rerank", "review"} =>
       rounds < MaxRounds /\ Len(passes) = rounds + 1

\* The texts of all passes together are on record, and what a review asks for is
\* not among them.  Only the first pass runs without follow-ups.
OnRecord ==
  /\ NeverSearchedTwice
  /\ \A i \in DOMAIN passes : passes[i] \subseteq searched
  /\ TextsOf(followUps) \cap searched = {}
  /\ node = "plan" => passes = <<>>
  /\ node = "retrieve" => passes = <<>> \/ followUps # {}

\* Searches go to collections the user allows; what they bring in is in scope.
Confined ==
  /\ plan \subseteq Texts \X Allowed
  /\ followUps \subseteq Texts \X Allowed
  /\ ~topicsOn => documents \in Seq(InScope) /\ sources \in Seq(InScope)

\* What has been said to the reader by the time a node runs.
Conversation ==
  /\ node \in {"plan", "retrieve", "expand", "topics", "rerank", "review", "generate"} =>
       reply = "none" /\ grounded = "none"
  /\ node = "review" => mode = "research"
  /\ node \in {"review", "generate", "verify"} => documents = sources
  /\ node \in {"generate", "verify"} => sources # <<>>
  /\ node = "verify" => reply = "offered" /\ grounded = "none"
  /\ node = "decline" =>
       \/ reply = "offered" /\ grounded = "ungrounded"
       \/ reply = "none" /\ grounded = "none" /\ sources = <<>> /\ mode # "search"
  /\ node = "end" =>
       \/ reply = "offered" /\ grounded # "none"
       \/ reply = "none" /\ grounded = "none" /\ (mode # "search" => sources = <<>>)

\* Neither stage that widens the pool outgrows what was retrieved, or the budget.
Bounded ==
  MaxLookups + MaxNeighbours <= Budget /\ MaxLeaves <= Budget
    /\ node \in {"expand", "topics", "rerank"} =>
      Len(documents) <= Larger(pooled, Budget)

-----------------------------------------------------------------------------
\* How many the first n numbers are.
LEMMA UpTo ==
  ASSUME NEW n \in Nat
  PROVE  IsFiniteSet(1..n) /\ Cardinality(1..n) = n
<1>1. 1 \in Int /\ n \in Int
  OBVIOUS
<1>2. IsFiniteSet(1..n) /\ Cardinality(1..n) = IF 1 > n THEN 0 ELSE n - 1 + 1
  BY <1>1, FS_Interval, Zenon
<1> QED BY <1>2

USE PassagesAssumption, LimitsAssumption

(* Lists of passages.                                                      *)

\* A list of at most n members of S is a sequence over S of at most that length.
LEMMA ListFacts ==
  ASSUME NEW S, NEW n \in Nat, NEW l \in ListsOf(S, n)
  PROVE  l \in Seq(S) /\ Len(l) \in 0..n
<1>1. PICK k \in 0..n : l \in [1..k -> S]
  BY DEF ListsOf, Injection
<1>2. k \in Nat
  OBVIOUS
<1>3. l \in Seq(S)
  BY <1>1, <1>2, SeqDef
<1>4. Len(l) = k
  BY <1>1, <1>3, <1>2, LenProperties
<1> QED BY <1>3, <1>4

\* What a stage hands on, having widened the pool.
LEMMA WidenFacts ==
  ASSUME NEW S, documents \in Seq(S), NEW added \in Seq(S), Widen(added)
  PROVE  /\ documents' \in Seq(S)
         /\ Len(added) <= Budget => Len(documents') <= Larger(Len(documents), Budget)
<1>0. PICK kept \in SUBSET Range(documents) :
        \E front \in Bijection(1..Cardinality(kept), kept) :
          Fits(documents, added, kept) /\ documents' = front \o added
  BY DEF Widen
<1>1. PICK front \in Bijection(1..Cardinality(kept), kept) :
        Fits(documents, added, kept) /\ documents' = front \o added
  BY <1>0
<1>2. Len(documents) \in Nat /\ Len(added) \in Nat /\ Range(documents) \subseteq S
      /\ DOMAIN documents = 1..Len(documents)
  BY LenProperties, RangeOfSeq
<1>3. IsFiniteSet(Range(documents)) /\ Cardinality(Range(documents)) <= Len(documents)
  <2>1. documents \in Surjection(1..Len(documents), Range(documents))
    BY <1>2, LenProperties DEF Surjection, Range
  <2>2. ExistsSurjection(1..Len(documents), Range(documents))
    BY <2>1 DEF ExistsSurjection
  <2>3. IsFiniteSet(1..Len(documents)) /\ Cardinality(1..Len(documents)) = Len(documents)
    BY <1>2, UpTo
  <2> QED BY <1>2, <2>1, <2>3, FS_Surjection
<1>4. Cardinality(kept) \in Nat
  <2>1. IsFiniteSet(kept)
    BY <1>3, FS_Subset
  <2> QED BY <2>1, FS_CardinalityType
<1>5. front \in [1..Cardinality(kept) -> kept]
  BY <1>1 DEF Bijection, Injection
<1>6. front \in Seq(kept) /\ front \in Seq(S)
  <2> DEFINE n == Cardinality(kept)
  <2>0. n \in Nat /\ front \in [1..n -> kept]
    BY <1>4, <1>5
  <2>1. front \in Seq(kept)
    <3> HIDE DEF n
    <3> QED BY <2>0, SeqDef
  <2>2. kept \subseteq S
    BY <1>2
  <2> QED BY <2>1, <2>2, SeqMonotonic
<1>7. Len(front) = Cardinality(kept)
  BY <1>4, <1>5, <1>6, LenProperties
<1>8. documents' \in Seq(S) /\ Len(documents') = Cardinality(kept) + Len(added)
  BY <1>1, <1>6, <1>7, ConcatProperties
<1>9. ASSUME Len(added) <= Budget
      PROVE  Len(documents') <= Larger(Len(documents), Budget)
  <2> DEFINE room == Larger(Len(documents), Budget) - Len(added)
  <2>1. room \in Int /\ room >= 0 /\ Larger(Len(documents), Budget) \in Nat
    BY <1>2, <1>9 DEF Larger
  <2>2. CASE added = <<>>
    <3>1. kept = Range(documents) /\ Len(added) = 0
      BY <1>1, <2>2, EmptySeq DEF Fits
    <3> QED BY <1>2, <1>3, <1>4, <1>8, <3>1 DEF Larger
  <2>3. CASE added # <<>> /\ room >= Len(documents)
    <3>1. kept = Range(documents)
      BY <1>1, <2>3 DEF Fits
    <3> QED BY <1>2, <1>3, <1>4, <1>8, <2>1, <2>3, <3>1
  <2>4. CASE added # <<>> /\ ~(room >= Len(documents))
    <3>1. Cardinality(kept) = room
      BY <1>1, <2>1, <2>4 DEF Fits
    <3> QED BY <1>2, <1>8, <2>1, <3>1
  <2> QED BY <2>2, <2>3, <2>4
<1> QED BY <1>8, <1>9

\* The pool after each node that changes it, over any set its passages come from.
LEMMA RetrieveList ==
  ASSUME TypeOK, Retrieve, NEW S, documents \in Seq(S),
         {p \in Admitted : CollectionOf[p] \in Reached(plan) \cup Reached(followUps)} \subseteq S
  PROVE  documents' \in Seq(S)
<1> DEFINE searches == IF followUps = {} THEN WithOriginal(plan) ELSE followUps
           kept     == IF followUps = {} THEN <<>> ELSE documents
           within   == {p \in Admitted : CollectionOf[p] \in Reached(searches)}
<1>1. PICK found \in ListsOf(within \ Range(kept), MaxFound) : documents' = kept \o found
  BY DEF Retrieve
<1>2. Reached(searches) \subseteq Reached(plan) \cup Reached(followUps)
  BY DEF Reached, WithOriginal
<1>3. within \ Range(kept) \subseteq S
  BY <1>2
<1>4. found \in Seq(S)
  BY <1>3, ListFacts, SeqMonotonic
<1>5. kept \in Seq(S)
  BY EmptySeq
<1> HIDE DEF kept, within
<1> QED BY <1>1, <1>4, <1>5, ConcatProperties

LEMMA ExpandList ==
  ASSUME TypeOK, Expand, NEW S, documents \in Seq(S), InScope \subseteq S
  PROVE  /\ documents' \in Seq(S)
         /\ MaxLookups + MaxNeighbours <= Budget =>
              Len(documents') <= Larger(Len(documents), Budget)
<1> DEFINE most == IF documents = <<>> THEN 0 ELSE MaxNeighbours
<1>0. PICK lookups \in ListsOf(InScope \ Range(documents), MaxLookups) :
        \E neighbours \in ListsOf(InScope \ (Range(documents) \cup Range(lookups)), most) :
          Widen(lookups \o neighbours)
  BY DEF Expand
<1>1. PICK neighbours \in ListsOf(InScope \ (Range(documents) \cup Range(lookups)), most) :
        Widen(lookups \o neighbours)
  BY <1>0
<1>2. most \in Nat /\ most <= MaxNeighbours
  OBVIOUS
<1> HIDE DEF most
<1>3. lookups \in Seq(InScope \ Range(documents)) /\ Len(lookups) \in 0..MaxLookups
  BY ListFacts
<1>4. /\ neighbours \in Seq(InScope \ (Range(documents) \cup Range(lookups)))
      /\ Len(neighbours) \in 0..most
  BY <1>2, ListFacts
<1>5. lookups \in Seq(S) /\ neighbours \in Seq(S)
  BY <1>3, <1>4, SeqMonotonic
<1>6. lookups \o neighbours \in Seq(S) /\ Len(lookups \o neighbours) = Len(lookups) + Len(neighbours)
  BY <1>5, ConcatProperties
<1>7. Len(lookups \o neighbours) <= MaxLookups + MaxNeighbours
  BY <1>2, <1>3, <1>4, <1>6
<1>8. MaxLookups + MaxNeighbours <= Budget => Len(lookups \o neighbours) <= Budget
  BY <1>3, <1>4, <1>6, <1>7, <1>2
<1> QED BY <1>1, <1>6, <1>8, WidenFacts

LEMMA TopicsList ==
  ASSUME TypeOK, Topics
  PROVE  /\ documents' \in Seq(Passages)
         /\ MaxLeaves <= Budget => Len(documents') <= Larger(Len(documents), Budget)
<1>1. PICK leaves \in ListsOf({p \in Passages : CollectionOf[p] \in Allowed} \ Range(documents),
                              MaxLeaves) : Widen(leaves)
  BY DEF Topics
<1>2. /\ leaves \in Seq({p \in Passages : CollectionOf[p] \in Allowed} \ Range(documents))
      /\ Len(leaves) \in 0..MaxLeaves
  BY ListFacts
<1>3. leaves \in Seq(Passages)
  BY <1>2, SeqMonotonic
<1>4. documents \in Seq(Passages)
  BY DEF TypeOK
<1>5. MaxLeaves <= Budget => Len(leaves) <= Budget
  BY <1>2
<1> QED BY <1>1, <1>3, <1>4, <1>5, WidenFacts

LEMMA RerankList ==
  ASSUME TypeOK, Rerank, NEW S, documents \in Seq(S)
  PROVE  documents' \in Seq(S)
<1>1. Keep[mode] \in Nat /\ Smaller(RerankTop, Keep[mode]) \in Nat
  BY DEF TypeOK, Smaller
<1>2. CASE documents' \in ListsOf(Range(documents), Smaller(RerankTop, Keep[mode]))
  <2>1. documents' \in Seq(Range(documents))
    BY <1>1, <1>2, ListFacts
  <2> QED BY <2>1, RangeOfSeq, SeqMonotonic
<1>3. CASE documents' = SubSeq(documents, 1, Smaller(Len(documents), Keep[mode]))
  <2>1. Smaller(Len(documents), Keep[mode]) \in 0..Len(documents)
    BY <1>1, LenProperties DEF Smaller
  <2>2. \A i \in 1..Smaller(Len(documents), Keep[mode]) : documents[i] \in S
    BY <2>1, ElementOfSeq, LenProperties
  <2> QED BY <1>3, <2>1, <2>2, SubSeqProperties
<1> QED BY <1>2, <1>3 DEF Rerank

-----------------------------------------------------------------------------
(* Types.                                                                  *)

LEMMA WithOriginalFacts ==
  ASSUME NEW T, Allowed \subseteq T, NEW S, S \subseteq Texts \X T
  PROVE  WithOriginal(S) \subseteq Texts \X T
BY DEF WithOriginal, Reached

LEMMA RetrieveTypes ==
  ASSUME TypeOK, Counted, Retrieve
  PROVE  TypeOK' /\ Counted'
<1> DEFINE searches == IF followUps = {} THEN WithOriginal(plan) ELSE followUps
           kept     == IF followUps = {} THEN <<>> ELSE documents
           within   == {p \in Admitted : CollectionOf[p] \in Reached(searches)}
<1>1. PICK found \in ListsOf(within \ Range(kept), MaxFound) :
        /\ documents' = kept \o found
        /\ scored' = (scored \cap Range(kept)) \cup Range(found)
        /\ carried' = Range(kept)
        /\ pooled' = Len(documents')
        /\ searched' = Recorded(searches)
        /\ passes' = Append(passes, TextsOf(searches))
  BY DEF Retrieve
<1>2. documents' \in Seq(Passages)
  BY RetrieveList DEF TypeOK
<1>3. pooled' \in Nat
  BY <1>1, <1>2, LenProperties
<1>4. Range(found) \subseteq Passages
  <2>1. found \in Seq(within \ Range(kept))
    BY <1>1, ListFacts
  <2>2. Range(found) \subseteq within \ Range(kept)
    BY <2>1, RangeOfSeq
  <2> QED BY <2>2
<1>5. Range(kept) \subseteq Passages
  <2>1. kept \in Seq(Passages)
    BY EmptySeq DEF TypeOK
  <2> QED BY <2>1, RangeOfSeq
<1>6. searches \subseteq Searches
  BY WithOriginalFacts DEF TypeOK, Searches
<1>7. searched' \subseteq Texts
  BY <1>1, <1>6 DEF TypeOK, TextsOf, Searches, Recorded
<1>8. scored' \subseteq Passages /\ carried' \subseteq Passages
  BY <1>1, <1>4, <1>5 DEF TypeOK
<1>9. rounds < MaxRounds /\ rounds' = rounds
      /\ passes' \in Seq(SUBSET Texts) /\ Len(passes') = rounds + 1 /\ rounds + 1 \in 0..MaxRounds
  <2>1. rounds < MaxRounds /\ Len(passes) = rounds /\ rounds' = rounds /\ rounds \in 0..MaxRounds
    BY DEF Retrieve, Counted, TypeOK
  <2>2. TextsOf(searches) \in SUBSET Texts
    BY <1>6 DEF TextsOf, Searches
  <2> HIDE DEF searches
  <2>3. passes' \in Seq(SUBSET Texts) /\ Len(passes') = Len(passes) + 1
    BY <1>1, <2>2, AppendProperties DEF TypeOK
  <2> QED BY <2>1, <2>3
<1> HIDE DEF searches, kept, within
<1> QED BY <1>2, <1>3, <1>7, <1>8, <1>9 DEF TypeOK, Counted, Retrieve, request, shown, Nodes

LEMMA ExpandTypes ==
  ASSUME TypeOK, Counted, Expand
  PROVE  TypeOK' /\ Counted'
<1>1. documents' \in Seq(Passages)
  <2>1. documents \in Seq(Passages) /\ InScope \subseteq Passages
    BY DEF TypeOK, InScope
  <2> QED BY <2>1, ExpandList
<1>2. scored' \subseteq Passages
  <2> DEFINE most == IF documents = <<>> THEN 0 ELSE MaxNeighbours
  <2>1. PICK lookups \in ListsOf(InScope \ Range(documents), MaxLookups) :
          \E neighbours \in ListsOf(InScope \ (Range(documents) \cup Range(lookups)), most) :
            scored' = scored \cup Range(neighbours)
    BY DEF Expand
  <2>2. PICK neighbours \in ListsOf(InScope \ (Range(documents) \cup Range(lookups)), most) :
          scored' = scored \cup Range(neighbours)
    BY <2>1
  <2>3. most \in Nat
    OBVIOUS
  <2> HIDE DEF most
  <2>4. neighbours \in Seq(InScope \ (Range(documents) \cup Range(lookups)))
    BY <2>3, ListFacts
  <2>5. Range(neighbours) \subseteq InScope \ (Range(documents) \cup Range(lookups))
    BY <2>4, RangeOfSeq
  <2> QED BY <2>2, <2>5 DEF TypeOK, InScope
<1>3. node = "expand" /\ node' = "topics"
      /\ UNCHANGED <<mode, graphOn, topicsOn, plan, followUps, rounds, searched, grounded,
                     sources, reply, verdict, passes, carried, pooled>>
  BY DEF Expand, request, shown, history
<1> QED BY <1>1, <1>2, <1>3 DEF TypeOK, Counted, Nodes

LEMMA TopicsTypes ==
  ASSUME TypeOK, Counted, Topics
  PROVE  TypeOK' /\ Counted'
<1>1. documents' \in Seq(Passages)
  BY TopicsList
<1>2. node = "topics" /\ node' = "rerank"
      /\ UNCHANGED <<mode, graphOn, topicsOn, plan, followUps, rounds, searched, scored,
                     grounded, sources, reply, verdict, passes, carried, pooled>>
  BY DEF Topics, request, shown, history
<1> QED BY <1>1, <1>2 DEF TypeOK, Counted, Nodes

LEMMA RerankTypes ==
  ASSUME TypeOK, Counted, Rerank
  PROVE  TypeOK' /\ Counted'
<1>1. documents' \in Seq(Passages) /\ sources' = documents'
  BY RerankList DEF TypeOK, Rerank
<1>2. node = "rerank" /\ node' \in {"end", "review", "generate", "decline"}
      /\ UNCHANGED <<mode, graphOn, topicsOn, plan, followUps, rounds, searched, scored,
                     grounded, reply, verdict, passes, carried, pooled>>
  BY DEF Rerank, RouteAfterRerank, request, history, TypeOK, Modes
<1> QED BY <1>1, <1>2 DEF TypeOK, Counted, Nodes

LEMMA ReviewTypes ==
  ASSUME TypeOK, Counted, Review
  PROVE  TypeOK' /\ Counted'
<1>1. PICK asked \in SUBSET ((Texts \ searched) \X Allowed) :
        /\ rounds' >= MaxRounds \/ documents = <<>> => asked = {}
        /\ followUps' = asked
        /\ node' = RouteAfterReview(asked)
  BY DEF Review
<1>2. followUps' \subseteq Searches
  BY <1>1 DEF Searches
<1>3. node = "review" /\ rounds' = rounds + 1
      /\ UNCHANGED <<mode, graphOn, topicsOn, plan, searched, documents, scored, grounded,
                     sources, reply, verdict, passes, carried, pooled>>
  BY DEF Review, request, shown, history
<1>4. rounds < MaxRounds /\ Len(passes) = rounds + 1 /\ rounds \in Nat
  BY <1>3 DEF Counted, TypeOK
<1>5. node' \in {"retrieve", "generate", "decline"} /\ (node' = "retrieve" => asked # {})
  BY <1>1 DEF RouteAfterReview
<1>6. rounds' \in 0..MaxRounds
  BY <1>3, <1>4
<1>7. node' = "retrieve" => rounds' < MaxRounds /\ Len(passes') = rounds'
  BY <1>1, <1>3, <1>4, <1>5
<1> QED BY <1>2, <1>3, <1>5, <1>6, <1>7 DEF TypeOK, Counted, Nodes

LEMMA TypesKept ==
  ASSUME TypeOK, Counted, [Next]_vars
  PROVE  TypeOK' /\ Counted'
<1>1. CASE Plan
  <2>1. plan' \subseteq Searches
    BY <1>1 DEF Plan, Plans, Searches
  <2> QED BY <1>1, <2>1 DEF Plan, TypeOK, Counted, Nodes, request, shown, history
<1>2. CASE SwitchedOff
  BY <1>2 DEF SwitchedOff, TypeOK, Counted, Nodes, request, shown, history
<1>3. CASE Generate
  BY <1>3 DEF Generate, TypeOK, Counted, Nodes, request, shown, history
<1>4. CASE Verify
  <2>1. grounded' \in {"grounded", "ungrounded"}
    BY <1>4 DEF Verify
  <2> QED BY <1>4, <2>1 DEF Verify, TypeOK, Counted, Nodes, request, shown, history
<1>5. CASE Decline
  <2>1. documents' \in Seq(Passages)
    BY <1>5, EmptySeq DEF Decline
  <2> QED BY <1>5, <2>1 DEF Decline, TypeOK, Counted, Nodes, request, shown, history
<1>6. CASE Close
  BY <1>6 DEF Close, TypeOK, Counted, Nodes, request, shown, history
<1>7. CASE Fail
  BY <1>7 DEF Fail, TypeOK, Counted, Nodes, request, shown, history
<1>8. CASE UNCHANGED vars
  BY <1>8 DEF vars, TypeOK, Counted, request, shown, history
<1> QED BY <1>1, <1>2, <1>3, <1>4, <1>5, <1>6, <1>7, <1>8, RetrieveTypes, ExpandTypes,
           TopicsTypes, RerankTypes, ReviewTypes DEF Next

LEMMA TypesInvariant == Spec => [](TypeOK /\ Counted)
<1>1. Init => TypeOK /\ Counted
  BY EmptySeq DEF Init, TypeOK, Counted, Modes, Nodes
<1>2. TypeOK /\ Counted /\ [Next]_vars => (TypeOK /\ Counted)'
  BY TypesKept
<1> QED BY <1>1, <1>2, PTL DEF Spec

\* No question is retrieved for more often than the rounds allow, and every
\* variable stays in its type: the review counts, and retrieval and the stages
\* behind it only ever run with a round left.
THEOREM TypeCorrect == Spec => []TypeOK
BY TypesInvariant, PTL

\* What Append leaves where it was, and where it puts the new element.
LEMMA Appended ==
  ASSUME NEW S, NEW s \in Seq(S), NEW e \in S
  PROVE  /\ Len(s) \in Nat /\ DOMAIN s = 1..Len(s)
         /\ DOMAIN Append(s, e) = 1..(Len(s) + 1)
         /\ Append(s, e)[Len(s) + 1] = e
         /\ \A i \in 1..Len(s) : Append(s, e)[i] = s[i]
<1>1. Append(s, e) \in Seq(S) /\ Len(Append(s, e)) = Len(s) + 1
  BY AppendProperties
<1> QED BY <1>1, AppendProperties, LenProperties

LEMMA RetrieveOnRecord ==
  ASSUME TypeOK, OnRecord, Retrieve
  PROVE  OnRecord'
<1> DEFINE searches == IF followUps = {} THEN WithOriginal(plan) ELSE followUps
<1>1. /\ searched' = Recorded(searches)
      /\ passes' = Append(passes, TextsOf(searches))
      /\ followUps' = {} /\ node' = "expand"
  BY DEF Retrieve
<1>2. \/ followUps = {} /\ passes = <<>> /\ searched' = TextsOf(searches)
      \/ /\ followUps # {}
         /\ searched' = TextsOf(searches) \cup searched
         /\ TextsOf(searches) \cap searched = {}
  BY <1>1 DEF Retrieve, OnRecord, Recorded
<1> HIDE DEF searches
<1>3. /\ Len(passes) \in Nat /\ DOMAIN passes = 1..Len(passes)
      /\ DOMAIN passes' = 1..(Len(passes) + 1)
      /\ passes'[Len(passes) + 1] = TextsOf(searches)
      /\ \A i \in 1..Len(passes) : passes'[i] = passes[i]
  <2> DEFINE texts == TextsOf(searches)
             S     == (SUBSET Texts) \cup {texts}
  <2> HIDE DEF texts
  <2>1. passes \in Seq(S)
    BY SeqMonotonic DEF TypeOK
  <2>2. texts \in S
    OBVIOUS
  <2>3. passes' = Append(passes, texts)
    BY <1>1 DEF texts
  <2> HIDE DEF S
  <2>4. /\ Len(passes) \in Nat /\ DOMAIN passes = 1..Len(passes)
        /\ DOMAIN passes' = 1..(Len(passes) + 1)
        /\ passes'[Len(passes) + 1] = texts
        /\ \A i \in 1..Len(passes) : passes'[i] = passes[i]
    BY <2>1, <2>2, <2>3, Appended
  <2> QED BY <2>4 DEF texts
<1>4. passes = <<>> => Len(passes) = 0
  BY EmptySeq
<1>5. \A i \in 1..Len(passes) : passes[i] \subseteq searched /\ followUps # {}
  BY <1>2, <1>3, <1>4 DEF OnRecord
<1>6. \A i \in DOMAIN passes' : passes'[i] \subseteq searched'
  BY <1>2, <1>3, <1>5
<1>7. NeverSearchedTwice'
  <2> SUFFICES ASSUME NEW i \in DOMAIN passes', NEW j \in DOMAIN passes', i < j
               PROVE  passes'[i] \cap passes'[j] = {}
    BY DEF NeverSearchedTwice
  <2>1. i \in 1..Len(passes) /\ passes'[i] = passes[i]
    BY <1>3
  <2>2. CASE j = Len(passes) + 1
    BY <1>2, <1>3, <1>5, <2>1, <2>2
  <2>3. CASE j \in 1..Len(passes)
    BY <1>3, <2>1, <2>3 DEF OnRecord, NeverSearchedTwice
  <2> QED BY <1>3, <2>2, <2>3
<1> QED BY <1>1, <1>6, <1>7 DEF OnRecord, TextsOf

LEMMA OnRecordKept ==
  ASSUME TypeOK, OnRecord, [Next]_vars
  PROVE  OnRecord'
<1>1. CASE Review
  <2>1. PICK asked \in SUBSET ((Texts \ searched) \X Allowed) :
          followUps' = asked /\ node' = RouteAfterReview(asked)
    BY <1>1 DEF Review
  <2>2. UNCHANGED <<searched, passes>>
    BY <1>1 DEF Review, history
  <2>3. TextsOf(followUps') \cap searched = {}
    BY <2>1 DEF TextsOf
  <2>4. node' # "plan" /\ (node' = "retrieve" => followUps' # {})
    BY <2>1 DEF RouteAfterReview
  <2> QED BY <2>2, <2>3, <2>4 DEF OnRecord, NeverSearchedTwice, TextsOf
<1>2. CASE ~Retrieve /\ ~Review
  <2>1. UNCHANGED <<followUps, searched, passes>>
    BY <1>2 DEF Next, Plan, Expand, Topics, SwitchedOff, Rerank, Generate, Verify, Decline,
                Close, Fail, vars, history
  <2>2. (node' = "plan" => node = "plan") /\ (node' = "retrieve" => node \in {"plan", "retrieve"})
    BY <1>2 DEF Next, Plan, Expand, Topics, SwitchedOff, Rerank, Generate, Verify, Decline,
                Close, Fail, vars, RouteAfterRerank
  <2> QED BY <2>1, <2>2 DEF OnRecord, NeverSearchedTwice, TextsOf
<1> QED BY <1>1, <1>2, RetrieveOnRecord

\* However many passes a question takes, none searches for a text an earlier one
\* searched for: each leaves the searches of all of them on record, and a review
\* asks for nothing on record.
THEOREM NoRepeatedSearch == Spec => []NeverSearchedTwice
<1>1. Init => OnRecord
  BY DEF Init, OnRecord, NeverSearchedTwice, TextsOf
<1>2. TypeOK /\ OnRecord /\ [Next]_vars => OnRecord'
  BY OnRecordKept
<1>3. OnRecord => NeverSearchedTwice
  BY DEF OnRecord
<1> QED BY <1>1, <1>2, <1>3, TypeCorrect, PTL DEF Spec

-----------------------------------------------------------------------------
(* The user's filters.                                                     *)

LEMMA ConfinedKept ==
  ASSUME TypeOK, Confined, [Next]_vars
  PROVE  Confined'
<1>1. CASE Plan
  <2>1. plan' \subseteq Texts \X Allowed
    BY <1>1 DEF Plan, Plans
  <2> QED BY <1>1, <2>1 DEF Plan, Confined, request, shown
<1>2. CASE Retrieve
  <2>1. {p \in Admitted : CollectionOf[p] \in Reached(plan) \cup Reached(followUps)}
          \subseteq InScope
    BY DEF Confined, Reached, InScope
  <2>2. ~topicsOn => documents' \in Seq(InScope)
    BY <1>2, <2>1, RetrieveList DEF Confined
  <2> QED BY <1>2, <2>2 DEF Retrieve, Confined, request, shown
<1>3. CASE Expand
  <2>1. ~topicsOn => documents' \in Seq(InScope)
    BY <1>3, ExpandList DEF Confined
  <2> QED BY <1>3, <2>1 DEF Expand, Confined, request, shown
<1>4. CASE Topics
  BY <1>4 DEF Topics, Confined, request
<1>5. CASE Rerank
  <2>1. ~topicsOn => documents' \in Seq(InScope)
    BY <1>5, RerankList DEF Confined
  <2> QED BY <1>5, <2>1 DEF Rerank, Confined, request
<1>6. CASE Review
  <2>1. followUps' \subseteq Texts \X Allowed
    BY <1>6 DEF Review
  <2> QED BY <1>6, <2>1 DEF Review, Confined, request, shown
<1>7. CASE Decline
  BY <1>7, EmptySeq DEF Decline, Confined, request, shown
<1>8. CASE SwitchedOff \/ Generate \/ Verify \/ Close \/ Fail \/ UNCHANGED vars
  <2>1. UNCHANGED <<topicsOn, plan, followUps, documents, sources>>
    BY <1>8 DEF SwitchedOff, Generate, Verify, Close, Fail, vars, request, shown
  <2> QED BY <2>1 DEF Confined
<1> QED BY <1>1, <1>2, <1>3, <1>4, <1>5, <1>6, <1>7, <1>8 DEF Next

\* Without topics nothing outside the user's filters is considered or shown:
\* the plan and the follow-ups only name collections the user allows, a search
\* carries the user's courts and years, and a looked-up passage is checked.
THEOREM ScopeKeptWithoutTopics == Spec => []ScopeWithoutTopics
<1>1. Init => Confined
  BY EmptySeq DEF Init, Confined
<1>2. TypeOK /\ Confined /\ [Next]_vars => Confined'
  BY ConfinedKept
<1>3. Confined => ScopeWithoutTopics
  <2> SUFFICES ASSUME Confined, ~topicsOn
               PROVE  Range(documents) \cup Range(sources) \subseteq InScope
    BY DEF ScopeWithoutTopics
  <2>1. documents \in Seq(InScope) /\ sources \in Seq(InScope)
    BY DEF Confined
  <2>2. Range(documents) \subseteq InScope /\ Range(sources) \subseteq InScope
    BY <2>1, RangeOfSeq
  <2> QED BY <2>2
<1> QED BY <1>1, <1>2, <1>3, TypeCorrect, PTL DEF Spec

-----------------------------------------------------------------------------
(* The candidate budget.                                                   *)

LEMMA BoundedKept ==
  ASSUME TypeOK, Bounded, [Next]_vars
  PROVE  Bounded'
<1>0. \A m \in Nat : Larger(m, Budget) >= m /\ Larger(m, Budget) \in Nat
  BY DEF Larger
<1>1. CASE Retrieve
  <2>1. pooled' = Len(documents')
    BY <1>1 DEF Retrieve
  <2>2. documents' \in Seq(Passages)
    BY <1>1, RetrieveList DEF TypeOK
  <2>3. Len(documents') \in Nat
    BY <2>2, LenProperties
  <2> QED BY <1>0, <2>1, <2>3 DEF Bounded
<1>2. ASSUME Len(documents') <= Larger(Len(documents), Budget), documents' \in Seq(Passages),
             Len(documents) <= Larger(pooled, Budget)
      PROVE  Len(documents') <= Larger(pooled, Budget)
  <2>1. Len(documents) \in Nat /\ Len(documents') \in Nat /\ pooled \in Nat
    BY <1>2, LenProperties DEF TypeOK
  <2> QED BY <1>2, <2>1 DEF Larger
<1>3. CASE Expand
  <2>1. documents' \in Seq(Passages)
        /\ (MaxLookups + MaxNeighbours <= Budget =>
              Len(documents') <= Larger(Len(documents), Budget))
    <3>1. documents \in Seq(Passages) /\ InScope \subseteq Passages
      BY DEF TypeOK, InScope
    <3> QED BY <1>3, <3>1, ExpandList
  <2>2. node = "expand" /\ pooled' = pooled
    BY <1>3 DEF Expand, history
  <2> QED BY <1>2, <2>1, <2>2 DEF Bounded
<1>4. CASE Topics
  <2>1. node = "topics" /\ pooled' = pooled
    BY <1>4 DEF Topics, history
  <2> QED BY <1>2, <1>4, <2>1, TopicsList DEF Bounded
<1>5. CASE SwitchedOff
  BY <1>5 DEF SwitchedOff, Bounded, history
<1>6. CASE UNCHANGED vars
  BY <1>6 DEF vars, Bounded, history
<1>7. CASE Plan \/ Rerank \/ Review \/ Generate \/ Verify \/ Decline \/ Close \/ Fail
  <2>1. node' \notin {"expand", "topics", "rerank"}
    BY <1>7 DEF Plan, Rerank, Review, Generate, Verify, Decline, Close, Fail,
                RouteAfterRerank, RouteAfterReview
  <2> QED BY <2>1 DEF Bounded
<1> QED BY <1>1, <1>3, <1>4, <1>5, <1>6, <1>7 DEF Next

\* Neither the graph nor the topics push the pool past the budget, or past what
\* was retrieved where that was already larger (_within_budget).
THEOREM BudgetKept == Spec => []PoolWithinBudget
<1>1. Init => Bounded
  BY DEF Init, Bounded
<1>2. TypeOK /\ Bounded /\ [Next]_vars => Bounded'
  BY BoundedKept
<1>3. Bounded => PoolWithinBudget
  BY DEF Bounded, PoolWithinBudget
<1> QED BY <1>1, <1>2, <1>3, TypeCorrect, PTL DEF Spec

-----------------------------------------------------------------------------
(* What the reader is told.                                                *)

LEMMA ConversationKept ==
  ASSUME TypeOK, Conversation, [Next]_vars
  PROVE  Conversation'
<1>1. CASE Plan \/ Retrieve \/ Expand \/ Topics \/ SwitchedOff
  <2>1. /\ node \in {"plan", "retrieve", "expand", "topics"}
        /\ node' \in {"retrieve", "expand", "topics", "rerank"}
        /\ UNCHANGED <<reply, grounded>>
    BY <1>1 DEF Plan, Retrieve, Expand, Topics, SwitchedOff, shown
  <2> QED BY <2>1 DEF Conversation
<1>2. CASE Rerank
  <2>1. reply = "none" /\ grounded = "none" /\ UNCHANGED <<mode, reply, grounded>>
        /\ sources' = documents' /\ node' = RouteAfterRerank(documents')
    BY <1>2 DEF Rerank, Conversation, request
  <2>2. CASE mode = "search"
    BY <2>1, <2>2 DEF RouteAfterRerank, Conversation
  <2>3. CASE mode = "research"
    BY <2>1, <2>3 DEF RouteAfterRerank, Conversation
  <2>4. CASE mode = "ask"
    BY <2>1, <2>4 DEF RouteAfterRerank, Conversation
  <2> QED BY <2>2, <2>3, <2>4 DEF TypeOK, Modes
<1>3. CASE Review
  <2>1. \E asked : node' = RouteAfterReview(asked)
    BY <1>3 DEF Review
  <2>2. node = "review" /\ UNCHANGED <<mode, documents, sources, reply, grounded>>
    BY <1>3 DEF Review, request, shown
  <2>3. \/ node' = "retrieve"
        \/ node' = "generate" /\ documents # <<>>
        \/ node' = "decline" /\ documents = <<>>
    BY <2>1 DEF RouteAfterReview
  <2> QED BY <2>2, <2>3 DEF Conversation
<1>4. CASE Generate
  BY <1>4 DEF Generate, Conversation
<1>5. CASE Verify
  <2>1. node = "verify" /\ UNCHANGED <<mode, sources, reply>>
        /\ \/ grounded' = "grounded" /\ node' = "end"
           \/ grounded' = "ungrounded" /\ node' = "decline"
    BY <1>5 DEF Verify, request, shown
  <2> QED BY <2>1 DEF Conversation
<1>6. CASE Decline
  BY <1>6 DEF Decline, Conversation, request, shown
<1>7. CASE Close \/ Fail
  BY <1>7 DEF Close, Fail, Conversation
<1>8. CASE UNCHANGED vars
  BY <1>8 DEF vars, Conversation, request, shown
<1> QED BY <1>1, <1>2, <1>3, <1>4, <1>5, <1>6, <1>7, <1>8 DEF Next

LEMMA ConversationInvariant == Spec => []Conversation
<1>1. Init => Conversation
  BY DEF Init, Conversation
<1>2. TypeOK /\ Conversation /\ [Next]_vars => Conversation'
  BY ConversationKept
<1> QED BY <1>1, <1>2, TypeCorrect, PTL DEF Spec

\* An answer is written and checked over exactly the passages on show.
THEOREM AnswersStandOnSources == Spec => []AnswersOverSources
<1>1. Conversation => AnswersOverSources
  BY DEF Conversation, AnswersOverSources
<1> QED BY <1>1, ConversationInvariant, PTL

\* Every step of the graph is a step of the stream AnswerStream promises, or
\* none of it: passages before words, one answer, one verdict, a clean end.
THEOREM GraphImplementsStream == Spec => ImplementsStream
<1>1. Init => Stream!Init
  BY DEF Init, Stream!Init
<1>2. TypeOK /\ TypeOK' /\ Conversation /\ [Next]_vars => [Stream!Next]_Stream!vars
  <2> SUFFICES ASSUME TypeOK, TypeOK', Conversation, [Next]_vars
               PROVE  [Stream!Next]_Stream!vars
    OBVIOUS
  <2>1. CASE Plan \/ Retrieve \/ Expand \/ Topics \/ SwitchedOff \/ Review \/ Verify
             \/ Decline
    <3>1. node \notin {"closed", "failed"} /\ node' \notin {"closed", "failed"}
      BY <2>1 DEF Plan, Retrieve, Expand, Topics, SwitchedOff, Review, Verify, Decline,
                  RouteAfterReview
    <3>2. UNCHANGED <<sources, reply, verdict>>
      BY <2>1 DEF Plan, Retrieve, Expand, Topics, SwitchedOff, Review, Verify, Decline, shown
    <3> QED BY <3>1, <3>2 DEF Stream!vars
  <2>2. CASE Rerank
    <3>1. node = "rerank" /\ node' \notin {"closed", "failed"}
      <4>1. RouteAfterRerank(documents') \in {"end", "review", "generate", "decline"}
        BY DEF RouteAfterRerank
      <4> QED BY <2>2, <4>1 DEF Rerank
    <3>2. reply = "none" /\ UNCHANGED <<reply, verdict>> /\ sources' \in Seq(Passages)
      BY <2>2 DEF Rerank, Conversation, TypeOK
    <3> QED BY <3>1, <3>2 DEF Stream!Next, Stream!Show
  <2>3. CASE Generate
    <3>1. node = "generate" /\ node' = "verify" /\ reply' = "offered"
          /\ UNCHANGED <<sources, verdict>>
      BY <2>3 DEF Generate
    <3>2. reply = "none" /\ sources # <<>>
      BY <3>1 DEF Conversation
    <3> QED BY <3>1, <3>2 DEF Stream!Next, Stream!Offer
  <2>4. CASE Close
    <3>1. node = "end" /\ node' = "closed" /\ UNCHANGED sources
      BY <2>4 DEF Close
    <3>2. CASE reply = "offered"
      <4>1. UNCHANGED reply /\ verdict' \in {"grounded", "withdrawn"}
        BY <2>4, <3>2 DEF Close
      <4> QED BY <3>1, <3>2, <4>1 DEF Stream!Next, Stream!Judge
    <3>3. CASE reply # "offered"
      <4>1. reply = "none" /\ (mode # "search" => sources = <<>>)
        BY <3>1, <3>3 DEF Conversation
      <4>2. UNCHANGED verdict /\ reply' = IF mode = "search" THEN "passages" ELSE "declined"
        BY <2>4, <3>3 DEF Close
      <4> QED BY <3>1, <4>1, <4>2 DEF Stream!Next, Stream!Conclude
    <3> QED BY <3>2, <3>3
  <2>5. CASE Fail
    <3>1. node \notin {"closed", "failed"} /\ node' = "failed"
          /\ UNCHANGED <<sources, reply, verdict>>
      BY <2>5 DEF Fail, shown
    <3> QED BY <3>1 DEF Stream!Next, Stream!Break
  <2>6. CASE UNCHANGED vars
    BY <2>6 DEF vars, shown, Stream!vars
  <2> QED BY <2>1, <2>2, <2>3, <2>4, <2>5, <2>6 DEF Next
<1> QED BY <1>1, <1>2, TypeCorrect, ConversationInvariant, PTL
        DEF Spec, ImplementsStream, Stream!Spec

=============================================================================
