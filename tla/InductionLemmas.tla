--------------------------- MODULE InductionLemmas ---------------------------
(***************************************************************************)
(* Induction over data, for the proofs about the other modules.  The       *)
(* principle is stated of a set of numbers, never of an operator: the      *)
(* numbers below Least are those of which a fact holds.  With it come what *)
(* Sublist computes, for every list, and what a recursive sum computes.    *)
(***************************************************************************)
EXTENDS Sublists, SequenceTheorems, FiniteSetTheorems, WellFoundedInduction, TLAPS

\* Every set of numbers that is not empty has a least.
LEMMA LeastNumber ==
  ASSUME NEW T \in SUBSET Nat, T # {}
  PROVE  \E n \in T : \A m \in T : n <= m
<1> DEFINE R == OpToRel(<, Nat)
<1>1. IsWellFoundedOn(R, Nat)
  BY NatLessThanWellFounded
<1>2. PICK n \in T : \A m \in T : ~ (<<m, n>> \in R)
  <2> HIDE DEF R
  <2> QED BY <1>1, WFMin
<1>3. ASSUME NEW m \in T
      PROVE  n <= m
  <2>1. m \in Nat /\ n \in Nat
    OBVIOUS
  <2>2. m < n => <<m, n>> \in R
    BY <2>1, Zenon DEF OpToRel
  <2> HIDE DEF R
  <2> QED BY <1>2, <2>1, <2>2
<1> QED BY <1>3

\* A set of numbers with 0 that goes on from each of them to the next, up to N,
\* has all of them up to N.
LEMMA UpToN ==
  ASSUME NEW N \in Nat, NEW T, 0 \in T,
         \A n \in 0..N - 1 : n \in T => n + 1 \in T
  PROVE  0..N \subseteq T
<1> SUFFICES ASSUME (0..N) \ T # {}
             PROVE  FALSE
  OBVIOUS
<1>1. PICK n \in (0..N) \ T : \A m \in (0..N) \ T : n <= m
  <2> DEFINE U == (0..N) \ T
  <2>1. U \in SUBSET Nat /\ U # {}
    OBVIOUS
  <2> HIDE DEF U
  <2>2. \E n \in U : \A m \in U : n <= m
    BY <2>1, LeastNumber
  <2> QED BY <2>2 DEF U
<1>2. n - 1 \in 0..N - 1
  OBVIOUS
<1>3. n - 1 \in T
  BY <1>1, <1>2
<1> QED BY <1>1, <1>2, <1>3

-----------------------------------------------------------------------------
(* Recursive sums: of g[1], ..., g[k].                                     *)

IsSum(f, g, k) ==
  f \in [0..k -> Int] /\ f = [n \in 0..k |-> IF n = 0 THEN 0 ELSE f[n - 1] + g[n]]

\* A sum goes on.
LEMMA SumStep ==
  ASSUME NEW k \in Nat, NEW g, g[k + 1] \in Int, NEW f, IsSum(f, g, k)
  PROVE  \E h : IsSum(h, g, k + 1)
<1> DEFINE h == [n \in 0..k + 1 |-> IF n <= k THEN f[n] ELSE f[k] + g[k + 1]]
<1>1. \A n \in 0..k : f[n] \in Int /\ f[n] = IF n = 0 THEN 0 ELSE f[n - 1] + g[n]
  BY DEF IsSum
<1>2. h \in [0..k + 1 -> Int]
  BY <1>1
<1>3. ASSUME NEW n \in 0..k + 1
      PROVE  h[n] = IF n = 0 THEN 0 ELSE h[n - 1] + g[n]
  <2>1. CASE n <= k
    BY <1>1, <2>1
  <2>2. CASE n = k + 1
    BY <2>2
  <2> QED BY <2>1, <2>2
<1> HIDE DEF h
<1>4. h = [n \in 0..k + 1 |-> IF n = 0 THEN 0 ELSE h[n - 1] + g[n]]
  BY <1>2, <1>3
<1> QED BY <1>2, <1>4 DEF IsSum

\* Every sum exists.
LEMMA SumExists ==
  ASSUME NEW N \in Nat, NEW g, \A n \in 1..N : g[n] \in Int
  PROVE  \E f : IsSum(f, g, N)
<1> DEFINE T == {k \in Nat : \E f : IsSum(f, g, k)}
<1>1. 0 \in T
  <2> DEFINE f == [n \in 0..0 |-> 0]
  <2>1. IsSum(f, g, 0)
    BY DEF IsSum
  <2> QED BY <2>1
<1>2. ASSUME NEW k \in 0..N - 1, k \in T
      PROVE  k + 1 \in T
  <2>1. PICK f : IsSum(f, g, k)
    BY <1>2
  <2>2. k \in Nat /\ g[k + 1] \in Int
    OBVIOUS
  <2> QED BY <2>1, <2>2, SumStep
<1>3. N \in T
  <2> HIDE DEF T
  <2> QED BY <1>1, <1>2, UpToN
<1> QED BY <1>3

\* A recursive definition of a sum is one.
AddsUp(f, g, N) ==
  /\ f[0] = 0
  /\ \A n \in 1..N : f[n] = f[n - 1] + g[n]
  /\ \A n \in 0..N : f[n] \in Int

LEMMA SumDefined ==
  ASSUME NEW N \in Nat, NEW g, \A n \in 1..N : g[n] \in Int,
         NEW f, f = CHOOSE h : h = [n \in 0..N |-> IF n = 0 THEN 0 ELSE h[n - 1] + g[n]]
  PROVE  AddsUp(f, g, N)
<1>1. \E h : h = [n \in 0..N |-> IF n = 0 THEN 0 ELSE h[n - 1] + g[n]]
  <2>1. PICK h : IsSum(h, g, N)
    BY SumExists
  <2> QED BY <2>1 DEF IsSum
<1>2. f = [n \in 0..N |-> IF n = 0 THEN 0 ELSE f[n - 1] + g[n]]
  BY <1>1, Zenon
<1>3. \A n \in 0..N : f[n] = IF n = 0 THEN 0 ELSE f[n - 1] + g[n]
  BY <1>2
<1>4. f[0] = 0 /\ \A n \in 1..N : f[n] = f[n - 1] + g[n]
  BY <1>3
<1>5. 0..N \subseteq {n \in 0..N : f[n] \in Int}
  <2> DEFINE T == {n \in 0..N : f[n] \in Int}
  <2>1. 0 \in T
    BY <1>4
  <2>2. ASSUME NEW n \in 0..N - 1, n \in T
        PROVE  n + 1 \in T
    <3>1. n + 1 \in 1..N /\ (n + 1) - 1 = n
      OBVIOUS
    <3>2. f[n + 1] = f[n] + g[n + 1]
      BY <1>4, <3>1
    <3> QED BY <2>2, <3>1, <3>2
  <2> HIDE DEF T
  <2> QED BY <2>1, <2>2, UpToN DEF T
<1> QED BY <1>4, <1>5 DEF AddsUp

\* The sum of k numbers that are 0 or 1 tells whether all are 1, and whether all
\* are 0.
Tells(f, g, k) ==
  /\ f[k] \in 0..k
  /\ f[k] = k <=> \A n \in 1..k : g[n] = 1
  /\ f[k] = 0 <=> \A n \in 1..k : g[n] = 0

LEMMA ZeroOneSum ==
  ASSUME NEW N \in Nat, NEW g, \A n \in 1..N : g[n] \in {0, 1},
         NEW f, f = CHOOSE h : h = [n \in 0..N |-> IF n = 0 THEN 0 ELSE h[n - 1] + g[n]]
  PROVE  Tells(f, g, N)
<1> DEFINE T == {k \in 0..N : Tells(f, g, k)}
<1>1. f[0] = 0 /\ \A n \in 1..N : f[n] = f[n - 1] + g[n]
  <2>1. \A n \in 1..N : g[n] \in Int
    OBVIOUS
  <2>2. AddsUp(f, g, N)
    BY <2>1, SumDefined
  <2> QED BY <2>2 DEF AddsUp
<1>2. 0 \in T
  BY <1>1 DEF Tells
<1>3. ASSUME NEW k \in 0..N - 1, k \in T
      PROVE  k + 1 \in T
  <2>1. k + 1 \in 1..N /\ (k + 1) - 1 = k /\ 1..k + 1 = (1..k) \cup {k + 1}
    OBVIOUS
  <2>2. f[k + 1] = f[k] + g[k + 1] /\ g[k + 1] \in {0, 1}
    BY <1>1, <2>1
  <2>3. /\ f[k] \in 0..k
        /\ f[k] = k <=> \A n \in 1..k : g[n] = 1
        /\ f[k] = 0 <=> \A n \in 1..k : g[n] = 0
    BY <1>3 DEF Tells
  <2>4. f[k + 1] = k + 1 <=> f[k] = k /\ g[k + 1] = 1
    BY <2>2, <2>3
  <2>5. f[k + 1] = 0 <=> f[k] = 0 /\ g[k + 1] = 0
    BY <2>2, <2>3
  <2>6. \A v : (\A n \in 1..k + 1 : g[n] = v) <=> (\A n \in 1..k : g[n] = v) /\ g[k + 1] = v
    BY <2>1
  <2>7. f[k + 1] \in 0..k + 1
    BY <2>2, <2>3
  <2>8. Tells(f, g, k + 1)
    BY <2>3, <2>4, <2>5, <2>6, <2>7 DEF Tells
  <2> QED BY <2>1, <2>8
<1>4. 0..N \subseteq T
  <2> HIDE DEF T
  <2> QED BY <1>2, <1>3, UpToN
<1> QED BY <1>4

-----------------------------------------------------------------------------
(* Sublists: what is kept of the first i entries of a list.                *)

IsKept(f, s, S, k) ==
  f = [i \in 0..k |-> IF i = 0 THEN <<>>
                      ELSE IF s[i] \in S THEN Append(f[i - 1], s[i]) ELSE f[i - 1]]

\* It goes on with the next entry.
LEMMA KeptStep ==
  ASSUME NEW k \in Nat, NEW s, NEW S, NEW f, IsKept(f, s, S, k)
  PROVE  \E h : IsKept(h, s, S, k + 1)
<1> DEFINE next == IF s[k + 1] \in S THEN Append(f[k], s[k + 1]) ELSE f[k]
           h == [i \in 0..k + 1 |-> IF i <= k THEN f[i] ELSE next]
           Of(i) == IF i = 0 THEN <<>>
                    ELSE IF s[i] \in S THEN Append(h[i - 1], s[i]) ELSE h[i - 1]
<1>1. ASSUME NEW i \in 0..k
      PROVE  f[i] = IF i = 0 THEN <<>>
                    ELSE IF s[i] \in S THEN Append(f[i - 1], s[i]) ELSE f[i - 1]
  BY DEF IsKept
<1>2. ASSUME NEW i \in 0..k + 1
      PROVE  h[i] = Of(i)
  <2>1. CASE i <= k
    <3>1. h[i] = f[i] /\ (i # 0 => h[i - 1] = f[i - 1])
      BY <2>1
    <3> HIDE DEF h
    <3> QED BY <1>1, <2>1, <3>1
  <2>2. CASE i = k + 1
    <3>1. h[i] = next /\ h[i - 1] = f[k] /\ i # 0
      BY <2>2
    <3> HIDE DEF h
    <3> QED BY <2>2, <3>1
  <2> QED BY <2>1, <2>2
<1>3. h = [i \in 0..k + 1 |-> Of(i)]
  <2>1. h = [i \in 0..k + 1 |-> h[i]]
    OBVIOUS
  <2> HIDE DEF h, Of
  <2> QED BY <1>2, <2>1
<1> HIDE DEF h
<1> QED BY <1>3 DEF IsKept

\* Sublist's own recursion is defined.
LEMMA KeptExists ==
  ASSUME NEW N \in Nat, NEW s, NEW S
  PROVE  \E f : IsKept(f, s, S, N)
<1> DEFINE T == {k \in Nat : \E f : IsKept(f, s, S, k)}
<1>1. 0 \in T
  <2> DEFINE f == [i \in 0..0 |-> <<>>]
  <2>1. IsKept(f, s, S, 0)
    BY DEF IsKept
  <2> QED BY <2>1
<1>2. ASSUME NEW k \in 0..N - 1, k \in T
      PROVE  k + 1 \in T
  <2>1. PICK f : IsKept(f, s, S, k)
    BY <1>2
  <2>2. \E h : IsKept(h, s, S, k + 1)
    BY <2>1, KeptStep
  <2> QED BY <2>2
<1>3. N \in T
  <2> HIDE DEF T
  <2> QED BY <1>1, <1>2, UpToN
<1> QED BY <1>3

IsOneToOne(s) == \A i, j \in 1..Len(s) : s[i] = s[j] => i = j

\* What an entry added at the end does to a list and its members.
LEMMA AppendFacts ==
  ASSUME NEW X, NEW s \in Seq(X), NEW x \in X
  PROVE  /\ Append(s, x) \in Seq(X) /\ Len(Append(s, x)) = Len(s) + 1
         /\ Members(Append(s, x)) = Members(s) \cup {x}
         /\ IsOneToOne(s) /\ x \notin Members(s) => IsOneToOne(Append(s, x))
<1>1. /\ Append(s, x) \in Seq(X) /\ Len(Append(s, x)) = Len(s) + 1 /\ Len(s) \in Nat
      /\ \A i \in 1..Len(s) : Append(s, x)[i] = s[i]
      /\ Append(s, x)[Len(s) + 1] = x
  BY AppendProperties, LenProperties
<1> QED BY <1>1 DEF Members, IsOneToOne

\* What is kept of the first i entries: those in S, without repeating what did
\* not repeat, and fewer than i as soon as one is dropped.
KeptSoFar(f, s, S, X, i) ==
  /\ f[i] \in Seq(X) /\ Len(f[i]) <= i
  /\ Members(f[i]) = {s[j] : j \in 1..i} \cap S
  /\ (\E j \in 1..i : s[j] \notin S) => Len(f[i]) < i
  /\ (\A j \in 1..i : s[j] \in S) => Len(f[i]) = i
  /\ IsOneToOne(s) => IsOneToOne(f[i])

LEMMA KeptFacts ==
  ASSUME NEW X, NEW s \in Seq(X), NEW S, NEW f, IsKept(f, s, S, Len(s)),
         NEW i \in 0..Len(s) - 1, KeptSoFar(f, s, S, X, i)
  PROVE  KeptSoFar(f, s, S, X, i + 1)
<1>1. Len(s) \in Nat /\ i \in Nat /\ i + 1 \in 1..Len(s) /\ s[i + 1] \in X
  BY LenProperties
<1>2. f[i + 1] = IF s[i + 1] \in S THEN Append(f[i], s[i + 1]) ELSE f[i]
  <2>1. i + 1 \in 0..Len(s) /\ i + 1 # 0 /\ (i + 1) - 1 = i
    BY <1>1
  <2>2. f[i + 1] = IF s[i + 1] \in S THEN Append(f[(i + 1) - 1], s[i + 1]) ELSE f[(i + 1) - 1]
    BY <2>1 DEF IsKept
  <2> QED BY <2>1, <2>2
<1>3. f[i] \in Seq(X) /\ Len(f[i]) \in Nat
  BY LenProperties DEF KeptSoFar
<1>4. 1..i + 1 = (1..i) \cup {i + 1}
  BY <1>1
<1>5. {s[j] : j \in 1..i + 1} = {s[j] : j \in 1..i} \cup {s[i + 1]}
  BY <1>4
<1>6. CASE s[i + 1] \in S
  <2>1. /\ f[i + 1] \in Seq(X) /\ Len(f[i + 1]) = Len(f[i]) + 1
        /\ Members(f[i + 1]) = Members(f[i]) \cup {s[i + 1]}
        /\ IsOneToOne(f[i]) /\ s[i + 1] \notin Members(f[i]) => IsOneToOne(f[i + 1])
    BY <1>1, <1>2, <1>3, <1>6, AppendFacts
  <2>2. IsOneToOne(s) => s[i + 1] \notin Members(f[i])
    BY <1>1 DEF KeptSoFar, IsOneToOne
  <2> QED BY <1>1, <1>3, <1>4, <1>5, <1>6, <2>1, <2>2 DEF KeptSoFar
<1>7. CASE s[i + 1] \notin S
  BY <1>1, <1>2, <1>3, <1>4, <1>5, <1>7 DEF KeptSoFar
<1> QED BY <1>6, <1>7

\* The sublist of those in S: exactly they, and no longer than the list.
LEMMA SublistFacts ==
  ASSUME NEW X, NEW s \in Seq(X), NEW S
  PROVE  /\ Sublist(s, S) \in Seq(X)
         /\ Members(Sublist(s, S)) = Members(s) \cap S
         /\ Len(Sublist(s, S)) \in 0..Len(s)
         /\ ~(Members(s) \subseteq S) => Len(Sublist(s, S)) < Len(s)
         /\ Members(s) \subseteq S => Len(Sublist(s, S)) = Len(s)
         /\ IsOneToOne(s) => IsOneToOne(Sublist(s, S))
<1> DEFINE N == Len(s)
           f == CHOOSE h : IsKept(h, s, S, N)
           T == {i \in 0..N : KeptSoFar(f, s, S, X, i)}
<1>1. N \in Nat
  BY LenProperties
<1>2. IsKept(f, s, S, N)
  BY <1>1, KeptExists
<1>3. Sublist(s, S) = f[N]
  BY DEF Sublist, IsKept
<1> HIDE DEF f
<1>4. 0 \in T
  <2>1. f[0] = <<>>
    BY <1>1, <1>2 DEF IsKept
  <2>2. <<>> \in Seq(X) /\ Len(<<>>) = 0
    BY EmptySeq
  <2>3. Members(<<>>) = {} /\ IsOneToOne(<<>>) /\ 1..0 = {}
    BY <2>2 DEF Members, IsOneToOne
  <2>4. KeptSoFar(f, s, S, X, 0)
    BY <2>1, <2>2, <2>3 DEF KeptSoFar
  <2> QED BY <1>1, <2>4
<1>5. ASSUME NEW i \in 0..N - 1, i \in T
      PROVE  i + 1 \in T
  BY <1>1, <1>2, <1>5, KeptFacts
<1>6. N \in T
  <2> HIDE DEF T, N
  <2>1. 0..N \subseteq T
    BY <1>1, <1>4, <1>5, UpToN
  <2> QED BY <1>1, <2>1
<1>7. KeptSoFar(f, s, S, X, N)
  BY <1>6
<1>8. Len(f[N]) \in Nat
  BY <1>7, LenProperties DEF KeptSoFar
<1>9. {s[j] : j \in 1..N} = Members(s)
  BY DEF Members
<1>10. /\ f[N] \in Seq(X) /\ Members(f[N]) = Members(s) \cap S /\ Len(f[N]) \in 0..N
       /\ IsOneToOne(s) => IsOneToOne(f[N])
  BY <1>1, <1>7, <1>8, <1>9 DEF KeptSoFar
<1>11. /\ ~(Members(s) \subseteq S) => Len(f[N]) < N
       /\ Members(s) \subseteq S => Len(f[N]) = N
  BY <1>7 DEF KeptSoFar, Members
<1> QED BY <1>3, <1>10, <1>11


\* A list that does not repeat is as long as its members are many.
LEMMA OneToOneLength ==
  ASSUME NEW X, NEW s \in Seq(X), IsOneToOne(s)
  PROVE  IsFiniteSet(Members(s)) /\ Cardinality(Members(s)) = Len(s)
<1> DEFINE f == [i \in 1..Len(s) |-> s[i]]
<1>1. Len(s) \in Nat
  BY LenProperties
<1>2. f \in Bijection(1..Len(s), Members(s))
  BY DEF Bijection, Injection, Surjection, IsInjective, IsOneToOne, Members
<1>3. IsFiniteSet(1..Len(s)) /\ Cardinality(1..Len(s)) = Len(s)
  BY <1>1, FS_Interval
<1> QED BY <1>2, <1>3, FS_Bijection DEF ExistsBijection
=============================================================================
