----------------------------- MODULE FoldLemmas ------------------------------
(***************************************************************************)
(* What the recursive operators of the community modules compute, for      *)
(* every argument: SumFunctionOnSet over a finite set, FlattenSeq of a     *)
(* sequence of sequences, FoldLeft over the positions of a sequence.  Each *)
(* is a recursive function of its data, so each fact is an induction, by   *)
(* way of a least counterexample.                                          *)
(***************************************************************************)
EXTENDS SequencesExt, FiniteSetTheorems, SequenceTheorems, TLAPS

\* A set of natural numbers has a least one.
LEMMA LeastNumber ==
  ASSUME NEW T \in SUBSET Nat, T # {}
  PROVE  \E n \in T : \A k \in Nat : k < n => k \notin T
<1> DEFINE Less == {p \in Nat \X Nat : p[1] < p[2]}
<1>1. IsWellFoundedOn(Less, Nat)
  BY NatLessThanWellFounded, Zenon DEF OpToRel
<1>2. PICK n \in T : \A k \in T : <<k, n>> \notin Less
  BY <1>1, WFMin
<1>3. \A k, m \in Nat : k < m => <<k, m>> \in Less
  OBVIOUS
<1> QED
  BY <1>2, <1>3

\* A function on the first n positions is a sequence.
LEMMA TableIsSeq ==
  ASSUME NEW S, NEW n \in Nat, NEW f \in [1..n -> S]
  PROVE  f \in Seq(S) /\ Len(f) = n
<1>1. f \in Seq(S)
  OBVIOUS
<1>2. DOMAIN f = 1..n /\ DOMAIN f = 1..Len(f) /\ Len(f) \in Nat
  BY <1>1, LenProperties
<1> QED
  BY <1>1, <1>2

\* A concatenation, by its elements.
LEMMA JoinIs ==
  ASSUME NEW X, NEW s \in Seq(X), NEW t \in Seq(X), NEW u, u = s \o t
  PROVE  /\ u \in Seq(X) /\ Len(u) = Len(s) + Len(t)
         /\ \A i \in 1..(Len(s) + Len(t)) : u[i] = IF i <= Len(s) THEN s[i] ELSE t[i - Len(s)]
BY ConcatProperties

Regroups(a, b, c) == (a \o b) \o c = a \o (b \o c)

\* How a concatenation is grouped does not matter.
LEMMA Grouping ==
  ASSUME NEW X, NEW a \in Seq(X), NEW b \in Seq(X), NEW c \in Seq(X)
  PROVE  Regroups(a, b, c)
BY ConcatAssociative DEF Regroups

-----------------------------------------------------------------------------
(* The recursion is well founded.                                          *)

\* The recursion behind FoldFunctionOnSet, written out.
FirstOf(s) == CHOOSE x \in s : TRUE
RestOf(s) == s \ {FirstOf(s)}
SumStep(f, iter, s) == IF s = {} THEN 0 ELSE f[FirstOf(s)] + iter[RestOf(s)]

SmallSubsets(S, n) == {s \in SUBSET S : Cardinality(s) <= n}
IsSum(f, R, iter) == iter = [s \in R |-> SumStep(f, iter, s)]

\* Taking a member from a finite set leaves a set of one member fewer.
LEMMA RestSmaller ==
  ASSUME NEW S, IsFiniteSet(S), NEW s \in SUBSET S
  PROVE  /\ IsFiniteSet(s) /\ Cardinality(s) \in Nat
         /\ Cardinality(s) = 0 <=> s = {}
         /\ s # {} => /\ FirstOf(s) \in s /\ RestOf(s) \in SUBSET S
                      /\ Cardinality(RestOf(s)) = Cardinality(s) - 1
         /\ \A x \in s : s \ {x} \in SUBSET S /\ Cardinality(s \ {x}) = Cardinality(s) - 1
BY FS_Subset, FS_CardinalityType, FS_RemoveElement, FS_EmptySet DEF FirstOf, RestOf

\* Up to any size there is a function that satisfies the recursion.
LEMMA SumsExist ==
  ASSUME NEW S, IsFiniteSet(S), NEW f, NEW n \in Nat
  PROVE  \E iter : IsSum(f, SmallSubsets(S, n), iter)
<1> DEFINE T == {k \in Nat : ~ \E iter : IsSum(f, SmallSubsets(S, k), iter)}
<1> SUFFICES ASSUME T # {} PROVE FALSE
  OBVIOUS
<1>1. PICK k \in T : \A j \in Nat : j < k => j \notin T
  <2> HIDE DEF T
  <2>1. T \in SUBSET Nat
    BY DEF T
  <2> QED
    BY <2>1, LeastNumber
<1>2. CASE k = 0
  <2>1. \A s \in SmallSubsets(S, 0) : s = {}
    BY RestSmaller DEF SmallSubsets
  <2>2. \A s \in SmallSubsets(S, 0) : SumStep(f, [r \in SmallSubsets(S, 0) |-> 0], s) = 0
    BY <2>1 DEF SumStep
  <2>3. IsSum(f, SmallSubsets(S, 0), [s \in SmallSubsets(S, 0) |-> 0])
    BY <2>2 DEF IsSum
  <2> QED
    BY <1>2, <2>3, <1>1
<1>3. CASE k # 0
  <2>1. k - 1 \in Nat /\ k - 1 < k
    BY <1>3, <1>1
  <2>2. PICK g : IsSum(f, SmallSubsets(S, k - 1), g)
    BY <2>1, <1>1
  <2> DEFINE h == [s \in SmallSubsets(S, k) |-> SumStep(f, g, s)]
  <2>3. \A s \in SmallSubsets(S, k) : s # {} => RestOf(s) \in SmallSubsets(S, k - 1)
    BY RestSmaller, <2>1 DEF SmallSubsets
  <2>4. \A s \in SmallSubsets(S, k - 1) : s \in SmallSubsets(S, k) /\ g[s] = SumStep(f, g, s)
    BY <2>1, <2>2, RestSmaller DEF SmallSubsets, IsSum
  <2>6. \A s \in SmallSubsets(S, k - 1) : h[s] = g[s]
    BY <2>4
  <2>7. \A s \in SmallSubsets(S, k) : SumStep(f, g, s) = SumStep(f, h, s)
    BY <2>3, <2>6 DEF SumStep
  <2>8. IsSum(f, SmallSubsets(S, k), h)
    BY <2>7 DEF IsSum
  <2> QED
    BY <2>8, <1>1
<1> QED
  BY <1>2, <1>3

\* What the definition names is such a sum.
SumOf(f, S) == CHOOSE iter : IsSum(f, SUBSET S, iter)

\* The sum is its value at the whole set.
LEMMA SumIsSum ==
  ASSUME NEW S, IsFiniteSet(S), NEW f
  PROVE  /\ IsSum(f, SUBSET S, SumOf(f, S))
         /\ SumFunctionOnSet(f, S) = SumOf(f, S)[S]
<1>1. SumFunctionOnSet(f, S) = SumOf(f, S)[S]
  BY DEF SumFunctionOnSet, FoldFunctionOnSet, MapThenFoldSet, SumOf, IsSum, SumStep, FirstOf, RestOf
<1>2. SmallSubsets(S, Cardinality(S)) = SUBSET S
  BY FS_Subset DEF SmallSubsets
<1>3. Cardinality(S) \in Nat
  BY FS_CardinalityType
<1>4. \E iter : IsSum(f, SmallSubsets(S, Cardinality(S)), iter)
  BY <1>3, SumsExist
<1>5. \E iter : IsSum(f, SUBSET S, iter)
  BY <1>2, <1>4
<1> QED
  BY <1>1, <1>5 DEF SumOf

-----------------------------------------------------------------------------
(* A sum over a subset is what is left of it and any of its members.       *)

\* A sum of integers is one.
LEMMA SumTyped ==
  ASSUME NEW S, IsFiniteSet(S), NEW f \in [S -> Int], NEW g, IsSum(f, SUBSET S, g)
  PROVE  \A s \in SUBSET S : g[s] \in Int
<1> DEFINE T == {k \in Nat : \E s \in SUBSET S : Cardinality(s) = k /\ g[s] \notin Int}
<1> SUFFICES ASSUME T # {} PROVE FALSE
  BY RestSmaller
<1>1. PICK k \in T : \A j \in Nat : j < k => j \notin T
  <2> HIDE DEF T
  <2>1. T \in SUBSET Nat
    BY DEF T
  <2> QED
    BY <2>1, LeastNumber
<1>2. PICK s \in SUBSET S : Cardinality(s) = k /\ g[s] \notin Int
  BY <1>1
<1>3. g[s] = SumStep(f, g, s)
  BY DEF IsSum
<1>4. s # {} /\ FirstOf(s) \in S /\ RestOf(s) \in SUBSET S /\ Cardinality(RestOf(s)) = k - 1 /\ k - 1 \in Nat
  BY <1>1, <1>2, <1>3, RestSmaller DEF SumStep
<1>5. g[RestOf(s)] \in Int
  BY <1>1, <1>4
<1> QED
  BY <1>2, <1>3, <1>4, <1>5 DEF SumStep

\* Whichever member is taken first, the sum is the same.
LEMMA SumSplits ==
  ASSUME NEW S, IsFiniteSet(S), NEW f \in [S -> Int], NEW g, IsSum(f, SUBSET S, g),
         NEW whole \in SUBSET S, NEW part \in whole
  PROVE  g[whole] = f[part] + g[whole \ {part}]
<1> DEFINE Good(s) == \A x \in s : g[s] = f[x] + g[s \ {x}]
           T == {k \in Nat : \E s \in SUBSET S : Cardinality(s) = k /\ ~Good(s)}
<1> SUFFICES ASSUME T # {} PROVE FALSE
  <2>1. ASSUME T = {}, NEW s \in SUBSET S PROVE Good(s)
    BY <2>1, RestSmaller
  <2> QED
    BY <2>1
<1>1. PICK k \in T : \A j \in Nat : j < k => j \notin T
  <2> HIDE DEF T
  <2>1. T \in SUBSET Nat
    BY DEF T
  <2> QED
    BY <2>1, LeastNumber
<1>2. PICK s \in SUBSET S : Cardinality(s) = k /\ ~Good(s)
  BY <1>1
<1>3. \A r \in SUBSET S : Cardinality(r) = k - 1 => Good(r)
  <2>1. ASSUME NEW r \in SUBSET S, Cardinality(r) = k - 1 PROVE Good(r)
    <3>1. k - 1 \in Nat /\ k - 1 < k
      BY <1>1, <2>1, RestSmaller
    <3> QED
      BY <1>1, <2>1, <3>1
  <2> QED
    BY <2>1
<1>4. PICK x \in s : g[s] # f[x] + g[s \ {x}]
  BY <1>2
<1> DEFINE c == FirstOf(s)
           r == (s \ {c}) \ {x}
<1>5. /\ c \in s /\ s \ {c} \in SUBSET S /\ Cardinality(s \ {c}) = k - 1
      /\ s \ {x} \in SUBSET S /\ Cardinality(s \ {x}) = k - 1
  BY <1>2, <1>4, RestSmaller DEF RestOf
<1>6. g[s] = f[c] + g[s \ {c}]
  BY <1>5 DEF IsSum, SumStep, RestOf
<1>7. c # x /\ x \in s \ {c} /\ c \in s \ {x}
  BY <1>4, <1>5, <1>6
<1>8. Good(s \ {c}) /\ Good(s \ {x})
  BY <1>3, <1>5
<1> HIDE DEF c
<1>9. g[s \ {c}] = f[x] + g[r] /\ (s \ {x}) \ {c} = r /\ r \in SUBSET S
  BY <1>7, <1>8
<1>10. g[s \ {x}] = f[c] + g[r]
  BY <1>7, <1>8, <1>9
<1>11. f[c] \in Int /\ f[x] \in Int /\ g[r] \in Int
  BY <1>5, <1>9, SumTyped
<1> HIDE DEF r
<1> QED
  BY <1>4, <1>6, <1>9, <1>10, <1>11

-----------------------------------------------------------------------------
(* The facts to cite.                                                      *)

\* Two functions that agree on a set have one sum over it.
LEMMA SumSame ==
  ASSUME NEW S, IsFiniteSet(S), NEW f \in [S -> Int], NEW h \in [S -> Int],
         NEW R \in SUBSET S, \A x \in R : f[x] = h[x]
  PROVE  SumOf(f, S)[R] = SumOf(h, S)[R]
<1> DEFINE g == SumOf(f, S)
           e == SumOf(h, S)
           Good(s) == s \subseteq R => g[s] = e[s]
           T == {k \in Nat : \E s \in SUBSET S : Cardinality(s) = k /\ ~Good(s)}
<1>0. IsSum(f, SUBSET S, g) /\ IsSum(h, SUBSET S, e)
  BY SumIsSum
<1> HIDE DEF g, e
<1> SUFFICES ASSUME T # {} PROVE FALSE
  <2>1. ASSUME T = {}, NEW s \in SUBSET S PROVE Good(s)
    BY <2>1, RestSmaller
  <2> QED
    BY <2>1 DEF g, e
<1>1. PICK k \in T : \A j \in Nat : j < k => j \notin T
  <2> HIDE DEF T
  <2>1. T \in SUBSET Nat
    BY DEF T
  <2> QED
    BY <2>1, LeastNumber
<1>2. PICK s \in SUBSET S : Cardinality(s) = k /\ s \subseteq R /\ g[s] # e[s]
  BY <1>1
<1>3. g[s] = SumStep(f, g, s) /\ e[s] = SumStep(h, e, s)
  BY <1>0 DEF IsSum
<1>4. /\ s # {} /\ FirstOf(s) \in R /\ RestOf(s) \in SUBSET S /\ RestOf(s) \subseteq R
      /\ Cardinality(RestOf(s)) = k - 1 /\ Cardinality(RestOf(s)) \in Nat
  BY <1>2, <1>3, RestSmaller DEF SumStep, RestOf
<1>5. k - 1 \in Nat /\ k - 1 < k
  BY <1>1, <1>4
<1>6. g[RestOf(s)] = e[RestOf(s)]
  BY <1>1, <1>4, <1>5
<1> QED
  BY <1>2, <1>3, <1>4, <1>6 DEF SumStep

\* A sum over a set is what one member has and the sum over the others.
LEMMA SumTakes ==
  ASSUME NEW S, IsFiniteSet(S), NEW f \in [S -> Int], NEW x \in S
  PROVE  /\ SumFunctionOnSet(f, S) = f[x] + SumOf(f, S)[S \ {x}]
         /\ f[x] \in Int /\ SumOf(f, S)[S \ {x}] \in Int
<1> DEFINE F == SumOf(f, S)
<1>1. IsSum(f, SUBSET S, F) /\ SumFunctionOnSet(f, S) = F[S]
  BY SumIsSum
<1> HIDE DEF F
<1>2. F[S] = f[x] + F[S \ {x}]
  BY <1>1, SumSplits
<1>3. \A s \in SUBSET S : F[s] \in Int
  BY <1>1, SumTyped
<1>4. F[S] = f[x] + F[S \ {x}] /\ F[S \ {x}] \in Int /\ f[x] \in Int
  BY <1>2, <1>3
<1> QED
  BY <1>1, <1>4 DEF F

\* A sum whose function changes at one place changes by as much.
LEMMA SumChanges ==
  ASSUME NEW S, IsFiniteSet(S), NEW f \in [S -> Int], NEW h \in [S -> Int], NEW x \in S,
         \A y \in S \ {x} : h[y] = f[y]
  PROVE  SumFunctionOnSet(h, S) = SumFunctionOnSet(f, S) - f[x] + h[x]
<1>1. SumOf(f, S)[S \ {x}] = SumOf(h, S)[S \ {x}]
  BY SumSame
<1> DEFINE a == SumOf(f, S)[S \ {x}]
<1>2. SumFunctionOnSet(f, S) = f[x] + a /\ f[x] \in Int /\ a \in Int
  BY SumTakes
<1>3. SumFunctionOnSet(h, S) = h[x] + a /\ h[x] \in Int
  BY <1>1, SumTakes
<1> HIDE DEF a
<1> QED
  BY <1>2, <1>3

\* A sum of two functions is the sum of their sums; one that is nowhere above
\* another has no larger sum.
LEMMA SumOfTwo ==
  ASSUME NEW S, IsFiniteSet(S), NEW f \in [S -> Int], NEW h \in [S -> Int], NEW e \in [S -> Int],
         \A x \in S : e[x] <= f[x] + h[x]
  PROVE  SumFunctionOnSet(e, S) <= SumFunctionOnSet(f, S) + SumFunctionOnSet(h, S)
<1> DEFINE F == SumOf(f, S)
           H == SumOf(h, S)
           E == SumOf(e, S)
           Good(s) == E[s] <= F[s] + H[s]
           T == {k \in Nat : \E s \in SUBSET S : Cardinality(s) = k /\ ~Good(s)}
<1>1. IsSum(f, SUBSET S, F) /\ IsSum(h, SUBSET S, H) /\ IsSum(e, SUBSET S, E)
  BY SumIsSum
<1>2. /\ SumFunctionOnSet(e, S) = E[S] /\ SumFunctionOnSet(f, S) = F[S]
      /\ SumFunctionOnSet(h, S) = H[S]
  BY SumIsSum
<1> HIDE DEF F, H, E
<1> SUFFICES ASSUME T # {} PROVE FALSE
  <2>1. ASSUME T = {}, NEW s \in SUBSET S PROVE Good(s)
    BY <2>1, RestSmaller
  <2> QED
    BY <1>2, <2>1
<1>3. PICK k \in T : \A j \in Nat : j < k => j \notin T
  <2> HIDE DEF T
  <2>1. T \in SUBSET Nat
    BY DEF T
  <2> QED
    BY <2>1, LeastNumber
<1>4. PICK s \in SUBSET S : Cardinality(s) = k /\ ~Good(s)
  BY <1>3
<1>5. E[s] = SumStep(e, E, s) /\ F[s] = SumStep(f, F, s) /\ H[s] = SumStep(h, H, s)
  BY <1>1 DEF IsSum
<1>6. /\ s # {} /\ FirstOf(s) \in S /\ RestOf(s) \in SUBSET S
      /\ Cardinality(RestOf(s)) = k - 1 /\ Cardinality(RestOf(s)) \in Nat
  BY <1>4, <1>5, RestSmaller DEF SumStep, RestOf
<1>7. k - 1 \in Nat /\ k - 1 < k
  BY <1>3, <1>6
<1>8. E[RestOf(s)] <= F[RestOf(s)] + H[RestOf(s)]
  BY <1>3, <1>6, <1>7
<1>9. E[RestOf(s)] \in Int /\ F[RestOf(s)] \in Int /\ H[RestOf(s)] \in Int
  <2>1. E[RestOf(s)] \in Int
    BY <1>1, <1>6, SumTyped
  <2>2. F[RestOf(s)] \in Int
    BY <1>1, <1>6, SumTyped
  <2>3. H[RestOf(s)] \in Int
    BY <1>1, <1>6, SumTyped
  <2> QED
    BY <2>1, <2>2, <2>3
<1> QED
  BY <1>4, <1>5, <1>6, <1>8, <1>9 DEF SumStep

\* A sum of nothing but zeros is zero.
LEMMA SumOfZeros ==
  ASSUME NEW S, IsFiniteSet(S), NEW f \in [S -> Int], \A x \in S : f[x] = 0
  PROVE  SumFunctionOnSet(f, S) = 0
<1> DEFINE F == SumOf(f, S)
           T == {k \in Nat : \E s \in SUBSET S : Cardinality(s) = k /\ F[s] # 0}
<1>1. IsSum(f, SUBSET S, F) /\ SumFunctionOnSet(f, S) = F[S]
  BY SumIsSum
<1> HIDE DEF F
<1> SUFFICES ASSUME T # {} PROVE FALSE
  <2>1. ASSUME T = {}, NEW s \in SUBSET S PROVE F[s] = 0
    BY <2>1, RestSmaller
  <2> QED
    BY <1>1, <2>1
<1>2. PICK k \in T : \A j \in Nat : j < k => j \notin T
  <2> HIDE DEF T
  <2>1. T \in SUBSET Nat
    BY DEF T
  <2> QED
    BY <2>1, LeastNumber
<1>3. PICK s \in SUBSET S : Cardinality(s) = k /\ F[s] # 0
  BY <1>2
<1>4. F[s] = SumStep(f, F, s)
  BY <1>1 DEF IsSum
<1>5. /\ s # {} /\ FirstOf(s) \in S /\ RestOf(s) \in SUBSET S
      /\ Cardinality(RestOf(s)) = k - 1 /\ Cardinality(RestOf(s)) \in Nat
  BY <1>3, <1>4, RestSmaller DEF SumStep, RestOf
<1>6. k - 1 \in Nat /\ k - 1 < k
  BY <1>2, <1>5
<1> QED
  BY <1>2, <1>3, <1>4, <1>5, <1>6 DEF SumStep

\* A sum of natural numbers is one, and at least each of them.
LEMMA SumOfNaturals ==
  ASSUME NEW S, IsFiniteSet(S), NEW f \in [S -> Nat]
  PROVE  SumFunctionOnSet(f, S) \in Nat /\ \A x \in S : f[x] <= SumFunctionOnSet(f, S)
<1> DEFINE F == SumOf(f, S)
           T == {k \in Nat : \E s \in SUBSET S : Cardinality(s) = k /\ ~(F[s] >= 0)}
<1>0. f \in [S -> Int]
  OBVIOUS
<1>1. IsSum(f, SUBSET S, F) /\ SumFunctionOnSet(f, S) = F[S]
  BY SumIsSum
<1>2. \A s \in SUBSET S : F[s] >= 0
  <2> HIDE DEF F
  <2> SUFFICES ASSUME T # {} PROVE FALSE
    <3>1. ASSUME T = {}, NEW s \in SUBSET S PROVE F[s] >= 0
      BY <3>1, RestSmaller
    <3> QED
      BY <3>1
  <2>1. PICK k \in T : \A j \in Nat : j < k => j \notin T
    <3> HIDE DEF T
    <3>1. T \in SUBSET Nat
      BY DEF T
    <3> QED
      BY <3>1, LeastNumber
  <2>2. PICK s \in SUBSET S : Cardinality(s) = k /\ ~(F[s] >= 0)
    BY <2>1
  <2>3. F[s] = SumStep(f, F, s)
    BY <1>1 DEF IsSum
  <2>4. /\ s # {} /\ FirstOf(s) \in S /\ RestOf(s) \in SUBSET S
        /\ Cardinality(RestOf(s)) = k - 1 /\ Cardinality(RestOf(s)) \in Nat
    BY <2>2, <2>3, RestSmaller DEF SumStep, RestOf
  <2>5. k - 1 \in Nat /\ k - 1 < k
    BY <2>1, <2>4
  <2>6. F[RestOf(s)] >= 0
    BY <2>1, <2>4, <2>5
  <2>7. F[RestOf(s)] \in Int
    BY <1>0, <1>1, <2>4, SumTyped
  <2> QED
    BY <2>2, <2>3, <2>4, <2>6, <2>7 DEF SumStep
<1>3. ASSUME NEW x \in S PROVE F[S] = f[x] + F[S \ {x}] /\ F[S \ {x}] \in Int /\ F[S \ {x}] >= 0
  BY <1>0, <1>1, <1>2, SumTakes
<1>4. F[S] \in Int /\ F[S] >= 0
  BY <1>0, <1>1, <1>2, SumTyped
<1> HIDE DEF F
<1>5. ASSUME NEW x \in S PROVE f[x] <= F[S]
  <2>1. F[S] = f[x] + F[S \ {x}] /\ F[S \ {x}] \in Int /\ F[S \ {x}] >= 0
    BY <1>3
  <2> DEFINE rest == F[S \ {x}]
  <2>2. F[S] = f[x] + rest /\ rest \in Int /\ rest >= 0 /\ f[x] \in Int
    BY <2>1
  <2> HIDE DEF rest
  <2> QED
    BY <2>2
<1> QED
  BY <1>1, <1>4, <1>5

-----------------------------------------------------------------------------
(* Concatenated sequences (FlattenSeq), and how they begin.                *)

\* The partial concatenations FlattenSeq is defined by.
Concatenated(parts, flat, i) == IF i = 1 THEN parts[i] ELSE flat[i - 1] \o parts[i]
IsFlat(parts, n, flat) == flat = [i \in 1..n |-> Concatenated(parts, flat, i)]
FlatOf(parts) == CHOOSE flat : IsFlat(parts, Len(parts), flat)

\* The first k parts, one behind the other.
Upto(parts, k) == IF k = 0 THEN <<>> ELSE FlatOf(parts)[k]

\* They exist: each is made of the one before.
LEMMA FlatsExist ==
  ASSUME NEW parts, NEW n \in Nat
  PROVE  \E flat : IsFlat(parts, n, flat)
<1> DEFINE T == {k \in Nat : ~ \E flat : IsFlat(parts, k, flat)}
<1> SUFFICES ASSUME T # {} PROVE FALSE
  OBVIOUS
<1>1. PICK k \in T : \A j \in Nat : j < k => j \notin T
  <2> HIDE DEF T
  <2>1. T \in SUBSET Nat
    BY DEF T
  <2> QED
    BY <2>1, LeastNumber
<1>2. k \in Nat
  OBVIOUS
<1>3. CASE k = 0
  <2> DEFINE f == [i \in 1..0 |-> 0]
  <2>1. 1..0 = {}
    OBVIOUS
  <2>2. IsFlat(parts, 0, f)
    BY <2>1, Zenon DEF IsFlat
  <2> QED
    BY <1>1, <1>3, <2>2
<1>4. CASE k # 0
  <2>1. k - 1 \in Nat /\ k - 1 < k
    BY <1>2, <1>4
  <2>2. PICK g : IsFlat(parts, k - 1, g)
    BY <1>1, <2>1
  <2> DEFINE h == [i \in 1..k |-> Concatenated(parts, g, i)]
  <2>3. \A i \in 1..(k - 1) : g[i] = Concatenated(parts, g, i)
    BY <2>2, Zenon DEF IsFlat
  <2>4. 1..(k - 1) \subseteq 1..k
    BY <1>2
  <2>5. \A i \in 1..(k - 1) : g[i] = h[i]
    <3> HIDE DEF Concatenated
    <3> QED
      BY <2>3, <2>4, Zenon
  <2>6. \A i \in 1..k : i # 1 => i - 1 \in 1..(k - 1)
    BY <1>2
  <2> HIDE DEF h
  <2>7. \A i \in 1..k : Concatenated(parts, g, i) = Concatenated(parts, h, i)
    <3> SUFFICES ASSUME NEW i \in 1..k PROVE Concatenated(parts, g, i) = Concatenated(parts, h, i)
      OBVIOUS
    <3>1. CASE i = 1
      BY <3>1, Zenon DEF Concatenated
    <3>2. CASE i # 1
      <4>1. g[i - 1] = h[i - 1]
        BY <2>5, <2>6, <3>2, Zenon
      <4> QED
        BY <3>2, <4>1, Zenon DEF Concatenated
    <3> QED
      BY <3>1, <3>2
  <2>8. IsFlat(parts, k, h)
    BY <2>7, Zenon DEF IsFlat, h
  <2> QED
    BY <1>1, <2>8
<1> QED
  BY <1>3, <1>4

\* FlatOf is what it was chosen to be.
LEMMA FlatIsFlat ==
  ASSUME NEW parts, Len(parts) \in Nat
  PROVE  IsFlat(parts, Len(parts), FlatOf(parts))
<1>1. \E flat : IsFlat(parts, Len(parts), flat)
  BY FlatsExist
<1> QED
  BY <1>1, Zenon DEF FlatOf

\* Each partial concatenation is the one before and a part.
LEMMA UptoStep ==
  ASSUME NEW X, NEW parts \in Seq(Seq(X)), NEW k \in 0..(Len(parts) - 1), Upto(parts, k) \in Seq(X)
  PROVE  /\ Upto(parts, k + 1) = Upto(parts, k) \o parts[k + 1]
         /\ parts[k + 1] \in Seq(X)
<1> DEFINE n == Len(parts)
           f == FlatOf(parts)
<1>1. n \in Nat
  OBVIOUS
<1>2. k + 1 \in 1..n /\ k + 1 # 0 /\ k \in Nat
  BY <1>1
<1>3. parts[k + 1] \in Seq(X)
  BY <1>2
<1>4. IsFlat(parts, n, f)
  BY <1>1, FlatIsFlat
<1> HIDE DEF n, f
<1>5. f[k + 1] = Concatenated(parts, f, k + 1)
  BY <1>2, <1>4, Zenon DEF IsFlat
<1>6. Upto(parts, k + 1) = f[k + 1]
  BY <1>2, Zenon DEF Upto, f
<1>7. CASE k = 0
  <2>1. k + 1 = 1 /\ Upto(parts, k) = <<>>
    BY <1>7 DEF Upto
  <2>2. Upto(parts, k + 1) = parts[k + 1]
    BY <1>5, <1>6, <2>1, Zenon DEF Concatenated
  <2>3. <<>> \o parts[k + 1] = parts[k + 1]
    BY <1>3, ConcatEmptySeq
  <2> QED
    BY <1>3, <2>1, <2>2, <2>3
<1>8. CASE k # 0
  <2>1. k + 1 # 1 /\ (k + 1) - 1 = k
    BY <1>2, <1>8
  <2>2. Upto(parts, k) = f[k]
    BY <1>8, Zenon DEF Upto, f
  <2>3. Concatenated(parts, f, k + 1) = f[(k + 1) - 1] \o parts[k + 1]
    BY <2>1, Zenon DEF Concatenated
  <2>4. Concatenated(parts, f, k + 1) = f[k] \o parts[k + 1]
    BY <2>1, <2>3, Zenon
  <2> QED
    BY <1>3, <1>5, <1>6, <2>2, <2>4, Zenon
<1> QED
  BY <1>7, <1>8

\* Each is a sequence.
LEMMA UptoTyped ==
  ASSUME NEW X, NEW parts \in Seq(Seq(X)), NEW k \in 0..Len(parts)
  PROVE  Upto(parts, k) \in Seq(X)
<1> DEFINE T == {i \in Nat : i <= Len(parts) /\ Upto(parts, i) \notin Seq(X)}
<1>1. Len(parts) \in Nat /\ Upto(parts, 0) \in Seq(X)
  BY DEF Upto
<1>2. T = {}
  <2> SUFFICES ASSUME T # {} PROVE FALSE
    OBVIOUS
  <2>1. PICK i \in T : \A j \in Nat : j < i => j \notin T
    <3> HIDE DEF T
    <3>1. T \in SUBSET Nat
      BY DEF T
    <3> QED
      BY <3>1, LeastNumber
  <2>2. i \in Nat /\ i <= Len(parts) /\ Upto(parts, i) \notin Seq(X) /\ i # 0
    BY <1>1
  <2> DEFINE j == i - 1
  <2>3. j \in 0..(Len(parts) - 1) /\ j \in Nat /\ j < i /\ j <= Len(parts) /\ j + 1 = i
    BY <1>1, <2>2
  <2> HIDE DEF j
  <2>4. Upto(parts, j) \in Seq(X)
    BY <2>1, <2>3
  <2>5. Upto(parts, j + 1) = Upto(parts, j) \o parts[j + 1] /\ parts[j + 1] \in Seq(X)
    BY <2>3, <2>4, UptoStep
  <2>6. Upto(parts, j) \o parts[j + 1] \in Seq(X)
    BY <2>4, <2>5, ConcatProperties
  <2> QED
    BY <2>2, <2>3, <2>5, <2>6
<1>3. k \in Nat /\ k <= Len(parts)
  BY <1>1
<1> QED
  BY <1>2, <1>3

\* One sequence is a prefix of another that has more behind it.
Begins(X, s, t) == \E u \in Seq(X) : t = s \o u

\* A beginning of a beginning is a beginning.
LEMMA BeginsTransitive ==
  ASSUME NEW X, NEW s \in Seq(X), NEW t \in Seq(X), NEW r, Begins(X, s, t), Begins(X, t, r)
  PROVE  Begins(X, s, r)
<1>1. PICK u \in Seq(X) : t = s \o u
  BY DEF Begins
<1>2. PICK v \in Seq(X) : r = t \o v
  BY DEF Begins
<1>3. r = s \o (u \o v)
  BY <1>1, <1>2, ConcatAssociative
<1>4. u \o v \in Seq(X)
  BY ConcatProperties
<1> QED
  BY <1>3, <1>4 DEF Begins

\* A sequence is a beginning of itself.
LEMMA BeginsReflexive ==
  ASSUME NEW X, NEW s \in Seq(X)
  PROVE  Begins(X, s, s) /\ Begins(X, <<>>, s)
<1>1. s = s \o <<>> /\ s = <<>> \o s /\ <<>> \in Seq(X)
  BY ConcatEmptySeq
<1> QED
  BY <1>1 DEF Begins

\* Such a prefix is one by its elements.
LEMMA BeginsIsPrefix ==
  ASSUME NEW X, NEW s \in Seq(X), NEW t \in Seq(X), Begins(X, s, t)
  PROVE  Len(s) <= Len(t) /\ SubSeq(s, 1, Len(s)) = SubSeq(t, 1, Len(s)) /\ SubSeq(t, 1, Len(s)) = s
<1>1. PICK u \in Seq(X) : t = s \o u
  BY DEF Begins
<1>2. Len(t) = Len(s) + Len(u) /\ Len(s) \in Nat /\ Len(u) \in Nat
  BY <1>1, ConcatProperties
<1>3. SubSeq(s, 1, Len(s)) = s
  BY SubSeqFull
<1>4. SubSeq(t, 1, Len(s)) = s
  <2>1. CASE Len(s) = 0
    BY <2>1, SubSeqEmpty
  <2>2. CASE Len(s) # 0
    <3>1. 1 \in 1..Len(s) /\ Len(s) \in 1..Len(s)
      BY <1>2, <2>2
    <3> QED
      BY <1>1, <1>3, <3>1, SubSeqOfConcat1
  <2> QED
    BY <2>1, <2>2
<1> QED
  BY <1>2, <1>3, <1>4

\* Fewer parts are a prefix of more.
LEMMA UptoGrows ==
  ASSUME NEW X, NEW parts \in Seq(Seq(X)), NEW k \in 0..Len(parts), NEW m \in k..Len(parts)
  PROVE  Begins(X, Upto(parts, k), Upto(parts, m))
<1> DEFINE T == {i \in Nat : k <= i /\ i <= Len(parts) /\ ~Begins(X, Upto(parts, k), Upto(parts, i))}
<1>1. Len(parts) \in Nat /\ k \in Nat /\ m \in Nat /\ k <= m /\ m <= Len(parts)
  OBVIOUS
<1>2. T = {}
  <2> SUFFICES ASSUME T # {} PROVE FALSE
    OBVIOUS
  <2>1. PICK i \in T : \A j \in Nat : j < i => j \notin T
    <3> HIDE DEF T
    <3>1. T \in SUBSET Nat
      BY DEF T
    <3> QED
      BY <3>1, LeastNumber
  <2>2. i \in Nat /\ k <= i /\ i <= Len(parts) /\ ~Begins(X, Upto(parts, k), Upto(parts, i))
    OBVIOUS
  <2>3. i # k
    <3>1. Upto(parts, k) \in Seq(X)
      BY UptoTyped
    <3> QED
      BY <2>2, <3>1, BeginsReflexive
  <2> DEFINE j == i - 1
  <2>4. /\ j \in 0..(Len(parts) - 1) /\ j \in 0..Len(parts) /\ j \in Nat /\ j < i
        /\ k <= j /\ j <= Len(parts) /\ j + 1 = i
    BY <1>1, <2>2, <2>3
  <2> HIDE DEF j
  <2>5. Begins(X, Upto(parts, k), Upto(parts, j))
    BY <2>1, <2>4
  <2>6. Upto(parts, k) \in Seq(X) /\ Upto(parts, j) \in Seq(X)
    BY <2>4, UptoTyped
  <2>7. Upto(parts, j + 1) = Upto(parts, j) \o parts[j + 1] /\ parts[j + 1] \in Seq(X)
    BY <2>4, <2>6, UptoStep
  <2>8. Begins(X, Upto(parts, j), Upto(parts, i))
    BY <2>4, <2>7 DEF Begins
  <2> QED
    BY <2>2, <2>5, <2>6, <2>8, BeginsTransitive
<1> QED
  BY <1>1, <1>2

\* All of them are what FlattenSeq makes.
LEMMA UptoAll ==
  ASSUME NEW X, NEW parts \in Seq(Seq(X))
  PROVE  FlattenSeq(parts) = Upto(parts, Len(parts))
<1>1. CASE Len(parts) = 0
  <2>1. parts = <<>>
    BY <1>1, EmptySeq
  <2> QED
    BY <1>1, <2>1 DEF FlattenSeq, Upto
<1>2. CASE Len(parts) # 0
  BY <1>2 DEF FlattenSeq, Upto, FlatOf, IsFlat, Concatenated
<1> QED
  BY <1>1, <1>2

\* A sequence read from its front, one stretch after the other.
LEMMA StretchesJoin ==
  ASSUME NEW X, NEW s \in Seq(X), NEW m \in Nat, NEW w \in Nat, m + w <= Len(s)
  PROVE  /\ SubSeq(s, 1, m) \o SubSeq(s, m + 1, m + w) = SubSeq(s, 1, m + w)
         /\ SubSeq(s, 1, m) \in Seq(X) /\ Len(SubSeq(s, 1, m)) = m
         /\ SubSeq(s, m + 1, m + w) \in Seq(X)
         /\ Begins(X, SubSeq(s, 1, m), s)
<1>1. Len(s) \in Nat /\ \A i \in 1..Len(s) : s[i] \in X
  OBVIOUS
<1>2. 1 \in 1..(Len(s) + 1) /\ m \in (1 - 1)..Len(s) /\ m + w \in m..Len(s)
  BY <1>1
<1>3. SubSeq(s, 1, m) \o SubSeq(s, m + 1, m + w) = SubSeq(s, 1, m + w)
  BY <1>2, ConcatAdjacentSubSeq
<1>4. SubSeq(s, 1, m) \in Seq(X) /\ Len(SubSeq(s, 1, m)) = m
  <2>1. \A i \in 1..m : s[i] \in X
    BY <1>1, <1>2
  <2> QED
    BY <2>1, SubSeqProperties
<1>5. SubSeq(s, m + 1, m + w) \in Seq(X)
  <2>1. \A i \in (m + 1)..(m + w) : s[i] \in X
    BY <1>1
  <2> QED
    BY <2>1, SubSeqProperties
<1>6. Begins(X, SubSeq(s, 1, m), s)
  <2>1. Len(s) \in m..Len(s) /\ m + 1 \in Int
    BY <1>1, <1>2
  <2>2. SubSeq(s, 1, m) \o SubSeq(s, m + 1, Len(s)) = SubSeq(s, 1, Len(s))
    BY <1>2, <2>1, ConcatAdjacentSubSeq
  <2>3. SubSeq(s, 1, Len(s)) = s
    BY SubSeqFull
  <2>4. SubSeq(s, m + 1, Len(s)) \in Seq(X)
    <3>1. \A i \in (m + 1)..Len(s) : s[i] \in X
      BY <1>1
    <3> QED
      BY <1>1, <3>1, SubSeqProperties
  <2> QED
    BY <2>2, <2>3, <2>4 DEF Begins
<1> QED
  BY <1>3, <1>4, <1>5, <1>6

\* The same behind another sequence.
LEMMA StretchesJoinBehind ==
  ASSUME NEW X, NEW before \in Seq(X), NEW s \in Seq(X), NEW m \in Nat, NEW w \in Nat,
         m + w <= Len(s)
  PROVE  /\ (before \o SubSeq(s, 1, m)) \o SubSeq(s, m + 1, m + w) = before \o SubSeq(s, 1, m + w)
         /\ before \o SubSeq(s, 1, m) \in Seq(X)
         /\ SubSeq(s, m + 1, m + w) \in Seq(X) /\ Len(SubSeq(s, m + 1, m + w)) = w
         /\ Begins(X, before \o SubSeq(s, 1, m), before \o s)
<1>1. PICK a : a = SubSeq(s, 1, m)
  OBVIOUS
<1>2. PICK b : b = SubSeq(s, m + 1, m + w)
  OBVIOUS
<1>3. a \in Seq(X) /\ b \in Seq(X) /\ a \o b = SubSeq(s, 1, m + w) /\ Begins(X, a, s)
  BY <1>1, <1>2, StretchesJoin
<1>4. (before \o a) \o b = before \o (a \o b)
  <2>1. a \in Seq(X) /\ b \in Seq(X)
    BY <1>3
  <2> QED
    BY <2>1, ConcatAssociative
<1>5. before \o a \in Seq(X)
  BY <1>3, ConcatProperties
<1>6. Len(b) = w
  <2>1. \A i \in (m + 1)..(m + w) : s[i] \in X
    OBVIOUS
  <2>2. Len(b) = IF m + 1 <= m + w THEN (m + w) - (m + 1) + 1 ELSE 0
    BY <1>2, <2>1, SubSeqProperties
  <2> QED
    BY <2>2
<1>7. Begins(X, before \o a, before \o s)
  <2>1. PICK u \in Seq(X) : s = a \o u
    BY <1>3 DEF Begins
  <2>2. (before \o a) \o u = before \o (a \o u)
    <3>1. a \in Seq(X)
      BY <1>3
    <3> QED
      BY <3>1, ConcatAssociative
  <2> QED
    BY <2>1, <2>2 DEF Begins
<1> QED
  BY <1>1, <1>2, <1>3, <1>4, <1>5, <1>6, <1>7

-----------------------------------------------------------------------------
(* Folds over the positions of a sequence, from the left (FoldLeft): a     *)
(* recursion over sets of positions that takes the last one first.         *)

FoldStep(base, op, iter, s) == IF s = {} THEN base ELSE op[<<iter[s \ {Max(s)}], Max(s)>>]
IsFold(base, op, R, iter) == iter = [s \in R |-> FoldStep(base, op, iter, s)]

\* A set of positions has a last one.
LEMMA LastPosition ==
  ASSUME NEW n \in Nat, NEW s \in SUBSET (1..n), s # {}
  PROVE  Max(s) \in s /\ \A i \in s : i <= Max(s)
<1> DEFINE T == {k \in Nat : \E i \in s : i + k = n}
<1>1. T \in SUBSET Nat /\ T # {}
  <2>1. PICK i \in s : TRUE
    OBVIOUS
  <2>2. n - i \in Nat /\ i + (n - i) = n
    BY <2>1
  <2> QED
    BY <2>1, <2>2
<1> HIDE DEF T
<1>2. PICK k \in T : \A j \in Nat : j < k => j \notin T
  BY <1>1, LeastNumber
<1>3. PICK i \in s : i + k = n
  BY <1>2 DEF T
<1>4. \A j \in s : i >= j
  <2> SUFFICES ASSUME NEW j \in s, ~(i >= j) PROVE FALSE
    OBVIOUS
  <2>1. i \in Nat /\ j \in Nat /\ j <= n /\ k \in Nat
    BY <1>1
  <2>2. n - j \in Nat /\ n - j < k /\ j + (n - j) = n
    BY <1>3, <2>1
  <2>3. n - j \in T
    BY <2>2 DEF T
  <2> QED
    BY <1>2, <2>2, <2>3
<1>5. \E x \in s : \A y \in s : x >= y
  BY <1>4
<1>6. Max(s) \in s /\ \A y \in s : Max(s) >= y
  BY <1>5 DEF Max
<1> QED
  BY <1>6

\* The last of the first k + 1 positions.
LEMMA LastOfFirst ==
  ASSUME NEW k \in Nat
  PROVE  /\ 1..(k + 1) # {} /\ Max(1..(k + 1)) = k + 1 /\ (1..(k + 1)) \ {k + 1} = 1..k
         /\ 1..0 = {}
<1>1. Max(1..(k + 1)) \in 1..(k + 1) /\ \A i \in 1..(k + 1) : i <= Max(1..(k + 1))
  <2>1. k + 1 \in Nat /\ 1..(k + 1) \in SUBSET (1..(k + 1)) /\ 1..(k + 1) # {}
    OBVIOUS
  <2> QED
    BY <2>1, LastPosition
<1>2. k + 1 <= Max(1..(k + 1))
  BY <1>1
<1> QED
  BY <1>1, <1>2

\* Some positions without the last are fewer.
LEMMA FewerPositions ==
  ASSUME NEW n \in Nat, NEW s \in SUBSET (1..n)
  PROVE  /\ Cardinality(s) \in Nat /\ (Cardinality(s) = 0 <=> s = {})
         /\ s # {} => /\ Max(s) \in 1..n /\ s \ {Max(s)} \in SUBSET (1..n)
                      /\ Cardinality(s \ {Max(s)}) = Cardinality(s) - 1
<1>1. IsFiniteSet(1..n)
  BY FS_Interval
<1> QED
  BY <1>1, RestSmaller, LastPosition

\* A fold with a typed step exists.
LEMMA FoldsExist ==
  ASSUME NEW n \in Nat, NEW X, NEW base \in X, NEW op \in [X \X (1..n) -> X]
  PROVE  \E iter : IsFold(base, op, SUBSET (1..n), iter)
<1> DEFINE R(k) == SmallSubsets(1..n, k)
           Typed(k) == \E iter : IsFold(base, op, R(k), iter)
           T == {k \in Nat : ~Typed(k)}
<1>a. \A s \in SUBSET (1..n) :
        /\ Cardinality(s) \in Nat /\ (Cardinality(s) = 0 <=> s = {})
        /\ s # {} => /\ Max(s) \in 1..n /\ s \ {Max(s)} \in SUBSET (1..n)
                     /\ Cardinality(s \ {Max(s)}) = Cardinality(s) - 1
  BY FewerPositions
<1>b. \A k \in Nat : R(k) = {s \in SUBSET (1..n) : Cardinality(s) <= k}
  BY DEF SmallSubsets
<1>1. T = {}
  <2> HIDE DEF R
  <2> SUFFICES ASSUME T # {} PROVE FALSE
    OBVIOUS
  <2>1. PICK k \in T : \A j \in Nat : j < k => j \notin T
    <3> HIDE DEF T
    <3>1. T \in SUBSET Nat
      BY DEF T
    <3> QED
      BY <3>1, LeastNumber
  <2>2. CASE k = 0
    <3>1. \A s \in R(0) : s = {}
      <4>1. R(0) = {s \in SUBSET (1..n) : Cardinality(s) <= 0}
        BY <1>b
      <4>2. \A s \in SUBSET (1..n) : Cardinality(s) <= 0 => s = {}
        <5> SUFFICES ASSUME NEW s \in SUBSET (1..n), Cardinality(s) <= 0 PROVE s = {}
          OBVIOUS
        <5>1. Cardinality(s) \in Nat /\ (Cardinality(s) = 0 <=> s = {})
          BY <1>a
        <5> QED
          BY <5>1
      <4> QED
        BY <4>1, <4>2
    <3> DEFINE h == [s \in R(0) |-> base]
    <3>2. \A s \in R(0) : FoldStep(base, op, h, s) = base
      BY <3>1 DEF FoldStep
    <3>3. IsFold(base, op, R(0), h)
      BY <3>2 DEF IsFold
    <3> QED
      BY <2>1, <2>2, <3>3
  <2>3. CASE k # 0
    <3>1. k - 1 \in Nat /\ k - 1 < k
      BY <2>1, <2>3
    <3>2. PICK g : IsFold(base, op, R(k - 1), g)
      BY <2>1, <3>1
    <3> DEFINE h == [s \in R(k) |-> FoldStep(base, op, g, s)]
    <3>3. \A s \in R(k) : s # {} => s \ {Max(s)} \in R(k - 1)
      BY <1>a, <1>b, <3>1
    <3>4. \A s \in R(k - 1) : s \in R(k) /\ g[s] = FoldStep(base, op, g, s)
      <4> SUFFICES ASSUME NEW s \in R(k - 1) PROVE s \in R(k) /\ g[s] = FoldStep(base, op, g, s)
        OBVIOUS
      <4>1. s \in R(k)
        <5>1. R(k - 1) = {t \in SUBSET (1..n) : Cardinality(t) <= k - 1} /\ k \in Nat
          BY <1>b, <3>1, <2>1
        <5>2. R(k) = {t \in SUBSET (1..n) : Cardinality(t) <= k}
          BY <1>b, <5>1
        <5>3. s \in SUBSET (1..n) /\ Cardinality(s) <= k - 1
          BY <5>1
        <5>4. Cardinality(s) \in Nat
          BY <1>a, <5>3
        <5>5. Cardinality(s) <= k
          BY <5>1, <5>3, <5>4
        <5> QED
          BY <5>2, <5>3, <5>5
      <4>2. g[s] = FoldStep(base, op, g, s)
        BY <3>2 DEF IsFold
      <4> QED
        BY <4>1, <4>2
    <3>5. \A s \in R(k - 1) : h[s] = g[s]
      BY <3>4
    <3>6. \A s \in R(k) : FoldStep(base, op, g, s) = FoldStep(base, op, h, s)
      BY <3>3, <3>5 DEF FoldStep
    <3>7. IsFold(base, op, R(k), h)
      BY <3>6 DEF IsFold
    <3> QED
      BY <2>1, <3>7
  <2> QED
    BY <2>2, <2>3
<1>2. Cardinality(1..n) \in Nat /\ \A s \in SUBSET (1..n) : Cardinality(s) <= Cardinality(1..n)
  <2>1. IsFiniteSet(1..n)
    BY FS_Interval
  <2> QED
    BY <2>1, FS_Subset, FS_CardinalityType
<1>3. R(Cardinality(1..n)) = SUBSET (1..n)
  <2> HIDE DEF R
  <2> QED
    BY <1>2, <1>b
<1>4. Typed(Cardinality(1..n))
  BY <1>1, <1>2
<1> QED
  BY <1>3, <1>4

\* At s a table follows the fold, as far as its step is typed.
Folds(X, base, op, iter, s) ==
  /\ s = {} => iter[s] = base
  /\ s # {} /\ iter[s \ {Max(s)}] \in X => iter[s] = op[<<iter[s \ {Max(s)}], Max(s)>>]

Follows(n, X, base, op, iter) == \A s \in SUBSET (1..n) : Folds(X, base, op, iter, s)

\* A fold follows itself.
LEMMA FoldFolds ==
  ASSUME NEW n, NEW X, NEW base, NEW op, NEW iter, IsFold(base, op, SUBSET (1..n), iter)
  PROVE  Follows(n, X, base, op, iter)
BY DEF IsFold, FoldStep, Folds, Follows

\* What follows a fold is typed.
LEMMA FoldTyped ==
  ASSUME NEW n \in Nat, NEW X, NEW base \in X, NEW op \in [X \X (1..n) -> X], NEW iter,
         Follows(n, X, base, op, iter)
  PROVE  \A s \in SUBSET (1..n) : iter[s] \in X
<1>0. \A s \in SUBSET (1..n) : Folds(X, base, op, iter, s)
  BY DEF Follows
<1>1. \A s \in SUBSET (1..n) : iter[s] \in X
  <2> DEFINE T == {k \in Nat : \E s \in SUBSET (1..n) : Cardinality(s) = k /\ iter[s] \notin X}
  <2> SUFFICES ASSUME T # {} PROVE FALSE
    BY FewerPositions
  <2>1. PICK k \in T : \A j \in Nat : j < k => j \notin T
    <3> HIDE DEF T
    <3>1. T \in SUBSET Nat
      BY DEF T
    <3> QED
      BY <3>1, LeastNumber
  <2>2. PICK s \in SUBSET (1..n) : Cardinality(s) = k /\ iter[s] \notin X
    BY <2>1
  <2>3. s # {}
    BY <1>0, <2>2 DEF Folds
  <2>4. /\ Max(s) \in 1..n /\ s \ {Max(s)} \in SUBSET (1..n)
        /\ Cardinality(s \ {Max(s)}) = k - 1 /\ k - 1 \in Nat
    <3>1. k \in Nat /\ Cardinality(s) = k
      BY <2>1, <2>2
    <3>2. /\ Max(s) \in 1..n /\ s \ {Max(s)} \in SUBSET (1..n)
          /\ Cardinality(s \ {Max(s)}) = Cardinality(s) - 1 /\ Cardinality(s) # 0
      BY <2>3, FewerPositions
    <3> QED
      BY <3>1, <3>2
  <2>5. iter[s \ {Max(s)}] \in X
    BY <2>1, <2>4
  <2>6. iter[s] = op[<<iter[s \ {Max(s)}], Max(s)>>]
    BY <1>0, <2>3, <2>5 DEF Folds
  <2>7. <<iter[s \ {Max(s)}], Max(s)>> \in X \X (1..n)
    BY <2>4, <2>5
  <2> QED
    BY <2>2, <2>6, <2>7
<1> QED
  BY <1>1

\* Nothing is folded at first.
LEMMA FoldBegins ==
  ASSUME NEW n \in Nat, NEW X, NEW base, NEW op, NEW iter, Follows(n, X, base, op, iter),
         NEW k, k = 0
  PROVE  iter[1..k] = base
<1>1. 1..k = {} /\ {} \in SUBSET (1..n)
  BY LastOfFirst
<1>2. Folds(X, base, op, iter, {})
  BY <1>1 DEF Follows
<1>3. iter[{}] = base
  BY <1>2 DEF Folds
<1> QED
  BY <1>1, <1>3

\* The fold of the first positions, as far as they go.
Stages(n, iter) == [k \in 0..n |-> iter[1..k]]

IsStages(n, X, base, op, f) ==
  /\ f \in [0..n -> X]
  /\ f[0] = base
  /\ \A k \in 1..n : f[k] = op[<<f[k - 1], k>>]

\* The stages are typed, and each is one step from the one before.
LEMMA StagesStep ==
  ASSUME NEW n \in Nat, NEW X, NEW base \in X, NEW op \in [X \X (1..n) -> X], NEW iter,
         Follows(n, X, base, op, iter)
  PROVE  IsStages(n, X, base, op, Stages(n, iter))
<1>1. \A s \in SUBSET (1..n) : iter[s] \in X
  BY FoldTyped
<1>2. ASSUME NEW k \in 0..n PROVE Stages(n, iter)[k] = iter[1..k] /\ iter[1..k] \in X
  <2>1. 1..k \in SUBSET (1..n)
    OBVIOUS
  <2> QED
    BY <1>1, <2>1 DEF Stages
<1>3. iter[1..0] = base
  BY FoldBegins
<1>4. ASSUME NEW k \in 1..n PROVE iter[1..k] = op[<<iter[1..(k - 1)], k>>]
  <2>1. PICK j, whole, rest : j = k - 1 /\ whole = 1..k /\ rest = 1..j
    OBVIOUS
  <2>2. j \in Nat /\ k = j + 1
    BY <2>1
  <2>3. 1..k # {} /\ Max(1..k) = k /\ (1..k) \ {k} = 1..j
    BY <2>2, LastOfFirst
  <2>4. 1..k \in SUBSET (1..n) /\ 1..j \in SUBSET (1..n)
    BY <2>2
  <2>5. /\ whole \in SUBSET (1..n) /\ rest \in SUBSET (1..n)
        /\ whole # {} /\ Max(whole) = k /\ whole \ {Max(whole)} = rest
    BY <2>1, <2>3, <2>4
  <2>6. Folds(X, base, op, iter, whole) /\ iter[rest] \in X
    BY <1>1, <2>5 DEF Follows
  <2>7. iter[whole] = op[<<iter[rest], k>>]
    BY <2>5, <2>6 DEF Folds
  <2> QED
    BY <2>1, <2>7
<1>5. Stages(n, iter) \in [0..n -> X]
  BY <1>2 DEF Stages
<1>6. ASSUME NEW k \in 1..n PROVE Stages(n, iter)[k] = op[<<Stages(n, iter)[k - 1], k>>]
  <2>1. k \in 0..n /\ k - 1 \in 0..n
    OBVIOUS
  <2>2. Stages(n, iter)[k] = iter[1..k] /\ Stages(n, iter)[k - 1] = iter[1..(k - 1)]
    BY <1>2, <2>1
  <2> QED
    BY <1>4, <2>2
<1>7. Stages(n, iter)[0] = base
  <2>1. 0 \in 0..n
    OBVIOUS
  <2> QED
    BY <1>2, <1>3, <2>1
<1> QED
  BY <1>5, <1>6, <1>7 DEF IsStages

\* What holds at first and passes from one stage to the next holds at each.
LEMMA EachStage ==
  ASSUME NEW n \in Nat, NEW P \in SUBSET (0..n), 0 \in P,
         \A k \in 1..n : k - 1 \in P => k \in P
  PROVE  P = 0..n
<1> DEFINE T == {k \in Nat : k <= n /\ k \notin P}
<1> SUFFICES ASSUME NEW i \in 0..n, i \notin P PROVE FALSE
  OBVIOUS
<1>0. i \in T
  OBVIOUS
<1>1. PICK k \in T : \A j \in Nat : j < k => j \notin T
  <2> HIDE DEF T
  <2>1. T \in SUBSET Nat
    BY DEF T
  <2> QED
    BY <1>0, <2>1, LeastNumber
<1>2. k \in 1..n /\ k - 1 \in Nat /\ k - 1 < k
  OBVIOUS
<1>3. k - 1 \in P
  BY <1>1, <1>2
<1> QED
  BY <1>2, <1>3

=============================================================================
