-------------------------- MODULE FrameMachineProofs -------------------------
(***************************************************************************)
(* StackIsSound and RegionsClose for every filter and every input.         *)
(*                                                                         *)
(* The machine is Live: its frames are a Stack, each routing below itself, *)
(* and its suppression depth is no more than its stack has regions.  The   *)
(* four things that happen to a stack keep it so: a push, a pop to some    *)
(* height, a change to what one frame holds, and a cut out of its middle.  *)
(* Routing a value is a walk down the stack and the cuts behind it; its    *)
(* invariant says where each cut will find the frame the walk pushed.      *)
(***************************************************************************)
EXTENDS FrameMachine, FoldLemmas

-----------------------------------------------------------------------------
(* Sequences, and the numbers the machine picks.                           *)

IsSeq(s) == \E S : s \in Seq(S)

\* A sequence has a length, and is defined up to it.
LEMMA SeqIs ==
  ASSUME NEW s, IsSeq(s)
  PROVE  Len(s) \in Nat /\ DOMAIN s = 1..Len(s)
BY DEF IsSeq

\* What is left of a sequence when its end is dropped.
LEMMA PrefixIs ==
  ASSUME NEW s, IsSeq(s), NEW n \in 0..Len(s), NEW t, t = SubSeq(s, 1, n)
  PROVE  IsSeq(t) /\ Len(t) = n /\ \A i \in 1..n : t[i] = s[i]
<1>1. PICK S : s \in Seq(S)
  BY DEF IsSeq
<1>2. Len(s) \in Nat /\ \A i \in 1..Len(s) : s[i] \in S
  BY <1>1
<1>3. n \in Nat /\ \A i \in 1..n : s[i] \in S
  BY <1>2
<1>4. SubSeq(s, 1, n) \in Seq(S) /\ Len(SubSeq(s, 1, n)) = n
  BY <1>1, <1>2, <1>3, SubSeqProperties
<1>5. \A i \in 1..n : SubSeq(s, 1, n)[i] = s[i]
  BY <1>1, <1>2, <1>3, SubSeqProperties
<1> QED
  BY <1>4, <1>5 DEF IsSeq

\* The rest of a sequence behind some of it.
LEMMA SuffixIs ==
  ASSUME NEW s, IsSeq(s), NEW n \in Nat, NEW t, t = SubSeq(s, n + 1, Len(s))
  PROVE  /\ IsSeq(t) /\ Len(t) = (IF n <= Len(s) THEN Len(s) - n ELSE 0)
         /\ \A i \in 1..Len(t) : t[i] = s[i + n]
<1>1. PICK S : s \in Seq(S)
  BY DEF IsSeq
<1>2. Len(s) \in Nat /\ \A i \in 1..Len(s) : s[i] \in S
  BY <1>1
<1>3. PICK len : len = Len(s)
  OBVIOUS
<1>4. len \in Nat /\ \A i \in (n + 1)..len : s[i] \in S
  BY <1>2, <1>3
<1>5. /\ SubSeq(s, n + 1, len) \in Seq(S)
      /\ Len(SubSeq(s, n + 1, len)) = IF n + 1 <= len THEN len - (n + 1) + 1 ELSE 0
      /\ \A i \in 1..(len - (n + 1) + 1) : SubSeq(s, n + 1, len)[i] = s[(n + 1) + i - 1]
  BY <1>1, <1>4, SubSeqProperties
<1>6. Len(t) = IF n <= len THEN len - n ELSE 0
  BY <1>3, <1>4, <1>5
<1>7. ASSUME NEW i \in 1..Len(t) PROVE t[i] = s[i + n]
  <2>1. i \in 1..(len - (n + 1) + 1) /\ (n + 1) + i - 1 = i + n
    BY <1>4, <1>6
  <2> QED
    BY <1>3, <1>5, <2>1
<1> QED
  BY <1>3, <1>5, <1>6, <1>7 DEF IsSeq

IsAppended(s, e, t) ==
  /\ IsSeq(t) /\ Len(t) = Len(s) + 1 /\ t[Len(s) + 1] = e
  /\ \A i \in 1..Len(s) : t[i] = s[i]

\* One more at the end.
LEMMA AppendIs ==
  ASSUME NEW s, IsSeq(s), NEW e
  PROVE  IsAppended(s, e, Append(s, e))
<1>1. PICK S : s \in Seq(S)
  BY DEF IsSeq
<1>2. s \in Seq(S \cup {e}) /\ e \in S \cup {e}
  BY <1>1
<1>3. /\ Append(s, e) \in Seq(S \cup {e}) /\ Len(Append(s, e)) = Len(s) + 1
      /\ \A i \in 1..Len(s) : Append(s, e)[i] = s[i]
      /\ Append(s, e)[Len(s) + 1] = e
  BY <1>2, AppendProperties
<1> QED
  BY <1>3 DEF IsSeq, IsAppended

\* Which is a concatenation.
LEMMA AppendJoins ==
  ASSUME NEW s, IsSeq(s), NEW e
  PROVE  Append(s, e) = s \o <<e>>
<1>1. PICK S : s \in Seq(S)
  BY DEF IsSeq
<1>2. s \in Seq(S \cup {e}) /\ e \in S \cup {e}
  BY <1>1
<1> QED
  BY <1>2, AppendIsConcat

\* One behind the other.
LEMMA ConcatIs ==
  ASSUME NEW s, IsSeq(s), NEW t, IsSeq(t), NEW u, u = s \o t
  PROVE  /\ IsSeq(u) /\ Len(u) = Len(s) + Len(t)
         /\ \A i \in 1..(Len(s) + Len(t)) : u[i] = IF i <= Len(s) THEN s[i] ELSE t[i - Len(s)]
<1>1. PICK S : s \in Seq(S)
  BY DEF IsSeq
<1>2. PICK T : t \in Seq(T)
  BY DEF IsSeq
<1>3. s \in Seq(S \cup T) /\ t \in Seq(S \cup T)
  BY <1>1, <1>2
<1> QED
  BY <1>3, JoinIs DEF IsSeq

\* A sequence is what it begins with and the rest.
LEMMA SplitIs ==
  ASSUME NEW s, IsSeq(s), NEW n \in 0..Len(s)
  PROVE  s = SubSeq(s, 1, n) \o SubSeq(s, n + 1, Len(s))
<1>1. PICK S : s \in Seq(S)
  BY DEF IsSeq
<1>2. PICK len : len = Len(s)
  OBVIOUS
<1>3. len \in Nat /\ n \in Nat /\ n <= len
  BY <1>1, <1>2
<1>4. 1 \in 1..(len + 1) /\ n \in (1 - 1)..len /\ len \in n..len
  BY <1>3
<1>5. SubSeq(s, 1, n) \o SubSeq(s, n + 1, len) = SubSeq(s, 1, len)
  BY <1>1, <1>2, <1>4, ConcatAdjacentSubSeq
<1>6. SubSeq(s, 1, len) = s
  BY <1>1, <1>2, SubSeqFull
<1> QED
  BY <1>2, <1>5, <1>6

\* The greater of zero and a number.
LEMMA MaxOfZero ==
  ASSUME NEW a \in Int
  PROVE  Max({0, a}) = IF a > 0 THEN a ELSE 0
<1>1. \E x \in {0, a} : \A y \in {0, a} : x >= y
  OBVIOUS
<1>2. Max({0, a}) \in {0, a} /\ \A y \in {0, a} : Max({0, a}) >= y
  BY <1>1 DEF Max
<1> QED
  BY <1>2

\* The least of three numbers.
LEMMA MinOfThree ==
  ASSUME NEW a \in Int, NEW b \in Int, NEW c \in Int
  PROVE  /\ Min({a, b, c}) \in {a, b, c} /\ Min({a, b, c}) <= a /\ Min({a, b, c}) <= b
         /\ Min({a, b, c}) <= c
<1>1. \E x \in {a, b, c} : \A y \in {a, b, c} : x <= y
  OBVIOUS
<1>2. Min({a, b, c}) \in {a, b, c} /\ \A y \in {a, b, c} : Min({a, b, c}) <= y
  BY <1>1 DEF Min
<1> QED
  BY <1>2

\* The least of two.
LEMMA MinOfTwo ==
  ASSUME NEW a \in Int, NEW b \in Int
  PROVE  Min({a, b}) \in {a, b} /\ Min({a, b}) <= a /\ Min({a, b}) <= b
<1>1. {a, b} = {a, b, b}
  OBVIOUS
<1> QED
  BY <1>1, MinOfThree

-----------------------------------------------------------------------------
(* The suppression regions of a stack.                                     *)

RegionAt(s) == {i \in DOMAIN s : s[i].kind \in {"Try", "AlternativeLeft"}}

\* There are finitely many.
LEMMA RegionsTyped ==
  ASSUME NEW s, IsSeq(s)
  PROVE  /\ IsFiniteSet(RegionAt(s)) /\ Regions(s) = Cardinality(RegionAt(s))
         /\ Regions(s) \in Nat /\ RegionAt(s) \subseteq 1..Len(s)
<1>1. Len(s) \in Nat /\ DOMAIN s = 1..Len(s)
  BY SeqIs
<1>2. IsFiniteSet(1..Len(s)) /\ RegionAt(s) \subseteq 1..Len(s)
  BY <1>1, FS_Interval DEF RegionAt
<1>3. IsFiniteSet(RegionAt(s))
  BY <1>2, FS_Subset
<1> QED
  BY <1>2, <1>3, FS_CardinalityType DEF Regions, RegionAt

\* The regions of two stacks, one on the other, are those of both.
LEMMA RegionsJoin ==
  ASSUME NEW s, IsSeq(s), NEW t, IsSeq(t)
  PROVE  Regions(s \o t) = Regions(s) + Regions(t)
<1> DEFINE u == s \o t
           A == RegionAt(s)
           B == RegionAt(t)
           C == {i \in (Len(s) + 1)..(Len(s) + Len(t)) : u[i].kind \in {"Try", "AlternativeLeft"}}
<1>1. /\ IsSeq(u) /\ Len(u) = Len(s) + Len(t)
      /\ \A i \in 1..(Len(s) + Len(t)) : u[i] = IF i <= Len(s) THEN s[i] ELSE t[i - Len(s)]
  BY ConcatIs
<1>2. /\ Len(s) \in Nat /\ Len(t) \in Nat /\ DOMAIN s = 1..Len(s) /\ DOMAIN t = 1..Len(t)
      /\ DOMAIN u = 1..(Len(s) + Len(t))
  BY <1>1, SeqIs
<1> HIDE DEF u
<1>3. RegionAt(u) = A \cup C
  <2>1. ASSUME NEW i \in 1..Len(s) PROVE u[i] = s[i] /\ i \in 1..(Len(s) + Len(t))
    BY <1>1, <1>2
  <2>2. RegionAt(u) \subseteq A \cup C
    <3> SUFFICES ASSUME NEW i \in RegionAt(u) PROVE i \in A \cup C
      OBVIOUS
    <3>1. i \in 1..(Len(s) + Len(t)) /\ u[i].kind \in {"Try", "AlternativeLeft"}
      BY <1>2 DEF RegionAt
    <3>2. i \in 1..Len(s) \/ i \in (Len(s) + 1)..(Len(s) + Len(t))
      BY <1>2, <3>1
    <3>3. CASE i \in 1..Len(s)
      BY <1>2, <2>1, <3>1, <3>3 DEF RegionAt
    <3>4. CASE i \in (Len(s) + 1)..(Len(s) + Len(t))
      BY <3>1, <3>4
    <3> QED
      BY <3>2, <3>3, <3>4
  <2>3. A \subseteq RegionAt(u)
    BY <1>2, <2>1 DEF RegionAt
  <2>4. C \subseteq RegionAt(u)
    BY <1>2 DEF RegionAt
  <2> QED
    BY <2>2, <2>3, <2>4
<1>4. A \cap C = {}
  <2>1. ASSUME NEW i \in A, i \in C PROVE FALSE
    BY <1>2, <2>1 DEF RegionAt
  <2> QED
    BY <2>1
<1>5. IsFiniteSet(A) /\ IsFiniteSet(B) /\ Regions(s) = Cardinality(A) /\ Regions(t) = Cardinality(B)
      /\ Cardinality(A) \in Nat /\ Cardinality(B) \in Nat
  BY RegionsTyped
<1>6. IsFiniteSet(C) /\ Cardinality(C) = Cardinality(B)
  <2> DEFINE f == [i \in B |-> i + Len(s)]
  <2>1. ASSUME NEW i \in 1..Len(t)
        PROVE  /\ i + Len(s) \in (Len(s) + 1)..(Len(s) + Len(t)) /\ u[i + Len(s)] = t[i]
    BY <1>1, <1>2
  <2>2. \A i \in B : f[i] \in C
    BY <1>2, <2>1 DEF RegionAt
  <2>3. \A i, j \in B : f[i] = f[j] => i = j
    BY <1>2 DEF RegionAt
  <2>4. ASSUME NEW c \in C PROVE \E i \in B : f[i] = c
    <3>1. PICK i : i = c - Len(s)
      OBVIOUS
    <3>2. i \in 1..Len(t) /\ i + Len(s) = c
      BY <1>2, <3>1
    <3>3. t[i].kind \in {"Try", "AlternativeLeft"}
      BY <2>1, <3>2
    <3> QED
      BY <1>2, <3>2, <3>3 DEF RegionAt
  <2>5. f \in Bijection(B, C)
    BY <2>2, <2>3, <2>4 DEF Bijection, Injection, Surjection, IsInjective
  <2>6. ExistsBijection(B, C)
    BY <2>5 DEF ExistsBijection
  <2> QED
    BY <1>5, <2>6, FS_Bijection
<1>7. Cardinality(A \cup C) = Cardinality(A) + Cardinality(C)
  <2>1. Cardinality(A \cup C) = Cardinality(A) + Cardinality(C) - Cardinality(A \cap C)
    BY <1>5, <1>6, FS_Union
  <2>2. Cardinality(A \cap C) = 0
    BY <1>4, FS_EmptySet
  <2> QED
    BY <1>5, <1>6, <2>1, <2>2
<1>8. Regions(u) = Cardinality(RegionAt(u))
  BY <1>1, RegionsTyped
<1> QED
  BY <1>3, <1>5, <1>6, <1>7, <1>8 DEF u

\* Nothing is in no region, and one frame opens one at most.
LEMMA RegionsOfOne ==
  ASSUME NEW f
  PROVE  /\ IsSeq(<<>>) /\ Regions(<<>>) = 0
         /\ IsSeq(<<f>>) /\ Regions(<<f>>) = IF f.kind \in {"Try", "AlternativeLeft"} THEN 1 ELSE 0
<1>1. /\ <<>> \in Seq({f}) /\ Len(<<>>) = 0 /\ <<f>> \in Seq({f}) /\ Len(<<f>>) = 1 /\ <<f>>[1] = f
      /\ DOMAIN <<f>> = {1} /\ DOMAIN << >> = {}
  OBVIOUS
<1>2. IsSeq(<<>>) /\ IsSeq(<<f>>)
  BY <1>1 DEF IsSeq
<1>3. RegionAt(<<>>) = {} /\ RegionAt(<<f>>) = IF f.kind \in {"Try", "AlternativeLeft"} THEN {1} ELSE {}
  BY <1>1 DEF RegionAt
<1>4. Cardinality({}) = 0 /\ Cardinality({1}) = 1
  BY FS_EmptySet, FS_Singleton
<1> QED
  BY <1>2, <1>3, <1>4, RegionsTyped

\* What a prefix leaves out is what its regions lack.
LEMMA RegionsSplit ==
  ASSUME NEW s, IsSeq(s), NEW n \in 0..Len(s)
  PROVE  /\ Regions(s) = Regions(SubSeq(s, 1, n)) + Regions(SubSeq(s, n + 1, Len(s)))
         /\ Regions(SubSeq(s, 1, n)) \in Nat /\ Regions(SubSeq(s, n + 1, Len(s))) \in Nat
<1>1. n \in Nat
  BY SeqIs
<1>2. PICK a : a = SubSeq(s, 1, n)
  OBVIOUS
<1>3. PICK b : b = SubSeq(s, n + 1, Len(s))
  OBVIOUS
<1>4. IsSeq(a)
  BY <1>2, PrefixIs
<1>5. IsSeq(b)
  BY <1>1, <1>3, SuffixIs
<1>6. s = a \o b
  BY <1>2, <1>3, SplitIs
<1>7. Regions(a \o b) = Regions(a) + Regions(b) /\ Regions(a) \in Nat /\ Regions(b) \in Nat
  BY <1>4, <1>5, RegionsJoin, RegionsTyped
<1> QED
  BY <1>2, <1>3, <1>6, <1>7

-----------------------------------------------------------------------------
(* A stack whose every frame routes below itself, and whose every update   *)
(* frame names its loop.                                                   *)

FrameFields == {"kind", "at", "in", "out", "x"}
Updates == {"ReduceUpdate", "ForeachUpdate"}
Sources == {"ReduceSource", "ForeachSource"}

Names(s, f) == f.kind \in Updates =>
  /\ f.x \in 1..Len(s)
  /\ s[f.x].kind \in Sources
  /\ s[f.x].at = f.at

FrameOK(s, i) ==
  /\ DOMAIN s[i] = FrameFields
  /\ s[i].out \in Nat /\ s[i].out < i
  /\ Names(s, s[i])
  /\ s[i].kind \in Updates => s[i].x < i

Stack(s) == IsSeq(s) /\ \A i \in 1..Len(s) : FrameOK(s, i)

\* The same frames to everything but what they hold.
Alike(s, t) ==
  /\ IsSeq(t) /\ Len(t) = Len(s)
  /\ \A i \in 1..Len(s) :
       /\ DOMAIN t[i] = FrameFields
       /\ t[i].kind = s[i].kind /\ t[i].at = s[i].at /\ t[i].out = s[i].out
       /\ s[i].kind \in Updates => t[i].x = s[i].x

\* The bottom of a stack is one.
LEMMA StackPrefix ==
  ASSUME NEW s, Stack(s), NEW n \in 0..Len(s), NEW t, t = SubSeq(s, 1, n)
  PROVE  Stack(t) /\ Len(t) = n /\ \A i \in 1..n : t[i] = s[i]
<1>1. IsSeq(s) /\ Len(s) \in Nat
  BY SeqIs DEF Stack
<1>2. IsSeq(t) /\ Len(t) = n /\ \A i \in 1..n : t[i] = s[i]
  BY <1>1, PrefixIs
<1>3. ASSUME NEW i \in 1..n PROVE FrameOK(t, i)
  <2>1. t[i] = s[i] /\ i \in 1..Len(s) /\ FrameOK(s, i)
    BY <1>1, <1>2 DEF Stack
  <2>2. ASSUME t[i].kind \in Updates PROVE t[i].x \in 1..n /\ t[t[i].x] = s[s[i].x]
    <3>1. s[i].x \in 1..Len(s) /\ s[i].x < i
      BY <2>1, <2>2 DEF FrameOK, Names
    <3>2. s[i].x \in 1..n
      BY <1>1, <3>1
    <3> QED
      BY <1>2, <2>1, <3>2
  <2> QED
    BY <1>2, <2>1, <2>2 DEF FrameOK, Names
<1> QED
  BY <1>2, <1>3 DEF Stack

\* A stack stays one under a frame that routes into it.
LEMMA StackPush ==
  ASSUME NEW s, Stack(s), NEW f, DOMAIN f = FrameFields, f.out \in Nat, f.out <= Len(s), Names(s, f),
         NEW t, t = Append(s, f)
  PROVE  /\ Stack(t) /\ Len(t) = Len(s) + 1 /\ t[Len(s) + 1] = f
         /\ \A i \in 1..Len(s) : t[i] = s[i]
<1>1. IsSeq(s) /\ Len(s) \in Nat
  BY SeqIs DEF Stack
<1>2. IsSeq(t) /\ Len(t) = Len(s) + 1 /\ t[Len(s) + 1] = f /\ \A i \in 1..Len(s) : t[i] = s[i]
  <2>1. t = Append(s, f)
    OBVIOUS
  <2> QED
    BY <1>1, <2>1, AppendIs DEF IsAppended
<1>3. ASSUME NEW i \in 1..Len(s) PROVE FrameOK(t, i)
  <2>1. t[i] = s[i] /\ FrameOK(s, i)
    BY <1>2 DEF Stack
  <2>2. ASSUME t[i].kind \in Updates PROVE t[i].x \in 1..Len(t) /\ t[t[i].x] = s[s[i].x]
    BY <1>1, <1>2, <2>1, <2>2 DEF FrameOK, Names
  <2> QED
    BY <2>1, <2>2 DEF FrameOK, Names
<1>4. FrameOK(t, Len(s) + 1)
  <2>1. ASSUME f.kind \in Updates
        PROVE f.x \in 1..Len(t) /\ t[f.x] = s[f.x] /\ f.x < Len(s) + 1
    BY <1>1, <1>2, <2>1 DEF Names
  <2>2. f.out < Len(s) + 1
    BY <1>1
  <2> QED
    BY <1>2, <2>1, <2>2 DEF FrameOK, Names
<1>5. \A i \in 1..Len(t) : i \in 1..Len(s) \/ i = Len(s) + 1
  BY <1>1, <1>2
<1> QED
  BY <1>2, <1>3, <1>4, <1>5 DEF Stack

\* What a frame holds may change, an update frame's loop excepted.
LEMMA StackAlike ==
  ASSUME NEW s, Stack(s), NEW t, Alike(s, t)
  PROVE  Stack(t) /\ Len(t) = Len(s) /\ Regions(t) = Regions(s)
<1>1. IsSeq(s) /\ Len(s) \in Nat /\ DOMAIN s = 1..Len(s)
  BY SeqIs DEF Stack
<1>2. IsSeq(t) /\ Len(t) = Len(s) /\ DOMAIN t = 1..Len(s)
  BY <1>1, SeqIs DEF Alike
<1>3. ASSUME NEW i \in 1..Len(s) PROVE FrameOK(t, i)
  <2>1. /\ FrameOK(s, i) /\ DOMAIN t[i] = FrameFields
        /\ t[i].kind = s[i].kind /\ t[i].at = s[i].at /\ t[i].out = s[i].out
        /\ s[i].kind \in Updates => t[i].x = s[i].x
    BY DEF Stack, Alike
  <2>2. ASSUME s[i].kind \in Updates
        PROVE  /\ s[i].x \in 1..Len(t) /\ s[i].x < i
               /\ t[s[i].x].kind \in Sources /\ t[s[i].x].at = s[i].at
    BY <1>2, <2>1, <2>2 DEF FrameOK, Names, Alike
  <2> QED
    BY <2>1, <2>2 DEF FrameOK, Names
<1>4. RegionAt(t) = RegionAt(s)
  BY <1>1, <1>2 DEF RegionAt, Alike
<1> QED
  BY <1>1, <1>2, <1>3, <1>4, RegionsTyped DEF Stack

\* Only the x of one frame that is no update, or only the dot of one.
LEMMA HoldAlike ==
  ASSUME NEW s, Stack(s), NEW i \in 1..Len(s), NEW e, NEW t,
         \/ t = [s EXCEPT ![i].x = e] /\ s[i].kind \notin Updates
         \/ t = [s EXCEPT ![i].in = e]
  PROVE  Alike(s, t)
<1>1. PICK S : s \in Seq(S)
  BY DEF Stack, IsSeq
<1>2. PICK f : t = [s EXCEPT ![i] = f] /\ f \in {[s[i] EXCEPT !.x = e], [s[i] EXCEPT !.in = e]}
               /\ (f = [s[i] EXCEPT !.x = e] => s[i].kind \notin Updates \/ f = [s[i] EXCEPT !.in = e])
  OBVIOUS
<1>3. Len(s) \in Nat /\ DOMAIN s = 1..Len(s) /\ s \in [1..Len(s) -> S]
  BY <1>1
<1>4. t \in [1..Len(s) -> S \cup {f}]
  BY <1>2, <1>3
<1>5. t \in Seq(S \cup {f}) /\ Len(t) = Len(s)
  BY <1>3, <1>4, TableIsSeq
<1>6. \A j \in 1..Len(s) : t[j] = IF j = i THEN f ELSE s[j]
  BY <1>2, <1>3
<1>7. \A j \in 1..Len(s) : DOMAIN s[j] = FrameFields
  BY DEF Stack, FrameOK
<1>8. /\ DOMAIN f = FrameFields /\ f.kind = s[i].kind /\ f.at = s[i].at /\ f.out = s[i].out
      /\ s[i].kind \in Updates => f.x = s[i].x
  BY <1>2, <1>7 DEF FrameFields
<1> QED
  BY <1>5, <1>6, <1>7, <1>8 DEF Alike, IsSeq

-----------------------------------------------------------------------------
(* The machine, and what its steps are made of.                            *)

MachineFields == {"frames", "pending", "env", "error", "raiseCont", "depth", "told", "noted", "outcome"}

Live(g) ==
  /\ DOMAIN g = MachineFields
  /\ Stack(g.frames)
  /\ g.depth \in Nat /\ g.depth <= Regions(g.frames)
  /\ g.outcome = "running"

\* The pending task, if any, routes into the stack.
Tasked(g) == g.pending = Idle \/ /\ "cont" \in DOMAIN g.pending
                                 /\ g.pending.cont \in Nat
                                 /\ g.pending.cont <= Depth(g)

\* Nothing but the stack and what goes with it differs.
Keeps(g, h) == Live(h) /\ h.pending = g.pending /\ h.error = g.error

\* A finite set of numbers has a greatest one.
LEMMA MaxIs ==
  ASSUME NEW n \in Nat, NEW S \in SUBSET (0..n), S # {}
  PROVE  Max(S) \in S /\ Max(S) \in 0..n /\ \A i \in S : i <= Max(S)
<1> DEFINE T == {k \in Nat : \E i \in S : i + k = n}
<1>1. T \in SUBSET Nat /\ T # {}
  <2>1. PICK i \in S : TRUE
    OBVIOUS
  <2>2. n - i \in Nat /\ i + (n - i) = n
    BY <2>1
  <2> QED
    BY <2>1, <2>2
<1> HIDE DEF T
<1>2. PICK k \in T : \A j \in Nat : j < k => j \notin T
  BY <1>1, LeastNumber
<1>3. PICK i \in S : i + k = n
  BY <1>2 DEF T
<1>4. ASSUME NEW j \in S, ~(i >= j) PROVE FALSE
  <2>1. i \in Nat /\ j \in Nat /\ j <= n /\ k \in Nat
    BY <1>1
  <2>2. n - j \in Nat /\ n - j < k /\ j + (n - j) = n
    BY <1>3, <1>4, <2>1
  <2>3. n - j \in T
    BY <2>2 DEF T
  <2> QED
    BY <1>2, <2>2, <2>3
<1>5. \E x \in S : \A y \in S : x >= y
  BY <1>4
<1>6. Max(S) \in S /\ \A y \in S : Max(S) >= y
  BY <1>5 DEF Max
<1> QED
  BY <1>6

\* The stack has a height.
LEMMA LiveStack ==
  ASSUME NEW g, Live(g)
  PROVE  /\ Depth(g) \in Nat /\ Depth(g) = Len(g.frames) /\ IsSeq(g.frames) /\ DOMAIN g = MachineFields
         /\ DOMAIN g.frames = 1..Depth(g)
         /\ \A i \in 1..Depth(g) : /\ DOMAIN g.frames[i] = FrameFields
                                   /\ g.frames[i].out \in Nat /\ g.frames[i].out < i
<1>1. Depth(g) = Len(g.frames) /\ Stack(g.frames) /\ DOMAIN g = MachineFields
  BY DEF Live, Depth
<1>2. IsSeq(g.frames)
  BY <1>1 DEF Stack
<1>3. Len(g.frames) \in Nat /\ DOMAIN g.frames = 1..Len(g.frames)
  BY <1>2, SeqIs
<1>4. \A i \in 1..Len(g.frames) : FrameOK(g.frames, i)
  BY <1>1 DEF Stack
<1> QED
  BY <1>1, <1>2, <1>3, <1>4 DEF FrameOK

\* Popping to a height leaves what is below, and the regions it popped.
LEMMA PopKeeps ==
  ASSUME NEW g, Live(g), NEW n \in 0..Depth(g), NEW h, h = PopTo(g, n)
  PROVE  /\ Keeps(g, h) /\ Depth(h) = n /\ \A i \in 1..n : h.frames[i] = g.frames[i]
<1>1. Depth(g) \in Nat /\ Depth(g) = Len(g.frames) /\ IsSeq(g.frames) /\ DOMAIN g = MachineFields
  BY LiveStack
<1>2. n \in Nat /\ n \in 0..Len(g.frames)
  BY <1>1
<1>3. PICK s : s = SubSeq(g.frames, 1, n)
  OBVIOUS
<1>4. PICK r : r = Regions(SubSeq(g.frames, n + 1, Len(g.frames)))
  OBVIOUS
<1>5. Stack(s) /\ Len(s) = n /\ \A i \in 1..n : s[i] = g.frames[i]
  <2>1. Stack(g.frames)
    BY DEF Live
  <2> QED
    BY <1>2, <1>3, <2>1, StackPrefix
<1>6. Regions(g.frames) = Regions(s) + r /\ Regions(s) \in Nat /\ r \in Nat
  BY <1>1, <1>2, <1>3, <1>4, RegionsSplit
<1>7. PICK d : d = Max({0, g.depth - r})
  OBVIOUS
<1>8. g.depth \in Nat /\ g.depth <= Regions(g.frames)
  BY DEF Live
<1>9. d \in Nat /\ d <= Regions(s)
  <2>1. g.depth - r \in Int
    BY <1>6, <1>8
  <2>2. d = IF g.depth - r > 0 THEN g.depth - r ELSE 0
    BY <1>7, <2>1, MaxOfZero
  <2> QED
    BY <1>6, <1>8, <2>2
<1>10. h = [g EXCEPT !.frames = s, !.depth = d]
  BY <1>1, <1>3, <1>4, <1>7 DEF PopTo
<1>11. /\ DOMAIN h = MachineFields /\ h.frames = s /\ h.depth = d /\ h.outcome = g.outcome
       /\ h.pending = g.pending /\ h.error = g.error
  BY <1>1, <1>10 DEF MachineFields
<1> QED
  BY <1>5, <1>9, <1>11 DEF Keeps, Live, Depth

\* The trim pops to some height, and nothing below its floor.
LEMMA TrimKeeps ==
  ASSUME NEW g, Live(g), NEW floor \in Nat, NEW h, h = TrimSpent(g, floor)
  PROVE  /\ Keeps(g, h) /\ Depth(h) \in Nat /\ Depth(h) <= Depth(g)
         /\ \A i \in 1..Depth(h) : h.frames[i] = g.frames[i]
<1>1. Depth(g) \in Nat
  BY LiveStack
<1> DEFINE S == {Min({floor, Depth(g)})} \union {i \in 1..Depth(g) : g.frames[i].kind \notin Spent}
<1>2. Min({floor, Depth(g)}) \in 0..Depth(g)
  <2>1. Min({floor, Depth(g)}) \in {floor, Depth(g)} /\ Min({floor, Depth(g)}) <= Depth(g)
    BY <1>1, MinOfTwo
  <2> QED
    BY <1>1, <2>1
<1>3. S \in SUBSET (0..Depth(g)) /\ S # {}
  BY <1>1, <1>2
<1>4. Max(S) \in 0..Depth(g)
  <2> HIDE DEF S
  <2> QED
    BY <1>1, <1>3, MaxIs
<1>5. h = PopTo(g, Max(S))
  BY DEF TrimSpent
<1> HIDE DEF S
<1>6. PICK n : n = Max(S)
  OBVIOUS
<1>7. n \in 0..Depth(g) /\ h = PopTo(g, n)
  BY <1>4, <1>5, <1>6
<1>8. Keeps(g, h) /\ Depth(h) = n /\ \A i \in 1..n : h.frames[i] = g.frames[i]
  BY <1>7, PopKeeps
<1> QED
  BY <1>1, <1>7, <1>8

\* A change to what one frame holds, or to a field beside the stack.
LEMMA HoldKeeps ==
  ASSUME NEW g, Live(g), NEW i \in 1..Depth(g), NEW e, NEW h,
         \/ h = Hold(g, i, e) /\ g.frames[i].kind \notin Updates
         \/ h = Retained(g, i)
  PROVE  /\ Keeps(g, h) /\ Depth(h) = Depth(g) /\ Alike(g.frames, h.frames) /\ h.depth = g.depth
<1>1. Depth(g) \in Nat /\ Depth(g) = Len(g.frames) /\ IsSeq(g.frames) /\ DOMAIN g = MachineFields
  BY LiveStack
<1>2. Stack(g.frames) /\ g.depth \in Nat /\ g.depth <= Regions(g.frames) /\ g.outcome = "running"
  BY DEF Live
<1>3. PICK s : /\ s = g.frames \/ (s = [g.frames EXCEPT ![i].x = e] /\ g.frames[i].kind \notin Updates)
                    \/ s = [g.frames EXCEPT ![i].in = Null]
               /\ \/ h = g /\ s = g.frames
                  \/ h = [g EXCEPT !.frames = s]
  <2>1. CASE h = Hold(g, i, e) /\ g.frames[i].kind \notin Updates
    BY <2>1 DEF Hold
  <2>2. CASE h = Retained(g, i)
    BY <2>2 DEF Retained
  <2> QED
    BY <2>1, <2>2
<1>4. Alike(g.frames, s)
  <2>1. CASE s = g.frames
    BY <1>1, <1>2, <2>1 DEF Alike, Stack, FrameOK
  <2>2. CASE s = [g.frames EXCEPT ![i].x = e] /\ g.frames[i].kind \notin Updates
    BY <1>1, <1>2, <2>2, HoldAlike
  <2>3. CASE s = [g.frames EXCEPT ![i].in = Null]
    BY <1>1, <1>2, <2>3, HoldAlike
  <2> QED
    BY <1>3, <2>1, <2>2, <2>3
<1>5. Stack(s) /\ Len(s) = Len(g.frames) /\ Regions(s) = Regions(g.frames)
  BY <1>2, <1>4, StackAlike
<1>6. /\ DOMAIN h = MachineFields /\ h.frames = s /\ h.depth = g.depth /\ h.outcome = g.outcome
      /\ h.pending = g.pending /\ h.error = g.error
  BY <1>1, <1>3 DEF MachineFields
<1> QED
  BY <1>1, <1>2, <1>4, <1>5, <1>6 DEF Keeps, Live, Depth

Ready(g) == Live(g) /\ Tasked(g)

\* What is beside the stack may change.
LEMMA BesideLive ==
  ASSUME NEW g, Live(g), NEW h, DOMAIN h = MachineFields, h.frames = g.frames, h.outcome = g.outcome,
         h.depth \in Nat, h.depth <= g.depth
  PROVE  Live(h) /\ Depth(h) = Depth(g)
<1>1. /\ Stack(g.frames) /\ g.depth \in Nat /\ g.depth <= Regions(g.frames) /\ g.outcome = "running"
      /\ IsSeq(g.frames)
  BY DEF Live, Stack
<1>2. Regions(g.frames) \in Nat
  BY <1>1, RegionsTyped
<1> QED
  BY <1>1, <1>2 DEF Live, Depth

\* A task may be left that routes into the stack.
LEMMA TaskReady ==
  ASSUME NEW g, Live(g), NEW c \in Nat, c <= Depth(g), NEW at, NEW e, NEW h,
         h = Eval(g, at, e, c) \/ h = Later(g, e, c)
  PROVE  Ready(h) /\ Depth(h) = Depth(g) /\ h.frames = g.frames /\ h.error = g.error
<1>1. DOMAIN g = MachineFields /\ g.depth \in Nat
  BY DEF Live
<1>2. "cont" \in DOMAIN h.pending /\ h.pending.cont = c
  <2>1. CASE h = Eval(g, at, e, c)
    BY <1>1, <2>1 DEF Eval, MachineFields
  <2>2. CASE h = Later(g, e, c)
    BY <1>1, <2>2 DEF Later, MachineFields
  <2> QED
    BY <2>1, <2>2
<1>3. /\ DOMAIN h = MachineFields /\ h.frames = g.frames /\ h.outcome = g.outcome
      /\ h.depth = g.depth /\ h.error = g.error
  BY <1>1 DEF Eval, Later, MachineFields
<1>4. Live(h) /\ Depth(h) = Depth(g)
  BY <1>1, <1>3, BesideLive
<1> QED
  BY <1>2, <1>3, <1>4 DEF Ready, Tasked

\* A frame that routes into the stack goes on top of it.
LEMMA PushKeeps ==
  ASSUME NEW g, Live(g), NEW f, DOMAIN f = FrameFields, f.out \in Nat, f.out <= Depth(g),
         Names(g.frames, f), NEW h, h = Push(g, f)
  PROVE  /\ Keeps(g, h) /\ Depth(h) = Depth(g) + 1 /\ h.frames[Depth(g) + 1] = f
         /\ h.depth = g.depth
         /\ f.kind \in {"Try", "AlternativeLeft"} => h.depth + 1 <= Regions(h.frames)
<1>1. Depth(g) \in Nat /\ Depth(g) = Len(g.frames) /\ IsSeq(g.frames) /\ DOMAIN g = MachineFields
  BY LiveStack
<1>2. Stack(g.frames) /\ g.depth \in Nat /\ g.depth <= Regions(g.frames) /\ g.outcome = "running"
  BY DEF Live
<1>3. PICK s : s = g.frames
  OBVIOUS
<1>4. PICK t : t = Append(s, f)
  OBVIOUS
<1>5. Stack(t) /\ Len(t) = Len(s) + 1 /\ t[Len(s) + 1] = f
  <2>1. Stack(s) /\ f.out <= Len(s) /\ Names(s, f)
    BY <1>1, <1>2, <1>3
  <2> QED
    BY <1>4, <2>1, StackPush
<1>6. Regions(t) = Regions(s) + Regions(<<f>>)
  <2>1. IsSeq(s) /\ IsSeq(<<f>>)
    BY <1>1, <1>3, RegionsOfOne
  <2>2. t = s \o <<f>>
    BY <1>4, <2>1, AppendJoins
  <2> QED
    BY <2>1, <2>2, RegionsJoin
<1>7. /\ Regions(<<f>>) = IF f.kind \in {"Try", "AlternativeLeft"} THEN 1 ELSE 0
      /\ Regions(s) \in Nat
  BY <1>1, <1>3, RegionsOfOne, RegionsTyped
<1>8. h = [g EXCEPT !.frames = t]
  BY <1>3, <1>4 DEF Push
<1>9. /\ DOMAIN h = MachineFields /\ h.frames = t /\ h.depth = g.depth /\ h.outcome = g.outcome
      /\ h.pending = g.pending /\ h.error = g.error
  BY <1>1, <1>8 DEF MachineFields
<1>10. h.depth <= Regions(t) /\ (f.kind \in {"Try", "AlternativeLeft"} => h.depth + 1 <= Regions(t))
  BY <1>2, <1>3, <1>6, <1>7, <1>9
<1> QED
  BY <1>1, <1>2, <1>3, <1>5, <1>9, <1>10 DEF Keeps, Live, Depth

\* And a graph is evaluated into it.
LEMMA IntoReady ==
  ASSUME NEW g, Live(g), NEW f, DOMAIN f = FrameFields, f.out \in Nat, f.out <= Depth(g),
         Names(g.frames, f), NEW at, NEW e, NEW h, h = Into(g, f, at, e)
  PROVE  /\ Ready(h) /\ Depth(h) = Depth(g) + 1 /\ h.frames[Depth(g) + 1] = f /\ h.error = g.error
         /\ f.kind \in {"Try", "AlternativeLeft"} => h.depth + 1 <= Regions(h.frames)
<1>1. Depth(g) \in Nat
  BY LiveStack
<1>2. PICK p : p = Push(g, f)
  OBVIOUS
<1>3. /\ Keeps(g, p) /\ Depth(p) = Depth(g) + 1 /\ p.frames[Depth(g) + 1] = f
      /\ f.kind \in {"Try", "AlternativeLeft"} => p.depth + 1 <= Regions(p.frames)
  BY <1>2, PushKeeps
<1>4. h = Eval(p, at, e, Depth(g) + 1)
  BY <1>2 DEF Into
<1>5. Live(p) /\ p.error = g.error /\ Depth(g) + 1 \in Nat /\ Depth(g) + 1 <= Depth(p)
  BY <1>1, <1>3 DEF Keeps
<1>6. Ready(h) /\ Depth(h) = Depth(p) /\ h.frames = p.frames /\ h.error = p.error
  BY <1>4, <1>5, TaskReady
<1>7. h.depth = p.depth
  <2>1. DOMAIN p = MachineFields
    BY <1>5 DEF Live
  <2> QED
    BY <1>4, <2>1 DEF Eval, MachineFields
<1> QED
  BY <1>3, <1>5, <1>6, <1>7

\* A region is entered with the frame that opens it.
LEMMA EnterReady ==
  ASSUME NEW g, Ready(g), g.depth + 1 <= Regions(g.frames), NEW h, h = [g EXCEPT !.depth = @ + 1]
  PROVE  Ready(h) /\ h.error = g.error
<1>1. DOMAIN g = MachineFields /\ g.depth \in Nat /\ Stack(g.frames) /\ g.outcome = "running"
  BY DEF Ready, Live
<1>2. /\ DOMAIN h = MachineFields /\ h.frames = g.frames /\ h.depth = g.depth + 1
      /\ h.outcome = g.outcome /\ h.pending = g.pending /\ h.error = g.error
  BY <1>1 DEF MachineFields
<1> QED
  BY <1>1, <1>2 DEF Ready, Live, Tasked, Depth

-----------------------------------------------------------------------------
(* A cut out of the middle of the stack.                                   *)

\* What a walk pushed above a source, which ended at `end`, that a cut at c will
\* drop: at most one frame, and it routes below the cut.
Parks(g, c, end) ==
  /\ Depth(g) <= end + 1
  /\ Depth(g) = end + 1 => /\ g.frames[Depth(g)].out < c
                           /\ g.frames[Depth(g)].kind \in Updates => g.frames[Depth(g)].x < c

Fits(s, f) == DOMAIN f = FrameFields /\ f.out \in Nat /\ f.out <= Len(s) /\ Names(s, f)
Pushed(s, f, t) == Stack(t) /\ IsAppended(s, f, t)

\* A frame that routes into a stack makes it a higher one.
LEMMA FitsOn ==
  ASSUME NEW s, Stack(s), NEW f, Fits(s, f)
  PROVE  Pushed(s, f, Append(s, f))
<1>1. DOMAIN f = FrameFields /\ f.out \in Nat /\ f.out <= Len(s) /\ Names(s, f)
  BY DEF Fits
<1>2. PICK t : t = Append(s, f)
  OBVIOUS
<1>3. Stack(t)
  BY <1>1, <1>2, StackPush
<1>4. IsAppended(s, f, Append(s, f))
  BY AppendIs DEF Stack
<1> QED
  BY <1>2, <1>3, <1>4 DEF Pushed

IsParked(s, end, p) == IsSeq(p) /\ p = IF Len(s) = end + 1 THEN <<s[Len(s)]>> ELSE <<>>

\* What was pushed above a source's end is nothing or one frame.
LEMMA ParkedIs ==
  ASSUME NEW s, IsSeq(s), NEW end \in Nat, Len(s) <= end + 1
  PROVE  IsParked(s, end, SubSeq(s, end + 1, Len(s)))
<1> SUFFICES ASSUME NEW p, p = SubSeq(s, end + 1, Len(s)) PROVE IsParked(s, end, p)
  OBVIOUS
<1>1. Len(s) \in Nat
  BY SeqIs
<1>2. /\ IsSeq(p) /\ Len(p) = (IF end <= Len(s) THEN Len(s) - end ELSE 0)
      /\ \A k \in 1..Len(p) : p[k] = s[k + end]
  BY SuffixIs
<1>3. PICK S : p \in Seq(S)
  BY <1>2 DEF IsSeq
<1>4. CASE Len(s) = end + 1
  <2>1. Len(p) = 1 /\ 1 \in 1..Len(p)
    BY <1>1, <1>2, <1>4
  <2>2. p[1] = s[1 + end]
    BY <1>2, <2>1
  <2>3. 1 + end = Len(s)
    BY <1>4
  <2>4. PICK f : f = s[Len(s)]
    OBVIOUS
  <2>5. p[1] = f
    BY <2>2, <2>3, <2>4
  <2>6. <<f>> \in Seq(S \cup {f}) /\ p \in Seq(S \cup {f}) /\ Len(<<f>>) = 1 /\ <<f>>[1] = f
    BY <1>3
  <2>7. p = <<f>>
    <3>1. \A k \in 1..Len(p) : p[k] = <<f>>[k]
      BY <2>1, <2>5, <2>6
    <3> QED
      BY <2>1, <2>6, <3>1, SeqEqual
  <2> QED
    BY <1>2, <1>4, <2>4, <2>7 DEF IsParked
<1>5. CASE Len(s) # end + 1
  <2>1. Len(p) = 0
    BY <1>1, <1>2, <1>5
  <2>2. p = <<>>
    BY <1>3, <2>1, EmptySeq
  <2> QED
    BY <1>2, <1>5, <2>2 DEF IsParked
<1> QED
  BY <1>4, <1>5

Bottom(s, n, a) == Stack(a) /\ Len(a) = n /\ \A k \in 1..n : a[k] = s[k]
Routes(s, n, p) == p = <<>> \/ /\ p = <<s[Len(s)]>> /\ Len(s) # 0 /\ s[Len(s)].out <= n
                               /\ s[Len(s)].kind \in Updates => s[Len(s)].x <= n
Rebuilt(s, n, p, t) == /\ Stack(t) /\ Len(t) = IF p = <<>> THEN n ELSE n + 1
                       /\ \A k \in 1..n : t[k] = s[k]

\* A stack's bottom under that frame, if the frame routes into it.
LEMMA CutStack ==
  ASSUME NEW s, Stack(s), NEW n \in 0..Len(s), NEW a, Bottom(s, n, a), NEW p, Routes(s, n, p)
  PROVE  Rebuilt(s, n, p, a \o p)
<1> SUFFICES ASSUME NEW t, t = a \o p PROVE Rebuilt(s, n, p, t)
  OBVIOUS
<1>0. Stack(a) /\ Len(a) = n /\ \A k \in 1..n : a[k] = s[k]
  BY DEF Bottom
<1>1. IsSeq(a) /\ Len(s) \in Nat /\ n \in Nat
  BY <1>0, SeqIs DEF Stack
<1>2. CASE p = <<>>
  <2>1. PICK S : a \in Seq(S)
    BY <1>1 DEF IsSeq
  <2>2. a \o <<>> = a
    BY <2>1, ConcatEmptySeq
  <2>3. t = a
    BY <1>2, <2>2
  <2> QED
    BY <1>0, <1>2, <2>3 DEF Rebuilt
<1>3. CASE p # <<>>
  <2>1. PICK f : f = s[Len(s)]
    OBVIOUS
  <2>2. FrameOK(s, Len(s)) /\ Len(s) \in 1..Len(s)
    BY <1>1, <1>3 DEF Stack, Routes
  <2>3. /\ DOMAIN f = FrameFields /\ f.out \in Nat /\ Names(s, f) /\ f.out <= Len(a)
        /\ f.kind \in Updates => f.x <= n
    BY <1>0, <1>3, <2>1, <2>2 DEF FrameOK, Routes
  <2>4. ASSUME f.kind \in Updates PROVE f.x \in 1..n /\ a[f.x] = s[f.x]
    <3>1. f.x \in 1..Len(s) /\ f.x <= n
      BY <1>0, <2>3, <2>4 DEF Names
    <3>2. f.x \in 1..n
      BY <1>1, <3>1
    <3> QED
      BY <1>0, <3>2
  <2>5. Names(a, f)
    BY <1>0, <2>3, <2>4 DEF Names
  <2>6. t = Append(a, f)
    <3>1. p = <<f>>
      BY <1>3, <2>1 DEF Routes
    <3> QED
      BY <1>1, <3>1, AppendJoins
  <2>7. Fits(a, f)
    BY <2>3, <2>5 DEF Fits
  <2>8. Pushed(a, f, t)
    BY <1>0, <2>6, <2>7, FitsOn
  <2> QED
    BY <1>0, <1>3, <2>8 DEF Pushed, IsAppended, Rebuilt
<1> QED
  BY <1>2, <1>3

\* The regions of a stack that was shortened twice and built on again.
LEMMA CutRegions ==
  ASSUME NEW s, Stack(s), NEW e \in 0..Len(s), NEW n \in 0..e, NEW short, short = SubSeq(s, 1, e),
         NEW a, a = SubSeq(short, 1, n),
         NEW p, IsSeq(p), (e = Len(s) /\ p = <<>>) \/ (e + 1 = Len(s) /\ p = <<s[Len(s)]>>),
         NEW d \in Nat, d <= Regions(s), NEW l, l = Regions(SubSeq(short, n + 1, Len(short)))
  PROVE  l \in Nat /\ d <= Regions(a \o p) + l
<1>1. IsSeq(s) /\ Len(s) \in Nat /\ e \in Nat /\ n \in Nat
  BY SeqIs DEF Stack
<1>2. IsSeq(short) /\ Len(short) = e
  BY <1>1, PrefixIs
<1>3. n \in 0..Len(short)
  BY <1>2
<1>4. IsSeq(a)
  BY <1>2, <1>3, PrefixIs
<1>5. Regions(short) = Regions(a) + l /\ Regions(a) \in Nat /\ l \in Nat
  BY <1>2, <1>3, RegionsSplit
<1>6. PICK rest : rest = SubSeq(s, e + 1, Len(s))
  OBVIOUS
<1>7. Regions(s) = Regions(short) + Regions(rest)
  BY <1>1, <1>6, RegionsSplit
<1>8. rest = p
  <2>1. IsParked(s, e, rest)
    <3>1. Len(s) <= e + 1
      BY <1>1
    <3>2. IsParked(s, e, SubSeq(s, e + 1, Len(s)))
      BY <1>1, <3>1, ParkedIs
    <3> QED
      BY <1>6, <3>2
  <2> QED
    BY <1>1, <2>1 DEF IsParked
<1>9. Regions(a \o p) = Regions(a) + Regions(p) /\ Regions(p) \in Nat
  BY <1>4, RegionsJoin, RegionsTyped
<1> QED
  BY <1>5, <1>7, <1>8, <1>9

Beyond(s, t) ==
  \/ Len(t) < Len(s)
  \/ Len(t) = Len(s) /\ \A k \in 1..Len(s) : t[k] = s[k]

\* The stack that a cut makes of what it keeps.
LEMMA CutMakes ==
  ASSUME NEW s, Stack(s), NEW i \in Nat \ {0}, NEW end \in Nat, Len(s) <= end + 1,
         Len(s) = end + 1 => /\ s[Len(s)].out < i
                             /\ s[Len(s)].kind \in Updates => s[Len(s)].x < i,
         NEW n \in 0..Len(s), n <= i - 1, Len(s) = end + 1 => n = i - 1,
         NEW a, Stack(a), Len(a) = n, \A k \in 1..n : a[k] = s[k],
         NEW p, IsSeq(p), p = IF Len(s) = end + 1 THEN <<s[Len(s)]>> ELSE <<>>,
         i <= end, NEW t, t = a \o p
  PROVE  Stack(t) /\ Len(t) \in Nat /\ Regions(t) \in Nat /\ Beyond(s, t)
<1>1. IsSeq(s) /\ Len(s) \in Nat /\ n \in Nat
  BY SeqIs DEF Stack
<1>2. ASSUME Len(s) = end + 1
      PROVE  /\ Len(s) # 0 /\ s[Len(s)].out <= n
             /\ (s[Len(s)].kind \in Updates => s[Len(s)].x <= n)
  <2>1. PICK f : f = s[Len(s)]
    OBVIOUS
  <2>2. FrameOK(s, Len(s)) /\ Len(s) \in 1..Len(s)
    BY <1>1, <1>2 DEF Stack
  <2>3. f.out \in Nat /\ (f.kind \in Updates => f.x \in Nat)
    BY <1>1, <2>1, <2>2 DEF FrameOK, Names
  <2>4. f.out < i /\ (f.kind \in Updates => f.x < i)
    BY <1>2, <2>1
  <2>5. n = i - 1 /\ Len(s) # 0
    BY <1>2
  <2>6. f.out <= n /\ (f.kind \in Updates => f.x <= n)
    BY <2>3, <2>4, <2>5
  <2> QED
    BY <2>1, <2>5, <2>6
<1>3. Routes(s, n, p)
  <2>1. CASE Len(s) = end + 1
    BY <1>2, <2>1 DEF Routes
  <2>2. CASE Len(s) # end + 1
    BY <2>2 DEF Routes
  <2> QED
    BY <2>1, <2>2
<1>4. Stack(t) /\ Len(t) = (IF p = <<>> THEN n ELSE n + 1) /\ \A k \in 1..n : t[k] = s[k]
  <2>1. Bottom(s, n, a)
    BY DEF Bottom
  <2>2. Rebuilt(s, n, p, a \o p)
    BY <1>3, <2>1, CutStack
  <2> QED
    BY <2>2 DEF Rebuilt
<1>5. Regions(t) \in Nat /\ Len(t) \in Nat
  BY <1>4, RegionsTyped, SeqIs DEF Stack
<1>6. Beyond(s, t)
  <2>1. CASE Len(s) = end + 1
    <3>1. n = i - 1 /\ n + 1 < Len(s) /\ n < Len(s)
      BY <2>1
    <3>2. Len(t) < Len(s)
      BY <1>4, <3>1
    <3> QED
      BY <3>2 DEF Beyond
  <2>2. CASE Len(s) # end + 1
    <3>1. p = <<>>
      BY <2>2
    <3>2. Len(t) = n
      BY <1>4, <3>1
    <3> QED
      BY <1>1, <1>4, <3>2 DEF Beyond
  <2> QED
    BY <2>1, <2>2
<1> QED
  BY <1>4, <1>5, <1>6

\* A cut leaves a stack lower than it found it, or as it found it.
LEMMA CutReady ==
  ASSUME NEW g, Ready(g), NEW i \in Nat \ {0}, NEW end \in Nat, i <= end, Parks(g, i, end),
         NEW h, h = CutCountedSource(g, i, end)
  PROVE  Ready(h) /\ h.error = g.error /\ Beyond(g.frames, h.frames)
<1>1. PICK s : s = g.frames
  OBVIOUS
<1>2. PICK e : e = Min({end, Len(s)})
  OBVIOUS
<1>3. PICK n : n = Min({i - 1, end, Len(s)})
  OBVIOUS
<1>4. PICK short : short = SubSeq(s, 1, e)
  OBVIOUS
<1>5. PICK a : a = SubSeq(short, 1, n)
  OBVIOUS
<1>6. PICK p : p = SubSeq(s, end + 1, Len(s))
  OBVIOUS
<1>7. PICK t : t = a \o p
  OBVIOUS
<1>8. PICK d : d = Max({0, g.depth - Regions(SubSeq(short, n + 1, Len(short)))})
  OBVIOUS
<1>9. PICK c : c = g.depth
  OBVIOUS
<1>10. /\ Stack(s) /\ DOMAIN g = MachineFields /\ g.outcome = "running"
       /\ c \in Nat /\ c <= Regions(s) /\ Depth(g) = Len(s)
  BY <1>1, <1>9 DEF Ready, Live, Depth
<1>11. /\ Len(s) <= end + 1
       /\ Len(s) = end + 1 => /\ s[Len(s)].out < i
                              /\ s[Len(s)].kind \in Updates => s[Len(s)].x < i
  BY <1>1, <1>10 DEF Parks
<1>12. Stack(t) /\ Len(t) \in Nat /\ Beyond(s, t) /\ d \in Nat /\ d <= Regions(t) /\ Len(short) = e
  <2>1. PICK len : len = Len(s)
    OBVIOUS
  <2>2. len \in Nat /\ IsSeq(s)
    BY <1>10, <2>1, SeqIs DEF Stack
  <2>3. e \in {end, len} /\ e <= end /\ e <= len
    <3>1. Min({end, len}) \in {end, len} /\ Min({end, len}) <= end /\ Min({end, len}) <= len
      BY <2>2, MinOfTwo
    <3> QED
      BY <1>2, <2>1, <3>1
  <2>4. n \in {i - 1, end, len} /\ n <= i - 1 /\ n <= end /\ n <= len
    <3>1. PICK j : j = i - 1
      OBVIOUS
    <3>2. j \in Int /\ end \in Int /\ len \in Int
      BY <2>2, <3>1
    <3>3. /\ Min({j, end, len}) \in {j, end, len} /\ Min({j, end, len}) <= j
          /\ Min({j, end, len}) <= end /\ Min({j, end, len}) <= len
      BY <3>2, MinOfThree
    <3> QED
      BY <1>3, <2>1, <3>1, <3>3
  <2>5. /\ e \in 0..len /\ n \in 0..e /\ n \in 0..len /\ n \in Nat /\ e \in Nat
        /\ len # end + 1 => e = len
        /\ len = end + 1 => e = end /\ n = i - 1
    BY <1>11, <2>1, <2>2, <2>3, <2>4
  <2>6. IsSeq(p) /\ p = IF Len(s) = end + 1 THEN <<s[Len(s)]>> ELSE <<>>
    <3>1. IsParked(s, end, SubSeq(s, end + 1, Len(s)))
      BY <1>11, <2>2, ParkedIs
    <3> QED
      BY <1>6, <3>1 DEF IsParked
  <2>7. Stack(short) /\ Len(short) = e /\ \A k \in 1..e : short[k] = s[k]
    <3>1. e \in 0..Len(s)
      BY <2>1, <2>5
    <3> QED
      BY <1>4, <1>10, <3>1, StackPrefix
  <2>8. Stack(a) /\ Len(a) = n /\ \A k \in 1..n : a[k] = s[k]
    <3>1. n \in 0..Len(short)
      BY <2>5, <2>7
    <3>2. Stack(a) /\ Len(a) = n /\ \A k \in 1..n : a[k] = short[k]
      BY <1>5, <2>7, <3>1, StackPrefix
    <3>3. \A k \in 1..n : k \in 1..e
      BY <2>5
    <3> QED
      BY <2>7, <3>2, <3>3
  <2>9. Stack(t) /\ Len(t) \in Nat /\ Regions(t) \in Nat /\ Beyond(s, t)
    <3>1. n \in 0..Len(s) /\ n <= i - 1 /\ (Len(s) = end + 1 => n = i - 1)
      BY <2>1, <2>4, <2>5
    <3> QED
      BY <1>7, <1>10, <1>11, <2>6, <2>8, <3>1, CutMakes
  <2>10. PICK l : l = Regions(SubSeq(short, n + 1, Len(short)))
    OBVIOUS
  <2>11. l \in Nat /\ c <= Regions(t) + l
    <3>1. (e = Len(s) /\ p = <<>>) \/ (e + 1 = Len(s) /\ p = <<s[Len(s)]>>)
      BY <2>1, <2>5, <2>6
    <3>2. e \in 0..Len(s) /\ n \in 0..e
      BY <2>1, <2>5
    <3>3. l \in Nat /\ c <= Regions(a \o p) + l
      BY <1>4, <1>5, <1>10, <2>6, <2>10, <3>1, <3>2, CutRegions
    <3> QED
      BY <1>7, <3>3
  <2>12. d \in Nat /\ d <= Regions(t)
    <3>1. c - l \in Int
      BY <1>10, <2>11
    <3>2. d = Max({0, c - l})
      BY <1>8, <1>9, <2>10
    <3>3. d = IF c - l > 0 THEN c - l ELSE 0
      BY <3>1, <3>2, MaxOfZero
    <3> QED
      BY <1>10, <2>9, <2>11, <3>3
  <2> QED
    BY <2>7, <2>9, <2>12
<1>13. PICK kept : /\ DOMAIN kept = MachineFields /\ kept.frames = t /\ kept.depth = d
                   /\ kept.outcome = g.outcome /\ kept.pending = g.pending /\ kept.error = g.error
                   /\ h = IF kept.pending = Idle THEN kept
                          ELSE [kept EXCEPT !.pending.cont = Min({@, Depth(kept)})]
  <2>1. PICK cut : cut = [g EXCEPT !.frames = short]
    OBVIOUS
  <2>2. PICK base : base = PopTo(cut, n)
    OBVIOUS
  <2>3. PICK whole : whole = [base EXCEPT !.frames = base.frames \o p]
    OBVIOUS
  <2>4. DOMAIN cut = MachineFields /\ cut.frames = short /\ cut.depth = g.depth
        /\ cut.outcome = g.outcome /\ cut.pending = g.pending /\ cut.error = g.error
        /\ Depth(cut) = Len(short)
    BY <1>10, <2>1 DEF MachineFields, Depth
  <2>5. base = [cut EXCEPT !.frames = a, !.depth = d]
    BY <1>5, <1>8, <2>2, <2>4 DEF PopTo
  <2>6. DOMAIN base = MachineFields /\ base.frames = a /\ base.depth = d
        /\ base.outcome = g.outcome /\ base.pending = g.pending /\ base.error = g.error
    BY <2>4, <2>5 DEF MachineFields
  <2>7. DOMAIN whole = MachineFields /\ whole.frames = t /\ whole.depth = d
        /\ whole.outcome = g.outcome /\ whole.pending = g.pending /\ whole.error = g.error
    BY <1>7, <2>3, <2>6 DEF MachineFields
  <2>8. cut = [g EXCEPT !.frames = SubSeq(@, 1, Min({end, Depth(g)}))]
    BY <1>1, <1>2, <1>4, <1>10, <2>1
  <2>9. base = PopTo([g EXCEPT !.frames = SubSeq(@, 1, Min({end, Depth(g)}))], Min({i - 1, end, Depth(g)}))
    BY <1>3, <1>10, <2>2, <2>8
  <2>10. p = SubSeq(g.frames, end + 1, Depth(g))
    BY <1>1, <1>6, <1>10
  <2>11. h = IF whole.pending = Idle THEN whole
             ELSE [whole EXCEPT !.pending.cont = Min({@, Depth(whole)})]
    BY <2>3, <2>9, <2>10 DEF CutCountedSource
  <2> QED
    BY <2>7, <2>11
<1>14. /\ DOMAIN h = MachineFields /\ h.frames = t /\ h.depth = d
       /\ h.outcome = g.outcome /\ h.error = g.error
  BY <1>13 DEF MachineFields
<1>15. Live(h) /\ Depth(h) = Len(t)
  BY <1>10, <1>12, <1>14 DEF Live, Depth
<1>16. Tasked(h)
  <2>1. CASE g.pending = Idle
    BY <1>13, <2>1 DEF Tasked
  <2>2. CASE g.pending # Idle
    <3>1. "cont" \in DOMAIN g.pending /\ g.pending.cont \in Nat
      BY <2>2 DEF Ready, Tasked
    <3>2. Depth(kept) = Len(t)
      BY <1>13 DEF Depth
    <3>3. PICK b : b = Min({g.pending.cont, Len(t)})
      OBVIOUS
    <3>4. b \in {g.pending.cont, Len(t)} /\ b <= Len(t)
      <4>1. PICK x : x = g.pending.cont
        OBVIOUS
      <4>2. x \in Int /\ Len(t) \in Int
        BY <1>12, <3>1, <4>1
      <4>3. Min({x, Len(t)}) \in {x, Len(t)} /\ Min({x, Len(t)}) <= Len(t)
        BY <4>2, MinOfTwo
      <4> QED
        BY <3>3, <4>1, <4>3
    <3>5. h = [kept EXCEPT !.pending.cont = b]
      BY <1>13, <2>2, <3>2, <3>3
    <3>6. "cont" \in DOMAIN h.pending /\ h.pending.cont = b
      BY <1>13, <3>1, <3>5 DEF MachineFields
    <3>7. b \in Nat
      BY <1>12, <3>1, <3>4
    <3> QED
      BY <1>15, <3>4, <3>6, <3>7 DEF Tasked
  <2> QED
    BY <2>1, <2>2
<1> QED
  BY <1>1, <1>12, <1>14, <1>15, <1>16 DEF Ready

-----------------------------------------------------------------------------
(* What a consumer does to the stack: nothing, a change to what a frame    *)
(* holds, or one frame on top.                                             *)

\* The same stack, but for what its frames hold, with the same task.
Level(g, h) ==
  /\ Live(h) /\ Depth(h) = Depth(g) /\ h.pending = g.pending
  /\ \A k \in 1..Depth(g) :
       h.frames[k].kind = g.frames[k].kind /\ h.frames[k].at = g.frames[k].at

\* What the consumer at i leaves.
After(g, i, h) ==
  /\ Ready(h)
  /\ \/ Depth(h) <= Depth(g)
     \/ /\ Depth(h) = Depth(g) + 1
        /\ h.frames[Depth(h)].out < i
        /\ h.frames[Depth(h)].kind \in Updates => h.frames[Depth(h)].x <= i

\* One change after another.
LEMMA LevelAgain ==
  ASSUME NEW g, NEW h, Level(g, h), NEW k, Level(h, k)
  PROVE  Level(g, k)
BY DEF Level

\* What one frame holds.
LEMMA HoldLevel ==
  ASSUME NEW g, Live(g), NEW i \in 1..Depth(g), g.frames[i].kind \notin Updates, NEW e
  PROVE  Level(g, Hold(g, i, e))
<1> SUFFICES ASSUME NEW h, h = Hold(g, i, e) PROVE Level(g, h)
  OBVIOUS
<1>1. Keeps(g, h) /\ Depth(h) = Depth(g) /\ Alike(g.frames, h.frames)
  BY HoldKeeps
<1>2. Depth(g) = Len(g.frames)
  BY DEF Depth
<1> QED
  BY <1>1, <1>2 DEF Level, Keeps, Alike

\* A dot that is moved out of one.
LEMMA RetainedLevel ==
  ASSUME NEW g, Live(g), NEW i \in 1..Depth(g)
  PROVE  Level(g, Retained(g, i))
<1> SUFFICES ASSUME NEW h, h = Retained(g, i) PROVE Level(g, h)
  OBVIOUS
<1>1. Keeps(g, h) /\ Depth(h) = Depth(g) /\ Alike(g.frames, h.frames)
  BY HoldKeeps
<1>2. Depth(g) = Len(g.frames)
  BY DEF Depth
<1> QED
  BY <1>1, <1>2 DEF Level, Keeps, Alike

\* What is beside the stack, but not the task.
Beside(g, h) == /\ DOMAIN h = MachineFields /\ h.frames = g.frames /\ h.outcome = g.outcome
                /\ h.depth \in Nat /\ h.depth <= g.depth /\ h.pending = g.pending

\* Nothing of which is the stack's.
LEMMA BesideLevel ==
  ASSUME NEW g, Live(g), NEW h, Beside(g, h)
  PROVE  Level(g, h)
<1>1. /\ DOMAIN h = MachineFields /\ h.frames = g.frames /\ h.outcome = g.outcome
      /\ h.depth \in Nat /\ h.depth <= g.depth /\ h.pending = g.pending
  BY DEF Beside
<1>2. Live(h) /\ Depth(h) = Depth(g)
  BY <1>1, BesideLive
<1> QED
  BY <1>1, <1>2 DEF Level

\* A failure, the cell a pair notes, a binding, and a region left.
LEMMA FailLevel ==
  ASSUME NEW g, Live(g), NEW v, NEW c
  PROVE  Level(g, Fail(g, v, c))
<1>1. DOMAIN g = MachineFields /\ g.depth \in Nat
  BY DEF Live
<1>2. Beside(g, Fail(g, v, c))
  BY <1>1 DEF Beside, Fail, MachineFields
<1> QED
  BY <1>2, BesideLevel

\* The cell a pair notes, and its failure.
LEMMA PairLevel ==
  ASSUME NEW g, Live(g), NEW at, NEW l, NEW r, NEW out
  PROVE  Level(g, Pair(g, at, l, r, out))
<1>1. DOMAIN g = MachineFields /\ g.depth \in Nat
  BY DEF Live
<1>2. PICK q : /\ q = g \/ q = [g EXCEPT !.noted = @ \union {at}]
               /\ Pair(g, at, l, r, out) = Fail(q, Text, out) \/ Pair(g, at, l, r, out) = q
  BY DEF Pair
<1>3. Beside(g, q)
  BY <1>1, <1>2 DEF Beside, MachineFields
<1>4. Level(g, q)
  BY <1>3, BesideLevel
<1>5. Level(g, Fail(q, Text, out))
  <2>1. Live(q)
    BY <1>4 DEF Level
  <2>2. Level(q, Fail(q, Text, out))
    BY <2>1, FailLevel
  <2> QED
    BY <1>4, <2>2, LevelAgain
<1> QED
  BY <1>2, <1>4, <1>5

\* A binding.
LEMMA BindLevel ==
  ASSUME NEW g, Live(g), NEW e, NEW h, h = [g EXCEPT !.env = e]
  PROVE  Level(g, h)
<1>1. DOMAIN g = MachineFields /\ g.depth \in Nat
  BY DEF Live
<1>2. Beside(g, h)
  BY <1>1 DEF Beside, MachineFields
<1> QED
  BY <1>2, BesideLevel

\* A region that is left early.
LEMMA LeaveLevel ==
  ASSUME NEW g, Live(g), NEW h, h = [g EXCEPT !.depth = Max({0, g.depth - 1})]
  PROVE  Level(g, h)
<1>1. DOMAIN g = MachineFields /\ g.depth \in Nat
  BY DEF Live
<1>2. PICK d : d = Max({0, g.depth - 1})
  OBVIOUS
<1>3. d \in Nat /\ d <= g.depth
  <2>1. PICK j : j = g.depth - 1
    OBVIOUS
  <2>2. j \in Int /\ d = Max({0, j})
    BY <1>1, <1>2, <2>1
  <2>3. d = IF j > 0 THEN j ELSE 0
    BY <2>2, MaxOfZero
  <2> QED
    BY <1>1, <2>1, <2>3
<1>4. Beside(g, h)
  BY <1>1, <1>2, <1>3 DEF Beside, MachineFields
<1> QED
  BY <1>4, BesideLevel

\* The consumer may leave it at that.
LEMMA LevelAfter ==
  ASSUME NEW g, NEW i, g.pending = Idle, NEW h, Level(g, h)
  PROVE  After(g, i, h)
<1>1. Live(h) /\ Depth(h) = Depth(g) /\ h.pending = g.pending
  BY DEF Level
<1>2. Depth(h) \in Nat
  BY <1>1, LiveStack
<1> QED
  BY <1>1, <1>2 DEF After, Ready, Tasked

\* It may leave a task that routes into the stack.
LEMMA EvalAfter ==
  ASSUME NEW g, NEW i, NEW h, Level(g, h), NEW at, NEW e, NEW c \in Nat, c <= Depth(g)
  PROVE  After(g, i, Eval(h, at, e, c))
<1>1. Live(h) /\ Depth(h) = Depth(g)
  BY DEF Level
<1>2. PICK k : k = Eval(h, at, e, c)
  OBVIOUS
<1>3. Ready(k) /\ Depth(k) = Depth(h)
  BY <1>1, <1>2, TaskReady
<1>4. Depth(h) \in Nat
  BY <1>1, LiveStack
<1> QED
  BY <1>1, <1>2, <1>3, <1>4 DEF After

\* Or evaluate into one more frame, which may be its update frame.
LEMMA IntoAfter ==
  ASSUME NEW g, NEW i \in 1..Depth(g), NEW h, Level(g, h), NEW kind, NEW at, NEW e, NEW c \in Nat, c < i, NEW x,
         kind \in Updates => x = i /\ g.frames[i].kind \in Sources /\ g.frames[i].at = at,
         NEW way, NEW dot2
  PROVE  After(g, i, Into(h, Frame(kind, at, e, c, x), way, dot2))
<1>1. Live(h) /\ Depth(h) = Depth(g)
  BY DEF Level
<1>2. Depth(h) \in Nat /\ Depth(h) = Len(h.frames)
  BY <1>1, LiveStack
<1>3. PICK f : f = Frame(kind, at, e, c, x)
  OBVIOUS
<1>4. DOMAIN f = FrameFields /\ f.kind = kind /\ f.at = at /\ f.out = c /\ f.x = x
  BY <1>3 DEF Frame, FrameFields
<1>5. Names(h.frames, f)
  BY <1>1, <1>2, <1>4 DEF Names, Level
<1>6. f.out \in Nat /\ f.out <= Depth(h)
  BY <1>1, <1>2, <1>4
<1>7. PICK k : k = Into(h, f, way, dot2)
  OBVIOUS
<1>8. Ready(k) /\ Depth(k) = Depth(h) + 1 /\ k.frames[Depth(h) + 1] = f
  BY <1>1, <1>4, <1>5, <1>6, <1>7, IntoReady
<1>9. f.out < i /\ (f.kind \in Updates => f.x <= i)
  BY <1>4
<1> QED
  BY <1>1, <1>3, <1>7, <1>8, <1>9 DEF After

-----------------------------------------------------------------------------
(* A value on its way.                                                     *)

WayFields == {"g", "v", "cont", "cuts", "open"}

\* Each countdown it spent will find its source's end; while the value is under
\* way nothing is above that end, and it goes on below every one of them.
WayOK(w) ==
  /\ DOMAIN w = WayFields
  /\ Ready(w.g)
  /\ \A c \in DOMAIN w.cuts : /\ c \in Nat \ {0} /\ w.cuts[c] \in Nat /\ c <= w.cuts[c]
                              /\ Parks(w.g, c, w.cuts[c])
  /\ w.open => /\ w.g.pending = Idle /\ w.cont \in Nat
               /\ \A c \in DOMAIN w.cuts : w.cont < c /\ Depth(w.g) <= w.cuts[c]

\* The value is at a frame.
At(w, i) == WayOK(w) /\ w.open /\ i \in 1..Depth(w.g) /\ i <= w.cont

\* It may stop there.
LEMMA StopOK ==
  ASSUME NEW w, NEW i, At(w, i), NEW h, After(w.g, i, h)
  PROVE  WayOK(Stop(w, h))
<1> SUFFICES ASSUME NEW u, u = Stop(w, h) PROVE WayOK(u)
  OBVIOUS
<1>1. /\ DOMAIN w = WayFields /\ Ready(w.g) /\ w.cont \in Nat /\ i \in 1..Depth(w.g) /\ i <= w.cont
      /\ \A c \in DOMAIN w.cuts : /\ c \in Nat \ {0} /\ w.cuts[c] \in Nat /\ c <= w.cuts[c]
                                  /\ w.cont < c /\ Depth(w.g) <= w.cuts[c]
  BY DEF At, WayOK
<1>2. DOMAIN u = WayFields /\ u.g = h /\ u.cuts = w.cuts /\ u.open = FALSE
  BY <1>1 DEF Stop, WayFields
<1>3. Depth(w.g) \in Nat /\ Depth(h) \in Nat /\ Ready(h)
  BY <1>1, LiveStack DEF Ready, After
<1>4. ASSUME NEW c \in DOMAIN w.cuts PROVE Parks(h, c, w.cuts[c])
  <2>1. PICK end : end = w.cuts[c]
    OBVIOUS
  <2>2. c \in Nat /\ end \in Nat /\ i < c /\ Depth(w.g) <= end
    BY <1>1, <1>3, <2>1
  <2>3. CASE Depth(h) <= Depth(w.g)
    <3>1. Depth(h) <= end /\ Depth(h) # end + 1 /\ Depth(h) <= end + 1
      BY <1>3, <2>2, <2>3
    <3> QED
      BY <2>1, <3>1 DEF Parks
  <2>4. CASE /\ Depth(h) = Depth(w.g) + 1
             /\ h.frames[Depth(h)].out < i
             /\ h.frames[Depth(h)].kind \in Updates => h.frames[Depth(h)].x <= i
    <3>1. PICK f : f = h.frames[Depth(h)]
      OBVIOUS
    <3>2. Depth(h) \in 1..Depth(h) /\ Live(h)
      BY <1>3, <2>4 DEF Ready
    <3>3. FrameOK(h.frames, Depth(h))
      <4>1. Stack(h.frames) /\ Depth(h) = Len(h.frames)
        BY <3>2 DEF Live, Depth
      <4> QED
        BY <3>2, <4>1 DEF Stack
    <3>4. f.out \in Nat /\ (f.kind \in Updates => f.x \in 1..Len(h.frames))
      BY <3>1, <3>3 DEF FrameOK, Names
    <3>5. Len(h.frames) \in Nat
      BY <1>3 DEF Depth
    <3>6. f.out < i /\ (f.kind \in Updates => f.x <= i)
      BY <2>4, <3>1
    <3>7. f.out < c /\ (f.kind \in Updates => f.x < c)
      BY <1>1, <1>3, <2>2, <3>4, <3>5, <3>6
    <3>8. Depth(h) <= end + 1
      BY <1>3, <2>2, <2>4
    <3> QED
      BY <2>1, <3>1, <3>7, <3>8 DEF Parks
  <2> QED
    BY <2>3, <2>4 DEF After
<1> QED
  BY <1>1, <1>2, <1>3, <1>4 DEF WayOK

\* It may go on below.
LEMMA PassKeeps ==
  ASSUME NEW w, NEW i, At(w, i), NEW h, Level(w.g, h), NEW v, NEW c \in Nat, c < i,
         NEW u, u = Pass(w, h, v, c)
  PROVE  /\ WayOK(u) /\ u.cuts = w.cuts /\ u.cont = c /\ u.open /\ u.g.pending = Idle
         /\ Depth(u.g) \in Nat /\ Depth(u.g) <= Depth(w.g)
<1>1. /\ DOMAIN w = WayFields /\ Ready(w.g) /\ w.cont \in Nat /\ i \in 1..Depth(w.g) /\ i <= w.cont
      /\ w.g.pending = Idle /\ w.open
      /\ \A k \in DOMAIN w.cuts : /\ k \in Nat \ {0} /\ w.cuts[k] \in Nat /\ k <= w.cuts[k]
                                  /\ w.cont < k /\ Depth(w.g) <= w.cuts[k]
  BY DEF At, WayOK
<1>2. Live(h) /\ Depth(h) = Depth(w.g) /\ h.pending = w.g.pending
  BY DEF Level
<1>3. PICK t : t = TrimSpent(h, c)
  OBVIOUS
<1>4. Keeps(h, t) /\ Depth(t) \in Nat /\ Depth(t) <= Depth(h)
  BY <1>2, <1>3, TrimKeeps
<1>5. Ready(t) /\ t.pending = Idle
  BY <1>1, <1>2, <1>4 DEF Keeps, Ready, Tasked
<1>6. DOMAIN u = WayFields /\ u.g = t /\ u.cont = c /\ u.cuts = w.cuts /\ u.open = w.open
  BY <1>1, <1>3 DEF Pass, WayFields
<1>7. Depth(w.g) \in Nat
  BY <1>1, LiveStack DEF Ready
<1>8. ASSUME NEW k \in DOMAIN w.cuts
      PROVE  Parks(t, k, w.cuts[k]) /\ c < k /\ Depth(t) <= w.cuts[k]
  <2>1. PICK end : end = w.cuts[k]
    OBVIOUS
  <2>2. k \in Nat /\ end \in Nat /\ i < k /\ Depth(w.g) <= end
    BY <1>1, <1>7, <2>1
  <2>3. Depth(t) <= end /\ Depth(t) <= end + 1 /\ Depth(t) # end + 1 /\ c < k
    BY <1>1, <1>2, <1>4, <1>7, <2>2
  <2> QED
    BY <2>1, <2>3 DEF Parks
<1>9. WayOK(u)
  BY <1>1, <1>5, <1>6, <1>8 DEF WayOK
<1> QED
  BY <1>1, <1>2, <1>4, <1>5, <1>6, <1>9

\* In short.
LEMMA PassOK ==
  ASSUME NEW w, NEW i, At(w, i), NEW h, Level(w.g, h), NEW v, NEW c \in Nat, c < i
  PROVE  WayOK(Pass(w, h, v, c))
<1>1. PICK u : u = Pass(w, h, v, c)
  OBVIOUS
<1>2. WayOK(u)
  BY <1>1, PassKeeps
<1> QED
  BY <1>1, <1>2

\* It may spend the countdown there.
LEMMA SpendOK ==
  ASSUME NEW w, NEW i, At(w, i), NEW h, Level(w.g, h), NEW v, NEW c \in Nat, c < i
  PROVE  WayOK([Pass(w, h, v, c) EXCEPT !.cuts = Spend(@, i, Depth(w.g))])
<1>1. PICK u : u = Pass(w, h, v, c)
  OBVIOUS
<1>2. /\ WayOK(u) /\ u.cuts = w.cuts /\ u.cont = c /\ u.open /\ u.g.pending = Idle
      /\ Depth(u.g) \in Nat /\ Depth(u.g) <= Depth(w.g)
  BY <1>1, PassKeeps
<1>3. PICK cuts : cuts = Spend(w.cuts, i, Depth(w.g))
  OBVIOUS
<1>4. PICK x : x = [u EXCEPT !.cuts = cuts]
  OBVIOUS
<1>5. DOMAIN u = WayFields /\ Ready(u.g)
  BY <1>2 DEF WayOK
<1>6. DOMAIN x = WayFields /\ x.g = u.g /\ x.cuts = cuts /\ x.cont = c /\ x.open
  BY <1>2, <1>4, <1>5 DEF WayFields
<1>7. Depth(w.g) \in Nat /\ i \in 1..Depth(w.g)
  BY LiveStack DEF At, WayOK, Ready
<1>8. /\ DOMAIN cuts = DOMAIN w.cuts \cup {i}
      /\ \A k \in DOMAIN cuts : cuts[k] = IF k = i THEN Depth(w.g) ELSE w.cuts[k]
  BY <1>3 DEF Spend
<1>9. ASSUME NEW k \in DOMAIN cuts
      PROVE  /\ k \in Nat \ {0} /\ cuts[k] \in Nat /\ k <= cuts[k] /\ Parks(u.g, k, cuts[k])
             /\ c < k /\ Depth(u.g) <= cuts[k]
  <2>1. CASE k = i
    <3>1. PICK end : end = Depth(w.g)
      OBVIOUS
    <3>2. cuts[k] = end
      BY <1>8, <2>1, <3>1
    <3>3. Depth(u.g) <= end /\ Depth(u.g) <= end + 1 /\ Depth(u.g) # end + 1
      BY <1>2, <1>7, <3>1
    <3>4. Parks(u.g, k, end)
      BY <3>3 DEF Parks
    <3> QED
      BY <1>7, <2>1, <3>1, <3>2, <3>3, <3>4
  <2>2. CASE k # i
    <3>1. k \in DOMAIN u.cuts /\ cuts[k] = u.cuts[k]
      BY <1>2, <1>8, <2>2
    <3> QED
      BY <1>2, <3>1 DEF WayOK
  <2> QED
    BY <2>1, <2>2
<1>10. WayOK(x)
  BY <1>2, <1>5, <1>6, <1>9 DEF WayOK
<1>11. x = [Pass(w, h, v, c) EXCEPT !.cuts = Spend(@, i, Depth(w.g))]
  BY <1>1, <1>2, <1>3, <1>4
<1> QED
  BY <1>10, <1>11

\* Where a value is, the stack stands and the frame routes below itself.
LEMMA AtFrame ==
  ASSUME NEW w, NEW i, At(w, i)
  PROVE  /\ Live(w.g) /\ w.g.pending = Idle /\ Depth(w.g) \in Nat /\ i \in 1..Depth(w.g)
         /\ Level(w.g, w.g) /\ w.g.frames[i].out \in Nat /\ w.g.frames[i].out < i
         /\ w.g.frames[i].out <= Depth(w.g)
<1>1. Live(w.g) /\ w.g.pending = Idle /\ i \in 1..Depth(w.g)
  BY DEF At, WayOK, Ready
<1>2. /\ Depth(w.g) \in Nat
      /\ \A k \in 1..Depth(w.g) : w.g.frames[k].out \in Nat /\ w.g.frames[k].out < k
  BY <1>1, LiveStack
<1>3. PICK o : o = w.g.frames[i].out
  OBVIOUS
<1>4. o \in Nat /\ o < i
  BY <1>1, <1>2, <1>3
<1>5. o <= Depth(w.g)
  BY <1>1, <1>2, <1>4
<1> QED
  BY <1>1, <1>2, <1>3, <1>4, <1>5 DEF Level

-----------------------------------------------------------------------------
(* The consumers.                                                          *)

\* The consumers that evaluate a graph for the value and hold nothing.
LEMMA ConsumeEval ==
  ASSUME NEW w, NEW i, At(w, i), w.g.frames[i].kind \in {"FlatMapBody", "ConditionalBody"}
  PROVE  WayOK(Consume(w, i))
<1>1. PICK at, e : Consume(w, i) = Stop(w, Eval(w.g, at, e, w.g.frames[i].out))
  <2>1. CASE w.g.frames[i].kind = "FlatMapBody"
    BY <2>1 DEF Consume
  <2>2. CASE w.g.frames[i].kind = "ConditionalBody"
    BY <2>2 DEF Consume
  <2> QED
    BY <2>1, <2>2
<1>2. After(w.g, i, Eval(w.g, at, e, w.g.frames[i].out))
  BY AtFrame, EvalAfter
<1> QED
  BY <1>1, <1>2, StopOK

\* An array grows.
LEMMA ConsumeCollect ==
  ASSUME NEW w, NEW i, At(w, i), w.g.frames[i].kind = "Collect"
  PROVE  WayOK(Consume(w, i))
<1>1. Consume(w, i) = Stop(w, Hold(w.g, i, Append(w.g.frames[i].x, w.v)))
  BY DEF Consume
<1>2. PICK x : x = Append(w.g.frames[i].x, w.v)
  OBVIOUS
<1>3. Level(w.g, Hold(w.g, i, x))
  BY AtFrame, HoldLevel DEF Updates
<1>4. After(w.g, i, Hold(w.g, i, x))
  BY <1>3, AtFrame, LevelAfter
<1> QED
  BY <1>1, <1>2, <1>4, StopOK

\* What passes, or is dropped.
LEMMA ConsumeSelect ==
  ASSUME NEW w, NEW i, At(w, i), w.g.frames[i].kind \in {"SelectBody", "LogicalRight"}
  PROVE  WayOK(Consume(w, i))
<1>1. PICK v : \/ Consume(w, i) = Pass(w, w.g, v, w.g.frames[i].out)
               \/ Consume(w, i) = Stop(w, w.g)
  <2>1. CASE w.g.frames[i].kind = "SelectBody"
    BY <2>1 DEF Consume
  <2>2. CASE w.g.frames[i].kind = "LogicalRight"
    BY <2>2 DEF Consume
  <2> QED
    BY <2>1, <2>2
<1>2. WayOK(Pass(w, w.g, v, w.g.frames[i].out))
  BY AtFrame, PassOK
<1>3. WayOK(Stop(w, w.g))
  BY AtFrame, LevelAfter, StopOK
<1> QED
  BY <1>1, <1>2, <1>3

\* A countdown.
LEMMA ConsumeCount ==
  ASSUME NEW w, NEW i, At(w, i), w.g.frames[i].kind = "Counted"
  PROVE  WayOK(Consume(w, i))
<1>1. Consume(w, i) = ConsumeCounted(w, i)
  BY DEF Consume
<1>2. PICK h : h = Paid(w.g, i).state
  OBVIOUS
<1>3. PICK f : f = w.g.frames[i]
  OBVIOUS
<1>4. PICK e : h = Hold(w.g, i, e)
  BY <1>2 DEF Paid
<1>5. Level(w.g, h)
  BY <1>4, AtFrame, HoldLevel DEF Updates
<1>6. \/ ConsumeCounted(w, i) = Stop(w, Fail(w.g, Text, f.out))
      \/ ConsumeCounted(w, i) = Stop(w, h)
      \/ ConsumeCounted(w, i) = Pass(w, h, w.v, f.out)
      \/ ConsumeCounted(w, i) = [Pass(w, h, w.v, f.out) EXCEPT !.cuts = Spend(@, i, Depth(w.g))]
  BY <1>2, <1>3 DEF ConsumeCounted
<1>7. f.out \in Nat /\ f.out < i
  BY <1>3, AtFrame
<1>8. WayOK(Stop(w, Fail(w.g, Text, f.out)))
  <2>1. Level(w.g, Fail(w.g, Text, f.out))
    BY AtFrame, FailLevel
  <2>2. After(w.g, i, Fail(w.g, Text, f.out))
    BY <2>1, AtFrame, LevelAfter
  <2> QED
    BY <2>2, StopOK
<1>9. WayOK(Stop(w, h))
  BY <1>5, AtFrame, LevelAfter, StopOK
<1>10. WayOK(Pass(w, h, w.v, f.out))
  BY <1>5, <1>7, PassOK
<1>11. WayOK([Pass(w, h, w.v, f.out) EXCEPT !.cuts = Spend(@, i, Depth(w.g))])
  BY <1>5, <1>7, SpendOK
<1> QED
  BY <1>1, <1>6, <1>8, <1>9, <1>10, <1>11

\* The right operand of a pair, and the initial state of a loop: each goes into
\* a frame over its own.
LEMMA ConsumeInto ==
  ASSUME NEW w, NEW i, At(w, i), w.g.frames[i].kind \in {"BinaryRight", "ReduceInit", "ForeachInit"}
  PROVE  WayOK(Consume(w, i))
<1>1. PICK kind, at, x, way, e :
        /\ kind \notin Updates
        /\ Consume(w, i) = Stop(w, Into(Retained(w.g, i), Frame(kind, at, Null, w.g.frames[i].out, x), way, e))
  <2>1. CASE w.g.frames[i].kind = "BinaryRight"
    BY <2>1 DEF Consume, Updates
  <2>2. CASE w.g.frames[i].kind \in {"ReduceInit", "ForeachInit"}
    BY <2>2 DEF Consume, Updates
  <2> QED
    BY <2>1, <2>2
<1>2. Level(w.g, Retained(w.g, i))
  BY AtFrame, RetainedLevel
<1>3. PICK o : o = w.g.frames[i].out
  OBVIOUS
<1>4. o \in Nat /\ o < i /\ i \in 1..Depth(w.g)
  BY <1>3, AtFrame
<1>5. After(w.g, i, Into(Retained(w.g, i), Frame(kind, at, Null, o, x), way, e))
  BY <1>1, <1>2, <1>4, IntoAfter
<1> QED
  BY <1>1, <1>3, <1>5, StopOK

\* The pair itself.
LEMMA ConsumePair ==
  ASSUME NEW w, NEW i, At(w, i), w.g.frames[i].kind = "BinaryLeft"
  PROVE  WayOK(Consume(w, i))
<1>1. PICK f : f = w.g.frames[i]
  OBVIOUS
<1>2. PICK h : h = Pair(w.g, f.at, w.v, f.x, f.out)
  OBVIOUS
<1>3. PICK v : \/ Consume(w, i) = Stop(w, h)
               \/ Consume(w, i) = Pass(w, h, v, f.out)
  BY <1>1, <1>2 DEF Consume
<1>4. Level(w.g, h)
  BY <1>2, AtFrame, PairLevel
<1>5. WayOK(Stop(w, h))
  BY <1>4, AtFrame, LevelAfter, StopOK
<1>6. f.out \in Nat /\ f.out < i
  BY <1>1, AtFrame
<1>7. WayOK(Pass(w, h, v, f.out))
  BY <1>4, <1>6, PassOK
<1> QED
  BY <1>3, <1>5, <1>7

\* The first truthy output of an alternative ends its region.
LEMMA ConsumeAlternative ==
  ASSUME NEW w, NEW i, At(w, i), w.g.frames[i].kind = "AlternativeLeft"
  PROVE  WayOK(Consume(w, i))
<1>1. PICK h : h = Hold(w.g, i, TRUE)
  OBVIOUS
<1>2. PICK k : k = [h EXCEPT !.depth = Max({0, h.depth - 1})]
  OBVIOUS
<1>3. PICK o : o = w.g.frames[i].out
  OBVIOUS
<1>4. \/ Consume(w, i) = Pass(w, k, w.v, o)
      \/ Consume(w, i) = Stop(w, w.g)
  BY <1>1, <1>2, <1>3 DEF Consume
<1>5. Level(w.g, h)
  BY <1>1, AtFrame, HoldLevel DEF Updates
<1>6. Level(h, k)
  <2>1. Live(h)
    BY <1>5 DEF Level
  <2> QED
    BY <1>2, <2>1, LeaveLevel
<1>7. Level(w.g, k)
  BY <1>5, <1>6, LevelAgain
<1>8. o \in Nat /\ o < i
  BY <1>3, AtFrame
<1>9. WayOK(Pass(w, k, w.v, o))
  BY <1>7, <1>8, PassOK
<1>10. WayOK(Stop(w, w.g))
  BY AtFrame, LevelAfter, StopOK
<1> QED
  BY <1>4, <1>9, <1>10

\* A logical operator needs its right side or does not.
LEMMA ConsumeLogical ==
  ASSUME NEW w, NEW i, At(w, i), w.g.frames[i].kind = "LogicalLeft"
  PROVE  WayOK(Consume(w, i))
<1>1. PICK o : o = w.g.frames[i].out
  OBVIOUS
<1>2. PICK v, at, way, e :
        \/ Consume(w, i) = Pass(w, w.g, v, o)
        \/ Consume(w, i) = Stop(w, Into(w.g, Frame("LogicalRight", at, Null, o, Null), way, e))
  BY <1>1 DEF Consume
<1>3. o \in Nat /\ o < i /\ i \in 1..Depth(w.g) /\ Level(w.g, w.g)
  BY <1>1, AtFrame
<1>4. WayOK(Pass(w, w.g, v, o))
  BY <1>3, PassOK
<1>5. After(w.g, i, Into(w.g, Frame("LogicalRight", at, Null, o, Null), way, e))
  BY <1>3, IntoAfter DEF Updates
<1>6. WayOK(Stop(w, Into(w.g, Frame("LogicalRight", at, Null, o, Null), way, e)))
  BY <1>5, StopOK
<1> QED
  BY <1>2, <1>4, <1>6

\* A raise.
LEMMA ConsumeError ==
  ASSUME NEW w, NEW i, At(w, i), w.g.frames[i].kind = "ErrorArg"
  PROVE  WayOK(Consume(w, i))
<1>1. Consume(w, i) = Stop(w, Fail(w.g, w.v, w.g.frames[i].out))
  BY DEF Consume
<1>2. PICK h : h = Fail(w.g, w.v, w.g.frames[i].out)
  OBVIOUS
<1>3. Level(w.g, h)
  BY <1>2, AtFrame, FailLevel
<1>4. After(w.g, i, h)
  BY <1>3, AtFrame, LevelAfter
<1> QED
  BY <1>1, <1>2, <1>4, StopOK

\* A binder.
LEMMA ConsumeBind ==
  ASSUME NEW w, NEW i, At(w, i), w.g.frames[i].kind = "BindBody"
  PROVE  WayOK(Consume(w, i))
<1>1. PICK h : h = Retained(w.g, i)
  OBVIOUS
<1>2. PICK f : f = w.g.frames[i]
  OBVIOUS
<1>3. PICK at, e, env :
        Consume(w, i) = Stop(w, Eval([h EXCEPT !.env = env], at, e, f.out))
  <2>1. PICK env : env = (f.at :> w.v) @@ h.env
    OBVIOUS
  <2>2. [h EXCEPT !.env = (f.at :> w.v) @@ @] = [h EXCEPT !.env = env]
    BY <2>1
  <2>3. Consume(w, i) = Stop(w, Eval([h EXCEPT !.env = (f.at :> w.v) @@ @], f.at \o <<"body">>, f.in, f.out))
    BY <1>1, <1>2 DEF Consume
  <2> QED
    BY <2>2, <2>3
<1>4. PICK k : k = [h EXCEPT !.env = env]
  OBVIOUS
<1>5. Level(w.g, h)
  BY <1>1, AtFrame, RetainedLevel
<1>6. Level(h, k)
  <2>1. Live(h)
    BY <1>5 DEF Level
  <2> QED
    BY <1>4, <2>1, BindLevel
<1>7. Level(w.g, k)
  BY <1>5, <1>6, LevelAgain
<1>8. f.out \in Nat /\ f.out <= Depth(w.g)
  BY <1>2, AtFrame
<1>9. After(w.g, i, Eval(k, at, e, f.out))
  BY <1>7, <1>8, EvalAfter
<1> QED
  BY <1>3, <1>4, <1>9, StopOK

\* An item of a loop's source.
LEMMA ConsumeSource ==
  ASSUME NEW w, NEW i, At(w, i), w.g.frames[i].kind \in Sources
  PROVE  WayOK(Consume(w, i))
<1>1. PICK h : h = Hold(w.g, i, Null)
  OBVIOUS
<1>2. PICK f : f = w.g.frames[i]
  OBVIOUS
<1>3. PICK kind, way, e, env :
        Consume(w, i) = Stop(w, Into([h EXCEPT !.env = env], Frame(kind, f.at, Null, f.out, i), way, e))
  <2>1. PICK env : env = (f.at :> w.v) @@ h.env
    OBVIOUS
  <2>2. [h EXCEPT !.env = (f.at :> w.v) @@ @] = [h EXCEPT !.env = env]
    BY <2>1
  <2>3. PICK kind : Consume(w, i) = Stop(w, Into([h EXCEPT !.env = (f.at :> w.v) @@ @],
                              Frame(kind, f.at, Null, f.out, i), f.at \o <<"update">>, f.x))
    BY <1>1, <1>2 DEF Consume, Sources
  <2> QED
    BY <2>2, <2>3
<1>4. PICK k : k = [h EXCEPT !.env = env]
  OBVIOUS
<1>5. Level(w.g, h)
  BY <1>1, AtFrame, HoldLevel DEF Updates, Sources
<1>6. Level(h, k)
  <2>1. Live(h)
    BY <1>5 DEF Level
  <2> QED
    BY <1>4, <2>1, BindLevel
<1>7. Level(w.g, k)
  BY <1>5, <1>6, LevelAgain
<1>8. f.out \in Nat /\ f.out < i /\ i \in 1..Depth(w.g)
  BY <1>2, AtFrame
<1>9. PICK at, o : at = f.at /\ o = f.out
  OBVIOUS
<1>10. w.g.frames[i].kind \in Sources /\ w.g.frames[i].at = at
  BY <1>2, <1>9
<1>11. After(w.g, i, Into(k, Frame(kind, at, Null, o, i), way, e))
  BY <1>7, <1>8, <1>9, <1>10, IntoAfter
<1> QED
  BY <1>3, <1>4, <1>9, <1>11, StopOK

\* A loop's next state goes where its update frame says.
LEMMA ConsumeUpdate ==
  ASSUME NEW w, NEW i, At(w, i), w.g.frames[i].kind \in Updates
  PROVE  WayOK(Consume(w, i))
<1>1. PICK f : f = w.g.frames[i]
  OBVIOUS
<1>2. PICK h : h = Hold(w.g, f.x, w.v)
  OBVIOUS
<1>3. PICK at : \/ Consume(w, i) = Stop(w, h)
                \/ Consume(w, i) = Stop(w, Eval(h, at, w.v, f.out))
                \/ Consume(w, i) = Pass(w, h, w.v, f.out)
  <2>1. CASE w.g.frames[i].kind = "ReduceUpdate"
    BY <1>1, <1>2, <2>1 DEF Consume
  <2>2. CASE w.g.frames[i].kind = "ForeachUpdate"
    BY <1>1, <1>2, <2>2 DEF Consume
  <2> QED
    BY <2>1, <2>2 DEF Updates
<1>4. Level(w.g, h)
  <2>1. Live(w.g) /\ i \in 1..Depth(w.g) /\ Depth(w.g) = Len(w.g.frames)
    BY AtFrame DEF Depth
  <2>2. FrameOK(w.g.frames, i)
    BY <2>1 DEF Live, Stack
  <2>3. f.x \in 1..Depth(w.g) /\ w.g.frames[f.x].kind \in Sources
    BY <1>1, <2>1, <2>2 DEF FrameOK, Names
  <2>4. w.g.frames[f.x].kind \notin Updates
    BY <2>3 DEF Sources, Updates
  <2> QED
    BY <1>2, <2>1, <2>3, <2>4, HoldLevel
<1>5. f.out \in Nat /\ f.out < i /\ f.out <= Depth(w.g)
  BY <1>1, AtFrame
<1>6. WayOK(Stop(w, h))
  BY <1>4, AtFrame, LevelAfter, StopOK
<1>7. WayOK(Stop(w, Eval(h, at, w.v, f.out)))
  <2>1. After(w.g, i, Eval(h, at, w.v, f.out))
    BY <1>4, <1>5, EvalAfter
  <2> QED
    BY <2>1, StopOK
<1>8. WayOK(Pass(w, h, w.v, f.out))
  BY <1>4, <1>5, PassOK
<1> QED
  BY <1>3, <1>6, <1>7, <1>8

\* Whatever the consumer.
LEMMA VisitOK ==
  ASSUME NEW w, WayOK(w), NEW i \in Nat \ {0}
  PROVE  WayOK(Visit(w, i))
<1>1. CASE w.open /\ i <= w.cont /\ i <= Depth(w.g) /\ w.g.frames[i].kind \in Consumers
  <2>1. Depth(w.g) \in Nat
    BY LiveStack DEF WayOK, Ready
  <2>2. At(w, i)
    BY <1>1, <2>1 DEF At
  <2>3. w.g.frames[i].kind \in {"FlatMapBody", "SelectBody", "BinaryRight", "BinaryLeft", "ConditionalBody",
          "LogicalLeft", "LogicalRight", "ErrorArg", "BindBody", "ReduceInit",
          "ForeachInit", "ForeachSource", "ReduceUpdate", "ForeachUpdate", "Counted",
          "Collect", "AlternativeLeft", "ReduceSource"}
    BY <1>1 DEF Consumers, Spent
  <2>4. WayOK(Consume(w, i))
    BY <2>2, <2>3, ConsumeEval, ConsumeCollect, ConsumeSelect, ConsumeCount, ConsumeInto, ConsumePair,
       ConsumeAlternative, ConsumeLogical, ConsumeError, ConsumeBind, ConsumeSource, ConsumeUpdate
       DEF Sources, Updates
  <2> QED
    BY <1>1, <2>4 DEF Visit
<1>2. CASE ~(w.open /\ i <= w.cont /\ i <= Depth(w.g) /\ w.g.frames[i].kind \in Consumers)
  BY <1>2 DEF Visit
<1> QED
  BY <1>1, <1>2

-----------------------------------------------------------------------------
(* The walk, frame by frame, and the cuts behind it.                       *)

\* A walk that has come down n frames.
IsWay(f, d, n, seed) ==
  f = [i \in (d - n)..d |-> IF i = d THEN seed ELSE Visit(f[i + 1], i + 1)]

\* There is one.
LEMMA WayExists ==
  ASSUME NEW d \in Nat, NEW seed, NEW n \in Nat, n <= d
  PROVE  \E f : IsWay(f, d, n, seed)
<1> DEFINE T == {k \in Nat : k <= d /\ ~ \E f : IsWay(f, d, k, seed)}
<1> SUFFICES ASSUME T # {} PROVE FALSE
  OBVIOUS
<1>1. PICK k \in T : \A j \in Nat : j < k => j \notin T
  <2> HIDE DEF T
  <2>1. T \in SUBSET Nat
    BY DEF T
  <2> QED
    BY <2>1, LeastNumber
<1>2. k \in Nat /\ k <= d /\ ~ \E f : IsWay(f, d, k, seed)
  BY <1>1
<1>3. CASE k = 0
  <2> DEFINE f == [i \in d..d |-> seed]
  <2>1. d - k = d
    BY <1>3
  <2>2. f = [i \in (d - k)..d |-> IF i = d THEN seed ELSE Visit(f[i + 1], i + 1)]
    BY <2>1
  <2>3. IsWay(f, d, k, seed)
    BY <2>2 DEF IsWay
  <2> QED
    BY <1>2, <2>3
<1>4. CASE k # 0
  <2>1. k - 1 \in Nat /\ k - 1 < k /\ k - 1 <= d
    BY <1>2, <1>4
  <2>2. k - 1 \notin T
    BY <1>1, <2>1
  <2>3. PICK e : IsWay(e, d, k - 1, seed)
    BY <2>1, <2>2
  <2>4. PICK b : b = d - k
    OBVIOUS
  <2>5. b \in Nat /\ b < d /\ d - (k - 1) = b + 1
    BY <1>2, <1>4, <2>4
  <2>6. e = [i \in (b + 1)..d |-> IF i = d THEN seed ELSE Visit(e[i + 1], i + 1)]
    BY <2>3, <2>5 DEF IsWay
  <2> DEFINE f == [i \in b..d |-> IF i = b THEN Visit(e[b + 1], b + 1) ELSE e[i]]
  <2>7. ASSUME NEW i \in b..d
        PROVE  f[i] = IF i = d THEN seed ELSE Visit(f[i + 1], i + 1)
    <3>1. CASE i = b
      <4>1. b + 1 \in b..d /\ b + 1 # b /\ b # d
        BY <2>5
      <4>2. f[b + 1] = e[b + 1]
        BY <4>1
      <4> QED
        BY <3>1, <4>1, <4>2
    <3>2. CASE i # b
      <4>1. i \in (b + 1)..d /\ f[i] = e[i]
        BY <2>5, <3>2
      <4>2. e[i] = IF i = d THEN seed ELSE Visit(e[i + 1], i + 1)
        BY <2>6, <4>1
      <4>3. i # d => i + 1 \in b..d /\ i + 1 # b
        BY <2>5, <4>1
      <4>4. i # d => f[i + 1] = e[i + 1]
        BY <4>3
      <4> QED
        BY <4>1, <4>2, <4>4
    <3> QED
      BY <3>1, <3>2
  <2>8. f = [i \in b..d |-> IF i = d THEN seed ELSE Visit(f[i + 1], i + 1)]
    <3>1. DOMAIN f = b..d /\ f = [i \in b..d |-> f[i]]
      OBVIOUS
    <3> HIDE DEF f
    <3> QED
      BY <2>7, <3>1
  <2>9. IsWay(f, d, k, seed)
    <3> HIDE DEF f
    <3> QED
      BY <2>4, <2>8 DEF IsWay
  <2> QED
    BY <1>2, <2>9
<1> QED
  BY <1>3, <1>4

\* All the way down it is well formed.
LEMMA WalkOK ==
  ASSUME NEW g, Live(g), g.pending = Idle, NEW v, NEW c \in Nat
  PROVE  WayOK(Walk(g, v, c))
<1>1. PICK d : d = Depth(g)
  OBVIOUS
<1>2. d \in Nat
  BY <1>1, LiveStack
<1>3. PICK seed : seed = Sent(g, v, c)
  OBVIOUS
<1>4. PICK way : IsWay(way, d, d, seed) /\ Walk(g, v, c) = way[0]
  <2> DEFINE P(f) == f = [i \in 0..Depth(g) |-> IF i = Depth(g) THEN Sent(g, v, c) ELSE Visit(f[i + 1], i + 1)]
  <2>1. Walk(g, v, c) = (CHOOSE f : P(f))[0]
    BY DEF Walk
  <2>2. d - d = 0
    BY <1>2
  <2>3. \A f : P(f) <=> IsWay(f, d, d, seed)
    BY <1>1, <1>3, <2>2 DEF IsWay
  <2>4. \E f : IsWay(f, d, d, seed)
    BY <1>2, WayExists
  <2> HIDE DEF P
  <2>5. P(CHOOSE f : P(f))
    BY <2>3, <2>4
  <2> QED
    BY <2>1, <2>3, <2>5
<1>5. way = [i \in 0..d |-> IF i = d THEN seed ELSE Visit(way[i + 1], i + 1)]
  <2>1. d - d = 0
    BY <1>2
  <2> QED
    BY <1>4, <2>1 DEF IsWay
<1>6. WayOK(seed)
  <2>1. PICK t : t = TrimSpent(g, c)
    OBVIOUS
  <2>2. Keeps(g, t)
    BY <2>1, TrimKeeps
  <2>3. Ready(t) /\ t.pending = Idle
    BY <2>2 DEF Keeps, Ready, Tasked
  <2>4. DOMAIN seed = WayFields /\ seed.g = t /\ seed.cont = c /\ seed.cuts = <<>>
    BY <1>3, <2>1 DEF Sent, WayFields
  <2>5. DOMAIN seed.cuts = {}
    BY <2>4
  <2> QED
    BY <2>3, <2>4, <2>5 DEF WayOK
<1> DEFINE T == {k \in Nat : k <= d /\ ~WayOK(way[d - k])}
<1>7. T = {}
  <2> SUFFICES ASSUME T # {} PROVE FALSE
    OBVIOUS
  <2>1. PICK k \in T : \A j \in Nat : j < k => j \notin T
    <3> HIDE DEF T
    <3>1. T \in SUBSET Nat
      BY DEF T
    <3> QED
      BY <3>1, LeastNumber
  <2>2. k \in Nat /\ k <= d /\ ~WayOK(way[d - k])
    BY <2>1
  <2>3. CASE k = 0
    <3>1. d - k = d /\ d \in 0..d
      BY <1>2, <2>3
    <3>2. way[d] = seed
      BY <1>5, <3>1
    <3> QED
      BY <1>6, <2>2, <3>1, <3>2
  <2>4. CASE k # 0
    <3>1. k - 1 \in Nat /\ k - 1 < k /\ k - 1 <= d
      BY <1>2, <2>2, <2>4
    <3>2. WayOK(way[d - (k - 1)])
      BY <2>1, <3>1
    <3>3. PICK i : i = d - k
      OBVIOUS
    <3>4. i \in 0..d /\ i # d /\ d - (k - 1) = i + 1 /\ i + 1 \in Nat \ {0}
      BY <1>2, <2>2, <2>4, <3>3
    <3>5. way[i] = Visit(way[i + 1], i + 1)
      BY <1>5, <3>4
    <3>6. WayOK(way[i + 1])
      BY <3>2, <3>4
    <3>7. WayOK(way[i])
      BY <3>4, <3>5, <3>6, VisitOK
    <3> QED
      BY <2>2, <3>3, <3>7
  <2> QED
    BY <2>3, <2>4
<1>8. WayOK(way[0])
  <2>1. d \in Nat /\ d <= d /\ d - d = 0 /\ d \notin T
    BY <1>2, <1>7
  <2> QED
    BY <2>1
<1> QED
  BY <1>4, <1>8

\* The cuts that are still to come.
CutsOK(g, cuts) ==
  /\ Ready(g)
  /\ \A c \in DOMAIN cuts : /\ c \in Nat \ {0} /\ cuts[c] \in Nat /\ c <= cuts[c]
                            /\ Parks(g, c, cuts[c])

\* One of them leaves the others in place.
LEMMA CutOK ==
  ASSUME NEW g, NEW cuts, CutsOK(g, cuts), NEW i
  PROVE  CutsOK(Cut(g, cuts, i), cuts)
<1>1. CASE i \notin DOMAIN cuts
  BY <1>1 DEF Cut
<1>2. CASE i \in DOMAIN cuts
  <2>1. /\ Ready(g) /\ i \in Nat \ {0} /\ cuts[i] \in Nat /\ i <= cuts[i] /\ Parks(g, i, cuts[i])
    BY <1>2 DEF CutsOK
  <2>2. PICK h : h = CutCountedSource(g, i, cuts[i])
    OBVIOUS
  <2>3. Ready(h) /\ Beyond(g.frames, h.frames)
    <3>1. PICK end : end = cuts[i]
      OBVIOUS
    <3>2. end \in Nat /\ i <= end /\ Parks(g, i, end) /\ h = CutCountedSource(g, i, end)
      BY <2>1, <2>2, <3>1
    <3> QED
      BY <2>1, <3>2, CutReady
  <2>4. Depth(g) \in Nat /\ Depth(h) \in Nat
    BY <2>1, <2>3, LiveStack DEF Ready
  <2>5. ASSUME NEW c \in DOMAIN cuts PROVE Parks(h, c, cuts[c])
    <3>1. PICK end : end = cuts[c]
      OBVIOUS
    <3>2. end \in Nat /\ Parks(g, c, end)
      BY <3>1 DEF CutsOK
    <3>3. CASE Depth(h) < Depth(g)
      <4>1. Depth(g) <= end + 1
        BY <3>2 DEF Parks
      <4>2. Depth(h) <= end + 1 /\ Depth(h) # end + 1
        BY <2>4, <3>2, <3>3, <4>1
      <4> QED
        BY <3>1, <4>2 DEF Parks
    <3>4. CASE Depth(h) = Depth(g) /\ \A k \in 1..Depth(g) : h.frames[k] = g.frames[k]
      <4>1. Depth(g) = end + 1 => Depth(g) \in 1..Depth(g)
        BY <2>4, <3>2
      <4> QED
        BY <3>1, <3>2, <3>4, <4>1 DEF Parks
    <3> QED
      BY <2>3, <3>3, <3>4 DEF Beyond, Depth
  <2>6. CutsOK(h, cuts)
    BY <2>3, <2>5 DEF CutsOK
  <2> QED
    BY <1>2, <2>2, <2>6 DEF Cut
<1> QED
  BY <1>1, <1>2

\* The cuts up to n.
IsBack(f, n, g, cuts) == f = [i \in 0..n |-> IF i = 0 THEN g ELSE Cut(f[i - 1], cuts, i)]

\* There is such a function.
LEMMA BackExists ==
  ASSUME NEW g, NEW cuts, NEW n \in Nat
  PROVE  \E f : IsBack(f, n, g, cuts)
<1> DEFINE T == {k \in Nat : ~ \E f : IsBack(f, k, g, cuts)}
<1> SUFFICES ASSUME T # {} PROVE FALSE
  OBVIOUS
<1>1. PICK k \in T : \A j \in Nat : j < k => j \notin T
  <2> HIDE DEF T
  <2>1. T \in SUBSET Nat
    BY DEF T
  <2> QED
    BY <2>1, LeastNumber
<1>2. k \in Nat /\ ~ \E f : IsBack(f, k, g, cuts)
  BY <1>1
<1>3. CASE k = 0
  <2> DEFINE f == [i \in 0..0 |-> g]
  <2>1. f = [i \in 0..k |-> IF i = 0 THEN g ELSE Cut(f[i - 1], cuts, i)]
    BY <1>3
  <2>2. IsBack(f, k, g, cuts)
    BY <2>1 DEF IsBack
  <2> QED
    BY <1>2, <2>2
<1>4. CASE k # 0
  <2>1. k - 1 \in Nat /\ k - 1 < k
    BY <1>2, <1>4
  <2>2. PICK e : IsBack(e, k - 1, g, cuts)
    BY <1>1, <2>1
  <2>3. e = [i \in 0..(k - 1) |-> IF i = 0 THEN g ELSE Cut(e[i - 1], cuts, i)]
    BY <2>2 DEF IsBack
  <2> DEFINE f == [i \in 0..k |-> IF i = k THEN Cut(e[k - 1], cuts, k) ELSE e[i]]
  <2>4. ASSUME NEW i \in 0..k
        PROVE  f[i] = IF i = 0 THEN g ELSE Cut(f[i - 1], cuts, i)
    <3>1. CASE i = k
      <4>1. k - 1 \in 0..k /\ k - 1 # k
        BY <2>1
      <4>2. f[k - 1] = e[k - 1]
        BY <4>1
      <4> QED
        BY <1>4, <3>1, <4>2
    <3>2. CASE i # k
      <4>1. i \in 0..(k - 1) /\ f[i] = e[i]
        BY <1>2, <3>2
      <4>2. e[i] = IF i = 0 THEN g ELSE Cut(e[i - 1], cuts, i)
        BY <2>3, <4>1
      <4>3. i # 0 => i - 1 \in 0..k /\ i - 1 # k
        BY <1>2, <4>1
      <4>4. i # 0 => f[i - 1] = e[i - 1]
        BY <4>3
      <4> QED
        BY <4>1, <4>2, <4>4
    <3> QED
      BY <3>1, <3>2
  <2>5. f = [i \in 0..k |-> IF i = 0 THEN g ELSE Cut(f[i - 1], cuts, i)]
    <3>1. DOMAIN f = 0..k /\ f = [i \in 0..k |-> f[i]]
      OBVIOUS
    <3> HIDE DEF f
    <3> QED
      BY <2>4, <3>1
  <2>6. IsBack(f, k, g, cuts)
    <3> HIDE DEF f
    <3> QED
      BY <2>5 DEF IsBack
  <2> QED
    BY <1>2, <2>6
<1> QED
  BY <1>3, <1>4

\* And all of them leave a stack.
LEMMA CutAllOK ==
  ASSUME NEW g, NEW cuts, CutsOK(g, cuts), NEW top \in Nat
  PROVE  Ready(CutAll(g, cuts, top))
<1>1. PICK back : IsBack(back, top, g, cuts) /\ CutAll(g, cuts, top) = back[top]
  <2> DEFINE P(f) == f = [i \in 0..top |-> IF i = 0 THEN g ELSE Cut(f[i - 1], cuts, i)]
  <2>1. CutAll(g, cuts, top) = (CHOOSE f : P(f))[top]
    BY DEF CutAll
  <2>2. \A f : P(f) <=> IsBack(f, top, g, cuts)
    BY DEF IsBack
  <2>3. \E f : IsBack(f, top, g, cuts)
    BY BackExists
  <2> HIDE DEF P
  <2>4. P(CHOOSE f : P(f))
    BY <2>2, <2>3
  <2> QED
    BY <2>1, <2>2, <2>4
<1>2. back = [i \in 0..top |-> IF i = 0 THEN g ELSE Cut(back[i - 1], cuts, i)]
  BY <1>1 DEF IsBack
<1> DEFINE T == {k \in Nat : k <= top /\ ~CutsOK(back[k], cuts)}
<1>3. T = {}
  <2> SUFFICES ASSUME T # {} PROVE FALSE
    OBVIOUS
  <2>1. PICK k \in T : \A j \in Nat : j < k => j \notin T
    <3> HIDE DEF T
    <3>1. T \in SUBSET Nat
      BY DEF T
    <3> QED
      BY <3>1, LeastNumber
  <2>2. k \in 0..top /\ ~CutsOK(back[k], cuts)
    BY <2>1
  <2>3. CASE k = 0
    BY <1>2, <2>2, <2>3
  <2>4. CASE k # 0
    <3>1. k - 1 \in Nat /\ k - 1 < k /\ k - 1 <= top
      BY <2>2, <2>4
    <3>2. CutsOK(back[k - 1], cuts)
      BY <2>1, <3>1
    <3>3. back[k] = Cut(back[k - 1], cuts, k)
      BY <1>2, <2>2, <2>4
    <3>4. CutsOK(Cut(back[k - 1], cuts, k), cuts)
      BY <3>2, CutOK
    <3> QED
      BY <2>2, <3>3, <3>4
  <2> QED
    BY <2>3, <2>4
<1>4. CutsOK(back[top], cuts)
  BY <1>3
<1> QED
  BY <1>1, <1>4 DEF CutsOK

\* A value that is routed leaves the machine ready for the next step.
LEMMA RouteReady ==
  ASSUME NEW g, Live(g), g.pending = Idle, NEW v, NEW c \in Nat
  PROVE  Ready(Route(g, v, c))
<1>1. PICK w : w = Walk(g, v, c)
  OBVIOUS
<1>2. WayOK(w)
  BY <1>1, WalkOK
<1>3. PICK h : h = Arrived(w)
  OBVIOUS
<1>4. Ready(w.g)
  BY <1>2 DEF WayOK
<1>5. Ready(h) /\ h.frames = w.g.frames
  <2>1. CASE w.open
    <3>1. DOMAIN w.g = MachineFields /\ w.g.depth \in Nat
      BY <1>4 DEF Ready, Live
    <3>2. h = [w.g EXCEPT !.told = Append(@, w.v)]
      BY <1>3, <2>1 DEF Arrived
    <3>3. DOMAIN h = MachineFields /\ h.frames = w.g.frames /\ h.outcome = w.g.outcome
          /\ h.depth = w.g.depth /\ h.pending = w.g.pending
      BY <3>1, <3>2 DEF MachineFields
    <3>4. Beside(w.g, h)
      BY <3>1, <3>3 DEF Beside
    <3>5. Level(w.g, h)
      BY <1>4, <3>4, BesideLevel DEF Ready
    <3> QED
      BY <1>4, <3>3, <3>5 DEF Ready, Level, Tasked
  <2>2. CASE ~w.open
    BY <1>3, <1>4, <2>2 DEF Arrived
  <2> QED
    BY <2>1, <2>2
<1>6. CutsOK(h, w.cuts)
  BY <1>2, <1>5 DEF CutsOK, WayOK, Parks, Depth
<1>7. Depth(g) \in Nat
  BY LiveStack
<1>8. Ready(CutAll(h, w.cuts, Depth(g)))
  BY <1>6, <1>7, CutAllOK
<1> QED
  BY <1>1, <1>3, <1>5, <1>8 DEF Route

-----------------------------------------------------------------------------
(* Raises, and the steps of the machine.                                   *)

\* Between steps the machine is ready and has no error, or it has ended with
\* nothing left of its stack.
Settled(g) ==
  \/ Ready(g) /\ g.error = Fine
  \/ /\ g.outcome # "running" /\ g.depth = 0 /\ g.pending = Idle /\ g.frames = <<>>

\* A stack without a frame opens no region.
LEMMA BareStack ==
  ASSUME NEW g, Live(g), Depth(g) = 0
  PROVE  g.frames = <<>> /\ g.depth = 0
<1>1. IsSeq(g.frames) /\ Len(g.frames) = 0 /\ g.depth \in Nat /\ g.depth <= Regions(g.frames)
  BY LiveStack DEF Live
<1>2. PICK S : g.frames \in Seq(S)
  BY <1>1 DEF IsSeq
<1>3. PICK s : s = g.frames
  OBVIOUS
<1>4. s = <<>>
  BY <1>1, <1>2, <1>3, EmptySeq
<1>5. Regions(<<>>) = 0
  BY RegionsOfOne
<1> QED
  BY <1>1, <1>3, <1>4, <1>5

\* A raise unwinds to a barrier or ends the run.
LEMMA RaiseSettles ==
  ASSUME NEW g, Ready(g)
  PROVE  Settled(HandleRaise(g))
<1>1. Live(g) /\ Depth(g) \in Nat
  BY LiveStack DEF Ready
<1>2. CASE g.error = Fine
  BY <1>2 DEF HandleRaise, Settled
<1>3. CASE g.error # Fine /\ Barriers(g) = {}
  <2>1. PICK p : p = PopTo(g, 0)
    OBVIOUS
  <2>2. 0 \in 0..Depth(g)
    BY <1>1
  <2>3. Live(p) /\ Depth(p) = 0
    BY <1>1, <2>1, <2>2, PopKeeps DEF Keeps
  <2>4. p.frames = <<>> /\ p.depth = 0 /\ DOMAIN p = MachineFields
    BY <2>3, BareStack DEF Live
  <2>5. PICK h : h = [p EXCEPT !.pending = Idle, !.outcome = "raised"]
    OBVIOUS
  <2>6. h.outcome = "raised" /\ h.depth = 0 /\ h.pending = Idle /\ h.frames = <<>>
    BY <2>4, <2>5 DEF MachineFields
  <2>7. HandleRaise(g) = h
    BY <1>3, <2>1, <2>5 DEF HandleRaise
  <2> QED
    BY <2>6, <2>7 DEF Settled
<1>4. CASE g.error # Fine /\ Barriers(g) # {}
  <2>1. PICK i : i = Max(Barriers(g))
    OBVIOUS
  <2>2. i \in 1..Depth(g)
    <3>1. PICK S : S = Barriers(g)
      OBVIOUS
    <3>2. S \in SUBSET (1..Depth(g))
      BY <3>1 DEF Barriers
    <3>3. S \in SUBSET (0..Depth(g)) /\ S # {}
      BY <1>1, <1>4, <3>1, <3>2
    <3>4. Max(S) \in S
      BY <1>1, <3>3, MaxIs
    <3> QED
      BY <2>1, <3>1, <3>2, <3>4
  <2>3. PICK f : f = g.frames[i]
    OBVIOUS
  <2>4. f.out \in Nat /\ f.out < i
    BY <1>1, <2>2, <2>3, LiveStack
  <2>5. PICK n : n = i - 1
    OBVIOUS
  <2>6. n \in 0..Depth(g) /\ f.out <= n
    BY <1>1, <2>2, <2>4, <2>5
  <2>7. PICK p : p = PopTo(g, n)
    OBVIOUS
  <2>8. Live(p) /\ Depth(p) = n
    BY <1>1, <2>6, <2>7, PopKeeps DEF Keeps
  <2>9. PICK k : k = [p EXCEPT !.pending = Idle, !.error = Fine]
    OBVIOUS
  <2>10. /\ DOMAIN k = MachineFields /\ k.frames = p.frames /\ k.outcome = p.outcome
         /\ k.depth \in Nat /\ k.depth <= p.depth /\ k.pending = Idle /\ k.error = Fine
    BY <2>8, <2>9 DEF Live, MachineFields
  <2>11. Live(k) /\ Depth(k) = n
    BY <2>8, <2>10, BesideLive
  <2>12. PICK at : HandleRaise(g) = Eval(k, at, g.error, f.out) \/ HandleRaise(g) = k
    BY <1>4, <2>1, <2>3, <2>5, <2>7, <2>9 DEF HandleRaise
  <2>13. PICK e : e = Eval(k, at, g.error, f.out)
    OBVIOUS
  <2>14. Ready(e) /\ e.error = k.error
    <3>1. f.out <= Depth(k)
      BY <2>6, <2>11
    <3> QED
      BY <2>4, <2>11, <2>13, <3>1, TaskReady
  <2> QED
    BY <2>10, <2>11, <2>12, <2>13, <2>14 DEF Settled, Ready, Tasked
<1> QED
  BY <1>2, <1>3, <1>4

\* A frame that is no update goes on top.
LEMMA PushReady ==
  ASSUME NEW g, Live(g), g.pending = Idle, NEW kind, kind \notin Updates,
         NEW at, NEW e, NEW c \in Nat, c <= Depth(g), NEW x,
         NEW h, h = Push(g, Frame(kind, at, e, c, x))
  PROVE  /\ Ready(h) /\ Depth(h) = Depth(g) + 1 /\ h.pending = Idle
         /\ kind \in {"Try", "AlternativeLeft"} => h.depth + 1 <= Regions(h.frames)
<1>1. PICK f : f = Frame(kind, at, e, c, x)
  OBVIOUS
<1>2. DOMAIN f = FrameFields /\ f.kind = kind /\ f.out = c
  BY <1>1 DEF Frame, FrameFields
<1>3. Names(g.frames, f)
  BY <1>2 DEF Names
<1>4. /\ Keeps(g, h) /\ Depth(h) = Depth(g) + 1
      /\ f.kind \in {"Try", "AlternativeLeft"} => h.depth + 1 <= Regions(h.frames)
  BY <1>1, <1>2, <1>3, PushKeeps
<1> QED
  BY <1>2, <1>4 DEF Keeps, Ready, Tasked

\* And a graph is evaluated into it.
LEMMA OpensReady ==
  ASSUME NEW g, Live(g), NEW kind, kind \notin Updates,
         NEW at, NEW e, NEW c \in Nat, c <= Depth(g), NEW x, NEW way, NEW v,
         NEW h, h = Into(g, Frame(kind, at, e, c, x), way, v)
  PROVE  /\ Ready(h)
         /\ kind \in {"Try", "AlternativeLeft"} => h.depth + 1 <= Regions(h.frames)
<1>1. PICK f : f = Frame(kind, at, e, c, x)
  OBVIOUS
<1>2. DOMAIN f = FrameFields /\ f.kind = kind /\ f.out = c
  BY <1>1 DEF Frame, FrameFields
<1>3. Names(g.frames, f)
  BY <1>2 DEF Names
<1>4. h = Into(g, f, way, v) /\ f.out \in Nat /\ f.out <= Depth(g)
  BY <1>1, <1>2
<1> QED
  BY <1>2, <1>3, <1>4, IntoReady

\* What a step turns into is what a raise leaves of something ready.
Turned == \E g : Ready(g) /\ m' = HandleRaise(g)

\* With its task taken the machine is live, and the task routes into it.
LEMMA TakenLive ==
  ASSUME Settled(m), m.outcome = "running", m.pending.task \in {"eval", "route"}
  PROVE  /\ Live(taken) /\ taken.pending = Idle /\ m.pending.cont \in Nat
         /\ m.pending.cont <= Depth(taken)
<1>1. Ready(m) /\ m.pending # Idle
  BY DEF Settled, Idle
<1>2. Live(m) /\ m.pending.cont \in Nat /\ m.pending.cont <= Depth(m)
  BY <1>1 DEF Ready, Tasked
<1>3. DOMAIN m = MachineFields /\ m.depth \in Nat
  BY <1>2 DEF Live
<1>4. PICK g : g = m
  OBVIOUS
<1>5. PICK t : t = [g EXCEPT !.pending = Idle]
  OBVIOUS
<1>6. /\ DOMAIN t = MachineFields /\ t.frames = g.frames /\ t.outcome = g.outcome
      /\ t.depth \in Nat /\ t.depth <= g.depth /\ t.pending = Idle
  BY <1>3, <1>4, <1>5 DEF MachineFields
<1>7. Live(g)
  BY <1>2, <1>4
<1>8. Live(t) /\ Depth(t) = Depth(g)
  BY <1>6, <1>7, BesideLive
<1>9. t = taken
  BY <1>4, <1>5 DEF taken
<1> QED
  BY <1>2, <1>4, <1>6, <1>8, <1>9

\* A task is running.
Runs(ops) == Settled(m) /\ m.outcome = "running" /\ m.pending.task \in ops

\* A node that opens a frame over its first operand.
LEMMA OpensTurns ==
  ASSUME Runs({"eval"}), NEW kind, kind \notin Updates, NEW x, NEW name, Opens(kind, x, name)
  PROVE  Turned
<1>1. PICK g, c, at, e, way :
        /\ g = taken /\ c = m.pending.cont
        /\ m' = HandleRaise(Into(g, Frame(kind, at, e, c, x), way, e))
  BY DEF Opens, Step, here, cont, dot
<1>2. Live(g) /\ c \in Nat /\ c <= Depth(g)
  BY <1>1, TakenLive DEF Runs
<1>3. PICK h : h = Into(g, Frame(kind, at, e, c, x), way, e)
  OBVIOUS
<1>4. Ready(h)
  BY <1>2, <1>3, OpensReady
<1> QED
  BY <1>1, <1>3, <1>4 DEF Turned

\* A node that fails, or does nothing.
LEMMA FailTurns ==
  ASSUME Runs({"eval"}), NEW v, m' = HandleRaise(Fail(taken, v, m.pending.cont)) \/ m' = HandleRaise(taken)
  PROVE  Turned
<1>1. PICK g, c : g = taken /\ c = m.pending.cont
  OBVIOUS
<1>2. Live(g) /\ g.pending = Idle
  BY <1>1, TakenLive DEF Runs
<1>3. PICK h : h = Fail(g, v, c)
  OBVIOUS
<1>4. Level(g, h)
  BY <1>2, <1>3, FailLevel
<1>5. Ready(g) /\ Ready(h)
  BY <1>2, <1>4 DEF Level, Ready, Tasked
<1> QED
  BY <1>1, <1>3, <1>5 DEF Turned

\* A task that routes a value.
LEMMA RouteTurns ==
  ASSUME Runs({"eval", "route"}), NEW v, m' = HandleRaise(Route(taken, v, m.pending.cont))
  PROVE  Turned
<1>1. PICK g, c : g = taken /\ c = m.pending.cont
  OBVIOUS
<1>2. Live(g) /\ g.pending = Idle /\ c \in Nat
  BY <1>1, TakenLive DEF Runs
<1>3. Ready(Route(g, v, c))
  BY <1>2, RouteReady
<1> QED
  BY <1>1, <1>3 DEF Turned

\* A node that pushes a frame and evaluates or yields with the old continuation.
LEMMA PushTurns ==
  ASSUME Runs({"eval"}), NEW kind, kind \notin Updates, NEW at, NEW e, NEW x, NEW way, NEW v,
         \/ m' = HandleRaise(Push(taken, Frame(kind, at, e, m.pending.cont, x)))
         \/ m' = HandleRaise(Eval(Push(taken, Frame(kind, at, e, m.pending.cont, x)), way, v, m.pending.cont))
         \/ /\ kind = "Try"
            /\ m' = HandleRaise(Eval([Push(taken, Frame(kind, at, e, m.pending.cont, x)) EXCEPT !.depth = @ + 1],
                                     way, v, m.pending.cont))
  PROVE  Turned
<1>1. PICK g, c : g = taken /\ c = m.pending.cont
  OBVIOUS
<1>2. Live(g) /\ g.pending = Idle /\ c \in Nat /\ c <= Depth(g)
  BY <1>1, TakenLive DEF Runs
<1>3. PICK h : h = Push(g, Frame(kind, at, e, c, x))
  OBVIOUS
<1>4. /\ Ready(h) /\ Depth(h) = Depth(g) + 1 /\ h.pending = Idle
      /\ kind \in {"Try", "AlternativeLeft"} => h.depth + 1 <= Regions(h.frames)
  BY <1>2, <1>3, PushReady
<1>5. Depth(g) \in Nat /\ c <= Depth(h)
  BY <1>2, <1>4, LiveStack
<1>6. PICK k : k = Eval(h, way, v, c)
  OBVIOUS
<1>7. Ready(k)
  BY <1>2, <1>4, <1>5, <1>6, TaskReady DEF Ready
<1>8. PICK t : t = [h EXCEPT !.depth = h.depth + 1]
  OBVIOUS
<1>9. PICK u : u = Eval(t, way, v, c)
  OBVIOUS
<1>10. ASSUME kind = "Try" PROVE Ready(u)
  <2>1. t = [h EXCEPT !.depth = @ + 1]
    BY <1>8
  <2>2. h.depth + 1 <= Regions(h.frames)
    BY <1>4, <1>10
  <2>3. Ready(t)
    BY <1>4, <2>1, <2>2, EnterReady
  <2>4. Depth(t) = Depth(h)
    <3>1. DOMAIN h = MachineFields
      BY <1>4 DEF Ready, Live
    <3> QED
      BY <1>8, <3>1 DEF Depth, MachineFields
  <2>5. Live(t) /\ c <= Depth(t)
    BY <1>5, <2>3, <2>4 DEF Ready
  <2> QED
    BY <1>2, <1>9, <2>5, TaskReady
<1>11. m' = HandleRaise(h) \/ m' = HandleRaise(k) \/ (kind = "Try" /\ m' = HandleRaise(u))
  BY <1>1, <1>3, <1>6, <1>8, <1>9
<1> QED
  BY <1>4, <1>7, <1>10, <1>11 DEF Turned

\* An alternative enters the region of its first operand.
LEMMA AlternativeTurns ==
  ASSUME Settled(m), EvalAlternative
  PROVE  Turned
<1>1. Runs({"eval"})
  BY DEF EvalAlternative, Evaluating, Runs
<1>2. PICK g, c, at, e, way :
        /\ g = taken /\ c = m.pending.cont
        /\ m' = HandleRaise([Into(g, Frame("AlternativeLeft", at, e, c, FALSE), way, e) EXCEPT !.depth = @ + 1])
  BY DEF EvalAlternative, Step, here, cont, dot
<1>3. Live(g) /\ c \in Nat /\ c <= Depth(g)
  BY <1>1, <1>2, TakenLive DEF Runs
<1>4. PICK h : h = Into(g, Frame("AlternativeLeft", at, e, c, FALSE), way, e)
  OBVIOUS
<1>5. Ready(h) /\ h.depth + 1 <= Regions(h.frames)
  <2>1. "AlternativeLeft" \notin Updates
    BY DEF Updates
  <2>2. Ready(h) /\ ("AlternativeLeft" \in {"Try", "AlternativeLeft"} => h.depth + 1 <= Regions(h.frames))
    BY <1>3, <1>4, <2>1, OpensReady
  <2> QED
    BY <2>2
<1>6. PICK k : k = [h EXCEPT !.depth = @ + 1]
  OBVIOUS
<1>7. Ready(k)
  BY <1>5, <1>6, EnterReady
<1> QED
  BY <1>2, <1>4, <1>6, <1>7 DEF Turned

\* A pair is made at once, or opens a frame for the operand it lacks.
LEMMA BinaryTurns ==
  ASSUME Settled(m), EvalBinary
  PROVE  Turned
<1>1. Runs({"eval"})
  BY DEF EvalBinary, Evaluating, Runs
<1>2. PICK r, v : \/ \E h : /\ h = Pair(taken, here, dot, r, cont)
                            /\ Step(IF h.error # Fine THEN h ELSE Route(h, v, cont))
                  \/ Opens("BinaryLeft", r, "left")
                  \/ Opens("BinaryRight", Null, "right")
  BY DEF EvalBinary
<1>3. CASE Opens("BinaryLeft", r, "left") \/ Opens("BinaryRight", Null, "right")
  BY <1>1, <1>3, OpensTurns DEF Updates
<1>4. CASE \E h : /\ h = Pair(taken, here, dot, r, cont)
                  /\ Step(IF h.error # Fine THEN h ELSE Route(h, v, cont))
  <2>1. PICK g, c, at, e : g = taken /\ c = m.pending.cont /\ at = here /\ e = dot
    OBVIOUS
  <2>2. PICK h : /\ h = Pair(g, at, e, r, c)
                 /\ m' = HandleRaise(h) \/ m' = HandleRaise(Route(h, v, c))
    BY <1>4, <2>1 DEF Step, cont
  <2>3. Live(g) /\ g.pending = Idle /\ c \in Nat
    BY <1>1, <2>1, TakenLive DEF Runs
  <2>4. Level(g, h)
    BY <2>2, <2>3, PairLevel
  <2>5. Live(h) /\ h.pending = Idle
    BY <2>3, <2>4 DEF Level
  <2>6. Ready(h)
    BY <2>5 DEF Ready, Tasked
  <2>7. Ready(Route(h, v, c))
    BY <2>3, <2>5, RouteReady
  <2> QED
    BY <2>2, <2>6, <2>7 DEF Turned
<1> QED
  BY <1>2, <1>3, <1>4

\* Evaluating a node.
LEMMA EvalTurns ==
  ASSUME Settled(m),
         \/ EvalStage \/ EvalEach \/ EvalEmpty \/ EvalErrorZero \/ EvalBreak \/ EvalChoice
         \/ EvalFlatMap \/ EvalCollect \/ EvalSelect \/ EvalErrorArg \/ EvalConditional
         \/ EvalLogical \/ EvalBind \/ EvalReduce \/ EvalForeach \/ EvalCounted \/ EvalTry \/ EvalLabel
  PROVE  Turned
<1>1. Runs({"eval"}) /\ Runs({"eval", "route"})
  BY DEF EvalStage, EvalEach, EvalEmpty, EvalErrorZero, EvalBreak, EvalChoice, EvalFlatMap, EvalCollect,
     EvalSelect, EvalErrorArg, EvalConditional, EvalLogical, EvalBind, EvalReduce, EvalForeach,
     EvalCounted, EvalTry, EvalLabel, Evaluating, Runs
<1>2. CASE EvalStage
  <2>1. PICK v : m' = HandleRaise(Route(taken, v, m.pending.cont))
    BY <1>2 DEF EvalStage, Step, cont
  <2> QED
    BY <1>1, <2>1, RouteTurns
<1>3. CASE EvalEach
  <2>1. PICK at, x : \/ m' = HandleRaise(Push(taken, Frame("Each", at, Null, m.pending.cont, x)))
                     \/ m' = HandleRaise(Fail(taken, Text, m.pending.cont))
    BY <1>3 DEF EvalEach, Step, cont
  <2>2. "Each" \notin Updates
    BY DEF Updates
  <2>3. CASE m' = HandleRaise(Push(taken, Frame("Each", at, Null, m.pending.cont, x)))
    BY <1>1, <2>2, <2>3, PushTurns
  <2>4. CASE m' = HandleRaise(Fail(taken, Text, m.pending.cont))
    BY <1>1, <2>4, FailTurns
  <2> QED
    BY <2>1, <2>3, <2>4
<1>4. CASE EvalEmpty
  BY <1>1, <1>4, FailTurns DEF EvalEmpty, Step
<1>5. CASE EvalErrorZero \/ EvalBreak
  <2>1. PICK v : m' = HandleRaise(Fail(taken, v, m.pending.cont))
    BY <1>5 DEF EvalErrorZero, EvalBreak, Step, cont
  <2> QED
    BY <1>1, <2>1, FailTurns
<1>6. CASE EvalChoice
  <2>1. PICK at, e, way : m' = HandleRaise(Eval(Push(taken, Frame("Choice", at, e, m.pending.cont, Null)),
                                                way, e, m.pending.cont))
    BY <1>6 DEF EvalChoice, Step, cont
  <2>2. "Choice" \notin Updates
    BY DEF Updates
  <2> QED
    BY <1>1, <2>1, <2>2, PushTurns
<1>7. CASE EvalLabel
  <2>1. PICK at, e, way : m' = HandleRaise(Eval(Push(taken, Frame("Label", at, Null, m.pending.cont, Null)),
                                                way, e, m.pending.cont))
    BY <1>7 DEF EvalLabel, Step, cont
  <2>2. "Label" \notin Updates
    BY DEF Updates
  <2> QED
    BY <1>1, <2>1, <2>2, PushTurns
<1>8. CASE EvalTry
  <2>1. PICK at, e, way :
          m' = HandleRaise(Eval([Push(taken, Frame("Try", at, Null, m.pending.cont, Null)) EXCEPT !.depth = @ + 1],
                                way, e, m.pending.cont))
    BY <1>8 DEF EvalTry, Step, cont
  <2>2. "Try" \notin Updates
    BY DEF Updates
  <2> QED
    BY <1>1, <2>1, <2>2, PushTurns
<1>9. CASE \/ EvalFlatMap \/ EvalCollect \/ EvalSelect \/ EvalErrorArg \/ EvalConditional
           \/ EvalLogical \/ EvalBind \/ EvalReduce \/ EvalForeach \/ EvalCounted
  <2>1. PICK kind, x, name : Opens(kind, x, name) /\ kind \notin Updates
    BY <1>9 DEF EvalFlatMap, EvalCollect, EvalSelect, EvalErrorArg, EvalConditional, EvalLogical,
       EvalBind, EvalReduce, EvalForeach, EvalCounted, Updates
  <2> QED
    BY <1>1, <2>1, OpensTurns
<1> QED
  BY <1>2, <1>3, <1>4, <1>5, <1>6, <1>7, <1>8, <1>9

\* Without a task the top frame routes below itself.
LEMMA TopLive ==
  ASSUME Settled(m), NEW kinds, Topmost(kinds)
  PROVE  /\ Ready(m) /\ Live(m) /\ Depth(m) \in Nat \ {0} /\ Top(m) = m.frames[Depth(m)]
         /\ Top(m).out \in Nat /\ Top(m).out <= Depth(m) - 1
<1>1. PICK g : g = m
  OBVIOUS
<1>2. Ready(g) /\ Live(g) /\ g.frames # <<>>
  BY <1>1 DEF Topmost, Settled, Ready
<1>3. Depth(g) \in Nat /\ IsSeq(g.frames) /\ Depth(g) = Len(g.frames)
  BY <1>2, LiveStack
<1>4. Depth(g) # 0
  BY <1>2, BareStack
<1>5. Top(g) = g.frames[Depth(g)]
  BY <1>3 DEF Top, Last
<1>6. PICK o : o = g.frames[Depth(g)].out
  OBVIOUS
<1>7. Depth(g) \in 1..Depth(g)
  BY <1>3, <1>4
<1>8. o \in Nat /\ o < Depth(g)
  BY <1>2, <1>6, <1>7, LiveStack
<1>9. o <= Depth(g) - 1
  BY <1>3, <1>8
<1> QED
  BY <1>1, <1>2, <1>3, <1>4, <1>5, <1>6, <1>8, <1>9

\* With it popped the stack stands, and takes what it routes.
LEMMA PoppedTurns ==
  ASSUME Settled(m), NEW kinds, Topmost(kinds), NEW at, NEW e,
         \/ m' = HandleRaise(popped)
         \/ m' = HandleRaise(Eval(popped, at, e, Top(m).out))
         \/ m' = HandleRaise(Later(popped, e, Top(m).out))
  PROVE  Turned
<1>1. PICK g, n, o : g = m /\ n = Depth(m) - 1 /\ o = Top(m).out
  OBVIOUS
<1>2. Live(g) /\ n \in 0..Depth(g) /\ o \in Nat /\ o <= n /\ g.pending = Idle
  <2>1. Live(m) /\ Depth(m) \in Nat \ {0} /\ Top(m).out \in Nat /\ Top(m).out <= Depth(m) - 1
    BY TopLive
  <2>2. n \in 0..Depth(m)
    BY <1>1, <2>1
  <2> QED
    BY <1>1, <2>1, <2>2 DEF Topmost
<1>3. PICK p : p = PopTo(g, n)
  OBVIOUS
<1>4. Keeps(g, p) /\ Depth(p) = n
  BY <1>2, <1>3, PopKeeps
<1>5. Live(p) /\ p.pending = Idle
  BY <1>2, <1>4 DEF Keeps
<1>6. p = popped
  BY <1>1, <1>3 DEF popped
<1>7. PICK h : h = Eval(p, at, e, o)
  OBVIOUS
<1>8. PICK k : k = Later(p, e, o)
  OBVIOUS
<1>9. Ready(h)
  BY <1>2, <1>4, <1>5, <1>7, TaskReady
<1>10. Ready(k)
  BY <1>2, <1>4, <1>5, <1>8, TaskReady
<1>11. Ready(p)
  BY <1>5 DEF Ready, Tasked
<1>12. m' = HandleRaise(p) \/ m' = HandleRaise(h) \/ m' = HandleRaise(k)
  BY <1>1, <1>6, <1>7, <1>8
<1> QED
  BY <1>9, <1>10, <1>11, <1>12 DEF Turned

\* The next child of an array is routed, and the rest held.
LEMMA ChildTurns ==
  ASSUME Settled(m), NextChild
  PROVE  Turned
<1>1. Topmost({"Each"})
  BY DEF NextChild
<1>2. \/ m' = HandleRaise(popped)
      \/ m' = HandleRaise(Later(Hold(m, Depth(m), Tail(Top(m).x)), Head(Top(m).x), Top(m).out))
  BY DEF NextChild, Step
<1>3. CASE m' = HandleRaise(popped)
  BY <1>1, <1>3, PoppedTurns
<1>4. CASE m' = HandleRaise(Later(Hold(m, Depth(m), Tail(Top(m).x)), Head(Top(m).x), Top(m).out))
  <2>1. PICK g, i, x, v, o : /\ g = m /\ i = Depth(m) /\ x = Tail(Top(m).x) /\ v = Head(Top(m).x)
                             /\ o = Top(m).out
    OBVIOUS
  <2>2. /\ Live(m) /\ Depth(m) \in Nat \ {0} /\ Top(m) = m.frames[Depth(m)]
        /\ Top(m).out \in Nat /\ Top(m).out <= Depth(m) - 1
    BY <1>1, TopLive
  <2>3. Top(m).kind = "Each"
    BY <1>1 DEF Topmost
  <2>4. /\ Live(g) /\ i \in 1..Depth(g) /\ o \in Nat /\ o <= Depth(g)
        /\ g.frames[i].kind \notin Updates
    BY <2>1, <2>2, <2>3 DEF Updates
  <2>5. PICK h : h = Hold(g, i, x)
    OBVIOUS
  <2>6. Level(g, h)
    BY <2>4, <2>5, HoldLevel
  <2>7. Live(h) /\ Depth(h) = Depth(g)
    BY <2>6 DEF Level
  <2>8. PICK k : k = Later(h, v, o)
    OBVIOUS
  <2>9. Ready(k)
    BY <2>4, <2>7, <2>8, TaskReady
  <2> QED
    BY <1>4, <2>1, <2>5, <2>8, <2>9 DEF Turned
<1> QED
  BY <1>2, <1>3, <1>4

\* What the top frame does when nothing is pending.
LEMMA TopTurns ==
  ASSUME Settled(m), FireChoice \/ FinishAlternative \/ Publish \/ PopSpent
  PROVE  Turned
<1>1. CASE FireChoice
  <2>1. Topmost({"Choice"})
    BY <1>1 DEF FireChoice
  <2>2. PICK at, e : m' = HandleRaise(Eval(popped, at, e, Top(m).out))
    BY <1>1 DEF FireChoice, Step
  <2> QED
    BY <2>1, <2>2, PoppedTurns
<1>2. CASE FinishAlternative
  <2>1. Topmost({"AlternativeLeft"})
    BY <1>2 DEF FinishAlternative
  <2>2. PICK at, e : m' = HandleRaise(popped) \/ m' = HandleRaise(Eval(popped, at, e, Top(m).out))
    BY <1>2 DEF FinishAlternative, Step
  <2> QED
    BY <2>1, <2>2, PoppedTurns
<1>3. CASE Publish
  <2>1. Topmost({"Collect", "ReduceSource"})
    BY <1>3 DEF Publish
  <2>2. PICK e : m' = HandleRaise(Later(popped, e, Top(m).out))
    BY <1>3 DEF Publish, Step
  <2> QED
    BY <2>1, <2>2, PoppedTurns
<1>4. CASE PopSpent
  BY <1>4, PoppedTurns DEF PopSpent, Step
<1> QED
  BY <1>1, <1>2, <1>3, <1>4

-----------------------------------------------------------------------------
(* The machine is settled between steps.                                   *)

\* It starts ready.
LEMMA SeedSettled ==
  ASSUME Init
  PROVE  Settled(m)
<1>1. m = Seed
  BY DEF Init
<1>2. /\ DOMAIN m = MachineFields /\ m.frames = <<>> /\ m.depth = 0 /\ m.outcome = "running"
      /\ m.error = Fine /\ "cont" \in DOMAIN m.pending /\ m.pending.cont = 0
  BY <1>1 DEF Seed, MachineFields
<1>3. IsSeq(<<>>) /\ Regions(<<>>) = 0 /\ Len(<<>>) = 0
  BY RegionsOfOne
<1>4. Stack(<<>>)
  BY <1>3 DEF Stack
<1> QED
  BY <1>2, <1>3, <1>4 DEF Settled, Ready, Live, Tasked, Depth

\* And every step leaves it settled.
LEMMA StepSettles ==
  ASSUME Settled(m), [Next]_vars
  PROVE  Settled(m')
<1>1. CASE Turned
  <2>1. PICK g : Ready(g) /\ m' = HandleRaise(g)
    BY <1>1 DEF Turned
  <2> QED
    BY <2>1, RaiseSettles
<1>2. CASE RouteTask
  <2>1. Runs({"eval", "route"})
    BY <1>2 DEF RouteTask, Runs
  <2>2. PICK v : m' = HandleRaise(Route(taken, v, m.pending.cont))
    BY <1>2 DEF RouteTask, Step
  <2> QED
    BY <1>1, <2>1, <2>2, RouteTurns
<1>3. CASE Complete
  <2>1. Ready(m) /\ m.error = Fine /\ m.pending = Idle /\ m.frames = <<>>
    BY <1>3 DEF Complete, Settled
  <2>2. DOMAIN m = MachineFields /\ m.depth \in Nat /\ m.depth <= Regions(m.frames)
    BY <2>1 DEF Ready, Live
  <2>3. m.depth = 0
    <3>1. Regions(<<>>) = 0
      BY RegionsOfOne
    <3>2. Regions(m.frames) = 0
      BY <2>1, <3>1
    <3> QED
      BY <2>2, <3>2
  <2>4. PICK g : g = [m EXCEPT !.outcome = "complete"]
    OBVIOUS
  <2>5. g.error = Fine /\ g.depth = 0 /\ g.pending = Idle /\ g.frames = <<>> /\ g.outcome = "complete"
    BY <2>1, <2>2, <2>3, <2>4 DEF MachineFields
  <2>6. m' = g
    BY <1>3, <2>4, <2>5 DEF Complete, Step, HandleRaise
  <2> QED
    BY <2>5, <2>6 DEF Settled
<1>4. CASE NextChild \/ FireChoice \/ FinishAlternative \/ Publish \/ PopSpent
  BY <1>1, <1>4, ChildTurns, TopTurns
<1>5. CASE EvalAlternative \/ EvalBinary
  BY <1>1, <1>5, AlternativeTurns, BinaryTurns
<1>6. CASE \/ EvalStage \/ EvalEach \/ EvalEmpty \/ EvalErrorZero \/ EvalBreak \/ EvalChoice
           \/ EvalFlatMap \/ EvalCollect \/ EvalSelect \/ EvalErrorArg \/ EvalConditional
           \/ EvalLogical \/ EvalBind \/ EvalReduce \/ EvalForeach \/ EvalCounted \/ EvalTry \/ EvalLabel
  BY <1>1, <1>6, EvalTurns
<1>7. CASE UNCHANGED vars
  BY <1>7 DEF vars
<1> QED
  BY <1>2, <1>3, <1>4, <1>5, <1>6, <1>7 DEF Next

\* Settled is inductive.
THEOREM Settles == Spec => []Settled(m)
<1>1. Init => Settled(m)
  BY SeedSettled
<1>2. Settled(m) /\ [Next]_vars => Settled(m)'
  BY StepSettles
<1> QED
  BY <1>1, <1>2, PTL DEF Spec

\* The stack stays addressable, whatever the filter: the pending task and every
\* frame route below themselves, and an update frame names its loop (StackIsSound).
THEOREM StackStaysSound == Spec => []StackIsSound
<1>1. Settled(m) => StackIsSound
  <2> SUFFICES ASSUME Settled(m) PROVE StackIsSound
    OBVIOUS
  <2>1. CASE Ready(m)
    <3>1. Live(m) /\ (m.pending # Idle => m.pending.cont <= Depth(m))
      BY <2>1 DEF Ready, Tasked
    <3>2. Stack(m.frames) /\ Depth(m) = Len(m.frames)
      BY <3>1 DEF Live, Depth
    <3>3. ASSUME NEW i \in 1..Depth(m)
          PROVE  /\ m.frames[i].out < i
                 /\ m.frames[i].kind \in Updates =>
                      /\ m.frames[i].x < i
                      /\ m.frames[m.frames[i].x].kind \in Sources
                      /\ m.frames[m.frames[i].x].at = m.frames[i].at
      BY <3>2 DEF Stack, FrameOK, Names
    <3> QED
      BY <3>1, <3>3 DEF StackIsSound, Updates, Sources
  <2>2. CASE m.pending = Idle /\ m.frames = <<>>
    <3>1. Depth(m) = 0 /\ 1..Depth(m) = {}
      BY <2>2 DEF Depth
    <3> QED
      BY <2>2, <3>1 DEF StackIsSound
  <2> QED
    BY <2>1, <2>2 DEF Settled
<1> QED
  BY <1>1, Settles, PTL

\* A run that ended has left every suppression region it entered (RegionsClose).
THEOREM RegionsAllClose == Spec => []RegionsClose
<1>1. Settled(m) => RegionsClose
  BY DEF Settled, Ready, Live, RegionsClose
<1> QED
  BY <1>1, Settles, PTL

=============================================================================
