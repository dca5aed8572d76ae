--------------------------- MODULE SequenceLemmas ---------------------------
(***************************************************************************)
(* Facts about data that the proofs of several components need: induction  *)
(* over the naturals in a form that takes a set, and what the community    *)
(* modules' operators on sequences return.                                 *)
(***************************************************************************)
EXTENDS SequencesExt, WellFoundedInduction, SequenceTheorems, FiniteSetTheorems,
        FunctionTheorems, TLAPS

-----------------------------------------------------------------------------
(* Induction.                                                              *)

\* A set of naturals has a least element.
LEMMA LeastElement ==
    ASSUME NEW S \in SUBSET Nat, S # {}
    PROVE  \E n \in S : \A m \in S : n <= m
<1>1. PICK x \in S : \A y \in S : ~ (<<y, x>> \in OpToRel(<, Nat))
  BY WFMin, NatLessThanWellFounded
<1>2. \A y \in S : ~(y < x)
  BY <1>1 DEF OpToRel
<1> QED BY <1>2

\* Induction over the naturals: the set of those a statement holds of is Nat.
LEMMA NatSetInduction ==
    ASSUME NEW T, 0 \in T, \A n \in Nat : n \in T => n + 1 \in T
    PROVE  Nat \subseteq T
<1> SUFFICES ASSUME Nat \ T # {} PROVE FALSE
  OBVIOUS
<1>1. PICK n \in Nat \ T : \A m \in Nat \ T : n <= m
  BY LeastElement
<1>2. n - 1 \in Nat /\ ~(n <= n - 1)
  BY <1>1, SMT
<1>3. n - 1 \in T
  BY <1>1, <1>2, SMT
<1> QED BY <1>1, <1>2, <1>3, SMT

-----------------------------------------------------------------------------
(* Finite sets.                                                            *)

\* A set has no more elements than one that holds it and something else.
LEMMA Fewer ==
    ASSUME NEW S, IsFiniteSet(S), NEW T, T \subseteq S, NEW x \in S, x \notin T
    PROVE  Cardinality(T) < Cardinality(S)
<1>1. /\ Cardinality(T) <= Cardinality(S) /\ Cardinality(T) # Cardinality(S)
      /\ Cardinality(T) \in Nat /\ Cardinality(S) \in Nat
  BY FS_Subset, FS_CardinalityType
<1> QED BY <1>1

\* Sets with a one-to-one map between them have as many elements.
LEMMA SameSize ==
    ASSUME NEW S, IsFiniteSet(S), NEW T, NEW f \in Bijection(S, T)
    PROVE  Cardinality(T) = Cardinality(S)
<1>1. ExistsBijection(S, T)
  BY DEF ExistsBijection
<1> QED BY <1>1, FS_Bijection

\* The same, for a function that is only known as one.
LEMMA SameCount ==
    ASSUME NEW A, IsFiniteSet(A), NEW B, NEW f, f = [i \in A |-> f[i]],
           \A i \in A : f[i] \in B,
           \A i, j \in A : f[i] = f[j] => i = j,
           \A b \in B : \E i \in A : f[i] = b
    PROVE  Cardinality(B) = Cardinality(A)
<1>1. f \in Bijection(A, B)
  BY Zenon DEF Bijection, Injection, Surjection, IsInjective
<1> QED BY <1>1, SameSize

-----------------------------------------------------------------------------
(* Sequences as functions.                                                 *)

\* A sequence of whatever elements it has.
IsSeq(s) == s \in Seq(ToSet(s))

\* A function over 1..n is a sequence of its values.
LEMMA FunctionIsSeq ==
    ASSUME NEW n \in Nat, NEW f, f = [i \in 1..n |-> f[i]]
    PROVE  IsSeq(f) /\ Len(f) = n /\ DOMAIN f = 1..n
<1>1. DOMAIN f = 1..n
  OBVIOUS
<1>2. \A i \in 1..n : f[i] \in ToSet(f)
  BY <1>1 DEF ToSet
<1>3. f \in Seq(ToSet(f)) /\ Len(f) = n
  BY <1>2
<1> QED BY <1>1, <1>3 DEF IsSeq

\* The length, domain and elements of a sequence.
LEMMA SeqFacts ==
    ASSUME NEW s, IsSeq(s)
    PROVE  /\ Len(s) \in Nat /\ DOMAIN s = 1..Len(s)
           /\ s = [i \in 1..Len(s) |-> s[i]]
           /\ \A i \in 1..Len(s) : s[i] \in ToSet(s)
           /\ \A x \in ToSet(s) : \E i \in 1..Len(s) : s[i] = x
<1>1. s \in Seq(ToSet(s))
  BY DEF IsSeq
<1>2. Len(s) \in Nat /\ DOMAIN s = 1..Len(s) /\ s = [i \in 1..Len(s) |-> s[i]]
  BY <1>1
<1>3. ToSet(s) = {s[i] : i \in 1..Len(s)}
  BY <1>2 DEF ToSet
<1> QED BY <1>2, <1>3

\* A member of Seq(S) is one of these.
LEMMA SeqIsSeq ==
    ASSUME NEW S, NEW s \in Seq(S)
    PROVE  IsSeq(s) /\ ToSet(s) \subseteq S
<1>1. Len(s) \in Nat /\ s = [i \in 1..Len(s) |-> s[i]] /\ \A i \in 1..Len(s) : s[i] \in S
  OBVIOUS
<1>2. IsSeq(s)
  BY <1>1, FunctionIsSeq
<1>3. ToSet(s) \subseteq S
  BY <1>1 DEF ToSet
<1> QED BY <1>2, <1>3

\* A sequence is one over every set that holds its elements.
LEMMA IsSeqIn ==
    ASSUME NEW s, IsSeq(s), NEW S, ToSet(s) \subseteq S
    PROVE  s \in Seq(S)
BY SeqFacts

\* The empty sequence.
LEMMA EmptyIsSeq == IsSeq(<<>>) /\ ToSet(<<>>) = {} /\ Len(<<>>) = 0
<1>1. \A x : x \notin ToSet(<<>>)
  BY DEF ToSet
<1>2. <<>> \in Seq(ToSet(<<>>))
  OBVIOUS
<1> QED BY <1>1, <1>2 DEF IsSeq

\* Appending an element.
LEMMA AppendIsSeq ==
    ASSUME NEW s, IsSeq(s), NEW e
    PROVE  /\ IsSeq(Append(s, e)) /\ ToSet(Append(s, e)) = ToSet(s) \cup {e}
           /\ Len(Append(s, e)) = Len(s) + 1
           /\ \A i \in 1..Len(s) : Append(s, e)[i] = s[i]
           /\ Append(s, e)[Len(s) + 1] = e
<1> DEFINE S == ToSet(s) \cup {e}
           t == Append(s, e)
<1>1. s \in Seq(S) /\ e \in S
  BY IsSeqIn, Zenon
<1> HIDE DEF S
<1>2. t \in Seq(S) /\ Len(t) = Len(s) + 1 /\ Len(s) \in Nat
      /\ (\A i \in 1..Len(s) : t[i] = s[i]) /\ t[Len(s) + 1] = e
  BY <1>1
<1> HIDE DEF t
<1>3. IsSeq(t) /\ ToSet(t) \subseteq S
  BY <1>2, SeqIsSeq
<1>4. ASSUME NEW x \in S PROVE x \in ToSet(t)
  <2>1. CASE x \in ToSet(s)
    <3>1. PICK i \in 1..Len(s) : s[i] = x
      BY <2>1, SeqFacts
    <3>2. i \in 1..Len(t) /\ t[i] = x
      BY <3>1, <1>2
    <3> QED BY <3>2, <1>3, SeqFacts
  <2>2. CASE x = e
    <3>1. Len(t) \in 1..Len(t) /\ t[Len(t)] = x
      BY <2>2, <1>2
    <3> QED BY <3>1, <1>3, SeqFacts
  <2> QED BY <2>1, <2>2 DEF S
<1>5. ToSet(t) = ToSet(s) \cup {e}
  BY <1>3, <1>4 DEF S
<1> QED BY <1>2, <1>3, <1>5 DEF t

\* Concatenating two sequences.
LEMMA ConcatIsSeq ==
    ASSUME NEW s, NEW t, IsSeq(s), IsSeq(t)
    PROVE  /\ IsSeq(s \o t) /\ ToSet(s \o t) = ToSet(s) \cup ToSet(t)
           /\ Len(s \o t) = Len(s) + Len(t)
<1> DEFINE S == ToSet(s) \cup ToSet(t)
           u == s \o t
<1>1. s \in Seq(S) /\ t \in Seq(S)
  BY IsSeqIn, Zenon
<1> HIDE DEF S
<1>2. u \in Seq(S) /\ Len(u) = Len(s) + Len(t) /\ Len(s) \in Nat /\ Len(t) \in Nat
      /\ (\A i \in 1..Len(s) : u[i] = s[i]) /\ (\A i \in 1..Len(t) : u[Len(s) + i] = t[i])
  BY <1>1
<1> HIDE DEF u
<1>3. IsSeq(u) /\ ToSet(u) \subseteq S
  BY <1>2, SeqIsSeq
<1>4. ASSUME NEW x \in S PROVE x \in ToSet(u)
  <2>1. CASE x \in ToSet(s)
    <3>1. PICK i \in 1..Len(s) : s[i] = x
      BY <2>1, SeqFacts
    <3>2. i \in 1..Len(u) /\ u[i] = x
      BY <3>1, <1>2
    <3> QED BY <3>2, <1>3, SeqFacts
  <2>2. CASE x \in ToSet(t)
    <3>1. PICK i \in 1..Len(t) : t[i] = x
      BY <2>2, SeqFacts
    <3>2. Len(s) + i \in 1..Len(u) /\ u[Len(s) + i] = x
      BY <3>1, <1>2
    <3> QED BY <3>2, <1>3, SeqFacts
  <2> QED BY <2>1, <2>2 DEF S
<1> QED BY <1>2, <1>3, <1>4 DEF S, u

\* A queue loses its head.
LEMMA TailIsSeq ==
    ASSUME NEW s, IsSeq(s), s # <<>>
    PROVE  /\ IsSeq(Tail(s)) /\ Head(s) \in ToSet(s) /\ ToSet(Tail(s)) \subseteq ToSet(s)
           /\ Len(s) \in Nat /\ Len(s) >= 1 /\ Len(Tail(s)) = Len(s) - 1 /\ Head(s) = s[1]
           /\ \A i \in 1..Len(Tail(s)) : Tail(s)[i] = s[i + 1]
<1>1. s \in Seq(ToSet(s))
  BY DEF IsSeq
<1>2. Tail(s) \in Seq(ToSet(s)) /\ Head(s) \in ToSet(s)
      /\ Len(s) \in Nat /\ Len(s) >= 1 /\ Len(Tail(s)) = Len(s) - 1 /\ Head(s) = s[1]
      /\ \A i \in 1..Len(Tail(s)) : Tail(s)[i] = s[i + 1]
  BY <1>1
<1> QED BY <1>2, SeqIsSeq

-----------------------------------------------------------------------------
(* FlattenSeq.                                                             *)

\* Its recursive function, up to a position.
FlattenBody(seqs, k, f) == [i \in 1..k |-> IF i = 1 THEN seqs[i] ELSE f[i-1] \o seqs[i]]

\* The recursive function in FlattenSeq exists.
LEMMA FlattenExists ==
    ASSUME NEW s, Len(s) \in Nat
    PROVE  \E f : f = FlattenBody(s, Len(s), f)
<1> DEFINE n == Len(s)
<1>0. n \in Nat /\ n <= n
  OBVIOUS
<1> DEFINE T == {k \in Nat : k <= n => \E g : g = FlattenBody(s, k, g)}
<1>1. 0 \in T
  <2> DEFINE g == [i \in 1..0 |-> IF i = 1 THEN s[i] ELSE s[i]]
  <2>1. g = FlattenBody(s, 0, g)
    BY DEF FlattenBody
  <2> QED BY <2>1, Zenon
<1>2. ASSUME NEW k \in Nat, k \in T PROVE k + 1 \in T
  <2>0. k + 1 \in Nat /\ (k + 1 <= n => k <= n)
    BY <1>0
  <2> SUFFICES ASSUME k + 1 <= n PROVE \E g : g = FlattenBody(s, k + 1, g)
    BY <2>0, Zenon
  <2>1. PICK g : g = FlattenBody(s, k, g)
    BY <1>2, <2>0, Zenon
  <2> DEFINE h == [i \in 1..(k+1) |-> IF i = k + 1 THEN (IF i = 1 THEN s[i] ELSE g[i-1] \o s[i])
                                      ELSE g[i]]
  <2>2. ASSUME NEW i \in 1..(k+1)
        PROVE  h[i] = IF i = 1 THEN s[i] ELSE h[i-1] \o s[i]
    <3>1. CASE i = k + 1 /\ i # 1
      <4>1. i - 1 \in 1..(k+1) /\ i - 1 # k + 1
        BY <3>1
      <4>2. h[i-1] = g[i-1]
        BY <4>1
      <4> QED BY <3>1, <4>2
    <3>2. CASE i = k + 1 /\ i = 1
      BY <3>2
    <3>3. CASE i # k + 1 /\ i # 1
      <4>1. i - 1 \in 1..(k+1) /\ i - 1 # k + 1 /\ i \in 1..k
        BY <3>3
      <4>2. h[i-1] = g[i-1] /\ h[i] = g[i]
        BY <4>1
      <4>3. g[i] = IF i = 1 THEN s[i] ELSE g[i-1] \o s[i]
        BY <2>1, <4>1 DEF FlattenBody
      <4> QED BY <3>3, <4>2, <4>3
    <3>4. CASE i # k + 1 /\ i = 1
      <4>1. i \in 1..k
        BY <3>4
      <4>2. g[i] = s[i]
        BY <2>1, <4>1, <3>4 DEF FlattenBody
      <4> QED BY <3>4, <4>2
    <3> QED BY <3>1, <3>2, <3>3, <3>4
  <2>3. h = [i \in 1..(k+1) |-> h[i]]
    OBVIOUS
  <2> HIDE DEF h
  <2>4. h = FlattenBody(s, k + 1, h)
    BY <2>2, <2>3, Zenon DEF FlattenBody
  <2> QED BY <2>4, Zenon
<1> HIDE DEF T
<1>3. n \in T
  BY <1>0, <1>1, <1>2, NatSetInduction
<1> QED BY <1>0, <1>3 DEF T

\* FlattenSeq gathers the elements of the sequences.
LEMMA FlattenIsSeq ==
    ASSUME NEW s, IsSeq(s), \A i \in 1..Len(s) : IsSeq(s[i])
    PROVE  /\ IsSeq(FlattenSeq(s))
           /\ \A x : x \in ToSet(FlattenSeq(s)) <=> \E i \in 1..Len(s) : x \in ToSet(s[i])
<1> DEFINE n == Len(s)
           f == CHOOSE f : f = FlattenBody(s, Len(s), f)
<1>0. n \in Nat
  BY SeqFacts
<1>1. f = FlattenBody(s, n, f)
  BY FlattenExists, <1>0, Zenon
<1> HIDE DEF f
<1>2. ASSUME NEW i \in 1..n PROVE f[i] = IF i = 1 THEN s[i] ELSE f[i-1] \o s[i]
  BY <1>1 DEF FlattenBody
<1> DEFINE T == {k \in Nat : k + 1 <= n =>
                   /\ IsSeq(f[k+1])
                   /\ \A x : x \in ToSet(f[k+1]) <=> \E i \in 1..(k+1) : x \in ToSet(s[i])}
<1>3. 0 \in T
  <2> SUFFICES ASSUME 1 <= n
               PROVE IsSeq(f[1]) /\ \A x : x \in ToSet(f[1]) <=> \E i \in 1..1 : x \in ToSet(s[i])
    OBVIOUS
  <2>1. f[1] = s[1] /\ 1 \in 1..n
    BY <1>2, <1>0
  <2> QED BY <2>1
<1>4. ASSUME NEW k \in Nat, k \in T PROVE k + 1 \in T
  <2> SUFFICES ASSUME k + 2 <= n
               PROVE /\ IsSeq(f[k+2])
                     /\ \A x : x \in ToSet(f[k+2]) <=> \E i \in 1..(k+2) : x \in ToSet(s[i])
    OBVIOUS
  <2>1. /\ IsSeq(f[k+1])
        /\ \A x : x \in ToSet(f[k+1]) <=> \E i \in 1..(k+1) : x \in ToSet(s[i])
    BY <1>4, <1>0
  <2>2. f[k+2] = f[k+1] \o s[k+2] /\ k + 2 \in 1..n
    <3>1. k + 2 \in 1..n /\ k + 2 # 1 /\ (k + 2) - 1 = k + 1
      BY <1>0
    <3> QED BY <3>1, <1>2
  <2>3. IsSeq(f[k+2]) /\ ToSet(f[k+2]) = ToSet(f[k+1]) \cup ToSet(s[k+2])
    BY <2>1, <2>2, ConcatIsSeq
  <2>4. 1..(k+2) = (1..(k+1)) \cup {k+2}
    OBVIOUS
  <2> QED BY <2>1, <2>3, <2>4, Zenon
<1> HIDE DEF T
<1>5. CASE n = 0
  <2>1. FlattenSeq(s) = s /\ s = <<>>
    BY <1>5, SeqFacts DEF FlattenSeq
  <2>2. 1..n = {}
    BY <1>5
  <2> QED BY <2>1, <2>2, EmptyIsSeq
<1>6. CASE n # 0
  <2>1. n - 1 \in Nat /\ (n - 1) + 1 = n
    BY <1>0, <1>6
  <2>2. n - 1 \in T
    BY <1>3, <1>4, <2>1, NatSetInduction
  <2>3. /\ IsSeq(f[n])
        /\ \A x : x \in ToSet(f[n]) <=> \E i \in 1..n : x \in ToSet(s[i])
    BY <2>1, <2>2, <1>0 DEF T
  <2>4. FlattenSeq(s) = f[n]
    BY <1>6 DEF FlattenSeq, f, FlattenBody
  <2> QED BY <2>3, <2>4
<1> QED BY <1>5, <1>6

\* The elements of a sequence are finitely many.
LEMMA ToSetFinite == ASSUME NEW s, IsSeq(s) PROVE IsFiniteSet(ToSet(s))
<1>1. /\ Len(s) \in Nat /\ DOMAIN s = 1..Len(s) /\ s \in [1..Len(s) -> ToSet(s)]
      /\ \A x \in ToSet(s) : \E i \in 1..Len(s) : s[i] = x
  BY SeqFacts DEF IsSeq
<1>2. s \in Surjection(1..Len(s), ToSet(s))
  BY <1>1 DEF Surjection
<1>3. IsFiniteSet(1..Len(s))
  BY <1>1, FS_Interval
<1> QED BY <1>2, <1>3, FS_Surjection

\* Every element of the sequence is related to the later ones.
Ordered(s, R) == \A i, j \in 1..Len(s) : i < j => <<s[i], s[j]>> \in R

\* A concatenation is ordered when its parts are, and the first goes before the second.
LEMMA ConcatOrdered ==
    ASSUME NEW R, NEW s, NEW t, IsSeq(s), IsSeq(t), Ordered(s, R), Ordered(t, R),
           \A x \in ToSet(s), y \in ToSet(t) : <<x, y>> \in R
    PROVE  Ordered(s \o t, R)
<1> DEFINE S == ToSet(s) \cup ToSet(t)
           u == s \o t
           n == Len(s)
           m == Len(t)
<1>1. s \in Seq(S) /\ t \in Seq(S) /\ n \in Nat /\ m \in Nat
      /\ (\A i \in 1..n : s[i] \in ToSet(s)) /\ (\A i \in 1..m : t[i] \in ToSet(t))
  BY IsSeqIn, SeqFacts, Zenon
<1> HIDE DEF S
<1>2. Len(u) = n + m /\ \A i \in 1..(n + m) : u[i] = IF i <= n THEN s[i] ELSE t[i - n]
  BY <1>1
<1> HIDE DEF u
<1>3. ASSUME NEW i \in 1..(n + m), NEW j \in 1..(n + m), i < j PROVE <<u[i], u[j]>> \in R
  <2>1. CASE j <= n
    <3>1. i \in 1..n /\ j \in 1..n /\ u[i] = s[i] /\ u[j] = s[j]
      BY <1>1, <1>2, <1>3, <2>1
    <3> QED BY <1>3, <3>1 DEF Ordered
  <2>2. CASE ~(j <= n) /\ i <= n
    <3>1. i \in 1..n /\ j - n \in 1..m /\ u[i] = s[i] /\ u[j] = t[j - n]
      BY <1>1, <1>2, <1>3, <2>2
    <3>2. s[i] \in ToSet(s) /\ t[j - n] \in ToSet(t)
      BY <1>1, <3>1
    <3> QED BY <3>1, <3>2
  <2>3. CASE ~(i <= n)
    <3>1. i - n \in 1..m /\ j - n \in 1..m /\ i - n < j - n /\ u[i] = t[i - n] /\ u[j] = t[j - n]
      BY <1>1, <1>2, <1>3, <2>3
    <3> QED BY <3>1 DEF Ordered
  <2> QED BY <2>1, <2>2, <2>3
<1> QED BY <1>2, <1>3 DEF Ordered, u

\* So does the flattening of ordered sequences, each of which goes before the next.
LEMMA FlattenOrdered ==
    ASSUME NEW R, NEW s, IsSeq(s), \A i \in 1..Len(s) : IsSeq(s[i]) /\ Ordered(s[i], R),
           \A i, j \in 1..Len(s) : i < j =>
               \A x \in ToSet(s[i]), y \in ToSet(s[j]) : <<x, y>> \in R
    PROVE  Ordered(FlattenSeq(s), R)
<1> DEFINE n == Len(s)
           f == CHOOSE f : f = FlattenBody(s, Len(s), f)
<1>0. n \in Nat
  BY SeqFacts
<1>1. f = FlattenBody(s, n, f)
  BY FlattenExists, <1>0, Zenon
<1> HIDE DEF f
<1>2. ASSUME NEW i \in 1..n PROVE f[i] = IF i = 1 THEN s[i] ELSE f[i-1] \o s[i]
  BY <1>1 DEF FlattenBody
<1> DEFINE T == {k \in Nat : k + 1 <= n =>
                   /\ IsSeq(f[k+1]) /\ Ordered(f[k+1], R)
                   /\ \A x : x \in ToSet(f[k+1]) <=> \E i \in 1..(k+1) : x \in ToSet(s[i])}
<1>3. 0 \in T
  <2> SUFFICES ASSUME 1 <= n
               PROVE /\ IsSeq(f[1]) /\ Ordered(f[1], R)
                     /\ \A x : x \in ToSet(f[1]) <=> \E i \in 1..1 : x \in ToSet(s[i])
    OBVIOUS
  <2>1. f[1] = s[1] /\ 1 \in 1..n
    BY <1>2, <1>0
  <2> QED BY <2>1
<1>4. ASSUME NEW k \in Nat, k \in T PROVE k + 1 \in T
  <2> SUFFICES ASSUME k + 2 <= n
               PROVE /\ IsSeq(f[k+2]) /\ Ordered(f[k+2], R)
                     /\ \A x : x \in ToSet(f[k+2]) <=> \E i \in 1..(k+2) : x \in ToSet(s[i])
    OBVIOUS
  <2>1. /\ IsSeq(f[k+1]) /\ Ordered(f[k+1], R)
        /\ \A x : x \in ToSet(f[k+1]) <=> \E i \in 1..(k+1) : x \in ToSet(s[i])
    BY <1>4, <1>0
  <2>2. f[k+2] = f[k+1] \o s[k+2] /\ k + 2 \in 1..n
    <3>1. k + 2 \in 1..n /\ k + 2 # 1 /\ (k + 2) - 1 = k + 1
      BY <1>0
    <3> QED BY <3>1, <1>2
  <2>3. IsSeq(f[k+2]) /\ ToSet(f[k+2]) = ToSet(f[k+1]) \cup ToSet(s[k+2])
    BY <2>1, <2>2, ConcatIsSeq
  <2>4. 1..(k+2) = (1..(k+1)) \cup {k+2} /\ \A i \in 1..(k+1) : i \in 1..n /\ i < k + 2
    BY <1>0, <2>2
  <2>5. \A x \in ToSet(f[k+1]), y \in ToSet(s[k+2]) : <<x, y>> \in R
    BY <2>1, <2>2, <2>4
  <2>6. Ordered(f[k+2], R)
    BY <2>1, <2>2, <2>5, ConcatOrdered
  <2> QED BY <2>1, <2>3, <2>4, <2>6, Zenon
<1> HIDE DEF T
<1>5. CASE n = 0
  <2>1. FlattenSeq(s) = s
    BY <1>5, SeqFacts DEF FlattenSeq
  <2> QED BY <1>5, <2>1 DEF Ordered
<1>6. CASE n # 0
  <2>1. n - 1 \in Nat /\ (n - 1) + 1 = n
    BY <1>0, <1>6
  <2>2. n - 1 \in T
    BY <1>3, <1>4, <2>1, NatSetInduction
  <2>3. Ordered(f[n], R)
    BY <2>1, <2>2, <1>0 DEF T
  <2>4. FlattenSeq(s) = f[n]
    BY <1>6 DEF FlattenSeq, f, FlattenBody
  <2> QED BY <2>3, <2>4
<1> QED BY <1>5, <1>6
\* Flattening keeps the chosen elements of a sequence, in their order.
LEMMA FlattenChosen ==
    ASSUME NEW R, NEW s, IsSeq(s), Ordered(s, R), NEW A \in SUBSET (1..Len(s)),
           NEW c, IsSeq(c), Len(c) = Len(s),
           \A i \in 1..Len(s) : c[i] = IF i \in A THEN <<s[i]>> ELSE <<>>
    PROVE  /\ IsSeq(FlattenSeq(c)) /\ Ordered(FlattenSeq(c), R)
           /\ \A x : x \in ToSet(FlattenSeq(c)) <=> \E i \in 1..Len(s) : i \in A /\ x = s[i]
<1> DEFINE n == Len(s)
<1>1. n \in Nat
  BY SeqFacts
<1>2. IsSeq(c) /\ Len(c) = n
  OBVIOUS
<1>3. ASSUME NEW i \in 1..n
      PROVE  /\ IsSeq(c[i]) /\ Ordered(c[i], R)
             /\ \A x : x \in ToSet(c[i]) <=> i \in A /\ x = s[i]
  <2>1. CASE i \in A
    <3> DEFINE e == s[i]
    <3> HIDE DEF e
    <3>1. c[i] = <<e>>
      BY <2>1 DEF e
    <3>2. IsSeq(<<e>>) /\ ToSet(<<e>>) = {} \cup {e} /\ Len(<<e>>) = 1
      <4>1. <<e>> = Append(<<>>, e)
        OBVIOUS
      <4>2. /\ IsSeq(Append(<<>>, e)) /\ ToSet(Append(<<>>, e)) = ToSet(<<>>) \cup {e}
            /\ Len(Append(<<>>, e)) = Len(<<>>) + 1
        BY EmptyIsSeq, AppendIsSeq
      <4>3. Len(<<>>) + 1 = 1 /\ ToSet(<<>>) = {}
        BY EmptyIsSeq
      <4> QED BY <4>1, <4>2, <4>3
    <3>3. Ordered(<<e>>, R)
      BY <3>2 DEF Ordered
    <3> QED BY <2>1, <3>1, <3>2, <3>3 DEF e
  <2>2. CASE i \notin A
    <3>1. c[i] = <<>>
      BY <2>2
    <3>2. Ordered(<<>>, R)
      BY DEF Ordered
    <3> QED BY <2>2, <3>1, <3>2, EmptyIsSeq
  <2> QED BY <2>1, <2>2
<1> HIDE DEF n
<1>4. \A i \in 1..Len(c) : IsSeq(c[i]) /\ Ordered(c[i], R)
  BY <1>2, <1>3
<1>5. \A i, j \in 1..Len(c) : i < j => \A x \in ToSet(c[i]), y \in ToSet(c[j]) : <<x, y>> \in R
  <2> SUFFICES ASSUME NEW i \in 1..n, NEW j \in 1..n, i < j, NEW x \in ToSet(c[i]), NEW y \in ToSet(c[j])
               PROVE  <<x, y>> \in R
    BY <1>2
  <2>1. x = s[i] /\ y = s[j]
    BY <1>3
  <2> QED BY <2>1 DEF Ordered, n
<1>6. Ordered(FlattenSeq(c), R)
  BY <1>2, <1>4, <1>5, FlattenOrdered
<1>7. /\ IsSeq(FlattenSeq(c))
      /\ \A x : x \in ToSet(FlattenSeq(c)) <=> \E i \in 1..n : x \in ToSet(c[i])
  <2>1. /\ IsSeq(FlattenSeq(c))
        /\ \A x : x \in ToSet(FlattenSeq(c)) <=> \E i \in 1..Len(c) : x \in ToSet(c[i])
    BY <1>2, <1>4, FlattenIsSeq
  <2> QED BY <1>2, <2>1
<1>8. \A x : x \in ToSet(FlattenSeq(c)) <=> \E i \in 1..n : i \in A /\ x = s[i]
  <2> SUFFICES ASSUME NEW x
               PROVE  (\E i \in 1..n : x \in ToSet(c[i])) <=> \E i \in 1..n : i \in A /\ x = s[i]
    BY <1>7
  <2>1. ASSUME NEW i \in 1..n PROVE x \in ToSet(c[i]) <=> i \in A /\ x = s[i]
    BY <1>3
  <2> QED BY <2>1
<1> QED BY <1>6, <1>7, <1>8 DEF n

=============================================================================
