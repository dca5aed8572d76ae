-------------------------- MODULE QueryPagesProofs --------------------------
(***************************************************************************)
(* What a client may believe of its pages and of get_cluster_health, for   *)
(* any files, requests and number of calls.                                *)
(***************************************************************************)
EXTENDS QueryPages, SequenceLemmas

-----------------------------------------------------------------------------
(* Sorting and ranks.                                                      *)

\* The elements of Sorted(S): each once, ascending, after as many as are smaller.
LEMMA SortedFacts ==
    ASSUME NEW S \in SUBSET Nat, IsFiniteSet(S)
    PROVE  /\ IsSeq(Sorted(S)) /\ DOMAIN Sorted(S) = 1..Len(Sorted(S)) /\ ToSet(Sorted(S)) = S
           /\ \A i \in 1..Len(Sorted(S)) : /\ Sorted(S)[i] \in S
                                           /\ Cardinality({y \in S : y < Sorted(S)[i]}) = i - 1
           /\ \A i, j \in 1..Len(Sorted(S)) : i < j => Sorted(S)[i] < Sorted(S)[j]
<1> DEFINE n == Cardinality(S)
           below(x) == {y \in S : y < x}
           rank == [x \in S |-> Cardinality(below(x)) + 1]
           t == Sorted(S)
<1>1. n \in Nat /\ 1 \in Int /\ IsFiniteSet(1..n) /\ Cardinality(1..n) = n
  <2>1. n \in Nat /\ 1 \in Int /\ n \in Int
    BY FS_CardinalityType
  <2>2. IsFiniteSet(1..n) /\ Cardinality(1..n) = IF 1 > n THEN 0 ELSE n - 1 + 1
    BY <2>1, FS_Interval, Zenon
  <2> QED BY <2>1, <2>2
<1>2. ASSUME NEW x \in S
      PROVE  IsFiniteSet(below(x)) /\ Cardinality(below(x)) \in Nat /\ rank[x] \in 1..n
             /\ rank[x] = Cardinality(below(x)) + 1
  <2>1. below(x) \subseteq S /\ x \notin below(x) /\ x \in Nat
    OBVIOUS
  <2>2. IsFiniteSet(below(x)) /\ Cardinality(below(x)) < n
    BY <2>1, FS_Subset, Fewer
  <2>3. Cardinality(below(x)) \in Nat
    BY <2>2, FS_CardinalityType
  <2> QED BY <1>1, <2>2, <2>3
<1>3. ASSUME NEW x \in S, NEW y \in S, x < y PROVE rank[x] < rank[y]
  <2>0. \A z \in S : z \in Nat
    OBVIOUS
  <2>1. below(x) \subseteq below(y) /\ x \in below(y) /\ x \notin below(x)
    <3>1. \A z \in S : z < x => z < y
      BY <2>0, <1>3
    <3>2. ~(x < x)
      BY <2>0
    <3> QED BY <3>1, <3>2, <1>3
  <2>2. Cardinality(below(x)) < Cardinality(below(y))
    BY <2>1, <1>2, Fewer
  <2> QED BY <1>2, <2>2
<1>4. ASSUME NEW x \in S, NEW y \in S, rank[x] = rank[y] PROVE x = y
  <2>1. x \in Nat /\ y \in Nat /\ rank[x] \in Nat
    BY <1>1, <1>2
  <2>2. ~(x < y) /\ ~(y < x)
    BY <1>3, <1>4, <2>1
  <2> QED BY <2>1, <2>2
<1>5. rank \in [S -> 1..n]
  BY <1>2
<1> HIDE DEF rank
<1>6. rank \in Surjection(S, 1..n)
  <2>1. \A x, y \in S : rank[x] = rank[y] => x = y
    BY <1>4
  <2>2. rank \in Injection(S, 1..n)
    BY <1>5, <2>1, Fun_IsInj
  <2> QED BY <1>1, <2>2, FS_Injection
<1>7. ASSUME NEW i \in 1..n
      PROVE  t[i] \in S /\ Cardinality(below(t[i])) = i - 1 /\ rank[t[i]] = i
  <2>1. PICK x \in S : rank[x] = i
    BY <1>6 DEF Surjection
  <2>2. Cardinality(below(x)) = i - 1
    <3>1. Cardinality(below(x)) \in Nat /\ i = Cardinality(below(x)) + 1
      BY <1>2, <2>1
    <3> HIDE DEF below
    <3> QED BY <3>1
  <2>3. t[i] = CHOOSE z \in S : Cardinality(below(z)) = i - 1
    BY DEF Sorted
  <2>4. t[i] \in S /\ Cardinality(below(t[i])) = i - 1
    BY <2>2, <2>3
  <2>5. rank[t[i]] = Cardinality(below(t[i])) + 1
    BY <1>2, <2>4
  <2> HIDE DEF below, t
  <2> QED BY <1>1, <2>4, <2>5
<1>8. IsSeq(t) /\ Len(t) = n /\ DOMAIN t = 1..n
  <2>1. t = [i \in 1..n |-> t[i]]
    BY SMTT(20) DEF Sorted
  <2> QED BY <1>1, <2>1, FunctionIsSeq
<1> HIDE DEF t
<1>9. ToSet(t) = S
  <2>1. ASSUME NEW x \in ToSet(t) PROVE x \in S
    <3>1. \E i \in 1..n : t[i] = x
      BY <1>8, SeqFacts
    <3> QED BY <1>7, <3>1
  <2>2. ASSUME NEW x \in S PROVE x \in ToSet(t)
    <3>1. rank[x] \in 1..n
      BY <1>2
    <3>2. t[rank[x]] \in S /\ rank[t[rank[x]]] = rank[x]
      BY <3>1, <1>7
    <3>3. t[rank[x]] = x
      BY <1>4, <3>2
    <3> QED BY <1>8, <3>1, <3>3, SeqFacts
  <2> QED BY <2>1, <2>2
<1>10. ASSUME NEW i \in 1..n, NEW j \in 1..n, i < j PROVE t[i] < t[j]
  <2>1. t[i] \in S /\ t[j] \in S /\ rank[t[i]] = i /\ rank[t[j]] = j
    BY <1>7
  <2>2. ~(t[j] < t[i]) /\ t[i] # t[j]
    <3>1. ~(j < i) /\ i # j
      BY <1>1, <1>10
    <3> HIDE DEF n, below
    <3> QED BY <1>3, <2>1, <3>1
  <2>3. t[i] \in Nat /\ t[j] \in Nat
    BY <2>1
  <2> QED BY <2>2, <2>3
<1> QED BY <1>7, <1>8, <1>9, <1>10 DEF t

Kinds == {"policy", "rule", "sample", "aggregate"}

Rows == Kinds \X Workloads \X Nat \X Nat

\* The order of the rows of one workload: samples first, then by number and time.
RowLess(x, y) ==
    \/ x[1] = "sample" /\ y[1] # "sample"
    \/ /\ x[1] = "sample" <=> y[1] = "sample"
       /\ x[3] < y[3] \/ (x[3] = y[3] /\ x[4] < y[4])

RowOrder == {p \in Rows \X Rows : p[1][2] = p[2][2] /\ RowLess(p[1], p[2])}

\* The rows of U that come before x in its workload.
Preceding(U, x) == {y \in U : y[2] = x[2] /\ RowLess(y, x)}

Index(U, x) == Cardinality(Preceding(U, x))

\* A row is not before itself, and what is before it is before what comes after it.
LEMMA RowOrderFacts ==
    ASSUME NEW x \in Rows, NEW y \in Rows
    PROVE  /\ ~RowLess(x, x) /\ (RowLess(x, y) => ~RowLess(y, x))
           /\ \A z \in Rows : RowLess(x, y) /\ RowLess(y, z) => RowLess(x, z)
<1>1. \A u \in Rows : u[3] \in Nat /\ u[4] \in Nat
  BY DEF Rows
<1>2. ASSUME NEW z \in Rows, RowLess(x, y), RowLess(y, z) PROVE RowLess(x, z)
  BY <1>1, <1>2, SMTT(30) DEF RowLess
<1>3. ~RowLess(x, x) /\ (RowLess(x, y) => ~RowLess(y, x))
  BY <1>1 DEF RowLess
<1> QED BY <1>2, <1>3

\* In an ordered sequence of the rows of one workload, the index is the position.
LEMMA PositionIsIndex ==
    ASSUME NEW s, IsSeq(s), ToSet(s) \subseteq Rows, Ordered(s, RowOrder), NEW i \in 1..Len(s)
    PROVE  Index(ToSet(s), s[i]) = i - 1
<1> DEFINE n == Len(s)
           U == ToSet(s)
           P == Preceding(U, s[i])
           f == [j \in 1..(i - 1) |-> s[j]]
<1>1. /\ n \in Nat /\ i \in 1..n /\ \A j \in 1..n : s[j] \in U /\ s[j] \in Rows
      /\ \A x \in U : \E j \in 1..n : s[j] = x
  BY SeqFacts
<1>2. ASSUME NEW j \in 1..n, NEW k \in 1..n, j < k
      PROVE  s[j][2] = s[k][2] /\ RowLess(s[j], s[k])
  <2>1. <<s[j], s[k]>> \in RowOrder
    BY <1>2 DEF Ordered
  <2> QED BY <2>1 DEF RowOrder
<1>3. IsFiniteSet(1..(i - 1)) /\ Cardinality(1..(i - 1)) = i - 1
  <2>1. i - 1 \in Int /\ 1 \in Int /\ i - 1 >= 0 /\ i - 1 \in Nat
    BY <1>1
  <2>2. IsFiniteSet(1..(i - 1)) /\ Cardinality(1..(i - 1)) = IF 1 > i - 1 THEN 0 ELSE (i - 1) - 1 + 1
    BY <2>1, FS_Interval, Zenon
  <2> QED BY <2>1, <2>2
<1>4. \A j \in 1..(i - 1) : j \in 1..n /\ j < i /\ f[j] = s[j]
  BY <1>1
<1>5. \A j \in 1..(i - 1) : f[j] \in P
  BY <1>1, <1>2, <1>4 DEF Preceding
<1>6. ASSUME NEW x \in P PROVE \E j \in 1..(i - 1) : f[j] = x
  <2>1. PICK j \in 1..n : s[j] = x
    BY <1>1 DEF Preceding
  <2>2. RowLess(s[j], s[i])
    BY <2>1 DEF Preceding
  <2>3. ~(i < j) /\ i # j
    BY <1>1, <1>2, <2>2, RowOrderFacts
  <2>4. j \in 1..(i - 1)
    BY <1>1, <2>3
  <2> QED BY <1>4, <2>1, <2>4
<1>7. ASSUME NEW j \in 1..(i - 1), NEW k \in 1..(i - 1), f[j] = f[k] PROVE j = k
  <2>1. j \in 1..n /\ k \in 1..n /\ s[j] = s[k] /\ s[j] \in Rows
    BY <1>1, <1>4, <1>7
  <2>2. ~(j < k) /\ ~(k < j)
    BY <1>2, <2>1, RowOrderFacts
  <2> QED BY <2>1, <2>2, <1>1
<1>8. f = [j \in 1..(i - 1) |-> f[j]]
  OBVIOUS
<1> HIDE DEF f, P
<1>9. Cardinality(P) = i - 1
  BY <1>3, <1>5, <1>6, <1>7, <1>8, SameCount
<1> QED BY <1>9 DEF P, Index

-----------------------------------------------------------------------------
(* Keys and items.                                                         *)

\* A key names a workload by its position and keeps its index.
LEMMA KeyFacts ==
    /\ Len(KeyOrder) \in Nat /\ DOMAIN KeyOrder = 1..Len(KeyOrder)
    /\ \A p \in 1..Len(KeyOrder) : KeyOrder[p] \in Workloads
    /\ \A w \in Workloads : \E p \in 1..Len(KeyOrder) : w = KeyOrder[p]
    /\ \A p \in 1..Len(KeyOrder) : \A i : Key(KeyOrder[p], i) = <<p, i>>
<1>1. IsSeq(KeyOrder)
  BY OrdersAssumption, SeqIsSeq
<1>2. /\ Len(KeyOrder) \in Nat /\ DOMAIN KeyOrder = 1..Len(KeyOrder)
      /\ \A p \in 1..Len(KeyOrder) : KeyOrder[p] \in Workloads
      /\ \A w \in Workloads : \E p \in 1..Len(KeyOrder) : w = KeyOrder[p]
  BY <1>1, SeqFacts DEF Workloads
<1>3. ASSUME NEW p \in 1..Len(KeyOrder), NEW i PROVE Key(KeyOrder[p], i) = <<p, i>>
  <2>1. \A r \in DOMAIN KeyOrder : KeyOrder[r] = KeyOrder[p] => r = p
    BY <1>2, OrdersAssumption DEF IsInjective
  <2>2. (CHOOSE r \in DOMAIN KeyOrder : KeyOrder[r] = KeyOrder[p]) = p
    BY <1>2, <2>1
  <2> QED BY <2>2 DEF Key
<1> QED BY <1>2, <1>3

\* The key of a row is a pair of naturals.
LEMMA KeyTyped == ASSUME NEW w \in Workloads, NEW i \in Nat PROVE Key(w, i) \in Nat \X Nat
<1>1. PICK p \in 1..Len(KeyOrder) : w = KeyOrder[p]
  BY KeyFacts
<1>2. Key(w, i) = <<p, i>> /\ p \in Nat
  BY <1>1, KeyFacts
<1> QED BY <1>2

\* KeyLess is a strict order of the keys, in which any two compare.
LEMMA KeyLessFacts ==
    ASSUME NEW a \in Nat \X Nat, NEW b \in Nat \X Nat, NEW c \in Nat \X Nat
    PROVE  /\ ~KeyLess(a, a) /\ (KeyLess(a, b) => ~KeyLess(b, a))
           /\ KeyLess(a, b) /\ KeyLess(b, c) => KeyLess(a, c)
           /\ a # b => KeyLess(a, b) \/ KeyLess(b, a)
           /\ KeyLess(a, b) \/ ~KeyLess(a, b)
<1>1. /\ a[1] \in Nat /\ a[2] \in Nat /\ b[1] \in Nat /\ b[2] \in Nat /\ c[1] \in Nat /\ c[2] \in Nat
      /\ a = <<a[1], a[2]>> /\ b = <<b[1], b[2]>>
  OBVIOUS
<1> QED BY <1>1, SMTT(30) DEF KeyLess

ItemSet == [key : Nat \X Nat, row : Rows]

ItemOrder == {p \in ItemSet \X ItemSet : KeyLess(p[1].key, p[2].key)}

\* The item of a row among the rows U.
Item(U, x) == [key |-> Key(x[2], Index(U, x)), row |-> x]

\* Numbering the ordered rows of one workload gives their items, in the order of the keys.
LEMMA GroupItems ==
    ASSUME NEW w \in Workloads, NEW s, IsSeq(s), ToSet(s) \subseteq Rows, Ordered(s, RowOrder),
           \A x \in ToSet(s) : x[2] = w,
           NEW g, g = [i \in DOMAIN s |-> [key |-> Key(w, i - 1), row |-> s[i]]]
    PROVE  /\ IsSeq(g) /\ Len(g) = Len(s) /\ ToSet(g) \subseteq ItemSet /\ Ordered(g, ItemOrder)
           /\ \A x : x \in ToSet(g) <=> \E y \in ToSet(s) : x = Item(ToSet(s), y)
           /\ \A x \in ToSet(g) : x.key[1] \in DOMAIN KeyOrder /\ KeyOrder[x.key[1]] = w
<1> DEFINE n == Len(s)
<1>1. /\ n \in Nat /\ DOMAIN s = 1..n
      /\ \A i \in 1..n : s[i] \in ToSet(s) /\ s[i] \in Rows /\ s[i][2] = w
      /\ \A x \in ToSet(s) : \E i \in 1..n : s[i] = x
  BY SeqFacts
<1>2. IsSeq(g) /\ Len(g) = n
  <2>1. g = [i \in 1..n |-> [key |-> Key(w, i - 1), row |-> s[i]]]
    BY <1>1
  <2>2. g = [i \in 1..n |-> g[i]]
    BY <2>1
  <2> QED BY <1>1, <2>2, FunctionIsSeq
<1>3. PICK p \in 1..Len(KeyOrder) : w = KeyOrder[p] /\ \A i : Key(w, i) = <<p, i>>
  BY KeyFacts
<1>4. ASSUME NEW i \in 1..n
      PROVE  /\ g[i] = [key |-> <<p, i - 1>>, row |-> s[i]] /\ g[i] \in ItemSet
             /\ g[i] = Item(ToSet(s), s[i])
  <2>1. i - 1 \in Nat /\ p \in Nat
    BY <1>1, KeyFacts
  <2>2. g[i] = [key |-> <<p, i - 1>>, row |-> s[i]]
    BY <1>1, <1>3
  <2>3. Index(ToSet(s), s[i]) = i - 1
    BY PositionIsIndex
  <2>4. Item(ToSet(s), s[i]) = [key |-> <<p, i - 1>>, row |-> s[i]]
    BY <1>1, <1>3, <2>3 DEF Item
  <2>5. g[i] \in ItemSet
    BY <1>1, <2>1, <2>2 DEF ItemSet
  <2> QED BY <2>2, <2>4, <2>5
<1> HIDE DEF n
<1>5. \A x : x \in ToSet(g) <=> \E i \in 1..n : g[i] = x
  <2>1. /\ \A i \in 1..Len(g) : g[i] \in ToSet(g)
        /\ \A x \in ToSet(g) : \E i \in 1..Len(g) : g[i] = x
    BY <1>2, SeqFacts
  <2> QED BY <1>2, <2>1
<1>6. ToSet(g) \subseteq ItemSet
  BY <1>4, <1>5
<1>7. ASSUME NEW i \in 1..n, NEW j \in 1..n, i < j PROVE <<g[i], g[j]>> \in ItemOrder
  <2>1. g[i].key = <<p, i - 1>> /\ g[j].key = <<p, j - 1>>
    <3>1. g[i] = [key |-> <<p, i - 1>>, row |-> s[i]] /\ g[j] = [key |-> <<p, j - 1>>, row |-> s[j]]
      BY <1>4
    <3> QED BY <3>1
  <2>2. KeyLess(g[i].key, g[j].key)
    <3>1. i - 1 < j - 1
      BY <1>1, <1>7
    <3>2. KeyLess(<<p, i - 1>>, <<p, j - 1>>)
      BY <3>1 DEF KeyLess
    <3> QED BY <2>1, <3>2
  <2>3. g[i] \in ItemSet /\ g[j] \in ItemSet
    BY <1>4
  <2> DEFINE a == g[i]
             b == g[j]
  <2> HIDE DEF a, b
  <2>4. a \in ItemSet /\ b \in ItemSet /\ KeyLess(a.key, b.key)
    BY <2>2, <2>3 DEF a, b
  <2>5. <<a, b>> \in ItemOrder
    BY <2>4 DEF ItemOrder
  <2> QED BY <2>5 DEF a, b
<1>8. Ordered(g, ItemOrder)
  BY <1>2, <1>7 DEF Ordered
<1>9. ASSUME NEW x PROVE x \in ToSet(g) <=> \E y \in ToSet(s) : x = Item(ToSet(s), y)
  <2>1. x \in ToSet(g) => \E y \in ToSet(s) : x = Item(ToSet(s), y)
    <3> SUFFICES ASSUME NEW i \in 1..n, g[i] = x PROVE \E y \in ToSet(s) : x = Item(ToSet(s), y)
      BY <1>5
    <3>1. s[i] \in ToSet(s) /\ x = Item(ToSet(s), s[i])
      BY <1>1, <1>4
    <3> QED BY <3>1, Zenon
  <2>2. ASSUME NEW y \in ToSet(s), x = Item(ToSet(s), y) PROVE x \in ToSet(g)
    <3>1. PICK i \in 1..n : s[i] = y
      BY <1>1
    <3>2. g[i] = x
      BY <1>4, <2>2, <3>1
    <3> QED BY <1>5, <3>2
  <2> QED BY <2>1, <2>2
<1>10. ASSUME NEW x \in ToSet(g) PROVE x.key[1] \in DOMAIN KeyOrder /\ KeyOrder[x.key[1]] = w
  <2>1. PICK i \in 1..n : g[i] = x
    BY <1>5
  <2>2. x.key[1] = p
    <3>1. g[i] = [key |-> <<p, i - 1>>, row |-> s[i]]
      BY <1>4
    <3> QED BY <2>1, <3>1
  <2> QED BY <1>3, <2>2, KeyFacts
<1> QED BY <1>1, <1>2, <1>6, <1>8, <1>9, <1>10 DEF n

-----------------------------------------------------------------------------
(* What each tool scans.                                                   *)

\* The files as the capture can leave them: finitely many rules, samples and drops.
FilesTyped ==
    /\ policies \subseteq Workloads /\ used \subseteq Times
    /\ evidence \in [Workloads -> [Rules -> SUBSET Times]]
    /\ \A w \in Workloads : IsFiniteSet({r \in Rules : evidence[w][r] # {}})
    /\ \A w \in Workloads : \A r \in Rules :
          /\ evidence[w][r] \subseteq used /\ IsFiniteSet(evidence[w][r])
          /\ Cardinality(evidence[w][r]) <= MaxSamples
    /\ drops \subseteq Workloads \X Reasons /\ report \subseteq drops
    /\ \A w \in Workloads : IsFiniteSet({r \in Reasons : <<w, r>> \in drops})

SampleRows(q, w) ==
    {x \in Rows : /\ x[1] = "sample" /\ x[2] = w /\ w \notin Unreadable
                  /\ x[3] \in Rules /\ MatchesDirection(q, x[3])
                  /\ x[4] \in evidence[w][x[3]] /\ q.class \in {None, SampleClass(x[4])}}

AggregateRows(q, w, status) ==
    {x \in Rows : /\ x[1] = "aggregate" /\ x[2] = w /\ x[4] = 0 /\ status # "capturing"
                  /\ x[3] \in Reasons /\ <<w, x[3]>> \in report
                  /\ q.class \in {None, Class[x[3]]}}

\* The samples of one rule, in order.
LEMMA RuleSamples ==
    ASSUME NEW w \in Workloads, NEW r \in Rules, NEW T \in SUBSET Times, IsFiniteSet(T),
           NEW s, s = [i \in DOMAIN Sorted(T) |-> <<"sample", w, r, Sorted(T)[i]>>]
    PROVE  /\ IsSeq(s) /\ ToSet(s) \subseteq Rows /\ Ordered(s, RowOrder)
           /\ \A x : x \in ToSet(s) <=> \E t \in T : x = <<"sample", w, r, t>>
<1> DEFINE ts == Sorted(T)
           n == Len(ts)
<1>1. T \in SUBSET Nat /\ r \in Nat
  BY NumbersAssumption
<1>2. /\ IsSeq(ts) /\ DOMAIN ts = 1..n /\ ToSet(ts) = T
      /\ \A i \in 1..n : ts[i] \in T
      /\ \A i, j \in 1..n : i < j => ts[i] < ts[j]
  BY <1>1, SortedFacts
<1>3. n \in Nat /\ \A t \in T : \E i \in 1..n : ts[i] = t
  BY <1>2, SeqFacts
<1> HIDE DEF ts, n
<1>4. s = [i \in 1..n |-> <<"sample", w, r, ts[i]>>]
  BY <1>2 DEF ts
<1>5. IsSeq(s) /\ Len(s) = n /\ \A i \in 1..n : s[i] = <<"sample", w, r, ts[i]>>
  <2>1. s = [i \in 1..n |-> s[i]]
    BY <1>4
  <2> QED BY <1>3, <1>4, <2>1, FunctionIsSeq
<1>6. /\ \A i \in 1..n : s[i] \in ToSet(s)
      /\ \A x \in ToSet(s) : \E i \in 1..n : s[i] = x
  <2>1. /\ \A i \in 1..Len(s) : s[i] \in ToSet(s)
        /\ \A x \in ToSet(s) : \E i \in 1..Len(s) : s[i] = x
    BY <1>5, SeqFacts
  <2> QED BY <1>5, <2>1
<1>7. \A t \in T : t \in Nat /\ <<"sample", w, r, t>> \in Rows
  BY <1>1 DEF Rows, Kinds
<1>8. ASSUME NEW x PROVE x \in ToSet(s) <=> \E t \in T : x = <<"sample", w, r, t>>
  <2>1. ASSUME x \in ToSet(s) PROVE \E t \in T : x = <<"sample", w, r, t>>
    <3>1. PICK i \in 1..n : s[i] = x
      BY <1>6, <2>1
    <3> QED BY <1>2, <1>5, <3>1
  <2>2. ASSUME NEW t \in T, x = <<"sample", w, r, t>> PROVE x \in ToSet(s)
    <3>1. PICK i \in 1..n : ts[i] = t
      BY <1>3
    <3> QED BY <1>5, <1>6, <2>2, <3>1
  <2> QED BY <2>1, <2>2
<1>9. ASSUME NEW i \in 1..n, NEW j \in 1..n, i < j PROVE <<s[i], s[j]>> \in RowOrder
  <2>1. ts[i] \in Nat /\ ts[j] \in Nat /\ ts[i] < ts[j]
    BY <1>2, <1>7, <1>9
  <2>2. s[i] \in Rows /\ s[j] \in Rows
    BY <1>2, <1>5, <1>7
  <2>3. s[i] = <<"sample", w, r, ts[i]>> /\ s[j] = <<"sample", w, r, ts[j]>>
    BY <1>5
  <2>4. s[i][2] = s[j][2] /\ RowLess(s[i], s[j])
    BY <2>1, <2>3 DEF RowLess
  <2> QED BY <2>2, <2>4 DEF RowOrder
<1>10. ToSet(s) \subseteq Rows
  BY <1>7, <1>8
<1> QED BY <1>5, <1>8, <1>9, <1>10 DEF Ordered

\* collectDroppedFlowSamples: the samples of a workload, by rule and time.
LEMMA SamplesFacts ==
    ASSUME FilesTyped, NEW q, NEW w \in Workloads
    PROVE  /\ IsSeq(CollectSamples(q, w)) /\ Ordered(CollectSamples(q, w), RowOrder)
           /\ ToSet(CollectSamples(q, w)) = SampleRows(q, w)
<1> DEFINE R == {r \in Rules : evidence[w][r] # {}}
           rs == Sorted(R)
           n == Len(rs)
           shown(r) == {t \in evidence[w][r] : q.class \in {None, SampleClass(t)}}
           rows(r) == [i \in DOMAIN Sorted(shown(r)) |-> <<"sample", w, r, Sorted(shown(r))[i]>>]
           fits(r) == w \notin Unreadable /\ MatchesDirection(q, r)
           s == [i \in DOMAIN rs |-> IF fits(rs[i]) THEN rows(rs[i]) ELSE <<>>]
<1>1. R \in SUBSET Nat /\ IsFiniteSet(R)
  BY NumbersAssumption DEF FilesTyped
<1>2. /\ IsSeq(rs) /\ DOMAIN rs = 1..n /\ ToSet(rs) = R /\ \A i \in 1..n : rs[i] \in R
      /\ \A i, j \in 1..n : i < j => rs[i] < rs[j]
  BY <1>1, SortedFacts
<1>3. n \in Nat /\ \A r \in R : \E i \in 1..n : rs[i] = r
  BY <1>2, SeqFacts
<1>4. ASSUME NEW r \in R
      PROVE  /\ IsSeq(rows(r)) /\ ToSet(rows(r)) \subseteq Rows /\ Ordered(rows(r), RowOrder)
             /\ \A x : x \in ToSet(rows(r)) <=> \E t \in shown(r) : x = <<"sample", w, r, t>>
  <2>1. r \in Rules /\ evidence[w][r] \subseteq Times /\ IsFiniteSet(evidence[w][r])
    BY DEF FilesTyped
  <2>2. shown(r) \in SUBSET Times /\ IsFiniteSet(shown(r))
    BY <2>1, FS_Subset
  <2> DEFINE T == shown(r)
             g == rows(r)
  <2>3. T \in SUBSET Times /\ IsFiniteSet(T) /\ g = [i \in DOMAIN Sorted(T) |-> <<"sample", w, r, Sorted(T)[i]>>]
    BY <2>2
  <2> HIDE DEF T, g
  <2>4. /\ IsSeq(g) /\ ToSet(g) \subseteq Rows /\ Ordered(g, RowOrder)
        /\ \A x : x \in ToSet(g) <=> \E t \in T : x = <<"sample", w, r, t>>
    BY <2>1, <2>3, RuleSamples
  <2> QED BY <2>4 DEF T, g
<1>5. IsSeq(s) /\ Len(s) = n /\ \A i \in 1..n : s[i] = IF fits(rs[i]) THEN rows(rs[i]) ELSE <<>>
  <2>1. s = [i \in 1..n |-> s[i]]
    BY <1>2
  <2> HIDE DEF rows
  <2> QED BY <1>2, <1>3, <2>1, FunctionIsSeq
<1>6. CollectSamples(q, w) = FlattenSeq(s)
  BY DEF CollectSamples, RulesOf
<1> HIDE DEF rs, n, s, R
<1>7. ASSUME NEW i \in 1..n
      PROVE  /\ IsSeq(s[i]) /\ Ordered(s[i], RowOrder)
             /\ \A x : x \in ToSet(s[i]) <=>
                   fits(rs[i]) /\ \E t \in shown(rs[i]) : x = <<"sample", w, rs[i], t>>
  <2>1. CASE fits(rs[i])
    <3>1. s[i] = rows(rs[i]) /\ rs[i] \in R
      BY <1>2, <1>5, <2>1
    <3> HIDE DEF rows, fits, shown
    <3> QED BY <1>4, <2>1, <3>1
  <2>2. CASE ~fits(rs[i])
    <3>1. s[i] = <<>>
      BY <1>5, <2>2
    <3>2. Ordered(<<>>, RowOrder)
      BY DEF Ordered
    <3> QED BY <2>2, <3>1, <3>2, EmptyIsSeq
  <2> QED BY <2>1, <2>2
<1>8. ASSUME NEW i \in 1..n, NEW j \in 1..n, i < j, NEW x \in ToSet(s[i]), NEW y \in ToSet(s[j])
      PROVE  <<x, y>> \in RowOrder
  <2>1. PICK t \in shown(rs[i]) : x = <<"sample", w, rs[i], t>>
    BY <1>7
  <2>2. PICK u \in shown(rs[j]) : y = <<"sample", w, rs[j], u>>
    BY <1>7
  <2>3. rs[i] \in R /\ rs[j] \in R /\ rs[i] < rs[j]
    BY <1>2, <1>8
  <2>4. t \in Times /\ u \in Times /\ rs[i] \in Rules /\ rs[j] \in Rules
    BY <2>3 DEF R, FilesTyped
  <2>5. t \in Nat /\ u \in Nat /\ rs[i] \in Nat /\ rs[j] \in Nat
    BY <2>4, NumbersAssumption
  <2>6. x \in Rows /\ y \in Rows
    BY <2>1, <2>2, <2>5 DEF Rows, Kinds
  <2>7. x[2] = y[2] /\ RowLess(x, y)
    BY <2>1, <2>2, <2>3 DEF RowLess
  <2> QED BY <2>6, <2>7 DEF RowOrder
<1>9. /\ IsSeq(FlattenSeq(s)) /\ Ordered(FlattenSeq(s), RowOrder)
      /\ \A x : x \in ToSet(FlattenSeq(s)) <=> \E i \in 1..n : x \in ToSet(s[i])
  <2>1. \A i \in 1..Len(s) : IsSeq(s[i]) /\ Ordered(s[i], RowOrder)
    BY <1>5, <1>7
  <2>2. \A i, j \in 1..Len(s) : i < j =>
            \A x \in ToSet(s[i]), y \in ToSet(s[j]) : <<x, y>> \in RowOrder
    BY <1>5, <1>8
  <2>3. Ordered(FlattenSeq(s), RowOrder)
    BY <1>5, <2>1, <2>2, FlattenOrdered
  <2>4. /\ IsSeq(FlattenSeq(s))
        /\ \A x : x \in ToSet(FlattenSeq(s)) <=> \E i \in 1..Len(s) : x \in ToSet(s[i])
    BY <1>5, <2>1, FlattenIsSeq
  <2> QED BY <1>5, <2>3, <2>4
<1>10. ASSUME NEW x PROVE (\E i \in 1..n : x \in ToSet(s[i])) <=> x \in SampleRows(q, w)
  <2>1. ASSUME NEW i \in 1..n, x \in ToSet(s[i]) PROVE x \in SampleRows(q, w)
    <3>1. PICK t \in shown(rs[i]) : x = <<"sample", w, rs[i], t>> /\ fits(rs[i])
      BY <1>7, <2>1
    <3>2. rs[i] \in Rules /\ t \in Times /\ t \in evidence[w][rs[i]]
      BY <1>2, <3>1 DEF R, FilesTyped
    <3>3. x \in Rows
      BY <3>1, <3>2, NumbersAssumption DEF Rows, Kinds
    <3> QED BY <3>1, <3>2, <3>3 DEF SampleRows
  <2>2. ASSUME x \in SampleRows(q, w) PROVE \E i \in 1..n : x \in ToSet(s[i])
    <3>1. /\ x \in Rows /\ x[1] = "sample" /\ x[2] = w /\ x[3] \in Rules
          /\ fits(x[3]) /\ x[4] \in shown(x[3])
      BY <2>2 DEF SampleRows
    <3>2. x = <<"sample", w, x[3], x[4]>>
      BY <3>1 DEF Rows
    <3>3. x[3] \in R
      BY <3>1 DEF R
    <3>4. PICK i \in 1..n : rs[i] = x[3]
      BY <1>3, <3>3
    <3> QED BY <1>7, <3>1, <3>2, <3>4
  <2> QED BY <2>1, <2>2
<1> QED BY <1>6, <1>9, <1>10

\* Rows that differ in their number only, in order.
LEMMA NumberedRows ==
    ASSUME NEW w \in Workloads, NEW k \in {"rule", "aggregate"}, NEW T \in SUBSET Nat, IsFiniteSet(T),
           NEW s, s = [i \in DOMAIN Sorted(T) |-> <<k, w, Sorted(T)[i], 0>>]
    PROVE  /\ IsSeq(s) /\ Len(s) = Len(Sorted(T)) /\ ToSet(s) \subseteq Rows /\ Ordered(s, RowOrder)
           /\ \A x : x \in ToSet(s) <=> \E t \in T : x = <<k, w, t, 0>>
<1> DEFINE ts == Sorted(T)
           n == Len(ts)
<1>1. /\ IsSeq(ts) /\ DOMAIN ts = 1..n /\ ToSet(ts) = T
      /\ \A i \in 1..n : ts[i] \in T
      /\ \A i, j \in 1..n : i < j => ts[i] < ts[j]
  BY SortedFacts
<1>2. n \in Nat /\ \A t \in T : \E i \in 1..n : ts[i] = t
  BY <1>1, SeqFacts
<1> HIDE DEF ts, n
<1>3. s = [i \in 1..n |-> <<k, w, ts[i], 0>>]
  BY <1>1 DEF ts
<1>4. IsSeq(s) /\ Len(s) = n /\ \A i \in 1..n : s[i] = <<k, w, ts[i], 0>>
  <2>1. s = [i \in 1..n |-> s[i]]
    BY <1>3
  <2> QED BY <1>2, <1>3, <2>1, FunctionIsSeq
<1>5. /\ \A i \in 1..n : s[i] \in ToSet(s)
      /\ \A x \in ToSet(s) : \E i \in 1..n : s[i] = x
  <2>1. /\ \A i \in 1..Len(s) : s[i] \in ToSet(s)
        /\ \A x \in ToSet(s) : \E i \in 1..Len(s) : s[i] = x
    BY <1>4, SeqFacts
  <2> QED BY <1>4, <2>1
<1>6. \A t \in T : t \in Nat /\ <<k, w, t, 0>> \in Rows
  BY DEF Rows, Kinds
<1>7. ASSUME NEW x PROVE x \in ToSet(s) <=> \E t \in T : x = <<k, w, t, 0>>
  <2>1. ASSUME x \in ToSet(s) PROVE \E t \in T : x = <<k, w, t, 0>>
    <3>1. PICK i \in 1..n : s[i] = x
      BY <1>5, <2>1
    <3> QED BY <1>1, <1>4, <3>1
  <2>2. ASSUME NEW t \in T, x = <<k, w, t, 0>> PROVE x \in ToSet(s)
    <3>1. PICK i \in 1..n : ts[i] = t
      BY <1>2
    <3> QED BY <1>4, <1>5, <2>2, <3>1
  <2> QED BY <2>1, <2>2
<1>8. ASSUME NEW i \in 1..n, NEW j \in 1..n, i < j PROVE <<s[i], s[j]>> \in RowOrder
  <2>1. ts[i] \in Nat /\ ts[j] \in Nat /\ ts[i] < ts[j]
    BY <1>1, <1>6, <1>8
  <2>2. s[i] \in Rows /\ s[j] \in Rows
    BY <1>1, <1>4, <1>6
  <2>3. s[i] = <<k, w, ts[i], 0>> /\ s[j] = <<k, w, ts[j], 0>>
    BY <1>4
  <2>4. s[i][2] = s[j][2] /\ RowLess(s[i], s[j])
    BY <2>1, <2>3 DEF RowLess
  <2> QED BY <2>2, <2>4 DEF RowOrder
<1>9. ToSet(s) \subseteq Rows
  BY <1>6, <1>7
<1> QED BY <1>4, <1>7, <1>8, <1>9 DEF Ordered, n, ts

\* collectDroppedFlowAggregates: the counted drops of a workload, by reason.
LEMMA AggregatesFacts ==
    ASSUME FilesTyped, NEW q, NEW w \in Workloads, NEW status
    PROVE  /\ IsSeq(CollectAggregates(q, w, status)) /\ Ordered(CollectAggregates(q, w, status), RowOrder)
           /\ ToSet(CollectAggregates(q, w, status)) = AggregateRows(q, w, status)
<1> DEFINE T == {r \in Reasons : <<w, r>> \in report /\ q.class \in {None, Class[r]}}
           s == [i \in DOMAIN Sorted(T) |-> <<"aggregate", w, Sorted(T)[i], 0>>]
<1>1. CASE status = "capturing"
  <2>1. CollectAggregates(q, w, status) = <<>> /\ Ordered(<<>>, RowOrder)
    BY <1>1 DEF CollectAggregates, Ordered
  <2>2. AggregateRows(q, w, status) = {}
    BY <1>1 DEF AggregateRows
  <2> QED BY <2>1, <2>2, EmptyIsSeq
<1>2. CASE status # "capturing"
  <2>1. CollectAggregates(q, w, status) = s
    BY <1>2 DEF CollectAggregates
  <2>2. T \in SUBSET Nat /\ IsFiniteSet(T)
    <3>1. T \subseteq {r \in Reasons : <<w, r>> \in drops}
      BY DEF FilesTyped
    <3>2. IsFiniteSet({r \in Reasons : <<w, r>> \in drops})
      BY DEF FilesTyped
    <3> QED BY <3>1, <3>2, FS_Subset, NumbersAssumption
  <2> HIDE DEF T
  <2>3. /\ IsSeq(s) /\ ToSet(s) \subseteq Rows /\ Ordered(s, RowOrder)
        /\ \A x : x \in ToSet(s) <=> \E t \in T : x = <<"aggregate", w, t, 0>>
    <3> HIDE DEF s
    <3>1. s = [i \in DOMAIN Sorted(T) |-> <<"aggregate", w, Sorted(T)[i], 0>>]
      BY DEF s
    <3> QED BY <2>2, <3>1, NumberedRows, SMTT(20)
  <2> HIDE DEF s
  <2>4. ASSUME NEW x PROVE x \in ToSet(s) <=> x \in AggregateRows(q, w, status)
    <3>1. ASSUME NEW t \in T, x = <<"aggregate", w, t, 0>> PROVE x \in AggregateRows(q, w, status)
      <4>1. x \in ToSet(s)
        BY <2>3, <3>1
      <4>2. x \in Rows /\ x[1] = "aggregate" /\ x[2] = w /\ x[3] = t /\ x[4] = 0
        BY <2>3, <3>1, <4>1
      <4> QED BY <1>2, <4>2 DEF AggregateRows, T
    <3>2. ASSUME x \in AggregateRows(q, w, status) PROVE \E t \in T : x = <<"aggregate", w, t, 0>>
      <4>1. x \in Rows /\ x[1] = "aggregate" /\ x[2] = w /\ x[4] = 0 /\ x[3] \in T
        BY <3>2 DEF AggregateRows, T
      <4>2. x = <<"aggregate", w, x[3], 0>>
        BY <4>1 DEF Rows
      <4> QED BY <4>1, <4>2
    <3> QED BY <2>3, <3>1, <3>2
  <2> QED BY <2>1, <2>3, <2>4
<1> QED BY <1>1, <1>2

\* buildCombinedItems: a workload's samples come before its aggregates.
LEMMA GroupRows ==
    ASSUME FilesTyped, NEW q, NEW w \in Workloads, NEW status,
           NEW s, s = CollectSamples(q, w) \o CollectAggregates(q, w, status)
    PROVE  /\ IsSeq(s) /\ Ordered(s, RowOrder) /\ ToSet(s) \subseteq Rows
           /\ ToSet(s) = SampleRows(q, w) \cup AggregateRows(q, w, status)
           /\ \A x \in ToSet(s) : x[2] = w
<1> DEFINE a == CollectSamples(q, w)
           b == CollectAggregates(q, w, status)
<1>1. IsSeq(a) /\ Ordered(a, RowOrder) /\ ToSet(a) = SampleRows(q, w)
  BY SamplesFacts
<1>2. IsSeq(b) /\ Ordered(b, RowOrder) /\ ToSet(b) = AggregateRows(q, w, status)
  BY AggregatesFacts
<1>3. \A x \in SampleRows(q, w) : x \in Rows /\ x[1] = "sample" /\ x[2] = w
  BY DEF SampleRows
<1>4. \A x \in AggregateRows(q, w, status) : x \in Rows /\ x[1] = "aggregate" /\ x[2] = w
  BY DEF AggregateRows
<1>5. \A x \in SampleRows(q, w), y \in AggregateRows(q, w, status) : <<x, y>> \in RowOrder
  <2> SUFFICES ASSUME NEW x \in SampleRows(q, w), NEW y \in AggregateRows(q, w, status)
               PROVE  <<x, y>> \in RowOrder
    OBVIOUS
  <2>1. RowLess(x, y) /\ x[2] = y[2] /\ x \in Rows /\ y \in Rows
    BY <1>3, <1>4 DEF RowLess
  <2> QED BY <2>1 DEF RowOrder
<1> HIDE DEF a, b
<1>6. s = a \o b
  BY DEF a, b
<1>7. IsSeq(a \o b) /\ ToSet(a \o b) = ToSet(a) \cup ToSet(b)
  BY <1>1, <1>2, ConcatIsSeq
<1>8. Ordered(a \o b, RowOrder)
  BY <1>1, <1>2, <1>5, ConcatOrdered
<1> QED BY <1>1, <1>2, <1>3, <1>4, <1>6, <1>7, <1>8

\* The rows of list_dropped_flows are those of the workloads it was asked for.
LEMMA PresentDropped ==
    ASSUME FilesTyped, NEW q \in Requests, q.tool \notin {"list_policies", "get_evidence"}, NEW status
    PROVE  /\ Present(q, status) \subseteq Rows
           /\ \A x : x \in Present(q, status) <=>
                 \E w \in Workloads : /\ MatchesWorkload(q, w)
                                      /\ x \in SampleRows(q, w) \cup AggregateRows(q, w, status)
<1>1. ASSUME NEW w \in Workloads, NEW x
      PROVE  x \in PresentSamples(q, w) <=> x \in SampleRows(q, w)
  <2> DEFINE T(r) == {u \in evidence[w][r] : q.class \in {None, SampleClass(u)}}
             R == {s \in Rules : w \notin Unreadable /\ MatchesDirection(q, s)}
  <2>1. x \in PresentSamples(q, w) <=> \E r \in R : \E t \in T(r) : x = <<"sample", w, r, t>>
    BY DEF PresentSamples
  <2>2. ASSUME NEW r \in R, NEW t \in T(r), x = <<"sample", w, r, t>> PROVE x \in SampleRows(q, w)
    <3>1. r \in Rules /\ t \in Times /\ t \in evidence[w][r] /\ w \notin Unreadable
      BY DEF FilesTyped
    <3>2. x \in Rows
      BY <2>2, <3>1, NumbersAssumption DEF Rows, Kinds
    <3> QED BY <2>2, <3>1, <3>2 DEF SampleRows
  <2>3. ASSUME x \in SampleRows(q, w) PROVE x[3] \in R /\ x[4] \in T(x[3]) /\ x = <<"sample", w, x[3], x[4]>>
    <3>1. /\ x \in Rows /\ x[1] = "sample" /\ x[2] = w /\ w \notin Unreadable /\ x[3] \in Rules
          /\ MatchesDirection(q, x[3]) /\ x[4] \in evidence[w][x[3]]
          /\ q.class \in {None, SampleClass(x[4])}
      BY <2>3 DEF SampleRows
    <3>2. x = <<"sample", w, x[3], x[4]>>
      BY <3>1 DEF Rows
    <3> QED BY <3>1, <3>2
  <2> HIDE DEF T, R
  <2> QED BY <2>1, <2>2, <2>3
<1>2. ASSUME NEW w \in Workloads, NEW x
      PROVE  x \in PresentAggregates(q, w, status) <=> x \in AggregateRows(q, w, status)
  <2> DEFINE R == {s \in Reasons : /\ status # "capturing" /\ <<w, s>> \in report
                                   /\ q.class \in {None, Class[s]}}
  <2>1. x \in PresentAggregates(q, w, status) <=> \E r \in R : x = <<"aggregate", w, r, 0>>
    BY DEF PresentAggregates
  <2>2. ASSUME NEW r \in R, x = <<"aggregate", w, r, 0>> PROVE x \in AggregateRows(q, w, status)
    <3>1. x \in Rows
      BY <2>2, NumbersAssumption DEF Rows, Kinds
    <3> QED BY <2>2, <3>1 DEF AggregateRows
  <2>3. ASSUME x \in AggregateRows(q, w, status) PROVE x[3] \in R /\ x = <<"aggregate", w, x[3], 0>>
    <3>1. /\ x \in Rows /\ x[1] = "aggregate" /\ x[2] = w /\ x[4] = 0 /\ status # "capturing"
          /\ x[3] \in Reasons /\ <<w, x[3]>> \in report /\ q.class \in {None, Class[x[3]]}
      BY <2>3 DEF AggregateRows
    <3>2. x = <<"aggregate", w, x[3], 0>>
      BY <3>1 DEF Rows
    <3> QED BY <3>1, <3>2
  <2> HIDE DEF R
  <2> QED BY <2>1, <2>2, <2>3
<1>3. ASSUME NEW x
      PROVE  x \in Present(q, status) <=>
                 \E w \in Workloads : /\ MatchesWorkload(q, w)
                                      /\ x \in SampleRows(q, w) \cup AggregateRows(q, w, status)
  <2> DEFINE W == {v \in Workloads : MatchesWorkload(q, v)}
  <2>1. Present(q, status) = UNION {PresentSamples(q, w) \cup PresentAggregates(q, w, status) : w \in W}
    BY DEF Present
  <2>2. x \in Present(q, status) <=>
            \E w \in W : x \in PresentSamples(q, w) \cup PresentAggregates(q, w, status)
    BY <2>1
  <2> QED BY <1>1, <1>2, <2>2
<1>4. \A x \in Present(q, status) : x \in Rows
  BY <1>3 DEF SampleRows, AggregateRows
<1> QED BY <1>3, <1>4

\* A workload's rows have the same items among all rows as among its own.
LEMMA ItemLocal ==
    ASSUME NEW U, NEW V, NEW x, \A y : y[2] = x[2] => (y \in U <=> y \in V)
    PROVE  Item(U, x) = Item(V, x)
<1>1. Preceding(U, x) = Preceding(V, x)
  <2>1. \A y : y \in Preceding(U, x) <=> y \in U /\ y[2] = x[2] /\ RowLess(y, x)
    BY DEF Preceding
  <2>2. \A y : y \in Preceding(V, x) <=> y \in V /\ y[2] = x[2] /\ RowLess(y, x)
    BY DEF Preceding
  <2> HIDE DEF Preceding
  <2>3. \A y : y \in Preceding(U, x) <=> y \in Preceding(V, x)
    BY <2>1, <2>2
  <2> QED BY <2>3
<1> QED BY <1>1, Zenon DEF Item, Index

\* Items of two workloads are in the order of the workloads.
LEMMA KeysApart ==
    ASSUME NEW x \in ItemSet, NEW y \in ItemSet, NEW i \in DOMAIN KeyOrder, NEW j \in DOMAIN KeyOrder, i < j,
           x.key[1] \in DOMAIN KeyOrder, KeyOrder[x.key[1]] = KeyOrder[i],
           y.key[1] \in DOMAIN KeyOrder, KeyOrder[y.key[1]] = KeyOrder[j]
    PROVE  <<x, y>> \in ItemOrder
<1>1. \A a, b \in DOMAIN KeyOrder : KeyOrder[a] = KeyOrder[b] => a = b
  BY OrdersAssumption DEF IsInjective
<1>2. x.key[1] = i /\ y.key[1] = j
  BY <1>1
<1>3. KeyLess(x.key, y.key)
  BY <1>2 DEF KeyLess
<1> QED BY <1>3 DEF ItemOrder

\* buildCombinedItems: the items of the present rows, in the order of their keys.
LEMMA CombinedFacts ==
    ASSUME FilesTyped, NEW q \in Requests, q.tool \notin {"list_policies", "get_evidence"}, NEW status,
           NEW g, g = BuildCombinedItems(q, status)
    PROVE  /\ IsSeq(g) /\ Ordered(g, ItemOrder) /\ ToSet(g) \subseteq ItemSet
           /\ \A x : x \in ToSet(g) <=> \E y \in Present(q, status) : x = Item(Present(q, status), y)
<1> DEFINE n == Len(KeyOrder)
           P == Present(q, status)
           rows(w) == CollectSamples(q, w) \o CollectAggregates(q, w, status)
           group(w) == [i \in DOMAIN rows(w) |-> [key |-> Key(w, i - 1), row |-> rows(w)[i]]]
           own(w) == SampleRows(q, w) \cup AggregateRows(q, w, status)
           s == [i \in DOMAIN KeyOrder |->
                    IF MatchesWorkload(q, KeyOrder[i]) THEN group(KeyOrder[i]) ELSE <<>>]
<1>1. g = FlattenSeq(s)
  BY DEF BuildCombinedItems
<1>2. /\ P \subseteq Rows
      /\ \A x : x \in P <=> \E w \in Workloads : MatchesWorkload(q, w) /\ x \in own(w)
  BY PresentDropped
<1>3. \A w, x : x \in own(w) => x[2] = w
  BY DEF SampleRows, AggregateRows
<1>4. ASSUME NEW w \in Workloads, MatchesWorkload(q, w)
      PROVE  /\ IsSeq(group(w)) /\ ToSet(group(w)) \subseteq ItemSet /\ Ordered(group(w), ItemOrder)
             /\ \A x : x \in ToSet(group(w)) <=> \E y \in own(w) : x = Item(P, y)
             /\ \A x \in ToSet(group(w)) : x.key[1] \in DOMAIN KeyOrder /\ KeyOrder[x.key[1]] = w
  <2> DEFINE r == rows(w)
             h == group(w)
  <2>1. r = CollectSamples(q, w) \o CollectAggregates(q, w, status)
    OBVIOUS
  <2>2. h = [i \in DOMAIN r |-> [key |-> Key(w, i - 1), row |-> r[i]]]
    OBVIOUS
  <2> HIDE DEF r, h
  <2>3. /\ IsSeq(r) /\ Ordered(r, RowOrder) /\ ToSet(r) \subseteq Rows
        /\ ToSet(r) = own(w) /\ \A x \in ToSet(r) : x[2] = w
    BY <2>1, GroupRows
  <2> HIDE DEF own, P, rows, group
  <2>4. /\ IsSeq(h) /\ ToSet(h) \subseteq ItemSet /\ Ordered(h, ItemOrder)
        /\ \A x : x \in ToSet(h) <=> \E y \in ToSet(r) : x = Item(ToSet(r), y)
        /\ \A x \in ToSet(h) : x.key[1] \in DOMAIN KeyOrder /\ KeyOrder[x.key[1]] = w
    <3>1. IsSeq(r) /\ ToSet(r) \subseteq Rows /\ Ordered(r, RowOrder) /\ \A x \in ToSet(r) : x[2] = w
      BY <2>3
    <3> QED BY <2>2, <3>1, GroupItems
  <2>5. ASSUME NEW y \in own(w) PROVE Item(own(w), y) = Item(P, y)
    <3>1. y[2] = w
      BY <1>3
    <3>2. ASSUME NEW z, z[2] = y[2] PROVE z \in own(w) <=> z \in P
      BY <1>2, <1>3, <1>4, <3>1, <3>2
    <3> QED BY <3>2, ItemLocal
  <2>6. \A x : x \in ToSet(h) <=> \E y \in own(w) : x = Item(P, y)
    BY <2>3, <2>4, <2>5
  <2> QED BY <2>4, <2>6 DEF h
<1>5. n \in Nat /\ DOMAIN KeyOrder = 1..n /\ \A i \in 1..n : KeyOrder[i] \in Workloads
  BY KeyFacts
<1>6. \A w \in Workloads : \E i \in 1..n : w = KeyOrder[i]
  BY KeyFacts
<1>7. IsSeq(s) /\ Len(s) = n
      /\ \A i \in 1..n : s[i] = IF MatchesWorkload(q, KeyOrder[i]) THEN group(KeyOrder[i]) ELSE <<>>
  <2> HIDE DEF n, group
  <2>1. s = [i \in 1..n |-> s[i]]
    BY <1>5
  <2> QED BY <1>5, <2>1, FunctionIsSeq
<1> HIDE DEF n, P, own, group, s
<1>8. ASSUME NEW i \in 1..n
      PROVE  /\ IsSeq(s[i]) /\ Ordered(s[i], ItemOrder)
             /\ \A x : x \in ToSet(s[i]) <=>
                    MatchesWorkload(q, KeyOrder[i]) /\ \E y \in own(KeyOrder[i]) : x = Item(P, y)
             /\ \A x \in ToSet(s[i]) : x \in ItemSet /\ x.key[1] \in DOMAIN KeyOrder
                                       /\ KeyOrder[x.key[1]] = KeyOrder[i]
  <2>1. CASE MatchesWorkload(q, KeyOrder[i])
    <3>1. s[i] = group(KeyOrder[i]) /\ KeyOrder[i] \in Workloads
      BY <1>5, <1>7, <2>1
    <3> QED BY <1>4, <2>1, <3>1
  <2>2. CASE ~MatchesWorkload(q, KeyOrder[i])
    <3>1. s[i] = <<>>
      BY <1>7, <2>2
    <3>2. Ordered(<<>>, ItemOrder)
      BY DEF Ordered
    <3> QED BY <2>2, <3>1, <3>2, EmptyIsSeq
  <2> QED BY <2>1, <2>2
<1>9. ASSUME NEW i \in 1..n, NEW j \in 1..n, i < j, NEW x \in ToSet(s[i]), NEW y \in ToSet(s[j])
      PROVE  <<x, y>> \in ItemOrder
  BY <1>5, <1>8, <1>9, KeysApart
<1>10. Ordered(FlattenSeq(s), ItemOrder)
  BY <1>7, <1>8, <1>9, FlattenOrdered
<1>11. /\ IsSeq(FlattenSeq(s))
       /\ \A x : x \in ToSet(FlattenSeq(s)) <=> \E i \in 1..n : x \in ToSet(s[i])
  BY <1>7, <1>8, FlattenIsSeq
<1>12. ToSet(FlattenSeq(s)) \subseteq ItemSet
  BY <1>8, <1>11
<1>13. ASSUME NEW x PROVE x \in ToSet(FlattenSeq(s)) <=> \E y \in P : x = Item(P, y)
  <2>1. ASSUME x \in ToSet(FlattenSeq(s)) PROVE \E y \in P : x = Item(P, y)
    <3>1. PICK i \in 1..n : x \in ToSet(s[i])
      BY <1>11, <2>1
    <3>2. PICK y \in own(KeyOrder[i]) : x = Item(P, y) /\ MatchesWorkload(q, KeyOrder[i])
      BY <1>8, <3>1
    <3>3. y \in P
      BY <1>2, <1>5, <3>2
    <3> QED BY <3>2, <3>3
  <2>2. ASSUME NEW y \in P, x = Item(P, y) PROVE x \in ToSet(FlattenSeq(s))
    <3>1. PICK w \in Workloads : MatchesWorkload(q, w) /\ y \in own(w)
      BY <1>2
    <3>2. PICK i \in 1..n : w = KeyOrder[i]
      BY <1>6
    <3>3. x \in ToSet(s[i])
      BY <1>8, <2>2, <3>1, <3>2
    <3> QED BY <1>11, <3>3
  <2> QED BY <2>1, <2>2
<1> QED BY <1>1, <1>10, <1>11, <1>12, <1>13 DEF P

\* The rows that a listing numbers: get_evidence numbers the rules it leaves out too.
Numbered(q, status) ==
    IF q.tool = "get_evidence"
    THEN {<<"rule", q.target, r, 0>> : r \in {s \in Rules : evidence[q.target][s] # {}}}
    ELSE Present(q, status)

\* get_evidence: the items of the selected rules, numbered among all rules of the file.
LEMMA EvidenceFacts ==
    ASSUME FilesTyped, NEW q \in Requests, q.tool = "get_evidence", NEW status,
           NEW e, e = GetEvidence(q)
    PROVE  /\ IsSeq(e) /\ Ordered(e, ItemOrder) /\ ToSet(e) \subseteq ItemSet
           /\ Present(q, status) \subseteq Numbered(q, status) /\ Numbered(q, status) \subseteq Rows
           /\ \A x : x \in ToSet(e) <=>
                  \E y \in Present(q, status) : x = Item(Numbered(q, status), y)
<1> DEFINE w == q.target
           T == {r \in Rules : evidence[w][r] # {}}
           rs == Sorted(T)
           n == Len(rs)
           s == [i \in DOMAIN Sorted(T) |-> <<"rule", w, Sorted(T)[i], 0>>]
           g == [i \in DOMAIN s |-> [key |-> Key(w, i - 1), row |-> s[i]]]
           A == {i \in 1..n : rs[i] \in q.rules}
           c == [i \in DOMAIN rs |-> IF rs[i] \in q.rules
                    THEN <<[key |-> Key(w, i - 1), row |-> <<"rule", w, rs[i], 0>>]>> ELSE <<>>]
           U == Numbered(q, status)
           P == Present(q, status)
<1>1. w \in Workloads /\ q.rules \subseteq Rules
  BY RequestsAssumption
<1>2. T \in SUBSET Nat /\ IsFiniteSet(T)
  BY <1>1, NumbersAssumption DEF FilesTyped
<1>3. e = FlattenSeq(c)
  BY DEF GetEvidence, RulesOf, FilterMatch
<1>4. /\ \A x : x \in U <=> \E t \in T : x = <<"rule", w, t, 0>>
      /\ \A x : x \in P <=> \E t \in T : t \in q.rules /\ x = <<"rule", w, t, 0>>
  <2>1. U = {<<"rule", w, r, 0>> : r \in T}
    BY DEF Numbered
  <2>2. P = {<<"rule", w, r, 0>> : r \in {t \in q.rules : evidence[w][t] # {}}}
    BY DEF Present
  <2>3. {t \in q.rules : evidence[w][t] # {}} = {t \in T : t \in q.rules}
    BY <1>1
  <2> QED BY <2>1, <2>2, <2>3
<1>5. IsSeq(rs) /\ DOMAIN rs = 1..n /\ n \in Nat /\ \A i \in 1..n : rs[i] \in T
  <2>1. IsSeq(rs) /\ DOMAIN rs = 1..n /\ \A i \in 1..n : rs[i] \in T
    BY <1>2, SortedFacts
  <2> QED BY <2>1, SeqFacts
<1>6. \A t \in T : \E i \in 1..n : rs[i] = t
  <2>1. ToSet(rs) = T
    BY <1>2, SortedFacts
  <2> QED BY <1>5, <2>1, SeqFacts
<1> HIDE DEF U, P, w
<1>7. /\ IsSeq(s) /\ Len(s) = n /\ ToSet(s) \subseteq Rows /\ Ordered(s, RowOrder)
      /\ \A x : x \in ToSet(s) <=> \E t \in T : x = <<"rule", w, t, 0>>
  <2> DEFINE z == s
  <2>1. z = [i \in DOMAIN Sorted(T) |-> <<"rule", w, Sorted(T)[i], 0>>]
    OBVIOUS
  <2> HIDE DEF T, z
  <2>2. /\ IsSeq(z) /\ Len(z) = Len(Sorted(T)) /\ ToSet(z) \subseteq Rows /\ Ordered(z, RowOrder)
        /\ \A x : x \in ToSet(z) <=> \E t \in T : x = <<"rule", w, t, 0>>
    <3>1. w \in Workloads /\ "rule" \in {"rule", "aggregate"}
      BY <1>1
    <3> HIDE DEF s
    <3> QED BY <1>2, <2>1, <3>1, NumberedRows
  <2> QED BY <2>2 DEF z
<1>8. \A i \in 1..n : s[i] = <<"rule", w, rs[i], 0>>
  BY <1>5
<1> HIDE DEF T, rs, n, s
<1>9. ToSet(s) = U /\ \A x \in U : x[2] = w
  <2>1. \A x : x \in ToSet(s) <=> x \in U
    BY <1>4, <1>7
  <2>2. \A x \in U : x[2] = w
    BY <1>4
  <2> QED BY <2>1, <2>2
<1>10. /\ IsSeq(g) /\ Len(g) = n /\ ToSet(g) \subseteq ItemSet /\ Ordered(g, ItemOrder)
       /\ \A x : x \in ToSet(g) <=> \E y \in U : x = Item(U, y)
  <2> DEFINE z == g
  <2>1. z = [i \in DOMAIN s |-> [key |-> Key(w, i - 1), row |-> s[i]]]
    OBVIOUS
  <2> HIDE DEF z
  <2>2. /\ IsSeq(z) /\ Len(z) = Len(s) /\ ToSet(z) \subseteq ItemSet /\ Ordered(z, ItemOrder)
        /\ \A x : x \in ToSet(z) <=> \E y \in ToSet(s) : x = Item(ToSet(s), y)
    <3>1. /\ w \in Workloads /\ IsSeq(s) /\ ToSet(s) \subseteq Rows /\ Ordered(s, RowOrder)
          /\ \A x \in ToSet(s) : x[2] = w
      BY <1>1, <1>7, <1>9
    <3> QED BY <2>1, <3>1, GroupItems
  <2> QED BY <1>7, <1>9, <2>2 DEF z
<1>11. \A i \in 1..n : g[i] = [key |-> Key(w, i - 1), row |-> <<"rule", w, rs[i], 0>>]
  <2>1. DOMAIN s = 1..n
    BY <1>7, SeqFacts
  <2> QED BY <1>8, <2>1
<1>12. \A i \in 1..n : g[i] = Item(U, <<"rule", w, rs[i], 0>>)
  <2> SUFFICES ASSUME NEW i \in 1..n PROVE g[i] = Item(U, <<"rule", w, rs[i], 0>>)
    OBVIOUS
  <2>1. g[i] \in ToSet(g)
    BY <1>10, SeqFacts
  <2>2. PICK y \in U : g[i] = Item(U, y)
    BY <1>10, <2>1
  <2>3. y = <<"rule", w, rs[i], 0>>
    <3>1. Item(U, y) = [key |-> Key(y[2], Index(U, y)), row |-> y]
      BY DEF Item
    <3>2. g[i] = [key |-> Key(w, i - 1), row |-> <<"rule", w, rs[i], 0>>]
      BY <1>11
    <3> DEFINE a == Key(y[2], Index(U, y))
               b == Key(w, i - 1)
               d == <<"rule", w, rs[i], 0>>
    <3> HIDE DEF a, b, d
    <3>3. [key |-> a, row |-> y] = [key |-> b, row |-> d]
      BY <2>2, <3>1, <3>2 DEF a, b, d
    <3>4. y = d
      BY ONLY <3>3
    <3> QED BY <3>4 DEF d
  <2> QED BY <2>2, <2>3
<1>13. /\ IsSeq(c) /\ Len(c) = Len(g)
       /\ \A i \in 1..Len(g) : c[i] = IF i \in A THEN <<g[i]>> ELSE <<>>
  <2>1. \A i \in 1..n : c[i] = IF i \in A THEN <<g[i]>> ELSE <<>>
    BY <1>5, <1>11
  <2>2. c = [i \in 1..n |-> c[i]]
    BY <1>5
  <2> QED BY <1>5, <1>10, <2>1, <2>2, FunctionIsSeq
<1>13a. A \in SUBSET (1..Len(g))
  BY <1>10
<1> HIDE DEF g, c, A
<1>14. /\ IsSeq(FlattenSeq(c)) /\ Ordered(FlattenSeq(c), ItemOrder)
       /\ \A x : x \in ToSet(FlattenSeq(c)) <=> \E i \in 1..Len(g) : i \in A /\ x = g[i]
  <2>1. IsSeq(g) /\ Ordered(g, ItemOrder)
    BY <1>10
  <2> QED BY <1>13, <1>13a, <2>1, FlattenChosen
<1>15. ASSUME NEW x PROVE x \in ToSet(e) <=> \E y \in P : x = Item(U, y)
  <2>1. ASSUME x \in ToSet(e) PROVE \E y \in P : x = Item(U, y)
    <3>1. PICK i \in 1..n : rs[i] \in q.rules /\ x = g[i]
      BY <1>3, <1>10, <1>14, <2>1 DEF A
    <3>2. <<"rule", w, rs[i], 0>> \in P
      BY <1>4, <1>5, <3>1
    <3> QED BY <1>12, <3>1, <3>2
  <2>2. ASSUME NEW y \in P, x = Item(U, y) PROVE x \in ToSet(e)
    <3>1. PICK t \in T : t \in q.rules /\ y = <<"rule", w, t, 0>>
      BY <1>4
    <3>2. PICK i \in 1..n : rs[i] = t
      BY <1>6
    <3>3. i \in A /\ x = g[i]
      BY <1>12, <2>2, <3>1, <3>2 DEF A
    <3> QED BY <1>3, <1>10, <1>14, <3>3
  <2> QED BY <2>1, <2>2
<1>16. P \subseteq U /\ U \subseteq Rows
  BY <1>4, <1>7, <1>9
<1>17. ToSet(e) \subseteq ItemSet
  BY <1>10, <1>15, <1>16
<1> QED BY <1>3, <1>14, <1>15, <1>16, <1>17 DEF U, P

\* ReadDir lists the files in the order of the keys: it need not, "a-b" comes before "a".
FilesInKeyOrder == ReadDirOrder = KeyOrder

\* list_policies: one item per readable file, every one with index 0.
LEMMA PoliciesFacts ==
    ASSUME FilesTyped, NEW q \in Requests, q.tool = "list_policies", NEW status,
           NEW e, e = ListPolicies
    PROVE  /\ IsSeq(e) /\ (FilesInKeyOrder => Ordered(e, ItemOrder)) /\ ToSet(e) \subseteq ItemSet
           /\ Present(q, status) \subseteq Rows
           /\ \A x : x \in ToSet(e) <=> \E y \in Present(q, status) : x = Item(Present(q, status), y)
<1> DEFINE n == Len(ReadDirOrder)
           P == Present(q, status)
           row(w) == <<"policy", w, 0, 0>>
           item(w) == [key |-> Key(w, 0), row |-> row(w)]
           s == [i \in 1..n |-> item(ReadDirOrder[i])]
           A == {i \in 1..n : ReadDirOrder[i] \in policies \ Unreadable}
           c == [i \in DOMAIN ReadDirOrder |->
                    IF ReadDirOrder[i] \in policies \ Unreadable THEN <<item(ReadDirOrder[i])>> ELSE <<>>]
<1>1. /\ n \in Nat /\ DOMAIN ReadDirOrder = 1..n
      /\ \A i \in 1..n : ReadDirOrder[i] \in Workloads
      /\ \A w \in Workloads : \E i \in 1..n : ReadDirOrder[i] = w
  <2>1. IsSeq(ReadDirOrder) /\ ToSet(ReadDirOrder) = Workloads
    BY OrdersAssumption, SeqIsSeq
  <2> QED BY <2>1, SeqFacts
<1>2. e = FlattenSeq(c)
  BY DEF ListPolicies
<1>3. \A x : x \in P <=> \E w \in policies \ Unreadable : x = row(w)
  <2>1. P = {row(w) : w \in policies \ Unreadable}
    BY DEF Present
  <2> HIDE DEF P
  <2> QED BY <2>1
<1>4. policies \subseteq Workloads
  BY DEF FilesTyped
<1>5. ASSUME NEW w \in Workloads
      PROVE  item(w) \in ItemSet /\ row(w) \in Rows /\ item(w).key = Key(w, 0)
  <2>1. Key(w, 0) \in Nat \X Nat
    BY KeyTyped
  <2>2. row(w) \in Rows
    BY DEF Rows, Kinds
  <2> HIDE DEF row
  <2> QED BY <2>1, <2>2 DEF ItemSet
<1>6. ASSUME NEW w \in policies \ Unreadable PROVE Item(P, row(w)) = item(w)
  <2>1. ASSUME NEW y \in P, y[2] = row(w)[2] PROVE ~RowLess(y, row(w))
    <3>1. PICK v \in policies \ Unreadable : y = <<"policy", v, 0, 0>>
      BY <1>3
    <3>2. y = <<"policy", w, 0, 0>>
      BY <2>1, <3>1
    <3> QED BY <3>2 DEF RowLess
  <2>2. Preceding(P, row(w)) = {}
    BY <2>1 DEF Preceding
  <2>3. Index(P, row(w)) = 0
    BY <2>2, FS_EmptySet DEF Index
  <2>4. row(w)[2] = w
    OBVIOUS
  <2> HIDE DEF P, row
  <2> QED BY <2>3, <2>4 DEF Item
<1> HIDE DEF n, P, row, item
<1>7. IsSeq(s) /\ Len(s) = n /\ \A i \in 1..n : s[i] = item(ReadDirOrder[i]) /\ s[i] \in ItemSet
  <2>1. s = [i \in 1..n |-> s[i]] /\ \A i \in 1..n : s[i] = item(ReadDirOrder[i])
    OBVIOUS
  <2> QED BY <1>1, <1>5, <2>1, FunctionIsSeq
<1>8. /\ IsSeq(c) /\ Len(c) = Len(s)
      /\ \A i \in 1..Len(s) : c[i] = IF i \in A THEN <<s[i]>> ELSE <<>>
  <2>1. \A i \in 1..n : c[i] = IF i \in A THEN <<s[i]>> ELSE <<>>
    BY <1>1, <1>7
  <2>2. c = [i \in 1..n |-> c[i]]
    BY <1>1
  <2> QED BY <1>1, <1>7, <2>1, <2>2, FunctionIsSeq
<1>9. A \in SUBSET (1..Len(s))
  BY <1>7
<1>10. \A i \in 1..n : i \in A <=> ReadDirOrder[i] \in policies \ Unreadable
  OBVIOUS
<1> HIDE DEF s, c, A
<1>11. /\ IsSeq(FlattenSeq(c))
       /\ \A x : x \in ToSet(FlattenSeq(c)) <=> \E i \in 1..n : i \in A /\ x = s[i]
  <2> DEFINE R == ItemSet \X ItemSet
  <2>1. Ordered(s, R)
    BY <1>7 DEF Ordered
  <2> HIDE DEF R
  <2>2. /\ IsSeq(FlattenSeq(c)) /\ Ordered(FlattenSeq(c), R)
        /\ \A x : x \in ToSet(FlattenSeq(c)) <=> \E i \in 1..Len(s) : i \in A /\ x = s[i]
    BY <1>7, <1>8, <1>9, <2>1, FlattenChosen
  <2> QED BY <1>7, <2>2
<1>12. ASSUME FilesInKeyOrder PROVE Ordered(FlattenSeq(c), ItemOrder)
  <2>1. ASSUME NEW i \in 1..n, NEW j \in 1..n, i < j PROVE <<s[i], s[j]>> \in ItemOrder
    <3>1. Key(ReadDirOrder[i], 0) = <<i, 0>> /\ Key(ReadDirOrder[j], 0) = <<j, 0>>
      BY <1>12, KeyFacts DEF FilesInKeyOrder, n
    <3>2. KeyLess(<<i, 0>>, <<j, 0>>)
      BY <2>1 DEF KeyLess
    <3>3. KeyLess(s[i].key, s[j].key)
      BY <1>1, <1>5, <1>7, <3>1, <3>2
    <3>4. s[i] \in ItemSet /\ s[j] \in ItemSet
      BY <1>7
    <3> QED BY <3>3, <3>4 DEF ItemOrder
  <2>2. Ordered(s, ItemOrder)
    BY <1>7, <2>1 DEF Ordered
  <2> QED BY <1>7, <1>8, <1>9, <2>2, FlattenChosen
<1>13. ASSUME NEW x PROVE x \in ToSet(FlattenSeq(c)) <=> \E y \in P : x = Item(P, y)
  <2>1. ASSUME NEW i \in 1..n, i \in A, x = s[i] PROVE \E y \in P : x = Item(P, y)
    <3>1. ReadDirOrder[i] \in policies \ Unreadable
      BY <1>10, <2>1
    <3> QED BY <1>3, <1>6, <1>7, <2>1, <3>1
  <2>2. ASSUME NEW y \in P, x = Item(P, y) PROVE \E i \in 1..n : i \in A /\ x = s[i]
    <3>1. PICK w \in policies \ Unreadable : y = row(w)
      BY <1>3
    <3>2. PICK i \in 1..n : ReadDirOrder[i] = w
      BY <1>1, <1>4, <3>1
    <3> QED BY <1>6, <1>7, <1>10, <2>2, <3>1, <3>2
  <2> QED BY <1>11, <2>1, <2>2
<1>14. P \subseteq Rows
  BY <1>3, <1>4, <1>5
<1>15. ToSet(FlattenSeq(c)) \subseteq ItemSet
  BY <1>7, <1>11
<1> QED BY <1>2, <1>11, <1>12, <1>13, <1>14, <1>15 DEF P

\* Each tool scans its rows in the order of their keys; list_policies when ReadDir does.
LEMMA ItemsFacts ==
    ASSUME FilesTyped, NEW q \in Requests, NEW status, NEW e, e = Items(q, status)
    PROVE  /\ IsSeq(e) /\ (FilesInKeyOrder => Ordered(e, ItemOrder)) /\ ToSet(e) \subseteq ItemSet
           /\ Present(q, status) \subseteq Numbered(q, status) /\ Numbered(q, status) \subseteq Rows
           /\ \A x : x \in ToSet(e) <=>
                  \E y \in Present(q, status) : x = Item(Numbered(q, status), y)
<1>1. CASE q.tool = "list_policies"
  <2>1. e = ListPolicies /\ Numbered(q, status) = Present(q, status)
    BY <1>1 DEF Items, Numbered
  <2> QED BY <1>1, <2>1, PoliciesFacts
<1>2. CASE q.tool = "get_evidence"
  <2>1. e = GetEvidence(q)
    BY <1>2 DEF Items
  <2> QED BY <1>2, <2>1, EvidenceFacts
<1>3. CASE q.tool \notin {"list_policies", "get_evidence"}
  <2>1. e = BuildCombinedItems(q, status) /\ Numbered(q, status) = Present(q, status)
    BY <1>3 DEF Items, Numbered
  <2>2. Present(q, status) \subseteq Rows
    BY <1>3, PresentDropped
  <2> QED BY <1>3, <2>1, <2>2, CombinedFacts
<1> QED BY <1>1, <1>2, <1>3

-----------------------------------------------------------------------------
(* Pages.                                                                  *)

Later(e, after) == {i \in 1..Len(e) : after = None \/ KeyLess(after, e[i].key)}

\* The scan resumes at the first item whose key is after the cursor.
LEMMA FirstAfterFacts ==
    ASSUME NEW e, IsSeq(e), NEW after, NEW f, f = FirstAfter(e, after)
    PROVE  /\ f \in 1..(Len(e) + 1) /\ (f <= Len(e) => f \in Later(e, after))
           /\ \A i \in Later(e, after) : f <= i
<1> DEFINE L == Later(e, after)
<1>1. Len(e) \in Nat /\ DOMAIN e = 1..Len(e)
  BY SeqFacts
<1>2. f = IF L = {} THEN Len(e) + 1 ELSE CHOOSE i \in L : \A j \in L : i <= j
  BY <1>1 DEF FirstAfter, Later
<1>3. L \in SUBSET (1..Len(e)) /\ L \in SUBSET Nat
  BY <1>1 DEF Later
<1> HIDE DEF L
<1>4. CASE L = {}
  BY <1>1, <1>2, <1>4 DEF L
<1>5. CASE L # {}
  <2>1. \E i \in L : \A j \in L : i <= j
    BY <1>3, <1>5, LeastElement
  <2>2. f \in L /\ \A j \in L : f <= j
    BY <1>2, <1>5, <2>1
  <2> QED BY <1>1, <1>3, <2>2 DEF L
<1> QED BY <1>4, <1>5

\* clampLimit: a page has room for an item.
LEMMA ClampFacts == ASSUME NEW limit \in Int PROVE ClampLimit(limit) \in Nat /\ ClampLimit(limit) >= 1
BY NumbersAssumption DEF ClampLimit

Run(e, after, p, a, b) ==
    /\ a <= b + 1 /\ a = FirstAfter(e, after)
    /\ IsSeq(p.page) /\ Len(p.page) = b - a + 1
    /\ \A i \in 1..(b - a + 1) : p.page[i] = e[a + i - 1]
    /\ p.more \in BOOLEAN /\ (p.more <=> b < Len(e))
    /\ b < Len(e) => a <= b /\ p.next = e[b].key
    /\ ~(b < Len(e)) => p.next = None

\* paginate: the page is the run of items from the first after the cursor to the
\* one the next cursor names, or to the last.
LEMMA PageBounds ==
    ASSUME NEW e, IsSeq(e), NEW after, NEW limit \in Int, NEW p, p = Paginate(e, after, limit)
    PROVE  \E a \in 1..(Len(e) + 1), b \in 0..Len(e) : Run(e, after, p, a, b)
<1> DEFINE n == Len(e)
           a == FirstAfter(e, after)
           L == ClampLimit(limit)
           b == Smaller(a + L - 1, n)
<1>1. n \in Nat /\ L \in Nat /\ L >= 1
  BY ClampFacts, SeqFacts
<1>2. a \in 1..(n + 1)
  BY FirstAfterFacts
<1>3. p = [page |-> SubSeq(e, a, b), more |-> b < n, next |-> IF b < n THEN e[b].key ELSE None]
  BY DEF Paginate
<1> HIDE DEF n, a, L
<1>4. b \in 0..n /\ a <= b + 1 /\ (b < n => a <= b)
  BY <1>1, <1>2 DEF Smaller
<1> HIDE DEF b
<1>5. p.page = SubSeq(e, a, b) /\ p.more = (b < n) /\ p.next = IF b < n THEN e[b].key ELSE None
  <2> DEFINE x == SubSeq(e, a, b)
             y == b < n
             z == IF b < n THEN e[b].key ELSE None
  <2>1. p = [page |-> x, more |-> y, next |-> z]
    BY <1>3
  <2> HIDE DEF x, y, z
  <2>2. p.page = x /\ p.more = y /\ p.next = z
    BY ONLY <2>1, SMT
  <2> QED BY <2>2 DEF x, y, z
<1>7. /\ SubSeq(e, a, b) \in Seq(ToSet(e)) /\ Len(SubSeq(e, a, b)) = b - a + 1
      /\ \A i \in 1..(b - a + 1) : SubSeq(e, a, b)[i] = e[a + i - 1]
  <2>1. a \in 1..(n + 1) /\ b \in (a - 1)..n
    BY <1>1, <1>2, <1>4
  <2>3. a \in Int /\ b \in Int /\ \A i \in a..b : e[i] \in ToSet(e)
    BY <1>1, <2>1, SeqFacts DEF n
  <2>2. /\ SubSeq(e, a, b) \in Seq(ToSet(e))
        /\ Len(SubSeq(e, a, b)) = IF a <= b THEN b - a + 1 ELSE 0
        /\ \A i \in 1..(b - a + 1) : SubSeq(e, a, b)[i] = e[a + i - 1]
    BY <2>3, SubSeqProperties
  <2> QED BY <1>1, <2>1, <2>2
<1>8. IsSeq(p.page)
  BY <1>5, <1>7, SeqIsSeq
<1>9. p.more \in BOOLEAN /\ (p.more <=> b < n)
  <2> DEFINE y == b < n
  <2>1. p.more = y /\ y \in BOOLEAN
    BY <1>5
  <2> HIDE DEF y
  <2>2. p.more \in BOOLEAN /\ (p.more <=> y)
    BY <2>1, Zenon
  <2> QED BY <2>2 DEF y
<1>10. Run(e, after, p, a, b)
  BY <1>2, <1>4, <1>5, <1>7, <1>8, <1>9 DEF n, a, Run
<1> QED BY <1>2, <1>4, <1>10 DEF n

Cursors == {None} \cup (Nat \X Nat)

\* A page holds items of the scan, and a next cursor, the key of one of them, when there are more.
LEMMA PageTyped ==
    ASSUME NEW e, IsSeq(e), ToSet(e) \subseteq ItemSet, NEW after, NEW limit \in Int,
           NEW p, p = Paginate(e, after, limit)
    PROVE  /\ IsSeq(p.page) /\ ToSet(p.page) \subseteq ToSet(e) /\ p.more \in BOOLEAN
           /\ p.next \in Cursors /\ (p.more <=> p.next # None) /\ (p.more => ToSet(p.page) # {})
<1>0. PICK a \in 1..(Len(e) + 1), b \in 0..Len(e) : Run(e, after, p, a, b)
  BY PageBounds
<1>1. /\ a <= b + 1 /\ a = FirstAfter(e, after)
      /\ IsSeq(p.page) /\ Len(p.page) = b - a + 1
      /\ \A i \in 1..(b - a + 1) : p.page[i] = e[a + i - 1]
      /\ p.more \in BOOLEAN /\ (p.more <=> b < Len(e))
      /\ b < Len(e) => a <= b /\ p.next = e[b].key
      /\ ~(b < Len(e)) => p.next = None
  BY <1>0 DEF Run
<1>2. /\ Len(e) \in Nat /\ \A i \in 1..Len(e) : e[i] \in ToSet(e)
  BY SeqFacts
<1>3. ASSUME NEW x \in ToSet(p.page) PROVE x \in ToSet(e)
  <2>1. PICK i \in 1..Len(p.page) : p.page[i] = x
    BY <1>1, SeqFacts
  <2>2. i \in 1..(b - a + 1) /\ x = e[a + i - 1]
    BY <1>1, <2>1
  <2>3. a + i - 1 \in 1..Len(e)
    BY <1>2, <2>2
  <2> QED BY <1>2, <2>2, <2>3
<1>4. CASE b < Len(e)
  <2>1. b \in 1..Len(e) /\ p.next = e[b].key
    BY <1>1, <1>2, <1>4
  <2>2. e[b] \in ItemSet
    BY <1>2, <2>1
  <2>3. p.next \in Nat \X Nat
    BY <2>1, <2>2 DEF ItemSet
  <2>4. p.next # None
    BY <2>3, RequestsAssumption
  <2>5. ToSet(p.page) # {}
    <3>1. 1 \in 1..Len(p.page)
      BY <1>1, <1>4
    <3>2. p.page[1] \in ToSet(p.page)
      BY <1>1, <3>1, SeqFacts
    <3> QED BY <3>2
  <2> QED BY <1>1, <1>3, <1>4, <2>3, <2>4, <2>5 DEF Cursors
<1>5. CASE ~(b < Len(e))
  BY <1>1, <1>3, <1>5 DEF Cursors
<1> QED BY <1>4, <1>5

Inside(x, after, next) ==
    /\ after = None \/ KeyLess(after, x.key)
    /\ next = None \/ ~KeyLess(next, x.key)

\* In a scan ordered by key, the next cursor is after the one sent, and the page is
\* exactly the items between the two.
LEMMA PageExact ==
    ASSUME NEW e, IsSeq(e), ToSet(e) \subseteq ItemSet, Ordered(e, ItemOrder),
           NEW after \in Cursors, NEW limit \in Int, NEW p, p = Paginate(e, after, limit)
    PROVE  /\ p.more /\ after # None => KeyLess(after, p.next)
           /\ Ordered(p.page, ItemOrder)
           /\ \A x : x \in ToSet(p.page) <=> x \in ToSet(e) /\ Inside(x, after, p.next)
<1>0. PICK a \in 1..(Len(e) + 1), b \in 0..Len(e) : Run(e, after, p, a, b)
  BY PageBounds
<1>1. /\ a <= b + 1 /\ a = FirstAfter(e, after)
      /\ IsSeq(p.page) /\ Len(p.page) = b - a + 1
      /\ \A i \in 1..(b - a + 1) : p.page[i] = e[a + i - 1]
      /\ p.more \in BOOLEAN /\ (p.more <=> b < Len(e))
      /\ b < Len(e) => a <= b /\ p.next = e[b].key
      /\ ~(b < Len(e)) => p.next = None
  BY <1>0 DEF Run
<1> DEFINE n == Len(e)
           L == Later(e, after)
<1>2. /\ n \in Nat /\ \A i \in 1..n : e[i] \in ToSet(e) /\ e[i] \in ItemSet
      /\ \A x \in ToSet(e) : \E i \in 1..n : e[i] = x
  BY SeqFacts
<1>3. \A i \in 1..n : e[i].key \in Nat \X Nat
  BY <1>2 DEF ItemSet
<1>4. ASSUME NEW i \in 1..n, NEW j \in 1..n, i < j
      PROVE  /\ <<e[i], e[j]>> \in ItemOrder /\ KeyLess(e[i].key, e[j].key)
             /\ ~KeyLess(e[j].key, e[i].key)
  <2>1. <<e[i], e[j]>> \in ItemOrder
    BY <1>4 DEF Ordered
  <2> DEFINE u == e[i]
             v == e[j]
  <2>2. <<u, v>> \in ItemOrder
    BY <2>1
  <2> HIDE DEF u, v
  <2>3. KeyLess(u.key, v.key)
    BY <2>2 DEF ItemOrder
  <2>4. KeyLess(e[i].key, e[j].key)
    BY <2>3 DEF u, v
  <2> QED BY <1>3, <2>1, <2>4, KeyLessFacts
<1>5. a \in 1..(n + 1) /\ (a <= n => a \in L) /\ \A i \in L : a <= i
  BY <1>1, FirstAfterFacts
<1>6. ASSUME NEW i \in 1..n
      PROVE  (after = None \/ KeyLess(after, e[i].key)) <=> a <= i
  <2>1. i \in L <=> after = None \/ KeyLess(after, e[i].key)
    BY DEF Later
  <2>2. ASSUME i \in L PROVE a <= i
    BY <1>5, <2>2
  <2>3. ASSUME a <= i PROVE i \in L
    <3>1. a \in 1..n /\ a \in L
      BY <1>2, <1>5, <2>3
    <3>2. CASE a = i
      BY <3>1, <3>2
    <3>3. CASE a < i /\ after # None
      <4>1. KeyLess(after, e[a].key) /\ KeyLess(e[a].key, e[i].key)
        BY <1>4, <3>1, <3>3 DEF Later
      <4>2. after \in Nat \X Nat
        BY <3>3 DEF Cursors
      <4>3. KeyLess(after, e[i].key)
        BY <1>3, <3>1, <4>1, <4>2, KeyLessFacts
      <4> QED BY <2>1, <4>3
    <3>4. CASE after = None
      BY <2>1, <3>4
    <3> QED BY <2>3, <3>1, <3>2, <3>3, <3>4
  <2> QED BY <2>1, <2>2, <2>3
<1>7. ASSUME NEW i \in 1..n
      PROVE  (p.next = None \/ ~KeyLess(p.next, e[i].key)) <=> i <= b
  <2>1. CASE ~(b < n)
    BY <1>1, <1>2, <2>1
  <2>2. CASE b < n
    <3>1. b \in 1..n /\ p.next = e[b].key /\ p.next \in Nat \X Nat /\ p.next # None
      BY <1>1, <1>2, <1>3, <2>2, RequestsAssumption
    <3>2. ASSUME i <= b PROVE ~KeyLess(p.next, e[i].key)
      <4>1. CASE i = b
        BY <3>1, <4>1, KeyLessFacts
      <4>2. CASE i < b
        BY <1>4, <3>1, <4>2
      <4> QED BY <3>1, <3>2, <4>1, <4>2
    <3>3. ASSUME b < i PROVE KeyLess(p.next, e[i].key)
      BY <1>4, <3>1, <3>3
    <3> QED BY <1>2, <3>1, <3>2, <3>3
  <2> QED BY <2>1, <2>2
<1> HIDE DEF L
<1>8. ASSUME p.more, after # None PROVE KeyLess(after, p.next)
  <2>1. b \in 1..n /\ a <= b /\ p.next = e[b].key
    BY <1>1, <1>2, <1>8
  <2> QED BY <1>6, <1>8, <2>1
<1>9. \A i \in 1..(b - a + 1) : a + i - 1 \in 1..n
  BY <1>1, <1>2, SMTT(20)
<1>10. Ordered(p.page, ItemOrder)
  <2>1. ASSUME NEW i \in 1..(b - a + 1), NEW j \in 1..(b - a + 1), i < j
        PROVE  <<p.page[i], p.page[j]>> \in ItemOrder
    <3>1. a + i - 1 < a + j - 1 /\ a + i - 1 \in 1..n /\ a + j - 1 \in 1..n
      BY <1>9, <2>1
    <3>2. <<e[a + i - 1], e[a + j - 1]>> \in ItemOrder
      BY <1>4, <3>1
    <3>3. p.page[i] = e[a + i - 1] /\ p.page[j] = e[a + j - 1]
      BY <1>1
    <3> QED BY <3>2, <3>3
  <2> QED BY <1>1, <2>1 DEF Ordered
<1>11. ASSUME NEW x PROVE x \in ToSet(p.page) <=> x \in ToSet(e) /\ Inside(x, after, p.next)
  <2>1. x \in ToSet(p.page) <=> \E i \in 1..(b - a + 1) : p.page[i] = x
    <3>1. /\ \A i \in 1..Len(p.page) : p.page[i] \in ToSet(p.page)
          /\ x \in ToSet(p.page) => \E i \in 1..Len(p.page) : p.page[i] = x
      BY <1>1, SeqFacts
    <3> QED BY <1>1, <3>1
  <2>2. ASSUME NEW i \in 1..n
        PROVE  Inside(e[i], after, p.next) <=> a <= i /\ i <= b
    BY <1>6, <1>7 DEF Inside
  <2>3. ASSUME NEW i \in 1..n, a <= i, i <= b PROVE \E j \in 1..(b - a + 1) : p.page[j] = e[i]
    <3>1. i - a + 1 \in 1..(b - a + 1) /\ a + (i - a + 1) - 1 = i
      BY <1>1, <1>2, <2>3
    <3> QED BY <1>1, <3>1
  <2>4. ASSUME NEW j \in 1..(b - a + 1), p.page[j] = x
        PROVE  x \in ToSet(e) /\ Inside(x, after, p.next)
    <3>1. a + j - 1 \in 1..n
      BY <1>9
    <3>2. a <= a + j - 1 /\ a + j - 1 <= b
      BY <1>2
    <3>3. x = e[a + j - 1]
      BY <1>1, <2>4
    <3> QED BY <1>2, <2>2, <3>1, <3>2, <3>3
  <2>5. ASSUME x \in ToSet(e), Inside(x, after, p.next) PROVE x \in ToSet(p.page)
    <3>1. PICK i \in 1..n : e[i] = x
      BY <1>2, <2>5
    <3> QED BY <2>1, <2>2, <2>3, <2>5, <3>1
  <2> QED BY <2>1, <2>4, <2>5
<1> QED BY <1>8, <1>10, <1>11

-----------------------------------------------------------------------------
(* Type correctness.                                                       *)

\* capSamples keeps at most MaxSamples of the samples, and a sample of a rule it has none of.
LEMMA NewestFacts ==
    ASSUME NEW S \in SUBSET Nat, IsFiniteSet(S), NEW N, N = Newest(S)
    PROVE  /\ N \subseteq S /\ IsFiniteSet(N) /\ Cardinality(N) <= MaxSamples
           /\ \A t : S = {t} => N = {t}
<1>1. N \subseteq S /\ IsFiniteSet(N) /\ N \in SUBSET Nat
  BY FS_Subset DEF Newest
<1>2. MaxSamples \in Nat /\ MaxSamples >= 1
  BY NumbersAssumption
<1>3. ASSUME N = {} PROVE Cardinality(N) <= MaxSamples
  BY <1>2, <1>3, FS_EmptySet
<1>4. ASSUME N # {} PROVE Cardinality(N) <= MaxSamples
  <2>1. PICK m \in N : \A x \in N : m <= x
    BY <1>1, <1>4, LeastElement
  <2> DEFINE A == {u \in S : u > m}
  <2>2. IsFiniteSet(A) /\ Cardinality(A) \in Nat
    BY FS_Subset, FS_CardinalityType
  <2>3. Cardinality(A) < MaxSamples
    BY <2>1 DEF Newest
  <2>4. N \subseteq A \cup {m}
    <3> SUFFICES ASSUME NEW x \in N PROVE x > m \/ x = m
      BY <1>1
    <3>1. x \in Nat /\ m \in Nat /\ m <= x
      BY <1>1, <2>1
    <3> QED BY <3>1
  <2> HIDE DEF A
  <2>5. IsFiniteSet(A \cup {m}) /\ Cardinality(A \cup {m}) <= Cardinality(A) + 1
    <3>1. /\ IsFiniteSet(A \cup {m})
          /\ Cardinality(A \cup {m}) = IF m \in A THEN Cardinality(A) ELSE Cardinality(A) + 1
      BY <2>2, FS_AddElement, Zenon
    <3> DEFINE c == Cardinality(A)
               d == Cardinality(A \cup {m})
    <3> HIDE DEF c, d
    <3>2. d <= c + 1
      BY <2>2, <3>1 DEF c, d
    <3> QED BY <3>1, <3>2 DEF c, d
  <2>6. Cardinality(N) <= Cardinality(A \cup {m}) /\ Cardinality(N) \in Nat /\ Cardinality(A \cup {m}) \in Nat
    BY <1>1, <2>4, <2>5, FS_Subset, FS_CardinalityType
  <2> DEFINE c == Cardinality(A)
             d == Cardinality(A \cup {m})
             k == Cardinality(N)
  <2>7. c \in Nat /\ d \in Nat /\ k \in Nat /\ c < MaxSamples /\ d <= c + 1 /\ k <= d
    BY <2>2, <2>3, <2>5, <2>6
  <2> HIDE DEF c, d, k
  <2>8. k <= MaxSamples
    BY <1>2, <2>7
  <2> QED BY <2>8 DEF k
<1>5. ASSUME NEW t, S = {t} PROVE N = {t}
  <2>1. {u \in S : u > t} = {}
    <3>1. t \in Nat /\ ~(t > t)
      BY <1>5
    <3> QED BY <1>5, <3>1
  <2>2. Cardinality({u \in S : u > t}) < MaxSamples
    BY <1>2, <2>1, FS_EmptySet
  <2>3. t \in N
    BY <1>5, <2>2 DEF Newest
  <2> QED BY <1>1, <1>5, <2>3
<1>6. Cardinality(N) <= MaxSamples
  BY <1>3, <1>4
<1> QED BY <1>1, <1>5, <1>6

\* A flush that brings one sample leaves the other rules alone.
LEMMA EvidenceStep ==
    ASSUME FilesTyped, NEW w \in Workloads, NEW r \in Rules, NEW t \in Times, WriteEvidence(w, r, t),
           NEW N, N = Newest(evidence[w][r] \cup {t})
    PROVE  /\ \A v \in Workloads, s \in Rules :
                 evidence'[v][s] = IF v = w /\ s = r THEN N ELSE evidence[v][s]
           /\ evidence' \in [Workloads -> [Rules -> SUBSET Times]]
           /\ N \subseteq evidence[w][r] \cup {t} /\ IsFiniteSet(N) /\ Cardinality(N) <= MaxSamples
           /\ IsFiniteSet(evidence[w][r])
           /\ evidence[w][r] = {} => N = {t}
<1> DEFINE old == evidence[w][r]
           S == old \cup {t}
<1>1. old \subseteq Times /\ IsFiniteSet(old)
  BY DEF FilesTyped
<1>2. S \in SUBSET Nat /\ IsFiniteSet(S)
  BY <1>1, NumbersAssumption, FS_AddElement
<1>3. N \subseteq S /\ IsFiniteSet(N) /\ Cardinality(N) <= MaxSamples /\ \A x : S = {x} => N = {x}
  <2> HIDE DEF S
  <2>1. N = Newest(S)
    BY DEF S
  <2> QED BY <1>2, <2>1, NewestFacts
<1>4. evidence' = [evidence EXCEPT ![w] = [evidence[w] EXCEPT ![r] = N]]
  BY DEF WriteEvidence
<1>5. evidence \in [Workloads -> [Rules -> SUBSET Times]]
  BY DEF FilesTyped
<1>6. N \in SUBSET Times
  BY <1>1, <1>3
<1>7. old = {} => S = {t}
  OBVIOUS
<1>8. evidence' \in [Workloads -> [Rules -> SUBSET Times]]
  BY <1>4, <1>5, <1>6
<1>9. \A v \in Workloads, s \in Rules : evidence'[v][s] = IF v = w /\ s = r THEN N ELSE evidence[v][s]
  BY <1>4, <1>5
<1> QED BY <1>1, <1>3, <1>7, <1>8, <1>9

Typed ==
    /\ FilesTyped
    /\ state \in {"capturing", "stopped"}
    /\ pipeline \in {"running", "cancelled", "alone", "settled"}
    /\ call = [pc |-> call.pc, q |-> call.q, after |-> call.after, status |-> call.status]
    /\ call.pc \in {"idle", "resolved", "paged", "done", "error",
                    "available_after_stop", "report", "no_drops"}
    /\ call.q \in Requests \cup {None} /\ (call.pc # "idle" => call.q \in Requests)
    /\ call.after \in Cursors
    /\ IsSeq(got) /\ IsFiniteSet(base) /\ inserted \in Nat /\ removed \in Nat

\* The capture and the purge leave the files typed.
LEMMA FilesStep == FilesTyped /\ [Next]_vars => FilesTyped'
<1> SUFFICES ASSUME FilesTyped, [Next]_vars PROVE FilesTyped'
  OBVIOUS
<1>1. CASE UNCHANGED files
  BY <1>1 DEF files, FilesTyped
<1>2. ASSUME NEW w \in Workloads, WritePolicy(w) PROVE FilesTyped'
  BY <1>2 DEF WritePolicy, FilesTyped
<1>3. ASSUME NEW w \in Workloads, NEW r \in Rules, NEW t \in Times, WriteEvidence(w, r, t)
      PROVE  FilesTyped'
  <2> DEFINE N == Newest(evidence[w][r] \cup {t})
             R(v) == {s \in Rules : evidence[v][s] # {}}
             Q(v) == {s \in Rules : evidence'[v][s] # {}}
  <2>1. /\ \A v \in Workloads, s \in Rules :
              evidence'[v][s] = IF v = w /\ s = r THEN N ELSE evidence[v][s]
        /\ evidence' \in [Workloads -> [Rules -> SUBSET Times]]
        /\ N \subseteq evidence[w][r] \cup {t} /\ IsFiniteSet(N) /\ Cardinality(N) <= MaxSamples
    <3>1. N = Newest(evidence[w][r] \cup {t})
      OBVIOUS
    <3> HIDE DEF N
    <3> QED BY <1>3, <3>1, EvidenceStep
  <2>2. used' = used \cup {t} /\ UNCHANGED <<policies, drops, report>>
    BY <1>3 DEF WriteEvidence
  <2> HIDE DEF N
  <2>3. ASSUME NEW v \in Workloads PROVE IsFiniteSet(Q(v))
    <3>1. IsFiniteSet(R(v))
      BY DEF FilesTyped
    <3>2. Q(v) \subseteq R(v) \cup {r}
      BY <2>1
    <3>3. IsFiniteSet(R(v) \cup {r})
      BY <3>1, FS_AddElement
    <3> QED BY <3>2, <3>3, FS_Subset
  <2>4. \A v \in Workloads : \A s \in Rules :
            /\ evidence'[v][s] \subseteq used' /\ IsFiniteSet(evidence'[v][s])
            /\ Cardinality(evidence'[v][s]) <= MaxSamples
    BY <2>1, <2>2 DEF FilesTyped
  <2>5. policies \subseteq Workloads /\ used' \subseteq Times
        /\ drops \subseteq Workloads \X Reasons /\ report \subseteq drops
        /\ \A v \in Workloads : IsFiniteSet({s \in Reasons : <<v, s>> \in drops})
    BY <2>2 DEF FilesTyped
  <2> QED BY <2>1, <2>2, <2>3, <2>4, <2>5 DEF FilesTyped
<1>4. ASSUME NEW w \in Workloads, NEW reason \in Reasons, Accumulate(w, reason) PROVE FilesTyped'
  <2> DEFINE D(v) == {s \in Reasons : <<v, s>> \in drops}
             E(v) == {s \in Reasons : <<v, s>> \in drops'}
  <2>1. drops' = drops \cup {<<w, reason>>} /\ UNCHANGED <<policies, evidence, report, used>>
    BY <1>4 DEF Accumulate
  <2>2. ASSUME NEW v \in Workloads PROVE IsFiniteSet(E(v))
    <3>1. IsFiniteSet(D(v) \cup {reason})
      BY FS_AddElement DEF FilesTyped
    <3>2. E(v) \subseteq D(v) \cup {reason}
      BY <2>1
    <3> QED BY <3>1, <3>2, FS_Subset
  <2>3. drops' \subseteq Workloads \X Reasons /\ report' \subseteq drops'
    BY <2>1 DEF FilesTyped
  <2> QED BY <2>1, <2>2, <2>3 DEF FilesTyped
<1>5. CASE PipelineExits
  <2>1. report' \in {drops, report} /\ UNCHANGED <<policies, evidence, drops, used>>
    BY <1>5 DEF PipelineExits
  <2> QED BY <2>1 DEF FilesTyped
<1>6. CASE Purge
  <2>1. /\ policies' = {} /\ report' = {} /\ UNCHANGED <<drops, used>>
        /\ evidence' = [w \in Workloads |-> [r \in Rules |-> {}]]
    BY <1>6 DEF Purge
  <2>2. \A w \in Workloads : {r \in Rules : evidence'[w][r] # {}} = {}
    BY <2>1
  <2>3. IsFiniteSet({}) /\ Cardinality({}) <= MaxSamples
    BY FS_EmptySet, NumbersAssumption
  <2>4. \A w \in Workloads : \A r \in Rules : evidence'[w][r] = {}
    BY <2>1
  <2>5. evidence' \in [Workloads -> [Rules -> SUBSET Times]]
    BY <2>1
  <2>6. drops \subseteq Workloads \X Reasons /\ used \subseteq Times
        /\ \A v \in Workloads : IsFiniteSet({s \in Reasons : <<v, s>> \in drops})
    BY DEF FilesTyped
  <2> QED BY <2>1, <2>2, <2>3, <2>4, <2>5, <2>6 DEF FilesTyped
<1>7. CASE StopsByItself \/ StopCancels \/ StopReturns
  BY <1>1, <1>7 DEF StopsByItself, StopCancels, StopReturns
<1>8. CASE AnswerNotFound \/ AnswerPage \/ AnswerHealth \/ \E q \in Requests : Resolve(q)
  BY <1>1, <1>8 DEF AnswerNotFound, AnswerPage, AnswerHealth, Resolve
<1>9. CASE UNCHANGED vars
  BY <1>1, <1>9 DEF vars
<1> QED BY <1>2, <1>3, <1>4, <1>5, <1>6, <1>7, <1>8, <1>9 DEF Next

\* A request is about finitely many rows.
LEMMA PresentFinite ==
    ASSUME FilesTyped, NEW q \in Requests, NEW status
    PROVE  IsFiniteSet(Present(q, status))
<1> DEFINE e == Items(q, status)
           P == Present(q, status)
           U == Numbered(q, status)
           E == ToSet(e)
           f == [x \in E |-> x.row]
<1>1. IsSeq(e) /\ \A x : x \in E <=> \E y \in P : x = Item(U, y)
  BY ItemsFacts
<1>2. IsFiniteSet(E)
  BY <1>1, ToSetFinite
<1> HIDE DEF e, P, U, E
<1>3. \A y : Item(U, y).row = y
  BY DEF Item
<1>4. \A x \in E : f[x] \in P
  BY <1>1, <1>3
<1>5. \A y \in P : \E x \in E : f[x] = y
  BY <1>1, <1>3
<1>6. f \in Surjection(E, P)
  BY <1>4, <1>5 DEF Surjection
<1> QED BY <1>2, <1>6, FS_Surjection DEF P

\* The initial state is of its type.
LEMMA TypedInit == Init => Typed
<1> SUFFICES ASSUME Init PROVE Typed
  OBVIOUS
<1>1. IsFiniteSet({}) /\ Cardinality({}) = 0
  BY FS_EmptySet
<1>2. \A w \in Workloads : {r \in Rules : evidence[w][r] # {}} = {}
  BY DEF Init
<1>3. \A w \in Workloads : {r \in Reasons : <<w, r>> \in drops} = {}
  BY DEF Init
<1>4. /\ policies \subseteq Workloads /\ used \subseteq Times
      /\ evidence \in [Workloads -> [Rules -> SUBSET Times]]
      /\ drops \subseteq Workloads \X Reasons /\ report \subseteq drops
  BY DEF Init
<1>5. MaxSamples >= 0
  BY NumbersAssumption
<1>6. \A w \in Workloads : \A r \in Rules :
          /\ evidence[w][r] \subseteq used /\ IsFiniteSet(evidence[w][r])
          /\ Cardinality(evidence[w][r]) <= MaxSamples
  <2>1. \A w \in Workloads : \A r \in Rules : evidence[w][r] = {}
    BY DEF Init
  <2> QED BY <1>1, <1>5, <2>1
<1>7. FilesTyped
  BY <1>1, <1>2, <1>3, <1>4, <1>6 DEF FilesTyped
<1>8. IsSeq(got)
  BY EmptyIsSeq DEF Init
<1> QED BY <1>1, <1>7, <1>8 DEF Init, Typed, Cursors

RowsOf(page) == [i \in DOMAIN page |-> page[i].row]

\* The rows of the page a client receives.
LEMMA AnswerFacts ==
    ASSUME Typed, AnswerPage,
           NEW e, e = Items(call.q, call.status.state),
           NEW p, p = Paginate(e, call.after, call.q.limit)
    PROVE  /\ call.pc = "resolved" /\ call.q \in Requests /\ call.q.limit \in Int
           /\ IsSeq(e) /\ ToSet(e) \subseteq ItemSet
           /\ IsSeq(p.page) /\ ToSet(p.page) \subseteq ToSet(e)
           /\ p.more \in BOOLEAN /\ p.next \in Cursors /\ (p.more <=> p.next # None)
           /\ p.more => ToSet(p.page) # {}
           /\ call' = [pc |-> IF p.more THEN "paged" ELSE "done", q |-> call.q,
                       after |-> p.next, status |-> call.status]
           /\ got' = got \o RowsOf(p.page)
           /\ base' = IF call.after = None THEN Present(call.q, call.status.state) ELSE base
           /\ UNCHANGED <<files, session, drift>>
<1>1. call.pc = "resolved" /\ call.q \in Requests /\ call.q.limit \in Int
  BY RequestsAssumption DEF AnswerPage, Typed
<1> DEFINE q == call.q
           status == call.status.state
           limit == call.q.limit
           after == call.after
<1>2. q \in Requests /\ limit \in Int /\ FilesTyped /\ e = Items(q, status) /\ p = Paginate(e, after, limit)
  BY <1>1 DEF Typed
<1>3. IsSeq(e) /\ ToSet(e) \subseteq ItemSet
  <2> HIDE DEF q, status
  <2> QED BY <1>2, ItemsFacts
<1>4. /\ IsSeq(p.page) /\ ToSet(p.page) \subseteq ToSet(e)
      /\ p.more \in BOOLEAN /\ p.next \in Cursors /\ (p.more <=> p.next # None)
      /\ p.more => ToSet(p.page) # {}
  <2> HIDE DEF limit, after
  <2> QED BY <1>2, <1>3, PageTyped
<1>5. call' = [call EXCEPT !.pc = IF p.more THEN "paged" ELSE "done", !.after = p.next]
  BY DEF AnswerPage
<1>6. call = [pc |-> call.pc, q |-> call.q, after |-> call.after, status |-> call.status]
  BY DEF Typed
<1>7. call' = [pc |-> IF p.more THEN "paged" ELSE "done", q |-> call.q,
               after |-> p.next, status |-> call.status]
  <2> DEFINE x == IF p.more THEN "paged" ELSE "done"
             y == p.next
  <2>1. call' = [call EXCEPT !.pc = x, !.after = y]
    BY <1>5
  <2> HIDE DEF x, y
  <2>2. call' = [pc |-> x, q |-> call.q, after |-> y, status |-> call.status]
    BY <1>6, <2>1
  <2> QED BY <2>2 DEF x, y
<1>8. /\ got' = got \o RowsOf(p.page)
      /\ base' = IF call.after = None THEN Present(call.q, call.status.state) ELSE base
      /\ UNCHANGED <<files, session, drift>>
  BY DEF AnswerPage, RowsOf
<1> QED BY <1>1, <1>3, <1>4, <1>7, <1>8

\* g is s, then the rows of a page.
Appended(g, s, page) ==
    /\ Len(g) = Len(s) + Len(page)
    /\ \A i \in 1..Len(s) : g[i] = s[i]
    /\ \A i \in 1..Len(page) : g[Len(s) + i] = page[i].row

\* Appending the rows of a page to what the client has.
LEMMA GotFacts ==
    ASSUME NEW s, IsSeq(s), NEW page, IsSeq(page), NEW g, g = s \o RowsOf(page)
    PROVE  IsSeq(g) /\ Appended(g, s, page)
<1> DEFINE h == RowsOf(page)
<1>1. Len(page) \in Nat /\ DOMAIN page = 1..Len(page)
  BY SeqFacts
<1>2. IsSeq(h) /\ Len(h) = Len(page) /\ \A i \in 1..Len(page) : h[i] = page[i].row
  <2>1. h = [i \in 1..Len(page) |-> h[i]]
    BY <1>1 DEF RowsOf
  <2>2. \A i \in 1..Len(page) : h[i] = page[i].row
    BY <1>1 DEF RowsOf
  <2> HIDE DEF h
  <2> QED BY <1>1, <2>1, <2>2, FunctionIsSeq
<1> HIDE DEF h
<1>3. g = s \o h
  BY DEF h
<1>4. Len(s) \in Nat
  BY SeqFacts
<1>5. IsSeq(g) /\ Len(g) = Len(s) + Len(page)
  BY <1>2, <1>3, ConcatIsSeq
<1>6. \A i \in 1..(Len(s) + Len(page)) : g[i] = IF i <= Len(s) THEN s[i] ELSE h[i - Len(s)]
  <2> DEFINE S == ToSet(s) \cup ToSet(h)
  <2>1. s \in Seq(S) /\ h \in Seq(S)
    BY <1>2, IsSeqIn
  <2> HIDE DEF S
  <2> QED BY <1>2, <1>3, <2>1
<1>7. ASSUME NEW i \in 1..Len(s) PROVE g[i] = s[i]
  <2>1. i \in 1..(Len(s) + Len(page)) /\ i <= Len(s)
    BY <1>1, <1>4
  <2> QED BY <1>6, <2>1
<1>8. ASSUME NEW i \in 1..Len(page) PROVE g[Len(s) + i] = page[i].row
  <2> DEFINE j == Len(s) + i
  <2>1. j \in 1..(Len(s) + Len(page)) /\ ~(j <= Len(s)) /\ j - Len(s) = i
    BY <1>1, <1>4
  <2> HIDE DEF j
  <2>2. g[j] = h[i]
    BY <1>6, <2>1
  <2> QED BY <1>2, <2>2 DEF j
<1> QED BY <1>5, <1>7, <1>8 DEF Appended

\* Every step keeps the types.
LEMMA TypedStep == Typed /\ [Next]_vars => Typed'
<1> SUFFICES ASSUME Typed, [Next]_vars PROVE Typed'
  OBVIOUS
<1> USE DEF session, client, drift
<1>0. FilesTyped'
  BY FilesStep DEF Typed
<1>1. CASE UNCHANGED vars
  BY <1>0, <1>1 DEF Typed, vars
<1>2. ASSUME NEW w \in Workloads, WritePolicy(w) PROVE Typed'
  BY <1>0, <1>2 DEF WritePolicy, Typed
<1>3. ASSUME NEW w \in Workloads, NEW r \in Rules, NEW t \in Times, WriteEvidence(w, r, t)
      PROVE  Typed'
  <2> DEFINE old == evidence[w][r]
             new == Newest(evidence[w][r] \cup {t})
  <2>1. IsFiniteSet(old) /\ IsFiniteSet(new)
    <3>1. new = Newest(evidence[w][r] \cup {t}) /\ FilesTyped
      BY DEF Typed
    <3> HIDE DEF new
    <3> QED BY <1>3, <3>1, EvidenceStep
  <2>2. IsFiniteSet(new \ old) /\ IsFiniteSet(old \ new)
    BY <2>1, FS_Difference
  <2>3. Cardinality(new \ old) \in Nat /\ Cardinality(old \ new) \in Nat
    BY <2>2, FS_CardinalityType
  <2>4. /\ inserted' \in {inserted, inserted + Cardinality(new \ old)}
        /\ removed' \in {removed, removed + Cardinality(old \ new)}
        /\ UNCHANGED <<session, client>>
    BY <1>3 DEF WriteEvidence
  <2> HIDE DEF old, new
  <2> QED BY <1>0, <2>3, <2>4 DEF Typed
<1>4. ASSUME NEW w \in Workloads, NEW reason \in Reasons, Accumulate(w, reason) PROVE Typed'
  BY <1>0, <1>4 DEF Accumulate, Typed
<1>5. CASE PipelineExits
  BY <1>0, <1>5 DEF PipelineExits, Typed
<1>6. CASE StopsByItself
  BY <1>0, <1>6 DEF StopsByItself, Typed
<1>7. CASE StopCancels
  BY <1>0, <1>7 DEF StopCancels, Typed
<1>8. CASE StopReturns
  BY <1>0, <1>8 DEF StopReturns, Typed
<1>9. CASE Purge
  <2>1. Cardinality(base) \in Nat
    BY FS_CardinalityType DEF Typed
  <2> QED BY <1>0, <1>9, <2>1 DEF Purge, Typed
<1>10. ASSUME NEW q \in Requests, Resolve(q) PROVE Typed'
  <2> DEFINE st == [state |-> state, failed |-> failed]
             pc == IF purged \/ DecodeCursorFails(q) THEN "error" ELSE "resolved"
  <2>1. call' = [call EXCEPT !.q = q, !.status = st, !.pc = pc] /\ UNCHANGED <<session, base, got, drift>>
    BY <1>10 DEF Resolve
  <2>2. pc \in {"error", "resolved"}
    OBVIOUS
  <2> HIDE DEF st, pc
  <2>3. call = [pc |-> call.pc, q |-> call.q, after |-> call.after, status |-> call.status]
    BY DEF Typed
  <2>4. call' = [pc |-> pc, q |-> q, after |-> call.after, status |-> st]
    BY <2>1, <2>3
  <2>5. call'.pc = pc /\ call'.q = q /\ call'.after = call.after /\ call'.status = st
    BY <2>4
  <2> QED BY <1>0, <2>1, <2>2, <2>4, <2>5 DEF Typed
<1>11. CASE AnswerNotFound
  <2>1. call' = [call EXCEPT !.pc = "error"] /\ UNCHANGED <<session, base, got, drift>> /\ call.pc = "resolved"
    BY <1>11 DEF AnswerNotFound
  <2> QED BY <1>0, <2>1 DEF Typed
<1>12. CASE AnswerPage
  <2> DEFINE e == Items(call.q, call.status.state)
             p == Paginate(e, call.after, call.q.limit)
             h == RowsOf(p.page)
  <2>1. /\ call.pc = "resolved" /\ call.q \in Requests
        /\ IsSeq(p.page) /\ p.next \in Cursors
        /\ call' = [pc |-> IF p.more THEN "paged" ELSE "done", q |-> call.q,
                    after |-> p.next, status |-> call.status]
        /\ got' = got \o h
        /\ base' = IF call.after = None THEN Present(call.q, call.status.state) ELSE base
        /\ UNCHANGED <<files, session, drift>>
    <3>1. e = Items(call.q, call.status.state) /\ p = Paginate(e, call.after, call.q.limit)
      OBVIOUS
    <3>2. h = RowsOf(p.page)
      OBVIOUS
    <3> HIDE DEF e, p, h
    <3> QED BY <1>12, <3>1, <3>2, AnswerFacts
  <2>2. IsSeq(got')
    <3> DEFINE g == got \o h
               page == p.page
    <3>1. g = got \o RowsOf(page) /\ IsSeq(got) /\ IsSeq(page)
      BY <2>1 DEF Typed
    <3> HIDE DEF g, page
    <3>2. IsSeq(g)
      BY <3>1, GotFacts
    <3> QED BY <2>1, <3>2 DEF g
  <2> HIDE DEF h
  <2>3. IsFiniteSet(base')
    <3> DEFINE q == call.q
               status == call.status.state
    <3>1. q \in Requests /\ FilesTyped /\ IsFiniteSet(base) /\ base' \in {Present(q, status), base}
      BY <2>1 DEF Typed
    <3> HIDE DEF q, status
    <3> QED BY <3>1, PresentFinite
  <2> DEFINE x == IF p.more THEN "paged" ELSE "done"
             y == p.next
  <2>4. x \in {"paged", "done"} /\ y \in Cursors /\ call' = [pc |-> x, q |-> call.q, after |-> y, status |-> call.status]
    BY <2>1
  <2> HIDE DEF e, p, x, y
  <2>5. call'.pc = x /\ call'.q = call.q /\ call'.after = y /\ call'.status = call.status
    BY <2>4
  <2> QED BY <1>0, <2>1, <2>2, <2>3, <2>4, <2>5 DEF Typed
<1>13. CASE AnswerHealth
  <2> DEFINE x == ClusterHealthBranch(call.status)
  <2>1. call' = [call EXCEPT !.pc = x] /\ UNCHANGED <<session, base, got, drift>> /\ call.pc = "resolved"
    BY <1>13 DEF AnswerHealth
  <2>2. x \in {"available_after_stop", "report", "no_drops", "error"}
    BY DEF ClusterHealthBranch
  <2> HIDE DEF x
  <2> QED BY <1>0, <2>1, <2>2 DEF Typed
<1> QED
  BY <1>1, <1>2, <1>3, <1>4, <1>5, <1>6, <1>7, <1>8, <1>9, <1>10, <1>11, <1>12, <1>13 DEF Next

\* Every behaviour keeps the files, the session and the request in their types, and
\* every rule's samples within MaxSamples.
THEOREM TypeCorrect == Spec => []TypeOK
<1>1. Typed => TypeOK
  <2> SUFFICES ASSUME Typed PROVE TypeOK
    OBVIOUS
  <2>1. \A w \in Workloads, r \in Rules :
            evidence[w][r] \subseteq used /\ Cardinality(evidence[w][r]) <= MaxSamples
    BY DEF Typed, FilesTyped
  <2> QED BY <2>1 DEF Typed, FilesTyped, TypeOK
<1> QED BY <1>1, TypedInit, TypedStep, PTL DEF Spec

-----------------------------------------------------------------------------
(* The cursors.                                                            *)

\* A page of a scan in key order ends after the cursor it was asked from.
LEMMA CursorStep ==
    ASSUME FilesInKeyOrder, Typed, [Next]_vars,
           call.pc = "resolved", call'.pc = "paged", call.after # None
    PROVE  KeyLess(call.after, call'.after)
<1>1. CASE AnswerPage
  <2> DEFINE q == call.q
             status == call.status.state
             after == call.after
             limit == call.q.limit
             e == Items(q, status)
             p == Paginate(e, after, limit)
  <2>1. /\ q \in Requests /\ limit \in Int /\ after \in Cursors /\ after # None
        /\ call' = [pc |-> IF p.more THEN "paged" ELSE "done", q |-> call.q,
                    after |-> p.next, status |-> call.status]
    <3>1. e = Items(call.q, call.status.state) /\ p = Paginate(e, call.after, call.q.limit)
      OBVIOUS
    <3> HIDE DEF e, p
    <3> QED BY <1>1, <3>1, AnswerFacts DEF Typed
  <2>2. FilesTyped /\ e = Items(q, status) /\ p = Paginate(e, after, limit)
    BY DEF Typed
  <2> HIDE DEF q, status, limit, e, p, after
  <2>3. IsSeq(e) /\ ToSet(e) \subseteq ItemSet /\ Ordered(e, ItemOrder)
    BY <2>1, <2>2, ItemsFacts
  <2>4. p.more => KeyLess(after, p.next)
    BY <2>1, <2>2, <2>3, PageExact
  <2>5. call'.pc = (IF p.more THEN "paged" ELSE "done") /\ call'.after = p.next
    BY <2>1
  <2> QED BY <2>4, <2>5 DEF after
<1>2. CASE \E q \in Requests : Resolve(q)
  BY <1>2 DEF Resolve
<1>3. CASE AnswerNotFound
  BY <1>3 DEF AnswerNotFound, Typed
<1>4. CASE AnswerHealth
  <2> DEFINE x == ClusterHealthBranch(call.status)
  <2>1. call' = [call EXCEPT !.pc = x]
    BY <1>4 DEF AnswerHealth
  <2>2. x \in {"available_after_stop", "report", "no_drops", "error"}
    BY DEF ClusterHealthBranch
  <2> HIDE DEF x
  <2> QED BY <2>1, <2>2 DEF Typed
<1>5. CASE UNCHANGED client
  BY <1>5 DEF client
<1>6. ASSUME NEW w \in Workloads,
             WritePolicy(w) \/ (\E r \in Rules, t \in Times : WriteEvidence(w, r, t))
             \/ \E reason \in Reasons : Accumulate(w, reason)
      PROVE  UNCHANGED client
  BY <1>6 DEF WritePolicy, WriteEvidence, Accumulate
<1>7. ASSUME PipelineExits \/ StopsByItself \/ StopCancels \/ StopReturns \/ Purge PROVE UNCHANGED client
  BY <1>7 DEF PipelineExits, StopsByItself, StopCancels, StopReturns, Purge
<1>8. UNCHANGED vars => UNCHANGED client
  BY DEF vars
<1> QED BY <1>1, <1>2, <1>3, <1>4, <1>5, <1>6, <1>7, <1>8 DEF Next

\* paginate: when ReadDir lists the files in key order, every next_cursor lies after
\* the cursor the client sent, whatever the capture writes or a start purges between
\* the two calls, so a client that follows the cursors makes progress.
THEOREM CursorsAdvance == ASSUME FilesInKeyOrder PROVE Spec => CursorAdvances
<1> DEFINE Advance == call.pc = "resolved" /\ call'.pc = "paged" /\ call.after # None
                         => KeyLess(call.after, call'.after)
<1>1. Typed /\ [Next]_vars => Advance
  BY CursorStep
<1>2. UNCHANGED vars => [Advance]_vars
  OBVIOUS
<1>3. Typed /\ [Next]_vars => [Advance]_vars
  BY <1>1
<1> QED BY <1>3, TypedInit, TypedStep, PTL DEF Spec, CursorAdvances

-----------------------------------------------------------------------------
(* get_cluster_health.                                                     *)

\* A session is stopped after its pipeline has returned, or Stop gave up waiting;
\* a pipeline that has returned has left what it counted in the report; and the
\* status in a handler's hand may be old, but a stopped session stays stopped.
Settled ==
    /\ DOMAIN call = {"pc", "q", "after", "status"}
    /\ pipeline \in {"running", "cancelled", "alone", "settled"}
    /\ state \in {"capturing", "stopped"}
    /\ state = "stopped" => pipeline # "running" \/ timedOut
    /\ pipeline # "running" => report = drops \/ unsaved \/ purged
    /\ call.pc = "resolved" => call.status.state \in {state, "capturing"}
    /\ call.pc = "no_drops" => state = "stopped"
    /\ NoDropsTruthful

\* The initial session is running, its report not written.
LEMMA SettledInit == Init => Settled
  BY DEF Init, Settled, NoDropsTruthful

\* Every step keeps a returned pipeline's report and a stopped session's state.
LEMMA SettledStep == Settled /\ [Next]_vars => Settled'
  <1> SUFFICES ASSUME Settled, [Next]_vars PROVE Settled'
    OBVIOUS
  <1> USE DEF files, session, client, drift
  <1>1. CASE UNCHANGED vars
    BY <1>1 DEF Settled, NoDropsTruthful, vars
  <1>2. ASSUME NEW w \in Workloads, WritePolicy(w) PROVE Settled'
    BY <1>2 DEF WritePolicy, Settled, NoDropsTruthful
  <1>3. ASSUME NEW w \in Workloads, NEW r \in Rules, NEW t \in Times, WriteEvidence(w, r, t)
        PROVE  Settled'
    BY <1>3 DEF WriteEvidence, Settled, NoDropsTruthful
  <1>4. ASSUME NEW w \in Workloads, NEW reason \in Reasons, Accumulate(w, reason) PROVE Settled'
    <2>1. pipeline = "running" /\ UNCHANGED <<session, client, report>>
      BY <1>4 DEF Accumulate, Writable
    <2>2. state = "stopped" => timedOut
      BY <2>1 DEF Settled
    <2> QED
      BY <2>1, <2>2 DEF Settled, NoDropsTruthful
  <1>5. CASE PipelineExits
    BY <1>5 DEF PipelineExits, Settled, NoDropsTruthful
  <1>6. CASE StopsByItself
    BY <1>6 DEF StopsByItself, Settled, NoDropsTruthful
  <1>7. CASE StopCancels
    BY <1>7 DEF StopCancels, Settled, NoDropsTruthful
  <1>8. CASE StopReturns
    BY <1>8 DEF StopReturns, Settled, NoDropsTruthful
  <1>9. CASE Purge
    BY <1>9 DEF Purge, Settled, NoDropsTruthful
  <1>10. ASSUME NEW q \in Requests, Resolve(q) PROVE Settled'
    <2>1. /\ UNCHANGED <<files, session>>
          /\ call' = [call EXCEPT !.q = q, !.status = [state |-> state, failed |-> failed],
                            !.pc = IF purged \/ DecodeCursorFails(q) THEN "error" ELSE "resolved"]
      BY <1>10 DEF Resolve
    <2>2. /\ DOMAIN call' = DOMAIN call /\ call'.pc \in {"error", "resolved"}
          /\ call'.status.state = state
      BY <2>1 DEF Settled
    <2> QED
      BY <2>1, <2>2 DEF Settled, NoDropsTruthful
  <1>11. CASE AnswerNotFound
    BY <1>11 DEF AnswerNotFound, Settled, NoDropsTruthful
  <1>12. CASE AnswerPage
    <2>1. UNCHANGED <<files, session>> /\ DOMAIN call' = DOMAIN call /\ call'.pc \in {"paged", "done"}
      BY <1>12 DEF AnswerPage, Settled
    <2> QED
      BY <2>1 DEF Settled, NoDropsTruthful
  <1>13. CASE AnswerHealth
    <2>1. /\ UNCHANGED <<files, session>> /\ DOMAIN call' = DOMAIN call
          /\ call.pc = "resolved" /\ call'.pc = ClusterHealthBranch(call.status)
      BY <1>13 DEF AnswerHealth, Settled
    <2>2. call'.pc # "resolved"
      BY <2>1 DEF ClusterHealthBranch
    <2>3. call'.pc = "no_drops" => call.status.state # "capturing" /\ report = {}
      BY <2>1 DEF ClusterHealthBranch
    <2> QED
      BY <2>1, <2>2, <2>3 DEF Settled, NoDropsTruthful
  <1> QED
    BY <1>1, <1>2, <1>3, <1>4, <1>5, <1>6, <1>7, <1>8, <1>9, <1>10, <1>11, <1>12, <1>13 DEF Next

\* readClusterHealth: an answer of "no drops" is true of a capture whose Stop saw the
\* pipeline return, whose report could be saved and which no start has purged, however
\* late the handler reads the file after it has resolved the session.
THEOREM NoDropsBelieved == Spec => []NoDropsTruthful
  <1>1. Settled => NoDropsTruthful
    BY DEF Settled
  <1> QED
    BY <1>1, SettledInit, SettledStep, PTL DEF Spec
-----------------------------------------------------------------------------
(* Rows that cross the cursor while the files change.                      *)

KeyIn(U, x) == Key(x[2], Index(U, x))

\* Any two rows of a workload come one before the other.
Comparable(U) == \A x, y \in U : x[2] = y[2] /\ x # y => RowLess(x, y) \/ RowLess(y, x)

\* A row's index counts more rows than that of a row before it.
LEMMA IndexGrows ==
    ASSUME NEW U \in SUBSET Rows, IsFiniteSet(U), NEW x \in U, NEW y \in U,
           x[2] = y[2], RowLess(x, y)
    PROVE  Index(U, x) < Index(U, y)
<1> DEFINE A == Preceding(U, x)
           B == Preceding(U, y)
<1>1. x \in B /\ x \notin A
  BY RowOrderFacts DEF Preceding
<1>2. A \subseteq B
  <2> SUFFICES ASSUME NEW z \in A PROVE z \in B
    OBVIOUS
  <2>1. z \in U /\ z[2] = y[2] /\ RowLess(z, x)
    BY DEF Preceding
  <2>2. RowLess(z, y)
    BY <2>1, RowOrderFacts
  <2> QED BY <2>1, <2>2 DEF Preceding
<1>3. IsFiniteSet(B)
  BY FS_Subset DEF Preceding
<1> HIDE DEF A, B
<1>4. Cardinality(A) < Cardinality(B)
  BY <1>1, <1>2, <1>3, Fewer
<1> QED BY <1>4 DEF Index, A, B

\* The key of a row in a finite listing.
LEMMA KeyInFacts ==
    ASSUME NEW U, IsFiniteSet(U), NEW x \in Rows
    PROVE  /\ Index(U, x) \in Nat
           /\ \E p \in 1..Len(KeyOrder) : x[2] = KeyOrder[p] /\ KeyIn(U, x) = <<p, Index(U, x)>>
           /\ KeyIn(U, x) \in Nat \X Nat
<1>1. Index(U, x) \in Nat
  BY FS_Subset, FS_CardinalityType DEF Index, Preceding
<1>2. x[2] \in Workloads
  BY DEF Rows
<1>3. PICK p \in 1..Len(KeyOrder) : x[2] = KeyOrder[p]
  BY <1>2, KeyFacts
<1>4. KeyIn(U, x) = <<p, Index(U, x)>> /\ p \in Nat
  BY <1>3, KeyFacts DEF KeyIn
<1> QED BY <1>1, <1>3, <1>4

\* No two rows of a listing have the same key.
LEMMA KeysDiffer ==
    ASSUME NEW U \in SUBSET Rows, IsFiniteSet(U), Comparable(U), NEW x \in U, NEW y \in U,
           KeyIn(U, x) = KeyIn(U, y)
    PROVE  x = y
<1>1. PICK p \in 1..Len(KeyOrder) : x[2] = KeyOrder[p] /\ KeyIn(U, x) = <<p, Index(U, x)>>
  BY KeyInFacts
<1>2. PICK r \in 1..Len(KeyOrder) : y[2] = KeyOrder[r] /\ KeyIn(U, y) = <<r, Index(U, y)>>
  BY KeyInFacts
<1>3. x[2] = y[2] /\ Index(U, x) = Index(U, y)
  <2> DEFINE i == Index(U, x)
             j == Index(U, y)
  <2>1. <<p, i>> = <<r, j>>
    BY <1>1, <1>2
  <2> HIDE DEF i, j
  <2>2. p = r /\ i = j
    BY ONLY <2>1
  <2> QED BY <1>1, <1>2, <2>2 DEF i, j
<1>4. Index(U, x) \in Nat
  BY KeyInFacts
<1>5. ~RowLess(x, y) /\ ~RowLess(y, x)
  BY <1>3, <1>4, IndexGrows
<1> QED BY <1>3, <1>5 DEF Comparable

\* A set with at most one element that another lacks.
LEMMA OneMore ==
    ASSUME NEW C, IsFiniteSet(C), NEW E, IsFiniteSet(E), \A x, y \in E \ C : x = y
    PROVE  Cardinality(E) <= Cardinality(C) + 1
<1>1. \E z : E \subseteq C \cup {z}
  <2>1. CASE E \subseteq C
    BY <2>1
  <2>2. CASE ~(E \subseteq C)
    <3>1. PICK z \in E : z \notin C
      BY <2>2
    <3>2. E \subseteq C \cup {z}
      BY <3>1
    <3> QED BY <3>2
  <2> QED BY <2>1, <2>2
<1>1a. PICK z : E \subseteq C \cup {z}
  BY <1>1
<1>2. Cardinality(C) \in Nat /\ Cardinality(E) \in Nat
  BY FS_CardinalityType
<1>3. IsFiniteSet(C \cup {z}) /\ Cardinality(C \cup {z}) = IF z \in C THEN Cardinality(C) ELSE Cardinality(C) + 1
  BY FS_AddElement, Zenon
<1>4. Cardinality(E) <= Cardinality(C \cup {z})
  BY <1>1a, <1>3, FS_Subset
<1> DEFINE c == Cardinality(C)
           d == Cardinality(C \cup {z})
<1> HIDE DEF c, d
<1>5. c \in Nat /\ d = IF z \in C THEN c ELSE c + 1
  BY <1>2, <1>3 DEF c, d
<1>6. Cardinality(E) <= d
  BY <1>4 DEF d
<1>7. Cardinality(E) <= c + 1
  BY <1>2, <1>5, <1>6
<1> QED BY <1>7 DEF c

\* The rows received already that the next page may bring again.
Crossed(U, P, G, a) == {x \in P \cap G : KeyLess(a, KeyIn(U, x))}

\* The rows the first scan saw that no later page can bring.
Missed(U, P, B, G, a) == {x \in (B \cap P) \ G : ~KeyLess(a, KeyIn(U, x))}

\* At most one received row moves behind the cursor when one row is inserted.
LEMMA CrossUp ==
    ASSUME NEW U \in SUBSET Rows, IsFiniteSet(U), Comparable(U), NEW P \in SUBSET U,
           NEW V \in SUBSET Rows, IsFiniteSet(V), NEW Q \in SUBSET V,
           NEW G, IsFiniteSet(G), NEW a \in Nat \X Nat, NEW I, IsFiniteSet(I), Cardinality(I) <= 1,
           \A x \in Q \cap G : x \in P /\ Preceding(V, x) \subseteq Preceding(U, x) \cup I
    PROVE  Cardinality(Crossed(V, Q, G, a)) <= Cardinality(Crossed(U, P, G, a)) + Cardinality(I)
<1> DEFINE C == Crossed(U, P, G, a)
           E == Crossed(V, Q, G, a)
<1>1. IsFiniteSet(C) /\ IsFiniteSet(E) /\ Cardinality(C) \in Nat /\ Cardinality(E) \in Nat
  BY FS_Subset, FS_CardinalityType DEF Crossed
<1>2. Cardinality(I) \in {0, 1} /\ (Cardinality(I) = 0 => I = {})
  BY FS_CardinalityType, FS_EmptySet
<1>3. ASSUME NEW x \in Q \cap G PROVE Index(V, x) <= Index(U, x) + Cardinality(I)
  <2> DEFINE A == Preceding(U, x)
             B == Preceding(V, x)
  <2>1. IsFiniteSet(A) /\ IsFiniteSet(B) /\ B \subseteq A \cup I
    BY FS_Subset DEF Preceding
  <2> HIDE DEF A, B
  <2>2. /\ IsFiniteSet(A \cup I)
        /\ Cardinality(A \cup I) = Cardinality(A) + Cardinality(I) - Cardinality(A \cap I)
    BY <2>1, FS_Union
  <2>3. IsFiniteSet(A \cap I)
    BY <2>1, FS_Intersection
  <2>4. Cardinality(B) <= Cardinality(A \cup I)
    BY <2>1, <2>2, FS_Subset
  <2> DEFINE k == Cardinality(A \cap I)
             m == Cardinality(A)
             n == Cardinality(B)
             o == Cardinality(A \cup I)
  <2>5. k \in Nat /\ m \in Nat /\ n \in Nat /\ o \in Nat /\ o = m + Cardinality(I) - k /\ n <= o
    BY <2>1, <2>2, <2>3, <2>4, FS_CardinalityType
  <2> HIDE DEF k, m, n, o
  <2>6. n <= m + Cardinality(I)
    BY <1>2, <2>5
  <2> QED BY <2>6 DEF m, n, A, B, Index
<1>4. ASSUME NEW x \in Q \cap G
      PROVE  \E p \in Nat : KeyIn(U, x) = <<p, Index(U, x)>> /\ KeyIn(V, x) = <<p, Index(V, x)>>
                            /\ Index(U, x) \in Nat /\ Index(V, x) \in Nat
  <2>1. x \in Rows
    OBVIOUS
  <2>2. PICK p \in 1..Len(KeyOrder) : x[2] = KeyOrder[p] /\ KeyIn(U, x) = <<p, Index(U, x)>>
    BY <2>1, KeyInFacts
  <2>3. KeyIn(V, x) = <<p, Index(V, x)>>
    BY <2>2, KeyFacts DEF KeyIn
  <2>4. Index(U, x) \in Nat /\ Index(V, x) \in Nat
    BY <2>1, KeyInFacts
  <2> QED BY <2>2, <2>3, <2>4, KeyFacts
<1>5. a = <<a[1], a[2]>> /\ a[1] \in Nat /\ a[2] \in Nat
  OBVIOUS
<1>6. ASSUME NEW x \in E \ C PROVE x \in U /\ KeyIn(U, x) = a /\ Cardinality(I) = 1
  <2>1. x \in Q \cap G /\ KeyLess(a, KeyIn(V, x)) /\ x \in P /\ ~KeyLess(a, KeyIn(U, x))
    BY DEF Crossed
  <2>2. PICK p \in Nat : KeyIn(U, x) = <<p, Index(U, x)>> /\ KeyIn(V, x) = <<p, Index(V, x)>>
                         /\ Index(U, x) \in Nat /\ Index(V, x) \in Nat
    BY <1>4, <2>1
  <2> DEFINE i == Index(U, x)
             j == Index(V, x)
  <2>3. j <= i + Cardinality(I) /\ i \in Nat /\ j \in Nat
    BY <1>3, <2>1, <2>2
  <2>4. KeyLess(a, <<p, j>>) /\ ~KeyLess(a, <<p, i>>)
    BY <2>1, <2>2
  <2> HIDE DEF i, j
  <2>5. /\ a[1] < p \/ (a[1] = p /\ a[2] < j)
        /\ ~(a[1] < p \/ (a[1] = p /\ a[2] < i))
    BY <2>4 DEF KeyLess
  <2>6. a[1] = p /\ a[2] = i /\ Cardinality(I) = 1
    BY <1>2, <1>5, <2>3, <2>5
  <2> QED BY <1>5, <2>1, <2>2, <2>6 DEF i
<1> HIDE DEF C, E
<1>7. \A x, y \in E \ C : x = y
  BY <1>6, KeysDiffer
<1>8. CASE Cardinality(I) = 1
  BY <1>1, <1>7, <1>8, OneMore DEF C, E
<1>9. CASE Cardinality(I) = 0
  <2>1. E \subseteq C
    BY <1>6, <1>9
  <2>2. Cardinality(E) <= Cardinality(C)
    BY <1>1, <2>1, FS_Subset
  <2>3. Cardinality(E) <= Cardinality(C) + Cardinality(I)
    BY <1>1, <1>9, <2>2
  <2> QED BY <2>3 DEF C, E
<1> QED BY <1>2, <1>8, <1>9

\* At most one row that was not received moves before the cursor when one row is removed.
LEMMA CrossDown ==
    ASSUME NEW U \in SUBSET Rows, IsFiniteSet(U), Comparable(U), NEW P \in SUBSET U,
           NEW V \in SUBSET Rows, IsFiniteSet(V), NEW Q \in SUBSET V,
           NEW G, NEW B, IsFiniteSet(B), NEW a \in Nat \X Nat, NEW D, IsFiniteSet(D), Cardinality(D) <= 1,
           \A x \in Q \cap B : x \in P /\ Preceding(U, x) \subseteq Preceding(V, x) \cup D
    PROVE  Cardinality(Missed(V, Q, B, G, a)) <= Cardinality(Missed(U, P, B, G, a)) + Cardinality(D)
<1> DEFINE C == Missed(U, P, B, G, a)
           E == Missed(V, Q, B, G, a)
<1>1. IsFiniteSet(C) /\ IsFiniteSet(E) /\ Cardinality(C) \in Nat /\ Cardinality(E) \in Nat
  BY FS_Subset, FS_CardinalityType DEF Missed
<1>2. Cardinality(D) \in {0, 1} /\ (Cardinality(D) = 0 => D = {})
  BY FS_CardinalityType, FS_EmptySet
<1>3. ASSUME NEW x \in Q \cap B PROVE Index(U, x) <= Index(V, x) + Cardinality(D)
  <2> DEFINE K == Preceding(V, x)
             L == Preceding(U, x)
  <2>1. IsFiniteSet(K) /\ IsFiniteSet(L) /\ L \subseteq K \cup D
    BY FS_Subset DEF Preceding
  <2> HIDE DEF K, L
  <2>2. /\ IsFiniteSet(K \cup D)
        /\ Cardinality(K \cup D) = Cardinality(K) + Cardinality(D) - Cardinality(K \cap D)
    BY <2>1, FS_Union
  <2>3. IsFiniteSet(K \cap D)
    BY <2>1, FS_Intersection
  <2>4. Cardinality(L) <= Cardinality(K \cup D)
    BY <2>1, <2>2, FS_Subset
  <2> DEFINE k == Cardinality(K \cap D)
             m == Cardinality(K)
             n == Cardinality(L)
             o == Cardinality(K \cup D)
  <2>5. k \in Nat /\ m \in Nat /\ n \in Nat /\ o \in Nat /\ o = m + Cardinality(D) - k /\ n <= o
    BY <2>1, <2>2, <2>3, <2>4, FS_CardinalityType
  <2> HIDE DEF k, m, n, o
  <2>6. n <= m + Cardinality(D)
    BY <1>2, <2>5
  <2> QED BY <2>6 DEF m, n, K, L, Index
<1>4. ASSUME NEW x \in Q \cap B
      PROVE  \E p \in Nat : KeyIn(U, x) = <<p, Index(U, x)>> /\ KeyIn(V, x) = <<p, Index(V, x)>>
                            /\ Index(U, x) \in Nat /\ Index(V, x) \in Nat
  <2>1. x \in Rows
    OBVIOUS
  <2>2. PICK p \in 1..Len(KeyOrder) : x[2] = KeyOrder[p] /\ KeyIn(U, x) = <<p, Index(U, x)>>
    BY <2>1, KeyInFacts
  <2>3. KeyIn(V, x) = <<p, Index(V, x)>>
    BY <2>2, KeyFacts DEF KeyIn
  <2>4. Index(U, x) \in Nat /\ Index(V, x) \in Nat
    BY <2>1, KeyInFacts
  <2> QED BY <2>2, <2>3, <2>4, KeyFacts
<1>5. a = <<a[1], a[2]>> /\ a[1] \in Nat /\ a[2] \in Nat
  OBVIOUS
<1>6. ASSUME NEW x \in E \ C PROVE x \in U /\ KeyIn(U, x) = <<a[1], a[2] + 1>> /\ Cardinality(D) = 1
  <2>1. x \in Q \cap B /\ ~KeyLess(a, KeyIn(V, x)) /\ x \in P /\ KeyLess(a, KeyIn(U, x))
    BY DEF Missed
  <2>2. PICK p \in Nat : KeyIn(U, x) = <<p, Index(U, x)>> /\ KeyIn(V, x) = <<p, Index(V, x)>>
                         /\ Index(U, x) \in Nat /\ Index(V, x) \in Nat
    BY <1>4, <2>1
  <2> DEFINE i == Index(U, x)
             j == Index(V, x)
  <2>3. i <= j + Cardinality(D) /\ i \in Nat /\ j \in Nat
    BY <1>3, <2>1, <2>2
  <2>4. KeyLess(a, <<p, i>>) /\ ~KeyLess(a, <<p, j>>)
    BY <2>1, <2>2
  <2> HIDE DEF i, j
  <2>5. /\ a[1] < p \/ (a[1] = p /\ a[2] < i)
        /\ ~(a[1] < p \/ (a[1] = p /\ a[2] < j))
    BY <2>4 DEF KeyLess
  <2>6. a[1] = p /\ a[2] + 1 = i /\ Cardinality(D) = 1
    BY <1>2, <1>5, <2>3, <2>5
  <2> QED BY <2>1, <2>2, <2>6 DEF i
<1> HIDE DEF C, E
<1>7. \A x, y \in E \ C : x = y
  BY <1>6, KeysDiffer
<1>8. CASE Cardinality(D) = 1
  BY <1>1, <1>7, <1>8, OneMore DEF C, E
<1>9. CASE Cardinality(D) = 0
  <2>1. E \subseteq C
    BY <1>6, <1>9
  <2>2. Cardinality(E) <= Cardinality(C)
    BY <1>1, <2>1, FS_Subset
  <2>3. Cardinality(E) <= Cardinality(C) + Cardinality(D)
    BY <1>1, <1>9, <2>2
  <2> QED BY <2>3 DEF C, E
<1> QED BY <1>2, <1>8, <1>9

\* Rows nobody has received or was shown may come, and one of the others go, anywhere
\* in a listing: one received row may come back, and one other row be skipped.
LEMMA Shift ==
    ASSUME NEW U \in SUBSET Rows, IsFiniteSet(U), Comparable(U), NEW P \in SUBSET U,
           NEW V \in SUBSET Rows, IsFiniteSet(V), NEW Q \in SUBSET V,
           NEW G, IsFiniteSet(G), NEW B, IsFiniteSet(B), NEW a \in Nat \X Nat,
           NEW I, IsFiniteSet(I), Cardinality(I) <= 1, NEW D, IsFiniteSet(D), Cardinality(D) <= 1,
           V \subseteq U \cup I, U \subseteq V \cup D,
           \A x \in Q \cap (B \cup G) : x \in P
    PROVE  /\ Cardinality(Crossed(V, Q, G, a)) <= Cardinality(Crossed(U, P, G, a)) + Cardinality(I)
           /\ Cardinality(Missed(V, Q, B, G, a)) <= Cardinality(Missed(U, P, B, G, a)) + Cardinality(D)
<1>1. \A x : /\ Preceding(V, x) \subseteq Preceding(U, x) \cup I
             /\ Preceding(U, x) \subseteq Preceding(V, x) \cup D
  BY DEF Preceding
<1>2. \A x \in Q \cap G : x \in P /\ Preceding(V, x) \subseteq Preceding(U, x) \cup I
  BY <1>1
<1>3. \A x \in Q \cap B : x \in P /\ Preceding(U, x) \subseteq Preceding(V, x) \cup D
  BY <1>1
<1>4. Cardinality(Crossed(V, Q, G, a)) <= Cardinality(Crossed(U, P, G, a)) + Cardinality(I)
  BY <1>2, CrossUp
<1>5. Cardinality(Missed(V, Q, B, G, a)) <= Cardinality(Missed(U, P, B, G, a)) + Cardinality(D)
  BY <1>3, CrossDown
<1> QED BY <1>4, <1>5

\* The rows of a listing, by what the files hold.
Listed(q, status, x) ==
    \/ /\ q.tool = "list_policies" /\ x[1] = "policy" /\ x[3] = 0 /\ x[4] = 0
       /\ x[2] \in policies \ Unreadable
    \/ /\ q.tool = "get_evidence" /\ x[1] = "rule" /\ x[2] = q.target /\ x[4] = 0
       /\ x[3] \in Rules /\ evidence[x[2]][x[3]] # {}
    \/ /\ q.tool \notin {"list_policies", "get_evidence"} /\ MatchesWorkload(q, x[2])
       /\ x \in SampleRows(q, x[2]) \cup AggregateRows(q, x[2], status)

Chosen(q, x) == q.tool = "get_evidence" => x[3] \in q.rules

ListingFacts ==
    \A q \in Requests : \A status :
        /\ Numbered(q, status) \subseteq Rows /\ IsFiniteSet(Numbered(q, status))
        /\ Comparable(Numbered(q, status)) /\ Present(q, status) \subseteq Numbered(q, status)
        /\ \A x \in Rows : x \in Numbered(q, status) <=> Listed(q, status, x)
        /\ \A x \in Numbered(q, status) : x \in Present(q, status) <=> Chosen(q, x)

\* A row is in a listing when the files hold it, whichever tool lists it.
LEMMA ListingMembers ==
    ASSUME FilesTyped, NEW q \in Requests, NEW status
    PROVE  /\ Numbered(q, status) \subseteq Rows
           /\ \A x \in Rows : x \in Numbered(q, status) <=> Listed(q, status, x)
           /\ \A x \in Numbered(q, status) : x \in Present(q, status) <=> Chosen(q, x)
<1> DEFINE U == Numbered(q, status)
           P == Present(q, status)
<1>0. U \subseteq Rows
  <2>1. Items(q, status) = Items(q, status)
    OBVIOUS
  <2> QED BY <2>1, ItemsFacts
<1>1. CASE q.tool = "list_policies"
  <2>1. U = P
    BY <1>1 DEF Numbered
  <2>2. P = {<<"policy", w, 0, 0>> : w \in policies \ Unreadable}
    BY <1>1 DEF Present
  <2>3. ASSUME NEW x \in Rows PROVE x \in U <=> Listed(q, status, x)
    <3>1. x = <<x[1], x[2], x[3], x[4]>>
      BY DEF Rows
    <3>2. x \in U <=> \E w \in policies \ Unreadable : x = <<"policy", w, 0, 0>>
      BY <2>1, <2>2
    <3>3. Listed(q, status, x) <=> x[1] = "policy" /\ x[3] = 0 /\ x[4] = 0 /\ x[2] \in policies \ Unreadable
      BY <1>1 DEF Listed
    <3> HIDE DEF U
    <3> QED BY <3>1, <3>2, <3>3
  <2>4. \A x : Chosen(q, x)
    BY <1>1 DEF Chosen
  <2> QED BY <1>0, <2>1, <2>3, <2>4
<1>2. CASE q.tool = "get_evidence"
  <2>1. U = {<<"rule", q.target, r, 0>> : r \in {s \in Rules : evidence[q.target][s] # {}}}
    BY <1>2 DEF Numbered
  <2>2. P = {<<"rule", q.target, r, 0>> : r \in {s \in q.rules : evidence[q.target][s] # {}}}
    BY <1>2 DEF Present
  <2>3. q.rules \subseteq Rules
    BY RequestsAssumption
  <2>4. \A x : Listed(q, status, x) <=> /\ x[1] = "rule" /\ x[2] = q.target /\ x[4] = 0
                                        /\ x[3] \in Rules /\ evidence[x[2]][x[3]] # {}
    BY <1>2 DEF Listed
  <2>5. ASSUME NEW x \in Rows
        PROVE  /\ x \in U <=> x[1] = "rule" /\ x[2] = q.target /\ x[4] = 0
                              /\ x[3] \in Rules /\ evidence[q.target][x[3]] # {}
               /\ x \in P <=> x[1] = "rule" /\ x[2] = q.target /\ x[4] = 0
                              /\ x[3] \in q.rules /\ evidence[q.target][x[3]] # {}
    <3>1. x = <<x[1], x[2], x[3], x[4]>>
      BY DEF Rows
    <3>2. x \in U <=> \E r \in Rules : evidence[q.target][r] # {} /\ x = <<"rule", q.target, r, 0>>
      BY <2>1
    <3>3. x \in P <=> \E r \in q.rules : evidence[q.target][r] # {} /\ x = <<"rule", q.target, r, 0>>
      BY <2>2
    <3> DEFINE w == q.target
               R == q.rules
    <3> HIDE DEF U, P, w, R
    <3>4. /\ x \in U <=> \E r \in Rules : evidence[w][r] # {} /\ x = <<"rule", w, r, 0>>
          /\ x \in P <=> \E r \in R : evidence[w][r] # {} /\ x = <<"rule", w, r, 0>>
      BY <3>2, <3>3 DEF w, R
    <3>5. /\ x \in U <=> x[1] = "rule" /\ x[2] = w /\ x[4] = 0 /\ x[3] \in Rules /\ evidence[w][x[3]] # {}
          /\ x \in P <=> x[1] = "rule" /\ x[2] = w /\ x[4] = 0 /\ x[3] \in R /\ evidence[w][x[3]] # {}
      BY <3>1, <3>4
    <3> QED BY <3>5 DEF w, R
  <2>6. \A x : Chosen(q, x) <=> x[3] \in q.rules
    BY <1>2 DEF Chosen
  <2>7. \A x \in Rows : x \in U <=> Listed(q, status, x)
    BY <2>4, <2>5
  <2>8. \A x \in U : x \in P <=> Chosen(q, x)
    BY <1>0, <2>3, <2>5, <2>6
  <2> QED BY <1>0, <2>7, <2>8
<1>3. CASE q.tool \notin {"list_policies", "get_evidence"}
  <2>1. U = P
    BY <1>3 DEF Numbered
  <2>2. \A x : x \in P <=> \E w \in Workloads : /\ MatchesWorkload(q, w)
                                               /\ x \in SampleRows(q, w) \cup AggregateRows(q, w, status)
    BY <1>3, PresentDropped
  <2>3. \A w, x : x \in SampleRows(q, w) \cup AggregateRows(q, w, status) => x[2] = w
    BY DEF SampleRows, AggregateRows
  <2>4. ASSUME NEW x \in Rows PROVE x \in U <=> Listed(q, status, x)
    <3>1. Listed(q, status, x) <=> MatchesWorkload(q, x[2])
                                   /\ x \in SampleRows(q, x[2]) \cup AggregateRows(q, x[2], status)
      BY <1>3 DEF Listed
    <3>2. x[2] \in Workloads
      BY DEF Rows
    <3> HIDE DEF U, P
    <3> QED BY <2>1, <2>2, <2>3, <3>1, <3>2
  <2>5. \A x : Chosen(q, x)
    BY <1>3 DEF Chosen
  <2> QED BY <1>0, <2>1, <2>4, <2>5
<1> QED BY <1>1, <1>2, <1>3

\* A listing is finite.
LEMMA NumberedFinite ==
    ASSUME FilesTyped, NEW q \in Requests, NEW status
    PROVE  IsFiniteSet(Numbered(q, status))
<1>1. CASE q.tool = "get_evidence"
  <2> DEFINE T == {s \in Rules : evidence[q.target][s] # {}}
             U == Numbered(q, status)
             w == q.target
             f == [r \in T |-> <<"rule", w, r, 0>>]
  <2>1. U = {<<"rule", w, r, 0>> : r \in T}
    BY <1>1 DEF Numbered
  <2>2. IsFiniteSet(T)
    BY <1>1, RequestsAssumption DEF FilesTyped
  <2> HIDE DEF T, U, w
  <2>3. f \in Surjection(T, U)
    BY <2>1 DEF Surjection
  <2> QED BY <2>2, <2>3, FS_Surjection DEF U
<1>2. CASE q.tool # "get_evidence"
  BY <1>2, PresentFinite DEF Numbered
<1> QED BY <1>1, <1>2

\* The rows of a workload in a listing are all ordered.
LEMMA NumberedComparable ==
    ASSUME FilesTyped, NEW q \in Requests, NEW status
    PROVE  Comparable(Numbered(q, status))
<1> SUFFICES ASSUME NEW x \in Numbered(q, status), NEW y \in Numbered(q, status), x[2] = y[2], x # y
             PROVE  RowLess(x, y) \/ RowLess(y, x)
  BY DEF Comparable
<1>1. x \in Rows /\ y \in Rows /\ Listed(q, status, x) /\ Listed(q, status, y)
  BY ListingMembers
<1>2. /\ x = <<x[1], x[2], x[3], x[4]>> /\ y = <<y[1], y[2], y[3], y[4]>>
      /\ x[3] \in Nat /\ x[4] \in Nat /\ y[3] \in Nat /\ y[4] \in Nat
  BY <1>1 DEF Rows
<1>3. \/ x[1] = y[1]
      \/ x[1] = "sample" /\ y[1] # "sample"
      \/ y[1] = "sample" /\ x[1] # "sample"
  <2>1. \A w, z : /\ z \in SampleRows(q, w) => z[1] = "sample"
                  /\ z \in AggregateRows(q, w, status) => z[1] = "aggregate"
    BY DEF SampleRows, AggregateRows
  <2> QED BY <1>1, <2>1 DEF Listed
<1>4. x[1] = y[1] => x[3] # y[3] \/ x[4] # y[4]
  BY <1>2
<1> QED BY <1>2, <1>3, <1>4 DEF RowLess

\* The facts about listings hold of all typed files.
LEMMA Listings == FilesTyped => ListingFacts
<1> SUFFICES ASSUME FilesTyped, NEW q \in Requests, NEW status
             PROVE  /\ Numbered(q, status) \subseteq Rows /\ IsFiniteSet(Numbered(q, status))
                    /\ Comparable(Numbered(q, status)) /\ Present(q, status) \subseteq Numbered(q, status)
                    /\ \A x \in Rows : x \in Numbered(q, status) <=> Listed(q, status, x)
                    /\ \A x \in Numbered(q, status) : x \in Present(q, status) <=> Chosen(q, x)
  BY DEF ListingFacts
<1>1. Present(q, status) \subseteq Numbered(q, status)
  <2>1. Items(q, status) = Items(q, status)
    OBVIOUS
  <2> QED BY <2>1, ItemsFacts
<1> QED BY <1>1, ListingMembers, NumberedFinite, NumberedComparable

\* Aggregates come last in their workload: rows before them keep their place when they come or go.
LEMMA AggregatesApart ==
    ASSUME NEW U \in SUBSET Rows, IsFiniteSet(U), Comparable(U), NEW P \in SUBSET U,
           NEW V \in SUBSET Rows, IsFiniteSet(V), NEW Q \in SUBSET V,
           NEW G, IsFiniteSet(G), NEW B, IsFiniteSet(B), NEW a \in Nat \X Nat,
           \A y \in Rows : y[1] = "sample" => (y \in U <=> y \in V),
           \A x \in Q \cap (B \cup G) : x \in P /\ x[1] = "sample"
    PROVE  /\ Cardinality(Crossed(V, Q, G, a)) <= Cardinality(Crossed(U, P, G, a))
           /\ Cardinality(Missed(V, Q, B, G, a)) <= Cardinality(Missed(U, P, B, G, a))
<1>1. ASSUME NEW x \in Q \cap (B \cup G) PROVE Preceding(U, x) = Preceding(V, x)
  <2>1. x[1] = "sample"
    OBVIOUS
  <2>2. \A y \in Rows : RowLess(y, x) => y[1] = "sample"
    BY <2>1 DEF RowLess
  <2>3. \A y : y \in Preceding(U, x) <=> y \in Preceding(V, x)
    BY <2>2 DEF Preceding
  <2> QED BY <2>3
<1> DEFINE I == {}
<1>2. IsFiniteSet(I) /\ Cardinality(I) = 0 /\ Cardinality(I) <= 1
  BY FS_EmptySet
<1>3. \A x \in Q \cap G : x \in P /\ Preceding(V, x) \subseteq Preceding(U, x) \cup I
  BY <1>1
<1>4. \A x \in Q \cap B : x \in P /\ Preceding(U, x) \subseteq Preceding(V, x) \cup I
  BY <1>1
<1> HIDE DEF I
<1>5. Cardinality(Crossed(V, Q, G, a)) <= Cardinality(Crossed(U, P, G, a)) + Cardinality(I)
  BY <1>2, <1>3, CrossUp
<1>6. Cardinality(Missed(V, Q, B, G, a)) <= Cardinality(Missed(U, P, B, G, a)) + Cardinality(I)
  BY <1>2, <1>4, CrossDown
<1>7. Cardinality(Crossed(U, P, G, a)) \in Nat /\ Cardinality(Missed(U, P, B, G, a)) \in Nat
  BY FS_Subset, FS_CardinalityType DEF Crossed, Missed
<1> QED BY <1>2, <1>5, <1>6, <1>7

\* The positions of a sequence whose element has occurred before.
Again(s) == {i \in DOMAIN s : \E j \in 1..(i - 1) : s[j] = s[i]}

\* g is s, then h.
Joined(g, s, h) ==
    /\ Len(g) = Len(s) + Len(h)
    /\ \A i \in 1..Len(s) : g[i] = s[i]
    /\ \A i \in 1..Len(h) : g[Len(s) + i] = h[i]

Distinct(h) == \A i, j \in 1..Len(h) : h[i] = h[j] => i = j

\* Appending distinct rows repeats those that were there.
LEMMA AgainGrows ==
    ASSUME NEW s, IsSeq(s), NEW h, IsSeq(h), Distinct(h), NEW g, IsSeq(g), Joined(g, s, h)
    PROVE  /\ IsFiniteSet(Again(s)) /\ IsFiniteSet(Again(g))
           /\ Cardinality(Again(g)) <= Cardinality(Again(s)) + Cardinality(ToSet(h) \cap ToSet(s))
           /\ ToSet(g) = ToSet(s) \cup ToSet(h)
<1>0. /\ Len(g) = Len(s) + Len(h)
      /\ \A i \in 1..Len(s) : g[i] = s[i]
      /\ \A i \in 1..Len(h) : g[Len(s) + i] = h[i]
      /\ \A i, j \in 1..Len(h) : h[i] = h[j] => i = j
  BY DEF Joined, Distinct
<1> DEFINE n == Len(s)
           m == Len(h)
           S == ToSet(s)
           T == ToSet(h)
           F == {i \in (n + 1)..(n + m) : g[i] \in S}
           f == [i \in F |-> g[i]]
<1>1. /\ n \in Nat /\ DOMAIN s = 1..n /\ \A i \in 1..n : s[i] \in S
      /\ \A x \in S : \E i \in 1..n : s[i] = x
  BY SeqFacts
<1>2. /\ m \in Nat /\ DOMAIN h = 1..m /\ \A i \in 1..m : h[i] \in T
      /\ \A x \in T : \E i \in 1..m : h[i] = x
  BY SeqFacts
<1>3. /\ DOMAIN g = 1..(n + m) /\ \A i \in 1..(n + m) : g[i] \in ToSet(g)
      /\ \A x \in ToSet(g) : \E i \in 1..(n + m) : g[i] = x
  <2>1. /\ DOMAIN g = 1..Len(g) /\ \A i \in 1..Len(g) : g[i] \in ToSet(g)
        /\ \A x \in ToSet(g) : \E i \in 1..Len(g) : g[i] = x
    BY SeqFacts
  <2> QED BY <1>0, <2>1
<1>4. /\ \A i \in 1..n : g[i] = s[i]
      /\ \A i \in 1..m : g[n + i] = h[i]
      /\ \A i, j \in 1..m : h[i] = h[j] => i = j
  BY <1>0
<1>5. IsFiniteSet(S) /\ IsFiniteSet(T)
  BY ToSetFinite
<1> HIDE DEF n, m, S, T
<1>6. \A i \in (n + 1)..(n + m) : i - n \in 1..m /\ g[i] = h[i - n]
  <2> SUFFICES ASSUME NEW i \in (n + 1)..(n + m) PROVE i - n \in 1..m /\ g[i] = h[i - n]
    OBVIOUS
  <2>1. i - n \in 1..m /\ n + (i - n) = i
    BY <1>1, <1>2
  <2>2. g[n + (i - n)] = h[i - n]
    BY <1>4, <2>1
  <2> QED BY <2>1, <2>2
<1>7. \A i \in F : f[i] \in T \cap S
  BY <1>2, <1>6
<1>8. ASSUME NEW i \in F, NEW j \in F, f[i] = f[j] PROVE i = j
  <2>1. h[i - n] = h[j - n] /\ i - n \in 1..m /\ j - n \in 1..m
    BY <1>6, <1>8
  <2>2. i - n = j - n
    BY <1>4, <2>1
  <2> QED BY <1>1, <2>2
<1>9. f \in [F -> T \cap S]
  BY <1>7
<1>10. IsFiniteSet(F) /\ Cardinality(F) <= Cardinality(T \cap S)
  <2>1. IsFiniteSet(T \cap S)
    BY <1>5, FS_Intersection
  <2> HIDE DEF f, F
  <2>2. f \in Injection(F, T \cap S)
    BY <1>8, <1>9, Fun_IsInj
  <2> QED BY <2>1, <2>2, FS_Injection
<1>11. IsFiniteSet(Again(s)) /\ IsFiniteSet(Again(g))
  <2>1. 1 \in Int /\ n \in Int /\ n + m \in Int
    BY <1>1, <1>2
  <2>2. IsFiniteSet(1..n) /\ IsFiniteSet(1..(n + m))
    BY <2>1, FS_Interval, Zenon
  <2>3. Again(s) \subseteq 1..n /\ Again(g) \subseteq 1..(n + m)
    BY <1>1, <1>3 DEF Again
  <2> QED BY <2>2, <2>3, FS_Subset
<1>12. Again(g) \subseteq Again(s) \cup F
  <2> SUFFICES ASSUME NEW i \in Again(g) PROVE i \in Again(s) \cup F
    OBVIOUS
  <2>1. i \in 1..(n + m)
    BY <1>3 DEF Again
  <2>2. PICK j \in 1..(i - 1) : g[j] = g[i]
    BY DEF Again
  <2>3. CASE i <= n
    <3>1. i \in 1..n /\ j \in 1..n
      BY <1>1, <2>1, <2>3
    <3>2. s[j] = s[i]
      BY <1>4, <2>2, <3>1
    <3> QED BY <1>1, <2>2, <3>1, <3>2 DEF Again
  <2>4. CASE ~(i <= n)
    <3>1. i \in (n + 1)..(n + m)
      BY <1>1, <1>2, <2>1, <2>4
    <3>2. CASE j <= n
      <4>1. j \in 1..n
        BY <1>1, <3>2
      <4>2. g[i] \in S
        BY <1>1, <1>4, <2>2, <4>1
      <4> QED BY <3>1, <4>2
    <3>3. CASE ~(j <= n)
      <4>1. j \in (n + 1)..(n + m) /\ j < i
        BY <1>1, <1>2, <2>1, <3>3
      <4>2. h[i - n] = h[j - n] /\ i - n \in 1..m /\ j - n \in 1..m
        BY <1>6, <2>2, <3>1, <4>1
      <4>3. i - n = j - n
        BY <1>4, <4>2
      <4>4. n \in Int /\ i \in Int /\ j \in Int
        BY <1>1, <1>2, <3>1, <4>1
      <4> HIDE DEF F, f
      <4> QED BY ONLY <4>1, <4>3, <4>4
    <3> QED BY <3>2, <3>3
  <2> QED BY <2>3, <2>4
<1> HIDE DEF F, f
<1>13. Cardinality(Again(g)) <= Cardinality(Again(s)) + Cardinality(F)
  <2> DEFINE A == Again(s)
             E == Again(g)
             X == A \cup F
             Y == A \cap F
  <2>1. IsFiniteSet(A) /\ IsFiniteSet(E) /\ IsFiniteSet(F) /\ E \subseteq A \cup F
    BY <1>10, <1>11, <1>12
  <2> HIDE DEF A, E
  <2>2. IsFiniteSet(A \cup F) /\ Cardinality(A \cup F) = Cardinality(A) + Cardinality(F) - Cardinality(A \cap F)
    BY <2>1, FS_Union
  <2>3. IsFiniteSet(A \cap F)
    BY <2>1, FS_Intersection
  <2>4. Cardinality(E) <= Cardinality(A \cup F)
    BY <2>1, <2>2, FS_Subset
  <2>5. /\ Cardinality(A) \in Nat /\ Cardinality(F) \in Nat /\ Cardinality(Y) \in Nat
        /\ Cardinality(E) \in Nat /\ Cardinality(X) \in Nat
    BY <2>1, <2>2, <2>3, FS_CardinalityType
  <2>6. Cardinality(X) = Cardinality(A) + Cardinality(F) - Cardinality(Y) /\ Cardinality(E) <= Cardinality(X)
    BY <2>2, <2>4
  <2> HIDE DEF X, Y
  <2>7. Cardinality(E) <= Cardinality(A) + Cardinality(F)
    BY <2>5, <2>6
  <2> QED BY <2>7 DEF A, E
<1>14. Cardinality(Again(g)) <= Cardinality(Again(s)) + Cardinality(T \cap S)
  <2>1. IsFiniteSet(T \cap S)
    BY <1>5, FS_Intersection
  <2>2. /\ Cardinality(Again(g)) \in Nat /\ Cardinality(Again(s)) \in Nat
        /\ Cardinality(F) \in Nat /\ Cardinality(T \cap S) \in Nat
    BY <1>10, <1>11, <2>1, FS_CardinalityType
  <2> DEFINE x == Cardinality(Again(g))
             y == Cardinality(Again(s))
             z == Cardinality(F)
             u == Cardinality(T \cap S)
  <2>3. x \in Nat /\ y \in Nat /\ z \in Nat /\ u \in Nat /\ z <= u /\ x <= y + z
    BY <1>10, <1>13, <2>2
  <2> HIDE DEF x, y, z, u
  <2>4. x <= y + u
    BY <2>3
  <2> QED BY <2>4 DEF x, y, u
<1>15. ToSet(g) = S \cup T
  <2>1. ASSUME NEW x \in ToSet(g) PROVE x \in S \cup T
    <3>1. PICK i \in 1..(n + m) : g[i] = x
      BY <1>3
    <3>2. CASE i <= n
      <4>1. i \in 1..n
        BY <1>1, <3>2
      <4> QED BY <1>1, <1>4, <3>1, <4>1
    <3>3. CASE ~(i <= n)
      <4>1. i \in (n + 1)..(n + m)
        BY <1>1, <1>2, <3>3
      <4> QED BY <1>2, <1>6, <3>1, <4>1
    <3> QED BY <3>2, <3>3
  <2>2. ASSUME NEW x \in S PROVE x \in ToSet(g)
    <3>1. PICK i \in 1..n : s[i] = x
      BY <1>1
    <3>2. i \in 1..(n + m)
      BY <1>1, <1>2
    <3> QED BY <1>3, <1>4, <3>1, <3>2
  <2>3. ASSUME NEW x \in T PROVE x \in ToSet(g)
    <3>1. PICK i \in 1..m : h[i] = x
      BY <1>2
    <3>2. n + i \in 1..(n + m)
      BY <1>1, <1>2
    <3> QED BY <1>3, <1>4, <3>1, <3>2
  <2> QED BY <2>1, <2>2, <2>3
<1> QED BY <1>11, <1>14, <1>15 DEF S, T

\* The budget of a listing under way: what was returned twice or may be, and what was skipped.
Within(U, P, B, G, a, rep, ins, rem) ==
    /\ rep + Cardinality(Crossed(U, P, G, a)) <= ins
    /\ Cardinality(Missed(U, P, B, G, a)) <= rem

\* Both sets of a budget are finite.
LEMMA WithinFinite ==
    ASSUME NEW U, NEW P, NEW B, IsFiniteSet(B), NEW G, IsFiniteSet(G), NEW a
    PROVE  /\ IsFiniteSet(Crossed(U, P, G, a)) /\ Cardinality(Crossed(U, P, G, a)) \in Nat
           /\ IsFiniteSet(Missed(U, P, B, G, a)) /\ Cardinality(Missed(U, P, B, G, a)) \in Nat
BY FS_Subset, FS_CardinalityType DEF Crossed, Missed

\* A row written and a row evicted are paid for by the counts of insertions and removals.
LEMMA WithinShift ==
    ASSUME NEW U \in SUBSET Rows, IsFiniteSet(U), Comparable(U), NEW P \in SUBSET U,
           NEW V \in SUBSET Rows, IsFiniteSet(V), NEW Q \in SUBSET V,
           NEW G, IsFiniteSet(G), NEW B, IsFiniteSet(B), NEW a \in Nat \X Nat,
           NEW I, IsFiniteSet(I), Cardinality(I) <= 1, NEW D, IsFiniteSet(D), Cardinality(D) <= 1,
           V \subseteq U \cup I, U \subseteq V \cup D,
           \A x \in Q \cap (B \cup G) : x \in P,
           NEW rep \in Nat, NEW ins \in Nat, NEW rem \in Nat, Within(U, P, B, G, a, rep, ins, rem),
           NEW ins2 \in Nat, ins2 >= ins + Cardinality(I), NEW rem2 \in Nat, rem2 >= rem + Cardinality(D)
    PROVE  Within(V, Q, B, G, a, rep, ins2, rem2)
<1> DEFINE c == Cardinality(Crossed(U, P, G, a))
           d == Cardinality(Crossed(V, Q, G, a))
           m == Cardinality(Missed(U, P, B, G, a))
           n == Cardinality(Missed(V, Q, B, G, a))
           i == Cardinality(I)
           j == Cardinality(D)
<1>1. d <= c + i /\ n <= m + j
  BY Shift
<1>2. c \in Nat /\ d \in Nat /\ m \in Nat /\ n \in Nat /\ i \in Nat /\ j \in Nat
  BY WithinFinite, FS_CardinalityType
<1>3. rep + c <= ins /\ m <= rem
  BY DEF Within
<1> HIDE DEF c, d, m, n, i, j
<1>4. ins2 >= ins + i /\ rem2 >= rem + j
  BY DEF i, j
<1>5. rep + d <= ins2 /\ n <= rem2
  BY <1>1, <1>2, <1>3, <1>4
<1> QED BY <1>5 DEF Within, d, n

\* Aggregates that come or go cost a listing of samples nothing.
LEMMA WithinApart ==
    ASSUME NEW U \in SUBSET Rows, IsFiniteSet(U), Comparable(U), NEW P \in SUBSET U,
           NEW V \in SUBSET Rows, IsFiniteSet(V), NEW Q \in SUBSET V,
           NEW G, IsFiniteSet(G), NEW B, IsFiniteSet(B), NEW a \in Nat \X Nat,
           \A y \in Rows : y[1] = "sample" => (y \in U <=> y \in V),
           \A x \in Q \cap (B \cup G) : x \in P /\ x[1] = "sample",
           NEW rep \in Nat, NEW ins \in Nat, NEW rem \in Nat, Within(U, P, B, G, a, rep, ins, rem)
    PROVE  Within(V, Q, B, G, a, rep, ins, rem)
<1> DEFINE c == Cardinality(Crossed(U, P, G, a))
           d == Cardinality(Crossed(V, Q, G, a))
           m == Cardinality(Missed(U, P, B, G, a))
           n == Cardinality(Missed(V, Q, B, G, a))
<1>1. d <= c /\ n <= m
  BY AggregatesApart
<1>2. c \in Nat /\ d \in Nat /\ m \in Nat /\ n \in Nat
  BY WithinFinite
<1>3. rep + c <= ins /\ m <= rem
  BY DEF Within
<1> HIDE DEF c, d, m, n
<1>4. rep + d <= ins /\ n <= rem
  BY <1>1, <1>2, <1>3
<1> QED BY <1>4 DEF Within, d, n

\* The rows of one page: those of the listing between the cursor sent and the one returned.
OnPage(U, P, K, after, next) == \A x : x \in K <=> x \in P /\ Inside(Item(U, x), after, next)

\* Reading a page spends the rows it repeats, and leaves the rest of the budget.
LEMMA WithinPage ==
    ASSUME NEW U \in SUBSET Rows, IsFiniteSet(U), NEW P \in SUBSET U,
           NEW G, IsFiniteSet(G), NEW B, IsFiniteSet(B), NEW a \in Nat \X Nat,
           NEW next \in Cursors, NEW K, OnPage(U, P, K, a, next),
           next # None => KeyLess(a, next),
           NEW rep \in Nat, NEW ins \in Nat, NEW rem \in Nat, Within(U, P, B, G, a, rep, ins, rem),
           NEW rep2 \in Nat, rep2 <= rep + Cardinality(K \cap G)
    PROVE  /\ rep2 <= ins
           /\ next # None => Within(U, P, B, G \cup K, next, rep2, ins, rem)
           /\ next = None => Cardinality((B \cap P) \ (G \cup K)) <= rem
<1>0. a # None
  BY RequestsAssumption
<1>1. \A x : x \in K <=> /\ x \in P /\ KeyLess(a, KeyIn(U, x))
                         /\ next = None \/ ~KeyLess(next, KeyIn(U, x))
  <2> SUFFICES ASSUME NEW x
               PROVE  x \in K <=> /\ x \in P /\ KeyLess(a, KeyIn(U, x))
                                  /\ next = None \/ ~KeyLess(next, KeyIn(U, x))
    OBVIOUS
  <2> DEFINE y == Item(U, x)
  <2>1. y.key = KeyIn(U, x)
    BY DEF Item, KeyIn
  <2>2. x \in K <=> x \in P /\ Inside(y, a, next)
    BY DEF OnPage
  <2> HIDE DEF y
  <2>3. Inside(y, a, next) <=> KeyLess(a, KeyIn(U, x)) /\ (next = None \/ ~KeyLess(next, KeyIn(U, x)))
    BY <1>0, <2>1 DEF Inside
  <2> QED BY <2>2, <2>3
<1> DEFINE C == Crossed(U, P, G, a)
           M == Missed(U, P, B, G, a)
           E == Crossed(U, P, G \cup K, next)
           N == Missed(U, P, B, G \cup K, next)
           R == K \cap G
           L == (B \cap P) \ (G \cup K)
<1>2. IsFiniteSet(C) /\ IsFiniteSet(M)
  BY WithinFinite
<1>3. R \subseteq C
  <2> SUFFICES ASSUME NEW x \in R PROVE x \in C
    OBVIOUS
  <2>1. x \in P /\ x \in G /\ KeyLess(a, KeyIn(U, x))
    BY <1>1
  <2> QED BY <2>1 DEF Crossed
<1>4. next = None => L \subseteq M
  BY <1>1 DEF Missed
<1>5. next # None => E \subseteq C \ R /\ N \subseteq M
  <2> SUFFICES ASSUME next # None PROVE E \subseteq C \ R /\ N \subseteq M
    OBVIOUS
  <2>1. next \in Nat \X Nat
    BY DEF Cursors
  <2>2. ASSUME NEW x \in E PROVE x \in C \ R
    <3>1. x \in P /\ x \in G \cup K /\ KeyLess(next, KeyIn(U, x))
      BY DEF Crossed
    <3>2. x \notin K
      BY <1>1, <2>1, <3>1, RequestsAssumption
    <3>3. KeyIn(U, x) \in Nat \X Nat
      BY <3>1, KeyInFacts
    <3>4. KeyLess(a, KeyIn(U, x))
      BY <2>1, <3>1, <3>3, KeyLessFacts
    <3> QED BY <3>1, <3>2, <3>4 DEF Crossed
  <2>3. ASSUME NEW x \in N PROVE x \in M
    <3>1. x \in B \cap P /\ x \notin G /\ x \notin K /\ ~KeyLess(next, KeyIn(U, x))
      BY DEF Missed
    <3>2. ~KeyLess(a, KeyIn(U, x))
      BY <1>1, <3>1
    <3> QED BY <3>1, <3>2 DEF Missed
  <2> QED BY <2>2, <2>3
<1> HIDE DEF C, M, E, N, R, L
<1>6. IsFiniteSet(R) /\ IsFiniteSet(C \ R)
  BY <1>2, <1>3, FS_Subset, FS_Difference
<1>7. Cardinality(C \ R) = Cardinality(C) - Cardinality(R)
  <2>1. Cardinality(C \ R) = Cardinality(C) - Cardinality(C \cap R)
    BY <1>2, FS_Difference
  <2>2. C \cap R = R
    BY <1>3
  <2> QED BY <2>1, <2>2
<1>8. next # None => Cardinality(E) <= Cardinality(C \ R) /\ Cardinality(N) <= Cardinality(M)
  BY <1>2, <1>5, <1>6, FS_Subset
<1>9. next = None => Cardinality(L) <= Cardinality(M)
  BY <1>2, <1>4, FS_Subset
<1> DEFINE c == Cardinality(C)
           m == Cardinality(M)
           e == Cardinality(E)
           n == Cardinality(N)
           r == Cardinality(R)
           l == Cardinality(L)
           k == Cardinality(C \ R)
<1>10. c \in Nat /\ m \in Nat /\ r \in Nat /\ k \in Nat
  BY <1>2, <1>6, FS_CardinalityType
<1>11. next # None => e \in Nat /\ n \in Nat
  BY <1>2, <1>5, <1>6, FS_Subset, FS_CardinalityType
<1>12. next = None => l \in Nat
  BY <1>2, <1>4, FS_Subset, FS_CardinalityType
<1>13. rep + c <= ins /\ m <= rem
  BY DEF Within, C, M
<1>14. /\ k = c - r /\ (next # None => e <= k /\ n <= m) /\ (next = None => l <= m)
  BY <1>7, <1>8, <1>9
<1>15. rep2 <= rep + r
  BY DEF R
<1> HIDE DEF c, m, e, n, r, l, k
<1>16. rep2 <= ins
  BY <1>10, <1>13, <1>14, <1>15
<1>17. next # None => rep2 + e <= ins /\ n <= rem
  BY <1>10, <1>11, <1>13, <1>14, <1>15
<1>18. next = None => l <= rem
  BY <1>10, <1>12, <1>13, <1>14
<1> QED BY <1>16, <1>17, <1>18 DEF Within, e, n, l, E, N, L

\* The first page starts a listing with nothing repeated and nothing skipped.
LEMMA WithinFirst ==
    ASSUME NEW U \in SUBSET Rows, NEW P \in SUBSET U, NEW next \in Cursors,
           NEW K, OnPage(U, P, K, None, next), NEW ins \in Nat, NEW rem \in Nat
    PROVE  /\ next # None => Within(U, P, P, K, next, 0, ins, rem)
           /\ next = None => Cardinality(P \ K) <= rem
<1>1. \A x : x \in K <=> x \in P /\ (next = None \/ ~KeyLess(next, KeyIn(U, x)))
  <2>1. \A x : Item(U, x).key = KeyIn(U, x)
    BY DEF Item, KeyIn
  <2> QED BY <2>1 DEF OnPage, Inside
<1>2. next # None => Crossed(U, P, K, next) = {} /\ Missed(U, P, P, K, next) = {}
  BY <1>1 DEF Crossed, Missed
<1>3. next = None => P \ K = {}
  BY <1>1
<1>4. Cardinality({}) = 0
  BY FS_EmptySet
<1> QED BY <1>2, <1>3, <1>4 DEF Within

\* capSamples drops at most one sample of a rule that one sample was added to.
LEMMA NewestDrops ==
    ASSUME NEW S \in SUBSET Nat, IsFiniteSet(S), S # {}, Cardinality(S) <= MaxSamples + 1,
           NEW N, N = Newest(S)
    PROVE  N # {} /\ \A x, y \in S \ N : x = y
<1>0. MaxSamples \in Nat
  BY NumbersAssumption
<1>1. ASSUME NEW x \in S \ N, NEW y \in S \ N, x < y PROVE FALSE
  <2> DEFINE A == {u \in S : u > x}
             B == {u \in S : u > y}
  <2>1. IsFiniteSet(A) /\ IsFiniteSet(B)
    BY FS_Subset
  <2>2. Cardinality(A) \in Nat /\ Cardinality(B) \in Nat /\ Cardinality(S) \in Nat
    BY <2>1, FS_CardinalityType
  <2>3. ~(Cardinality(A) < MaxSamples) /\ ~(Cardinality(B) < MaxSamples)
    BY DEF Newest
  <2>4. x \in S /\ x \notin A /\ A \subseteq S
    BY <1>1
  <2>5. y \in A /\ y \notin B /\ B \subseteq A
    <3>1. x \in Nat /\ y \in Nat /\ \A u \in S : u \in Nat
      OBVIOUS
    <3>2. \A u \in S : u > y => u > x
      BY <1>1, <3>1
    <3>3. y \in A
      BY <1>1, <3>1
    <3>4. y \notin B
      BY <3>1
    <3>5. B \subseteq A
      BY <3>2
    <3> QED BY <3>3, <3>4, <3>5
  <2> HIDE DEF A, B
  <2>6. Cardinality(A) < Cardinality(S)
    BY <2>4, Fewer
  <2>7. Cardinality(B) < Cardinality(A)
    BY <2>1, <2>5, Fewer
  <2> DEFINE a == Cardinality(A)
             b == Cardinality(B)
             s == Cardinality(S)
  <2>8. /\ a \in Nat /\ b \in Nat /\ s \in Nat /\ ~(a < MaxSamples) /\ ~(b < MaxSamples)
        /\ a < s /\ b < a /\ s <= MaxSamples + 1
    BY <2>2, <2>3, <2>6, <2>7
  <2> HIDE DEF a, b, s
  <2> QED BY <1>0, <2>8
<1>2. \A x, y \in S \ N : x = y
  <2> SUFFICES ASSUME NEW x \in S \ N, NEW y \in S \ N PROVE x = y
    OBVIOUS
  <2>1. x \in Nat /\ y \in Nat /\ ~(x < y) /\ ~(y < x)
    BY <1>1
  <2> QED BY <2>1
<1>3. ASSUME N = {} PROVE FALSE
  <2>1. PICK t \in S : TRUE
    OBVIOUS
  <2>2. \A x \in S : x = t
    BY <1>2, <1>3, <2>1
  <2>3. S = {t}
    BY <2>1, <2>2
  <2>4. N = {t}
    BY <2>3, NewestFacts
  <2> QED BY <1>3, <2>4
<1> QED BY <1>2, <1>3

\* A new sample may enter a rule's samples, and one may leave them; the first one enters.
OneForOne(O, N, t) ==
    /\ O \subseteq used /\ t \notin used /\ N # {} /\ N \subseteq O \cup {t}
    /\ IsFiniteSet(N \ O) /\ Cardinality(N \ O) \in Nat /\ Cardinality(N \ O) <= 1
    /\ IsFiniteSet(O \ N) /\ Cardinality(O \ N) \in Nat /\ Cardinality(O \ N) <= 1
    /\ O = {} => Cardinality(N \ O) = 1

\* What one flow does to the samples of its rule: at most one comes, at most one goes.
LEMMA EvidenceDrift ==
    ASSUME FilesTyped, NEW w \in Workloads, NEW r \in Rules, NEW t \in Times, WriteEvidence(w, r, t),
           NEW N, N = Newest(evidence[w][r] \cup {t})
    PROVE  OneForOne(evidence[w][r], N, t)
<1> DEFINE O == evidence[w][r]
           S == O \cup {t}
<1>1. N \subseteq O \cup {t} /\ IsFiniteSet(N) /\ IsFiniteSet(O) /\ (O = {} => N = {t})
  BY EvidenceStep
<1>2. O \subseteq used /\ O \subseteq Times /\ Cardinality(O) <= MaxSamples
  BY DEF FilesTyped
<1>3. t \notin used
  BY DEF WriteEvidence
<1>4. S \in SUBSET Nat
  BY <1>2, NumbersAssumption
<1>5. IsFiniteSet(S) /\ Cardinality(S) = Cardinality(O) + 1
  <2>1. IsFiniteSet(S) /\ Cardinality(S) = IF t \in O THEN Cardinality(O) ELSE Cardinality(O) + 1
    BY <1>1, FS_AddElement, Zenon
  <2> QED BY <1>2, <1>3, <2>1
<1>6. Cardinality(S) <= MaxSamples + 1
  <2>1. Cardinality(O) \in Nat /\ MaxSamples \in Nat
    BY <1>1, FS_CardinalityType, NumbersAssumption
  <2> QED BY <1>2, <1>5, <2>1
<1>7. S # {} /\ N = Newest(S) /\ t \in S /\ O \subseteq S
  OBVIOUS
<1> HIDE DEF S, O
<1>8. N # {} /\ \A x, y \in S \ N : x = y
  BY <1>4, <1>5, <1>6, <1>7, NewestDrops
<1>9. IsFiniteSet({}) /\ Cardinality({}) = 0
  BY FS_EmptySet
<1>10. IsFiniteSet(O \ N) /\ Cardinality(O \ N) \in Nat /\ Cardinality(O \ N) <= 1
  <2> DEFINE R == O \ N
  <2>1. IsFiniteSet(R) /\ Cardinality(R) \in Nat
    BY <1>1, FS_Difference, FS_CardinalityType
  <2>2. \A x, y \in R \ {} : x = y
    BY <1>7, <1>8
  <2> HIDE DEF R
  <2>3. Cardinality(R) <= Cardinality({}) + 1
    BY <1>9, <2>1, <2>2, OneMore
  <2> QED BY <1>9, <2>1, <2>3 DEF R
<1>11. IsFiniteSet(N \ O) /\ Cardinality(N \ O) \in Nat /\ Cardinality(N \ O) <= 1
  <2> DEFINE R == N \ O
  <2>1. IsFiniteSet(R) /\ Cardinality(R) \in Nat
    BY <1>1, FS_Difference, FS_CardinalityType
  <2>2. \A x, y \in R \ {} : x = y
    BY <1>1
  <2> HIDE DEF R
  <2>3. Cardinality(R) <= Cardinality({}) + 1
    BY <1>9, <2>1, <2>2, OneMore
  <2> QED BY <1>9, <2>1, <2>3 DEF R
<1>12. O = {} => Cardinality(N \ O) = 1
  <2> SUFFICES ASSUME O = {} PROVE Cardinality(N \ O) = 1
    OBVIOUS
  <2>1. N \ O = {t}
    BY <1>1
  <2>2. Cardinality({t}) = 1
    BY FS_Singleton
  <2> QED BY <2>1, <2>2
<1> QED BY <1>1, <1>2, <1>3, <1>8, <1>10, <1>11, <1>12 DEF O, OneForOne

SamplesAt(w, r, T) == {<<"sample", w, r, u>> : u \in T}

\* The rows of some samples of one rule are as many as the samples.
LEMMA SampleCount ==
    ASSUME NEW T, IsFiniteSet(T), NEW w, NEW r
    PROVE  IsFiniteSet(SamplesAt(w, r, T)) /\ Cardinality(SamplesAt(w, r, T)) = Cardinality(T)
<1> DEFINE R == SamplesAt(w, r, T)
<1>0. R = {<<"sample", w, r, u>> : u \in T}
  BY DEF SamplesAt
<1> HIDE DEF R
<1> DEFINE f == [u \in T |-> <<"sample", w, r, u>>]
<1>1. \A u \in T : f[u] \in R
  BY <1>0
<1>2. \A u, v \in T : f[u] = f[v] => u = v
  OBVIOUS
<1>3. \A x \in R : \E u \in T : f[u] = x
  BY <1>0
<1>4. f = [u \in T |-> f[u]]
  OBVIOUS
<1> HIDE DEF f
<1>5. Cardinality(R) = Cardinality(T)
  BY <1>1, <1>2, <1>3, <1>4, SameCount
<1>6. f \in Surjection(T, R)
  BY <1>1, <1>3, <1>4 DEF Surjection
<1> QED BY <1>5, <1>6, FS_Surjection DEF R

-----------------------------------------------------------------------------
(* Drift.                                                                  *)

\* A page has been answered and there are more.
Midway == call.pc \in {"resolved", "paged"} /\ call.after # None

\* What is known of a row the client has seen, whatever happened since.
Kept(x) ==
    /\ x \in Rows
    /\ x[1] = "sample" => x[4] \in used
    /\ x[1] = "aggregate" => pipeline # "running" /\ call.status.state # "capturing"
    /\ x[1] = "policy" /\ ~purged => x[2] \in policies
    /\ x[1] = "rule" /\ ~purged => x[3] \in Rules /\ evidence[x[2]][x[3]] # {}

Remembered ==
    /\ call.pc = "idle" => call.after = None
    /\ call.pc \in {"idle", "resolved"} /\ call.after = None => base = {} /\ got = <<>>
    /\ call.pc = "paged" => call.after # None
    /\ Midway => base # {}
    /\ call.pc # "idle" => call.status.state \in {state, "capturing"}
    /\ pipeline = "running" => report = {}
    /\ \A x \in base \cup ToSet(got) : Kept(x)

\* Listings, after a step.
LEMMA ListingsNext == FilesTyped' => ListingFacts'
BY Listings, PTL

\* A row a request is about is in the files.
LEMMA PresentKept ==
    ASSUME FilesTyped, NEW q \in Requests, NEW status, NEW x \in Present(q, status)
    PROVE  /\ x \in Rows
           /\ x[1] = "sample" => x[4] \in used
           /\ x[1] = "aggregate" => status # "capturing" /\ report # {}
           /\ x[1] = "policy" => x[2] \in policies
           /\ x[1] = "rule" => x[3] \in Rules /\ evidence[x[2]][x[3]] # {}
<1>1. x \in Rows /\ Listed(q, status, x)
  BY Listings DEF ListingFacts
<1>2. x[2] \in Workloads
  BY <1>1 DEF Rows
<1>3. x \in SampleRows(q, x[2]) => x[1] = "sample" /\ x[4] \in used
  BY <1>2 DEF SampleRows, FilesTyped
<1>4. x \in AggregateRows(q, x[2], status) => x[1] = "aggregate" /\ status # "capturing" /\ report # {}
  BY DEF AggregateRows
<1> QED BY <1>1, <1>3, <1>4 DEF Listed

\* Steps that leave the client alone and lose no file, except by a purge.
LEMMA RememberedWorld ==
    ASSUME Typed, Remembered, UNCHANGED client, used \subseteq used', purged => purged',
           ~purged' => /\ policies \subseteq policies'
                       /\ \A w \in Workloads, r \in Rules : evidence[w][r] # {} => evidence'[w][r] # {},
           pipeline # "running" => pipeline' # "running", pipeline' = "running" => report' = {},
           state = "stopped" => state' = "stopped"
    PROVE  Remembered'
<1>1. call' = call /\ base' = base /\ got' = got
  BY DEF client
<1>2. ASSUME NEW x \in base \cup ToSet(got) PROVE Kept(x)'
  <2>1. Kept(x)
    BY DEF Remembered
  <2>2. x[2] \in Workloads
    BY <2>1 DEF Kept, Rows
  <2>3. x \in Rows /\ (x[1] = "sample" => x[4] \in used')
    BY <2>1 DEF Kept
  <2>4. x[1] = "aggregate" => pipeline' # "running" /\ call'.status.state # "capturing"
    BY <1>1, <2>1 DEF Kept
  <2>5. x[1] = "policy" /\ ~purged' => x[2] \in policies'
    BY <2>1 DEF Kept
  <2>6. x[1] = "rule" /\ ~purged' => x[3] \in Rules /\ evidence'[x[2]][x[3]] # {}
    BY <2>1, <2>2 DEF Kept
  <2> QED BY <2>3, <2>4, <2>5, <2>6 DEF Kept
<1>3. \A x \in (base \cup ToSet(got))' : Kept(x)'
  BY <1>1, <1>2
<1>4. call.pc # "idle" => call.status.state \in {state', "capturing"}
  BY DEF Remembered, Typed
<1>5. Midway' <=> Midway
  BY <1>1 DEF Midway
<1> QED BY <1>1, <1>3, <1>4, <1>5 DEF Remembered

\* The client has seen nothing.
LEMMA RememberedInit == Init => Remembered
<1> SUFFICES ASSUME Init PROVE Remembered
  OBVIOUS
<1>1. base \cup ToSet(got) = {}
  BY EmptyIsSeq DEF Init
<1>2. call.pc = "idle" /\ call.after = None /\ base = {} /\ got = <<>> /\ report = {}
  BY DEF Init
<1> QED BY <1>1, <1>2 DEF Remembered, Midway

\* A page adds its rows to those received.
LEMMA PageRows ==
    ASSUME NEW s, IsSeq(s), NEW page, IsSeq(page), NEW P, \A x \in ToSet(page) : x.row \in P,
           NEW g, IsSeq(g), Appended(g, s, page)
    PROVE  ToSet(g) \subseteq ToSet(s) \cup P
<1>1. /\ Len(g) = Len(s) + Len(page)
      /\ \A i \in 1..Len(s) : g[i] = s[i]
      /\ \A i \in 1..Len(page) : g[Len(s) + i] = page[i].row
  BY DEF Appended
<1>2. /\ Len(s) \in Nat /\ Len(page) \in Nat
      /\ \A i \in 1..Len(s) : s[i] \in ToSet(s)
      /\ \A i \in 1..Len(page) : page[i] \in ToSet(page)
  BY SeqFacts
<1> SUFFICES ASSUME NEW x \in ToSet(g) PROVE x \in ToSet(s) \cup P
  OBVIOUS
<1>3. PICK i \in 1..Len(g) : g[i] = x
  BY <1>1, SeqFacts
<1>4. CASE i <= Len(s)
  <2>1. i \in 1..Len(s)
    BY <1>2, <1>4
  <2> QED BY <1>1, <1>2, <1>3, <2>1
<1>5. CASE ~(i <= Len(s))
  <2> DEFINE j == i - Len(s)
  <2>1. j \in 1..Len(page) /\ i = Len(s) + j
    BY <1>1, <1>2, <1>5
  <2> HIDE DEF j
  <2>2. x = page[j].row /\ page[j] \in ToSet(page)
    BY <1>1, <1>2, <1>3, <2>1
  <2> QED BY <2>2
<1> QED BY <1>4, <1>5

\* What the client has seen stays known.
LEMMA RememberedStep == Typed /\ Remembered /\ [Next]_vars => Remembered'
<1> SUFFICES ASSUME Typed, Remembered, [Next]_vars PROVE Remembered'
  OBVIOUS
<1> USE DEF files, session, drift
<1>0. FilesTyped
  BY DEF Typed
<1>1. ASSUME NEW w \in Workloads, WritePolicy(w) PROVE Remembered'
  <2>1. /\ policies \subseteq policies' /\ pipeline = "running"
        /\ UNCHANGED <<evidence, drops, report, used, session, client>>
    BY <1>1 DEF WritePolicy, Writable
  <2> QED BY <2>1, RememberedWorld DEF Remembered
<1>2. ASSUME NEW w \in Workloads, NEW r \in Rules, NEW t \in Times, WriteEvidence(w, r, t)
      PROVE  Remembered'
  <2> DEFINE O == evidence[w][r]
             N == Newest(O \cup {t})
  <2>1. N # {} /\ \A v \in Workloads, s \in Rules :
              evidence'[v][s] = IF v = w /\ s = r THEN N ELSE evidence[v][s]
    <3>1. O = evidence[w][r] /\ N = Newest(O \cup {t})
      OBVIOUS
    <3> HIDE DEF N
    <3>2. OneForOne(evidence[w][r], N, t)
      BY <1>0, <1>2, <3>1, EvidenceDrift
    <3>3. \A v \in Workloads, s \in Rules :
              evidence'[v][s] = IF v = w /\ s = r THEN N ELSE evidence[v][s]
      BY <1>0, <1>2, <3>1, EvidenceStep
    <3> QED BY <3>2, <3>3 DEF OneForOne
  <2>2. used \subseteq used' /\ UNCHANGED <<policies, drops, report, session, client>>
    BY <1>2 DEF WriteEvidence
  <2> HIDE DEF N
  <2>3. \A v \in Workloads, s \in Rules : evidence[v][s] # {} => evidence'[v][s] # {}
    BY <2>1
  <2> QED BY <2>2, <2>3, RememberedWorld DEF Remembered
<1>3. ASSUME NEW w \in Workloads, NEW reason \in Reasons, Accumulate(w, reason) PROVE Remembered'
  <2>1. UNCHANGED <<policies, evidence, report, used, session, client>>
    BY <1>3 DEF Accumulate
  <2> QED BY <2>1, RememberedWorld DEF Remembered
<1>4. CASE PipelineExits
  <2>1. /\ pipeline' # "running"
        /\ UNCHANGED <<policies, evidence, used, purged, state, client>>
    BY <1>4 DEF PipelineExits
  <2> QED BY <2>1, RememberedWorld
<1>5. CASE StopsByItself
  <2>1. /\ pipeline' # "running" /\ state' = "stopped"
        /\ UNCHANGED <<policies, evidence, used, purged, client>>
    BY <1>5 DEF StopsByItself
  <2> QED BY <2>1, RememberedWorld
<1>6. CASE StopCancels
  <2>1. UNCHANGED <<policies, evidence, report, used, pipeline, purged, state, client>>
    BY <1>6 DEF StopCancels
  <2> QED BY <2>1, RememberedWorld DEF Remembered
<1>7. CASE StopReturns
  <2>1. state' = "stopped" /\ UNCHANGED <<policies, evidence, report, used, pipeline, purged, client>>
    BY <1>7 DEF StopReturns
  <2> QED BY <2>1, RememberedWorld DEF Remembered
<1>8. CASE Purge
  <2>1. purged' /\ report' = {} /\ UNCHANGED <<used, pipeline, state, client>>
    BY <1>8 DEF Purge, client
  <2> QED BY <2>1, RememberedWorld
<1>9. ASSUME NEW q \in Requests, Resolve(q) PROVE Remembered'
  <2> DEFINE st == [state |-> state, failed |-> failed]
             pc == IF purged \/ DecodeCursorFails(q) THEN "error" ELSE "resolved"
  <2>1. /\ call' = [call EXCEPT !.q = q, !.status = st, !.pc = pc]
        /\ UNCHANGED <<files, session, base, got, drift>>
        /\ call.pc \in {"idle", "paged"} /\ pc \in {"error", "resolved"}
    BY <1>9 DEF Resolve
  <2>2. st.state = state
    OBVIOUS
  <2>3. call = [pc |-> call.pc, q |-> call.q, after |-> call.after, status |-> call.status]
    BY DEF Typed
  <2> HIDE DEF st, pc
  <2>4. call' = [pc |-> pc, q |-> q, after |-> call.after, status |-> st]
    BY <2>1, <2>3
  <2>5. call'.pc = pc /\ call'.after = call.after /\ call'.status = st
    BY <2>4
  <2>6. ASSUME NEW x \in base \cup ToSet(got) PROVE Kept(x)'
    <3>1. Kept(x)
      BY DEF Remembered
    <3>2. CASE call.pc = "idle"
      <4>1. base \cup ToSet(got) = {}
        BY <3>2, EmptyIsSeq DEF Remembered
      <4> QED BY <4>1
    <3>3. CASE call.pc = "paged"
      <4>1. call.status.state \in {state, "capturing"}
        BY <3>3 DEF Remembered
      <4>2. x[1] = "aggregate" => pipeline' # "running" /\ call'.status.state # "capturing"
        BY <2>1, <2>2, <2>5, <3>1, <4>1 DEF Kept
      <4>3. UNCHANGED <<used, policies, purged, evidence>>
        BY <2>1
      <4> QED BY <3>1, <4>2, <4>3 DEF Kept
    <3> QED BY <2>1, <3>2, <3>3
  <2>7. \A x \in (base \cup ToSet(got))' : Kept(x)'
    BY <2>1, <2>6
  <2>8. Midway' => base' # {}
    BY <2>1, <2>5 DEF Midway, Remembered
  <2>9. call'.pc \in {"idle", "resolved"} /\ call'.after = None => base' = {} /\ got' = <<>>
    BY <2>1, <2>5 DEF Remembered
  <2> QED BY <2>1, <2>2, <2>5, <2>7, <2>8, <2>9 DEF Remembered
<1>10. ASSUME NEW x, x \notin {"idle", "resolved", "paged"}, call.pc # "idle",
              call' = [call EXCEPT !.pc = x], UNCHANGED <<files, session, base, got, drift>>
       PROVE  Remembered'
  <2>1. call = [pc |-> call.pc, q |-> call.q, after |-> call.after, status |-> call.status]
    BY DEF Typed
  <2>2. call'.pc = x /\ call'.after = call.after /\ call'.status = call.status
    BY <1>10, <2>1
  <2>3. ASSUME NEW y \in base \cup ToSet(got) PROVE Kept(y)'
    <3>1. Kept(y)
      BY DEF Remembered
    <3>2. UNCHANGED <<used, policies, purged, evidence, pipeline>>
      BY <1>10
    <3> QED BY <2>2, <3>1, <3>2 DEF Kept
  <2>4. \A y \in (base \cup ToSet(got))' : Kept(y)'
    BY <1>10, <2>3
  <2> QED BY <1>10, <2>2, <2>4 DEF Remembered, Midway
<1>11. CASE AnswerNotFound
  BY <1>10, <1>11 DEF AnswerNotFound
<1>12. CASE AnswerHealth
  <2> DEFINE x == ClusterHealthBranch(call.status)
  <2>1. call' = [call EXCEPT !.pc = x] /\ UNCHANGED <<files, session, base, got, drift>> /\ call.pc = "resolved"
    BY <1>12 DEF AnswerHealth
  <2>2. x \notin {"idle", "resolved", "paged"}
    BY DEF ClusterHealthBranch
  <2> HIDE DEF x
  <2> QED BY <1>10, <2>1, <2>2
<1>13. CASE AnswerPage
  <2> DEFINE e == Items(call.q, call.status.state)
             p == Paginate(e, call.after, call.q.limit)
             P == Present(call.q, call.status.state)
             U == Numbered(call.q, call.status.state)
  <2>1. /\ call.pc = "resolved" /\ call.q \in Requests
        /\ IsSeq(p.page) /\ ToSet(p.page) \subseteq ToSet(e)
        /\ p.more \in BOOLEAN /\ (p.more <=> p.next # None) /\ (p.more => ToSet(p.page) # {})
        /\ call' = [pc |-> IF p.more THEN "paged" ELSE "done", q |-> call.q,
                    after |-> p.next, status |-> call.status]
        /\ got' = got \o RowsOf(p.page)
        /\ base' = IF call.after = None THEN P ELSE base
        /\ UNCHANGED <<files, session, drift>>
    <3>1. e = Items(call.q, call.status.state) /\ p = Paginate(e, call.after, call.q.limit)
      OBVIOUS
    <3> HIDE DEF e, p
    <3> QED BY ONLY Typed, <1>13, <3>1, AnswerFacts, SMTT(60) DEF files, session, drift
  <2>2. \A x \in ToSet(e) : \E y \in P : x = Item(U, y)
    <3> DEFINE q == call.q
               st == call.status.state
    <3>1. q \in Requests
      BY <2>1
    <3> HIDE DEF q, st
    <3>2. \A x \in ToSet(Items(q, st)) : \E y \in Present(q, st) : x = Item(Numbered(q, st), y)
      BY <1>0, <3>1, ItemsFacts
    <3> QED BY <3>2 DEF q, st
  <2>3. \A y \in P : Kept(y)
    <3> DEFINE q == call.q
               st == call.status.state
    <3>1. q \in Requests
      BY <2>1
    <3>2. SUFFICES ASSUME NEW y \in P PROVE Kept(y)
      OBVIOUS
    <3>3. y \in Present(q, st)
      OBVIOUS
    <3> HIDE DEF q, st, P
    <3>4. /\ y \in Rows
          /\ y[1] = "sample" => y[4] \in used
          /\ y[1] = "aggregate" => st # "capturing" /\ report # {}
          /\ y[1] = "policy" => y[2] \in policies
          /\ y[1] = "rule" => y[3] \in Rules /\ evidence[y[2]][y[3]] # {}
      BY <1>0, <3>1, <3>3, PresentKept
    <3>5. report # {} => pipeline # "running"
      BY DEF Remembered
    <3>6. st = call.status.state
      BY DEF st
    <3> QED BY <3>4, <3>5, <3>6 DEF Kept
  <2> HIDE DEF e, U
  <2>4. \A x \in ToSet(p.page) : x.row \in P
    BY <2>1, <2>2 DEF Item
  <2>5. ToSet(got') \subseteq ToSet(got) \cup P
    <3> DEFINE page == p.page
    <3>1. IsSeq(got) /\ IsSeq(page)
      BY <2>1 DEF Typed
    <3>2. got' = got \o RowsOf(page) /\ \A x \in ToSet(page) : x.row \in P
      BY <2>1, <2>4
    <3> DEFINE g == got \o RowsOf(page)
    <3>3. g = got \o RowsOf(page) /\ g = got'
      BY <3>2
    <3> HIDE DEF page, p, P, g
    <3>4. IsSeq(g) /\ Appended(g, got, page)
      BY <3>1, <3>3, GotFacts
    <3>5. ToSet(g) \subseteq ToSet(got) \cup P
      BY <3>1, <3>2, <3>4, PageRows
    <3> QED BY <3>3, <3>5
  <2> DEFINE x == IF p.more THEN "paged" ELSE "done"
             n == p.next
  <2>6. /\ call' = [pc |-> x, q |-> call.q, after |-> n, status |-> call.status]
        /\ x \in {"paged", "done"} /\ (x = "paged" <=> n # None)
        /\ x = "paged" => ToSet(p.page) # {}
    BY <2>1
  <2>7. x = "paged" => P # {}
    BY <2>4, <2>6
  <2> HIDE DEF x, n, p
  <2>8. call'.pc = x /\ call'.after = n /\ call'.status = call.status
    BY <2>6
  <2>9. ASSUME NEW y \in base' \cup ToSet(got') PROVE Kept(y)'
    <3>1. y \in base \cup ToSet(got) \cup P
      BY <2>1, <2>5
    <3>2. Kept(y)
      BY <2>3, <3>1 DEF Remembered
    <3>3. UNCHANGED <<used, policies, purged, evidence, pipeline>>
      BY <2>1
    <3> QED BY <2>8, <3>2, <3>3 DEF Kept
  <2>10. \A y \in (base \cup ToSet(got))' : Kept(y)'
    BY <2>9
  <2>11. x = "paged" => base' # {}
    <3>1. call.after # None => base # {}
      BY <2>1 DEF Remembered, Midway
    <3> QED BY <2>1, <2>7, <3>1
  <2> HIDE DEF P
  <2>12. Midway' => base' # {}
    BY <2>6, <2>8, <2>11 DEF Midway
  <2>13. call'.pc # "idle" => call'.status.state \in {state', "capturing"}
    BY <2>1, <2>8 DEF Remembered
  <2>14. pipeline' = "running" => report' = {}
    BY <2>1 DEF Remembered
  <2> QED BY <2>6, <2>8, <2>10, <2>12, <2>13, <2>14 DEF Remembered
<1>14. CASE UNCHANGED vars
  <2>1. UNCHANGED <<files, session, client>>
    BY <1>14 DEF vars
  <2> QED BY <2>1, RememberedWorld DEF Remembered
<1> QED
  BY <1>1, <1>2, <1>3, <1>4, <1>5, <1>6, <1>7, <1>8, <1>9, <1>11, <1>12, <1>13, <1>14 DEF Next

\* What a client is owed: while it pages, once the directory is gone, and at the end.
DriftAt(q, status) ==
    /\ Midway /\ ~purged =>
          Within(Numbered(q, status), Present(q, status), base, ToSet(got), call.after,
                 Repeats, inserted, removed)
    /\ Midway /\ call.pc = "resolved" /\ purged =>
          /\ Repeats + Cardinality(Present(q, status) \cap ToSet(got)) <= inserted
          /\ Cardinality(base) <= removed
    /\ call.pc = "done" =>
          Cardinality((base \cap Present(q, status)) \ ToSet(got)) <= removed

Drift ==
    /\ Repeats <= inserted
    /\ \A q \in Requests : \A status :
          call.q = q /\ call.status.state = status => DriftAt(q, status)

\* The listing of a request does not depend on anything but the files.
LEMMA SameListing ==
    ASSUME FilesTyped, FilesTyped', NEW q \in Requests, NEW status, NEW later,
           UNCHANGED <<policies, evidence>>,
           \/ q.tool \in {"list_policies", "get_evidence"}
           \/ status = later /\ UNCHANGED report
    PROVE  /\ Numbered(q, later)' = Numbered(q, status)
           /\ Present(q, later)' = Present(q, status)
<1>1. /\ Numbered(q, status) \subseteq Rows /\ Present(q, status) \subseteq Numbered(q, status)
      /\ \A x \in Rows : x \in Numbered(q, status) <=> Listed(q, status, x)
      /\ \A x \in Numbered(q, status) : x \in Present(q, status) <=> Chosen(q, x)
  BY Listings DEF ListingFacts
<1>2. /\ Numbered(q, later)' \subseteq Rows /\ Present(q, later)' \subseteq Numbered(q, later)'
      /\ \A x \in Rows : x \in Numbered(q, later)' <=> Listed(q, later, x)'
      /\ \A x \in Numbered(q, later)' : x \in Present(q, later)' <=> Chosen(q, x)
  <2>1. ListingFacts'
    BY ListingsNext
  <2> QED BY <2>1 DEF ListingFacts
<1>3. ASSUME NEW x \in Rows PROVE Listed(q, later, x)' <=> Listed(q, status, x)
  BY DEF Listed, SampleRows, AggregateRows
<1> QED BY <1>1, <1>2, <1>3

\* The budget of a request is a number when it is about finitely many rows.
LEMMA RepeatsNumber == ASSUME IsSeq(got) PROVE Repeats \in Nat
<1>1. Len(got) \in Nat /\ DOMAIN got = 1..Len(got)
  BY SeqFacts
<1>2. IsFiniteSet(1..Len(got))
  <2>1. 1 \in Int /\ Len(got) \in Int
    BY <1>1
  <2> QED BY <2>1, FS_Interval, Zenon
<1>3. {i \in DOMAIN got : \E j \in 1..(i - 1) : got[j] = got[i]} \subseteq 1..Len(got)
  BY <1>1
<1> QED BY <1>2, <1>3, FS_Subset, FS_CardinalityType DEF Repeats

\* Steps that change no policy and no evidence cost a listing nothing: a report that
\* appears adds rows after every sample.
LEMMA DriftQuiet ==
    ASSUME Typed, FilesTyped', NEW q \in Requests, NEW status, NEW later,
           call.q = q, call.status.state = status, DriftAt(q, status),
           UNCHANGED <<policies, evidence, purged, base, got, inserted, removed>>,
           call'.after = call.after,
           call'.pc = call.pc \/ (call'.pc = "resolved" /\ ~purged /\ (Midway' => Midway)),
           \/ status = later /\ UNCHANGED report
           \/ \A x \in base \cup ToSet(got) : x[1] # "aggregate"
    PROVE  DriftAt(q, later)'
<1> DEFINE U == Numbered(q, status)
           P == Present(q, status)
           V == Numbered(q, later)'
           Q == Present(q, later)'
           B == base
           G == ToSet(got)
           a == call.after
           rep == Repeats
<1>1. /\ U \subseteq Rows /\ IsFiniteSet(U) /\ Comparable(U) /\ P \subseteq U
      /\ \A x \in Rows : x \in U <=> Listed(q, status, x)
      /\ \A x \in U : x \in P <=> Chosen(q, x)
  BY Listings DEF ListingFacts, Typed
<1>2. /\ V \subseteq Rows /\ IsFiniteSet(V) /\ Q \subseteq V
      /\ \A x \in Rows : x \in V <=> Listed(q, later, x)'
      /\ \A x \in V : x \in Q <=> Chosen(q, x)
  <2>1. ListingFacts'
    BY ListingsNext
  <2> QED BY <2>1 DEF ListingFacts
<1>3. IsFiniteSet(B) /\ IsFiniteSet(G) /\ rep \in Nat /\ inserted \in Nat /\ removed \in Nat
  BY ToSetFinite, RepeatsNumber DEF Typed
<1>4. Repeats' = rep
  BY DEF Repeats
<1>5. Midway => a \in Nat \X Nat
  BY DEF Midway, Typed, Cursors
<1>6. \/ V = U /\ Q = P
      \/ /\ \A y \in Rows : y[1] = "sample" => (y \in U <=> y \in V)
         /\ \A x \in Q \cap (B \cup G) : x \in P /\ x[1] = "sample"
         /\ P = U
  <2>1. CASE q.tool \in {"list_policies", "get_evidence"} \/ (status = later /\ UNCHANGED report)
    <3>1. V = U /\ Q = P
      BY <2>1, SameListing DEF Typed
    <3> QED BY <3>1
  <2>2. CASE /\ q.tool \notin {"list_policies", "get_evidence"}
             /\ \A x \in base \cup ToSet(got) : x[1] # "aggregate"
    <3>1. \A x : Chosen(q, x)
      BY <2>2 DEF Chosen
    <3>2. \A x \in Rows : x[1] = "sample" => (Listed(q, later, x)' <=> Listed(q, status, x))
      BY <2>2 DEF Listed, SampleRows, AggregateRows
    <3>3. \A x \in V : x[1] \in {"sample", "aggregate"}
      BY <1>2, <2>2 DEF Listed, SampleRows, AggregateRows
    <3> HIDE DEF U, P, V, Q, B, G
    <3>4. P = U /\ Q = V
      BY <1>1, <1>2, <3>1
    <3>5. \A y \in Rows : y[1] = "sample" => (y \in U <=> y \in V)
      BY <1>1, <1>2, <3>2
    <3>6. \A x \in Q \cap (B \cup G) : x \in P /\ x[1] = "sample"
      BY <1>1, <1>2, <2>2, <3>3, <3>4, <3>5 DEF B, G
    <3> QED BY <3>4, <3>5, <3>6
  <2> QED BY <2>1, <2>2
<1>7. Within(U, P, B, G, a, rep, inserted, removed) /\ Midway => Within(V, Q, B, G, a, rep, inserted, removed)
  <2> HIDE DEF U, P, V, Q, B, G, a, rep
  <2> QED BY <1>1, <1>2, <1>3, <1>5, <1>6, WithinApart
<1>8. Q \cap B \subseteq P /\ Q \cap G \subseteq P
  BY <1>6
<1>9. /\ Midway' => Midway /\ (purged => call'.pc = call.pc)
      /\ call'.pc = "done" => call.pc = "done"
      /\ UNCHANGED <<purged, base, got, inserted, removed>> /\ call'.after = a
  BY DEF Midway
<1>10. ASSUME Midway', ~purged' PROVE Within(V, Q, B, G, a, rep, inserted, removed)
  <2>1. Midway /\ ~purged
    BY <1>9, <1>10
  <2> QED BY <1>7, <2>1 DEF DriftAt
<1>11. ASSUME Midway', call'.pc = "resolved", purged'
       PROVE  rep + Cardinality(Q \cap G) <= inserted /\ Cardinality(B) <= removed
  <2>1. Midway /\ purged /\ call.pc = "resolved"
    BY <1>9, <1>11
  <2>2. rep + Cardinality(P \cap G) <= inserted /\ Cardinality(B) <= removed
    BY <2>1 DEF DriftAt
  <2> HIDE DEF P, Q, G, rep, B
  <2>3. IsFiniteSet(P \cap G) /\ Q \cap G \subseteq P \cap G
    BY <1>3, <1>8, FS_Intersection
  <2>4. Cardinality(Q \cap G) <= Cardinality(P \cap G) /\ Cardinality(Q \cap G) \in Nat /\ Cardinality(P \cap G) \in Nat
    BY <2>3, FS_Subset, FS_CardinalityType
  <2> DEFINE x == Cardinality(Q \cap G)
             y == Cardinality(P \cap G)
  <2>5. x <= y /\ x \in Nat /\ y \in Nat /\ rep + y <= inserted
    BY <2>2, <2>4
  <2> HIDE DEF x, y
  <2>6. rep + x <= inserted
    BY <1>3, <2>5
  <2> QED BY <2>2, <2>6 DEF x
<1>12. ASSUME call'.pc = "done" PROVE Cardinality((B \cap Q) \ G) <= removed
  <2>1. Cardinality((B \cap P) \ G) <= removed
    BY <1>9, <1>12 DEF DriftAt
  <2> HIDE DEF P, Q, G, B
  <2> DEFINE X == (B \cap P) \ G
             Y == (B \cap Q) \ G
  <2>2. IsFiniteSet(X) /\ Y \subseteq X
    BY <1>3, <1>8, FS_Subset
  <2> HIDE DEF X, Y
  <2>3. Cardinality(Y) <= Cardinality(X) /\ Cardinality(Y) \in Nat /\ Cardinality(X) \in Nat
    BY <2>2, FS_Subset, FS_CardinalityType
  <2>4. Cardinality(X) <= removed
    BY <2>1 DEF X
  <2>5. Cardinality(Y) <= removed
    BY <1>3, <2>3, <2>4
  <2> QED BY <2>5 DEF Y
<1> HIDE DEF rep
<1>13. DriftAt(q, later)' <=>
          /\ Midway' /\ ~purged' => Within(V, Q, base', ToSet(got'), call'.after, Repeats', inserted', removed')
          /\ Midway' /\ call'.pc = "resolved" /\ purged' =>
                /\ Repeats' + Cardinality(Q \cap ToSet(got')) <= inserted'
                /\ Cardinality(base') <= removed'
          /\ call'.pc = "done" => Cardinality((base' \cap Q) \ ToSet(got')) <= removed'
  BY DEF DriftAt
<1> HIDE DEF U, P, V, Q
<1> QED BY <1>4, <1>9, <1>10, <1>11, <1>12, <1>13

\* A flush brings one row nobody has seen, and may evict one: the listing drifts by what
\* inserted and removed count.
LEMMA DriftWrite ==
    ASSUME Typed, FilesTyped', NEW q \in Requests, NEW status,
           DriftAt(q, status), call.pc # "done",
           UNCHANGED <<purged, call, base, got>>,
           NEW I, IsFiniteSet(I), Cardinality(I) <= 1, NEW D, IsFiniteSet(D), Cardinality(D) <= 1,
           \A x \in Rows : Listed(q, status, x)' => Listed(q, status, x) \/ x \in I,
           \A x \in Rows : Listed(q, status, x) => Listed(q, status, x)' \/ x \in D,
           ~purged => \A x \in base \cup ToSet(got) : x \notin I,
           inserted' \in Nat, removed' \in Nat,
           Midway => inserted' >= inserted + Cardinality(I) /\ removed' >= removed + Cardinality(D)
    PROVE  DriftAt(q, status)'
<1> DEFINE U == Numbered(q, status)
           P == Present(q, status)
           V == Numbered(q, status)'
           Q == Present(q, status)'
           B == base
           G == ToSet(got)
           a == call.after
           rep == Repeats
<1>1. /\ U \subseteq Rows /\ IsFiniteSet(U) /\ Comparable(U) /\ P \subseteq U
      /\ \A x \in Rows : x \in U <=> Listed(q, status, x)
      /\ \A x \in U : x \in P <=> Chosen(q, x)
  BY Listings DEF ListingFacts, Typed
<1>2. /\ V \subseteq Rows /\ IsFiniteSet(V) /\ Q \subseteq V
      /\ \A x \in Rows : x \in V <=> Listed(q, status, x)'
      /\ \A x \in V : x \in Q <=> Chosen(q, x)
  <2>1. ListingFacts'
    BY ListingsNext
  <2> QED BY <2>1 DEF ListingFacts
<1>3. IsFiniteSet(B) /\ IsFiniteSet(G) /\ rep \in Nat /\ inserted \in Nat /\ removed \in Nat
  BY ToSetFinite, RepeatsNumber DEF Typed
<1>4. Repeats' = rep
  BY DEF Repeats
<1>5. Midway => a \in Nat \X Nat
  BY DEF Midway, Typed, Cursors
<1>6. V \subseteq U \cup I /\ U \subseteq V \cup D /\ Q \subseteq P \cup I
  BY <1>1, <1>2
<1>7. Midway' <=> Midway
  BY DEF Midway
<1>8. ASSUME Midway, ~purged PROVE Within(V, Q, B, G, a, rep, inserted', removed')
  <2>1. Within(U, P, B, G, a, rep, inserted, removed)
    BY <1>8 DEF DriftAt
  <2>2. \A x \in Q \cap (B \cup G) : x \in P
    BY <1>6, <1>8
  <2> HIDE DEF U, P, V, Q, B, G, a, rep
  <2> QED BY <1>1, <1>2, <1>3, <1>5, <1>6, <1>8, <2>1, <2>2, WithinShift
<1>9. ASSUME Midway, call.pc = "resolved", purged
      PROVE  rep + Cardinality(Q \cap G) <= inserted' /\ Cardinality(B) <= removed'
  <2>1. rep + Cardinality(P \cap G) <= inserted /\ Cardinality(B) <= removed
    BY <1>9 DEF DriftAt
  <2> HIDE DEF P, Q, G, rep, B
  <2>2. IsFiniteSet(P \cap G) /\ Q \cap G \subseteq (P \cap G) \cup I
    BY <1>3, <1>6, FS_Intersection
  <2> DEFINE X == P \cap G
             Y == Q \cap G
             Z == X \cup I
             W == X \cap I
  <2>3. IsFiniteSet(Z) /\ IsFiniteSet(W) /\ Cardinality(Z) = Cardinality(X) + Cardinality(I) - Cardinality(W)
    BY <2>2, FS_Union, FS_Intersection
  <2>4. IsFiniteSet(X) /\ Y \subseteq Z
    BY <2>2
  <2> HIDE DEF X, Y, Z, W
  <2>5. Cardinality(Y) <= Cardinality(Z) /\ IsFiniteSet(Y)
    BY <2>3, <2>4, FS_Subset
  <2>6. /\ Cardinality(X) \in Nat /\ Cardinality(Y) \in Nat /\ Cardinality(Z) \in Nat
        /\ Cardinality(W) \in Nat /\ Cardinality(I) \in Nat /\ Cardinality(B) \in Nat
        /\ Cardinality(D) \in Nat
    BY <1>3, <2>3, <2>4, <2>5, FS_CardinalityType
  <2> DEFINE x == Cardinality(X)
             y == Cardinality(Y)
             z == Cardinality(Z)
             w == Cardinality(W)
             i == Cardinality(I)
             d == Cardinality(D)
             b == Cardinality(B)
  <2>7. rep + x <= inserted /\ b <= removed
    BY <2>1 DEF X
  <2>8. inserted' >= inserted + i /\ removed' >= removed + d
    BY <1>9
  <2> HIDE DEF x, y, z, w, i, d, b
  <2>9. x \in Nat /\ y \in Nat /\ z \in Nat /\ w \in Nat /\ i \in Nat /\ b \in Nat /\ d \in Nat
    BY <2>6 DEF x, y, z, w, i, d, b
  <2>10. y <= z /\ z = x + i - w
    BY <2>3, <2>5 DEF x, y, z, w, i
  <2>11. rep + y <= inserted' /\ b <= removed'
    BY <1>3, <2>7, <2>8, <2>9, <2>10
  <2> QED BY <2>11 DEF y, b, Y
<1> HIDE DEF rep
<1>10. DriftAt(q, status)' <=>
          /\ Midway' /\ ~purged' => Within(V, Q, base', ToSet(got'), call'.after, Repeats', inserted', removed')
          /\ Midway' /\ call'.pc = "resolved" /\ purged' =>
                /\ Repeats' + Cardinality(Q \cap ToSet(got')) <= inserted'
                /\ Cardinality(base') <= removed'
          /\ call'.pc = "done" => Cardinality((base' \cap Q) \ ToSet(got')) <= removed'
  BY DEF DriftAt
<1> HIDE DEF U, P, V, Q
<1> QED BY <1>4, <1>7, <1>8, <1>9, <1>10

\* A policy file written between two pages.
LEMMA DriftPolicy ==
    ASSUME Typed, Remembered, FilesTyped', inserted' \in Nat, removed' \in Nat,
           NEW w \in Workloads, WritePolicy(w), NEW q \in Requests, NEW status, DriftAt(q, status)
    PROVE  DriftAt(q, status)'
<1>1. /\ w \notin policies /\ policies' = policies \cup {w} /\ call.pc \in {"idle", "resolved", "paged"}
      /\ inserted' = IF Listing THEN inserted + 1 ELSE inserted
      /\ UNCHANGED <<evidence, drops, report, used, purged, call, base, got, removed>>
  BY DEF WritePolicy, Writable, session, client
<1>2. Midway => Listing
  BY DEF Midway, Listing, Remembered
<1>3. inserted \in Nat /\ removed \in Nat
  BY DEF Typed
<1> DEFINE z == <<"policy", w, 0, 0>>
           I == {z}
           D == {}
<1>4. IsFiniteSet(I) /\ Cardinality(I) = 1 /\ IsFiniteSet(D) /\ Cardinality(D) = 0
  BY FS_Singleton, FS_EmptySet
<1>5. \A x \in Rows : x[1] = "policy" /\ x[2] = w /\ x[3] = 0 /\ x[4] = 0 => x = z
  BY DEF Rows
<1>6. ASSUME NEW x \in Rows
      PROVE  /\ Listed(q, status, x)' => Listed(q, status, x) \/ x \in I
             /\ Listed(q, status, x) => Listed(q, status, x)' \/ x \in D
  <2>1. x[2] \in policies' <=> x[2] \in policies \/ x[2] = w
    BY <1>1
  <2>2. x \in SampleRows(q, x[2])' <=> x \in SampleRows(q, x[2])
    BY <1>1 DEF SampleRows
  <2>3. x \in AggregateRows(q, x[2], status)' <=> x \in AggregateRows(q, x[2], status)
    BY <1>1 DEF AggregateRows
  <2>4. evidence' = evidence
    BY <1>1
  <2> HIDE DEF z
  <2> QED BY <1>5, <2>1, <2>2, <2>3, <2>4 DEF Listed
<1>7. ~purged => \A x \in base \cup ToSet(got) : x \notin I
  <2> SUFFICES ASSUME ~purged, z \in base \cup ToSet(got) PROVE FALSE
    OBVIOUS
  <2>1. Kept(z)
    BY DEF Remembered
  <2> QED BY <1>1, <2>1 DEF Kept
<1>8. Midway => inserted' >= inserted + Cardinality(I) /\ removed' >= removed + Cardinality(D)
  BY <1>1, <1>2, <1>3, <1>4
<1>9. Cardinality(I) <= 1 /\ Cardinality(D) <= 1
  BY <1>4
<1>10. call.pc # "done" /\ UNCHANGED <<purged, call, base, got>>
  BY <1>1
<1> HIDE DEF I, D, z
<1> QED BY <1>4, <1>6, <1>7, <1>8, <1>9, <1>10, DriftWrite

\* A sample written between two pages: get_evidence sees a rule come when it had none,
\* list_dropped_flows the sample, and the one that MaxSamples evicted for it.
LEMMA DriftEvidence ==
    ASSUME Typed, Remembered, FilesTyped', inserted' \in Nat, removed' \in Nat,
           NEW w \in Workloads, NEW r \in Rules, NEW t \in Times, WriteEvidence(w, r, t),
           NEW q \in Requests, NEW status, DriftAt(q, status)
    PROVE  DriftAt(q, status)'
<1> DEFINE O == evidence[w][r]
           N == Newest(O \cup {t})
<1>0. FilesTyped
  BY DEF Typed
<1>1. /\ call.pc \in {"idle", "resolved", "paged"}
      /\ Listing => /\ inserted' = inserted + Cardinality(N \ O)
                    /\ removed' = removed + Cardinality(O \ N)
      /\ UNCHANGED <<policies, drops, report, purged, call, base, got>>
  BY DEF WriteEvidence, Writable, session, client
<1>2. Midway => Listing
  BY DEF Midway, Listing, Remembered
<1>3. inserted \in Nat /\ removed \in Nat
  BY DEF Typed
<1>4. N = Newest(evidence[w][r] \cup {t})
  OBVIOUS
<1> HIDE DEF N
<1>5. \A v \in Workloads, s \in Rules :
          evidence'[v][s] = IF v = w /\ s = r THEN N ELSE evidence[v][s]
  BY <1>0, <1>4, EvidenceStep
<1>6. /\ O \subseteq used /\ t \notin used /\ N # {} /\ N \subseteq O \cup {t}
      /\ IsFiniteSet(N \ O) /\ Cardinality(N \ O) \in Nat /\ Cardinality(N \ O) <= 1
      /\ IsFiniteSet(O \ N) /\ Cardinality(O \ N) \in Nat /\ Cardinality(O \ N) <= 1
      /\ O = {} => Cardinality(N \ O) = 1
  <2>1. OneForOne(evidence[w][r], N, t)
    BY <1>0, <1>4, EvidenceDrift
  <2> QED BY <2>1 DEF OneForOne
<1>7. O = evidence[w][r]
  OBVIOUS
<1> HIDE DEF O
<1>8. call.pc # "done" /\ UNCHANGED <<purged, call, base, got>>
  BY <1>1
<1>9. IsFiniteSet({}) /\ Cardinality({}) = 0
  BY FS_EmptySet
<1>10. Midway => /\ inserted' = inserted + Cardinality(N \ O)
                 /\ removed' = removed + Cardinality(O \ N)
  BY <1>1, <1>2
<1>11. CASE q.tool = "list_policies"
  <2>1. \A x \in Rows : Listed(q, status, x)' <=> Listed(q, status, x)
    BY <1>1, <1>11 DEF Listed
  <2> DEFINE E == {}
  <2>2. Midway => inserted' >= inserted + Cardinality(E) /\ removed' >= removed + Cardinality(E)
    BY <1>3, <1>6, <1>9, <1>10
  <2>3. \A x \in Rows : /\ Listed(q, status, x)' => Listed(q, status, x) \/ x \in E
                        /\ Listed(q, status, x) => Listed(q, status, x)' \/ x \in E
    BY <2>1
  <2>4. (~purged => \A x \in base \cup ToSet(got) : x \notin E) /\ IsFiniteSet(E) /\ Cardinality(E) <= 1
    BY <1>9
  <2> HIDE DEF E
  <2> QED BY <1>8, <2>2, <2>3, <2>4, DriftWrite
<1>12. CASE q.tool = "get_evidence"
  <2> DEFINE z == <<"rule", w, r, 0>>
             I == IF O = {} THEN {z} ELSE {}
             D == {}
  <2>1. /\ IsFiniteSet(I) /\ (Cardinality(I) = IF O = {} THEN 1 ELSE 0)
        /\ IsFiniteSet(D) /\ Cardinality(D) = 0
    BY <1>9, FS_Singleton
  <2>2. \A x \in Rows : x[1] = "rule" /\ x[2] = w /\ x[3] = r /\ x[4] = 0 => x = z
    BY DEF Rows
  <2>3. ASSUME NEW x \in Rows
        PROVE  /\ Listed(q, status, x)' => Listed(q, status, x) \/ x \in I
               /\ Listed(q, status, x) => Listed(q, status, x)' \/ x \in D
    <3>1. x[2] \in Workloads
      BY DEF Rows
    <3>2. x[3] \in Rules =>
            evidence'[x[2]][x[3]] = IF x[2] = w /\ x[3] = r THEN N ELSE evidence[x[2]][x[3]]
      BY <1>5, <3>1
    <3>3. Listed(q, status, x) <=> x[1] = "rule" /\ x[2] = q.target /\ x[4] = 0
                                   /\ x[3] \in Rules /\ evidence[x[2]][x[3]] # {}
      BY <1>12 DEF Listed
    <3>4. Listed(q, status, x)' <=> x[1] = "rule" /\ x[2] = q.target /\ x[4] = 0
                                    /\ x[3] \in Rules /\ evidence'[x[2]][x[3]] # {}
      BY <1>12 DEF Listed
    <3> HIDE DEF z
    <3> QED BY <1>6, <1>7, <2>2, <3>2, <3>3, <3>4
  <2>4. ~purged => \A x \in base \cup ToSet(got) : x \notin I
    <3> SUFFICES ASSUME ~purged, O = {}, z \in base \cup ToSet(got) PROVE FALSE
      OBVIOUS
    <3>1. Kept(z)
      BY DEF Remembered
    <3> QED BY <1>7, <3>1 DEF Kept
  <2>5. Midway => inserted' >= inserted + Cardinality(I) /\ removed' >= removed + Cardinality(D)
    BY <1>3, <1>6, <1>10, <2>1
  <2>6. Cardinality(I) <= 1 /\ Cardinality(D) <= 1
    BY <2>1
  <2> HIDE DEF I, D, z
  <2> QED BY <1>8, <2>1, <2>3, <2>4, <2>5, <2>6, DriftWrite
<1>13. CASE q.tool \notin {"list_policies", "get_evidence"}
  <2> DEFINE I == {<<"sample", w, r, u>> : u \in N \ O}
             D == {<<"sample", w, r, u>> : u \in O \ N}
  <2>1. /\ IsFiniteSet(I) /\ Cardinality(I) = Cardinality(N \ O)
        /\ IsFiniteSet(D) /\ Cardinality(D) = Cardinality(O \ N)
    <3>1. I = SamplesAt(w, r, N \ O) /\ D = SamplesAt(w, r, O \ N)
      BY DEF SamplesAt
    <3> HIDE DEF I, D
    <3> QED BY <1>6, <3>1, SampleCount
  <2>2. ASSUME NEW x \in Rows
        PROVE  /\ Listed(q, status, x)' => Listed(q, status, x) \/ x \in I
               /\ Listed(q, status, x) => Listed(q, status, x)' \/ x \in D
    <3>1. x[2] \in Workloads /\ x = <<x[1], x[2], x[3], x[4]>>
      BY DEF Rows
    <3>2. x[3] \in Rules =>
            evidence'[x[2]][x[3]] = IF x[2] = w /\ x[3] = r THEN N ELSE evidence[x[2]][x[3]]
      BY <1>5, <3>1
    <3>3. x \in AggregateRows(q, x[2], status)' <=> x \in AggregateRows(q, x[2], status)
      BY <1>1 DEF AggregateRows
    <3>4. x \in SampleRows(q, x[2]) <=>
             /\ x[1] = "sample" /\ x[2] \notin Unreadable /\ x[3] \in Rules /\ MatchesDirection(q, x[3])
             /\ x[4] \in evidence[x[2]][x[3]] /\ q.class \in {None, SampleClass(x[4])}
      BY DEF SampleRows
    <3>5. x \in SampleRows(q, x[2])' <=>
             /\ x[1] = "sample" /\ x[2] \notin Unreadable /\ x[3] \in Rules /\ MatchesDirection(q, x[3])
             /\ x[4] \in evidence'[x[2]][x[3]] /\ q.class \in {None, SampleClass(x[4])}
      BY DEF SampleRows
    <3>6. /\ x[1] = "sample" /\ x[2] = w /\ x[3] = r /\ x[4] \in N \ O => x \in I
          /\ x[1] = "sample" /\ x[2] = w /\ x[3] = r /\ x[4] \in O \ N => x \in D
      BY <3>1
    <3> DEFINE c == q.class \in {None, SampleClass(x[4])}
    <3> HIDE DEF I, D, c
    <3>7. /\ x \in SampleRows(q, x[2])' => x \in SampleRows(q, x[2]) \/ x \in I
          /\ x \in SampleRows(q, x[2]) => x \in SampleRows(q, x[2])' \/ x \in D
      BY <1>7, <3>2, <3>4, <3>5, <3>6 DEF c
    <3>8. Listed(q, status, x) <=> MatchesWorkload(q, x[2])
                                  /\ x \in SampleRows(q, x[2]) \cup AggregateRows(q, x[2], status)
      BY <1>13 DEF Listed
    <3>9. Listed(q, status, x)' <=> MatchesWorkload(q, x[2])
                                   /\ (x \in SampleRows(q, x[2])' \/ x \in AggregateRows(q, x[2], status)')
      BY <1>13 DEF Listed
    <3> QED BY <3>3, <3>7, <3>8, <3>9
  <2>3. \A x \in base \cup ToSet(got) : x \notin I
    <3> SUFFICES ASSUME NEW x \in base \cup ToSet(got), x \in I PROVE FALSE
      OBVIOUS
    <3>1. PICK u \in N \ O : x = <<"sample", w, r, u>>
      OBVIOUS
    <3>2. x[1] = "sample" /\ x[4] = u /\ u = t
      BY <1>6, <3>1
    <3>3. Kept(x)
      BY DEF Remembered
    <3> QED BY <1>6, <3>2, <3>3 DEF Kept
  <2>4. Midway => inserted' >= inserted + Cardinality(I) /\ removed' >= removed + Cardinality(D)
    BY <1>3, <1>6, <1>10, <2>1
  <2>5. Cardinality(I) <= 1 /\ Cardinality(D) <= 1
    BY <1>6, <2>1
  <2> HIDE DEF I, D
  <2> QED BY <1>8, <2>1, <2>2, <2>3, <2>4, <2>5, DriftWrite
<1> QED BY <1>11, <1>12, <1>13

\* What a page adds to the rows received, and how many of them it repeats.
Turned(U, P, after, next, s, g, K) ==
    /\ OnPage(U, P, K, after, next)
    /\ ToSet(g) = ToSet(s) \cup K
    /\ Cardinality(Again(g)) \in Nat /\ Cardinality(Again(s)) \in Nat
    /\ Cardinality(Again(g)) <= Cardinality(Again(s)) + Cardinality(K \cap ToSet(s))

\* The rows of a page are distinct, and are those between the two cursors.
LEMMA PageTurns ==
    ASSUME NEW e, IsSeq(e), ToSet(e) \subseteq ItemSet, Ordered(e, ItemOrder), NEW U, NEW P,
           \A x : x \in ToSet(e) <=> \E y \in P : x = Item(U, y),
           NEW after \in Cursors, NEW limit \in Int, NEW p, p = Paginate(e, after, limit),
           NEW s, IsSeq(s), NEW g, g = s \o RowsOf(p.page)
    PROVE  /\ \E K : Turned(U, P, after, p.next, s, g, K)
           /\ p.next # None /\ after # None => KeyLess(after, p.next)
<1> DEFINE page == p.page
           n == p.next
           h == RowsOf(page)
           K == ToSet(h)
<1>1. /\ IsSeq(page) /\ ToSet(page) \subseteq ToSet(e) /\ (p.more <=> n # None)
      /\ p.more /\ after # None => KeyLess(after, n)
      /\ Ordered(page, ItemOrder)
      /\ \A x : x \in ToSet(page) <=> x \in ToSet(e) /\ Inside(x, after, n)
  BY PageTyped, PageExact
<1> HIDE DEF page, n
<1>2. /\ Len(page) \in Nat /\ DOMAIN page = 1..Len(page)
      /\ \A i \in 1..Len(page) : page[i] \in ToSet(page)
      /\ \A x \in ToSet(page) : \E i \in 1..Len(page) : page[i] = x
  BY <1>1, SeqFacts
<1>3. IsSeq(h) /\ Len(h) = Len(page) /\ \A i \in 1..Len(page) : h[i] = page[i].row
  <2>1. h = [i \in 1..Len(page) |-> h[i]]
    BY <1>2 DEF RowsOf
  <2>2. \A i \in 1..Len(page) : h[i] = page[i].row
    BY <1>2 DEF RowsOf
  <2> HIDE DEF h
  <2> QED BY <1>2, <2>1, <2>2, FunctionIsSeq
<1>4. \A i \in 1..Len(page) : page[i] = Item(U, page[i].row) /\ page[i].row \in P
  <2> SUFFICES ASSUME NEW i \in 1..Len(page) PROVE page[i] = Item(U, page[i].row) /\ page[i].row \in P
    OBVIOUS
  <2>1. PICK y \in P : page[i] = Item(U, y)
    BY <1>1, <1>2
  <2>2. Item(U, y).row = y
    BY DEF Item
  <2> QED BY <2>1, <2>2
<1> HIDE DEF h, K
<1>5. \A i, j \in 1..Len(h) : h[i] = h[j] => i = j
  <2>1. ASSUME NEW i \in 1..Len(page), NEW j \in 1..Len(page), i < j PROVE h[i] # h[j]
    <3>1. <<page[i], page[j]>> \in ItemOrder
      BY <1>1, <2>1 DEF Ordered
    <3>2. KeyLess(page[i].key, page[j].key) /\ page[i].key \in Nat \X Nat
      BY <3>1 DEF ItemOrder, ItemSet
    <3>3. SUFFICES ASSUME h[i] = h[j] PROVE FALSE
      OBVIOUS
    <3>4. page[i] = page[j]
      BY <1>3, <1>4, <3>3
    <3> QED BY <3>2, <3>4, KeyLessFacts
  <2> SUFFICES ASSUME NEW i \in 1..Len(page), NEW j \in 1..Len(page), h[i] = h[j] PROVE i = j
    BY <1>3
  <2>2. i \in Int /\ j \in Int /\ ~(i < j) /\ ~(j < i)
    BY <1>2, <2>1
  <2> QED BY <2>2
<1>6. OnPage(U, P, K, after, n)
  <2> SUFFICES ASSUME NEW x PROVE x \in K <=> x \in P /\ Inside(Item(U, x), after, n)
    BY DEF OnPage
  <2>1. x \in K <=> \E i \in 1..Len(page) : page[i].row = x
    <3>1. /\ \A i \in 1..Len(h) : h[i] \in K
          /\ \A y \in K : \E i \in 1..Len(h) : h[i] = y
      BY <1>3, SeqFacts DEF K
    <3>2. \A i \in 1..Len(page) : h[i] = page[i].row
      BY <1>3
    <3>3. Len(h) = Len(page)
      BY <1>3
    <3> QED BY <3>1, <3>2, <3>3
  <2>2. ASSUME x \in K PROVE x \in P /\ Inside(Item(U, x), after, n)
    <3>1. PICK i \in 1..Len(page) : page[i].row = x
      BY <2>1, <2>2
    <3> QED BY <1>1, <1>2, <1>4, <3>1
  <2>3. ASSUME x \in P, Inside(Item(U, x), after, n) PROVE x \in K
    <3>1. Item(U, x) \in ToSet(page)
      BY <1>1, <2>3
    <3>2. PICK i \in 1..Len(page) : page[i] = Item(U, x)
      BY <1>2, <3>1
    <3>3. page[i].row = x
      BY <3>2 DEF Item
    <3> QED BY <2>1, <3>3
  <2> QED BY <2>2, <2>3
<1>7. g = s \o RowsOf(page)
  BY DEF page
<1>8. IsSeq(g) /\ Appended(g, s, page)
  BY <1>1, <1>7, GotFacts
<1>9. Joined(g, s, h) /\ Distinct(h)
  BY <1>3, <1>5, <1>8 DEF Appended, Joined, Distinct
<1>10. /\ IsFiniteSet(Again(s)) /\ IsFiniteSet(Again(g))
       /\ Cardinality(Again(g)) <= Cardinality(Again(s)) + Cardinality(ToSet(h) \cap ToSet(s))
       /\ ToSet(g) = ToSet(s) \cup ToSet(h)
  BY <1>3, <1>8, <1>9, AgainGrows
<1>11. Cardinality(Again(g)) \in Nat /\ Cardinality(Again(s)) \in Nat
  BY <1>10, FS_CardinalityType
<1>12. Turned(U, P, after, n, s, g, K)
  BY <1>6, <1>10, <1>11 DEF Turned, K
<1>13. n # None /\ after # None => KeyLess(after, n)
  BY <1>1
<1> QED BY <1>12, <1>13 DEF n

\* What AnswerPage does to a request whose scan is in key order.
LEMMA AnswerTurns ==
    ASSUME FilesInKeyOrder, Typed, AnswerPage, NEW q, q = call.q, NEW status, status = call.status.state
    PROVE  /\ q \in Requests /\ call.pc = "resolved" /\ call'.q = q /\ call'.status.state = status
           /\ base' = IF call.after = None THEN Present(q, status) ELSE base
           /\ call'.after \in Cursors /\ call'.pc = (IF call'.after # None THEN "paged" ELSE "done")
           /\ call'.after # None /\ call.after # None => KeyLess(call.after, call'.after)
           /\ \E K : Turned(Numbered(q, status), Present(q, status), call.after, call'.after, got, got', K)
           /\ UNCHANGED <<files, session, drift>>
<1> DEFINE e == Items(call.q, call.status.state)
           p == Paginate(e, call.after, call.q.limit)
           limit == call.q.limit
           after == call.after
           U == Numbered(q, status)
           P == Present(q, status)
           g == got \o RowsOf(p.page)
<1>1. /\ call.pc = "resolved" /\ call.q \in Requests /\ call.q.limit \in Int
      /\ IsSeq(e) /\ ToSet(e) \subseteq ItemSet
      /\ p.more \in BOOLEAN /\ p.next \in Cursors /\ (p.more <=> p.next # None)
      /\ call' = [pc |-> IF p.more THEN "paged" ELSE "done", q |-> call.q,
                  after |-> p.next, status |-> call.status]
      /\ got' = got \o RowsOf(p.page)
      /\ base' = IF call.after = None THEN Present(call.q, call.status.state) ELSE base
      /\ UNCHANGED <<files, session, drift>>
  <2>1. e = Items(call.q, call.status.state) /\ p = Paginate(e, call.after, call.q.limit)
    OBVIOUS
  <2> HIDE DEF e, p
  <2> QED BY ONLY Typed, AnswerPage, <2>1, AnswerFacts, SMTT(60)
<1>2. q \in Requests /\ limit \in Int /\ after \in Cursors /\ FilesTyped /\ IsSeq(got)
  BY <1>1 DEF Typed
<1>3. e = Items(q, status) /\ p = Paginate(e, after, limit) /\ g = got \o RowsOf(p.page)
  OBVIOUS
<1> HIDE DEF e, p, limit, U, P, g
<1>4. Ordered(e, ItemOrder) /\ \A x : x \in ToSet(e) <=> \E y \in P : x = Item(U, y)
  <2>1. /\ FilesInKeyOrder => Ordered(e, ItemOrder)
        /\ \A x : x \in ToSet(e) <=> \E y \in Present(q, status) : x = Item(Numbered(q, status), y)
    BY <1>2, <1>3, ItemsFacts
  <2> QED BY <2>1 DEF U, P
<1> HIDE DEF after
<1>5. /\ \E K : Turned(U, P, after, p.next, got, g, K)
      /\ p.next # None /\ after # None => KeyLess(after, p.next)
  BY <1>1, <1>2, <1>3, <1>4, PageTurns
<1>6. g = got'
  BY <1>1, <1>3
<1> DEFINE x == IF p.more THEN "paged" ELSE "done"
           n == p.next
<1>7. call' = [pc |-> x, q |-> call.q, after |-> n, status |-> call.status]
  BY <1>1
<1>8. x = IF n # None THEN "paged" ELSE "done"
  BY <1>1
<1>9. n \in Cursors /\ (n # None /\ after # None => KeyLess(after, n)) /\ \E K : Turned(U, P, after, n, got, got', K)
  BY <1>1, <1>5, <1>6
<1> HIDE DEF x, n
<1>10. call'.pc = x /\ call'.q = call.q /\ call'.after = n /\ call'.status = call.status
  BY <1>7
<1> QED BY <1>1, <1>2, <1>8, <1>9, <1>10 DEF U, P, after

\* Each page keeps to the budget, and the last one settles it.
LEMMA DriftAnswer ==
    ASSUME FilesInKeyOrder, Typed, Remembered, Drift, AnswerPage
    PROVE  Drift'
<1>1. PICK q : q = call.q
  OBVIOUS
<1>2. PICK status : status = call.status.state
  OBVIOUS
<1>3. PICK a : a = call.after
  OBVIOUS
<1>4. PICK n : n = call'.after
  OBVIOUS
<1> DEFINE U == Numbered(q, status)
           P == Present(q, status)
           G == ToSet(got)
           H == ToSet(got')
           B == base
           rep == Repeats
           rep2 == Repeats'
<1>5. /\ q \in Requests /\ call.pc = "resolved" /\ call'.q = q /\ call'.status.state = status
      /\ base' = IF a = None THEN P ELSE base
      /\ n \in Cursors /\ call'.pc = (IF n # None THEN "paged" ELSE "done")
      /\ n # None /\ a # None => KeyLess(a, n)
      /\ \E K : Turned(U, P, a, n, got, got', K)
      /\ UNCHANGED <<files, session, drift>>
  BY <1>1, <1>2, <1>3, <1>4, AnswerTurns
<1>6. PICK K : Turned(U, P, a, n, got, got', K)
  BY <1>5
<1>7. /\ OnPage(U, P, K, a, n) /\ H = G \cup K /\ rep \in Nat /\ rep2 \in Nat
      /\ rep2 <= rep + Cardinality(K \cap G)
  BY <1>6 DEF Turned, Repeats, Again
<1>8. U \in SUBSET Rows /\ IsFiniteSet(U) /\ P \in SUBSET U /\ IsFiniteSet(P)
  <2>1. U \in SUBSET Rows /\ IsFiniteSet(U) /\ P \in SUBSET U
    BY <1>5, Listings DEF Typed, ListingFacts
  <2> QED BY <2>1, FS_Subset
<1>9. IsFiniteSet(G) /\ IsFiniteSet(B) /\ inserted \in Nat /\ removed \in Nat /\ a \in Cursors
  BY <1>3, ToSetFinite DEF Typed
<1>10. a = None => B = {} /\ G = {} /\ rep = 0
  <2>1. a = None => got = <<>> /\ base = {}
    BY <1>3, <1>5 DEF Remembered
  <2>2. ToSet(<<>>) = {}
    BY EmptyIsSeq
  <2>3. got = <<>> => Repeats = 0
    <3> SUFFICES ASSUME got = <<>> PROVE Repeats = 0
      OBVIOUS
    <3>1. DOMAIN got = {}
      OBVIOUS
    <3>2. {i \in DOMAIN got : \E j \in 1..(i - 1) : got[j] = got[i]} = {}
      BY <3>1
    <3> QED BY <3>2, FS_EmptySet DEF Repeats
  <2> QED BY <2>1, <2>2, <2>3
<1>11. DriftAt(q, status) /\ rep <= inserted
  BY <1>1, <1>2, <1>5 DEF Drift
<1>12. a # None => Midway
  BY <1>3, <1>5 DEF Midway
<1>13. inserted' = inserted /\ removed' = removed /\ purged' = purged
  BY <1>5 DEF drift, session
<1>14. Numbered(q, status)' = U /\ Present(q, status)' = P
  <2>1. FilesTyped /\ FilesTyped' /\ UNCHANGED <<policies, evidence, report>>
    BY <1>5 DEF Typed, files, FilesTyped
  <2> QED BY <1>5, <2>1, SameListing
<1>15. a # None => a \in Nat \X Nat
  BY <1>9 DEF Cursors
<1>16. a # None /\ ~purged => Within(U, P, B, G, a, rep, inserted, removed)
  BY <1>3, <1>11, <1>12 DEF DriftAt
<1>17. a # None /\ purged => rep + Cardinality(P \cap G) <= inserted /\ Cardinality(B) <= removed
  BY <1>5, <1>11, <1>12 DEF DriftAt
<1> DEFINE C == base'
<1>18. C = IF a = None THEN P ELSE B
  BY <1>5
<1> HIDE DEF U, P, G, H, B, C, rep, rep2
<1>19. /\ rep2 <= inserted
       /\ n # None /\ ~purged => Within(U, P, C, H, n, rep2, inserted, removed)
       /\ n = None => Cardinality((C \cap P) \ H) <= removed
  <2>1. CASE a = None
    <3>1. K \cap G = {} /\ H = K /\ C = P /\ Cardinality(K \cap G) = 0
      BY <1>7, <1>10, <1>18, <2>1, FS_EmptySet
    <3>2. rep2 = 0
      BY <1>7, <1>10, <2>1, <3>1
    <3>3. OnPage(U, P, K, None, n)
      BY <1>7, <2>1
    <3>4. /\ n # None => Within(U, P, P, K, n, 0, inserted, removed)
          /\ n = None => Cardinality(P \ K) <= removed
      BY <1>5, <1>8, <1>9, <3>3, WithinFirst
    <3>5. (C \cap P) \ H = P \ K
      BY <3>1
    <3> QED BY <1>9, <3>1, <3>2, <3>4, <3>5
  <2>2. CASE a # None /\ ~purged
    <3>1. /\ rep2 <= inserted
          /\ n # None => Within(U, P, B, G \cup K, n, rep2, inserted, removed)
          /\ n = None => Cardinality((B \cap P) \ (G \cup K)) <= removed
      BY <1>5, <1>7, <1>8, <1>9, <1>15, <1>16, <2>2, WithinPage
    <3> QED BY <1>7, <1>18, <2>2, <3>1
  <2>3. CASE a # None /\ purged
    <3>1. K \subseteq P
      BY <1>7 DEF OnPage
    <3>2. Cardinality(K \cap G) <= Cardinality(P \cap G)
      <4>1. IsFiniteSet(P \cap G) /\ K \cap G \subseteq P \cap G
        BY <1>8, <3>1, FS_Intersection
      <4> QED BY <4>1, FS_Subset
    <3>3. Cardinality(K \cap G) \in Nat /\ Cardinality(P \cap G) \in Nat
      <4>1. IsFiniteSet(P \cap G) /\ K \cap G \subseteq P \cap G
        BY <1>8, <3>1, FS_Intersection
      <4> QED BY <4>1, FS_Subset, FS_CardinalityType
    <3> DEFINE x == Cardinality(K \cap G)
               y == Cardinality(P \cap G)
    <3>4. x \in Nat /\ y \in Nat /\ x <= y /\ rep + y <= inserted /\ rep2 <= rep + x
      BY <1>7, <1>17, <2>3, <3>2, <3>3
    <3> HIDE DEF x, y
    <3>5. rep2 <= inserted
      BY <1>7, <1>9, <3>4
    <3> DEFINE R == (B \cap P) \ H
    <3>6. R \subseteq B
      OBVIOUS
    <3> HIDE DEF R
    <3>7. Cardinality(R) <= Cardinality(B) /\ Cardinality(R) \in Nat /\ Cardinality(B) \in Nat
      BY <1>9, <3>6, FS_Subset, FS_CardinalityType
    <3>8. Cardinality(R) <= removed
      BY <1>9, <1>17, <2>3, <3>7
    <3> QED BY <1>18, <2>3, <3>5, <3>8 DEF R
  <2> QED BY <2>1, <2>2, <2>3
<1>20. DriftAt(q, status)'
  <2>1. DriftAt(q, status)' <=>
          /\ Midway' /\ ~purged' => Within(Numbered(q, status)', Present(q, status)', base', ToSet(got'), call'.after,
                                           Repeats', inserted', removed')
          /\ Midway' /\ call'.pc = "resolved" /\ purged' =>
                /\ Repeats' + Cardinality(Present(q, status)' \cap ToSet(got')) <= inserted'
                /\ Cardinality(base') <= removed'
          /\ call'.pc = "done" => Cardinality((base' \cap Present(q, status)') \ ToSet(got')) <= removed'
    BY DEF DriftAt
  <2>2. Midway' <=> n # None
    BY <1>4, <1>5 DEF Midway
  <2>3. call'.pc # "resolved" /\ (call'.pc = "done" <=> n = None)
    BY <1>5
  <2>4. base' = C /\ ToSet(got') = H /\ Repeats' = rep2
    BY DEF C, H, rep2
  <2> QED BY <1>4, <1>13, <1>14, <1>19, <2>1, <2>2, <2>3, <2>4
<1>21. Repeats' <= inserted'
  BY <1>13, <1>19 DEF rep2
<1>22. \A r \in Requests : \A later :
          call'.q = r /\ call'.status.state = later => r = q /\ later = status
  BY <1>5
<1> QED BY <1>20, <1>21, <1>22 DEF Drift

\* A purge takes every row a listing was about, and counts those the client was shown.
LEMMA DriftPurge ==
    ASSUME Typed, FilesTyped', Purge, NEW q \in Requests, NEW status, DriftAt(q, status),
           Repeats <= inserted
    PROVE  DriftAt(q, status)'
<1>1. /\ purged' /\ policies' = {} /\ report' = {} /\ evidence' = [w \in Workloads |-> [r \in Rules |-> {}]]
      /\ removed' = removed + Cardinality(base) /\ UNCHANGED <<call, base, got, inserted>>
  BY DEF Purge, client
<1>2. Present(q, status)' = {}
  <2>1. ListingFacts'
    BY ListingsNext
  <2>2. /\ Present(q, status)' \subseteq Numbered(q, status)' /\ Numbered(q, status)' \subseteq Rows
        /\ \A x \in Rows : x \in Numbered(q, status)' <=> Listed(q, status, x)'
    BY <2>1 DEF ListingFacts
  <2>3. ASSUME NEW x \in Rows, Listed(q, status, x)' PROVE FALSE
    <3>1. x[2] \in Workloads
      BY DEF Rows
    <3>2. x[3] \in Rules => evidence'[x[2]][x[3]] = {}
      BY <1>1, <3>1
    <3>3. policies' = {} /\ report' = {}
      BY <1>1
    <3> QED BY <2>3, <3>2, <3>3 DEF Listed, SampleRows, AggregateRows
  <2> QED BY <2>2, <2>3
<1>3. Repeats' = Repeats /\ Repeats \in Nat
  BY <1>1, RepeatsNumber DEF Repeats, Typed
<1>4. /\ Cardinality({}) = 0 /\ Cardinality(base) \in Nat /\ inserted \in Nat /\ removed \in Nat
  BY FS_EmptySet, FS_CardinalityType DEF Typed
<1> DEFINE P == Present(q, status)'
<1>5. P \cap ToSet(got) = {} /\ (base \cap P) \ ToSet(got) = {}
  BY <1>2
<1>6. DriftAt(q, status)' <=>
        /\ Midway' /\ ~purged' => Within(Numbered(q, status)', P, base', ToSet(got'), call'.after,
                                         Repeats', inserted', removed')
        /\ Midway' /\ call'.pc = "resolved" /\ purged' =>
              /\ Repeats' + Cardinality(P \cap ToSet(got')) <= inserted'
              /\ Cardinality(base') <= removed'
        /\ call'.pc = "done" => Cardinality((base' \cap P) \ ToSet(got')) <= removed'
  BY DEF DriftAt
<1> HIDE DEF P
<1> DEFINE rep == Repeats
           c == Cardinality(base)
<1>7. Repeats' + 0 <= inserted' /\ Cardinality(base') <= removed' /\ 0 <= removed'
  <2>1. rep \in Nat /\ c \in Nat /\ rep <= inserted /\ Repeats' = rep /\ removed' = removed + c /\ inserted' = inserted
    BY <1>1, <1>3, <1>4
  <2>2. Cardinality(base') = c
    BY <1>1
  <2> HIDE DEF rep, c
  <2> QED BY <1>4, <2>1, <2>2
<1> HIDE DEF rep, c
<1> QED BY <1>1, <1>4, <1>5, <1>6, <1>7

\* The next page is resolved against the files and the status of that moment.
LEMMA DriftResolve ==
    ASSUME Typed, Remembered, Drift, NEW r \in Requests, Resolve(r)
    PROVE  Drift'
<1> DEFINE st == [state |-> state, failed |-> failed]
           pc == IF purged \/ DecodeCursorFails(r) THEN "error" ELSE "resolved"
<1>1. /\ call' = [call EXCEPT !.q = r, !.status = st, !.pc = pc]
      /\ UNCHANGED <<policies, evidence, report, purged, base, got, inserted, removed>>
      /\ call.pc = "idle" \/ (call.pc = "paged" /\ call.q = r)
      /\ UNCHANGED files
  BY DEF Resolve, files, session, drift
<1>2. st.state = state /\ pc \in {"error", "resolved"} /\ (purged => pc = "error")
  OBVIOUS
<1>3. call = [pc |-> call.pc, q |-> call.q, after |-> call.after, status |-> call.status]
  BY DEF Typed
<1> HIDE DEF st, pc
<1>4. call' = [pc |-> pc, q |-> r, after |-> call.after, status |-> st]
  BY <1>1, <1>3
<1>5. call'.pc = pc /\ call'.q = r /\ call'.after = call.after /\ call'.status = st
  BY <1>4
<1>6. FilesTyped'
  BY <1>1 DEF Typed, files, FilesTyped
<1>7. Repeats' = Repeats /\ Repeats' <= inserted'
  BY <1>1 DEF Repeats, Drift
<1>8. ASSUME NEW later, later = call'.status.state PROVE DriftAt(r, later)'
  <2>1. CASE call'.pc = "error" \/ call.pc = "idle"
    <3>1. ~Midway' /\ call'.pc # "done"
      BY <1>2, <1>5, <2>1 DEF Midway, Remembered
    <3> QED BY <3>1 DEF DriftAt
  <2>2. CASE call'.pc = "resolved" /\ call.pc = "paged"
    <3>1. PICK status : status = call.status.state
      OBVIOUS
    <3>2. call.q = r /\ later = state /\ ~purged
      BY <1>1, <1>2, <1>5, <1>8, <2>2
    <3>3. DriftAt(r, status)
      BY <3>1, <3>2 DEF Drift
    <3>4. status \in {state, "capturing"}
      BY <2>2, <3>1 DEF Remembered
    <3>5. \/ status = later /\ UNCHANGED report
          \/ \A x \in base \cup ToSet(got) : x[1] # "aggregate"
      <4>1. CASE \A x \in base \cup ToSet(got) : x[1] # "aggregate"
        BY <4>1
      <4>2. CASE \E x \in base \cup ToSet(got) : x[1] = "aggregate"
        <5>1. PICK x \in base \cup ToSet(got) : x[1] = "aggregate"
          BY <4>2
        <5>2. Kept(x)
          BY DEF Remembered
        <5>3. status # "capturing"
          BY <3>1, <5>1, <5>2 DEF Kept
        <5> QED BY <1>1, <3>2, <3>4, <5>3
      <4> QED BY <4>1, <4>2
    <3>6. Midway
      BY <2>2 DEF Midway, Remembered
    <3>7. call'.pc = call.pc \/ (call'.pc = "resolved" /\ ~purged /\ (Midway' => Midway))
      BY <2>2, <3>2, <3>6
    <3> QED BY <1>1, <1>5, <1>6, <3>1, <3>2, <3>3, <3>5, <3>7, DriftQuiet
  <2> QED BY <1>1, <1>2, <1>5, <2>1, <2>2
<1>9. \A q \in Requests : \A later :
          call'.q = q /\ call'.status.state = later => q = r /\ later = call'.status.state
  BY <1>5
<1>10. PICK later : later = call'.status.state
  OBVIOUS
<1>11. DriftAt(r, later)'
  BY <1>8, <1>10
<1> QED BY <1>7, <1>9, <1>10, <1>11 DEF Drift

\* Before the first page nothing has drifted.
LEMMA DriftInit == Init => Drift
<1> SUFFICES ASSUME Init PROVE Drift
  OBVIOUS
<1>1. got = <<>> /\ inserted = 0 /\ call.pc = "idle"
  BY DEF Init
<1>2. {i \in DOMAIN got : \E j \in 1..(i - 1) : got[j] = got[i]} = {}
  BY <1>1
<1>3. Repeats = 0
  BY <1>2, FS_EmptySet DEF Repeats
<1> QED BY <1>1, <1>3 DEF Drift, DriftAt, Midway

\* Every step keeps the drift of a listing within what was added and removed meanwhile.
LEMMA DriftStep ==
    ASSUME FilesInKeyOrder, Typed, Typed', Remembered, Drift, [Next]_vars
    PROVE  Drift'
<1>0. FilesTyped' /\ inserted' \in Nat /\ removed' \in Nat /\ inserted \in Nat /\ removed \in Nat /\ Repeats \in Nat
  BY RepeatsNumber DEF Typed
<1>1. ASSUME UNCHANGED <<call, got>>, inserted' >= inserted,
             \A q \in Requests : \A status :
                 call.q = q /\ call.status.state = status /\ DriftAt(q, status) => DriftAt(q, status)'
      PROVE  Drift'
  <2>1. Repeats' = Repeats
    BY <1>1 DEF Repeats
  <2>2. Repeats' <= inserted'
    BY <1>0, <1>1, <2>1 DEF Drift
  <2> QED BY <1>1, <2>2 DEF Drift
<1>2. ASSUME NEW w \in Workloads, WritePolicy(w) PROVE Drift'
  <2>1. UNCHANGED <<call, got>> /\ inserted' >= inserted
    BY <1>0, <1>2 DEF WritePolicy, client
  <2>2. \A q \in Requests : \A status : DriftAt(q, status) => DriftAt(q, status)'
    BY <1>0, <1>2, DriftPolicy
  <2> QED BY <1>1, <2>1, <2>2
<1>3. ASSUME NEW w \in Workloads, NEW r \in Rules, NEW t \in Times, WriteEvidence(w, r, t)
      PROVE  Drift'
  <2> DEFINE N == Newest(evidence[w][r] \cup {t})
  <2>1. UNCHANGED <<call, got>> /\ inserted' \in {inserted, inserted + Cardinality(N \ evidence[w][r])}
    BY <1>3 DEF WriteEvidence, client, drift
  <2>2. Cardinality(N \ evidence[w][r]) \in Nat
    <3>1. N = Newest(evidence[w][r] \cup {t}) /\ FilesTyped
      BY DEF Typed
    <3> HIDE DEF N
    <3>2. OneForOne(evidence[w][r], N, t)
      BY <1>3, <3>1, EvidenceDrift
    <3> QED BY <3>2 DEF OneForOne
  <2> HIDE DEF N
  <2>3. inserted' >= inserted
    BY <1>0, <2>1, <2>2
  <2>4. \A q \in Requests : \A status : DriftAt(q, status) => DriftAt(q, status)'
    BY <1>0, <1>3, DriftEvidence
  <2> QED BY <1>1, <2>1, <2>3, <2>4
<1>4. ASSUME UNCHANGED <<policies, evidence, purged, call, base, got, inserted, removed>>,
             \/ UNCHANGED report
             \/ \A x \in base \cup ToSet(got) : x[1] # "aggregate"
      PROVE  Drift'
  <2>1. ASSUME NEW q \in Requests, NEW status, call.q = q, call.status.state = status, DriftAt(q, status)
        PROVE  DriftAt(q, status)'
    <3>1. call'.after = call.after /\ call'.pc = call.pc
      BY <1>4
    <3> QED BY <1>0, <1>4, <2>1, <3>1, DriftQuiet
  <2>2. inserted' >= inserted
    BY <1>0, <1>4
  <2> QED BY <1>1, <1>4, <2>1, <2>2
<1>5. ASSUME NEW w \in Workloads, NEW reason \in Reasons, Accumulate(w, reason) PROVE Drift'
  BY <1>4, <1>5 DEF Accumulate, session, client, drift
<1>6. CASE PipelineExits
  <2>1. UNCHANGED <<policies, evidence, purged, call, base, got, inserted, removed>> /\ pipeline = "running"
    BY <1>6 DEF PipelineExits, client, drift
  <2>2. \A x \in base \cup ToSet(got) : x[1] # "aggregate"
    BY <2>1 DEF Remembered, Kept
  <2> QED BY <1>4, <2>1, <2>2
<1>7. CASE StopsByItself \/ StopCancels \/ StopReturns
  <2>1. UNCHANGED <<policies, evidence, report, purged, call, base, got, inserted, removed>>
    BY <1>7 DEF StopsByItself, StopCancels, StopReturns, files, client, drift
  <2> QED BY <1>4, <2>1
<1>8. CASE Purge
  <2>1. UNCHANGED <<call, got>> /\ inserted' >= inserted
    BY <1>0, <1>8 DEF Purge, client
  <2>2. \A q \in Requests : \A status : DriftAt(q, status) => DriftAt(q, status)'
    BY <1>0, <1>8, DriftPurge DEF Drift
  <2> QED BY <1>1, <2>1, <2>2
<1>9. ASSUME NEW q \in Requests, Resolve(q) PROVE Drift'
  BY <1>9, DriftResolve
<1>10. CASE AnswerPage
  BY <1>10, DriftAnswer
<1>11. ASSUME NEW x, x \notin {"resolved", "paged", "done"}, call' = [call EXCEPT !.pc = x],
              UNCHANGED <<got, inserted>>
       PROVE  Drift'
  <2>1. call = [pc |-> call.pc, q |-> call.q, after |-> call.after, status |-> call.status]
    BY DEF Typed
  <2>2. call'.pc = x
    BY <1>11, <2>1
  <2>3. \A q \in Requests : \A status : DriftAt(q, status)'
    BY <1>11, <2>2 DEF DriftAt, Midway
  <2>4. Repeats' <= inserted'
    BY <1>11 DEF Drift, Repeats
  <2> QED BY <2>3, <2>4 DEF Drift
<1>12. CASE AnswerNotFound
  BY <1>11, <1>12 DEF AnswerNotFound, drift
<1>13. CASE AnswerHealth
  <2> DEFINE x == ClusterHealthBranch(call.status)
  <2>1. call' = [call EXCEPT !.pc = x] /\ UNCHANGED <<got, inserted>>
    BY <1>13 DEF AnswerHealth, drift
  <2>2. x \notin {"resolved", "paged", "done"}
    BY DEF ClusterHealthBranch
  <2> HIDE DEF x
  <2> QED BY <1>11, <2>1, <2>2
<1>14. CASE UNCHANGED vars
  BY <1>4, <1>14 DEF vars, files, session, client, drift
<1> QED BY <1>2, <1>3, <1>5, <1>6, <1>7, <1>8, <1>9, <1>10, <1>12, <1>13, <1>14 DEF Next

\* The budget is what D-06 promises.
LEMMA DriftSuffices == Typed /\ Drift => DriftBounded
<1> SUFFICES ASSUME Typed, Drift PROVE DriftBounded
  OBVIOUS
<1>1. ASSUME call.pc = "done"
      PROVE  Cardinality({x \in base : x \in Present(call.q, call.status.state) /\ ~Contains(got, x)}) <= removed
  <2>1. PICK q : q = call.q
    OBVIOUS
  <2>2. PICK status : status = call.status.state
    OBVIOUS
  <2>3. q \in Requests
    BY <1>1, <2>1 DEF Typed
  <2>4. DriftAt(q, status)
    BY <2>1, <2>2, <2>3 DEF Drift
  <2>5. Cardinality((base \cap Present(q, status)) \ ToSet(got)) <= removed
    BY <1>1, <2>4 DEF DriftAt
  <2>6. \A x : Contains(got, x) <=> x \in ToSet(got)
    BY DEF Contains, ToSet
  <2> DEFINE P == Present(q, status)
             R == {x \in base : x \in P /\ ~Contains(got, x)}
             S == (base \cap P) \ ToSet(got)
  <2> HIDE DEF P
  <2>7. R = S
    BY <2>6
  <2> HIDE DEF R, S
  <2>8. Cardinality(R) <= removed
    BY <2>5, <2>7 DEF S, P
  <2> QED BY <2>1, <2>2, <2>8 DEF R, P
<1> QED BY <1>1 DEF Drift, DriftBounded

\* D-06: when ReadDir lists the files in key order, a client that pages while the capture
\* writes, evicts and purges receives no more rows twice than rows were added, and misses
\* no more of the rows that were there from the first page on than rows were removed.
THEOREM ListingsDegradeByTheRow == ASSUME FilesInKeyOrder PROVE Spec => []DriftBounded
<1> DEFINE Inv == Typed /\ Remembered /\ Drift
<1>1. Init => Inv
  BY TypedInit, RememberedInit, DriftInit
<1>2. Inv /\ [Next]_vars => Inv'
  BY TypedStep, RememberedStep, DriftStep
<1>3. Inv => DriftBounded
  BY DriftSuffices
<1> HIDE DEF Inv
<1> QED BY <1>1, <1>2, <1>3, PTL DEF Spec
=============================================================================
