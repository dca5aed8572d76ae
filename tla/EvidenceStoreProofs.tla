------------------------ MODULE EvidenceStoreProofs ------------------------
(***************************************************************************)
(* The evidence file survives crashes, failed writes and overlapping runs, *)
(* for any number of runs, any flows and any caps, and what the merges     *)
(* compute flush after flush is what one computation over all the flows    *)
(* would give.                                                             *)
(***************************************************************************)
EXTENDS EvidenceStore, SequenceLemmas

\* A run renames only a temporary file it has filled, and is inside Write only
\* when the file it read was absent or a document, which it stays.
Atomic ==
    /\ pc \in [Runs -> Pcs] /\ temp \in [Runs -> {"none", "partial", "full"}]
    /\ wrote \in [Runs -> {"nothing", "open", "final"}]
    /\ closing \in [Runs -> BOOLEAN]
    /\ \A r \in Runs : pc[r] = "rename" => temp[r] = "full"
    /\ \A r \in Runs : Writing(r) => file.kind \in {"absent", "doc"}
    /\ file.kind \in {"absent", "foreign", "doc"}
    /\ file.kind = "doc" <=> \E r \in Runs : wrote[r] # "nothing"

\* Nothing is written or read when the runs start.
LEMMA AtomicInit == Init => Atomic
  <1> SUFFICES ASSUME Init PROVE Atomic
    OBVIOUS
  <1>1. file.kind \in {"absent", "foreign"}
    BY DEF Init
  <1>2. /\ pc = [r \in Runs |-> "idle"] /\ temp = [r \in Runs |-> "none"]
        /\ wrote = [r \in Runs |-> "nothing"] /\ closing = [r \in Runs |-> FALSE]
    BY DEF Init
  <1> QED
    BY <1>1, <1>2 DEF Atomic, Writing, Pcs

\* Every step keeps the evidence file whole: it is replaced by a rename alone.
LEMMA AtomicStep == Atomic /\ [Next]_vars => Atomic'
  <1> SUFFICES ASSUME Atomic, [Next]_vars PROVE Atomic'
    OBVIOUS
  <1> USE DEF histVars
  <1>1. CASE UNCHANGED vars
    BY <1>1 DEF Atomic, Writing, vars
  <1>2. ASSUME NEW r \in Runs, Handle(r) \/ Finalize(r) PROVE Atomic'
    <2>1. /\ pc' = [pc EXCEPT ![r] = "create"] /\ file.kind \in {"absent", "doc"}
          /\ UNCHANGED <<file, temp, wrote>>
      BY <1>2 DEF Handle, Finalize, OpenWrite
    <2>2. closing' = closing \/ closing' = [closing EXCEPT ![r] = TRUE]
      BY <1>2 DEF Handle, Finalize
    <2> QED
      BY <2>1, <2>2 DEF Atomic, Writing, Pcs
  <1>3. ASSUME NEW r \in Runs, HandleFails(r) PROVE Atomic'
    BY <1>3 DEF HandleFails, Atomic, Writing
  <1>4. ASSUME NEW r \in Runs, FinalizeNothing(r) PROVE Atomic'
    BY <1>4 DEF FinalizeNothing, Atomic, Writing, Pcs
  <1>5. ASSUME NEW r \in Runs, CreateTemp(r) PROVE Atomic'
    BY <1>5 DEF CreateTemp, Atomic, Writing, Pcs
  <1>6. ASSUME NEW r \in Runs, FillTemp(r) PROVE Atomic'
    BY <1>6 DEF FillTemp, Atomic, Writing, Pcs
  <1>7. ASSUME NEW r \in Runs, Rename(r) PROVE Atomic'
    <2>1. file'.kind = "doc"
      BY <1>7 DEF Rename, Atomic
    <2>2. /\ pc' = [pc EXCEPT ![r] = Returned(r)] /\ temp' = [temp EXCEPT ![r] = "none"]
          /\ wrote' = [wrote EXCEPT ![r] = IF closing[r] THEN "final" ELSE "open"]
          /\ UNCHANGED closing
      BY <1>7 DEF Rename
    <2>3. Returned(r) \in {"done", "idle"}
      BY DEF Returned
    <2> QED
      BY <2>1, <2>2, <2>3 DEF Atomic, Writing, Pcs
  <1>8. ASSUME NEW r \in Runs, WriteFails(r) PROVE Atomic'
    <2>1. /\ pc' = [pc EXCEPT ![r] = Returned(r)] /\ temp' = [temp EXCEPT ![r] = "none"]
          /\ UNCHANGED <<file, wrote, closing>>
      BY <1>8 DEF WriteFails
    <2>2. Returned(r) \in {"done", "idle"}
      BY DEF Returned
    <2> QED
      BY <2>1, <2>2 DEF Atomic, Writing, Pcs
  <1>9. ASSUME NEW r \in Runs, Crash(r) PROVE Atomic'
    BY <1>9 DEF Crash, Atomic, Writing, Pcs
  <1> QED
    BY <1>1, <1>2, <1>3, <1>4, <1>5, <1>6, <1>7, <1>8, <1>9 DEF Next

\* Writer.Write: the file at the path is never torn, it is a document exactly when
\* some run has renamed one there, and a file of another version is left alone.
THEOREM FileStaysReadable == Spec => []Readable
  <1>1. Atomic => Readable
    BY DEF Atomic, Readable, Committers
  <1> QED
    BY <1>1, AtomicInit, AtomicStep, PTL DEF Spec

-----------------------------------------------------------------------------
(* Sorting and counting.                                                   *)

\* The positions of a stable sort: each once, by ascending value.
LEMMA OrderFacts ==
    ASSUME NEW v \in Seq(Nat), NEW n \in Nat, n = Len(v)
    PROVE  /\ Order(v) \in Bijection(1..n, 1..n)
           /\ \A i, j \in 1..n : i <= j => v[Order(v)[i]] <= v[Order(v)[j]]
<1> DEFINE rank == [j \in 1..n |-> Cardinality(Upto(v, j))]
<1>1. /\ DOMAIN v = 1..n /\ \A j \in 1..n : v[j] \in Nat
      /\ IsFiniteSet(1..n) /\ Cardinality(1..n) = n
  <2>1. DOMAIN v = 1..n /\ \A j \in 1..n : v[j] \in Nat
    OBVIOUS
  <2>2. IsFiniteSet(1..n) /\ Cardinality(1..n) = IF 1 > n THEN 0 ELSE n - 1 + 1
    <3>1. 1 \in Int /\ n \in Int
      OBVIOUS
    <3> QED BY <3>1, FS_Interval, Zenon
  <2> QED BY <2>1, <2>2
<1>2. ASSUME NEW j \in 1..n
      PROVE  /\ Upto(v, j) \subseteq 1..n /\ j \in Upto(v, j) /\ IsFiniteSet(Upto(v, j))
             /\ rank[j] = Cardinality(Upto(v, j)) /\ rank[j] \in 1..n
  <2>1. Upto(v, j) \subseteq 1..n /\ j \in Upto(v, j)
    BY <1>1 DEF Upto
  <2>2. IsFiniteSet(Upto(v, j)) /\ Cardinality(Upto(v, j)) <= n
    BY <1>1, <2>1, FS_Subset
  <2>3. Cardinality(Upto(v, j)) \in Nat /\ Cardinality(Upto(v, j)) # 0
    BY <2>1, <2>2, FS_CardinalityType, FS_EmptySet
  <2> QED BY <2>1, <2>2, <2>3
<1>3. ASSUME NEW j \in 1..n, NEW k \in 1..n, v[j] < v[k] \/ (v[j] = v[k] /\ j < k)
      PROVE  rank[j] < rank[k]
  <2>1. v[j] \in Nat /\ v[k] \in Nat /\ j \in Nat /\ k \in Nat
    BY <1>1
  <2>2. k \notin Upto(v, j)
    BY <1>3, <2>1 DEF Upto
  <2>3. Upto(v, j) \subseteq Upto(v, k)
    <3> SUFFICES ASSUME NEW i \in 1..n, v[i] < v[j] \/ (v[i] = v[j] /\ i <= j)
                 PROVE  v[i] < v[k] \/ (v[i] = v[k] /\ i <= k)
      BY <1>1 DEF Upto
    <3>1. v[i] \in Nat /\ i \in Nat
      BY <1>1
    <3> QED BY <1>3, <2>1, <3>1
  <2> QED BY <1>2, <2>2, <2>3, Fewer
<1>4. rank \in Bijection(1..n, 1..n)
  <2>1. rank \in [1..n -> 1..n]
    BY <1>2
  <2>2. ASSUME NEW a \in 1..n, NEW b \in 1..n, rank[a] = rank[b] PROVE a = b
    <3>1. ~(rank[a] < rank[b]) /\ ~(rank[b] < rank[a])
      BY <2>2, <1>2
    <3>2. ~(v[a] < v[b]) /\ ~(v[b] < v[a]) /\ (v[a] = v[b] => ~(a < b) /\ ~(b < a))
      BY <1>3, <3>1
    <3> QED BY <1>1, <3>2
  <2> HIDE DEF rank
  <2>3. rank \in Injection(1..n, 1..n)
    <3>1. \A a, b \in 1..n : rank[a] = rank[b] => a = b
      BY <2>2
    <3> QED BY <2>1, <3>1, Fun_IsInj
  <2>4. rank \in Surjection(1..n, 1..n)
    BY <1>1, <2>3, FS_Injection
  <2> QED BY <2>3, <2>4, Fun_IsBij
<1>5. /\ \A a, b \in 1..n : rank[a] = rank[b] => a = b
      /\ \A i \in 1..n : \E j \in 1..n : rank[j] = i
  <2> HIDE DEF rank
  <2> QED BY <1>4 DEF Bijection, Injection, Surjection, IsInjective
<1>6. ASSUME NEW i \in 1..n PROVE Order(v)[i] \in 1..n /\ rank[Order(v)[i]] = i
  <2>1. Order(v)[i] = CHOOSE j \in 1..n : Cardinality(Upto(v, j)) = i
    BY <1>1 DEF Order
  <2>2. \E j \in 1..n : Cardinality(Upto(v, j)) = i
    BY <1>2, <1>5
  <2>3. Order(v)[i] \in 1..n /\ Cardinality(Upto(v, Order(v)[i])) = i
    BY <2>1, <2>2
  <2> QED BY <1>2, <2>3
<1> DEFINE p == Order(v)
<1>7. p \in [1..n -> 1..n]
  <2>1. p = [i \in 1..n |-> p[i]]
    BY <1>1 DEF Order
  <2> QED BY <1>6, <2>1
<1> HIDE DEF rank, p
<1>8. p \in Bijection(1..n, 1..n)
  <2>1. \A a, b \in 1..n : p[a] = p[b] => a = b
    BY <1>6 DEF p
  <2>2. p \in Injection(1..n, 1..n)
    BY <1>7, <2>1, Fun_IsInj
  <2>3. p \in Surjection(1..n, 1..n)
    BY <1>1, <2>2, FS_Injection
  <2> QED BY <2>2, <2>3, Fun_IsBij
<1>9. ASSUME NEW i \in 1..n, NEW j \in 1..n, i <= j PROVE v[p[i]] <= v[p[j]]
  <2>1. p[i] \in 1..n /\ p[j] \in 1..n /\ rank[p[i]] = i /\ rank[p[j]] = j
    BY <1>6 DEF p
  <2>2. ~(v[p[j]] < v[p[i]])
    <3>1. ~(rank[p[j]] < rank[p[i]])
      BY <1>9, <2>1
    <3> QED BY <1>3, <2>1, <3>1 DEF rank
  <2>3. v[p[i]] \in Nat /\ v[p[j]] \in Nat
    BY <1>1, <2>1
  <2> QED BY <2>2, <2>3
<1> QED BY <1>8, <1>9 DEF p

\* A sequence of flow times holds a time finitely often.
LEMMA CountFacts ==
    ASSUME NEW S, NEW s \in Seq(S), NEW t
    PROVE  /\ Count(s, t) \in Nat
           /\ {i \in DOMAIN s : s[i] = t} \subseteq 1..Len(s)
           /\ IsFiniteSet({i \in DOMAIN s : s[i] = t})
<1> DEFINE A == {i \in DOMAIN s : s[i] = t}
<1>1. A \subseteq 1..Len(s) /\ 1 \in Int /\ Len(s) \in Int
  OBVIOUS
<1>2. IsFiniteSet(1..Len(s))
  BY <1>1, FS_Interval
<1>3. IsFiniteSet(A)
  BY <1>1, <1>2, FS_Subset
<1> QED BY <1>1, <1>3, FS_CardinalityType DEF Count

\* Sorting by time permutes.
LEMMA ByTimeFacts ==
    ASSUME NEW S \in SUBSET Nat, NEW s \in Seq(S), NEW n, n = Len(s)
    PROVE  /\ ByTime(s) \in Seq(S) /\ Len(ByTime(s)) = n
           /\ \A i, j \in 1..n : i <= j => ByTime(s)[i] <= ByTime(s)[j]
           /\ {ByTime(s)[i] : i \in DOMAIN ByTime(s)} = {s[i] : i \in DOMAIN s}
           /\ \A t : Count(ByTime(s), t) = Count(s, t)
<1>1. n \in Nat /\ s \in Seq(Nat) /\ DOMAIN s = 1..n /\ \A i \in 1..n : s[i] \in S
  <2>1. n \in Nat /\ DOMAIN s = 1..n /\ \A i \in 1..n : s[i] \in S
    OBVIOUS
  <2>2. \A x \in S : x \in Nat
    OBVIOUS
  <2>3. s \in Seq(Nat)
    BY <2>1, <2>2, SeqIsSeq, IsSeqIn
  <2> QED BY <2>1, <2>3
<1> DEFINE p == Order(s)
           b == ByTime(s)
<1>2. p \in Bijection(1..n, 1..n) /\ \A i, j \in 1..n : i <= j => s[p[i]] <= s[p[j]]
  BY <1>1, OrderFacts
<1>3. b = [i \in 1..n |-> s[p[i]]]
  BY <1>1 DEF ByTime
<1> HIDE DEF p, b
<1>4. /\ \A i \in 1..n : p[i] \in 1..n
      /\ \A i, j \in 1..n : p[i] = p[j] => i = j
      /\ \A j \in 1..n : \E i \in 1..n : p[i] = j
  BY <1>2 DEF Bijection, Injection, Surjection, IsInjective
<1>5. b \in Seq(S) /\ Len(b) = n /\ DOMAIN b = 1..n
  BY <1>1, <1>3, <1>4
<1>6. \A i, j \in 1..n : i <= j => b[i] <= b[j]
  BY <1>2, <1>3
<1>7. {b[i] : i \in DOMAIN b} = {s[i] : i \in DOMAIN s}
  <2>1. \A i \in 1..n : b[i] = s[p[i]] /\ p[i] \in 1..n
    BY <1>3, <1>4
  <2>2. \A j \in 1..n : \E i \in 1..n : s[j] = b[i]
    BY <1>4, <2>1
  <2>3. ASSUME NEW x \in {b[i] : i \in 1..n} PROVE x \in {s[i] : i \in 1..n}
    BY <2>1
  <2>4. ASSUME NEW x \in {s[i] : i \in 1..n} PROVE x \in {b[i] : i \in 1..n}
    BY <2>2
  <2>5. DOMAIN b = 1..n /\ DOMAIN s = 1..n
    BY <1>1, <1>5
  <2> QED BY <2>3, <2>4, <2>5
<1>8. ASSUME NEW t PROVE Count(b, t) = Count(s, t)
  <2> DEFINE A == {i \in DOMAIN b : b[i] = t}
             B == {j \in DOMAIN s : s[j] = t}
             f == [i \in A |-> p[i]]
  <2>1. IsFiniteSet(A)
    BY <1>5, CountFacts
  <2>2. A \subseteq 1..n /\ B \subseteq 1..n
    BY <1>1, <1>5
  <2>3. \A i \in A : f[i] = p[i] /\ f[i] \in B
    BY <1>1, <1>3, <1>4, <1>5
  <2>4. \A j \in B : \E i \in A : f[i] = j
    BY <1>1, <1>3, <1>4, <1>5
  <2>5. \A i, j \in A : f[i] = f[j] => i = j
    BY <1>4, <2>2, <2>3
  <2>6. f = [i \in A |-> f[i]]
    OBVIOUS
  <2> HIDE DEF A, B, f
  <2>7. Cardinality(B) = Cardinality(A)
    BY <2>1, <2>3, <2>4, <2>5, <2>6, SameCount
  <2> QED BY <2>7 DEF A, B, Count
<1> QED BY <1>5, <1>6, <1>7, <1>8 DEF b

\* A value occurs in a concatenation as often as in its parts.
LEMMA CountConcat ==
    ASSUME NEW S, NEW a \in Seq(S), NEW b \in Seq(S), NEW t
    PROVE  Count(a \o b, t) = Count(a, t) + Count(b, t)
<1> DEFINE m == a \o b
           k == Len(a)
           A == {i \in DOMAIN a : a[i] = t}
           B == {i \in DOMAIN b : b[i] = t}
           M == {i \in DOMAIN m : m[i] = t}
           C == {i \in M : i > k}
           f == [i \in B |-> i + k]
<1>1. /\ m \in Seq(S) /\ k \in Nat /\ Len(m) = k + Len(b) /\ Len(b) \in Nat
      /\ DOMAIN m = 1..(k + Len(b)) /\ DOMAIN a = 1..k /\ DOMAIN b = 1..Len(b)
      /\ \A i \in 1..k : m[i] = a[i]
      /\ \A i \in 1..Len(b) : m[i + k] = b[i]
  OBVIOUS
<1>2. IsFiniteSet(A) /\ IsFiniteSet(B) /\ IsFiniteSet(M) /\ Count(a, t) \in Nat /\ Count(b, t) \in Nat
  BY <1>1, CountFacts
<1> HIDE DEF m, k
<1>3. A \cup C = M /\ A \cap C = {} /\ C \subseteq M
  <2>1. A \subseteq M
    BY <1>1
  <2>2. \A i \in M : i > k \/ i \in A
    BY <1>1
  <2>3. \A i \in A : ~(i > k)
    BY <1>1
  <2> QED BY <2>1, <2>2, <2>3
<1>4. IsFiniteSet(C)
  BY <1>2, <1>3, FS_Subset
<1>5. Cardinality(C) = Cardinality(B)
  <2>1. \A i \in B : f[i] = i + k /\ f[i] \in C /\ i \in Nat
    BY <1>1
  <2>2. \A j \in C : \E i \in B : f[i] = j
    <3> SUFFICES ASSUME NEW j \in C PROVE \E i \in B : f[i] = j
      OBVIOUS
    <3>1. j - k \in 1..Len(b) /\ (j - k) + k = j
      BY <1>1
    <3>2. j - k \in B
      BY <1>1, <3>1
    <3> QED BY <3>1, <3>2
  <2>3. \A i, j \in B : f[i] = f[j] => i = j
    BY <1>1, <2>1
  <2>4. f = [i \in B |-> f[i]]
    OBVIOUS
  <2> HIDE DEF B, C, f
  <2> QED BY <1>2, <2>1, <2>2, <2>3, <2>4, SameCount
<1>6. Cardinality(M) = Cardinality(A) + Cardinality(C) - Cardinality({})
  <2> HIDE DEF A, C, M
  <2> QED BY <1>2, <1>3, <1>4, FS_Union
<1>7. Count(m, t) = Cardinality(M) /\ Count(a, t) = Cardinality(A) /\ Count(b, t) = Cardinality(B)
  BY DEF Count
<1> HIDE DEF A, B, C, M
<1>8. Count(m, t) = Count(a, t) + Count(b, t)
  BY <1>2, <1>5, <1>6, <1>7, FS_EmptySet
<1> QED BY <1>8 DEF m

\* What is left of a sequence when its first d elements are dropped.
Suffix(k, q, d) ==
    /\ Len(k) = Len(q) - d
    /\ \A i \in 1..Len(k) : k[i] = q[d + i]

\* A suffix holds a time no more often than the sequence, and as often when nothing of it was cut.
LEMMA SuffixCount ==
    ASSUME NEW S, NEW q \in Seq(S), NEW d \in 0..Len(q), NEW k \in Seq(S), Suffix(k, q, d), NEW t
    PROVE  /\ Count(k, t) <= Count(q, t)
           /\ (\A j \in 1..d : q[j] # t) => Count(k, t) = Count(q, t)
<1> DEFINE A == {i \in DOMAIN k : k[i] = t}
           Q == {j \in DOMAIN q : q[j] = t}
           B == {j \in Q : j > d}
           f == [i \in A |-> d + i]
<1>1. /\ d \in Nat /\ Len(q) \in Nat /\ Len(k) = Len(q) - d /\ Len(k) \in Nat
      /\ DOMAIN k = 1..Len(k) /\ DOMAIN q = 1..Len(q)
      /\ \A i \in 1..Len(k) : k[i] = q[d + i]
  BY DEF Suffix
<1>2. IsFiniteSet(A) /\ IsFiniteSet(Q) /\ B \subseteq Q
  BY CountFacts
<1>3. Cardinality(B) = Cardinality(A)
  <2>1. \A i \in A : f[i] = d + i /\ f[i] \in B /\ i \in Nat
    BY <1>1
  <2>2. \A j \in B : \E i \in A : f[i] = j
    <3> SUFFICES ASSUME NEW j \in B PROVE \E i \in A : f[i] = j
      OBVIOUS
    <3>1. j - d \in 1..Len(k) /\ d + (j - d) = j
      BY <1>1
    <3>2. j - d \in A
      BY <1>1, <3>1
    <3> QED BY <3>1, <3>2
  <2>3. \A i, j \in A : f[i] = f[j] => i = j
    BY <1>1, <2>1
  <2>4. f = [i \in A |-> f[i]]
    OBVIOUS
  <2> HIDE DEF A, B, f
  <2> QED BY <1>2, <2>1, <2>2, <2>3, <2>4, SameCount
<1>4. (\A j \in 1..d : q[j] # t) => B = Q
  BY <1>1
<1>5. Cardinality(B) <= Cardinality(Q)
  BY <1>2, FS_Subset
<1> QED BY <1>3, <1>4, <1>5 DEF Count

-----------------------------------------------------------------------------
(* The sample cap.                                                         *)

\* The caps and bounds are numbers, and a missing time is one of the times.
LEMMA CapsFacts ==
    /\ MaxSamples \in Nat /\ MaxSamples > 0 /\ MaxSessions \in Nat /\ MaxTime \in Nat
    /\ MaxFlows \in Nat /\ MaxBatch \in Nat
    /\ Times \subseteq Nat /\ Undated \in Times /\ Runs \subseteq Nat
BY CapsAssumption DEF Times, Undated

Dropped(n) == IF n > MaxSamples THEN n - MaxSamples ELSE 0

\* What capSamples keeps is the end of the sorted samples.
LEMMA CapFacts ==
    ASSUME NEW s \in Seq(Times), NEW n, n = Len(s)
    PROVE  /\ capSamples(s) \in Seq(Times) /\ Suffix(capSamples(s), ByTime(s), Dropped(n))
           /\ Len(capSamples(s)) = IF n > MaxSamples THEN MaxSamples ELSE n
           /\ n \in Nat /\ Dropped(n) \in 0..n
<1> DEFINE q == ByTime(s)
           k == capSamples(s)
           d == Dropped(n)
<1>1. n \in Nat /\ q \in Seq(Times) /\ Len(q) = n
  BY CapsFacts, ByTimeFacts
<1>2. d \in 0..n /\ (n > MaxSamples => d = n - MaxSamples) /\ (~(n > MaxSamples) => d = 0)
  BY <1>1, CapsFacts DEF Dropped
<1>3. CASE n > MaxSamples
  <2>1. k = SubSeq(q, d + 1, n)
    BY <1>1, <1>2, <1>3, CapsFacts DEF capSamples
  <2> HIDE DEF q, k, d
  <2>2. d + 1 \in Int /\ n \in Int /\ d + 1 <= n /\ n - (d + 1) + 1 = n - d
    BY <1>1, <1>2, <1>3, CapsFacts
  <2>3. \A i \in (d + 1)..n : q[i] \in Times
    <3>1. \A i \in (d + 1)..n : i \in 1..n
      BY <1>1, <1>2
    <3> QED BY <1>1, <3>1
  <2>4. /\ k \in Seq(Times) /\ Len(k) = n - d
        /\ \A i \in 1..(n - d) : k[i] = q[(d + 1) + i - 1]
    BY <2>1, <2>2, <2>3, SubSeqProperties
  <2>5. \A i \in 1..(n - d) : (d + 1) + i - 1 = d + i
    BY <1>1, <1>2
  <2>6. Suffix(k, q, d)
    BY <1>1, <2>4, <2>5 DEF Suffix
  <2>7. n - d = MaxSamples
    BY <1>1, <1>2, <1>3, CapsFacts
  <2> QED BY <1>1, <1>2, <1>3, <2>4, <2>6, <2>7 DEF k, q, d
<1>4. CASE ~(n > MaxSamples)
  <2>1. k = q
    BY <1>4 DEF capSamples
  <2> HIDE DEF q, k, d
  <2>2. Suffix(k, q, d)
    BY <1>1, <1>2, <1>4, <2>1 DEF Suffix
  <2> QED BY <1>1, <1>2, <1>4, <2>1, <2>2 DEF k, q, d
<1> QED BY <1>3, <1>4

\* The newest of all samples, as many as the cap allows, and all of them up to there.
Kept(kept, all) ==
    /\ Len(kept) = IF Len(all) > MaxSamples THEN MaxSamples ELSE Len(all)
    /\ \A t \in Times : Count(kept, t) <= Count(all, t)
    /\ \A t \in Times : Count(kept, t) < Count(all, t) => \A i \in DOMAIN kept : kept[i] >= t
    /\ Len(all) <= MaxSamples => \A t \in Times : Count(kept, t) = Count(all, t)

\* If the first c samples are not older than t, the last c of all sorted are not.
LEMMA NewestLast ==
    ASSUME NEW m \in Seq(Times), NEW n, n = Len(m), NEW c \in 0..n, NEW t \in Times,
           \A i \in 1..c : m[i] >= t,
           NEW j \in (n - c + 1)..n
    PROVE  ByTime(m)[j] >= t
<1> DEFINE p == Order(m)
           q == ByTime(m)
<1>1. /\ n \in Nat /\ c \in Nat /\ c <= n /\ j \in 1..n /\ j > n - c
      /\ DOMAIN m = 1..n /\ \A i \in 1..n : m[i] \in Times
  OBVIOUS
<1>2. m \in Seq(Nat)
  <2>1. ToSet(m) \subseteq Nat /\ IsSeq(m)
    BY CapsFacts, SeqIsSeq
  <2> QED BY <2>1, IsSeqIn
<1>3. p \in Bijection(1..n, 1..n) /\ \A a, b \in 1..n : a <= b => m[p[a]] <= m[p[b]]
  BY <1>1, <1>2, OrderFacts
<1>4. q[j] = m[p[j]]
  BY <1>1 DEF ByTime
<1> HIDE DEF p, q
<1>5. (\A a \in 1..n : p[a] \in 1..n) /\ (\A a, b \in 1..n : p[a] = p[b] => a = b)
  BY <1>3 DEF Bijection, Injection, IsInjective
<1>6. ASSUME ~(q[j] >= t) PROVE FALSE
  <2> DEFINE f == [a \in 1..j |-> p[a]]
  <2>1. ASSUME NEW a \in 1..j PROVE p[a] \in (c + 1)..n
    <3>1. a \in 1..n /\ a <= j
      BY <1>1
    <3>2. p[a] \in 1..n /\ m[p[a]] <= m[p[j]] /\ p[j] \in 1..n
      BY <1>1, <1>3, <1>5, <3>1
    <3>3. m[p[a]] \in Nat /\ m[p[j]] \in Nat /\ t \in Nat
      BY <1>1, <3>2, CapsFacts
    <3>4. ~(m[p[a]] >= t)
      BY <1>4, <1>6, <3>2, <3>3
    <3>5. p[a] \notin 1..c
      BY <3>4
    <3> QED BY <1>1, <3>2, <3>5
  <2>2. f \in [1..j -> (c + 1)..n]
    BY <2>1
  <2>3. \A a, b \in 1..j : f[a] = f[b] => a = b
    <3>1. 1..j \subseteq 1..n
      BY <1>1
    <3> QED BY <1>5, <3>1
  <2>4. IsFiniteSet(1..j) /\ Cardinality(1..j) = j
    <3>1. 1 \in Int /\ j \in Int /\ ~(1 > j) /\ j - 1 + 1 = j
      BY <1>1
    <3>2. IsFiniteSet(1..j) /\ Cardinality(1..j) = IF 1 > j THEN 0 ELSE j - 1 + 1
      BY <3>1, FS_Interval, Zenon
    <3> QED BY <3>1, <3>2
  <2>5. IsFiniteSet((c + 1)..n) /\ Cardinality((c + 1)..n) = n - c
    <3>1. c + 1 \in Int /\ n \in Int
      BY <1>1
    <3>2. IsFiniteSet((c + 1)..n) /\ Cardinality((c + 1)..n) = IF c + 1 > n THEN 0 ELSE n - (c + 1) + 1
      BY <3>1, FS_Interval, Zenon
    <3> QED BY <1>1, <3>2
  <2>6. f \in Injection(1..j, (c + 1)..n)
    <3> HIDE DEF f
    <3> QED BY <2>2, <2>3 DEF Injection, IsInjective
  <2>7. Cardinality(1..j) <= Cardinality((c + 1)..n)
    <3> HIDE DEF f
    <3> QED BY <2>5, <2>6, FS_Injection
  <2> QED BY <1>1, <2>4, <2>5, <2>7
<1> QED BY <1>6 DEF q

\* Capping at every flush keeps what capping once would keep.
LEMMA KeptMore ==
    ASSUME NEW kept \in Seq(Times), NEW all \in Seq(Times), Kept(kept, all),
           NEW b \in Seq(Times), NEW all2 \in Seq(Times), Len(all2) = Len(all) + Len(b),
           \A t : Count(all2, t) = Count(all, t) + Count(b, t)
    PROVE  Kept(capSamples(kept \o b), all2)
<1> DEFINE m == kept \o b
           q == ByTime(m)
           k == capSamples(m)
           n == Len(m)
           d == Dropped(n)
<1>1. /\ m \in Seq(Times) /\ n = Len(kept) + Len(b) /\ Len(kept) \in Nat /\ Len(b) \in Nat
      /\ Len(all) \in Nat /\ Len(all2) \in Nat /\ n \in Nat
      /\ \A i \in 1..Len(kept) : m[i] = kept[i]
  OBVIOUS
<1>2. \A t : Count(m, t) = Count(kept, t) + Count(b, t)
  BY CountConcat
<1> HIDE DEF m
<1>3. /\ k \in Seq(Times) /\ Suffix(k, q, d) /\ Len(k) = IF n > MaxSamples THEN MaxSamples ELSE n
      /\ d \in 0..n
  BY <1>1, CapFacts
<1>4. /\ q \in Seq(Times) /\ Len(q) = n /\ \A i, j \in 1..n : i <= j => q[i] <= q[j]
      /\ \A t : Count(q, t) = Count(m, t)
  BY <1>1, CapsFacts, ByTimeFacts
<1>5. \A t : /\ Count(k, t) \in Nat /\ Count(m, t) \in Nat /\ Count(kept, t) \in Nat
             /\ Count(b, t) \in Nat /\ Count(all, t) \in Nat /\ Count(all2, t) \in Nat
  BY <1>1, <1>3, CountFacts
<1>6. ASSUME NEW t
      PROVE  /\ Count(k, t) <= Count(m, t)
             /\ (\A j \in 1..d : q[j] # t) => Count(k, t) = Count(m, t)
  <2> HIDE DEF k, q, d
  <2> QED BY <1>3, <1>4, SuffixCount
<1> HIDE DEF q, k, n
<1>7. Len(k) = IF Len(all2) > MaxSamples THEN MaxSamples ELSE Len(all2)
  BY <1>1, <1>3, CapsFacts DEF Kept
<1>8. \A t \in Times : Count(k, t) <= Count(all2, t)
  BY <1>2, <1>5, <1>6 DEF Kept
<1>9. ASSUME NEW t \in Times, Count(k, t) < Count(all2, t), NEW i \in DOMAIN k PROVE k[i] >= t
  <2>1. /\ i \in 1..Len(k) /\ Len(k) = n - d /\ d + i \in 1..n /\ k[i] = q[d + i] /\ d + i > d
        /\ q[d + i] \in Nat /\ t \in Nat
    <3>1. i \in 1..Len(k) /\ Len(k) = n - d /\ k[i] = q[d + i]
      BY <1>3, <1>4 DEF Suffix
    <3>2. d + i \in 1..n /\ d + i > d
      BY <1>1, <1>3, <3>1, SMTT(20)
    <3>3. q[d + i] \in Times
      BY <1>4, <3>2
    <3> QED BY <3>1, <3>2, <3>3, CapsFacts
  <2>2. CASE Count(k, t) < Count(m, t)
    <3>1. PICK j \in 1..d : q[j] = t
      BY <1>5, <1>6, <2>2, SMTT(20)
    <3>2. j \in 1..n /\ j <= d + i
      BY <1>1, <1>3, <2>1, SMTT(20)
    <3> QED BY <1>4, <2>1, <3>1, <3>2
  <2>3. CASE ~(Count(k, t) < Count(m, t))
    <3>1. Count(kept, t) < Count(all, t)
      BY <1>2, <1>5, <1>9, <2>3
    <3>2. (\A j \in DOMAIN kept : kept[j] >= t) /\ Len(kept) = MaxSamples
      <4>1. \A j \in DOMAIN kept : kept[j] >= t
        BY <3>1 DEF Kept
      <4>2. Len(all) > MaxSamples
        <5>1. Count(kept, t) # Count(all, t)
          BY <1>5, <3>1
        <5> QED BY <1>1, <5>1, CapsFacts DEF Kept
      <4>3. Len(kept) = IF Len(all) > MaxSamples THEN MaxSamples ELSE Len(all)
        BY DEF Kept
      <4> QED BY <4>1, <4>2, <4>3
    <3>3. \A j \in 1..Len(kept) : m[j] >= t
      <4>1. DOMAIN kept = 1..Len(kept)
        OBVIOUS
      <4> QED BY <1>1, <3>2, <4>1
    <3>4. Len(kept) \in 0..n /\ d + i \in (n - Len(kept) + 1)..n
      BY <1>1, <1>3, <2>1, <3>2, CapsFacts DEF Dropped
    <3>5. q[d + i] >= t
      <4> DEFINE c == Len(kept)
                 j == d + i
      <4>1. c \in 0..n /\ j \in (n - c + 1)..n /\ \A h \in 1..c : m[h] >= t
        BY <3>3, <3>4
      <4>2. n = Len(m)
        BY DEF n
      <4> HIDE DEF c, j
      <4>3. ByTime(m)[j] >= t
        BY <1>1, <4>1, <4>2, NewestLast
      <4> QED BY <4>3 DEF q, j
    <3> QED BY <2>1, <3>5
  <2> QED BY <2>2, <2>3
<1>10. ASSUME Len(all2) <= MaxSamples, NEW t \in Times PROVE Count(k, t) = Count(all2, t)
  <2>1. d = 0 /\ Len(all) <= MaxSamples
    BY <1>1, <1>10, CapsFacts DEF Kept, Dropped
  <2>2. Count(k, t) = Count(m, t)
    BY <1>6, <2>1
  <2> QED BY <1>2, <1>10, <2>1, <2>2 DEF Kept
<1> QED BY <1>7, <1>8, <1>9, <1>10 DEF Kept, k, m

-----------------------------------------------------------------------------
(* The totals of a rule.                                                   *)

\* The latest and the earliest of a set of dates.
LEMMA Extremes ==
    ASSUME NEW T, T \subseteq Times \ {Undated}
    PROVE  /\ T = {} => Earliest(T) = Undated /\ Latest(T) = Undated
           /\ T # {} => /\ Earliest(T) \in T /\ \A u \in T : Earliest(T) <= u
                        /\ Latest(T) \in T /\ \A u \in T : Latest(T) >= u
<1>1. T \in SUBSET Nat
  BY CapsFacts
<1>2. CASE T = {}
  BY <1>2 DEF Earliest, Latest
<1>3. CASE T # {}
  <2>1. \E t \in T : \A u \in T : t <= u
    BY <1>1, <1>3, LeastElement
  <2>2. Earliest(T) \in T /\ \A u \in T : Earliest(T) <= u
    <3> DEFINE e == CHOOSE t \in T : \A u \in T : t <= u
    <3>1. e \in T /\ \A u \in T : e <= u
      BY <2>1
    <3> HIDE DEF e
    <3> QED BY <1>3, <3>1 DEF Earliest, e
  <2>3. \E t \in T : \A u \in T : t >= u
    <3> DEFINE S == {MaxTime - t : t \in T}
    <3>1. \A t \in T : t \in 0..MaxTime
      BY DEF Times
    <3>2. S \in SUBSET Nat /\ S # {}
      <4>1. \A t \in T : MaxTime - t \in Nat
        BY <3>1, CapsFacts
      <4>2. S \subseteq Nat
        BY <4>1
      <4> QED BY <1>3, <4>2
    <3>3. PICK s \in S : \A x \in S : s <= x
      <4> HIDE DEF S
      <4> QED BY <3>2, LeastElement
    <3>4. PICK t \in T : s = MaxTime - t
      BY <3>3
    <3>5. \A u \in T : MaxTime - t <= MaxTime - u
      BY <3>3, <3>4
    <3> QED BY <3>1, <3>4, <3>5, CapsFacts
  <2>4. Latest(T) \in T /\ \A u \in T : Latest(T) >= u
    <3> DEFINE e == CHOOSE t \in T : \A u \in T : t >= u
    <3>1. e \in T /\ \A u \in T : e >= u
      BY <2>3
    <3> HIDE DEF e
    <3> QED BY <1>3, <3>1 DEF Latest, e
  <2> QED BY <1>3, <2>2, <2>4
<1> QED BY <1>2, <1>3

\* The earliest time of two sets, as the merge of a rule computes it.
LEMMA EarliestUnion ==
    ASSUME NEW A, A \subseteq Times \ {Undated}, NEW B, B \subseteq Times \ {Undated}
    PROVE  Earliest(A \cup B) =
             IF Earliest(B) # Undated /\ (Earliest(A) = Undated \/ Earliest(B) < Earliest(A))
             THEN Earliest(B) ELSE Earliest(A)
<1> DEFINE U == A \cup B
<1>1. U \subseteq Times \ {Undated} /\ \A t \in U : t \in Nat /\ t # Undated
  BY CapsFacts
<1>2. /\ A = {} => Earliest(A) = Undated
      /\ A # {} => Earliest(A) \in A /\ \A u \in A : Earliest(A) <= u
      /\ B = {} => Earliest(B) = Undated
      /\ B # {} => Earliest(B) \in B /\ \A u \in B : Earliest(B) <= u
  BY Extremes
<1>3. /\ U = {} => Earliest(U) = Undated
      /\ U # {} => Earliest(U) \in U /\ \A u \in U : Earliest(U) <= u
  BY <1>1, Extremes
<1>4. CASE A = {}
  <2>1. U = B
    BY <1>4
  <2> QED BY <1>1, <1>2, <1>4, <2>1
<1>5. CASE B = {}
  <2>1. U = A
    BY <1>5
  <2> QED BY <1>1, <1>2, <1>5, <2>1
<1>6. CASE A # {} /\ B # {}
  BY <1>1, <1>2, <1>3, <1>6
<1> QED BY <1>4, <1>5, <1>6

\* The latest time of two sets, as the merge of a rule computes it.
LEMMA LatestUnion ==
    ASSUME NEW A, A \subseteq Times \ {Undated}, NEW B, B \subseteq Times \ {Undated}
    PROVE  Latest(A \cup B) = IF Latest(B) > Latest(A) THEN Latest(B) ELSE Latest(A)
<1> DEFINE U == A \cup B
<1>1. U \subseteq Times \ {Undated} /\ \A t \in U : t \in Nat /\ t > Undated
  <2>1. U \subseteq Times \ {Undated} /\ \A t \in U : t \in Nat /\ t # Undated
    BY CapsFacts
  <2> QED BY <2>1 DEF Undated
<1>2. /\ A = {} => Latest(A) = Undated
      /\ A # {} => Latest(A) \in A /\ \A u \in A : Latest(A) >= u
      /\ B = {} => Latest(B) = Undated
      /\ B # {} => Latest(B) \in B /\ \A u \in B : Latest(B) >= u
  BY Extremes
<1>3. /\ U = {} => Latest(U) = Undated
      /\ U # {} => Latest(U) \in U /\ \A u \in U : Latest(U) >= u
  BY <1>1, Extremes
<1>4. CASE A = {}
  <2>1. U = B
    BY <1>4
  <2> QED BY <1>1, <1>2, <1>4, <2>1 DEF Undated
<1>5. CASE B = {}
  <2>1. U = A
    BY <1>5
  <2> QED BY <1>1, <1>2, <1>5, <2>1 DEF Undated
<1>6. CASE A # {} /\ B # {}
  BY <1>1, <1>2, <1>3, <1>6
<1> QED BY <1>4, <1>5, <1>6

-----------------------------------------------------------------------------
(* The session IDs of a rule.                                              *)

\* mergeSessionIDs: every ID of either list, once.
LEMMA SessionIDs ==
    ASSUME NEW S, NEW a \in Seq(S), NEW b \in Seq(S)
    PROVE  /\ mergeSessionIDs(a, b) \in Seq(S) /\ IsInjective(mergeSessionIDs(a, b))
           /\ ToSet(mergeSessionIDs(a, b)) = ToSet(a) \cup ToSet(b)
<1> DEFINE ids == a \o b
           n == Len(ids)
           piece(i) == IF \E j \in 1..(i - 1) : ids[j] = ids[i] THEN <<>> ELSE <<ids[i]>>
           q == [i \in 1..n |-> piece(i)]
           R == {p \in S \X S : p[1] # p[2]}
           m == FlattenSeq(q)
<1>1. /\ IsSeq(ids) /\ ToSet(ids) = ToSet(a) \cup ToSet(b) /\ ToSet(ids) \subseteq S
  BY SeqIsSeq, ConcatIsSeq, SMT
<1>2. /\ n \in Nat /\ DOMAIN ids = 1..n /\ \A i \in 1..n : ids[i] \in ToSet(ids)
      /\ \A x \in ToSet(ids) : \E i \in 1..n : ids[i] = x
  BY <1>1, SeqFacts
<1>3. mergeSessionIDs(a, b) = m
  BY <1>2 DEF mergeSessionIDs
<1> HIDE DEF ids, n
<1>4. IsSeq(q) /\ Len(q) = n /\ \A i \in 1..n : q[i] = piece(i)
  BY <1>2, FunctionIsSeq
<1> HIDE DEF q
<1>5. ASSUME NEW x, NEW i PROVE x \in ToSet(piece(i)) <=> x = ids[i] /\ ~\E j \in 1..(i - 1) : ids[j] = ids[i]
  <2>1. ToSet(<<ids[i]>>) = {ids[i]}
    BY DEF ToSet
  <2> QED BY <2>1, EmptyIsSeq
<1>6. ASSUME NEW i PROVE IsSeq(piece(i)) /\ Len(piece(i)) <= 1 /\ Len(piece(i)) \in Nat
  <2>1. <<ids[i]>> \in Seq({ids[i]}) /\ Len(<<ids[i]>>) = 1
    OBVIOUS
  <2>2. IsSeq(<<ids[i]>>)
    BY <2>1, SeqIsSeq
  <2>3. CASE \E j \in 1..(i - 1) : ids[j] = ids[i]
    BY <2>3, EmptyIsSeq
  <2>4. CASE ~\E j \in 1..(i - 1) : ids[j] = ids[i]
    BY <2>1, <2>2, <2>4
  <2> QED BY <2>3, <2>4
<1> HIDE DEF piece
<1>7. \A i \in 1..n : IsSeq(q[i])
  BY <1>4, <1>6
<1>8. IsSeq(m) /\ \A x : x \in ToSet(m) <=> \E i \in 1..n : x \in ToSet(q[i])
  BY <1>4, <1>7, FlattenIsSeq
<1>9. ToSet(m) = ToSet(ids)
  <2>1. ASSUME NEW x \in ToSet(m) PROVE x \in ToSet(ids)
    BY <1>2, <1>4, <1>5, <1>8
  <2>2. ASSUME NEW x \in ToSet(ids) PROVE x \in ToSet(m)
    <3> DEFINE I == {i \in 1..n : ids[i] = x}
    <3>1. I \in SUBSET Nat /\ I # {}
      BY <1>2
    <3>2. PICK i \in I : \A j \in I : i <= j
      <4> HIDE DEF I
      <4> QED BY <3>1, LeastElement
    <3>3. ASSUME NEW j \in 1..(i - 1) PROVE ids[j] # x
      <4>1. j \in 1..n /\ ~(i <= j)
        BY <1>2, <3>2
      <4> QED BY <3>2, <4>1
    <3>4. x \in ToSet(piece(i)) /\ i \in 1..n
      BY <1>5, <3>2, <3>3
    <3> QED BY <1>4, <1>8, <3>4
  <2> QED BY <2>1, <2>2
<1>10. Ordered(m, R)
  <2>1. \A i \in 1..n : Ordered(q[i], R)
    <3> SUFFICES ASSUME NEW i \in 1..n PROVE Ordered(piece(i), R)
      BY <1>4
    <3> QED BY <1>6 DEF Ordered
  <2>2. ASSUME NEW i \in 1..n, NEW j \in 1..n, i < j,
               NEW x \in ToSet(q[i]), NEW y \in ToSet(q[j])
        PROVE  <<x, y>> \in R
    <3>1. x = ids[i] /\ y = ids[j] /\ ~\E h \in 1..(j - 1) : ids[h] = ids[j]
      BY <1>4, <1>5, <2>2
    <3>2. i \in 1..(j - 1)
      BY <1>2, <2>2
    <3> QED BY <1>1, <1>2, <3>1, <3>2
  <2> HIDE DEF R, m
  <2> QED BY <1>4, <1>7, <2>1, <2>2, FlattenOrdered DEF m
<1>11. Len(m) \in Nat /\ DOMAIN m = 1..Len(m)
  BY <1>8, SeqFacts
<1> HIDE DEF m
<1>12. IsInjective(m)
  <2>1. \A i, j \in 1..Len(m) : i < j => m[i] # m[j]
    BY <1>10 DEF Ordered
  <2>2. \A i, j \in 1..Len(m) : i < j \/ j < i \/ i = j
    BY <1>11
  <2> QED BY <1>11, <2>1, <2>2 DEF IsInjective
<1> QED BY <1>1, <1>3, <1>8, <1>9, <1>12, IsSeqIn

-----------------------------------------------------------------------------
(* A rule.                                                                 *)

IsGiven(g) == g.flows \in Seq(Times) /\ g.samples \in Seq(Times) /\ g.runs \subseteq Runs

\* A rule is the sum of what it has been given.
ExactRule(rule, g) ==
    /\ rule.count = Len(g.flows)
    /\ rule.first = Earliest(Dated(g.flows)) /\ rule.last = Latest(Dated(g.flows))
    /\ Kept(rule.samples, g.samples)
    /\ IsInjective(rule.sessions) /\ ToSet(rule.sessions) = g.runs

\* What the builder hands over for the flows of one flush.
LEMMA AttributionFacts ==
    ASSUME NEW f \in Seq(Times)
    PROVE  /\ recordAttribution(f).count = Len(f)
           /\ recordAttribution(f).first = Earliest(Dated(f))
           /\ recordAttribution(f).last = Latest(Dated(f))
           /\ recordAttribution(f).samples \in Seq(Times)
<1> DEFINE n == Len(f)
           d == IF n > MaxSamples THEN n - MaxSamples + 1 ELSE 1
           s == SubSeq(f, d, n)
<1>1. n \in Nat /\ d \in Nat /\ d >= 1 /\ (n > 0 => d <= n) /\ \A i \in 1..n : f[i] \in Times
  BY CapsFacts
<1>2. s \in Seq(Times)
  <2> HIDE DEF d
  <2>1. \A i \in d..n : f[i] \in Times
    BY <1>1
  <2> QED BY <1>1, <2>1, SubSeqProperties
<1> QED BY <1>2 DEF recordAttribution

\* The dated flows of a sequence have real times, or the missing one when there are none.
LEMMA DatedFacts ==
    ASSUME NEW f \in Seq(Times)
    PROVE  /\ Dated(f) \subseteq Times \ {Undated}
           /\ Earliest(Dated(f)) \in Times /\ Latest(Dated(f)) \in Times
<1>1. Dated(f) \subseteq Times \ {Undated}
  BY DEF Dated
<1> QED BY <1>1, Extremes, CapsFacts

\* What the history of a rule gathers when it takes in more flows.
LEMMA GatheredFacts ==
    ASSUME NEW a \in Seq(Times), NEW f \in Seq(Times), NEW w, w = ByTime(a \o f)
    PROVE  /\ w \in Seq(Times) /\ Len(w) = Len(a) + Len(f) /\ Dated(w) = Dated(a) \cup Dated(f)
           /\ \A t : Count(w, t) = Count(a, t) + Count(f, t)
<1> DEFINE m == a \o f
<1>1. m \in Seq(Times) /\ Len(m) = Len(a) + Len(f)
  OBVIOUS
<1>2. ASSUME NEW t PROVE Count(m, t) = Count(a, t) + Count(f, t)
  BY CountConcat
<1>3. ToSet(m) = ToSet(a) \cup ToSet(f)
  BY SeqIsSeq, ConcatIsSeq, Zenon
<1>4. w = ByTime(m)
  OBVIOUS
<1> HIDE DEF m
<1>5. /\ w \in Seq(Times) /\ Len(w) = Len(m) /\ \A t : Count(w, t) = Count(m, t)
      /\ {w[i] : i \in DOMAIN w} = {m[i] : i \in DOMAIN m}
  <2>1. /\ ByTime(m) \in Seq(Times) /\ Len(ByTime(m)) = Len(m)
        /\ \A t : Count(ByTime(m), t) = Count(m, t)
        /\ {ByTime(m)[i] : i \in DOMAIN ByTime(m)} = {m[i] : i \in DOMAIN m}
    BY <1>1, CapsFacts, ByTimeFacts
  <2> QED BY <1>4, <2>1
<1>6. Dated(w) = Dated(a) \cup Dated(f)
  <2>1. {m[i] : i \in DOMAIN m} = {a[i] : i \in DOMAIN a} \cup {f[i] : i \in DOMAIN f}
    BY <1>3 DEF ToSet
  <2> QED BY <1>5, <2>1 DEF Dated
<1> QED BY <1>1, <1>2, <1>5, <1>6

\* mergeRule: a rule that is the sum of what it has been given stays so.
LEMMA MergedRule ==
    ASSUME NEW a, IsRule(a), NEW g, IsGiven(g), ExactRule(a, g),
           NEW f \in Seq(Times), f # <<>>, NEW r \in Runs
    PROVE  ExactRule(mergeRule(a, convert(f, r)), With(g, f, r))
<1> DEFINE b == convert(f, r)
           o == mergeRule(a, b)
           w == With(g, f, r)
           A == Dated(g.flows)
           B == Dated(f)
           x == recordAttribution(f).samples
           y == a.samples
           z == g.samples
           u == a.sessions
           v == g.flows
           wf == w.flows
           ws == w.samples
<1>1. /\ b.count = Len(f) /\ b.first = Earliest(B) /\ b.last = Latest(B)
      /\ b.sessions = <<r>> /\ b.samples = x /\ x \in Seq(Times)
  BY AttributionFacts DEF convert
<1> HIDE DEF b
<1>2. /\ wf \in Seq(Times) /\ Len(wf) = Len(v) + Len(f) /\ Dated(wf) = A \cup B
      /\ ws \in Seq(Times) /\ Len(ws) = Len(z) + Len(x)
      /\ \A t : Count(ws, t) = Count(z, t) + Count(x, t)
      /\ w.runs = g.runs \cup {r}
  <2>1. /\ wf = ByTime(v \o f) /\ ws = ByTime(z \o x) /\ w.runs = g.runs \cup {r}
        /\ v \in Seq(Times) /\ z \in Seq(Times) /\ A = Dated(v)
    BY DEF With, IsGiven
  <2> HIDE DEF wf, ws, v, x, z, w, A
  <2>2. wf \in Seq(Times) /\ Len(wf) = Len(v) + Len(f) /\ Dated(wf) = Dated(v) \cup B
    BY <2>1, GatheredFacts
  <2>3. /\ ws \in Seq(Times) /\ Len(ws) = Len(z) + Len(x)
        /\ \A t : Count(ws, t) = Count(z, t) + Count(x, t)
    BY <1>1, <2>1, GatheredFacts
  <2> QED BY <2>1, <2>2, <2>3
<1>3. /\ o.count = a.count + b.count
      /\ o.first = IF b.first # Undated /\ (a.first = Undated \/ b.first < a.first)
                   THEN b.first ELSE a.first
      /\ o.last = IF b.last > a.last THEN b.last ELSE a.last
      /\ o.sessions = mergeSessionIDs(u, <<r>>)
      /\ o.samples = capSamples(y \o x)
  BY <1>1 DEF mergeRule
<1>4. A \subseteq Times \ {Undated} /\ B \subseteq Times \ {Undated}
  BY DatedFacts DEF IsGiven
<1>5. /\ a.count = Len(v) /\ a.first = Earliest(A) /\ a.last = Latest(A)
      /\ Kept(y, z) /\ ToSet(u) = g.runs
  BY DEF ExactRule
<1>6. y \in Seq(Times) /\ z \in Seq(Times) /\ u \in Seq(Runs)
  BY DEF IsRule, IsGiven
<1>7. Len(v) \in Nat /\ Len(f) \in Nat /\ wf \in Seq(Times) /\ ws \in Seq(Times)
  BY <1>2 DEF IsGiven
<1> HIDE DEF o, w, wf, ws
<1>8. o.count = Len(wf)
  BY <1>1, <1>2, <1>3, <1>5, <1>7
<1>9. o.first = Earliest(Dated(wf)) /\ o.last = Latest(Dated(wf))
  <2>1. Earliest(A \cup B) = IF Earliest(B) # Undated /\ (Earliest(A) = Undated \/ Earliest(B) < Earliest(A))
                             THEN Earliest(B) ELSE Earliest(A)
    BY <1>4, EarliestUnion
  <2>2. Latest(A \cup B) = IF Latest(B) > Latest(A) THEN Latest(B) ELSE Latest(A)
    BY <1>4, LatestUnion
  <2> QED BY <1>1, <1>2, <1>3, <1>5, <2>1, <2>2
<1>10. Kept(o.samples, ws)
  <2> HIDE DEF x, y, z
  <2> DEFINE all2 == ws
  <2>1. all2 \in Seq(Times) /\ Len(all2) = Len(z) + Len(x) /\ \A t : Count(all2, t) = Count(z, t) + Count(x, t)
    BY <1>2, <1>7
  <2> HIDE DEF all2
  <2>2. Kept(capSamples(y \o x), all2)
    BY <1>1, <1>5, <1>6, <2>1, KeptMore
  <2> QED BY <1>3, <2>2 DEF all2
<1>11. IsInjective(o.sessions) /\ ToSet(o.sessions) = w.runs
  <2> HIDE DEF u
  <2>1. <<r>> \in Seq(Runs) /\ ToSet(<<r>>) = {r}
    BY DEF ToSet
  <2> DEFINE own == <<r>>
  <2> HIDE DEF own
  <2>2. own \in Seq(Runs) /\ ToSet(own) = {r} /\ o.sessions = mergeSessionIDs(u, own)
    BY <1>3, <2>1 DEF own
  <2>3. /\ IsInjective(mergeSessionIDs(u, own))
        /\ ToSet(mergeSessionIDs(u, own)) = ToSet(u) \cup ToSet(own)
    BY <1>6, <2>2, SessionIDs
  <2> QED BY <1>2, <1>5, <2>2, <2>3
<1>12. ExactRule(o, w)
  BY <1>8, <1>9, <1>10, <1>11 DEF ExactRule, wf, ws
<1> QED BY <1>12 DEF o, w, b

\* A flush without flows of the rule changes neither the rule nor its history.
LEMMA UntouchedRule ==
    ASSUME NEW a, IsRule(a), NEW g, IsGiven(g), ExactRule(a, g), NEW f, f = <<>>, NEW r \in Runs
    PROVE  ExactRule(a, With(g, f, r))
<1> DEFINE w == With(g, f, r)
           x == recordAttribution(f).samples
           z == g.samples
<1>1. f \in Seq(Times) /\ Len(f) = 0 /\ Dated(f) = {}
  BY DEF Dated
<1>2. x \in Seq(Times) /\ Len(x) = 0
  <2>1. x = SubSeq(f, IF Len(f) > MaxSamples THEN Len(f) - MaxSamples + 1 ELSE 1, Len(f))
    BY DEF recordAttribution
  <2>2. ~(0 > MaxSamples)
    BY CapsFacts
  <2>3. x = SubSeq(f, 1, 0)
    BY <1>1, <2>1, <2>2
  <2> HIDE DEF x
  <2> QED BY <1>1, <2>3, SubSeqProperties
<1>3. \A t : Count(x, t) = 0
  <2> HIDE DEF x
  <2>1. \A t : {i \in DOMAIN x : x[i] = t} = {}
    BY <1>2
  <2> QED BY <2>1, FS_EmptySet DEF Count
<1> HIDE DEF x
<1> DEFINE v == g.flows
           wf == w.flows
           ws == w.samples
<1>4. /\ Len(wf) = Len(v) + 0 /\ Dated(wf) = Dated(v)
      /\ Len(ws) = Len(z) + 0
      /\ \A t : Count(ws, t) = Count(z, t) + 0
      /\ w.runs = g.runs
      /\ v \in Seq(Times) /\ z \in Seq(Times)
  <2>1. /\ wf = ByTime(v \o f) /\ ws = ByTime(z \o x) /\ w.runs = g.runs
        /\ v \in Seq(Times) /\ z \in Seq(Times)
    BY DEF With, IsGiven, x
  <2> HIDE DEF wf, ws, v, z, w
  <2>2. wf \in Seq(Times) /\ Len(wf) = Len(v) + Len(f) /\ Dated(wf) = Dated(v) \cup Dated(f)
    <3>1. f \in Seq(Times) /\ v \in Seq(Times) /\ wf = ByTime(v \o f)
      BY <1>1, <2>1
    <3> QED BY ONLY <3>1, GatheredFacts
  <2>3. /\ ws \in Seq(Times) /\ Len(ws) = Len(z) + Len(x)
        /\ \A t : Count(ws, t) = Count(z, t) + Count(x, t)
    <3>1. x \in Seq(Times) /\ z \in Seq(Times) /\ ws = ByTime(z \o x)
      BY <1>2, <2>1
    <3> QED BY ONLY <3>1, GatheredFacts
  <2> QED BY <1>1, <1>2, <1>3, <2>1, <2>2, <2>3
<1>5. Len(v) \in Nat /\ Len(z) \in Nat /\ \A t : Count(z, t) \in Nat
  <2> HIDE DEF z, v
  <2>1. ASSUME NEW t PROVE Count(z, t) \in Nat
    BY <1>4, CountFacts
  <2> QED BY <1>4, <2>1
<1>6. Len(wf) = Len(v) /\ Len(ws) = Len(z) /\ \A t : Count(ws, t) = Count(z, t)
  BY <1>4, <1>5
<1>7. Kept(a.samples, ws)
  <2> DEFINE y == a.samples
  <2>1. Kept(y, z)
    BY DEF ExactRule
  <2> HIDE DEF ws, z, w, y
  <2> QED BY <1>6, <2>1 DEF Kept, y
<1>8. a.count = Len(wf) /\ a.first = Earliest(Dated(wf)) /\ a.last = Latest(Dated(wf))
  BY <1>4, <1>6 DEF ExactRule
<1> HIDE DEF w
<1> QED BY <1>4, <1>7, <1>8 DEF ExactRule, w

-----------------------------------------------------------------------------
(* The session list.                                                       *)

Ids(s) == {s[i].id : i \in DOMAIN s}

Distinct(s) == \A i, j \in DOMAIN s : s[i].id = s[j].id => i = j

\* What a session list of entries is, position by position.
LEMMA EntriesFacts ==
    ASSUME NEW s \in Seq(SessionEntries), NEW n, n = Len(s)
    PROVE  /\ n \in Nat /\ DOMAIN s = 1..n /\ Ids(s) \subseteq Runs
           /\ \A i \in 1..n : s[i] \in SessionEntries
           /\ \A i \in 1..n : s[i].id \in Runs /\ s[i].final \in BOOLEAN
<1>1. n \in Nat /\ DOMAIN s = 1..n /\ \A i \in 1..n : s[i] \in SessionEntries
  OBVIOUS
<1>2. \A i \in 1..n : s[i].id \in Runs /\ s[i].final \in BOOLEAN
  BY <1>1 DEF SessionEntries
<1> QED BY <1>1, <1>2 DEF Ids

\* A list that names every run once has as many entries as it names runs.
LEMMA DistinctSize ==
    ASSUME NEW s \in Seq(SessionEntries), Distinct(s)
    PROVE  IsFiniteSet(Ids(s)) /\ Cardinality(Ids(s)) = Len(s)
<1> DEFINE n == Len(s)
           f == [i \in 1..n |-> s[i].id]
<1>1. n \in Nat /\ DOMAIN s = 1..n
  BY EntriesFacts
<1>2. f \in Bijection(1..n, Ids(s))
  <2>1. \A i \in 1..n : f[i] = s[i].id /\ f[i] \in Ids(s)
    BY <1>1 DEF Ids
  <2>2. \A i, j \in 1..n : f[i] = f[j] => i = j
    BY <1>1, <2>1 DEF Distinct
  <2>3. \A x \in Ids(s) : \E i \in 1..n : f[i] = x
    BY <1>1, <2>1 DEF Ids
  <2>4. f = [i \in 1..n |-> f[i]]
    OBVIOUS
  <2> HIDE DEF f
  <2> QED BY <2>1, <2>2, <2>3, <2>4 DEF Bijection, Injection, Surjection, IsInjective
<1>3. IsFiniteSet(1..n) /\ Cardinality(1..n) = n
  <2>1. IsFiniteSet(1..n) /\ Cardinality(1..n) = IF 1 > n THEN 0 ELSE n - 1 + 1
    <3>1. 1 \in Int /\ n \in Int
      BY <1>1
    <3> QED BY <3>1, FS_Interval, Zenon
  <2> QED BY <1>1, <2>1
<1>4. Cardinality(Ids(s)) = n
  <2> HIDE DEF f
  <2> QED BY <1>2, <1>3, SameSize
<1>5. f \in Surjection(1..n, Ids(s))
  BY <1>2 DEF Bijection
<1>6. IsFiniteSet(Ids(s))
  <2> HIDE DEF f
  <2> QED BY <1>3, <1>5, FS_Surjection
<1> QED BY <1>4, <1>6

\* One session too many: the oldest goes.
LEMMA OldestDropped ==
    ASSUME NEW s \in Seq(SessionEntries), NEW n, n = Len(s), Distinct(s),
           MaxSessions > 0, n = MaxSessions + 1, NEW o, o = capSessions(s)
    PROVE  /\ o \in Seq(SessionEntries) /\ Distinct(o)
           /\ \A i \in DOMAIN o : \E j \in DOMAIN s : o[i] = s[j]
           /\ \E m \in Ids(s) : Ids(o) = Ids(s) \ {m} /\ \A q \in Ids(s) : m <= q
<1> DEFINE v == [j \in DOMAIN s |-> s[j].id]
           p == Order(v)
           b == ByStart(s)
           k == MaxSessions
<1>1. /\ n \in Nat /\ DOMAIN s = 1..n /\ \A i \in 1..n : s[i] \in SessionEntries
      /\ \A i \in 1..n : s[i].id \in Nat
      /\ k \in Nat /\ n > k /\ n - k + 1 = 2 /\ k = n - 1 /\ 1 \in 1..n /\ k > 0
  <2>1. /\ n \in Nat /\ DOMAIN s = 1..n /\ \A i \in 1..n : s[i] \in SessionEntries
        /\ \A i \in 1..n : s[i].id \in Runs
    BY EntriesFacts
  <2>2. \A i \in 1..n : s[i].id \in Nat
    BY <2>1, CapsFacts
  <2>3. k \in Nat /\ n > k /\ n - k + 1 = 2 /\ k = n - 1 /\ 1 \in 1..n /\ k > 0
    BY <2>1, CapsFacts
  <2> QED BY <2>1, <2>2, <2>3
<1>2. v \in Seq(Nat) /\ Len(v) = n /\ \A i \in 1..n : v[i] = s[i].id
  BY <1>1
<1>3. b = [i \in 1..n |-> s[p[i]]]
  BY <1>1 DEF ByStart
<1>4. o = SubSeq(b, 2, n)
  BY <1>1 DEF capSessions
<1> HIDE DEF v, b
<1>5. p \in Bijection(1..n, 1..n) /\ \A i, j \in 1..n : i <= j => v[p[i]] <= v[p[j]]
  BY <1>1, <1>2, OrderFacts
<1> HIDE DEF p
<1>6. /\ \A i \in 1..n : p[i] \in 1..n
      /\ \A i, j \in 1..n : p[i] = p[j] => i = j
      /\ \A j \in 1..n : \E i \in 1..n : p[i] = j
  BY <1>5 DEF Bijection, Injection, Surjection, IsInjective
<1>7. \A i \in 2..n : b[i] \in SessionEntries
  <2>1. \A i \in 2..n : i \in 1..n
    BY <1>1
  <2>2. \A i \in 1..n : b[i] = s[p[i]] /\ s[p[i]] \in SessionEntries
    BY <1>1, <1>3, <1>6
  <2> QED BY <2>1, <2>2
<1>8. /\ o \in Seq(SessionEntries) /\ Len(o) = k
      /\ \A i \in 1..k : o[i] = s[p[i + 1]] /\ p[i + 1] \in 1..n /\ i + 1 \in 1..n
  <2>1. 2 \in Int /\ n \in Int /\ 2 <= n /\ n - 2 + 1 = k
    BY <1>1
  <2>2. /\ o \in Seq(SessionEntries) /\ Len(o) = n - 2 + 1
        /\ \A i \in 1..(n - 2 + 1) : o[i] = b[2 + i - 1]
    BY <1>4, <1>7, <2>1, SubSeqProperties
  <2>3. \A i \in 1..k : o[i] = b[i + 1] /\ i + 1 \in 1..n
    BY <1>1, <2>1, <2>2
  <2> QED BY <1>3, <1>6, <2>1, <2>2, <2>3
<1>9. DOMAIN o = 1..k
  BY <1>1, <1>8
<1>10. Distinct(o)
  <2> SUFFICES ASSUME NEW i \in 1..k, NEW j \in 1..k, o[i].id = o[j].id PROVE i = j
    BY <1>9 DEF Distinct
  <2>1. p[i + 1] = p[j + 1]
    BY <1>1, <1>8 DEF Distinct
  <2>2. i + 1 = j + 1
    BY <1>6, <1>8, <2>1
  <2> QED BY <2>2
<1>11. \A i \in DOMAIN o : \E j \in DOMAIN s : o[i] = s[j]
  BY <1>1, <1>8, <1>9
<1> DEFINE m == s[p[1]].id
<1>12. m \in Ids(s) /\ \A q \in Ids(s) : m <= q
  <2>1. p[1] \in 1..n
    BY <1>1, <1>6
  <2>2. ASSUME NEW j \in 1..n PROVE m <= s[j].id
    <3>1. PICK i \in 1..n : p[i] = j
      BY <1>6
    <3>2. 1 <= i
      OBVIOUS
    <3>3. v[p[1]] <= v[p[i]]
      BY <1>1, <1>5, <3>2
    <3> QED BY <1>2, <2>1, <3>1, <3>3
  <2> QED BY <1>1, <2>1, <2>2 DEF Ids
<1>13. Ids(o) = Ids(s) \ {m}
  <2>1. ASSUME NEW x \in Ids(o) PROVE x \in Ids(s) /\ x # m
    <3>1. PICK i \in 1..k : x = o[i].id
      BY <1>9 DEF Ids
    <3>2. x = s[p[i + 1]].id /\ p[i + 1] \in 1..n /\ i + 1 \in 1..n /\ i + 1 # 1
      BY <1>8, <3>1
    <3>3. p[i + 1] # p[1] /\ p[1] \in 1..n
      BY <1>1, <1>6, <3>2
    <3>4. x # m
      BY <1>1, <3>2, <3>3 DEF Distinct
    <3> QED BY <1>1, <3>2, <3>4 DEF Ids
  <2>2. ASSUME NEW x \in Ids(s), x # m PROVE x \in Ids(o)
    <3>1. PICK j \in 1..n : x = s[j].id
      BY <1>1 DEF Ids
    <3>2. PICK i \in 1..n : p[i] = j
      BY <1>6
    <3>3. i # 1
      BY <2>2, <3>1, <3>2
    <3>4. i - 1 \in 1..k /\ (i - 1) + 1 = i
      BY <1>1, <3>3
    <3>5. o[i - 1] = s[p[i]]
      BY <1>8, <3>4
    <3> QED BY <1>9, <3>1, <3>2, <3>4, <3>5 DEF Ids
  <2> QED BY <2>1, <2>2
<1> HIDE DEF m
<1> QED BY <1>8, <1>10, <1>11, <1>12, <1>13

\* upsert: the session of the run is there once, and the others are as they were.
LEMMA UpsertFacts ==
    ASSUME NEW s \in Seq(SessionEntries), Distinct(s), NEW r \in Runs, NEW fin \in BOOLEAN,
           NEW e, e = [id |-> r, final |-> fin], NEW u, u = upsert(s, e)
    PROVE  /\ u \in Seq(SessionEntries) /\ Distinct(u) /\ Ids(u) = Ids(s) \cup {r}
           /\ \A i \in DOMAIN u : u[i] = e \/ (u[i].id # r /\ \E j \in DOMAIN s : u[i] = s[j])
<1> DEFINE n == Len(s)
<1>1. /\ n \in Nat /\ DOMAIN s = 1..n /\ \A i \in 1..n : s[i] \in SessionEntries
      /\ e \in SessionEntries /\ e.id = r
  BY EntriesFacts DEF SessionEntries
<1>2. CASE \E i \in 1..n : s[i].id = r
  <2>1. u = [i \in 1..n |-> IF s[i].id = r THEN e ELSE s[i]]
    BY <1>1, <1>2 DEF upsert
  <2>2. u \in Seq(SessionEntries) /\ DOMAIN u = 1..n
    BY <1>1, <2>1
  <2>3. \A i \in 1..n : u[i].id = s[i].id /\ u[i] = IF s[i].id = r THEN e ELSE s[i]
    BY <1>1, <2>1
  <2>4. Distinct(u) /\ Ids(u) = Ids(s) /\ r \in Ids(s)
    BY <1>1, <1>2, <2>2, <2>3, SMTT(20) DEF Distinct, Ids
  <2>5. \A i \in 1..n : u[i] = e \/ (u[i].id # r /\ \E j \in 1..n : u[i] = s[j])
    BY <2>3
  <2> QED BY <1>1, <2>2, <2>4, <2>5
<1>3. CASE ~\E i \in 1..n : s[i].id = r
  <2>1. u = Append(s, e)
    BY <1>1, <1>3 DEF upsert
  <2>2. /\ u \in Seq(SessionEntries) /\ DOMAIN u = 1..(n + 1)
        /\ \A i \in 1..n : u[i] = s[i]
        /\ u[n + 1] = e
    BY <1>1, <2>1
  <2>3. \A i \in 1..(n + 1) : i \in 1..n \/ i = n + 1
    BY <1>1
  <2>4. \A i \in 1..n : u[i].id # r /\ i \in 1..(n + 1) /\ n + 1 \in 1..(n + 1)
    BY <1>1, <1>3, <2>2
  <2>5. Distinct(u)
    BY <1>1, <2>2, <2>3, <2>4 DEF Distinct
  <2>6. Ids(u) = Ids(s) \cup {r}
    <3>1. ASSUME NEW x \in Ids(u) PROVE x \in Ids(s) \cup {r}
      BY <1>1, <2>2, <2>3 DEF Ids
    <3>2. ASSUME NEW x \in Ids(s) PROVE x \in Ids(u)
      BY <1>1, <2>2, <2>4 DEF Ids
    <3>3. r \in Ids(u)
      <4>1. n + 1 \in 1..(n + 1)
        BY <1>1
      <4> QED BY <1>1, <2>2, <4>1 DEF Ids
    <3> QED BY <3>1, <3>2, <3>3
  <2>7. \A i \in 1..(n + 1) : u[i] = e \/ (u[i].id # r /\ \E j \in 1..n : u[i] = s[j])
    BY <2>2, <2>3, <2>4
  <2> QED BY <1>1, <2>2, <2>5, <2>6, <2>7
<1> QED BY <1>2, <1>3

WroteValues == {"nothing", "open", "final"}

Committed(w) == {r \in Runs : w[r] # "nothing"}

\* The session list holds the newest of the runs that have written.
Newest(ids, C) ==
    /\ ids \subseteq C
    /\ Cardinality(ids) = IF MaxSessions > 0 /\ Cardinality(C) > MaxSessions
                          THEN MaxSessions ELSE Cardinality(C)
    /\ \A r \in C \ ids, q \in ids : r < q

Flagged(s, w) == \A i \in DOMAIN s : s[i].final = (w[s[i].id] = "final")

Ledger(s, w) == Distinct(s) /\ Newest(Ids(s), Committed(w)) /\ Flagged(s, w)

\* It still does when a run is added to both and, beyond the cap, the oldest goes.
LEMMA NewestMore ==
    ASSUME NEW C, C \subseteq Runs, IsFiniteSet(C), NEW ids, Newest(ids, C), NEW r \in Runs,
           NEW new, \/ Cardinality(ids \cup {r}) <= MaxSessions /\ new = ids \cup {r}
                    \/ MaxSessions = 0 /\ new = ids \cup {r}
                    \/ /\ MaxSessions > 0 /\ Cardinality(ids \cup {r}) > MaxSessions
                       /\ \E m \in ids \cup {r} :
                              new = (ids \cup {r}) \ {m} /\ \A q \in ids \cup {r} : m <= q
    PROVE  Newest(new, C \cup {r}) /\ IsFiniteSet(C \cup {r})
<1> DEFINE U == ids \cup {r}
           D == C \cup {r}
           k == MaxSessions
           c == Cardinality(C)
           a == Cardinality(ids)
<1>1. /\ IsFiniteSet(D) /\ Cardinality(D) = IF r \in C THEN c ELSE c + 1
      /\ c \in Nat /\ k \in Nat /\ \A x \in D : x \in Nat
  BY FS_AddElement, FS_CardinalityType, CapsFacts
<1>2. /\ IsFiniteSet(ids) /\ a \in Nat /\ a <= c /\ (a = c => ids = C)
      /\ a = IF k > 0 /\ c > k THEN k ELSE c
      /\ ids \subseteq C /\ \A x \in C \ ids, q \in ids : x < q
  BY <1>1, FS_Subset, FS_CardinalityType DEF Newest
<1>3. IsFiniteSet(U) /\ Cardinality(U) = IF r \in ids THEN a ELSE a + 1
  BY <1>2, FS_AddElement
<1> HIDE DEF a, c, k
<1>4. CASE new = U /\ (k = 0 \/ Cardinality(U) <= k)
  <2>1. CASE r \in ids
    BY <1>1, <1>2, <1>3, <1>4, <2>1 DEF Newest, k, c, a
  <2>2. CASE r \notin ids
    <3>1. a + 1 <= k \/ k = 0
      BY <1>3, <1>4, <2>2
    <3>2. a = c /\ ids = C /\ ~(k > 0 /\ c > k)
      BY <1>1, <1>2, <3>1
    <3>3. r \notin C /\ Cardinality(D) = c + 1 /\ D = U
      BY <1>1, <2>2, <3>2
    <3> QED BY <1>1, <1>2, <1>3, <1>4, <3>1, <3>2, <3>3 DEF Newest, k
  <2> QED BY <2>1, <2>2
<1>5. CASE k > 0 /\ Cardinality(U) > k /\ \E m \in U : new = U \ {m} /\ \A q \in U : m <= q
  <2>1. PICK m \in U : new = U \ {m} /\ \A q \in U : m <= q
    BY <1>5
  <2>2. r \notin ids /\ a = k /\ Cardinality(U) = k + 1
    BY <1>1, <1>2, <1>3, <1>5
  <2>3. Cardinality(new) = k
    <3>1. Cardinality(U \ {m}) = Cardinality(U) - 1
      BY <1>3, <2>1, FS_RemoveElement
    <3> QED BY <1>1, <2>1, <2>2, <3>1
  <2>4. Cardinality(D) > k
    BY <1>1, <1>2, <2>2
  <2>5. \A x \in D \ new, q \in new : x < q
    <3> SUFFICES ASSUME NEW x \in D, x \notin new, NEW q \in new PROVE x < q
      OBVIOUS
    <3>1. q \in U /\ q # m /\ m <= q /\ q \in Nat /\ m \in Nat /\ x \in Nat
      BY <1>1, <1>2, <2>1
    <3>2. CASE x = m
      BY <3>1, <3>2
    <3>3. CASE x # m
      <4>1. x \in C \ ids
        BY <2>1, <3>3
      <4>2. CASE q \in ids
        BY <1>2, <4>1, <4>2
      <4>3. CASE q = r
        <5>1. m \in ids
          BY <2>1, <3>1, <4>3
        <5>2. x < m
          BY <1>2, <4>1, <5>1
        <5> QED BY <3>1, <5>2
      <4> QED BY <3>1, <4>2, <4>3
    <3> QED BY <3>2, <3>3
  <2> QED BY <1>1, <1>2, <1>5, <2>1, <2>3, <2>4, <2>5 DEF Newest, k
<1> QED BY <1>4, <1>5 DEF k

\* Merge on the session list: what is renamed with it is again the ledger.
LEMMA LedgerMore ==
    ASSUME NEW s \in Seq(SessionEntries), NEW w \in [Runs -> WroteValues],
           IsFiniteSet(Committed(w)), Ledger(s, w), NEW r \in Runs, NEW fin \in BOOLEAN,
           NEW w2, w2 = [w EXCEPT ![r] = IF fin THEN "final" ELSE "open"],
           NEW e, e = [id |-> r, final |-> fin], NEW o, o = capSessions(upsert(s, e))
    PROVE  /\ o \in Seq(SessionEntries) /\ Ledger(o, w2) /\ w2 \in [Runs -> WroteValues]
           /\ IsFiniteSet(Committed(w2))
<1> DEFINE u == upsert(s, e)
           C == Committed(w)
           k == MaxSessions
           n == Len(u)
           ids == Ids(s)
<1>1. /\ u \in Seq(SessionEntries) /\ Distinct(u) /\ Ids(u) = ids \cup {r}
      /\ \A i \in DOMAIN u : u[i] = e \/ (u[i].id # r /\ \E j \in DOMAIN s : u[i] = s[j])
  <2>1. Distinct(s) /\ u = upsert(s, e)
    BY DEF Ledger
  <2> HIDE DEF u
  <2> QED BY <2>1, UpsertFacts
<1>2. /\ w2 \in [Runs -> WroteValues] /\ Committed(w2) = C \cup {r} /\ C \subseteq Runs
      /\ w2[r] = IF fin THEN "final" ELSE "open"
      /\ \A q \in Runs : q # r => w2[q] = w[q]
  BY DEF Committed, WroteValues
<1> HIDE DEF u
<1>3. Flagged(u, w2)
  <2> SUFFICES ASSUME NEW i \in DOMAIN u PROVE u[i].final = (w2[u[i].id] = "final")
    BY DEF Flagged
  <2>1. CASE u[i] = e
    <3>1. u[i].id = r /\ u[i].final = fin
      BY <2>1
    <3>2. CASE fin
      <4>1. w2[r] = "final" /\ fin = TRUE
        BY <1>2, <3>2
      <4> QED BY <3>1, <4>1
    <3>3. CASE ~fin
      <4>1. w2[r] = "open" /\ fin = FALSE
        BY <1>2, <3>3
      <4>2. "open" # "final"
        OBVIOUS
      <4> QED BY <3>1, <4>1, <4>2
    <3> QED BY <3>2, <3>3
  <2>2. CASE u[i].id # r /\ \E j \in DOMAIN s : u[i] = s[j]
    <3>1. PICK j \in DOMAIN s : u[i] = s[j]
      BY <2>2
    <3>2. s[j].final = (w[s[j].id] = "final")
      BY <3>1 DEF Ledger, Flagged
    <3>3. s[j].id \in Runs /\ s[j].id # r
      BY <2>2, <3>1, EntriesFacts
    <3>4. w2[s[j].id] = w[s[j].id]
      BY <1>2, <3>3
    <3> QED BY <3>1, <3>2, <3>4
  <2> QED BY <1>1, <2>1, <2>2
<1>4. /\ IsFiniteSet(Ids(u)) /\ Cardinality(Ids(u)) = n /\ n \in Nat /\ k \in Nat
      /\ IsFiniteSet(ids) /\ Cardinality(ids) \in Nat
      /\ n = IF r \in ids THEN Cardinality(ids) ELSE Cardinality(ids) + 1
  <2>1. IsFiniteSet(Ids(u)) /\ Cardinality(Ids(u)) = n /\ n \in Nat /\ k \in Nat
    <3>1. IsFiniteSet(Ids(u)) /\ Cardinality(Ids(u)) = Len(u)
      BY <1>1, DistinctSize
    <3>2. Len(u) \in Nat
      BY <1>1
    <3> QED BY <3>1, <3>2, CapsFacts
  <2>2. IsFiniteSet(ids)
    <3>1. Distinct(s)
      BY DEF Ledger
    <3> QED BY <3>1, DistinctSize
  <2>3. Cardinality(ids \cup {r}) = IF r \in ids THEN Cardinality(ids) ELSE Cardinality(ids) + 1
    BY <2>2, FS_AddElement
  <2> QED BY <1>1, <2>1, <2>2, <2>3, FS_CardinalityType
<1>5. Newest(ids, C)
  BY DEF Ledger
<1>6. o = capSessions(u)
  BY DEF u
<1> HIDE DEF C, n, ids
<1>7. CASE ~(k > 0 /\ n > k)
  <2>1. o = u
    BY <1>6, <1>7 DEF capSessions, n
  <2>2. Cardinality(ids \cup {r}) <= k \/ k = 0
    BY <1>1, <1>4, <1>7
  <2> DEFINE new == Ids(o)
  <2>3. new = ids \cup {r}
    BY <1>1, <2>1
  <2> HIDE DEF new
  <2>4. Newest(new, C \cup {r}) /\ IsFiniteSet(C \cup {r})
    BY <1>2, <1>5, <2>2, <2>3, NewestMore DEF C
  <2> QED BY <1>1, <1>2, <1>3, <2>1, <2>4 DEF Ledger, new
<1>8. CASE k > 0 /\ n > k
  <2>1. Cardinality(ids) <= k
    <3>1. Cardinality(ids) = IF k > 0 /\ Cardinality(C) > k THEN k ELSE Cardinality(C)
      BY <1>5 DEF Newest
    <3>2. Cardinality(C) \in Nat
      BY FS_CardinalityType DEF C
    <3> QED BY <1>4, <1>8, <3>1, <3>2
  <2>2. n = k + 1
    BY <1>4, <1>8, <2>1
  <2>3. /\ o \in Seq(SessionEntries) /\ Distinct(o)
        /\ \A i \in DOMAIN o : \E j \in DOMAIN u : o[i] = u[j]
        /\ \E m \in Ids(u) : Ids(o) = Ids(u) \ {m} /\ \A q \in Ids(u) : m <= q
    BY <1>1, <1>6, <1>8, <2>2, OldestDropped DEF n
  <2>4. Flagged(o, w2)
    BY <1>3, <2>3 DEF Flagged
  <2> DEFINE new == Ids(o)
  <2>5. /\ k > 0 /\ Cardinality(ids \cup {r}) > k
        /\ \E m \in ids \cup {r} : new = (ids \cup {r}) \ {m} /\ \A q \in ids \cup {r} : m <= q
    BY <1>1, <1>4, <1>8, <2>3
  <2> HIDE DEF new
  <2>6. Newest(new, C \cup {r}) /\ IsFiniteSet(C \cup {r})
    <3>1. C \subseteq Runs /\ IsFiniteSet(C)
      BY <1>2 DEF C
    <3> QED BY <1>5, <2>5, <3>1, NewestMore
  <2> QED BY <1>2, <2>3, <2>4, <2>6 DEF Ledger, new
<1> QED BY <1>7, <1>8

-----------------------------------------------------------------------------
(* The document.                                                           *)

\* The document is the sum of what the renames have put into it.
ExactDoc(d, g, w) == (\A k \in Keys : ExactRule(d.rules[k], g[k])) /\ Ledger(d.sessions, w)

IsFlush(ev) == \A k \in Keys : ev[k] \in Seq(Times)

IsHistory(g) == \A k \in Keys : IsGiven(g[k])

\* The attribution of a flush, and the history with it.
Converted(ev, r) == [k \in Keys |-> convert(ev[k], r)]

AllWith(g, ev, r) == [k \in Keys |-> With(g[k], ev[k], r)]

\* Merge leaves a well-formed document.
LEMMA MergedDocument ==
    ASSUME NEW d, IsDocument(d), NEW g, IsHistory(g),
           NEW w \in [Runs -> WroteValues], IsFiniteSet(Committed(w)), ExactDoc(d, g, w),
           NEW r \in Runs, NEW fin \in BOOLEAN, NEW ev, IsFlush(ev),
           NEW w2, w2 = [w EXCEPT ![r] = IF fin THEN "final" ELSE "open"],
           NEW g2, g2 = AllWith(g, ev, r),
           NEW e, e = [id |-> r, final |-> fin], NEW new, new = Converted(ev, r),
           NEW o, o = Merge(d, e, new)
    PROVE  ExactDoc(o, g2, w2)
<1> DEFINE s == d.sessions
<1>1. s \in Seq(SessionEntries) /\ Ledger(s, w)
  BY DEF IsDocument, ExactDoc
<1>2. o.sessions = capSessions(upsert(s, e))
  BY DEF Merge
<1>3. Ledger(o.sessions, w2)
  <2> HIDE DEF s
  <2>1. PICK p : p = capSessions(upsert(s, e))
    OBVIOUS
  <2>2. e = [id |-> r, final |-> fin]
    OBVIOUS
  <2>3. Ledger(p, w2)
    BY <1>1, <2>1, <2>2, LedgerMore
  <2> QED BY <1>2, <2>1, <2>3
<1>4. ASSUME NEW k \in Keys PROVE ExactRule(o.rules[k], g2[k])
  <2> DEFINE a == d.rules[k]
             h == g[k]
             f == ev[k]
             b == convert(f, r)
             x == o.rules[k]
             y == g2[k]
  <2>1. IsRule(a) /\ IsGiven(h) /\ ExactRule(a, h) /\ f \in Seq(Times)
    BY DEF IsDocument, ExactDoc, IsFlush, IsHistory
  <2>2. b.count = Len(f) /\ new[k] = b
    BY DEF convert, recordAttribution, Converted
  <2>3. x = IF b.count = 0 THEN a ELSE mergeRule(a, b)
    BY <2>2 DEF Merge
  <2>4. y = With(h, f, r)
    BY DEF AllWith
  <2>5. b = convert(f, r)
    OBVIOUS
  <2> HIDE DEF a, h, f, b, x, y
  <2>6. CASE f = <<>>
    <3>1. x = a
      BY <2>2, <2>3, <2>6
    <3> QED BY <2>1, <2>4, <2>6, <3>1, UntouchedRule DEF x, y
  <2>7. CASE f # <<>>
    <3>1. x = mergeRule(a, b)
      BY <2>1, <2>2, <2>3, <2>7
    <3>2. ExactRule(mergeRule(a, b), With(h, f, r))
      BY <2>1, <2>5, <2>7, MergedRule
    <3> QED BY <2>4, <3>1, <3>2 DEF x, y
  <2> QED BY <2>6, <2>7
<1> QED BY <1>3, <1>4 DEF ExactDoc

-----------------------------------------------------------------------------
(* Types.                                                                  *)

\* mergeRule: a well-formed rule stays well formed.
LEMMA MergedIsRule ==
    ASSUME NEW a, IsRule(a), NEW f \in Seq(Times), NEW r \in Runs
    PROVE  IsRule(mergeRule(a, convert(f, r)))
<1> DEFINE b == convert(f, r)
           o == mergeRule(a, b)
           x == recordAttribution(f).samples
           y == a.samples
           u == a.sessions
<1>1. /\ b.count = Len(f) /\ b.first = Earliest(Dated(f)) /\ b.last = Latest(Dated(f))
      /\ b.sessions = <<r>> /\ b.samples = x /\ x \in Seq(Times)
  BY AttributionFacts DEF convert
<1> HIDE DEF b
<1>2. /\ o.count = a.count + b.count
      /\ o.first = IF b.first # Undated /\ (a.first = Undated \/ b.first < a.first)
                   THEN b.first ELSE a.first
      /\ o.last = IF b.last > a.last THEN b.last ELSE a.last
      /\ o.sessions = mergeSessionIDs(u, <<r>>)
      /\ o.samples = capSamples(y \o x)
  BY <1>1 DEF mergeRule
<1>3. /\ a.count \in Nat /\ a.first \in Times /\ a.last \in Times
      /\ y \in Seq(Times) /\ u \in Seq(Runs)
  BY DEF IsRule
<1> HIDE DEF o
<1>4. o.count \in Nat /\ o.first \in Times /\ o.last \in Times
  <2>1. Len(f) \in Nat /\ b.first \in Times /\ b.last \in Times
    BY <1>1, DatedFacts
  <2> QED BY <1>1, <1>2, <1>3, <2>1
<1>5. o.samples \in Seq(Times) /\ Len(o.samples) <= MaxSamples
  <2> HIDE DEF x, y
  <2> DEFINE m == y \o x
  <2>1. m \in Seq(Times) /\ Len(m) \in Nat
    BY <1>1, <1>3
  <2> HIDE DEF m
  <2>2. capSamples(m) \in Seq(Times) /\ Len(capSamples(m)) = IF Len(m) > MaxSamples THEN MaxSamples ELSE Len(m)
    BY <2>1, CapFacts
  <2> QED BY <1>2, <2>1, <2>2, CapsFacts DEF m
<1>6. o.sessions \in Seq(Runs)
  <2> HIDE DEF u
  <2> DEFINE v == <<r>>
  <2>1. v \in Seq(Runs)
    OBVIOUS
  <2> HIDE DEF v
  <2>2. mergeSessionIDs(u, v) \in Seq(Runs)
    BY <1>3, <2>1, SessionIDs
  <2> QED BY <1>2, <2>2 DEF v
<1>7. IsRule(o)
  BY <1>4, <1>5, <1>6 DEF IsRule
<1> QED BY <1>7 DEF o, b

\* Merge's session list is one of session entries.
LEMMA SessionsTyped ==
    ASSUME NEW s \in Seq(SessionEntries), NEW r \in Runs, NEW fin \in BOOLEAN,
           NEW e, e = [id |-> r, final |-> fin]
    PROVE  capSessions(upsert(s, e)) \in Seq(SessionEntries)
<1> DEFINE u == upsert(s, e)
           n == Len(u)
           v == [j \in DOMAIN u |-> u[j].id]
           p == Order(v)
           b == ByStart(u)
           d == n - MaxSessions + 1
<1>1. e \in SessionEntries
  BY DEF SessionEntries
<1>2. u \in Seq(SessionEntries)
  <2>1. CASE \E i \in DOMAIN s : s[i].id = e.id
    <3>1. u = [i \in 1..Len(s) |-> IF s[i].id = e.id THEN e ELSE s[i]]
      <4>1. DOMAIN s = 1..Len(s)
        BY EntriesFacts
      <4> QED BY <2>1, <4>1 DEF upsert
    <3> QED BY <1>1, <3>1
  <2>2. CASE ~\E i \in DOMAIN s : s[i].id = e.id
    <3>1. u = Append(s, e)
      BY <2>2 DEF upsert
    <3> QED BY <1>1, <3>1
  <2> QED BY <2>1, <2>2
<1> HIDE DEF u
<1>3. /\ n \in Nat /\ DOMAIN u = 1..n /\ \A i \in 1..n : u[i] \in SessionEntries
      /\ \A i \in 1..n : u[i].id \in Nat
  <2>1. /\ n \in Nat /\ DOMAIN u = 1..n /\ \A i \in 1..n : u[i] \in SessionEntries
        /\ \A i \in 1..n : u[i].id \in Runs
    BY <1>2, EntriesFacts
  <2> QED BY <2>1, CapsFacts
<1>4. v \in Seq(Nat) /\ Len(v) = n
  BY <1>3
<1>5. b = [i \in 1..n |-> u[p[i]]]
  BY <1>3 DEF ByStart
<1> HIDE DEF v, b
<1>6. p \in Bijection(1..n, 1..n)
  BY <1>3, <1>4, OrderFacts
<1> HIDE DEF p
<1>7. \A i \in 1..n : p[i] \in 1..n /\ b[i] \in SessionEntries
  BY <1>3, <1>5, <1>6 DEF Bijection, Injection
<1>8. CASE MaxSessions > 0 /\ n > MaxSessions
  <2>1. capSessions(u) = SubSeq(b, d, n)
    BY <1>8 DEF capSessions, b
  <2>2. d \in Int /\ n \in Int /\ \A i \in d..n : b[i] \in SessionEntries
    BY <1>3, <1>7, <1>8, CapsFacts
  <2> HIDE DEF d
  <2> QED BY <2>1, <2>2, SubSeqProperties DEF u
<1>9. CASE ~(MaxSessions > 0 /\ n > MaxSessions)
  BY <1>2, <1>9 DEF capSessions, u
<1> QED BY <1>8, <1>9

\* Merge: a well-formed document stays well formed.
LEMMA MergedIsDocument ==
    ASSUME NEW d, IsDocument(d), NEW r \in Runs, NEW fin \in BOOLEAN, NEW ev, IsFlush(ev),
           NEW o, o = Merge(d, [id |-> r, final |-> fin], [k \in Keys |-> convert(ev[k], r)])
    PROVE  IsDocument(o)
<1> DEFINE e == [id |-> r, final |-> fin]
           s == d.sessions
<1>1. s \in Seq(SessionEntries)
  BY DEF IsDocument
<1>2. o.sessions = capSessions(upsert(s, e))
  BY DEF Merge
<1>3. o.sessions \in Seq(SessionEntries)
  <2>1. e = [id |-> r, final |-> fin]
    OBVIOUS
  <2> HIDE DEF e, s
  <2> QED BY <1>1, <1>2, <2>1, SessionsTyped
<1>4. ASSUME NEW k \in Keys PROVE IsRule(o.rules[k])
  <2> DEFINE a == d.rules[k]
             f == ev[k]
             b == convert(f, r)
             x == o.rules[k]
  <2>1. IsRule(a) /\ f \in Seq(Times)
    BY DEF IsDocument, IsFlush
  <2>2. x = IF b.count = 0 THEN a ELSE mergeRule(a, b)
    BY DEF Merge
  <2>3. b = convert(f, r)
    OBVIOUS
  <2> HIDE DEF a, f, b, x
  <2>4. IsRule(x)
    <3>1. IsRule(mergeRule(a, b))
      BY <2>1, <2>3, MergedIsRule
    <3> QED BY <2>1, <2>2, <3>1
  <2> QED BY <2>4 DEF x
<1> QED BY <1>3, <1>4 DEF IsDocument


\* Everything is of its type, and so far finitely many runs have written.
Typed ==
    /\ TypeOK
    /\ \A k \in Keys : IsGiven(given[k])
    /\ batch = [r \in Runs |-> batch[r]] /\ \A r \in Runs : IsFlush(batch[r])
    /\ merged = [r \in Runs |-> merged[r]]
    /\ IsFiniteSet(Committed(wrote))

\* What the rename of run r would make of the histories.
GivenAfter(r) == [k \in Keys |-> With(given[k], batch[r][k], r)]

WroteAfter(r) == [wrote EXCEPT ![r] = IF closing[r] THEN "final" ELSE "open"]

\* Until a rename replaces a document it has not read, the document at the path is
\* the sum of the renames, and so will be the one in the memory of each run that has
\* read the document now at the path.
Summed ==
    ~lost => /\ ExactDoc(file.doc, given, wrote)
             /\ \A r \in Runs : Writing(r) /\ r \notin stale =>
                    ExactDoc(merged[r], GivenAfter(r), WroteAfter(r))

\* newSkeleton: an evidence file without rules and sessions.
LEMMA NewDocument == IsDocument(NewSkeleton) /\ NewSkeleton.sessions = <<>>
<1>1. /\ NoRule.count \in Nat /\ NoRule.first \in Times /\ NoRule.last \in Times
      /\ NoRule.sessions \in Seq(Runs) /\ NoRule.samples \in Seq(Times)
      /\ Len(NoRule.samples) <= MaxSamples
  <2>1. Undated \in Times /\ 0 <= MaxSamples /\ Len(<<>>) = 0
    BY CapsFacts
  <2> QED BY <2>1 DEF NoRule
<1>2. IsRule(NoRule)
  BY <1>1 DEF IsRule
<1>3. NewSkeleton.sessions = <<>> /\ \A k \in Keys : NewSkeleton.rules[k] = NoRule
  BY DEF NewSkeleton
<1>4. NewSkeleton.sessions \in Seq(SessionEntries)
  BY <1>3
<1> QED BY <1>2, <1>3, <1>4 DEF IsDocument

\* A flush brings finitely many flows, each under a rule key.
LEMMA EventsFacts ==
    /\ \A ev \in Events : IsFlush(ev) /\ Cardinality(Flows(ev)) \in Nat
    /\ IsFlush(NoFlows)
<1>1. ASSUME NEW ev \in Events PROVE IsFlush(ev) /\ Cardinality(Flows(ev)) \in Nat
  <2>1. Cardinality(Flows(ev)) \in 1..MaxBatch
    BY DEF Events
  <2>2. ASSUME NEW k \in Keys PROVE ev[k] \in Seq(Times)
    <3>1. PICK n \in 0..MaxBatch : ev[k] \in [1..n -> Times]
      BY DEF Events
    <3> QED BY <3>1
  <2> QED BY <2>1, <2>2 DEF IsFlush
<1>2. IsFlush(NoFlows)
  BY DEF IsFlush, NoFlows
<1> QED BY <1>1, <1>2

\* The history of a rule stays one.
LEMMA WithIsGiven ==
    ASSUME NEW g, IsGiven(g), NEW f \in Seq(Times), NEW r \in Runs
    PROVE  IsGiven(With(g, f, r))
<1> DEFINE a == g.flows
           b == g.samples
           x == recordAttribution(f).samples
           w == ByTime(a \o f)
           u == ByTime(b \o x)
<1>1. /\ With(g, f, r).flows = w /\ With(g, f, r).samples = u
      /\ With(g, f, r).runs = g.runs \cup (IF f = <<>> THEN {} ELSE {r})
  BY DEF With
<1>2. a \in Seq(Times) /\ b \in Seq(Times) /\ x \in Seq(Times) /\ g.runs \subseteq Runs
  BY AttributionFacts DEF IsGiven
<1> HIDE DEF a, b, x
<1>3. w \in Seq(Times)
  BY <1>2, GatheredFacts
<1>4. u \in Seq(Times)
  BY <1>2, GatheredFacts
<1> QED BY <1>1, <1>2, <1>3, <1>4 DEF IsGiven

\* The initial state is of its type.
LEMMA InitTyped == Init => Typed
<1> SUFFICES ASSUME Init PROVE Typed
  OBVIOUS
<1>1. /\ file.kind \in {"absent", "foreign"} /\ file.doc = NewSkeleton
      /\ pc = [r \in Runs |-> "idle"] /\ closing = [r \in Runs |-> FALSE]
      /\ merged = [r \in Runs |-> NewSkeleton] /\ temp = [r \in Runs |-> "none"]
      /\ seen = [r \in Runs |-> FALSE] /\ handled = 0 /\ batch = [r \in Runs |-> NoFlows]
      /\ stale = {} /\ lost = FALSE
      /\ given = [k \in Keys |-> [flows |-> <<>>, samples |-> <<>>, runs |-> {}]]
      /\ wrote = [r \in Runs |-> "nothing"]
  BY DEF Init
<1>2. /\ IsDocument(file.doc) /\ \A r \in Runs : IsDocument(merged[r])
      /\ \A r \in Runs : IsFlush(batch[r])
  <2>1. \A r \in Runs : merged[r] = NewSkeleton /\ batch[r] = NoFlows
    BY <1>1
  <2> QED BY <1>1, <2>1, NewDocument, EventsFacts, Zenon
<1>3. handled \in 0..MaxFlows
  BY <1>1, CapsFacts
<1>4. TypeOK
  <2>1. pc \in [Runs -> Pcs] /\ wrote \in [Runs -> {"nothing", "open", "final"}]
        /\ temp \in [Runs -> {"none", "partial", "full"}]
    BY <1>1 DEF Pcs
  <2>2. closing \in [Runs -> BOOLEAN] /\ seen \in [Runs -> BOOLEAN] /\ lost \in BOOLEAN
        /\ stale \subseteq Runs
    BY <1>1
  <2> QED BY <1>1, <1>2, <1>3, <2>1, <2>2 DEF TypeOK
<1>5. \A k \in Keys : IsGiven(given[k])
  <2> SUFFICES ASSUME NEW k \in Keys PROVE IsGiven(given[k])
    OBVIOUS
  <2>1. given[k].flows = <<>> /\ given[k].samples = <<>> /\ given[k].runs = {}
    BY <1>1
  <2>2. <<>> \in Seq(Times)
    OBVIOUS
  <2> QED BY <2>1, <2>2 DEF IsGiven
<1>6. IsFiniteSet(Committed(wrote))
  <2>1. Committed(wrote) = {}
    BY <1>1 DEF Committed
  <2> QED BY <2>1, FS_EmptySet
<1> QED BY <1>1, <1>2, <1>4, <1>5, <1>6 DEF Typed

\* The part of the state that a Write under way works on.
LEMMA OpenWriteTyped ==
    ASSUME Typed, NEW r \in Runs, NEW ev, IsFlush(ev), NEW fin \in BOOLEAN, OpenWrite(r, ev, fin)
    PROVE  /\ \A q \in Runs : IsDocument(merged'[q]) /\ IsFlush(batch'[q])
           /\ merged' = [q \in Runs |-> merged'[q]] /\ batch' = [q \in Runs |-> batch'[q]]
           /\ pc' \in [Runs -> Pcs]
           /\ UNCHANGED <<file, temp, seen, stale, lost, given, wrote>>
<1>1. PICK m : m = Merge(file.doc, [id |-> r, final |-> fin], [k \in Keys |-> convert(ev[k], r)])
  OBVIOUS
<1>2. IsDocument(file.doc) /\ pc \in [Runs -> Pcs]
  BY DEF Typed, TypeOK
<1>3. IsDocument(m)
  <2>1. PICK d : d = file.doc
    OBVIOUS
  <2>2. IsDocument(d)
    BY <1>2, <2>1
  <2>3. m = Merge(d, [id |-> r, final |-> fin], [k \in Keys |-> convert(ev[k], r)])
    BY <1>1, <2>1
  <2> QED BY <2>2, <2>3, MergedIsDocument
<1>4. /\ merged' = [merged EXCEPT ![r] = m] /\ batch' = [batch EXCEPT ![r] = ev]
      /\ pc' = [pc EXCEPT ![r] = "create"]
      /\ UNCHANGED <<file, temp, seen, stale, lost, given, wrote>>
  BY <1>1 DEF OpenWrite
<1>5. /\ merged = [q \in Runs |-> merged[q]] /\ batch = [q \in Runs |-> batch[q]]
      /\ \A q \in Runs : IsDocument(merged[q]) /\ IsFlush(batch[q])
  BY DEF Typed, TypeOK
<1>6. /\ merged' = [q \in Runs |-> IF q = r THEN m ELSE merged[q]]
      /\ batch' = [q \in Runs |-> IF q = r THEN ev ELSE batch[q]]
  BY <1>4, <1>5
<1>7. \A q \in Runs : /\ merged'[q] = IF q = r THEN m ELSE merged[q]
                      /\ batch'[q] = IF q = r THEN ev ELSE batch[q]
  BY <1>6
<1>8. pc' \in [Runs -> Pcs]
  BY <1>2, <1>4 DEF Pcs
<1>9. merged' = [q \in Runs |-> merged'[q]] /\ batch' = [q \in Runs |-> batch'[q]]
  BY <1>6
<1>10. \A q \in Runs : IsDocument(merged'[q]) /\ IsFlush(batch'[q])
  BY <1>3, <1>5, <1>7
<1> QED BY <1>4, <1>8, <1>9, <1>10

\* A Write that ends, one way or another, leaves nothing in memory.
LEMMA ClearTyped ==
    ASSUME Typed, NEW r \in Runs,
           merged' = [merged EXCEPT ![r] = NewSkeleton], batch' = [batch EXCEPT ![r] = NoFlows]
    PROVE  /\ \A q \in Runs : IsDocument(merged'[q]) /\ IsFlush(batch'[q])
           /\ merged' = [q \in Runs |-> merged'[q]] /\ batch' = [q \in Runs |-> batch'[q]]
<1>1. /\ merged = [q \in Runs |-> merged[q]] /\ batch = [q \in Runs |-> batch[q]]
      /\ \A q \in Runs : IsDocument(merged[q]) /\ IsFlush(batch[q])
  BY DEF Typed, TypeOK
<1>2. /\ merged' = [q \in Runs |-> IF q = r THEN NewSkeleton ELSE merged[q]]
      /\ batch' = [q \in Runs |-> IF q = r THEN NoFlows ELSE batch[q]]
  BY <1>1
<1>3. \A q \in Runs : /\ merged'[q] = IF q = r THEN NewSkeleton ELSE merged[q]
                      /\ batch'[q] = IF q = r THEN NoFlows ELSE batch[q]
  BY <1>2
<1>4. \A q \in Runs : IsDocument(merged'[q]) /\ IsFlush(batch'[q])
  BY <1>1, <1>3, NewDocument, EventsFacts
<1>5. merged' = [q \in Runs |-> merged'[q]] /\ batch' = [q \in Runs |-> batch'[q]]
  BY <1>2
<1> QED BY <1>4, <1>5

\* Every step keeps everything of its type.
LEMMA NextTyped == Typed /\ [Next]_vars => Typed'
<1> SUFFICES ASSUME Typed, [Next]_vars PROVE Typed'
  OBVIOUS
<1> USE DEF histVars
<1>1. /\ file.kind \in {"absent", "foreign", "doc", "torn"} /\ IsDocument(file.doc)
      /\ pc \in [Runs -> Pcs] /\ closing \in [Runs -> BOOLEAN]
      /\ temp \in [Runs -> {"none", "partial", "full"}] /\ seen \in [Runs -> BOOLEAN]
      /\ handled \in 0..MaxFlows /\ stale \subseteq Runs /\ lost \in BOOLEAN
      /\ wrote \in [Runs -> {"nothing", "open", "final"}]
  BY DEF Typed, TypeOK
<1>2. /\ \A r \in Runs : IsDocument(merged[r]) /\ IsFlush(batch[r])
      /\ merged = [r \in Runs |-> merged[r]] /\ batch = [r \in Runs |-> batch[r]]
      /\ \A k \in Keys : IsGiven(given[k])
      /\ IsFiniteSet(Committed(wrote))
  BY DEF Typed, TypeOK
<1>3. CASE UNCHANGED vars
  BY <1>1, <1>2, <1>3 DEF vars, Typed, TypeOK, Committed
<1>4. ASSUME NEW r \in Runs, NEW ev, IsFlush(ev), NEW fin \in BOOLEAN, OpenWrite(r, ev, fin),
             handled' \in 0..MaxFlows, closing' \in [Runs -> BOOLEAN]
      PROVE  Typed'
  <2>1. /\ \A q \in Runs : IsDocument(merged'[q]) /\ IsFlush(batch'[q])
        /\ merged' = [q \in Runs |-> merged'[q]] /\ batch' = [q \in Runs |-> batch'[q]]
        /\ pc' \in [Runs -> Pcs]
        /\ UNCHANGED <<file, temp, seen, stale, lost, given, wrote>>
    BY <1>4, OpenWriteTyped
  <2> QED BY <1>1, <1>2, <1>4, <2>1 DEF Typed, TypeOK, Committed
<1>5. ASSUME NEW r \in Runs, Handle(r) PROVE Typed'
  <2>1. PICK ev \in Events : /\ handled' = handled + Cardinality(Flows(ev))
                             /\ handled' <= MaxFlows /\ OpenWrite(r, ev, FALSE)
    BY <1>5 DEF Handle
  <2>2. IsFlush(ev) /\ Cardinality(Flows(ev)) \in Nat /\ closing' = closing
    BY <1>5, EventsFacts DEF Handle
  <2>3. handled' \in 0..MaxFlows
    BY <1>1, <2>1, <2>2, CapsFacts
  <2> QED BY <1>1, <1>4, <2>1, <2>2, <2>3
<1>6. ASSUME NEW r \in Runs, Finalize(r) PROVE Typed'
  <2>1. OpenWrite(r, NoFlows, TRUE) /\ handled' = handled /\ closing' = [closing EXCEPT ![r] = TRUE]
    BY <1>6 DEF Finalize
  <2>2. closing' \in [Runs -> BOOLEAN]
    BY <1>1, <2>1
  <2> QED BY <1>1, <1>4, <2>1, <2>2, EventsFacts
<1>7. ASSUME NEW r \in Runs, HandleFails(r) PROVE Typed'
  <2>1. handled' \in 0..MaxFlows
    BY <1>1, <1>7, CapsFacts DEF HandleFails
  <2>2. UNCHANGED <<file, pc, closing, merged, temp, seen, histVars>>
    BY <1>7 DEF HandleFails
  <2> QED BY <1>1, <1>2, <2>1, <2>2 DEF Typed, TypeOK, Committed
<1>8. ASSUME NEW r \in Runs, FinalizeNothing(r) \/ CreateTemp(r) \/ FillTemp(r) PROVE Typed'
  <2>1. /\ pc' \in [Runs -> Pcs] /\ closing' \in [Runs -> BOOLEAN]
        /\ temp' \in [Runs -> {"none", "partial", "full"}]
        /\ UNCHANGED <<file, merged, seen, handled, histVars>>
    <3>1. CASE FinalizeNothing(r)
      BY <1>1, <3>1 DEF FinalizeNothing, Pcs
    <3>2. CASE CreateTemp(r)
      BY <1>1, <3>2 DEF CreateTemp, Pcs
    <3>3. CASE FillTemp(r)
      BY <1>1, <3>3 DEF FillTemp, Pcs
    <3> QED BY <1>8, <3>1, <3>2, <3>3
  <2> QED BY <1>1, <1>2, <2>1 DEF Typed, TypeOK, Committed
<1>9. ASSUME NEW r \in Runs, Returned(r) \in Pcs,
             WriteFails(r) \/ Crash(r)
      PROVE  Typed'
  <2>1. /\ merged' = [merged EXCEPT ![r] = NewSkeleton] /\ batch' = [batch EXCEPT ![r] = NoFlows]
        /\ pc' \in [Runs -> Pcs] /\ temp' \in [Runs -> {"none", "partial", "full"}]
        /\ stale' \subseteq Runs /\ UNCHANGED <<file, closing, seen, handled, lost, given, wrote>>
    <3>1. CASE WriteFails(r)
      BY <1>1, <1>9, <3>1 DEF WriteFails
    <3>2. CASE Crash(r)
      BY <1>1, <3>2 DEF Crash, Pcs
    <3> QED BY <1>9, <3>1, <3>2
  <2>2. /\ \A q \in Runs : IsDocument(merged'[q]) /\ IsFlush(batch'[q])
        /\ merged' = [q \in Runs |-> merged'[q]] /\ batch' = [q \in Runs |-> batch'[q]]
    BY <2>1, ClearTyped
  <2> QED BY <1>1, <1>2, <2>1, <2>2 DEF Typed, TypeOK, Committed
<1>10. ASSUME NEW r \in Runs, Returned(r) \in Pcs, Rename(r) PROVE Typed'
  <2>1. /\ merged' = [merged EXCEPT ![r] = NewSkeleton] /\ batch' = [batch EXCEPT ![r] = NoFlows]
        /\ file' = [kind |-> IF temp[r] = "full" THEN "doc" ELSE "torn", doc |-> merged[r]]
        /\ given' = [k \in Keys |-> With(given[k], batch[r][k], r)]
        /\ wrote' = [wrote EXCEPT ![r] = IF closing[r] THEN "final" ELSE "open"]
        /\ UNCHANGED <<closing, handled>>
    BY <1>10 DEF Rename
  <2>2. /\ pc' \in [Runs -> Pcs] /\ temp' \in [Runs -> {"none", "partial", "full"}]
        /\ seen' \in [Runs -> BOOLEAN] /\ stale' \subseteq Runs /\ lost' \in BOOLEAN
        /\ wrote' \in [Runs -> {"nothing", "open", "final"}]
    BY <1>1, <1>10 DEF Rename
  <2>3. /\ \A q \in Runs : IsDocument(merged'[q]) /\ IsFlush(batch'[q])
        /\ merged' = [q \in Runs |-> merged'[q]] /\ batch' = [q \in Runs |-> batch'[q]]
    BY <2>1, ClearTyped
  <2>4. file'.kind \in {"absent", "foreign", "doc", "torn"} /\ IsDocument(file'.doc)
    BY <1>2, <2>1
  <2>5. ASSUME NEW k \in Keys PROVE IsGiven(given'[k])
    <3> DEFINE g == given[k]
               f == batch[r][k]
    <3>1. given'[k] = With(g, f, r)
      BY <2>1
    <3>2. IsGiven(g) /\ f \in Seq(Times)
      BY <1>2 DEF IsFlush
    <3> HIDE DEF g, f
    <3>3. IsGiven(With(g, f, r))
      BY <3>2, WithIsGiven
    <3> QED BY <3>1, <3>3
  <2>6. IsFiniteSet(Committed(wrote'))
    <3>1. Committed(wrote') = Committed(wrote) \cup {r}
      BY <1>1, <2>1 DEF Committed
    <3> QED BY <1>2, <3>1, FS_AddElement
  <2>7. TypeOK'
    BY <1>1, <2>1, <2>2, <2>3, <2>4 DEF TypeOK
  <2> QED BY <2>3, <2>5, <2>6, <2>7 DEF Typed
<1>11. \A r \in Runs : Returned(r) \in Pcs
  BY DEF Returned, Pcs
<1> QED BY <1>3, <1>5, <1>6, <1>7, <1>8, <1>9, <1>10, <1>11 DEF Next

\* Writer.Write, Merge: everything the evidence store keeps is of its type, and no
\* document, on disk or in memory, exceeds the sample cap.
THEOREM TypeCorrect == Spec => []TypeOK
<1>1. Typed => TypeOK
  BY DEF Typed
<1> QED BY <1>1, InitTyped, NextTyped, PTL DEF Spec

-----------------------------------------------------------------------------
(* The sum of the renames.                                                 *)

\* A run that may still handle flows has not entered finalize.
Open == \A r \in Runs : pc[r] = "idle" => ~closing[r]

\* No run starts in finalize.
LEMMA InitOpen == Init => Open
BY DEF Init, Open

\* Only a run that has left its pipeline enters finalize.
LEMMA NextOpen == Typed /\ Open /\ [Next]_vars => Open'
<1> SUFFICES ASSUME Typed, Open, [Next]_vars PROVE Open'
  OBVIOUS
<1>1. pc \in [Runs -> Pcs] /\ closing \in [Runs -> BOOLEAN]
  BY DEF Typed, TypeOK
<1>2. CASE UNCHANGED vars
  BY <1>2 DEF vars, Open
<1>3. ASSUME NEW r \in Runs,
             \/ Handle(r) \/ HandleFails(r) \/ Finalize(r) \/ FinalizeNothing(r)
             \/ CreateTemp(r) \/ FillTemp(r) \/ Rename(r) \/ WriteFails(r) \/ Crash(r)
      PROVE  Open'
  <2>1. /\ \A q \in Runs : q # r => pc'[q] = pc[q] /\ closing'[q] = closing[q]
        /\ pc'[r] = "idle" => closing'[r] = closing[r] /\ ~closing[r]
    <3>1. CASE Handle(r)
      BY <1>1, <3>1 DEF Handle, OpenWrite, Open
    <3>2. CASE HandleFails(r)
      BY <1>1, <3>2 DEF HandleFails, Open
    <3>3. CASE Finalize(r)
      BY <1>1, <3>3 DEF Finalize, OpenWrite
    <3>4. CASE FinalizeNothing(r)
      BY <1>1, <3>4 DEF FinalizeNothing
    <3>5. CASE CreateTemp(r) \/ FillTemp(r)
      BY <1>1, <3>5 DEF CreateTemp, FillTemp
    <3>6. CASE Rename(r)
      BY <1>1, <3>6 DEF Rename, Returned
    <3>7. CASE WriteFails(r)
      BY <1>1, <3>7 DEF WriteFails, Returned
    <3>8. CASE Crash(r)
      BY <1>1, <3>8 DEF Crash
    <3> QED BY <1>3, <3>1, <3>2, <3>3, <3>4, <3>5, <3>6, <3>7, <3>8
  <2> QED BY <2>1 DEF Open
<1> QED BY <1>2, <1>3 DEF Next

\* Before the first rename the sum is empty.
LEMMA InitSummed == Init => Summed
<1> SUFFICES ASSUME Init PROVE Summed
  OBVIOUS
<1>1. /\ file.doc = NewSkeleton /\ pc = [r \in Runs |-> "idle"]
      /\ given = [k \in Keys |-> [flows |-> <<>>, samples |-> <<>>, runs |-> {}]]
      /\ wrote = [r \in Runs |-> "nothing"]
  BY DEF Init
<1>2. \A r \in Runs : ~Writing(r)
  BY <1>1 DEF Writing
<1>3. Ledger(<<>>, wrote)
  <2>1. Ids(<<>>) = {} /\ Distinct(<<>>) /\ Flagged(<<>>, wrote)
    BY DEF Ids, Distinct, Flagged
  <2>2. Committed(wrote) = {}
    BY <1>1 DEF Committed
  <2>3. Newest({}, {})
    BY FS_EmptySet, CapsFacts DEF Newest
  <2> QED BY <2>1, <2>2, <2>3 DEF Ledger
<1>4. ASSUME NEW k \in Keys PROVE ExactRule(NewSkeleton.rules[k], given[k])
  <2> DEFINE a == NewSkeleton.rules[k]
             g == given[k]
  <2>1. /\ a.count = 0 /\ a.first = Undated /\ a.last = Undated /\ a.sessions = <<>> /\ a.samples = <<>>
        /\ g.flows = <<>> /\ g.samples = <<>> /\ g.runs = {}
    BY <1>1 DEF NewSkeleton, NoRule
  <2> HIDE DEF a, g
  <2>2. Dated(<<>>) = {} /\ Len(<<>>) = 0 /\ ToSet(<<>>) = {} /\ IsInjective(<<>>)
    BY EmptyIsSeq DEF Dated, IsInjective
  <2>3. Earliest({}) = Undated /\ Latest({}) = Undated
    BY DEF Earliest, Latest
  <2>4. Kept(<<>>, <<>>)
    <3>1. ASSUME NEW t PROVE Count(<<>>, t) = 0
      <4>1. {i \in DOMAIN <<>> : <<>>[i] = t} = {}
        OBVIOUS
      <4> QED BY <4>1, FS_EmptySet DEF Count
    <3> QED BY <2>2, <3>1, CapsFacts DEF Kept
  <2>5. ExactRule(a, g)
    BY <2>1, <2>2, <2>3, <2>4 DEF ExactRule
  <2> QED BY <2>5 DEF a, g
<1>5. ExactDoc(NewSkeleton, given, wrote)
  BY <1>3, <1>4, NewDocument DEF ExactDoc
<1> QED BY <1>1, <1>2, <1>5 DEF Summed

\* A step that leaves the document and the histories alone, and of every Write that
\* was under way what it has in memory.
LEMMA SummedFrame ==
    ASSUME Summed, UNCHANGED <<file, given, wrote, lost>>,
           \A q \in Runs : Writing(q)' /\ q \notin stale' /\ ~lost =>
               \/ /\ Writing(q) /\ q \notin stale /\ merged'[q] = merged[q]
                  /\ batch'[q] = batch[q] /\ closing'[q] = closing[q]
               \/ ExactDoc(merged'[q], GivenAfter(q)', WroteAfter(q)')
    PROVE  Summed'
<1>1. ~lost => ExactDoc(file'.doc, given', wrote')
  BY DEF Summed
<1>2. ASSUME NEW q \in Runs, Writing(q)', q \notin stale', ~lost
      PROVE  ExactDoc(merged'[q], GivenAfter(q)', WroteAfter(q)')
  <2>1. CASE /\ Writing(q) /\ q \notin stale /\ merged'[q] = merged[q]
             /\ batch'[q] = batch[q] /\ closing'[q] = closing[q]
    <3>1. ExactDoc(merged[q], GivenAfter(q), WroteAfter(q))
      BY <1>2, <2>1 DEF Summed
    <3>2. GivenAfter(q)' = GivenAfter(q) /\ WroteAfter(q)' = WroteAfter(q)
      BY <2>1 DEF GivenAfter, WroteAfter
    <3> QED BY <2>1, <3>1, <3>2
  <2> QED BY <1>2, <2>1
<1> QED BY <1>1, <1>2 DEF Summed

\* A Write that begins has read the document now at the path.
LEMMA OpenWriteSummed ==
    ASSUME Typed, Summed, NEW r \in Runs, NEW ev, IsFlush(ev), NEW fin \in BOOLEAN,
           OpenWrite(r, ev, fin), closing'[r] = fin,
           \A q \in Runs : q # r => closing'[q] = closing[q]
    PROVE  Summed'
<1>1. PICK m : m = Merge(file.doc, [id |-> r, final |-> fin], [k \in Keys |-> convert(ev[k], r)])
  OBVIOUS
<1>2. /\ merged' = [merged EXCEPT ![r] = m] /\ batch' = [batch EXCEPT ![r] = ev]
      /\ pc' = [pc EXCEPT ![r] = "create"]
      /\ UNCHANGED <<file, temp, seen, stale, lost, given, wrote>>
  BY <1>1 DEF OpenWrite
<1>3. /\ merged = [q \in Runs |-> merged[q]] /\ batch = [q \in Runs |-> batch[q]]
      /\ pc \in [Runs -> Pcs] /\ IsDocument(file.doc) /\ \A k \in Keys : IsGiven(given[k])
      /\ wrote \in [Runs -> WroteValues] /\ IsFiniteSet(Committed(wrote))
  BY DEF Typed, TypeOK, WroteValues
<1>4. merged'[r] = m /\ batch'[r] = ev
  <2>1. DOMAIN merged = Runs /\ DOMAIN batch = Runs
    BY <1>3
  <2> QED BY <1>2, <2>1
<1>5. \A q \in Runs : q # r => /\ merged'[q] = merged[q] /\ batch'[q] = batch[q]
                               /\ Writing(q)' => Writing(q)
  BY <1>2, <1>3 DEF Writing
<1>6. ASSUME ~lost PROVE ExactDoc(merged'[r], GivenAfter(r)', WroteAfter(r)')
  <2>1. PICK d : d = file.doc
    OBVIOUS
  <2>2. PICK g2 : g2 = AllWith(given, ev, r)
    OBVIOUS
  <2>3. PICK w2 : w2 = [wrote EXCEPT ![r] = IF fin THEN "final" ELSE "open"]
    OBVIOUS
  <2>4. IsDocument(d) /\ ExactDoc(d, given, wrote)
    BY <1>3, <1>6, <2>1 DEF Summed
  <2>5. PICK e : e = [id |-> r, final |-> fin]
    OBVIOUS
  <2>9. PICK new : new = Converted(ev, r)
    OBVIOUS
  <2>10. m = Merge(d, e, new)
    BY <1>1, <2>1, <2>5, <2>9 DEF Converted
  <2>6. ExactDoc(m, g2, w2)
    <3>1. PICK g : g = given
      OBVIOUS
    <3>2. PICK w : w = wrote
      OBVIOUS
    <3>3. ExactDoc(d, g, w) /\ IsHistory(g)
      BY <1>3, <2>4, <3>1, <3>2 DEF IsHistory
    <3>4. w \in [Runs -> WroteValues] /\ IsFiniteSet(Committed(w))
      BY <1>3, <3>2
    <3>5. g2 = AllWith(g, ev, r)
      BY <2>2, <3>1
    <3>6. w2 = [w EXCEPT ![r] = IF fin THEN "final" ELSE "open"]
      BY <2>3, <3>2
    <3>7. IsDocument(d) /\ IsFlush(ev) /\ r \in Runs /\ fin \in BOOLEAN
      BY <2>4
    <3> QED BY ONLY <2>5, <2>9, <2>10, <3>3, <3>4, <3>5, <3>6, <3>7, MergedDocument
  <2>7. GivenAfter(r)' = g2
    BY <1>2, <1>4, <2>2 DEF GivenAfter, AllWith
  <2>8. WroteAfter(r)' = w2
    BY <1>2, <2>3 DEF WroteAfter
  <2> QED BY <1>4, <2>6, <2>7, <2>8
<1> QED BY <1>2, <1>5, <1>6, SummedFrame

\* Every step keeps the documents the sum of the renames.
LEMMA NextSummed == Typed /\ Open /\ Summed /\ [Next]_vars => Summed'
<1> SUFFICES ASSUME Typed, Open, Summed, [Next]_vars PROVE Summed'
  OBVIOUS
<1> USE DEF histVars
<1>1. /\ pc \in [Runs -> Pcs] /\ closing \in [Runs -> BOOLEAN] /\ stale \subseteq Runs
      /\ merged = [q \in Runs |-> merged[q]] /\ batch = [q \in Runs |-> batch[q]]
  BY DEF Typed, TypeOK
<1>2. CASE UNCHANGED vars
  <2>1. \A q \in Runs : Writing(q)' => Writing(q)
    BY <1>2 DEF vars, Writing
  <2> QED BY <1>2, <2>1, SummedFrame DEF vars
<1>3. ASSUME NEW r \in Runs, Handle(r) PROVE Summed'
  <2>1. PICK ev \in Events : OpenWrite(r, ev, FALSE)
    BY <1>3 DEF Handle
  <2>2. closing' = closing /\ closing[r] = FALSE
    BY <1>1, <1>3 DEF Handle, Open
  <2>3. FALSE \in BOOLEAN /\ closing'[r] = FALSE /\ IsFlush(ev)
    BY <2>2, EventsFacts
  <2> QED BY <2>1, <2>2, <2>3, OpenWriteSummed
<1>4. ASSUME NEW r \in Runs, Finalize(r) PROVE Summed'
  <2>1. OpenWrite(r, NoFlows, TRUE) /\ closing' = [closing EXCEPT ![r] = TRUE]
    BY <1>4 DEF Finalize
  <2>2. TRUE \in BOOLEAN /\ closing'[r] = TRUE /\ IsFlush(NoFlows)
        /\ \A q \in Runs : q # r => closing'[q] = closing[q]
    BY <1>1, <2>1, EventsFacts
  <2> QED BY <2>1, <2>2, OpenWriteSummed
<1>5. ASSUME NEW r \in Runs,
             \/ HandleFails(r) \/ FinalizeNothing(r) \/ CreateTemp(r) \/ FillTemp(r)
             \/ WriteFails(r) \/ Crash(r)
      PROVE  Summed'
  <2>1. /\ UNCHANGED <<file, given, wrote, lost>>
        /\ \A q \in Runs : q # r => /\ pc'[q] = pc[q] /\ closing'[q] = closing[q]
                                    /\ merged'[q] = merged[q] /\ batch'[q] = batch[q]
                                    /\ q \in stale => q \in stale'
        /\ Writing(r)' => /\ Writing(r) /\ closing'[r] = closing[r] /\ merged'[r] = merged[r]
                          /\ batch'[r] = batch[r] /\ stale' = stale
    <3>1. CASE HandleFails(r)
      BY <1>1, <3>1 DEF HandleFails, Writing
    <3>2. CASE FinalizeNothing(r)
      BY <1>1, <3>2 DEF FinalizeNothing, Writing
    <3>3. CASE CreateTemp(r)
      BY <1>1, <3>3 DEF CreateTemp, Writing
    <3>4. CASE FillTemp(r)
      BY <1>1, <3>4 DEF FillTemp, Writing
    <3>5. CASE WriteFails(r)
      <4>1. /\ UNCHANGED <<file, given, wrote, lost, closing>>
            /\ \A q \in Runs : q # r => /\ pc'[q] = pc[q] /\ merged'[q] = merged[q]
                                        /\ batch'[q] = batch[q] /\ (q \in stale => q \in stale')
        BY <1>1, <3>5 DEF WriteFails
      <4>2. pc'[r] = Returned(r)
        BY <1>1, <3>5 DEF WriteFails
      <4>3. ~Writing(r)'
        BY <4>2 DEF Writing, Returned
      <4> QED BY <4>1, <4>3
    <3>6. CASE Crash(r)
      <4>1. /\ UNCHANGED <<file, given, wrote, lost, closing>>
            /\ \A q \in Runs : q # r => /\ pc'[q] = pc[q] /\ merged'[q] = merged[q]
                                        /\ batch'[q] = batch[q] /\ (q \in stale => q \in stale')
        BY <1>1, <3>6 DEF Crash
      <4>2. pc'[r] = "crashed"
        BY <1>1, <3>6 DEF Crash
      <4>3. ~Writing(r)'
        BY <4>2 DEF Writing
      <4> QED BY <4>1, <4>3
    <3> QED BY <1>5, <3>1, <3>2, <3>3, <3>4, <3>5, <3>6
  <2>2. ASSUME NEW q \in Runs, Writing(q)', q \notin stale'
        PROVE  /\ Writing(q) /\ q \notin stale /\ merged'[q] = merged[q]
               /\ batch'[q] = batch[q] /\ closing'[q] = closing[q]
    BY <2>1, <2>2 DEF Writing
  <2> QED BY <2>1, <2>2, SummedFrame
<1>6. ASSUME NEW r \in Runs, Rename(r) PROVE Summed'
  <2>1. /\ file'.doc = merged[r] /\ given' = GivenAfter(r) /\ wrote' = WroteAfter(r)
        /\ lost' = (lost \/ r \in stale) /\ stale' = {q \in Runs : Writing(q)} \ {r}
        /\ pc' = [pc EXCEPT ![r] = Returned(r)] /\ Writing(r)
    BY <1>6 DEF Rename, GivenAfter, WroteAfter, Writing
  <2>2. ASSUME ~lost' PROVE ExactDoc(file'.doc, given', wrote')
    <3>1. ~lost /\ r \notin stale
      BY <2>1, <2>2
    <3>2. ExactDoc(merged[r], GivenAfter(r), WroteAfter(r))
      BY <2>1, <3>1 DEF Summed
    <3> QED BY <2>1, <3>2
  <2>3. ASSUME NEW q \in Runs, Writing(q)' PROVE q \in stale'
    <3>1. pc'[r] = Returned(r)
      BY <1>1, <2>1
    <3>2. q # r
      BY <2>3, <3>1 DEF Writing, Returned
    <3>3. Writing(q)
      BY <1>1, <2>1, <2>3, <3>2 DEF Writing
    <3> QED BY <2>1, <3>2, <3>3
  <2> QED BY <2>2, <2>3 DEF Summed
<1> QED BY <1>2, <1>3, <1>4, <1>5, <1>6 DEF Next

\* The document at the path is the sum of the renames, for as long as none overwrote another.
LEMMA AlwaysSummed == Spec => [](Typed /\ Summed)
<1>1. Init => Typed /\ Open /\ Summed
  BY InitTyped, InitOpen, InitSummed
<1>2. Typed /\ Open /\ Summed /\ [Next]_vars => (Typed /\ Open /\ Summed)'
  BY NextTyped, NextOpen, NextSummed
<1> QED BY <1>1, <1>2, PTL DEF Spec

\* Merge and mergeRule: the totals of a rule are those of all the flows whose Write
\* succeeded, for any runs, any flows, dated or not, and any failures in between.
THEOREM TotalsSafe == Spec => []TotalsExact
<1>1. Summed => TotalsExact
  BY DEF Summed, TotalsExact, Exact, ExactDoc, ExactRule
<1> QED BY <1>1, AlwaysSummed, PTL

\* capSamples: capping at every flush keeps the samples that capping once would.
THEOREM SamplesSafe == Spec => []SamplesNewest
<1>1. Summed => SamplesNewest
  BY DEF Summed, SamplesNewest, Exact, ExactDoc, ExactRule, Kept
<1> QED BY <1>1, AlwaysSummed, PTL

\* Merge and mergeSessionIDs: the session list holds the newest runs that have written,
\* each once and with its last counters, and a rule names every run that contributed.
THEOREM LedgerSafe == Spec => []SessionLedger
<1>1. Summed => SessionLedger
  <2> SUFFICES ASSUME Summed, Exact
               PROVE  LET list == file.doc.sessions  ids == {list[i].id : i \in DOMAIN list} IN
            /\ IsInjective([i \in DOMAIN list |-> list[i].id])
            /\ ids \subseteq Committers
            /\ Cardinality(ids) = IF MaxSessions > 0 /\ Cardinality(Committers) > MaxSessions
                                  THEN MaxSessions ELSE Cardinality(Committers)
            /\ \A r \in Committers \ ids, q \in ids : r < q
            /\ \A i \in DOMAIN list : list[i].final = (wrote[list[i].id] = "final")
            /\ \A k \in Keys :
                   LET named == file.doc.rules[k].sessions IN
                       IsInjective(named) /\ {named[i] : i \in DOMAIN named} = given[k].runs
    BY DEF SessionLedger
  <2> DEFINE list == file.doc.sessions
             ids == {list[i].id : i \in DOMAIN list}
  <2>1. (\A k \in Keys : ExactRule(file.doc.rules[k], given[k])) /\ Ledger(list, wrote)
    BY DEF Summed, Exact, ExactDoc
  <2>2. ids = Ids(list) /\ Committers = Committed(wrote)
    BY DEF Ids, Committers, Committed
  <2>3. IsInjective([i \in DOMAIN list |-> list[i].id])
    BY <2>1 DEF Ledger, Distinct, IsInjective
  <2>4. Newest(ids, Committers)
    BY <2>1, <2>2 DEF Ledger
  <2>5. \A i \in DOMAIN list : list[i].final = (wrote[list[i].id] = "final")
    BY <2>1 DEF Ledger, Flagged
  <2>6. ASSUME NEW k \in Keys
        PROVE  LET named == file.doc.rules[k].sessions IN
                   IsInjective(named) /\ {named[i] : i \in DOMAIN named} = given[k].runs
    BY <2>1 DEF ExactRule, ToSet
  <2> QED BY <2>3, <2>4, <2>5, <2>6 DEF Newest
<1> QED BY <1>1, AlwaysSummed, PTL
=============================================================================
