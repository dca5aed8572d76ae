-------------------------- MODULE PolicyRulesProofs --------------------------
(***************************************************************************)
(* What the pure part of policy generation returns, whatever the flows:    *)
(* a merge keeps what the existing policy grants and adds what the         *)
(* incoming one grants; what BuildPolicy makes of a bucket of flows; that  *)
(* of the rules that match one another only the first has HTTP lists.      *)
(***************************************************************************)
EXTENDS PolicyRules, SequenceLemmas

-----------------------------------------------------------------------------
(* Merging one rule.                                                       *)

IsRule(r) ==
    r = [dir |-> r.dir, peer |-> r.peer, fqdns |-> r.fqdns, ports |-> r.ports, icmps |-> r.icmps]

IsRules(rules) == IsSeq(rules) /\ \A i \in 1..Len(rules) : IsRule(rules[i])

MergedRule(a, b, replaceHTTP) ==
    [dir |-> a.dir, peer |-> a.peer, fqdns |-> a.fqdns,
     ports |-> MergePortRules(a.ports, b.ports, replaceHTTP),
     icmps |-> MergeICMPRules(a.icmps, b.icmps)]

RuleOf(dir, peer, fqdns, ports, icmps) ==
    [dir |-> dir, peer |-> peer, fqdns |-> fqdns, ports |-> ports, icmps |-> icmps]

\* The fields a merge changes, one at a time.
LEMMA SetPorts ==
    ASSUME NEW a, NEW b, NEW c, NEW d, NEW e, NEW x,
           NEW o, o = RuleOf(a, b, c, d, e)
    PROVE  [o EXCEPT !.ports = x] = RuleOf(a, b, c, x, e)
BY DEF RuleOf

\* A rule whose ICMP entries are replaced.
LEMMA SetICMPs ==
    ASSUME NEW a, NEW b, NEW c, NEW d, NEW e, NEW x,
           NEW o, o = RuleOf(a, b, c, d, e)
    PROVE  [o EXCEPT !.icmps = x] = RuleOf(a, b, c, d, x)
BY DEF RuleOf

\* A rule whose ports and ICMP entries are replaced, as mergePortRules and mergeICMPRules do.
LEMMA SetBoth ==
    ASSUME NEW o, IsRule(o), NEW x, NEW y
    PROVE  [[o EXCEPT !.ports = x] EXCEPT !.icmps = y] = RuleOf(o.dir, o.peer, o.fqdns, x, y)
<1> DEFINE a == o.dir  b == o.peer  c == o.fqdns  d == o.ports  e == o.icmps
<1>1. o = RuleOf(a, b, c, d, e)
  BY DEF IsRule, RuleOf
<1> HIDE DEF a, b, c, d, e
<1>2. [o EXCEPT !.ports = x] = RuleOf(a, b, c, x, e)
  BY <1>1, SetPorts
<1> DEFINE o2 == [o EXCEPT !.ports = x]
<1>3. o2 = RuleOf(a, b, c, x, e)
  BY <1>2
<1> HIDE DEF o2
<1>4. [o2 EXCEPT !.icmps = y] = RuleOf(a, b, c, x, y)
  BY <1>3, SetICMPs
<1> QED BY <1>4 DEF o2, a, b, c

\* A merge of one rule appends it, or changes the first rule it matches in its ports
\* and ICMP types only (MergePolicyWithOptions).
LEMMA MergeRuleCases ==
    ASSUME NEW rules, IsRules(rules), NEW in, NEW rep
    PROVE  \/ /\ MergeRule(rules, in, rep) = Append(rules, in)
              /\ \A i \in 1..Len(rules) : ~RulesMatch(rules[i], in)
           \/ \E k \in 1..Len(rules) :
                 /\ RulesMatch(rules[k], in)
                 /\ \A i \in 1..Len(rules) : i < k => ~RulesMatch(rules[i], in)
                 /\ MergeRule(rules, in, rep) = [rules EXCEPT ![k] = MergedRule(rules[k], in, rep)]
<1> DEFINE I == {i \in 1..Len(rules) : RulesMatch(rules[i], in)}
<1>0. Len(rules) \in Nat /\ DOMAIN rules = 1..Len(rules) /\ rules = [i \in 1..Len(rules) |-> rules[i]]
  BY SeqFacts DEF IsRules
<1>1. CASE I = {}
  <2>1. SelectInSeq(rules, LAMBDA r : RulesMatch(r, in)) = 0
    BY <1>1 DEF SelectInSeq
  <2> QED BY <2>1, <1>1 DEF MergeRule
<1>2. CASE I # {}
  <2> DEFINE k == Min(I)
  <2>1. PICK j \in I : \A m \in I : j <= m
    <3>1. I \in SUBSET Nat
      BY <1>0
    <3> QED BY <3>1, <1>2, LeastElement
  <2>2. k \in I /\ \A m \in I : k <= m
    BY <2>1 DEF Min
  <2>3. SelectInSeq(rules, LAMBDA r : RulesMatch(r, in)) = k /\ k # 0
    BY <1>2, <2>2 DEF SelectInSeq
  <2> HIDE DEF k
  <2>4. IsRule(rules[k])
    BY <2>2 DEF IsRules
  <2>5. MergeRule(rules, in, rep) =
          [rules EXCEPT ![k].ports = MergePortRules(@, in.ports, rep),
                        ![k].icmps = MergeICMPRules(@, in.icmps)]
    BY <2>3 DEF MergeRule
  <2> DEFINE old == rules[k]
             mp == MergePortRules(old.ports, in.ports, rep)
             mi == MergeICMPRules(old.icmps, in.icmps)
  <2>6. [[old EXCEPT !.ports = mp] EXCEPT !.icmps = mi] = MergedRule(old, in, rep)
    <3> HIDE DEF mp, mi, old
    <3>1. IsRule(old) /\ mp = MergePortRules(old.ports, in.ports, rep)
          /\ mi = MergeICMPRules(old.icmps, in.icmps)
      BY <2>4 DEF old, mp, mi
    <3> QED BY <3>1, SetBoth DEF MergedRule, RuleOf
  <2>7. MergeRule(rules, in, rep) = [rules EXCEPT ![k] = MergedRule(rules[k], in, rep)]
    BY <2>2, <2>4, <2>5, <2>6, <1>0 DEF IsRule
  <2>8. \A i \in 1..Len(rules) : i < k => ~RulesMatch(rules[i], in)
    BY <2>2
  <2> QED BY <2>2, <2>7, <2>8
<1> QED BY <1>1, <1>2

-----------------------------------------------------------------------------
(* How a rule may change in a merge with the rules of a set.               *)

SamePeer(a, b) == a.dir = b.dir /\ a.peer = b.peer

\* A request list that is not empty is kept, or replaced by an incoming one.
HTTPGrows(a, b, p, incoming, replaceHTTP) ==
    IF replaceHTTP
    THEN a.ports[p].http # {} =>
            \/ b.ports[p].http = a.ports[p].http
            \/ \E r \in incoming : /\ SamePeer(r, a) /\ p \in DOMAIN r.ports
                                   /\ r.ports[p].http # {}
                                   /\ b.ports[p].http = r.ports[p].http
    ELSE a.ports[p].http \subseteq b.ports[p].http

Grows(a, b, incoming, replaceHTTP) ==
    /\ SamePeer(a, b) /\ IsICMPRule(b) = IsICMPRule(a)
    /\ a.icmps \subseteq b.icmps
    /\ DOMAIN a.ports \subseteq DOMAIN b.ports
    /\ \A p \in DOMAIN a.ports : /\ a.ports[p].dns \subseteq b.ports[p].dns
                                 /\ HTTPGrows(a, b, p, incoming, replaceHTTP)

\* A rule has lost nothing against itself.
LEMMA GrowsReflexive ==
    ASSUME NEW a, NEW incoming, NEW rep
    PROVE  Grows(a, a, incoming, rep)
BY DEF Grows, SamePeer, HTTPGrows

\* What grows twice has lost nothing.
LEMMA GrowsTransitive ==
    ASSUME NEW a, NEW b, NEW c, NEW incoming, NEW rep,
           Grows(a, b, incoming, rep), Grows(b, c, incoming, rep)
    PROVE  Grows(a, c, incoming, rep)
<1>1. SamePeer(a, b) /\ SamePeer(a, c) /\ IsICMPRule(c) = IsICMPRule(a)
  BY DEF Grows, SamePeer
<1>2. a.icmps \subseteq c.icmps /\ DOMAIN a.ports \subseteq DOMAIN c.ports
  BY DEF Grows
<1>3. ASSUME NEW p \in DOMAIN a.ports PROVE a.ports[p].dns \subseteq c.ports[p].dns
  BY <1>3 DEF Grows
<1>4. ASSUME NEW p \in DOMAIN a.ports PROVE HTTPGrows(a, c, p, incoming, rep)
  <2>1. HTTPGrows(a, b, p, incoming, rep) /\ HTTPGrows(b, c, p, incoming, rep)
    BY <1>4 DEF Grows
  <2>2. \A r : SamePeer(r, b) => SamePeer(r, a)
    BY <1>1 DEF SamePeer
  <2> QED BY <2>1, <2>2 DEF HTTPGrows
<1> QED BY <1>1, <1>2, <1>3, <1>4 DEF Grows

\* Merging b into a rule it matches loses nothing of either (mergePortRules).
LEMMA MergedGrows ==
    ASSUME NEW a, NEW b, NEW incoming, b \in incoming, RulesMatch(a, b), NEW rep
    PROVE  /\ Grows(a, MergedRule(a, b, rep), incoming, rep)
           /\ Grows(b, MergedRule(a, b, rep), incoming, rep)
<1> DEFINE m == MergedRule(a, b, rep)
           mp == MergePortRules(a.ports, b.ports, rep)
<1>1. m.dir = a.dir /\ m.peer = a.peer /\ m.ports = mp /\ m.icmps = a.icmps \cup b.icmps
  BY DEF MergedRule, MergeICMPRules
<1>2. SamePeer(a, m) /\ SamePeer(b, m) /\ SamePeer(b, a)
  BY <1>1 DEF SamePeer, RulesMatch
<1>3. IsICMPRule(m) = IsICMPRule(a) /\ IsICMPRule(m) = IsICMPRule(b)
  BY <1>1 DEF RulesMatch, IsICMPRule
<1>4. /\ DOMAIN mp = DOMAIN a.ports \cup DOMAIN b.ports
      /\ \A p \in DOMAIN a.ports : p \notin DOMAIN b.ports => mp[p] = a.ports[p]
      /\ \A p \in DOMAIN b.ports : p \notin DOMAIN a.ports => mp[p] = b.ports[p]
      /\ \A p \in DOMAIN a.ports : p \in DOMAIN b.ports =>
            mp[p] = MergeL7Rules(a.ports[p], b.ports[p], rep)
  <2> DEFINE pa == a.ports  pb == b.ports
  <2>1. mp = MergePortRules(pa, pb, rep)
    OBVIOUS
  <2> HIDE DEF mp, pa, pb
  <2>2. /\ DOMAIN mp = DOMAIN pa \cup DOMAIN pb
        /\ \A p \in DOMAIN pa : p \notin DOMAIN pb => mp[p] = pa[p]
        /\ \A p \in DOMAIN pb : p \notin DOMAIN pa => mp[p] = pb[p]
        /\ \A p \in DOMAIN pa : p \in DOMAIN pb => mp[p] = MergeL7Rules(pa[p], pb[p], rep)
    BY <2>1 DEF MergePortRules
  <2> QED BY <2>2 DEF pa, pb
<1> HIDE DEF m, mp
<1>5. \A x, y : /\ MergeL7Rules(x, y, rep).dns = x.dns \cup y.dns
                /\ rep /\ y.http # {} => MergeL7Rules(x, y, rep).http = y.http
                /\ rep /\ y.http = {} => MergeL7Rules(x, y, rep).http = x.http
                /\ ~rep => MergeL7Rules(x, y, rep).http = x.http \cup y.http
  BY DEF MergeL7Rules
<1>6. ASSUME NEW p \in DOMAIN a.ports
      PROVE a.ports[p].dns \subseteq m.ports[p].dns /\ HTTPGrows(a, m, p, incoming, rep)
  <2>1. CASE p \notin DOMAIN b.ports
    BY <2>1, <1>1, <1>4 DEF HTTPGrows
  <2>2. CASE p \in DOMAIN b.ports
    <3>1. m.ports[p] = MergeL7Rules(a.ports[p], b.ports[p], rep)
      BY <2>2, <1>1, <1>4
    <3>2. a.ports[p].dns \subseteq m.ports[p].dns
      BY <3>1, <1>5
    <3>3. CASE rep /\ b.ports[p].http # {}
      <4>1. m.ports[p].http = b.ports[p].http
        BY <3>1, <3>3 DEF MergeL7Rules
      <4>2. \E r \in incoming : /\ SamePeer(r, a) /\ p \in DOMAIN r.ports
                                /\ r.ports[p].http # {} /\ m.ports[p].http = r.ports[p].http
        BY <2>2, <3>3, <4>1, <1>2
      <4>3. HTTPGrows(a, m, p, incoming, rep)
        BY <3>3, <4>2, Zenon DEF HTTPGrows
      <4> QED BY <3>2, <4>3
    <3>4. CASE ~(rep /\ b.ports[p].http # {})
      BY <3>1, <3>4, <1>5 DEF HTTPGrows
    <3> QED BY <3>2, <3>3, <3>4
  <2> QED BY <2>1, <2>2
<1>7. ASSUME NEW p \in DOMAIN b.ports
      PROVE b.ports[p].dns \subseteq m.ports[p].dns /\ HTTPGrows(b, m, p, incoming, rep)
  <2>1. CASE p \notin DOMAIN a.ports
    BY <2>1, <1>1, <1>4 DEF HTTPGrows
  <2>2. CASE p \in DOMAIN a.ports
    <3>1. m.ports[p] = MergeL7Rules(a.ports[p], b.ports[p], rep)
      BY <2>2, <1>1, <1>4
    <3> QED BY <3>1, <1>5 DEF HTTPGrows
  <2> QED BY <2>1, <2>2
<1>8. Grows(a, m, incoming, rep)
  BY <1>1, <1>2, <1>3, <1>4, <1>6 DEF Grows
<1>9. Grows(b, m, incoming, rep)
  BY <1>1, <1>2, <1>3, <1>4, <1>7 DEF Grows
<1> QED BY <1>8, <1>9 DEF m

\* Everything in a rule comes from rules of a set for the same peer.
Composed(b, sources) ==
    /\ \E a \in sources : SamePeer(a, b) /\ a.fqdns = b.fqdns
    /\ \A x \in b.icmps : \E a \in sources : SamePeer(a, b) /\ x \in a.icmps
    /\ \A p \in DOMAIN b.ports :
          /\ \E a \in sources : /\ SamePeer(a, b) /\ p \in DOMAIN a.ports
                                /\ b.ports[p].dns = {} => a.ports[p].dns = {}
          /\ \A n \in b.ports[p].dns :
                \E a \in sources : SamePeer(a, b) /\ p \in DOMAIN a.ports /\ n \in a.ports[p].dns
          /\ \A h \in b.ports[p].http :
                \E a \in sources : SamePeer(a, b) /\ p \in DOMAIN a.ports /\ h \in a.ports[p].http

\* A rule is made of itself.
LEMMA ComposedOfItself ==
    ASSUME NEW a, NEW sources, a \in sources
    PROVE  Composed(a, sources)
BY DEF Composed, SamePeer

\* A merged rule is made of the same rules and the one merged into it.
LEMMA MergedComposed ==
    ASSUME NEW a, NEW b, NEW sources, b \in sources, Composed(a, sources),
           RulesMatch(a, b), NEW rep
    PROVE  Composed(MergedRule(a, b, rep), sources)
<1> DEFINE m == MergedRule(a, b, rep)
           mp == MergePortRules(a.ports, b.ports, rep)
<1>1. m.dir = a.dir /\ m.peer = a.peer /\ m.ports = mp /\ m.icmps = a.icmps \cup b.icmps
      /\ m.fqdns = a.fqdns
  BY DEF MergedRule, MergeICMPRules
<1>2. SamePeer(b, m) /\ \A r : SamePeer(r, a) <=> SamePeer(r, m)
  BY <1>1 DEF SamePeer, RulesMatch
<1>4. /\ DOMAIN mp = DOMAIN a.ports \cup DOMAIN b.ports
      /\ \A p \in DOMAIN a.ports : p \notin DOMAIN b.ports => mp[p] = a.ports[p]
      /\ \A p \in DOMAIN b.ports : p \notin DOMAIN a.ports => mp[p] = b.ports[p]
      /\ \A p \in DOMAIN a.ports : p \in DOMAIN b.ports =>
            mp[p] = MergeL7Rules(a.ports[p], b.ports[p], rep)
  <2> DEFINE pa == a.ports  pb == b.ports
  <2>1. mp = MergePortRules(pa, pb, rep)
    OBVIOUS
  <2> HIDE DEF mp, pa, pb
  <2>2. /\ DOMAIN mp = DOMAIN pa \cup DOMAIN pb
        /\ \A p \in DOMAIN pa : p \notin DOMAIN pb => mp[p] = pa[p]
        /\ \A p \in DOMAIN pb : p \notin DOMAIN pa => mp[p] = pb[p]
        /\ \A p \in DOMAIN pa : p \in DOMAIN pb => mp[p] = MergeL7Rules(pa[p], pb[p], rep)
    BY <2>1 DEF MergePortRules
  <2> QED BY <2>2 DEF pa, pb
<1> HIDE DEF m, mp
<1>5. \A x, y : /\ MergeL7Rules(x, y, rep).dns = x.dns \cup y.dns
                /\ MergeL7Rules(x, y, rep).http \subseteq x.http \cup y.http
  BY DEF MergeL7Rules
<1>6. \E r \in sources : SamePeer(r, m) /\ r.fqdns = m.fqdns
  BY <1>1, <1>2 DEF Composed
<1>7. ASSUME NEW x \in m.icmps PROVE \E r \in sources : SamePeer(r, m) /\ x \in r.icmps
  BY <1>1, <1>2, <1>7 DEF Composed
<1>8. ASSUME NEW p \in DOMAIN m.ports
      PROVE /\ \E r \in sources : /\ SamePeer(r, m) /\ p \in DOMAIN r.ports
                                  /\ m.ports[p].dns = {} => r.ports[p].dns = {}
            /\ \A n \in m.ports[p].dns :
                 \E r \in sources : SamePeer(r, m) /\ p \in DOMAIN r.ports /\ n \in r.ports[p].dns
            /\ \A h \in m.ports[p].http :
                 \E r \in sources : SamePeer(r, m) /\ p \in DOMAIN r.ports /\ h \in r.ports[p].http
  <2>1. CASE p \notin DOMAIN b.ports
    <3>1. p \in DOMAIN a.ports /\ m.ports[p] = a.ports[p]
      BY <2>1, <1>1, <1>4, <1>8
    <3> QED BY <3>1, <1>2 DEF Composed
  <2>2. CASE p \notin DOMAIN a.ports
    <3>1. p \in DOMAIN b.ports /\ m.ports[p] = b.ports[p]
      BY <2>2, <1>1, <1>4, <1>8
    <3> QED BY <3>1, <1>2
  <2>3. CASE p \in DOMAIN a.ports /\ p \in DOMAIN b.ports
    <3>1. m.ports[p] = MergeL7Rules(a.ports[p], b.ports[p], rep)
      BY <2>3, <1>1, <1>4
    <3>2. m.ports[p].dns = a.ports[p].dns \cup b.ports[p].dns
          /\ m.ports[p].http \subseteq a.ports[p].http \cup b.ports[p].http
      BY <3>1, <1>5
    <3>3. m.ports[p].dns = {} => b.ports[p].dns = {}
      BY <3>2
    <3>4. \A n \in a.ports[p].dns :
            \E r \in sources : SamePeer(r, m) /\ p \in DOMAIN r.ports /\ n \in r.ports[p].dns
      BY <2>3, <1>2 DEF Composed
    <3>5. \A h \in a.ports[p].http :
            \E r \in sources : SamePeer(r, m) /\ p \in DOMAIN r.ports /\ h \in r.ports[p].http
      BY <2>3, <1>2 DEF Composed
    <3> QED BY <2>3, <3>2, <3>3, <3>4, <3>5, <1>2
  <2> QED BY <2>1, <2>2, <2>3
<1> QED BY <1>6, <1>7, <1>8 DEF Composed, m

-----------------------------------------------------------------------------
(* Merging a policy: one incoming rule after the other.                    *)

MergeBody(old, in, replaceHTTP, k, f) ==
    [i \in 0..k |-> IF i = 0 THEN old ELSE MergeRule(f[i - 1], in[i], replaceHTTP)]

\* mergeRules has a result after every number of incoming rules.
LEMMA MergeExists ==
    ASSUME NEW old, NEW in, NEW rep, NEW n \in Nat
    PROVE  \E f : f = MergeBody(old, in, rep, n, f)
<1> DEFINE T == {k \in Nat : \E g : g = MergeBody(old, in, rep, k, g)}
<1>1. 0 \in T
  <2> DEFINE g == [i \in 0..0 |-> old]
  <2>1. g = MergeBody(old, in, rep, 0, g)
    BY DEF MergeBody
  <2> QED BY <2>1, Zenon
<1>2. ASSUME NEW k \in Nat, k \in T PROVE k + 1 \in T
  <2>0. k + 1 \in Nat
    OBVIOUS
  <2> SUFFICES \E g : g = MergeBody(old, in, rep, k + 1, g)
    BY <2>0, Zenon
  <2>1. PICK g : g = MergeBody(old, in, rep, k, g)
    BY <1>2, Zenon
  <2> DEFINE h == [i \in 0..(k+1) |-> IF i = k + 1 THEN MergeRule(g[i - 1], in[i], rep) ELSE g[i]]
  <2>2. ASSUME NEW i \in 0..(k+1)
        PROVE  h[i] = IF i = 0 THEN old ELSE MergeRule(h[i - 1], in[i], rep)
    <3>1. CASE i = k + 1
      <4>1. i - 1 \in 0..(k+1) /\ i - 1 # k + 1 /\ i # 0
        BY <3>1
      <4>2. h[i-1] = g[i-1]
        BY <4>1
      <4> QED BY <3>1, <4>1, <4>2
    <3>2. CASE i # k + 1 /\ i # 0
      <4>1. i - 1 \in 0..(k+1) /\ i - 1 # k + 1 /\ i \in 0..k
        BY <3>2
      <4>2. h[i-1] = g[i-1] /\ h[i] = g[i]
        BY <4>1, <3>2
      <4>3. g[i] = MergeRule(g[i-1], in[i], rep)
        BY <2>1, <4>1, <3>2 DEF MergeBody
      <4> QED BY <3>2, <4>2, <4>3
    <3>3. CASE i # k + 1 /\ i = 0
      <4>1. g[i] = old
        BY <2>1, <3>3 DEF MergeBody
      <4> QED BY <3>3, <4>1
    <3> QED BY <3>1, <3>2, <3>3
  <2>3. h = [i \in 0..(k+1) |-> h[i]]
    OBVIOUS
  <2> HIDE DEF h
  <2>4. h = MergeBody(old, in, rep, k + 1, h)
    BY <2>2, <2>3, Zenon DEF MergeBody
  <2> QED BY <2>4, Zenon
<1> HIDE DEF T
<1>3. n \in T
  BY <1>1, <1>2, NatSetInduction
<1> QED BY <1>3 DEF T

\* What holds of the rules after k incoming ones.
MergedUpTo(rules, old, in, k, replaceHTTP) ==
    /\ IsRules(rules) /\ Len(old) <= Len(rules)
    /\ \A i \in 1..Len(old) : /\ rules[i].fqdns = old[i].fqdns
                              /\ Grows(old[i], rules[i], ToSet(in), replaceHTTP)
    /\ \A j \in 1..k : \E i \in 1..Len(rules) : Grows(in[j], rules[i], ToSet(in), replaceHTTP)
    /\ \A i \in 1..Len(rules) : Composed(rules[i], ToSet(old) \cup ToSet(in))

\* Before the first incoming rule the list is the old one.
LEMMA MergeNothing ==
    ASSUME NEW old, IsRules(old), NEW in, NEW rep
    PROVE  MergedUpTo(old, old, in, 0, rep)
<1>1. Len(old) \in Nat /\ \A i \in 1..Len(old) : old[i] \in ToSet(old)
  BY SeqFacts DEF IsRules
<1> QED BY <1>1, GrowsReflexive, ComposedOfItself DEF MergedUpTo

\* Merging one more incoming rule keeps every rule, and takes the new one in.
LEMMA MergeStep ==
    ASSUME NEW old, IsRules(old), NEW in, IsRules(in), NEW rep, NEW rules,
           NEW k \in Nat, k + 1 <= Len(in), MergedUpTo(rules, old, in, k, rep)
    PROVE  MergedUpTo(MergeRule(rules, in[k + 1], rep), old, in, k + 1, rep)
<1> DEFINE r == in[k + 1]
           new == MergeRule(rules, r, rep)
           I == ToSet(in)
           S == ToSet(old) \cup I
<1>1. /\ IsRules(rules) /\ IsSeq(rules) /\ Len(rules) \in Nat /\ DOMAIN rules = 1..Len(rules)
      /\ rules = [i \in 1..Len(rules) |-> rules[i]] /\ Len(old) \in Nat /\ Len(in) \in Nat
  BY SeqFacts DEF MergedUpTo, IsRules
<1>2. r \in I /\ r \in S /\ IsRule(r) /\ k + 1 \in 1..Len(in)
  <2>1. k + 1 \in 1..Len(in)
    BY <1>1
  <2> QED BY <2>1, SeqFacts DEF IsRules
<1>3. /\ Len(old) <= Len(rules)
      /\ \A i \in 1..Len(old) : rules[i].fqdns = old[i].fqdns /\ Grows(old[i], rules[i], I, rep)
      /\ \A j \in 1..k : \E i \in 1..Len(rules) : Grows(in[j], rules[i], I, rep)
      /\ \A i \in 1..Len(rules) : Composed(rules[i], S)
  BY DEF MergedUpTo
<1>4. \A j \in 1..(k+1) : j \in 1..k \/ j = k + 1
  OBVIOUS
<1> HIDE DEF r, new, I, S
\* In both cases old rules are where they were, and r has a place.
<1>5. ASSUME IsRules(new), Len(rules) <= Len(new),
             \A i \in 1..Len(rules) : new[i].fqdns = rules[i].fqdns /\ Grows(rules[i], new[i], I, rep),
             \E i \in 1..Len(new) : Grows(r, new[i], I, rep),
             \A i \in 1..Len(new) : Composed(new[i], S)
      PROVE  MergedUpTo(new, old, in, k + 1, rep)
  <2>0. Len(new) \in Nat
    BY <1>5, SeqFacts DEF IsRules
  <2>1. Len(old) <= Len(new)
    BY <1>1, <1>3, <1>5, <2>0
  <2>2. ASSUME NEW i \in 1..Len(old)
        PROVE  new[i].fqdns = old[i].fqdns /\ Grows(old[i], new[i], I, rep)
    <3>1. i \in 1..Len(rules)
      BY <1>1, <1>3
    <3>2. Grows(old[i], rules[i], I, rep) /\ Grows(rules[i], new[i], I, rep)
      BY <1>3, <1>5, <3>1
    <3>3. new[i].fqdns = old[i].fqdns
      BY <1>3, <1>5, <3>1
    <3> QED BY <3>2, <3>3, GrowsTransitive
  <2>3. ASSUME NEW j \in 1..(k+1) PROVE \E i \in 1..Len(new) : Grows(in[j], new[i], I, rep)
    <3>1. CASE j \in 1..k
      <4>1. PICK i \in 1..Len(rules) : Grows(in[j], rules[i], I, rep)
        BY <3>1, <1>3
      <4>2. i \in 1..Len(new)
        BY <1>1, <1>5, <2>0
      <4>3. Grows(rules[i], new[i], I, rep)
        BY <1>5
      <4>4. Grows(in[j], new[i], I, rep)
        BY <4>1, <4>3, GrowsTransitive
      <4> QED BY <4>2, <4>4
    <3>2. CASE j = k + 1
      BY <3>2, <1>5 DEF r
    <3> QED BY <3>1, <3>2, <1>4
  <2> QED BY <1>5, <2>1, <2>2, <2>3 DEF MergedUpTo, I, S
<1>6. CASE new = Append(rules, r)
  <2>1. /\ IsSeq(new) /\ Len(new) = Len(rules) + 1
        /\ \A i \in 1..Len(rules) : new[i] = rules[i]
        /\ new[Len(rules) + 1] = r
    BY <1>1, <1>6, AppendIsSeq
  <2>2. \A i \in 1..Len(new) : i \in 1..Len(rules) \/ i = Len(rules) + 1
    BY <1>1, <2>1
  <2>3. IsRules(new) /\ Len(rules) <= Len(new)
    BY <2>1, <2>2, <1>1, <1>2 DEF IsRules
  <2>4. \A i \in 1..Len(rules) : new[i].fqdns = rules[i].fqdns /\ Grows(rules[i], new[i], I, rep)
    BY <2>1, GrowsReflexive
  <2>5. \E i \in 1..Len(new) : Grows(r, new[i], I, rep)
    <3>1. Len(new) \in 1..Len(new) /\ new[Len(new)] = r
      BY <2>1, <1>1
    <3> QED BY <3>1, GrowsReflexive
  <2>6. \A i \in 1..Len(new) : Composed(new[i], S)
    BY <1>2, <1>3, <2>1, <2>2, ComposedOfItself
  <2> QED BY <2>3, <2>4, <2>5, <2>6, <1>5, Zenon DEF new, r
<1>7. ASSUME NEW h \in 1..Len(rules), RulesMatch(rules[h], r),
             new = [rules EXCEPT ![h] = MergedRule(rules[h], r, rep)]
      PROVE  MergedUpTo(new, old, in, k + 1, rep)
  <2> DEFINE m == MergedRule(rules[h], r, rep)
  <2>1. Grows(rules[h], m, I, rep) /\ Grows(r, m, I, rep) /\ m.fqdns = rules[h].fqdns
        /\ IsRule(m) /\ Composed(m, S)
    <3>1. Grows(rules[h], m, I, rep) /\ Grows(r, m, I, rep)
      BY <1>2, <1>7, MergedGrows
    <3>2. Composed(m, S)
      BY <1>2, <1>3, <1>7, MergedComposed
    <3>3. m.fqdns = rules[h].fqdns /\ IsRule(m)
      BY DEF MergedRule, IsRule
    <3> QED BY <3>1, <3>2, <3>3
  <2> HIDE DEF m
  <2>2. new = [i \in 1..Len(rules) |-> IF i = h THEN m ELSE rules[i]]
    BY <1>1, <1>7 DEF m
  <2>3. /\ \A i \in 1..Len(rules) : new[i] = IF i = h THEN m ELSE rules[i]
        /\ new = [i \in 1..Len(rules) |-> new[i]]
    BY <2>2
  <2>4. IsSeq(new) /\ Len(new) = Len(rules)
    BY <2>3, <1>1, FunctionIsSeq
  <2>5. IsRules(new) /\ Len(rules) <= Len(new)
    BY <2>1, <2>3, <2>4, <1>1 DEF IsRules
  <2>6. \A i \in 1..Len(rules) : new[i].fqdns = rules[i].fqdns /\ Grows(rules[i], new[i], I, rep)
    BY <2>1, <2>3, GrowsReflexive
  <2>7. \E i \in 1..Len(new) : Grows(r, new[i], I, rep)
    BY <2>1, <2>3, <2>4
  <2>8. \A i \in 1..Len(new) : Composed(new[i], S)
    BY <2>1, <2>3, <2>4, <1>3
  <2> QED BY <2>5, <2>6, <2>7, <2>8, <1>5, Zenon
<1>8. \/ new = Append(rules, r)
      \/ \E h \in 1..Len(rules) : /\ RulesMatch(rules[h], r)
                                  /\ new = [rules EXCEPT ![h] = MergedRule(rules[h], r, rep)]
  BY <1>1, MergeRuleCases DEF new
<1> QED BY <1>6, <1>7, <1>8 DEF new, r

IsPolicy(p) == p = [subject |-> p.subject, rules |-> p.rules] /\ IsRules(p.rules)

\* A merged policy keeps the subject and every existing rule, which only grows; it
\* has a rule that has grown out of each incoming one, and nothing else
\* (MergePolicyWithOptions).
LEMMA MergePolicyFacts ==
    ASSUME NEW old, IsPolicy(old), NEW new, IsPolicy(new), NEW rep
    PROVE  /\ IsPolicy(MergePolicy(old, new, rep))
           /\ MergePolicy(old, new, rep).subject = old.subject
           /\ MergedUpTo(MergePolicy(old, new, rep).rules, old.rules, new.rules,
                         Len(new.rules), rep)
<1> DEFINE in == new.rules
           n == Len(in)
           f == CHOOSE f : f = MergeBody(old.rules, in, rep, n, f)
<1>1. IsRules(old.rules) /\ IsRules(in) /\ n \in Nat
  BY SeqFacts DEF IsPolicy, IsRules
<1>2. f = MergeBody(old.rules, in, rep, n, f)
  BY <1>1, MergeExists, Zenon
<1>3. MergePolicy(old, new, rep) = [old EXCEPT !.rules = f[n]]
  BY DEF MergePolicy, MergeBody
<1> HIDE DEF f
<1>4. f[0] = old.rules /\ \A k \in 0..(n - 1) : f[k + 1] = MergeRule(f[k], in[k + 1], rep)
  <2>1. f[0] = old.rules
    BY <1>1, <1>2 DEF MergeBody
  <2>2. ASSUME NEW k \in 0..(n - 1) PROVE f[k + 1] = MergeRule(f[k], in[k + 1], rep)
    <3>1. k + 1 \in 0..n /\ k + 1 # 0 /\ (k + 1) - 1 = k
      BY <1>1
    <3> QED BY <3>1, <1>2 DEF MergeBody
  <2> QED BY <2>1, <2>2
<1> DEFINE T == {k \in Nat : k <= n => MergedUpTo(f[k], old.rules, in, k, rep)}
<1> HIDE DEF in, n
<1>5. 0 \in T
  BY <1>1, <1>4, MergeNothing
<1>6. ASSUME NEW k \in Nat, k \in T PROVE k + 1 \in T
  <2> SUFFICES ASSUME k + 1 <= n PROVE MergedUpTo(f[k + 1], old.rules, in, k + 1, rep)
    OBVIOUS
  <2>1. k <= n /\ k \in 0..(n - 1)
    BY <1>1
  <2>2. MergedUpTo(f[k], old.rules, in, k, rep)
    BY <1>6, <2>1
  <2>3. MergedUpTo(MergeRule(f[k], in[k + 1], rep), old.rules, in, k + 1, rep)
    BY <1>1, <2>2, MergeStep DEF n
  <2> QED BY <2>1, <2>3, <1>4
<1> HIDE DEF T
<1>7. n \in T
  BY <1>1, <1>5, <1>6, NatSetInduction
<1>8. MergedUpTo(f[n], old.rules, in, n, rep)
  BY <1>1, <1>7 DEF T
<1>9. [old EXCEPT !.rules = f[n]] = [subject |-> old.subject, rules |-> f[n]]
  BY DEF IsPolicy
<1>10. IsRules(f[n])
  BY <1>8 DEF MergedUpTo
<1> QED BY <1>3, <1>8, <1>9, <1>10 DEF IsPolicy, in, n

-----------------------------------------------------------------------------
(* What BuildPolicy makes of the flows of a bucket.                        *)

\* A list of rules is one by its elements.
LEMMA RulesByElements ==
    ASSUME NEW s, IsSeq(s)
    PROVE  IsRules(s) <=> \A r \in ToSet(s) : IsRule(r)
BY SeqFacts DEF IsRules

Kinds == {"entity", "cidr", "endpoint"}

\* A peer is an entity, a CIDR or an endpoint.
LEMMA PeerKeyKind == \A f : PeerKey(f)[1] \in Kinds
BY DEF PeerKey, Kinds

\* A sequence of no or one rule.
LEMMA MaybeRule ==
    ASSUME NEW c, NEW r, NEW s, s = IF c THEN <<r>> ELSE <<>>
    PROVE  IsSeq(s) /\ \A x : x \in ToSet(s) <=> c /\ x = r
<1>1. CASE c
  <2>1. s = [i \in 1..1 |-> r]
    BY <1>1
  <2>2. IsSeq(s) /\ DOMAIN s = 1..1 /\ s[1] = r
    BY <2>1, FunctionIsSeq
  <2>3. ToSet(s) = {r}
    BY <2>2 DEF ToSet
  <2> QED BY <1>1, <2>2, <2>3
<1>2. CASE ~c
  BY <1>2, EmptyIsSeq
<1> QED BY <1>1, <1>2

BucketRule(bucket, ns, opts, obs, ports, icmps) ==
    [dir |-> bucket.first.dir, peer |-> BucketPeer(bucket.first, ns), fqdns |-> {}, icmps |-> icmps,
     ports |-> PortRulesFor(ports, bucket, opts, obs)]

Ports(bucket) == {p \in L4s(bucket) : ~IsICMP(p)}

ICMPs(bucket) == {p \in L4s(bucket) : IsICMP(p)}

\* A bucket's port rule and its ICMP rule (ingressRulesFrom, egressRulesFrom).
LEMMA RulesFromFacts ==
    ASSUME NEW b, NEW ns, NEW opts, NEW obs
    PROVE  /\ IsSeq(RulesFrom(b, ns, opts, obs))
           /\ \A r : r \in ToSet(RulesFrom(b, ns, opts, obs)) <=>
                 \/ Ports(b) # {} /\ r = BucketRule(b, ns, opts, obs, Ports(b), {})
                 \/ ICMPs(b) # {} /\ r = BucketRule(b, ns, opts, obs, {}, ICMPs(b))
<1> DEFINE p == BucketRule(b, ns, opts, obs, Ports(b), {})
           c == BucketRule(b, ns, opts, obs, {}, ICMPs(b))
           s == IF Ports(b) # {} THEN <<p>> ELSE <<>>
           t == IF ICMPs(b) # {} THEN <<c>> ELSE <<>>
<1>1. RulesFrom(b, ns, opts, obs) = s \o t
  BY DEF RulesFrom, BucketRule, Ports, ICMPs
<1> HIDE DEF p, c
<1>2. IsSeq(s) /\ \A x : x \in ToSet(s) <=> Ports(b) # {} /\ x = p
  BY MaybeRule
<1>3. IsSeq(t) /\ \A x : x \in ToSet(t) <=> ICMPs(b) # {} /\ x = c
  BY MaybeRule
<1> HIDE DEF s, t
<1>4. IsSeq(s \o t) /\ ToSet(s \o t) = ToSet(s) \cup ToSet(t)
  BY <1>2, <1>3, ConcatIsSeq
<1> QED BY <1>1, <1>2, <1>3, <1>4, Zenon DEF p, c

DNSNames(bucket) == {f.l7.name : f \in {g \in bucket.flows : g.l7.kind = "dns"}}

\* A bucket with DNS names gives one rule that names them.
LEMMA FqdnRulesFacts ==
    ASSUME NEW b
    PROVE  /\ IsSeq(FqdnEgressRulesFrom(b))
           /\ \A r : r \in ToSet(FqdnEgressRulesFrom(b)) <=>
                 DNSNames(b) # {} /\ r = DNSRule(NoPeer, DNSNames(b), DNSNames(b))
<1> DEFINE s == FqdnEgressRulesFrom(b)
           q == DNSRule(NoPeer, DNSNames(b), DNSNames(b))
<1>1. s = IF DNSNames(b) # {} THEN <<q>> ELSE <<>>
  BY DEF FqdnEgressRulesFrom, DNSNames
<1> HIDE DEF s, q
<1>2. IsSeq(s) /\ \A x : x \in ToSet(s) <=> DNSNames(b) # {} /\ x = q
  BY <1>1, MaybeRule
<1> QED BY <1>2 DEF s, q

\* The flow at position i creates a bucket of a direction.
Opens(flows, dir, i) ==
    /\ i \in DOMAIN flows /\ flows[i].dir = dir /\ ~Trackable(flows[i])
    /\ \A j \in 1..(i - 1) : ~SameBucket(flows[j], flows[i])

OfKind(flows, dir, kind, i) == Opens(flows, dir, i) /\ PeerKey(flows[i])[1] = kind

\* The buckets of a kind are those their first flow opens.
LEMMA GroupFlowsFacts ==
    ASSUME NEW flows, NEW dir, NEW kind, NEW i
    PROVE  i \in GroupFlows(flows, dir, kind) <=> OfKind(flows, dir, kind, i)
BY Zenon DEF GroupFlows, Grouped, OfKind, Opens

\* The rules of the buckets of a kind.
LEMMA KindRules ==
    ASSUME NEW flows, IsSeq(flows), NEW dir, NEW kind, NEW rules,
           \A i \in DOMAIN flows : IsSeq(rules[i]),
           NEW q, q = [i \in DOMAIN flows |-> q[i]],
           \A i \in DOMAIN flows :
              q[i] = IF i \in GroupFlows(flows, dir, kind) THEN rules[i] ELSE <<>>
    PROVE  /\ IsSeq(FlattenSeq(q))
           /\ \A x : x \in ToSet(FlattenSeq(q)) <=>
                 \E i \in DOMAIN flows : OfKind(flows, dir, kind, i) /\ x \in ToSet(rules[i])
<1> DEFINE n == Len(flows)
           s == FlattenSeq(q)
<1>1. n \in Nat /\ DOMAIN flows = 1..n
  BY SeqFacts
<1>2. /\ q = [i \in 1..n |-> q[i]]
      /\ \A i \in 1..n : q[i] = IF i \in GroupFlows(flows, dir, kind) THEN rules[i] ELSE <<>>
  BY <1>1
<1>3. IsSeq(q) /\ Len(q) = n
  BY <1>1, <1>2, FunctionIsSeq
<1>4. \A i \in 1..n : IsSeq(q[i])
  BY <1>1, <1>2, EmptyIsSeq
<1>6. IsSeq(s) /\ \A x : x \in ToSet(s) <=> \E i \in 1..n : x \in ToSet(q[i])
  BY <1>3, <1>4, FlattenIsSeq
<1>7. ASSUME NEW i \in 1..n, NEW x
      PROVE x \in ToSet(q[i]) <=> OfKind(flows, dir, kind, i) /\ x \in ToSet(rules[i])
  <2>1. CASE i \in GroupFlows(flows, dir, kind)
    BY <1>2, <2>1, GroupFlowsFacts
  <2>2. CASE i \notin GroupFlows(flows, dir, kind)
    <3>1. q[i] = <<>>
      BY <1>2, <2>2
    <3> QED BY <3>1, <2>2, EmptyIsSeq, GroupFlowsFacts
  <2> QED BY <2>1, <2>2
<1> QED BY <1>1, <1>6, <1>7, Zenon

\* The rules of one direction are those of its buckets (buildIngressRules,
\* buildEgressRules).
InBuiltRules(r, flows, dir, ns, opts, obs) ==
    \E i \in DOMAIN flows :
        /\ Opens(flows, dir, i)
        /\ \/ r \in ToSet(RulesFrom(Bucket(flows, i), ns, opts, obs))
           \/ dir = "egress" /\ r \in ToSet(FqdnEgressRulesFrom(Bucket(flows, i)))

\* The rules of a direction are those of its buckets, and nothing else.
LEMMA BuildRulesFacts ==
    ASSUME NEW flows, IsSeq(flows), NEW dir, NEW ns, NEW opts, NEW obs
    PROVE  /\ IsSeq(BuildRules(flows, dir, ns, opts, obs))
           /\ \A r : r \in ToSet(BuildRules(flows, dir, ns, opts, obs)) <=>
                        InBuiltRules(r, flows, dir, ns, opts, obs)
<1> DEFINE l4 == [i \in DOMAIN flows |-> RulesFrom(Bucket(flows, i), ns, opts, obs)]
           eg == dir = "egress"
           dn == [i \in DOMAIN flows |-> IF eg THEN FqdnEgressRulesFrom(Bucket(flows, i)) ELSE <<>>]
           R(kind) == FlattenSeq([i \in DOMAIN flows |->
                        IF i \in GroupFlows(flows, dir, kind) THEN l4[i] ELSE <<>>])
           D(kind) == FlattenSeq([i \in DOMAIN flows |->
                        IF i \in GroupFlows(flows, dir, kind) THEN dn[i] ELSE <<>>])
<1>1. BuildRules(flows, dir, ns, opts, obs) =
        R("entity") \o R("cidr") \o R("endpoint") \o D("entity") \o D("cidr") \o D("endpoint")
  <2>1. ASSUME NEW kind
        PROVE  /\ [i \in DOMAIN flows |-> IF i \in GroupFlows(flows, dir, kind)
                                          THEN l4[i] ELSE <<>>]
                  = [i \in DOMAIN flows |-> IF i \in GroupFlows(flows, dir, kind)
                        THEN RulesFrom(Bucket(flows, i), ns, opts, obs) ELSE <<>>]
               /\ [i \in DOMAIN flows |-> IF i \in GroupFlows(flows, dir, kind)
                                          THEN dn[i] ELSE <<>>]
                  = [i \in DOMAIN flows |-> IF dir = "egress" /\ i \in GroupFlows(flows, dir, kind)
                        THEN FqdnEgressRulesFrom(Bucket(flows, i)) ELSE <<>>]
    OBVIOUS
  <2> QED BY <2>1, Zenon DEF BuildRules
<1>2. \A i \in DOMAIN flows : IsSeq(l4[i]) /\ IsSeq(dn[i])
  BY RulesFromFacts, FqdnRulesFacts, EmptyIsSeq
<1>3. \A i \in DOMAIN flows :
         \A x : /\ x \in ToSet(l4[i]) <=> x \in ToSet(RulesFrom(Bucket(flows, i), ns, opts, obs))
                /\ x \in ToSet(dn[i]) <=>
                      dir = "egress" /\ x \in ToSet(FqdnEgressRulesFrom(Bucket(flows, i)))
  BY EmptyIsSeq
<1> HIDE DEF l4, dn, eg
<1>4. ASSUME NEW kind
      PROVE  /\ IsSeq(R(kind))
             /\ \A x : x \in ToSet(R(kind)) <=>
                   \E i \in DOMAIN flows : OfKind(flows, dir, kind, i) /\ x \in ToSet(l4[i])
  <2> DEFINE q == [i \in DOMAIN flows |->
                     IF i \in GroupFlows(flows, dir, kind) THEN l4[i] ELSE <<>>]
  <2>1. /\ q = [i \in DOMAIN flows |-> q[i]]
        /\ \A i \in DOMAIN flows :
              q[i] = IF i \in GroupFlows(flows, dir, kind) THEN l4[i] ELSE <<>>
    OBVIOUS
  <2>2. R(kind) = FlattenSeq(q)
    OBVIOUS
  <2> HIDE DEF q, R, D
  <2>3. /\ IsSeq(FlattenSeq(q))
        /\ \A x : x \in ToSet(FlattenSeq(q)) <=>
             \E i \in DOMAIN flows : OfKind(flows, dir, kind, i) /\ x \in ToSet(l4[i])
    BY <1>2, <2>1, KindRules
  <2> QED BY <2>2, <2>3
<1>5. ASSUME NEW kind
      PROVE  /\ IsSeq(D(kind))
             /\ \A x : x \in ToSet(D(kind)) <=>
                   \E i \in DOMAIN flows : OfKind(flows, dir, kind, i) /\ x \in ToSet(dn[i])
  <2> DEFINE q == [i \in DOMAIN flows |->
                     IF i \in GroupFlows(flows, dir, kind) THEN dn[i] ELSE <<>>]
  <2>1. /\ q = [i \in DOMAIN flows |-> q[i]]
        /\ \A i \in DOMAIN flows :
              q[i] = IF i \in GroupFlows(flows, dir, kind) THEN dn[i] ELSE <<>>
    OBVIOUS
  <2>2. D(kind) = FlattenSeq(q)
    OBVIOUS
  <2> HIDE DEF q, R, D
  <2>3. /\ IsSeq(FlattenSeq(q))
        /\ \A x : x \in ToSet(FlattenSeq(q)) <=>
             \E i \in DOMAIN flows : OfKind(flows, dir, kind, i) /\ x \in ToSet(dn[i])
    BY <1>2, <2>1, KindRules
  <2> QED BY <2>2, <2>3
<1> HIDE DEF R, D
<1> DEFINE S1 == R("entity") \o R("cidr")
           S2 == S1 \o R("endpoint")
           S3 == S2 \o D("entity")
           S4 == S3 \o D("cidr")
           S5 == S4 \o D("endpoint")
<1>6. IsSeq(S1) /\ ToSet(S1) = ToSet(R("entity")) \cup ToSet(R("cidr"))
  BY <1>4, ConcatIsSeq
<1>7. IsSeq(S2) /\ ToSet(S2) = ToSet(S1) \cup ToSet(R("endpoint"))
  BY <1>4, <1>6, ConcatIsSeq
<1>8. IsSeq(S3) /\ ToSet(S3) = ToSet(S2) \cup ToSet(D("entity"))
  BY <1>5, <1>7, ConcatIsSeq
<1>9. IsSeq(S4) /\ ToSet(S4) = ToSet(S3) \cup ToSet(D("cidr"))
  BY <1>5, <1>8, ConcatIsSeq
<1>10. IsSeq(S5) /\ ToSet(S5) = ToSet(S4) \cup ToSet(D("endpoint"))
  BY <1>5, <1>9, ConcatIsSeq
<1>11. BuildRules(flows, dir, ns, opts, obs) = S5
  BY <1>1
<1> HIDE DEF S1, S2, S3, S4, S5
<1>12. ASSUME NEW x
       PROVE  x \in ToSet(S5) <=> \E kind \in Kinds : x \in ToSet(R(kind)) \/ x \in ToSet(D(kind))
  BY <1>6, <1>7, <1>8, <1>9, <1>10, Zenon DEF Kinds
<1> DEFINE In(x, i) == x \in ToSet(l4[i]) \/ x \in ToSet(dn[i])
<1>13. ASSUME NEW x
       PROVE  x \in ToSet(S5) <=>
                \E kind \in Kinds : \E i \in DOMAIN flows : OfKind(flows, dir, kind, i) /\ In(x, i)
  <2>1. ASSUME NEW kind
        PROVE  x \in ToSet(R(kind)) \/ x \in ToSet(D(kind))
                 <=> \E i \in DOMAIN flows : OfKind(flows, dir, kind, i) /\ In(x, i)
    BY <1>4, <1>5, Zenon
  <2> QED BY <2>1, <1>12, Zenon
<1> HIDE DEF In
<1>14. ASSUME NEW i
       PROVE  Opens(flows, dir, i) <=> \E kind \in Kinds : OfKind(flows, dir, kind, i)
  <2>1. ASSUME Opens(flows, dir, i)
        PROVE  \E kind \in Kinds : OfKind(flows, dir, kind, i)
    <3>1. PeerKey(flows[i])[1] \in Kinds
      BY PeerKeyKind
    <3> QED BY <3>1, <2>1, Zenon DEF OfKind
  <2> QED BY <2>1, Zenon DEF OfKind
<1>15. ASSUME NEW x
       PROVE  x \in ToSet(S5) <=> \E i \in DOMAIN flows : Opens(flows, dir, i) /\ In(x, i)
  BY <1>13, <1>14, Zenon
<1>16. ASSUME NEW x
       PROVE  (\E i \in DOMAIN flows : Opens(flows, dir, i) /\ In(x, i))
                <=> InBuiltRules(x, flows, dir, ns, opts, obs)
  BY <1>3, Zenon DEF InBuiltRules, In
<1> QED BY <1>10, <1>11, <1>15, <1>16, Zenon

-----------------------------------------------------------------------------
(* The kube-dns companion.                                                 *)

Companion(r) == r.dir = "egress" /\ SelectsKubeDNS(r) /\ DNSPorts \subseteq DOMAIN r.ports

\* A rule list that names FQDNs holds the companion rule.
Accompanied(rules) == FQDNMatchNames(rules) # {} => HasKubeDNSCompanion(rules)

\* Both are about the rules of the list, not about their order.
LEMMA CompanionByElements ==
    ASSUME NEW rules, IsSeq(rules)
    PROVE  /\ HasKubeDNSCompanion(rules) <=> \E r \in ToSet(rules) : Companion(r)
           /\ \A x : x \in FQDNMatchNames(rules) <=> \E r \in ToSet(rules) : x \in r.fqdns
<1>1. /\ DOMAIN rules = 1..Len(rules)
      /\ \A i \in 1..Len(rules) : rules[i] \in ToSet(rules)
      /\ \A x \in ToSet(rules) : \E i \in 1..Len(rules) : rules[i] = x
  BY SeqFacts
<1>2. HasKubeDNSCompanion(rules) <=> \E i \in 1..Len(rules) : Companion(rules[i])
  BY <1>1, Zenon DEF HasKubeDNSCompanion, Companion
<1>3. \A x : x \in FQDNMatchNames(rules) <=> \E i \in 1..Len(rules) : x \in rules[i].fqdns
  BY <1>1 DEF FQDNMatchNames
<1> QED BY <1>1, <1>2, <1>3

\* The companion rule is appended where it is missing (ensureKubeDNSCompanion).
LEMMA EnsureFacts ==
    ASSUME NEW rules, IsRules(rules)
    PROVE  /\ IsRules(EnsureKubeDNSCompanion(rules))
           /\ Accompanied(EnsureKubeDNSCompanion(rules))
           /\ ToSet(rules) \subseteq ToSet(EnsureKubeDNSCompanion(rules))
           /\ \A r \in ToSet(EnsureKubeDNSCompanion(rules)) :
                 \/ r \in ToSet(rules)
                 \/ /\ FQDNMatchNames(rules) # {}
                    /\ r = DNSRule(KubeDNSSelector, {}, FQDNMatchNames(rules))
<1> DEFINE names == FQDNMatchNames(rules)
           c == DNSRule(KubeDNSSelector, {}, names)
           new == EnsureKubeDNSCompanion(rules)
<1>1. IsSeq(rules)
  BY DEF IsRules
<1>2. CASE names = {} \/ HasKubeDNSCompanion(rules)
  BY <1>2 DEF EnsureKubeDNSCompanion, Accompanied
<1>3. CASE ~(names = {} \/ HasKubeDNSCompanion(rules))
  <2>1. new = Append(rules, c)
    BY <1>3 DEF EnsureKubeDNSCompanion
  <2>2. IsRule(c)
    BY DEF IsRule, DNSRule
  <2>3. Companion(c)
    <3>1. c.dir = "egress" /\ c.peer = KubeDNSSelector /\ DOMAIN c.ports = DNSPorts
      BY DEF DNSRule
    <3>2. SelectsKubeDNS(c)
      BY <3>1 DEF SelectsKubeDNS, KubeDNSSelector
    <3> QED BY <3>1, <3>2 DEF Companion
  <2> HIDE DEF c, new
  <2>4. IsSeq(new) /\ ToSet(new) = ToSet(rules) \cup {c}
    BY <1>1, <2>1, AppendIsSeq
  <2>5. IsRules(new)
    <3>1. \A r \in ToSet(rules) : IsRule(r)
      BY <1>1, RulesByElements
    <3> QED BY <2>2, <2>4, <3>1, RulesByElements
  <2>6. HasKubeDNSCompanion(new)
    BY <2>3, <2>4, CompanionByElements
  <2> QED BY <1>3, <2>4, <2>5, <2>6 DEF Accompanied, c, new
<1> QED BY <1>2, <1>3

\* A rule that has grown out of a companion is one.
LEMMA CompanionGrows ==
    ASSUME NEW a, NEW b, NEW incoming, NEW rep, Grows(a, b, incoming, rep), Companion(a)
    PROVE  Companion(b)
BY DEF Grows, SamePeer, Companion, SelectsKubeDNS

\* Merging two policies that have their companion gives one that has it.
LEMMA MergeAccompanied ==
    ASSUME NEW old, IsPolicy(old), Accompanied(old.rules),
           NEW new, IsPolicy(new), Accompanied(new.rules), NEW rep
    PROVE  Accompanied(MergePolicy(old, new, rep).rules)
<1> DEFINE m == MergePolicy(old, new, rep).rules
           I == ToSet(new.rules)
<1>1. IsSeq(old.rules) /\ IsSeq(new.rules)
  BY DEF IsPolicy, IsRules
<1>2. MergedUpTo(m, old.rules, new.rules, Len(new.rules), rep)
  BY MergePolicyFacts
<1> HIDE DEF m
<1>3. IsSeq(m) /\ Len(old.rules) <= Len(m) /\ Len(old.rules) \in Nat /\ Len(m) \in Nat
  <2>1. IsSeq(m) /\ Len(old.rules) <= Len(m)
    BY <1>2 DEF MergedUpTo, IsRules
  <2> QED BY <2>1, <1>1, SeqFacts
<1> SUFFICES ASSUME FQDNMatchNames(m) # {} PROVE HasKubeDNSCompanion(m)
  BY DEF Accompanied, m
<1>4. PICK r \in ToSet(m) : r.fqdns # {}
  BY <1>3, CompanionByElements
<1>5. PICK i \in 1..Len(m) : m[i] = r
  BY <1>3, SeqFacts
<1>6. Composed(m[i], ToSet(old.rules) \cup ToSet(new.rules))
  BY <1>2 DEF MergedUpTo
<1>7. PICK a \in ToSet(old.rules) \cup ToSet(new.rules) : a.fqdns # {}
  BY <1>4, <1>5, <1>6 DEF Composed
<1>8. HasKubeDNSCompanion(old.rules) \/ HasKubeDNSCompanion(new.rules)
  BY <1>1, <1>7, CompanionByElements DEF Accompanied
<1>9. ASSUME NEW c, Companion(c), c \in ToSet(old.rules) \cup ToSet(new.rules)
      PROVE  \E k \in 1..Len(m) : Companion(m[k])
  <2>1. CASE c \in ToSet(old.rules)
    <3>1. PICK j \in 1..Len(old.rules) : old.rules[j] = c
      BY <1>1, <2>1, SeqFacts
    <3>2. Grows(old.rules[j], m[j], I, rep) /\ j \in 1..Len(m)
      BY <1>2, <1>3 DEF MergedUpTo
    <3> QED BY <1>9, <3>1, <3>2, CompanionGrows
  <2>2. CASE c \in ToSet(new.rules)
    <3>1. PICK j \in 1..Len(new.rules) : new.rules[j] = c
      BY <1>1, <2>2, SeqFacts
    <3>2. PICK k \in 1..Len(m) : Grows(new.rules[j], m[k], I, rep)
      BY <1>2 DEF MergedUpTo
    <3> QED BY <1>9, <3>1, <3>2, CompanionGrows
  <2> QED BY <1>9, <2>1, <2>2
<1>10. PICK k \in 1..Len(m) : Companion(m[k])
  BY <1>1, <1>8, <1>9, CompanionByElements
<1>11. m[k] \in ToSet(m)
  BY <1>3, SeqFacts
<1> QED BY <1>3, <1>10, <1>11, CompanionByElements

-----------------------------------------------------------------------------
(* What BuildPolicy returns.                                               *)

SeenFlows(flows, opts) == [i \in DOMAIN flows |-> Seen(flows[i], opts.l7)]

\* The rules made of the flows, of both directions.
InBuiltPolicy(r, flows, ns, opts, obs) ==
    \E dir \in {"ingress", "egress"} : InBuiltRules(r, SeenFlows(flows, opts), dir, ns, opts, obs)

\* Every rule of a bucket is in the policy; the only other one is the companion.
LEMMA BuildPolicyFacts ==
    ASSUME NEW flows, IsSeq(flows), NEW ns, NEW opts, NEW obs
    PROVE  /\ IsPolicy(BuildPolicy(ns, flows, opts, obs))
           /\ Accompanied(BuildPolicy(ns, flows, opts, obs).rules)
           /\ BuildPolicy(ns, flows, opts, obs).subject = SelectLabels(Head(flows).target)
           /\ \A r : InBuiltPolicy(r, flows, ns, opts, obs) =>
                        r \in ToSet(BuildPolicy(ns, flows, opts, obs).rules)
           /\ \A r \in ToSet(BuildPolicy(ns, flows, opts, obs).rules) :
                 \/ InBuiltPolicy(r, flows, ns, opts, obs)
                 \/ \E names : /\ names # {} /\ r = DNSRule(KubeDNSSelector, {}, names)
                               /\ \A n \in names : \E q : /\ InBuiltPolicy(q, flows, ns, opts, obs)
                                                          /\ n \in q.fqdns
<1> DEFINE fs == SeenFlows(flows, opts)
           in == BuildRules(fs, "ingress", ns, opts, obs)
           out == BuildRules(fs, "egress", ns, opts, obs)
           all == in \o out
           p == BuildPolicy(ns, flows, opts, obs)
<1>1. IsSeq(fs)
  <2>1. Len(flows) \in Nat /\ DOMAIN flows = 1..Len(flows)
    BY SeqFacts
  <2>2. fs = [i \in 1..Len(flows) |-> fs[i]]
    BY <2>1 DEF SeenFlows
  <2> QED BY <2>1, <2>2, FunctionIsSeq
<1>2. p = [subject |-> SelectLabels(Head(flows).target), rules |-> EnsureKubeDNSCompanion(all)]
  BY DEF BuildPolicy, BuildEndpointSelector, PickSelectorLabels, SeenFlows
<1> HIDE DEF fs, p
<1>3. /\ IsSeq(in) /\ \A r : r \in ToSet(in) <=> InBuiltRules(r, fs, "ingress", ns, opts, obs)
      /\ IsSeq(out) /\ \A r : r \in ToSet(out) <=> InBuiltRules(r, fs, "egress", ns, opts, obs)
  BY <1>1, BuildRulesFacts
<1> HIDE DEF in, out
<1>4. IsSeq(all) /\ ToSet(all) = ToSet(in) \cup ToSet(out)
  BY <1>3, ConcatIsSeq
<1> HIDE DEF all
<1>5. \A r : r \in ToSet(all) <=> InBuiltPolicy(r, flows, ns, opts, obs)
  BY <1>3, <1>4, Zenon DEF InBuiltPolicy, fs
<1>6. IsRules(all)
  <2>1. ASSUME NEW r, NEW b, r \in ToSet(RulesFrom(b, ns, opts, obs)) PROVE IsRule(r)
    BY <2>1, RulesFromFacts DEF BucketRule, IsRule
  <2>2. ASSUME NEW r, NEW b, r \in ToSet(FqdnEgressRulesFrom(b)) PROVE IsRule(r)
    BY <2>2, FqdnRulesFacts DEF DNSRule, IsRule
  <2>3. \A r \in ToSet(all) : IsRule(r)
    BY <2>1, <2>2, <1>5, Zenon DEF InBuiltPolicy, InBuiltRules
  <2> QED BY <1>4, <2>3, RulesByElements
<1>7. /\ IsRules(p.rules) /\ Accompanied(p.rules) /\ ToSet(all) \subseteq ToSet(p.rules)
      /\ \A r \in ToSet(p.rules) :
            \/ r \in ToSet(all)
            \/ /\ FQDNMatchNames(all) # {}
               /\ r = DNSRule(KubeDNSSelector, {}, FQDNMatchNames(all))
  BY <1>2, <1>6, EnsureFacts
<1>8. IsPolicy(p) /\ p.subject = SelectLabels(Head(flows).target)
  BY <1>2, <1>7 DEF IsPolicy
<1>9. \A n \in FQDNMatchNames(all) :
         \E q : InBuiltPolicy(q, flows, ns, opts, obs) /\ n \in q.fqdns
  BY <1>4, <1>5, CompanionByElements
<1>10. ASSUME NEW r \in ToSet(p.rules)
       PROVE  \/ InBuiltPolicy(r, flows, ns, opts, obs)
              \/ \E names : /\ names # {} /\ r = DNSRule(KubeDNSSelector, {}, names)
                            /\ \A n \in names : \E q : /\ InBuiltPolicy(q, flows, ns, opts, obs)
                                                       /\ n \in q.fqdns
  BY <1>5, <1>7, <1>9, Zenon
<1> QED BY <1>5, <1>7, <1>8, <1>10 DEF p

-----------------------------------------------------------------------------
(* Where the request lists of a peer are: in the first of its rules only.  *)

HTTPFree(r) == \A p \in DOMAIN r.ports : r.ports[p].http = {}

\* ICMP types and ports go into rules of their own.
Apart(r) ==
    /\ \A p \in DOMAIN r.ports : ~IsICMP(p)
    /\ \A t \in r.icmps : IsICMP(t)
    /\ IsICMPRule(r) => DOMAIN r.ports = {}

\* A merge finds the rule that has the lists: those that match it and come later have none.
Solo(rules) ==
    /\ \A i \in 1..Len(rules) : Apart(rules[i])
    /\ \A i, j \in 1..Len(rules) :
          i < j /\ RulesMatch(rules[i], rules[j]) => HTTPFree(rules[j])

\* What a merge of two rules returns.
LEMMA MergedFacts ==
    ASSUME NEW a, NEW b, RulesMatch(a, b), NEW rep, NEW m, m = MergedRule(a, b, rep)
    PROVE  /\ m.dir = a.dir /\ m.peer = a.peer /\ m.fqdns = a.fqdns /\ IsRule(m)
           /\ IsICMPRule(m) = IsICMPRule(a) /\ m.icmps = a.icmps \cup b.icmps
           /\ DOMAIN m.ports = DOMAIN a.ports \cup DOMAIN b.ports
           /\ \A p \in DOMAIN a.ports : p \notin DOMAIN b.ports => m.ports[p] = a.ports[p]
           /\ \A p \in DOMAIN b.ports : p \notin DOMAIN a.ports => m.ports[p] = b.ports[p]
           /\ \A p \in DOMAIN a.ports \cap DOMAIN b.ports :
                 m.ports[p] = MergeL7Rules(a.ports[p], b.ports[p], rep)
<1> DEFINE pa == a.ports  pb == b.ports  mp == MergePortRules(pa, pb, rep)
<1>1. m.dir = a.dir /\ m.peer = a.peer /\ m.fqdns = a.fqdns /\ m.ports = mp
      /\ m.icmps = a.icmps \cup b.icmps
  BY DEF MergedRule, MergeICMPRules
<1>2. IsRule(m)
  BY DEF MergedRule, IsRule
<1>3. IsICMPRule(m) = IsICMPRule(a)
  BY <1>1 DEF RulesMatch, IsICMPRule
<1>4. mp = MergePortRules(pa, pb, rep)
  OBVIOUS
<1> HIDE DEF mp, pa, pb
<1>5. /\ DOMAIN mp = DOMAIN pa \cup DOMAIN pb
      /\ \A p \in DOMAIN pa : p \notin DOMAIN pb => mp[p] = pa[p]
      /\ \A p \in DOMAIN pb : p \notin DOMAIN pa => mp[p] = pb[p]
      /\ \A p \in DOMAIN pa : p \in DOMAIN pb => mp[p] = MergeL7Rules(pa[p], pb[p], rep)
  BY <1>4 DEF MergePortRules
<1> QED BY <1>1, <1>2, <1>3, <1>5 DEF pa, pb

\* How a list changes when one rule is merged into it (MergePolicyWithOptions).
MergesTo(rules, in, new, replaceHTTP) ==
    \/ /\ Len(new) = Len(rules) + 1 /\ new[Len(rules) + 1] = in
       /\ \A i \in 1..Len(rules) : new[i] = rules[i] /\ ~RulesMatch(rules[i], in)
    \/ \E k \in 1..Len(rules) :
          /\ RulesMatch(rules[k], in) /\ Len(new) = Len(rules)
          /\ \A i \in 1..Len(rules) :
                /\ i < k => ~RulesMatch(rules[i], in)
                /\ new[i] = IF i = k THEN MergedRule(rules[k], in, replaceHTTP) ELSE rules[i]

\* A merge of one rule, position by position.
LEMMA MergeRulePlaces ==
    ASSUME NEW rules, IsRules(rules), NEW in, IsRule(in), NEW rep, NEW new,
           new = MergeRule(rules, in, rep)
    PROVE  IsRules(new) /\ MergesTo(rules, in, new, rep)
<1>1. /\ IsSeq(rules) /\ Len(rules) \in Nat /\ DOMAIN rules = 1..Len(rules)
      /\ rules = [i \in 1..Len(rules) |-> rules[i]]
      /\ \A i \in 1..Len(rules) : IsRule(rules[i])
  BY SeqFacts DEF IsRules
<1>2. ASSUME new = Append(rules, in), \A i \in 1..Len(rules) : ~RulesMatch(rules[i], in)
      PROVE  IsRules(new) /\ MergesTo(rules, in, new, rep)
  <2>1. /\ IsSeq(new) /\ Len(new) = Len(rules) + 1
        /\ \A i \in 1..Len(rules) : new[i] = rules[i]
        /\ new[Len(rules) + 1] = in
    BY <1>1, <1>2, AppendIsSeq
  <2>2. \A i \in 1..Len(new) : i \in 1..Len(rules) \/ i = Len(rules) + 1
    BY <1>1, <2>1
  <2>3. IsRules(new)
    BY <2>1, <2>2, <1>1 DEF IsRules
  <2> QED BY <1>2, <2>1, <2>3 DEF MergesTo
<1>3. ASSUME NEW k \in 1..Len(rules), RulesMatch(rules[k], in),
             \A i \in 1..Len(rules) : i < k => ~RulesMatch(rules[i], in),
             new = [rules EXCEPT ![k] = MergedRule(rules[k], in, rep)]
      PROVE  IsRules(new) /\ MergesTo(rules, in, new, rep)
  <2> DEFINE m == MergedRule(rules[k], in, rep)
  <2>1. IsRule(m)
    BY DEF MergedRule, IsRule
  <2> HIDE DEF m
  <2>2. new = [i \in 1..Len(rules) |-> IF i = k THEN m ELSE rules[i]]
    BY <1>1, <1>3 DEF m
  <2>3. /\ \A i \in 1..Len(rules) : new[i] = IF i = k THEN m ELSE rules[i]
        /\ new = [i \in 1..Len(rules) |-> new[i]]
    BY <2>2
  <2>4. IsSeq(new) /\ Len(new) = Len(rules)
    BY <2>3, <1>1, FunctionIsSeq
  <2>5. IsRules(new)
    BY <2>1, <2>3, <2>4, <1>1 DEF IsRules
  <2> QED BY <1>3, <2>3, <2>4, <2>5 DEF MergesTo, m
<1>4. \/ /\ new = Append(rules, in)
         /\ \A i \in 1..Len(rules) : ~RulesMatch(rules[i], in)
      \/ \E k \in 1..Len(rules) :
            /\ RulesMatch(rules[k], in)
            /\ \A i \in 1..Len(rules) : i < k => ~RulesMatch(rules[i], in)
            /\ new = [rules EXCEPT ![k] = MergedRule(rules[k], in, rep)]
  BY MergeRuleCases
<1> QED BY <1>2, <1>3, <1>4

\* Rules merged apart stay apart, and the later matches of a rule stay without lists.
LEMMA MergeKeepsSolo ==
    ASSUME NEW rules, IsRules(rules), Solo(rules), NEW in, Apart(in), NEW rep, NEW new,
           MergesTo(rules, in, new, rep)
    PROVE  Solo(new)
<1>1. Len(rules) \in Nat
  BY SeqFacts DEF IsRules
<1>2. CASE /\ Len(new) = Len(rules) + 1 /\ new[Len(rules) + 1] = in
           /\ \A i \in 1..Len(rules) : new[i] = rules[i] /\ ~RulesMatch(rules[i], in)
  <2>1. \A i \in 1..Len(new) : i \in 1..Len(rules) \/ i = Len(rules) + 1
    BY <1>1, <1>2
  <2>2. ASSUME NEW i \in 1..Len(new), NEW j \in 1..Len(new), i < j, RulesMatch(new[i], new[j])
        PROVE  HTTPFree(new[j])
    <3>1. i \in 1..Len(rules)
      BY <1>1, <1>2, <2>2
    <3>2. j \in 1..Len(rules)
      BY <1>2, <2>1, <2>2, <3>1
    <3> QED BY <1>2, <2>2, <3>1, <3>2 DEF Solo
  <2> QED BY <1>2, <2>1, <2>2 DEF Solo
<1>3. ASSUME NEW k \in 1..Len(rules), RulesMatch(rules[k], in), Len(new) = Len(rules),
             \A i \in 1..Len(rules) :
                /\ i < k => ~RulesMatch(rules[i], in)
                /\ new[i] = IF i = k THEN MergedRule(rules[k], in, rep) ELSE rules[i]
      PROVE  Solo(new)
  <2> DEFINE a == rules[k]
             m == MergedRule(a, in, rep)
  <2>1. /\ m.dir = a.dir /\ m.peer = a.peer /\ IsICMPRule(m) = IsICMPRule(a)
        /\ DOMAIN m.ports = DOMAIN a.ports \cup DOMAIN in.ports
        /\ m.icmps = a.icmps \cup in.icmps
    <3>1. RulesMatch(a, in) /\ m = MergedRule(a, in, rep)
      BY <1>3
    <3> HIDE DEF a, m
    <3> QED BY <3>1, MergedFacts
  <2>2. Apart(m)
    <3>1. Apart(a)
      BY DEF Solo
    <3> QED BY <1>3, <2>1, <3>1 DEF Apart, RulesMatch
  <2> HIDE DEF m
  <2>3. \A i \in 1..Len(rules) : new[i] = IF i = k THEN m ELSE rules[i]
    BY <1>3 DEF m
  <2>4. \A r : /\ RulesMatch(m, r) => RulesMatch(a, r)
               /\ RulesMatch(r, m) => RulesMatch(r, in)
    BY <1>3, <2>1 DEF RulesMatch
  <2>5. ASSUME NEW i \in 1..Len(rules), NEW j \in 1..Len(rules), i < j, RulesMatch(new[i], new[j])
        PROVE  HTTPFree(new[j])
    <3>1. CASE j = k
      BY <1>1, <1>3, <2>3, <2>4, <2>5, <3>1
    <3>2. CASE j # k
      <4>1. new[j] = rules[j] /\ RulesMatch(rules[i], rules[j])
        BY <2>3, <2>4, <2>5, <3>2
      <4> QED BY <2>5, <4>1 DEF Solo
    <3> QED BY <3>1, <3>2
  <2> QED BY <1>3, <2>2, <2>3, <2>5 DEF Solo
<1> QED BY <1>2, <1>3 DEF MergesTo

\* The lists a merge goes through, one incoming rule after the other.
LEMMA MergePolicySteps ==
    ASSUME NEW old, IsPolicy(old), NEW new, IsPolicy(new), NEW rep
    PROVE  \E f : /\ f[0] = old.rules
                  /\ f[Len(new.rules)] = MergePolicy(old, new, rep).rules
                  /\ \A k \in 0..(Len(new.rules) - 1) :
                        f[k + 1] = MergeRule(f[k], new.rules[k + 1], rep)
<1> DEFINE in == new.rules
           n == Len(in)
           f == CHOOSE f : f = MergeBody(old.rules, in, rep, n, f)
<1>1. n \in Nat
  BY SeqFacts DEF IsPolicy, IsRules
<1>2. f = MergeBody(old.rules, in, rep, n, f)
  BY <1>1, MergeExists, Zenon
<1>3. MergePolicy(old, new, rep) = [old EXCEPT !.rules = f[n]]
  BY DEF MergePolicy, MergeBody
<1> HIDE DEF f
<1>4. MergePolicy(old, new, rep).rules = f[n]
  BY <1>3 DEF IsPolicy
<1>5. f[0] = old.rules
  BY <1>1, <1>2 DEF MergeBody
<1>6. ASSUME NEW k \in 0..(n - 1) PROVE f[k + 1] = MergeRule(f[k], in[k + 1], rep)
  <2>1. k + 1 \in 0..n /\ k + 1 # 0 /\ (k + 1) - 1 = k
    BY <1>1
  <2> QED BY <2>1, <1>2 DEF MergeBody
<1> QED BY <1>4, <1>5, <1>6, Zenon

-----------------------------------------------------------------------------
(* The rules of a built policy.                                            *)

\* A selector determines the bucket.
LEMMA SelectorKey ==
    ASSUME NEW f, NEW g, NEW ns, BucketPeer(g, ns) = BucketPeer(f, ns)
    PROVE  PeerKey(g) = PeerKey(f)
BY DEF PeerKey, BucketPeer, BuildPeerSelector

\* The rule is for the peer of the bucket the flow at i opens.
ForBucket(r, flows, dir, ns, i) ==
    /\ Opens(flows, dir, i) /\ i \in Nat \ {0}
    /\ r.dir = dir /\ r.peer = BucketPeer(flows[i], ns)

\* No rule of a bucket matches one of another (groupFlows keys the buckets).
LEMMA BucketsDiffer ==
    ASSUME NEW flows, NEW dir, NEW ns, NEW i, NEW j, i # j, NEW x, NEW y,
           ForBucket(x, flows, dir, ns, i), ForBucket(y, flows, dir, ns, j)
    PROVE  ~RulesMatch(x, y)
<1> SUFFICES ASSUME RulesMatch(x, y) PROVE FALSE
  OBVIOUS
<1>1. /\ i \in Nat \ {0} /\ j \in Nat \ {0} /\ BucketPeer(flows[i], ns) = BucketPeer(flows[j], ns)
      /\ flows[i].dir = flows[j].dir /\ ~Trackable(flows[i]) /\ ~Trackable(flows[j])
      /\ \A k \in 1..(i - 1) : ~SameBucket(flows[k], flows[i])
      /\ \A k \in 1..(j - 1) : ~SameBucket(flows[k], flows[j])
  BY DEF ForBucket, RulesMatch, Opens
<1>2. PeerKey(flows[i]) = PeerKey(flows[j])
  BY <1>1, SelectorKey
<1>3. SameBucket(flows[i], flows[j]) /\ SameBucket(flows[j], flows[i])
  BY <1>1, <1>2 DEF SameBucket
<1>4. i \in 1..(j - 1) \/ j \in 1..(i - 1)
  BY <1>1
<1> QED BY <1>1, <1>3, <1>4

\* Pairs of rules of a set of which the second has no list for the first to match.
Beside(U) == {p \in U \X U : RulesMatch(p[1], p[2]) => HTTPFree(p[2])}

\* No or one rule is ordered.
LEMMA MaybeOrdered ==
    ASSUME NEW c, NEW r, NEW s, s = IF c THEN <<r>> ELSE <<>>, NEW R
    PROVE  Ordered(s, R)
<1>1. Len(s) = 0 \/ Len(s) = 1
  OBVIOUS
<1> QED BY <1>1 DEF Ordered

\* A list whose later part has no request lists stays in order.
LEMMA FreeLast ==
    ASSUME NEW U, NEW s, IsSeq(s), ToSet(s) \subseteq U, Ordered(s, Beside(U)),
           NEW t, IsSeq(t), ToSet(t) \subseteq U, \A r \in ToSet(t) : HTTPFree(r)
    PROVE  Ordered(s \o t, Beside(U))
<1>1. \A x \in U : \A y \in ToSet(t) : <<x, y>> \in Beside(U)
  BY DEF Beside
<1>2. Ordered(t, Beside(U))
  <2>1. \A i \in 1..Len(t) : t[i] \in ToSet(t)
    BY SeqFacts
  <2> QED BY <1>1, <2>1 DEF Ordered
<1>3. \A x \in ToSet(s), y \in ToSet(t) : <<x, y>> \in Beside(U)
  BY <1>1
<1> HIDE DEF Beside
<1> QED BY <1>2, <1>3, ConcatOrdered

\* A DNS rule has no request lists and names no ICMP type.
LEMMA DNSRuleApart ==
    ASSUME NEW peer, NEW fqdns, NEW names
    PROVE  Apart(DNSRule(peer, fqdns, names)) /\ HTTPFree(DNSRule(peer, fqdns, names))
           /\ DNSRule(peer, fqdns, names).dir = "egress"
BY DEF DNSRule, Apart, HTTPFree, IsICMPRule, IsICMP, DNSPorts

\* The port rule and the ICMP rule of a bucket are apart.
LEMMA BucketRuleApart ==
    ASSUME NEW b, NEW ns, NEW opts, NEW obs, NEW r \in ToSet(RulesFrom(b, ns, opts, obs))
    PROVE  Apart(r) /\ r.dir = b.first.dir /\ r.peer = BucketPeer(b.first, ns)
<1>1. \/ r = BucketRule(b, ns, opts, obs, Ports(b), {})
      \/ r = BucketRule(b, ns, opts, obs, {}, ICMPs(b))
  BY RulesFromFacts
<1> QED BY <1>1 DEF BucketRule, PortRulesFor, Ports, ICMPs, Apart, IsICMPRule

\* They do not match each other.
LEMMA RulesFromOrdered ==
    ASSUME NEW b, NEW ns, NEW opts, NEW obs,
           NEW U, ToSet(RulesFrom(b, ns, opts, obs)) \subseteq U
    PROVE  Ordered(RulesFrom(b, ns, opts, obs), Beside(U))
<1> DEFINE p == BucketRule(b, ns, opts, obs, Ports(b), {})
           c == BucketRule(b, ns, opts, obs, {}, ICMPs(b))
           s == IF Ports(b) # {} THEN <<p>> ELSE <<>>
           t == IF ICMPs(b) # {} THEN <<c>> ELSE <<>>
<1>1. RulesFrom(b, ns, opts, obs) = s \o t
  BY DEF RulesFrom, BucketRule, Ports, ICMPs
<1>2. ICMPs(b) # {} => ~RulesMatch(p, c)
  BY DEF BucketRule, RulesMatch, IsICMPRule
<1> HIDE DEF p, c
<1>3. IsSeq(s) /\ Ordered(s, Beside(U)) /\ \A x : x \in ToSet(s) <=> Ports(b) # {} /\ x = p
  BY MaybeRule, MaybeOrdered
<1>4. IsSeq(t) /\ Ordered(t, Beside(U)) /\ \A x : x \in ToSet(t) <=> ICMPs(b) # {} /\ x = c
  BY MaybeRule, MaybeOrdered
<1> HIDE DEF s, t
<1>5. ToSet(s) \cup ToSet(t) \subseteq U
  BY <1>1, <1>3, <1>4, ConcatIsSeq
<1>6. \A x \in ToSet(s), y \in ToSet(t) : <<x, y>> \in Beside(U)
  BY <1>2, <1>3, <1>4, <1>5 DEF Beside
<1> QED BY <1>1, <1>3, <1>4, <1>6, ConcatOrdered

\* The rules of the buckets of a kind, and their FQDN rules.
KindL4Rules(flows, dir, kind, ns, opts, obs) ==
    FlattenSeq([i \in DOMAIN flows |-> IF i \in GroupFlows(flows, dir, kind)
                    THEN RulesFrom(Bucket(flows, i), ns, opts, obs) ELSE <<>>])

KindFqdnRules(flows, dir, kind) ==
    FlattenSeq([i \in DOMAIN flows |-> IF dir = "egress" /\ i \in GroupFlows(flows, dir, kind)
                    THEN FqdnEgressRulesFrom(Bucket(flows, i)) ELSE <<>>])

\* The rules of the buckets of a kind do not match each other.
LEMMA KindL4Facts ==
    ASSUME NEW flows, IsSeq(flows), NEW dir, NEW kind, NEW ns, NEW opts, NEW obs,
           NEW s, s = KindL4Rules(flows, dir, kind, ns, opts, obs)
    PROVE  /\ IsSeq(s)
           /\ \A x \in ToSet(s) : \E i \in DOMAIN flows :
                 /\ OfKind(flows, dir, kind, i) /\ ForBucket(x, flows, dir, ns, i)
                 /\ x \in ToSet(RulesFrom(Bucket(flows, i), ns, opts, obs))
           /\ \A U : ToSet(s) \subseteq U => Ordered(s, Beside(U))
<1> DEFINE rules == [i \in DOMAIN flows |-> RulesFrom(Bucket(flows, i), ns, opts, obs)]
           G == GroupFlows(flows, dir, kind)
           q == [i \in DOMAIN flows |-> IF i \in G THEN rules[i] ELSE <<>>]
           n == Len(flows)
<1>1. n \in Nat /\ DOMAIN flows = 1..n
  BY SeqFacts
<1>2. s = FlattenSeq(q)
  BY DEF KindL4Rules
<1>3. /\ q = [i \in DOMAIN flows |-> q[i]]
      /\ \A i \in DOMAIN flows : q[i] = IF i \in G THEN rules[i] ELSE <<>>
  OBVIOUS
<1>4. \A i \in DOMAIN flows : rules[i] = RulesFrom(Bucket(flows, i), ns, opts, obs)
  OBVIOUS
<1> HIDE DEF q, rules
<1>5. \A i \in DOMAIN flows : IsSeq(rules[i])
  BY <1>4, RulesFromFacts
<1>6. /\ IsSeq(s)
      /\ \A x : x \in ToSet(s) <=>
            \E i \in DOMAIN flows : OfKind(flows, dir, kind, i) /\ x \in ToSet(rules[i])
  BY <1>2, <1>3, <1>5, KindRules DEF G
<1>7. ASSUME NEW i \in 1..n, NEW x \in ToSet(q[i])
      PROVE  /\ OfKind(flows, dir, kind, i) /\ x \in ToSet(rules[i])
             /\ ForBucket(x, flows, dir, ns, i)
  <2>1. i \in G
    BY <1>1, <1>3, <1>7, EmptyIsSeq
  <2>2. OfKind(flows, dir, kind, i) /\ q[i] = rules[i] /\ x \in ToSet(rules[i])
    BY <1>1, <1>3, <1>7, <2>1, GroupFlowsFacts
  <2>3. x.dir = flows[i].dir /\ x.peer = BucketPeer(flows[i], ns)
    <3>1. Bucket(flows, i).first = flows[i]
      BY DEF Bucket
    <3> QED BY <1>1, <1>4, <2>2, <3>1, BucketRuleApart
  <2> QED BY <1>1, <2>2, <2>3 DEF ForBucket, OfKind, Opens
<1>8. ASSUME NEW x \in ToSet(s)
      PROVE  \E i \in DOMAIN flows :
                 /\ OfKind(flows, dir, kind, i) /\ ForBucket(x, flows, dir, ns, i)
                 /\ x \in ToSet(RulesFrom(Bucket(flows, i), ns, opts, obs))
  <2>1. PICK i \in DOMAIN flows : OfKind(flows, dir, kind, i) /\ x \in ToSet(rules[i])
    BY <1>6
  <2>2. i \in G /\ q[i] = rules[i]
    BY <1>3, <2>1, GroupFlowsFacts
  <2> QED BY <1>1, <1>4, <1>7, <2>1, <2>2
<1>9. ASSUME NEW U, ToSet(s) \subseteq U PROVE Ordered(s, Beside(U))
  <2>1. IsSeq(q) /\ Len(q) = n
    BY <1>1, <1>3, FunctionIsSeq
  <2>2. ASSUME NEW i \in 1..n PROVE IsSeq(q[i]) /\ Ordered(q[i], Beside(U)) /\ ToSet(q[i]) \subseteq U
    <3>1. ToSet(q[i]) \subseteq U
      BY <1>1, <1>6, <1>7, <1>9
    <3>2. CASE i \in G
      <4>1. q[i] = RulesFrom(Bucket(flows, i), ns, opts, obs)
        BY <1>1, <1>3, <1>4, <3>2
      <4> QED BY <3>1, <4>1, RulesFromFacts, RulesFromOrdered
    <3>3. CASE i \notin G
      <4>1. q[i] = <<>>
        BY <1>1, <1>3, <3>3
      <4>2. Ordered(q[i], Beside(U))
        BY <4>1, EmptyIsSeq DEF Ordered
      <4> QED BY <3>1, <4>1, <4>2, EmptyIsSeq
    <3> QED BY <3>2, <3>3
  <2>3. ASSUME NEW i \in 1..n, NEW j \in 1..n, i < j, NEW x \in ToSet(q[i]), NEW y \in ToSet(q[j])
        PROVE  <<x, y>> \in Beside(U)
    <3>1. ~RulesMatch(x, y)
      <4>1. i # j /\ ForBucket(x, flows, dir, ns, i) /\ ForBucket(y, flows, dir, ns, j)
        BY <1>7, <2>3
      <4> QED BY <4>1, BucketsDiffer
    <3>2. x \in U /\ y \in U
      BY <2>2
    <3> QED BY <3>1, <3>2 DEF Beside
  <2>4. \A i, j \in 1..n : i < j => \A x \in ToSet(q[i]), y \in ToSet(q[j]) : <<x, y>> \in Beside(U)
    BY <2>3
  <2> HIDE DEF n
  <2>5. Ordered(FlattenSeq(q), Beside(U))
    BY <2>1, <2>2, <2>4, FlattenOrdered
  <2> QED BY <1>2, <2>5
<1> QED BY <1>6, <1>8, <1>9

\* The FQDN rules have no request lists.
LEMMA KindFqdnFacts ==
    ASSUME NEW flows, IsSeq(flows), NEW dir, NEW kind,
           NEW s, s = KindFqdnRules(flows, dir, kind)
    PROVE  /\ IsSeq(s)
           /\ \A x \in ToSet(s) : HTTPFree(x) /\ Apart(x) /\ x.dir = dir
<1> DEFINE rules == [i \in DOMAIN flows |->
                       IF dir = "egress" THEN FqdnEgressRulesFrom(Bucket(flows, i)) ELSE <<>>]
           q == [i \in DOMAIN flows |->
                   IF i \in GroupFlows(flows, dir, kind) THEN rules[i] ELSE <<>>]
<1>1. q = [i \in DOMAIN flows |-> IF dir = "egress" /\ i \in GroupFlows(flows, dir, kind)
              THEN FqdnEgressRulesFrom(Bucket(flows, i)) ELSE <<>>]
  OBVIOUS
<1>2. s = FlattenSeq(q)
  BY <1>1 DEF KindFqdnRules
<1>3. /\ q = [i \in DOMAIN flows |-> q[i]]
      /\ \A i \in DOMAIN flows :
            q[i] = IF i \in GroupFlows(flows, dir, kind) THEN rules[i] ELSE <<>>
  OBVIOUS
<1>4. ASSUME NEW i \in DOMAIN flows
      PROVE  /\ IsSeq(rules[i])
             /\ \A x \in ToSet(rules[i]) : HTTPFree(x) /\ Apart(x) /\ x.dir = dir
  <2>1. CASE dir = "egress"
    <3>1. rules[i] = FqdnEgressRulesFrom(Bucket(flows, i))
      BY <2>1
    <3> HIDE DEF rules
    <3> QED BY <2>1, <3>1, FqdnRulesFacts, DNSRuleApart
  <2>2. CASE dir # "egress"
    <3>1. rules[i] = <<>>
      BY <2>2
    <3> QED BY <3>1, EmptyIsSeq
  <2> QED BY <2>1, <2>2
<1> HIDE DEF q, rules
<1>5. /\ IsSeq(s)
      /\ \A x : x \in ToSet(s) <=>
            \E i \in DOMAIN flows : OfKind(flows, dir, kind, i) /\ x \in ToSet(rules[i])
  BY <1>2, <1>3, <1>4, KindRules
<1> QED BY <1>4, <1>5

\* In the rules of a direction the lists of a peer are in the first of its port rules.
LEMMA BuildRulesSolo ==
    ASSUME NEW flows, IsSeq(flows), NEW dir, NEW ns, NEW opts, NEW obs,
           NEW s, s = BuildRules(flows, dir, ns, opts, obs)
    PROVE  /\ IsSeq(s) /\ \A x \in ToSet(s) : Apart(x) /\ x.dir = dir
           /\ \A U : ToSet(s) \subseteq U => Ordered(s, Beside(U))
<1> DEFINE R(kind) == KindL4Rules(flows, dir, kind, ns, opts, obs)
           D(kind) == KindFqdnRules(flows, dir, kind)
           S1 == R("entity") \o R("cidr")
           S2 == S1 \o R("endpoint")
           S3 == S2 \o D("entity")
           S4 == S3 \o D("cidr")
           S5 == S4 \o D("endpoint")
<1>1. s = S5
  BY DEF BuildRules, KindL4Rules, KindFqdnRules
<1>2. ASSUME NEW kind
      PROVE  /\ IsSeq(R(kind))
             /\ \A x \in ToSet(R(kind)) : \E i \in DOMAIN flows :
                   /\ OfKind(flows, dir, kind, i) /\ ForBucket(x, flows, dir, ns, i)
                   /\ x \in ToSet(RulesFrom(Bucket(flows, i), ns, opts, obs))
             /\ \A U : ToSet(R(kind)) \subseteq U => Ordered(R(kind), Beside(U))
  <2> DEFINE r == R(kind)
  <2>1. r = KindL4Rules(flows, dir, kind, ns, opts, obs)
    OBVIOUS
  <2> HIDE DEF r
  <2> QED BY <2>1, KindL4Facts DEF r
<1>3. ASSUME NEW kind
      PROVE  IsSeq(D(kind)) /\ \A x \in ToSet(D(kind)) : HTTPFree(x) /\ Apart(x) /\ x.dir = dir
  BY KindFqdnFacts
<1> HIDE DEF R, D
<1>4. ASSUME NEW kind, NEW x \in ToSet(R(kind)) PROVE Apart(x) /\ x.dir = dir
  BY <1>2, BucketRuleApart DEF ForBucket
<1>5. ASSUME NEW k, NEW l, k # l, NEW x \in ToSet(R(k)), NEW y \in ToSet(R(l))
      PROVE  ~RulesMatch(x, y)
  <2>1. PICK i \in DOMAIN flows : OfKind(flows, dir, k, i) /\ ForBucket(x, flows, dir, ns, i)
    BY <1>2
  <2>2. PICK j \in DOMAIN flows : OfKind(flows, dir, l, j) /\ ForBucket(y, flows, dir, ns, j)
    BY <1>2
  <2>3. i # j
    BY <1>5, <2>1, <2>2 DEF OfKind
  <2> QED BY <2>1, <2>2, <2>3, BucketsDiffer
<1>6. IsSeq(S1) /\ ToSet(S1) = ToSet(R("entity")) \cup ToSet(R("cidr"))
  BY <1>2, ConcatIsSeq
<1>7. IsSeq(S2) /\ ToSet(S2) = ToSet(S1) \cup ToSet(R("endpoint"))
  BY <1>2, <1>6, ConcatIsSeq
<1>8. IsSeq(S3) /\ ToSet(S3) = ToSet(S2) \cup ToSet(D("entity"))
  BY <1>3, <1>7, ConcatIsSeq
<1>9. IsSeq(S4) /\ ToSet(S4) = ToSet(S3) \cup ToSet(D("cidr"))
  BY <1>3, <1>8, ConcatIsSeq
<1>10. IsSeq(S5) /\ ToSet(S5) = ToSet(S4) \cup ToSet(D("endpoint"))
  BY <1>3, <1>9, ConcatIsSeq
<1>11. ASSUME NEW U, ToSet(S5) \subseteq U PROVE Ordered(S5, Beside(U))
  <2>1. \A kind : ToSet(R(kind)) \subseteq U => Ordered(R(kind), Beside(U))
    BY <1>2
  <2>2. /\ ToSet(R("entity")) \subseteq U /\ ToSet(R("cidr")) \subseteq U
        /\ ToSet(R("endpoint")) \subseteq U /\ ToSet(S1) \subseteq U /\ ToSet(S2) \subseteq U
        /\ ToSet(S3) \subseteq U /\ ToSet(S4) \subseteq U
        /\ ToSet(D("entity")) \subseteq U /\ ToSet(D("cidr")) \subseteq U
        /\ ToSet(D("endpoint")) \subseteq U
    BY <1>6, <1>7, <1>8, <1>9, <1>10, <1>11
  <2>3. \A x \in U : \A y \in U : ~RulesMatch(x, y) => <<x, y>> \in Beside(U)
    BY DEF Beside
  <2>4. \A x \in ToSet(R("entity")), y \in ToSet(R("cidr")) : <<x, y>> \in Beside(U)
    <3>1. "entity" # "cidr"
      OBVIOUS
    <3> QED BY <1>5, <2>2, <2>3, <3>1
  <2>5. \A x \in ToSet(S1), y \in ToSet(R("endpoint")) : <<x, y>> \in Beside(U)
    <3>1. "entity" # "endpoint" /\ "cidr" # "endpoint"
      OBVIOUS
    <3> QED BY <1>5, <1>6, <2>2, <2>3, <3>1
  <2> HIDE DEF S1, S2, S3, S4, S5
  <2>6. Ordered(S1, Beside(U))
    BY <1>2, <2>1, <2>2, <2>4, ConcatOrdered DEF S1
  <2>7. Ordered(S2, Beside(U))
    BY <1>2, <1>6, <2>1, <2>2, <2>5, <2>6, ConcatOrdered DEF S2
  <2>8. Ordered(S3, Beside(U))
    BY <1>3, <1>7, <2>2, <2>7, FreeLast DEF S3
  <2>9. Ordered(S4, Beside(U))
    BY <1>3, <1>8, <2>2, <2>8, FreeLast DEF S4
  <2> QED BY <1>3, <1>9, <2>2, <2>9, FreeLast DEF S5
<1> HIDE DEF S1, S2, S3, S4, S5
<1>12. \A x \in ToSet(S5) : Apart(x) /\ x.dir = dir
  BY <1>3, <1>4, <1>6, <1>7, <1>8, <1>9, <1>10
<1> QED BY <1>1, <1>10, <1>11, <1>12

\* The same holds of a whole policy: the companion rule comes last, without lists.
LEMMA BuildPolicySolo ==
    ASSUME NEW flows, IsSeq(flows), NEW ns, NEW opts, NEW obs
    PROVE  Solo(BuildPolicy(ns, flows, opts, obs).rules)
<1> DEFINE fs == SeenFlows(flows, opts)
           in == BuildRules(fs, "ingress", ns, opts, obs)
           out == BuildRules(fs, "egress", ns, opts, obs)
           all == in \o out
           names == FQDNMatchNames(all)
           c == DNSRule(KubeDNSSelector, {}, names)
           rules == EnsureKubeDNSCompanion(all)
<1>1. IsSeq(fs)
  <2>1. Len(flows) \in Nat /\ DOMAIN flows = 1..Len(flows)
    BY SeqFacts
  <2>2. fs = [i \in 1..Len(flows) |-> fs[i]]
    BY <2>1 DEF SeenFlows
  <2> QED BY <2>1, <2>2, FunctionIsSeq
<1>2. BuildPolicy(ns, flows, opts, obs).rules = rules
  BY DEF BuildPolicy, SeenFlows
<1> HIDE DEF fs
<1>3. /\ IsSeq(in) /\ \A x \in ToSet(in) : Apart(x) /\ x.dir = "ingress"
      /\ \A U : ToSet(in) \subseteq U => Ordered(in, Beside(U))
      /\ IsSeq(out) /\ \A x \in ToSet(out) : Apart(x) /\ x.dir = "egress"
      /\ \A U : ToSet(out) \subseteq U => Ordered(out, Beside(U))
  BY <1>1, BuildRulesSolo
<1> HIDE DEF in, out
<1>4. IsSeq(all) /\ ToSet(all) = ToSet(in) \cup ToSet(out)
  BY <1>3, ConcatIsSeq
<1>5. ASSUME NEW U, ToSet(all) \subseteq U PROVE Ordered(all, Beside(U))
  <2>1. Ordered(in, Beside(U)) /\ Ordered(out, Beside(U))
    BY <1>3, <1>4, <1>5
  <2>2. \A x \in ToSet(in), y \in ToSet(out) : <<x, y>> \in Beside(U)
    <3>1. \A x \in ToSet(in), y \in ToSet(out) : ~RulesMatch(x, y) /\ x \in U /\ y \in U
      BY <1>3, <1>4, <1>5 DEF RulesMatch
    <3> QED BY <3>1 DEF Beside
  <2> QED BY <1>3, <2>1, <2>2, ConcatOrdered
<1> HIDE DEF all
<1>6. /\ IsSeq(rules) /\ \A x \in ToSet(rules) : Apart(x)
      /\ Ordered(rules, Beside(ToSet(rules)))
  <2>1. CASE names = {} \/ HasKubeDNSCompanion(all)
    <3>1. rules = all
      BY <2>1 DEF EnsureKubeDNSCompanion
    <3> QED BY <1>3, <1>4, <1>5, <3>1
  <2>2. CASE ~(names = {} \/ HasKubeDNSCompanion(all))
    <3>1. rules = Append(all, c)
      BY <2>2 DEF EnsureKubeDNSCompanion
    <3>2. Apart(c) /\ HTTPFree(c)
      BY DNSRuleApart
    <3> HIDE DEF rules, c
    <3>3. /\ IsSeq(rules) /\ ToSet(rules) = ToSet(all) \cup {c}
          /\ Len(rules) = Len(all) + 1 /\ \A i \in 1..Len(all) : rules[i] = all[i]
          /\ rules[Len(all) + 1] = c /\ Len(all) \in Nat
      BY <1>4, <3>1, AppendIsSeq, SeqFacts
    <3>4. Ordered(rules, Beside(ToSet(rules)))
      <4>1. Ordered(all, Beside(ToSet(rules)))
        BY <1>5, <3>3
      <4>2. \A x \in ToSet(rules) : <<x, c>> \in Beside(ToSet(rules))
        BY <3>2, <3>3 DEF Beside
      <4>3. \A i \in 1..Len(rules) : rules[i] \in ToSet(rules)
        BY <3>3, SeqFacts
      <4>4. ASSUME NEW i \in 1..Len(rules), NEW j \in 1..Len(rules), i < j
            PROVE  <<rules[i], rules[j]>> \in Beside(ToSet(rules))
        <5>1. CASE j = Len(all) + 1
          BY <3>3, <4>2, <4>3, <5>1
        <5>2. CASE j # Len(all) + 1
          <6>1. i \in 1..Len(all) /\ j \in 1..Len(all)
            BY <3>3, <4>4, <5>2
          <6> QED BY <3>3, <4>1, <4>4, <6>1 DEF Ordered
        <5> QED BY <5>1, <5>2
      <4> QED BY <4>4 DEF Ordered
    <3> QED BY <1>3, <1>4, <3>2, <3>3, <3>4
  <2> QED BY <2>1, <2>2
<1> HIDE DEF rules
<1>7. \A i \in 1..Len(rules) : rules[i] \in ToSet(rules)
  BY <1>6, SeqFacts
<1>8. Solo(rules)
  BY <1>6, <1>7 DEF Solo, Ordered, Beside
<1> QED BY <1>2, <1>8
=============================================================================
