-------------------------- MODULE PolicyStoreProofs --------------------------
(***************************************************************************)
(* The safety properties of PolicyStore for any flows, options, cluster    *)
(* policies and bounds, from what PolicyRulesProofs says of the policies   *)
(* that are built and merged.                                              *)
(***************************************************************************)
EXTENDS PolicyStore, PolicyRulesProofs

-----------------------------------------------------------------------------
(* The types, with the facts about policies they rest on.                  *)

Indexed(f) == f = [w \in Workloads |-> f[w]]

\* No policy, or one with its companion rule.
Proper(p) == p # NoPolicy => IsPolicy(p) /\ Accompanied(p.rules)

Event(ev) ==
    /\ ev.wl \in Workloads
    /\ ev.policy # NoPolicy /\ Proper(ev.policy)
    /\ ev.flows \subseteq ever[ev.wl]

Buffers ==
    /\ Indexed(bucket)
    /\ \A w \in Workloads : IsSeq(bucket[w]) /\ ToSet(bucket[w]) \subseteq Flows
    /\ flushing \subseteq {w \in Workloads : bucket[w] # <<>>}
    /\ flushing = {} => collected = {}

Queued == IsSeq(queue) /\ \A ev \in ToSet(queue) : Event(ev)

\* What was written in a run that is not dry is in a file.
Filed ==
    /\ Indexed(written) /\ Indexed(file) /\ Indexed(settled) /\ Indexed(deployed)
    /\ \A w \in Workloads : /\ Proper(file[w])
                            /\ ~opts.dry /\ written[w] # NoPolicy => file[w] # NoPolicy
                            /\ settled[w] \cup deployed[w] \subseteq ever[w]
                            /\ file[w] = NoPolicy => settled[w] = {}

Scalars ==
    /\ opts \in Options /\ cluster \in Snapshots
    /\ Indexed(ever)
    /\ nflows \in 0..MaxFlows /\ nruns \in 1..MaxRuns

TypeInv == Scalars /\ Buffers /\ Queued /\ Filed

-----------------------------------------------------------------------------

\* The inductive types give those the runs check.
LEMMA TypeInvImpliesTypeOK == TypeInv => TypeOK
<1> SUFFICES ASSUME TypeInv PROVE TypeOK
  OBVIOUS
<1>1. \A i \in DOMAIN queue : queue[i].wl \in Workloads
  BY SeqFacts DEF TypeInv, Queued, Event
<1> QED BY <1>1 DEF TypeInv, TypeOK, Scalars, Buffers, Filed

\* The initial state is of its type.
LEMMA InitTypeInv == Init => TypeInv
<1> SUFFICES ASSUME Init PROVE TypeInv
  OBVIOUS
<1>1. Scalars
  BY BoundsAssumption DEF Init, Scalars, Indexed
<1>2. Buffers
  BY EmptyIsSeq DEF Init, Buffers, Indexed
<1>3. Queued
  BY EmptyIsSeq DEF Init, Queued
<1>4. Filed
  BY DEF Init, Filed, Indexed, Proper
<1> QED BY <1>1, <1>2, <1>3, <1>4 DEF TypeInv

\* The events that stay in the queue stay events while "ever" grows.
LEMMA QueuedKept ==
    ASSUME Queued, IsSeq(queue'), ToSet(queue') \subseteq ToSet(queue),
           \A w \in Workloads : ever[w] \subseteq ever'[w]
    PROVE  Queued'
BY DEF Queued, Event

\* A write replaces a file by the policy or by its merge into the file.
LEMMA WrittenFile ==
    ASSUME NEW old, Proper(old), NEW new, new # NoPolicy, Proper(new), NEW rep, NEW p,
           p = IF old = NoPolicy THEN new ELSE MergePolicy(old, new, rep)
    PROVE  p # NoPolicy /\ Proper(p)
<1>1. CASE old = NoPolicy
  BY <1>1
<1>2. CASE old # NoPolicy
  <2>1. IsPolicy(old) /\ IsPolicy(new) /\ Accompanied(old.rules) /\ Accompanied(new.rules)
    BY <1>2 DEF Proper
  <2>2. p = MergePolicy(old, new, rep)
    BY <1>2
  <2>3. IsPolicy(p) /\ Accompanied(p.rules)
    BY <2>1, <2>2, MergePolicyFacts, MergeAccompanied
  <2>4. p # NoPolicy
    BY <2>3 DEF IsPolicy, NoPolicy
  <2> QED BY <2>3, <2>4 DEF Proper
<1> QED BY <1>1, <1>2

\* Take removes the first event.
LEMMA TakeFacts ==
    ASSUME TypeInv, Take
    PROVE  /\ Scalars' /\ Buffers' /\ Queued'
           /\ Event(Head(queue))
<1>1. IsSeq(queue) /\ queue # <<>> /\ queue' = Tail(queue)
  BY DEF TypeInv, Queued, Take
<1>2. IsSeq(queue') /\ ToSet(queue') \subseteq ToSet(queue) /\ Head(queue) \in ToSet(queue)
  BY <1>1, TailIsSeq
<1>3. Scalars' /\ Buffers'
  BY DEF TypeInv, Scalars, Buffers, Take, aggregator, run, Indexed
<1>4. Queued'
  BY <1>2, QueuedKept DEF TypeInv, Take
<1> QED BY <1>2, <1>3, <1>4 DEF TypeInv, Queued

\* Every step keeps the types, the flows behind the events and the file's writer.
LEMMA NextTypeInv == TypeInv /\ [Next]_vars => TypeInv'
<1> SUFFICES ASSUME TypeInv, [Next]_vars PROVE TypeInv'
  OBVIOUS
<1> USE DEF TypeInv
<1>1. ASSUME NEW f \in Flows, Observe(f) PROVE TypeInv'
  <2>1. Scalars' /\ Filed'
    BY <1>1, BoundsAssumption DEF Observe, Scalars, Filed, writer, run, Indexed
  <2>2. Queued'
    BY <1>1, QueuedKept DEF Observe, Queued
  <2>3. Buffers'
    <3>1. Indexed(bucket)'
      BY <1>1 DEF Observe, Indexed
    <3>2. ASSUME NEW w \in Workloads
          PROVE  /\ IsSeq(bucket'[w]) /\ ToSet(bucket'[w]) \subseteq Flows
      <4>1. bucket'[w] = bucket[w] \/ bucket'[w] = Append(bucket[w], f)
        BY <1>1 DEF Observe
      <4>2. IsSeq(bucket[w]) /\ ToSet(bucket[w]) \subseteq Flows
        BY DEF Buffers
      <4>3. IsSeq(Append(bucket[w], f)) /\ ToSet(Append(bucket[w], f)) = ToSet(bucket[w]) \cup {f}
        BY <4>2, AppendIsSeq
      <4> QED BY <4>1, <4>2, <4>3
    <3> QED BY <1>1, <3>1, <3>2 DEF Observe, Buffers
  <2> QED BY <2>1, <2>2, <2>3
<1>2. CASE Flush
  <2>1. Scalars' /\ Filed'
    BY <1>2 DEF Flush, Scalars, Filed, writer, run, Indexed
  <2>2. Queued'
    BY <1>2, QueuedKept DEF Flush, Queued
  <2>3. Buffers'
    BY <1>2 DEF Flush, Buffers, Indexed
  <2> QED BY <2>1, <2>2, <2>3
<1>3. ASSUME NEW w \in Workloads, BuildBucket(w) PROVE TypeInv'
  <2> DEFINE obs == collected \cup Observations(w)
             p == BuildPolicy(w.ns, bucket[w], opts, retained \cup obs)
             ev == [wl |-> w, flows |-> Demands(w), replace |-> opts.l7 /\ opts.collapse, policy |-> p]
  <2>1. /\ w \in flushing /\ flushing' = flushing \ {w}
        /\ bucket' = [bucket EXCEPT ![w] = <<>>]
        /\ queue' = Append(queue, ev)
        /\ flushing' = {} => collected' = {}
        /\ ever' = [ever EXCEPT ![w] = @ \cup Demands(w)]
        /\ UNCHANGED <<writer, run, nflows>>
    BY <1>3 DEF BuildBucket, Absorb
  <2>2. IsPolicy(p) /\ Accompanied(p.rules)
    <3>1. IsSeq(bucket[w])
      BY DEF Buffers
    <3> QED BY <3>1, BuildPolicyFacts
  <2> HIDE DEF p
  <2>3. \A v \in Workloads : ever[v] \subseteq ever'[v]
    BY <2>1 DEF Scalars, Indexed
  <2>4. Scalars' /\ Filed'
    <3>1. Scalars'
      BY <2>1 DEF Scalars, run, Indexed
    <3>2. Filed'
      BY <2>1, <2>3 DEF Filed, writer, run, Indexed
    <3> QED BY <3>1, <3>2
  <2>5. /\ ev.wl = w /\ ev.policy # NoPolicy /\ Proper(ev.policy)
        /\ ev.flows \subseteq ever'[ev.wl]
    <3>1. p # NoPolicy /\ Proper(p)
      BY <2>2 DEF IsPolicy, NoPolicy, Proper
    <3>2. Demands(w) \subseteq ever'[w]
      BY <2>1 DEF Scalars, Indexed
    <3> QED BY <3>1, <3>2
  <2> HIDE DEF ev
  <2>6. Queued'
    <3>1. IsSeq(queue') /\ ToSet(queue') = ToSet(queue) \cup {ev}
      BY <2>1, AppendIsSeq DEF Queued
    <3> QED BY <2>3, <2>5, <3>1 DEF Queued, Event
  <2>7. Buffers'
    BY <2>1, EmptyIsSeq DEF Buffers, Indexed
  <2> QED BY <2>4, <2>6, <2>7
<1>4. CASE SkipForClusterMatch
  <2>0. PICK ev : ev = Head(queue)
    OBVIOUS
  <2>1. /\ Take /\ UNCHANGED <<opts, ever, written, file, settled>>
        /\ deployed' = [deployed EXCEPT ![ev.wl] = @ \cup ev.flows]
    BY <1>4, <2>0 DEF SkipForClusterMatch, Take, run
  <2>2. Scalars' /\ Buffers' /\ Queued' /\ Event(ev)
    BY <2>0, <2>1, TakeFacts
  <2>3. Filed'
    BY <2>1, <2>2 DEF Filed, Indexed, Event
  <2> QED BY <2>2, <2>3
<1>5. CASE SkipForCrossFlushMatch
  <2>0. PICK ev : ev = Head(queue)
    OBVIOUS
  <2>1. /\ Take /\ UNCHANGED <<opts, ever, written, file, deployed>>
        /\ \/ settled' = settled
           \/ /\ ~opts.dry /\ written[ev.wl] # NoPolicy
              /\ settled' = [settled EXCEPT ![ev.wl] = @ \cup ev.flows]
    BY <1>5, <2>0 DEF SkipForCrossFlushMatch, Same, Settle, Take, run
  <2>2. Scalars' /\ Buffers' /\ Queued' /\ Event(ev)
    BY <2>0, <2>1, TakeFacts
  <2>3. Filed'
    BY <2>1, <2>2 DEF Filed, Indexed, Event
  <2> QED BY <2>2, <2>3
<1>6. CASE DryRunEmit
  <2>0. PICK ev : ev = Head(queue)
    OBVIOUS
  <2>1. /\ Take /\ UNCHANGED <<opts, ever, file, settled, deployed>> /\ opts.dry
        /\ written' = [written EXCEPT ![ev.wl] = ev.policy]
    BY <1>6, <2>0 DEF DryRunEmit, Take, run
  <2>2. Scalars' /\ Buffers' /\ Queued' /\ Event(ev)
    BY <2>0, <2>1, TakeFacts
  <2>3. Filed'
    BY <2>1, <2>2 DEF Filed, Indexed, Event
  <2> QED BY <2>2, <2>3
<1>7. CASE WriteOk
  <2> DEFINE ev == Head(queue)
             old == file[ev.wl]
             p == IF old = NoPolicy THEN ev.policy ELSE MergePolicy(old, ev.policy, ev.replace)
  <2>1. Take
    BY <1>7 DEF WriteOk
  <2>2. Scalars' /\ Buffers' /\ Queued' /\ Event(ev)
    BY <2>1, TakeFacts
  <2>3. /\ file' = [file EXCEPT ![ev.wl] = p]
        /\ written' = [written EXCEPT ![ev.wl] = ev.policy]
        /\ settled' = [settled EXCEPT ![ev.wl] = @ \cup ev.flows]
        /\ deployed' = deployed /\ opts' = opts /\ ever' = ever
    BY <1>7, <2>1 DEF WriteOk, Settle, Take, run
  <2>4. p # NoPolicy /\ Proper(p)
    <3>1. Proper(old) /\ ev.policy # NoPolicy /\ Proper(ev.policy)
      BY <2>2 DEF Event, Filed
    <3> QED BY <3>1, WrittenFile
  <2> HIDE DEF p, ev
  <2>5. Filed'
    BY <2>2, <2>3, <2>4 DEF Filed, Indexed, Event
  <2> QED BY <2>2, <2>5
<1>8. CASE WriteFails
  <2>1. Take
    BY <1>8 DEF WriteFails
  <2>2. Scalars' /\ Buffers' /\ Queued' /\ Event(Head(queue))
    BY <2>1, TakeFacts
  <2>3. Filed'
    BY <1>8, <2>1 DEF WriteFails, Take, Filed, Indexed, run, writer
  <2> QED BY <2>2, <2>3
<1>9. CASE Restart
  <2>1. Scalars'
    BY <1>9, BoundsAssumption DEF Restart, Scalars, Indexed
  <2>2. Buffers' /\ Queued'
    BY <1>9, EmptyIsSeq DEF Restart, Buffers, Queued, Indexed
  <2>3. Filed'
    BY <1>9 DEF Restart, Filed, Indexed
  <2> QED BY <2>1, <2>2, <2>3
<1>10. CASE UNCHANGED vars
  BY <1>10 DEF vars, aggregator, writer, run, Scalars, Buffers, Queued, Filed, Event, Indexed
<1> QED BY <1>1, <1>2, <1>3, <1>4, <1>5, <1>6, <1>7, <1>8, <1>9, <1>10 DEF Next

\* The types hold in every state.
LEMMA AlwaysTypeInv == Spec => []TypeInv
BY InitTypeInv, NextTypeInv, PTL DEF Spec

(* The types of the state, and that what is settled was built from flows    *)
(* the aggregator saw.                                                      *)
THEOREM TypeCorrect == Spec => []TypeOK
BY AlwaysTypeInv, TypeInvImpliesTypeOK, PTL

(* A policy file that names FQDNs keeps its kube-dns companion rule through *)
(* any number of merges, failed writes and runs.                            *)
THEOREM CompanionSafe == Spec => []CompanionPresent
<1>1. TypeInv => CompanionPresent
  BY DEF TypeInv, Filed, Proper, Accompanied, CompanionPresent
<1> QED BY <1>1, AlwaysTypeInv, PTL

-----------------------------------------------------------------------------
(* The files implement the store of grants.                                *)

\* A merge takes no grant from a policy.
LEMMA MergeKeepsGrants ==
    ASSUME NEW old, IsPolicy(old), NEW new, IsPolicy(new), NEW rep
    PROVE  GrantsOf(old) \subseteq GrantsOf(MergePolicy(old, new, rep))
<1> DEFINE m == MergePolicy(old, new, rep)
           In(g, r) == g \in {<<r.dir, r.peer, l4>> : l4 \in DOMAIN r.ports \cup r.icmps}
<1>1. IsPolicy(m) /\ MergedUpTo(m.rules, old.rules, new.rules, Len(new.rules), rep)
  BY MergePolicyFacts
<1> HIDE DEF m
<1>2. IsSeq(old.rules) /\ IsSeq(m.rules) /\ Len(old.rules) \in Nat /\ Len(m.rules) \in Nat
  BY <1>1, SeqFacts DEF IsPolicy, IsRules
<1>3. old # NoPolicy /\ m # NoPolicy
  BY <1>1 DEF IsPolicy, NoPolicy
<1>4. \A a, b, g : Grows(a, b, ToSet(new.rules), rep) /\ In(g, a) => In(g, b)
  BY DEF Grows, SamePeer
<1> HIDE DEF In
<1>5. ASSUME NEW g, NEW r \in ToSet(old.rules), In(g, r)
      PROVE  \E q \in ToSet(m.rules) : In(g, q)
  <2>1. PICK i \in 1..Len(old.rules) : old.rules[i] = r
    BY <1>2, SeqFacts
  <2>2. i \in 1..Len(m.rules) /\ Grows(old.rules[i], m.rules[i], ToSet(new.rules), rep)
    BY <1>1, <1>2 DEF MergedUpTo
  <2>3. In(g, m.rules[i])
    BY <1>4, <1>5, <2>1, <2>2
  <2>4. m.rules[i] \in ToSet(m.rules)
    BY <1>2, <2>2, SeqFacts
  <2> QED BY <2>3, <2>4
<1>6. ASSUME NEW p, p # NoPolicy, NEW g
      PROVE  g \in GrantsOf(p) <=> \E r \in ToSet(p.rules) : In(g, r)
  BY <1>6 DEF GrantsOf, RulesIn, In
<1> QED BY <1>3, <1>5, <1>6 DEF m

Granted == [w \in Workloads |-> GrantsOf(file[w])]

\* Without files nothing is granted.
LEMMA GrantsInit == Init => Grants!Init
<1> SUFFICES ASSUME Init PROVE Grants!Init
  OBVIOUS
<1>1. \A w \in Workloads : GrantsOf(file[w]) = {}
  BY DEF Init, GrantsOf, RulesIn
<1> QED BY <1>1 DEF Grants!Init

\* A write publishes the grants of one file; no other step changes a grant.
LEMMA GrantsStep == TypeInv /\ [Next]_vars => [Grants!Next]_Granted
<1> SUFFICES ASSUME TypeInv, [Next]_vars PROVE [Grants!Next]_Granted
  OBVIOUS
<1>1. CASE WriteOk
  <2> DEFINE ev == Head(queue)
             w == ev.wl
             old == file[w]
             p == IF old = NoPolicy THEN ev.policy ELSE MergePolicy(old, ev.policy, ev.replace)
  <2>1. Take /\ file' = [file EXCEPT ![w] = p]
    BY <1>1 DEF WriteOk
  <2>2. w \in Workloads /\ ev.policy # NoPolicy /\ Proper(ev.policy) /\ Proper(old)
    BY <2>1, TakeFacts DEF Event, TypeInv, Filed
  <2>3. GrantsOf(old) \subseteq GrantsOf(p)
    <3>1. CASE old = NoPolicy
      BY <3>1 DEF GrantsOf, RulesIn
    <3>2. CASE old # NoPolicy
      <4>1. IsPolicy(old) /\ IsPolicy(ev.policy) /\ p = MergePolicy(old, ev.policy, ev.replace)
        BY <2>2, <3>2 DEF Proper
      <4> QED BY <4>1, MergeKeepsGrants
    <3> QED BY <3>1, <3>2
  <2> HIDE DEF p, ev, w
  <2>4. file' = [v \in Workloads |-> IF v = w THEN p ELSE file[v]]
    BY <2>1, <2>2 DEF TypeInv, Filed, Indexed
  <2>5. /\ Granted[w] \subseteq Granted'[w]
        /\ Granted' = [Granted EXCEPT ![w] = Granted'[w]]
    BY <2>2, <2>3, <2>4 DEF Granted
  <2>6. Grants!Publish(w)
    BY <2>5 DEF Grants!Publish, Granted
  <2> QED BY <2>2, <2>6 DEF Grants!Next
<1>2. CASE UNCHANGED file
  BY <1>2 DEF Granted
<1>3. WriteOk \/ UNCHANGED file
  BY DEF Next, Observe, Flush, BuildBucket, SkipForClusterMatch, SkipForCrossFlushMatch, DryRunEmit,
         WriteFails, Restart, vars, writer
<1> QED BY <1>1, <1>2, <1>3

(* The policy files implement a store of grants that only grow.             *)
THEOREM GrantsRefined == Spec => GrantsOnlyGrow
<1>1. Spec => [][Grants!Next]_Granted
  BY AlwaysTypeInv, GrantsStep, PTL DEF Spec
<1> QED BY <1>1, GrantsInit, PTL DEF Spec, GrantsOnlyGrow, Grants!Spec, Granted

-----------------------------------------------------------------------------
(* What a policy must hold for a flow to stay allowed.                     *)

\* The rule of the flow's own peer that allows it, or a DNS rule for its name.
OwnRule(r, f, ns) ==
    IF f.l7.kind = "dns"
    THEN \E p \in DNSPorts \cap DOMAIN r.ports : f.l7.name \in r.ports[p].dns
    ELSE /\ r.dir = f.dir /\ r.peer = BucketPeer(f, ns)
         /\ \/ f.l4 \in r.icmps
            \/ /\ f.l4 \in DOMAIN r.ports
               /\ f.l7.kind = "http" => \E h \in r.ports[f.l4].http : RuleMatches(h, Request(f))

Served(rules, f, ns) == \E r \in ToSet(rules) : OwnRule(r, f, ns)

\* The request list of the flow's peer and port, if there is one, admits the flow.
ListCovers(r, f, ns) ==
    (/\ f.l7.kind = "http" /\ r.dir = f.dir /\ r.peer = BucketPeer(f, ns)
     /\ f.l4 \in DOMAIN r.ports /\ r.ports[f.l4].http # {})
        => \E h \in r.ports[f.l4].http : RuleMatches(h, Request(f))

ListsCover(rules, f, ns) == \A r \in ToSet(rules) : ListCovers(r, f, ns)

\* A flow as the builder sees it keeps its peer and port; only L7 detail is taken off.
LEMMA SeenFacts ==
    ASSUME NEW f, IsFlow(f), NEW on, NEW g, g = Seen(f, on)
    PROVE  /\ g.dir = f.dir /\ g.target = f.target /\ g.peer = f.peer /\ g.l4 = f.l4
           /\ IsFlow(g) /\ PeerKey(g) = PeerKey(f) /\ (Trackable(g) <=> Trackable(f))
           /\ g.l7.kind = "dns" => g.dir = "egress"
<1> DEFINE usable == on /\ (f.l7.kind = "dns" => f.dir = "egress")
           x == IF usable THEN ExtractL7(f) ELSE [kind |-> "none"]
<1>1. g = [f EXCEPT !.l7 = x]
  BY DEF Seen
<1>2. /\ x = f.l7 \/ x = [kind |-> "none"]
      /\ x.kind = "dns" => f.dir = "egress"
  BY DEF ExtractL7
<1> HIDE DEF x
<1>3. f = [dir |-> f.dir, ns |-> f.ns, target |-> f.target, peer |-> f.peer, l4 |-> f.l4, l7 |-> f.l7]
  BY DEF IsFlow
<1>4. g = [dir |-> f.dir, ns |-> f.ns, target |-> f.target, peer |-> f.peer, l4 |-> f.l4, l7 |-> x]
  BY <1>1, <1>3
<1>5. /\ g.dir = f.dir /\ g.ns = f.ns /\ g.target = f.target /\ g.peer = f.peer /\ g.l4 = f.l4
      /\ g.l7 = x
  BY <1>4
<1>6. IsFlow(g)
  <2>1. /\ g.l7.kind \in {"none", "http", "dns"}
        /\ g.l7.kind = "http" => g.l7.path \in Seq(DOMAIN Class)
    BY <1>2, <1>5 DEF IsFlow
  <2>2. g = [dir |-> g.dir, ns |-> g.ns, target |-> g.target, peer |-> g.peer, l4 |-> g.l4, l7 |-> g.l7]
    BY <1>4, <1>5
  <2> QED BY <1>5, <2>1, <2>2 DEF IsFlow
<1> QED BY <1>2, <1>5, <1>6 DEF PeerKey, Trackable

\* A rule of the flow's own peer allows it.
LEMMA OwnRuleAllows ==
    ASSUME NEW f, IsFlow(f), ~Trackable(f), NEW r, NEW ns, OwnRule(r, f, ns)
    PROVE  RuleAllows(r, f, ns)
<1>1. CASE f.l7.kind = "dns"
  BY <1>1 DEF OwnRule, RuleAllows
<1>2. CASE f.l7.kind # "dns"
  <2>1. SelectorAllows(BucketPeer(f, ns), f.peer, ns)
    <3>1. SelectLabels(f.peer.labels) \subseteq f.peer.labels
      BY DEF SelectLabels, FilterK8sLabels
    <3> QED BY <3>1 DEF SelectorAllows, BucketPeer, BuildPeerSelector
  <2>2. f.l4 \in DOMAIN r.ports /\ (f.l7.kind = "http" => \E h \in r.ports[f.l4].http : RuleMatches(h, Request(f)))
          => L7Allows(r.ports[f.l4], f)
    BY <1>2 DEF L7Allows, IsFlow
  <2> QED BY <1>2, <2>1, <2>2 DEF OwnRule, RuleAllows
<1> QED BY <1>1, <1>2

\* A rule that grows keeps the flow, if the lists that may replace its own admit it.
LEMMA OwnRuleGrows ==
    ASSUME NEW f, NEW ns, NEW a, OwnRule(a, f, ns), NEW b, NEW incoming, NEW rep,
           Grows(a, b, incoming, rep), rep => \A q \in incoming : ListCovers(q, f, ns)
    PROVE  OwnRule(b, f, ns)
<1>1. CASE f.l7.kind = "dns"
  BY <1>1 DEF OwnRule, Grows
<1>2. CASE f.l7.kind # "dns"
  <2>1. b.dir = f.dir /\ b.peer = BucketPeer(f, ns)
    BY <1>2 DEF OwnRule, Grows, SamePeer
  <2>2. CASE f.l4 \in a.icmps
    BY <1>2, <2>1, <2>2 DEF OwnRule, Grows
  <2>3. CASE f.l4 \notin a.icmps
    <3>1. f.l4 \in DOMAIN a.ports /\ f.l4 \in DOMAIN b.ports
      BY <1>2, <2>3 DEF OwnRule, Grows
    <3>2. ASSUME f.l7.kind = "http"
          PROVE  \E h \in b.ports[f.l4].http : RuleMatches(h, Request(f))
      <4>1. PICK h \in a.ports[f.l4].http : RuleMatches(h, Request(f))
        BY <1>2, <2>3, <3>2 DEF OwnRule
      <4>2. HTTPGrows(a, b, f.l4, incoming, rep)
        BY <3>1 DEF Grows
      <4>3. CASE ~rep
        <5>1. a.ports[f.l4].http \subseteq b.ports[f.l4].http
          BY <4>2, <4>3, Zenon DEF HTTPGrows
        <5> QED BY <4>1, <5>1
      <4>4. CASE rep
        <5>1. \/ b.ports[f.l4].http = a.ports[f.l4].http
              \/ \E r \in incoming : /\ SamePeer(r, a) /\ f.l4 \in DOMAIN r.ports
                                     /\ r.ports[f.l4].http # {}
                                     /\ b.ports[f.l4].http = r.ports[f.l4].http
          <6>1. a.ports[f.l4].http # {}
            BY <4>1
          <6> QED BY <4>2, <4>4, <6>1, Zenon DEF HTTPGrows
        <5>2. CASE b.ports[f.l4].http = a.ports[f.l4].http
          BY <4>1, <5>2
        <5>3. ASSUME NEW r \in incoming, SamePeer(r, a), f.l4 \in DOMAIN r.ports,
                     r.ports[f.l4].http # {}, b.ports[f.l4].http = r.ports[f.l4].http
              PROVE  \E k \in b.ports[f.l4].http : RuleMatches(k, Request(f))
          <6>1. ListCovers(r, f, ns)
            BY <4>4, <5>3, Zenon
          <6>2. r.dir = f.dir /\ r.peer = BucketPeer(f, ns)
            BY <1>2, <5>3 DEF OwnRule, SamePeer
          <6> QED BY <3>2, <5>3, <6>1, <6>2 DEF ListCovers
        <5> QED BY <5>1, <5>2, <5>3
      <4> QED BY <4>3, <4>4
    <3> QED BY <1>2, <2>1, <3>1, <3>2 DEF OwnRule
  <2> QED BY <2>2, <2>3
<1> QED BY <1>1, <1>2

\* A merge keeps a flow that either policy serves.
LEMMA MergeServes ==
    ASSUME NEW old, IsPolicy(old), NEW new, IsPolicy(new), NEW rep, NEW f, NEW ns,
           rep => ListsCover(new.rules, f, ns),
           Served(old.rules, f, ns) \/ Served(new.rules, f, ns)
    PROVE  Served(MergePolicy(old, new, rep).rules, f, ns)
<1> DEFINE m == MergePolicy(old, new, rep).rules
           I == ToSet(new.rules)
<1>1. MergedUpTo(m, old.rules, new.rules, Len(new.rules), rep)
  BY MergePolicyFacts
<1> HIDE DEF m
<1>2. /\ IsSeq(old.rules) /\ IsSeq(new.rules) /\ IsSeq(m) /\ Len(old.rules) <= Len(m)
      /\ Len(old.rules) \in Nat /\ Len(m) \in Nat
  BY <1>1, SeqFacts DEF MergedUpTo, IsPolicy, IsRules
<1>3. rep => \A q \in I : ListCovers(q, f, ns)
  BY Zenon DEF ListsCover
<1>4. PICK a \in ToSet(old.rules) \cup I : OwnRule(a, f, ns)
  BY DEF Served
<1>5. PICK k \in 1..Len(m) : Grows(a, m[k], I, rep)
  <2>1. CASE a \in ToSet(old.rules)
    <3>1. PICK i \in 1..Len(old.rules) : old.rules[i] = a
      BY <1>2, <2>1, SeqFacts
    <3>2. Grows(old.rules[i], m[i], I, rep) /\ i \in 1..Len(m)
      BY <1>1, <1>2 DEF MergedUpTo
    <3> QED BY <3>1, <3>2
  <2>2. CASE a \in I
    <3>1. PICK i \in 1..Len(new.rules) : new.rules[i] = a
      BY <1>2, <2>2, SeqFacts
    <3>2. \E k \in 1..Len(m) : Grows(new.rules[i], m[k], I, rep)
      BY <1>1 DEF MergedUpTo
    <3> QED BY <3>1, <3>2
  <2> QED BY <2>1, <2>2
<1> HIDE DEF I
<1>6. OwnRule(m[k], f, ns)
  BY <1>3, <1>4, <1>5, OwnRuleGrows
<1>7. m[k] \in ToSet(m)
  BY <1>2, SeqFacts
<1> QED BY <1>6, <1>7 DEF Served, m

-----------------------------------------------------------------------------
(* The policy of a bucket serves the flows of the bucket.                  *)

IsRequest(q) == q = [method |-> q.method, path |-> q.path] /\ IsSeq(q.path)

Observed(f) == <<CollapseObsKey(f), Request(f)>>

\* The request of an HTTP flow.
LEMMA RequestFacts ==
    ASSUME NEW f, IsFlow(f), f.l7.kind = "http"
    PROVE  IsRequest(Request(f))
BY SeqIsSeq DEF IsFlow, Request, IsRequest

\* What a template of its group is: the request with classes at some positions.
LEMMA TemplateFacts ==
    ASSUME NEW group, NEW q, IsRequest(q), NEW t, t = Template(group, q)
    PROVE  /\ t = [method |-> q.method, path |-> t.path]
           /\ IsSeq(t.path) /\ Len(t.path) = Len(q.path) /\ DOMAIN t.path = DOMAIN q.path
           /\ \A i \in DOMAIN q.path :
                 t.path[i] = IF ClassAt(group, i) THEN Class[q.path[i]] ELSE q.path[i]
<1> DEFINE e(i) == IF ClassAt(group, i) THEN Class[q.path[i]] ELSE q.path[i]
           p == [i \in DOMAIN q.path |-> e(i)]
<1>1. t = [method |-> q.method, path |-> p]
  <2>1. q = [method |-> q.method, path |-> q.path]
    BY DEF IsRequest
  <2>2. t = [q EXCEPT !.path = p]
    BY DEF Template
  <2> HIDE DEF p
  <2> QED BY <2>1, <2>2
<1>2. Len(q.path) \in Nat /\ DOMAIN q.path = 1..Len(q.path)
  BY SeqFacts DEF IsRequest
<1>3. p = [i \in 1..Len(q.path) |-> p[i]] /\ \A i \in DOMAIN q.path : p[i] = e(i)
  BY <1>2
<1>4. IsSeq(p) /\ Len(p) = Len(q.path) /\ DOMAIN p = DOMAIN q.path
  BY <1>2, <1>3, FunctionIsSeq
<1> HIDE DEF p
<1>5. t.path = p
  BY <1>1
<1> QED BY <1>1, <1>3, <1>4, <1>5

\* A template without classes admits the request it is.
LEMMA RuleMatchesItself ==
    ASSUME NEW q
    PROVE  RuleMatches(q, q)
BY DEF RuleMatches

\* A template admits the requests it was made of.
LEMMA TemplateMatches ==
    ASSUME NEW group, NEW q, IsRequest(q), q \in group
    PROVE  RuleMatches(Template(group, q), q)
<1> DEFINE t == Template(group, q)
<1>1. /\ t = [method |-> q.method, path |-> t.path]
      /\ Len(t.path) = Len(q.path) /\ DOMAIN t.path = DOMAIN q.path
      /\ \A i \in DOMAIN q.path :
            t.path[i] = IF ClassAt(group, i) THEN Class[q.path[i]] ELSE q.path[i]
  BY TemplateFacts
<1> HIDE DEF t
<1>2. t.method = q.method
  BY <1>1
<1>3. ASSUME NEW i \in DOMAIN t.path
      PROVE  t.path[i] = q.path[i] \/ (t.path[i] \in Generalizable /\ t.path[i] = Class[q.path[i]])
  <2>1. CASE ClassAt(group, i)
    <3>1. Class[q.path[i]] \in Generalizable
      BY <2>1 DEF ClassAt
    <3> QED BY <1>1, <2>1, <3>1
  <2>2. CASE ~ClassAt(group, i)
    BY <1>1, <2>2
  <2> QED BY <2>1, <2>2
<1>4. RuleMatches(t, q)
  BY <1>1, <1>2, <1>3 DEF RuleMatches
<1> QED BY <1>4 DEF t

\* Every request that goes into the collapse is admitted by what comes out.
LEMMA CollapseCovers ==
    ASSUME NEW requests, NEW q \in requests, IsRequest(q), NEW min
    PROVE  \E h \in CollapseHTTPPaths(requests, min) : RuleMatches(h, q)
<1> DEFINE group == {p \in requests : p.method = q.method /\ Len(p.path) = Len(q.path)}
           pass == /\ Cardinality({p \in group : Template(group, p) = Template(group, q)}) >= min
                   /\ Len(Template(group, q).path) <= MaxTemplateSegments
           h == IF pass THEN Template(group, q) ELSE q
<1>1. q \in group
  OBVIOUS
<1>2. h \in CollapseSegmentCountGroup(group, min)
  <2> HIDE DEF group
  <2> QED BY <1>1, Zenon DEF CollapseSegmentCountGroup
<1>3. h \in CollapseHTTPPaths(requests, min)
  <2>1. CollapseSegmentCountGroup(group, min) \in
          {CollapseSegmentCountGroup({p \in requests : p.method = r.method /\ Len(p.path) = Len(r.path)},
                                     min) : r \in requests}
    OBVIOUS
  <2> HIDE DEF h, group
  <2> QED BY <1>2, <2>1 DEF CollapseHTTPPaths
<1>4. RuleMatches(h, q)
  <2> HIDE DEF group
  <2> QED BY <1>1, TemplateMatches, RuleMatchesItself
<1> QED BY <1>3, <1>4

\* Flows of the same peer, port and direction.
Alike(b, f) == \A x \in b.flows : x.dir = f.dir /\ PeerKey(x) = PeerKey(f)

\* A collapsed list admits every observed request of its peer and port.
LEMMA CollapsedListCovers ==
    ASSUME NEW b, NEW f, IsFlow(f), f.l7.kind = "http", Alike(b, f), NEW o, o.collapse,
           NEW obs, Observed(f) \in obs, HTTPRules(b, f.l4, o, obs) # {}
    PROVE  \E h \in HTTPRules(b, f.l4, o, obs) : RuleMatches(h, Request(f))
<1> DEFINE https == HTTPFlows(b, f.l4)
           c == CHOOSE x \in https : TRUE
           reqs == MergeL7PathSets(c, obs)
           min == ResolveMinFlowsPerL7Rule(o.minFlows)
<1>1. https # {}
  BY DEF HTTPRules
<1>2. c \in https
  BY <1>1
<1>3. HTTPRules(b, f.l4, o, obs) = CollapseHTTPPaths(reqs, min)
  BY <1>1 DEF HTTPRules
<1>4. CollapseObsKey(c) = CollapseObsKey(f)
  <2> HIDE DEF c
  <2> QED BY <1>2 DEF HTTPFlows, Alike, CollapseObsKey
<1> HIDE DEF c
<1>5. Request(f) \in reqs
  BY <1>4 DEF MergeL7PathSets, Observed
<1> HIDE DEF reqs, min
<1> QED BY <1>3, <1>5, RequestFacts, CollapseCovers

\* The list of a bucket's port admits the requests of the bucket, written as they are
\* or collapsed.
LEMMA OwnListCovers ==
    ASSUME NEW b, NEW f \in b.flows, IsFlow(f), f.l7.kind = "http", Alike(b, f),
           NEW o, NEW obs, o.collapse => Observed(f) \in obs, o.collapse \/ ~EncodedPath(f)
    PROVE  \E h \in HTTPRules(b, f.l4, o, obs) : RuleMatches(h, Request(f))
<1>1. f \in HTTPFlows(b, f.l4)
  BY DEF HTTPFlows
<1>2. CASE o.collapse
  <2> DEFINE c == CHOOSE x \in HTTPFlows(b, f.l4) : TRUE
             reqs == MergeL7PathSets(c, obs)
             min == ResolveMinFlowsPerL7Rule(o.minFlows)
  <2>1. HTTPRules(b, f.l4, o, obs) = CollapseHTTPPaths(reqs, min)
    BY <1>1, <1>2 DEF HTTPRules
  <2>2. c \in HTTPFlows(b, f.l4)
    BY <1>1
  <2> HIDE DEF c
  <2>3. CollapseObsKey(c) = CollapseObsKey(f)
    BY <2>2 DEF HTTPFlows, Alike, CollapseObsKey
  <2>4. Request(f) \in reqs
    BY <1>2, <2>3 DEF MergeL7PathSets, Observed
  <2> HIDE DEF reqs, min
  <2> QED BY <2>1, <2>4, RequestFacts, CollapseCovers
<1>3. CASE ~o.collapse
  <2>1. HTTPRules(b, f.l4, o, obs) = {AnchorPath(Request(x)) : x \in HTTPFlows(b, f.l4)}
    BY <1>3 DEF HTTPRules
  <2>2. AnchorPath(Request(f)) = Request(f)
    BY <1>3 DEF EncodedPath
  <2> QED BY <1>1, <2>1, <2>2, RuleMatchesItself
<1> QED BY <1>2, <1>3

\* Unshared flows of one bucket have one selector.
LEMMA SameSelector ==
    ASSUME NEW f, IsFlow(f), ~Trackable(f), NEW g, IsFlow(g), ~Trackable(g), NEW ns,
           PeerKey(f) = PeerKey(g), f.peer.kind = "endpoint" => g.peer.ns = f.peer.ns
    PROVE  BucketPeer(g, ns) = BucketPeer(f, ns)
BY DEF IsFlow, Trackable, PeerKey, BucketPeer, BuildPeerSelector

\* The flows of the aggregation bucket, as BuildPolicy sees them.
SeenBy(fs, flows, o) ==
    /\ DOMAIN fs = DOMAIN flows
    /\ \A j \in DOMAIN flows : /\ IsFlow(fs[j]) /\ fs[j] = Seen(flows[j], o.l7)
                               /\ fs[j].l7.kind = "dns" => fs[j].dir = "egress"

\* The builder sees every flow of a bucket.
LEMMA SeenFlowsFacts ==
    ASSUME NEW flows, IsSeq(flows), \A g \in ToSet(flows) : IsFlow(g), NEW o
    PROVE  SeenBy(SeenFlows(flows, o), flows, o)
<1>1. \A j \in DOMAIN flows : IsFlow(flows[j])
  BY SeqFacts
<1>2. /\ DOMAIN SeenFlows(flows, o) = DOMAIN flows
      /\ \A j \in DOMAIN flows : SeenFlows(flows, o)[j] = Seen(flows[j], o.l7)
  BY DEF SeenFlows
<1>3. ASSUME NEW j \in DOMAIN flows
      PROVE  /\ IsFlow(Seen(flows[j], o.l7))
             /\ Seen(flows[j], o.l7).l7.kind = "dns" => Seen(flows[j], o.l7).dir = "egress"
  <2> DEFINE f == flows[j]
             on == o.l7
             g == Seen(f, on)
  <2>1. IsFlow(f) /\ g = Seen(f, on)
    BY <1>1
  <2> HIDE DEF f, g, on
  <2>2. IsFlow(g) /\ (g.l7.kind = "dns" => g.dir = "egress")
    BY <2>1, SeenFacts
  <2> QED BY <2>2 DEF f, g, on
<1> QED BY <1>2, <1>3 DEF SeenBy

\* The bucket a flow is in was created by the first flow with its key (groupFlows).
LEMMA BucketOf ==
    ASSUME NEW fs, NEW n \in Nat, DOMAIN fs = 1..n, NEW j \in 1..n, ~Trackable(fs[j])
    PROVE  \E i \in 1..n : /\ Opens(fs, fs[j].dir, i) /\ fs[j] \in Bucket(fs, i).flows
                           /\ fs[i].dir = fs[j].dir /\ PeerKey(fs[i]) = PeerKey(fs[j])
                           /\ ~Trackable(fs[i])
<1> DEFINE f == fs[j]
           S == {k \in 1..n : SameBucket(fs[k], f)}
<1>1. j \in S /\ S \in SUBSET Nat
  BY DEF SameBucket
<1>2. PICK i \in S : \A k \in S : i <= k
  BY <1>1, LeastElement
<1>3. i \in 1..n /\ fs[i].dir = f.dir /\ PeerKey(fs[i]) = PeerKey(f) /\ ~Trackable(fs[i])
  BY <1>2 DEF SameBucket
<1>4. ASSUME NEW k \in 1..(i - 1) PROVE ~SameBucket(fs[k], fs[i])
  <2>1. k \in 1..n /\ ~(i <= k)
    BY <1>3
  <2>2. k \notin S
    BY <1>2, <2>1
  <2> QED BY <2>1, <2>2, <1>3 DEF SameBucket
<1>5. Opens(fs, f.dir, i)
  BY <1>3, <1>4 DEF Opens
<1>6. f \in Bucket(fs, i).flows
  <2>1. SameBucket(fs[j], fs[i])
    BY <1>3 DEF SameBucket
  <2> QED BY <2>1 DEF Bucket
<1> QED BY <1>3, <1>5, <1>6

\* A flow is like the bucket it opens.
LEMMA BucketAlike ==
    ASSUME NEW fs, NEW i \in DOMAIN fs, NEW f, f.dir = fs[i].dir, PeerKey(f) = PeerKey(fs[i])
    PROVE  Alike(Bucket(fs, i), f) /\ Bucket(fs, i).first = fs[i]
BY DEF Alike, Bucket, SameBucket

\* Flows that would share the bucket of f come from its own peer.
Unshared(flows, f) ==
    f.peer.kind = "endpoint" =>
        \A x \in ToSet(flows) : (~Trackable(x) /\ x.dir = f.dir /\ PeerKey(x) = PeerKey(f))
                                   => x.peer.ns = f.peer.ns

\* BuildPolicy: every usable flow of a flush is admitted by a rule of the policy built from it.
LEMMA BuildServes ==
    ASSUME NEW flows, IsSeq(flows), \A x \in ToSet(flows) : IsFlow(x), NEW ns, NEW o, NEW obs,
           NEW g \in ToSet(flows), ~Trackable(g), NEW f, f = Seen(g, o.l7),
           o.collapse /\ f.l7.kind = "http" => Observed(f) \in obs,
           Unshared(flows, f), o.collapse \/ ~EncodedPath(f)
    PROVE  Served(BuildPolicy(ns, flows, o, obs).rules, f, ns)
<1> DEFINE fs == SeenFlows(flows, o)
           n == Len(flows)
<1>1. SeenBy(fs, flows, o) /\ n \in Nat /\ DOMAIN flows = 1..n
  BY SeenFlowsFacts, SeqFacts
<1>2. PICK j \in 1..n : flows[j] = g
  BY SeqFacts
<1>3. \A r : InBuiltPolicy(r, flows, ns, o, obs) => r \in ToSet(BuildPolicy(ns, flows, o, obs).rules)
  BY BuildPolicyFacts
<1>4. /\ DOMAIN fs = 1..n /\ fs[j] = f /\ IsFlow(f) /\ (f.l7.kind = "dns" => f.dir = "egress")
      /\ \A k \in 1..n : IsFlow(fs[k]) /\ fs[k] = Seen(flows[k], o.l7)
  BY <1>1, <1>2 DEF SeenBy
<1>5. /\ f.dir = g.dir /\ f.peer = g.peer /\ (Trackable(f) <=> Trackable(g))
      /\ PeerKey(f) = PeerKey(g)
  <2>1. IsFlow(g)
    OBVIOUS
  <2> DEFINE on == o.l7
  <2>2. f = Seen(g, on)
    OBVIOUS
  <2> HIDE DEF on
  <2> QED BY <2>1, <2>2, SeenFacts
<1>6. \A r : (\E i \in 1..n : /\ Opens(fs, f.dir, i)
                              /\ \/ r \in ToSet(RulesFrom(Bucket(fs, i), ns, o, obs))
                                 \/ f.dir = "egress" /\ r \in ToSet(FqdnEgressRulesFrom(Bucket(fs, i))))
             => r \in ToSet(BuildPolicy(ns, flows, o, obs).rules)
  <2>1. f.dir \in {"ingress", "egress"}
    BY <1>4 DEF IsFlow
  <2> QED BY <1>3, <1>4, <2>1, Zenon DEF InBuiltPolicy, InBuiltRules
<1> HIDE DEF fs
<1>7. PICK i \in 1..n : /\ Opens(fs, f.dir, i) /\ f \in Bucket(fs, i).flows
                        /\ fs[i].dir = f.dir /\ PeerKey(fs[i]) = PeerKey(f)
                        /\ ~Trackable(fs[i])
  <2>1. ~Trackable(fs[j])
    BY <1>4, <1>5
  <2>2. \E i \in 1..n : /\ Opens(fs, fs[j].dir, i) /\ fs[j] \in Bucket(fs, i).flows
                         /\ fs[i].dir = fs[j].dir /\ PeerKey(fs[i]) = PeerKey(fs[j])
                         /\ ~Trackable(fs[i])
    BY <1>1, <1>2, <1>4, <2>1, BucketOf
  <2> QED BY <1>4, <2>2
<1> DEFINE b == Bucket(fs, i)
<1>8. b.first = fs[i] /\ Alike(b, f)
  BY <1>4, <1>7, BucketAlike
<1>9. BucketPeer(fs[i], ns) = BucketPeer(f, ns)
  <2>1. /\ fs[i].peer = flows[i].peer /\ fs[i].dir = flows[i].dir
        /\ PeerKey(fs[i]) = PeerKey(flows[i]) /\ (Trackable(fs[i]) <=> Trackable(flows[i]))
        /\ flows[i] \in ToSet(flows)
    <3> DEFINE x == flows[i]
               y == fs[i]
               on == o.l7
    <3>1. x \in ToSet(flows) /\ IsFlow(x)
      BY <1>1, SeqFacts
    <3>2. y = Seen(x, on)
      BY <1>4
    <3> HIDE DEF x, y, on
    <3>3. y.peer = x.peer /\ y.dir = x.dir /\ PeerKey(y) = PeerKey(x) /\ (Trackable(y) <=> Trackable(x))
      BY <3>1, <3>2, SeenFacts
    <3> QED BY <3>1, <3>3 DEF x, y
  <2>2. f.peer.kind = "endpoint" => fs[i].peer.ns = f.peer.ns
    BY <1>7, <2>1 DEF Unshared
  <2> QED BY <1>4, <1>5, <1>7, <2>2, SameSelector
<1> HIDE DEF b
<1>10. CASE f.l7.kind = "dns"
  <2> DEFINE r == DNSRule(NoPeer, DNSNames(b), DNSNames(b))
  <2>1. f.l7.name \in DNSNames(b)
    BY <1>7, <1>10 DEF DNSNames, b
  <2>2. r \in ToSet(FqdnEgressRulesFrom(b))
    BY <2>1, FqdnRulesFacts
  <2>3. r \in ToSet(BuildPolicy(ns, flows, o, obs).rules)
    BY <1>4, <1>6, <1>7, <1>10, <2>2 DEF b
  <2>4. OwnRule(r, f, ns)
    <3>1. DOMAIN r.ports = DNSPorts /\ \A p \in DNSPorts : r.ports[p].dns = DNSNames(b)
      BY DEF DNSRule
    <3>2. [proto |-> "UDP", port |-> 53] \in DNSPorts
      BY DEF DNSPorts
    <3> QED BY <1>10, <2>1, <3>1, <3>2 DEF OwnRule
  <2> QED BY <2>3, <2>4 DEF Served
<1>11. CASE f.l7.kind # "dns"
  <2>1. f.l4 \in L4s(b)
    BY <1>7, <1>11 DEF L4s, b
  <2>2. CASE IsICMP(f.l4)
    <3> DEFINE r == BucketRule(b, ns, o, obs, {}, ICMPs(b))
    <3>1. f.l4 \in ICMPs(b)
      BY <2>1, <2>2 DEF ICMPs
    <3>2. r \in ToSet(RulesFrom(b, ns, o, obs))
      BY <3>1, RulesFromFacts
    <3>3. r \in ToSet(BuildPolicy(ns, flows, o, obs).rules)
      BY <1>6, <1>7, <3>2 DEF b
    <3>4. OwnRule(r, f, ns)
      BY <1>7, <1>8, <1>9, <1>11, <3>1 DEF BucketRule, OwnRule
    <3> QED BY <3>3, <3>4 DEF Served
  <2>3. CASE ~IsICMP(f.l4)
    <3> DEFINE r == BucketRule(b, ns, o, obs, Ports(b), {})
    <3>1. f.l4 \in Ports(b)
      BY <2>1, <2>3 DEF Ports
    <3>2. r \in ToSet(RulesFrom(b, ns, o, obs))
      BY <3>1, RulesFromFacts
    <3>3. r \in ToSet(BuildPolicy(ns, flows, o, obs).rules)
      BY <1>6, <1>7, <3>2 DEF b
    <3>4. f.l7.kind = "http" => \E h \in HTTPRules(b, f.l4, o, obs) : RuleMatches(h, Request(f))
      BY <1>4, <1>7, <1>8, OwnListCovers DEF b
    <3>5. f.l4 \in DOMAIN r.ports /\ r.ports[f.l4].http = HTTPRules(b, f.l4, o, obs)
      BY <3>1 DEF BucketRule, PortRulesFor
    <3>6. OwnRule(r, f, ns)
      <4>1. r.dir = f.dir /\ r.peer = BucketPeer(f, ns)
        BY <1>7, <1>8, <1>9 DEF BucketRule
      <4> HIDE DEF r
      <4> QED BY <1>11, <3>4, <3>5, <4>1 DEF OwnRule
    <3> QED BY <3>3, <3>6 DEF Served
  <2> QED BY <2>2, <2>3
<1> QED BY <1>10, <1>11

\* The collapsed lists of a policy admit every request observed so far.
LEMMA BuiltListsCover ==
    ASSUME NEW flows, IsSeq(flows), NEW ns, NEW o, o.collapse, NEW obs,
           NEW f, IsFlow(f), f.l7.kind = "http" => Observed(f) \in obs
    PROVE  ListsCover(BuildPolicy(ns, flows, o, obs).rules, f, ns)
<1> SUFFICES ASSUME NEW r \in ToSet(BuildPolicy(ns, flows, o, obs).rules),
                    f.l7.kind = "http", r.dir = f.dir, r.peer = BucketPeer(f, ns),
                    f.l4 \in DOMAIN r.ports, r.ports[f.l4].http # {}
             PROVE  \E h \in r.ports[f.l4].http : RuleMatches(h, Request(f))
  BY DEF ListsCover, ListCovers
<1> DEFINE fs == SeenFlows(flows, o)
<1>1. InBuiltPolicy(r, flows, ns, o, obs)
  <2>1. ASSUME NEW p, NEW fq, NEW names, r = DNSRule(p, fq, names) PROVE FALSE
    BY <2>1 DEF DNSRule
  <2> QED BY <2>1, BuildPolicyFacts
<1>2. PICK dir \in {"ingress", "egress"} : InBuiltRules(r, fs, dir, ns, o, obs)
  BY <1>1 DEF InBuiltPolicy
<1> HIDE DEF fs
<1>3. PICK i \in DOMAIN fs : r \in ToSet(RulesFrom(Bucket(fs, i), ns, o, obs))
  <2>1. ASSUME NEW i \in DOMAIN fs, r \in ToSet(FqdnEgressRulesFrom(Bucket(fs, i))) PROVE FALSE
    BY <2>1, FqdnRulesFacts DEF DNSRule
  <2> QED BY <1>2, <2>1 DEF InBuiltRules
<1> DEFINE b == Bucket(fs, i)
<1>4. PICK ports, icmps : r = BucketRule(b, ns, o, obs, ports, icmps)
  <2> HIDE DEF b
  <2> QED BY <1>3, RulesFromFacts DEF b
<1>5. fs[i].dir = f.dir /\ BucketPeer(fs[i], ns) = BucketPeer(f, ns)
  BY <1>4 DEF BucketRule, Bucket
<1>6. PeerKey(fs[i]) = PeerKey(f)
  BY <1>5, SelectorKey
<1>7. Alike(b, f)
  BY <1>5, <1>6, BucketAlike
<1> HIDE DEF b
<1>8. r.ports[f.l4].http = HTTPRules(b, f.l4, o, obs)
  BY <1>4 DEF BucketRule, PortRulesFor
<1> QED BY <1>7, <1>8, CollapsedListCovers

-----------------------------------------------------------------------------
(* The inductive invariant of the coverage: what each event, file and       *)
(* history owes to the flows that went through it.                         *)

Exempt(w, f) == SharedBucket(w, f) \/ EncodedPath(f)

\* The policy selects pods of the workload.
Selects(p, w) == \E g \in Flows : KeyFromFlow(g) = w /\ p.subject = SelectLabels(g.target)

\* The flow is settled or in one of the first n events of the queue.
Past(f, w, n) ==
    f \in settled[w] \/ \E j \in 1..n : queue[j].wl = w /\ f \in queue[j].flows

Flowing ==
    \A w \in Workloads : /\ \A f \in ever[w] : IsFlow(f) /\ ~Trackable(f)
                         /\ \A f \in ToSet(bucket[w]) : KeyFromFlow(f) = w

Subjects ==
    /\ \A ev \in ToSet(queue) : Selects(ev.policy, ev.wl)
    /\ \A w \in Workloads : file[w] # NoPolicy => Selects(file[w], w)

\* With the collapse on, every request is in the store, and a queued list admits all
\* the requests of its port that were settled or queued before.
Listing ==
    /\ opts.collapse => \A w \in Workloads : \A f \in ever[w] :
          (f.l7.kind = "http" /\ Past(f, w, Len(queue))) => Observed(f) \in collected \cup retained
    /\ \A i \in 1..Len(queue) :
          /\ queue[i].replace <=> opts.l7 /\ opts.collapse
          /\ queue[i].replace => \A f \in ever[queue[i].wl] : Past(f, queue[i].wl, i) =>
                                    ListsCover(queue[i].policy.rules, f, queue[i].wl.ns)

\* Every flow of an event is served by its policy, a settled one by the file and a
\* deployed one by the cluster's policy.
Serving ==
    /\ \A ev \in ToSet(queue) : \A f \in ev.flows :
          Exempt(ev.wl, f) \/ Served(ev.policy.rules, f, ev.wl.ns)
    /\ \A w \in Workloads :
          /\ \A f \in settled[w] : Exempt(w, f) \/ Served(file[w].rules, f, w.ns)
          /\ \A f \in deployed[w] :
                /\ cluster[w.name] # NoPolicy /\ ClusterPolicy(w) # NoPolicy
                /\ Selects(ClusterPolicy(w), w)
                /\ Exempt(w, f) \/ Served(ClusterPolicy(w).rules, f, w.ns)

\* The rules last written are in the file, perhaps merged with others.
Remembered ==
    \A w \in Workloads : (~opts.dry /\ written[w] # NoPolicy) =>
        \A q \in ToSet(written[w].rules) : \E r \in ToSet(file[w].rules) :
            Grows(q, r, ToSet(written[w].rules), opts.l7 /\ opts.collapse)

Coverage == Flowing /\ Subjects /\ Listing /\ Serving /\ Remembered

-----------------------------------------------------------------------------
(* The kinds of steps.                                                     *)

\* A step of the aggregator's window only: Observe, Flush, or none.
Idle ==
    /\ UNCHANGED <<collected, retained, queue, writer, run, ever>>
    /\ \/ bucket' = bucket
       \/ \E f \in Flows : bucket' = [w \in Workloads |->
                               IF w = KeyFromFlow(f) THEN Append(bucket[w], f) ELSE bucket[w]]

\* The writer takes an event and leaves the files, settling the event or not.
Skip ==
    LET ev == Head(queue)
    IN  /\ Take /\ UNCHANGED file
        /\ \/ SkipForClusterMatch
           \/ SkipForCrossFlushMatch
           \/ opts.dry /\ UNCHANGED <<settled, deployed>>
           \/ UNCHANGED writer

\* Every step is one of five kinds.
LEMMA StepKinds ==
    ASSUME [Next]_vars
    PROVE  Idle \/ (\E w \in Workloads : BuildBucket(w)) \/ Skip \/ WriteOk \/ Restart
<1>1. ASSUME NEW f \in Flows, Observe(f) PROVE Idle
  BY <1>1 DEF Observe, Idle
<1>2. CASE Flush
  BY <1>2 DEF Flush, Idle
<1>3. CASE SkipForClusterMatch
  BY <1>3 DEF SkipForClusterMatch, Skip
<1>4. CASE SkipForCrossFlushMatch
  BY <1>4 DEF SkipForCrossFlushMatch, Skip
<1>5. CASE DryRunEmit
  BY <1>5 DEF DryRunEmit, Skip
<1>6. CASE WriteFails
  BY <1>6 DEF WriteFails, Skip, writer
<1>7. CASE UNCHANGED vars
  BY <1>7 DEF vars, aggregator, Idle
<1> QED BY <1>1, <1>2, <1>3, <1>4, <1>5, <1>6, <1>7 DEF Next

\* What an event asks for comes from the bucket.
LEMMA DemandsFacts ==
    ASSUME TypeInv, NEW w \in Workloads
    PROVE  /\ \A g \in ToSet(bucket[w]) : IsFlow(g)
           /\ \A f \in Demands(w) :
                 /\ IsFlow(f) /\ ~Trackable(f)
                 /\ \E g \in ToSet(bucket[w]) : ~Trackable(g) /\ f = Seen(g, opts.l7)
           /\ \A g \in ToSet(bucket[w]) : ~Trackable(g) =>
                 /\ Seen(g, opts.l7) \in Demands(w)
                 /\ Seen(g, opts.l7).dir = g.dir /\ Seen(g, opts.l7).peer = g.peer
                 /\ PeerKey(Seen(g, opts.l7)) = PeerKey(g)
<1>1. \A g \in ToSet(bucket[w]) : IsFlow(g)
  BY FlowsAssumption DEF TypeInv, Buffers
<1> DEFINE on == opts.l7
<1>2. \A f : f \in Demands(w) <=> \E g \in ToSet(bucket[w]) : ~Trackable(g) /\ f = Seen(g, on)
  BY DEF Demands
<1> HIDE DEF on
<1>3. ASSUME NEW g \in ToSet(bucket[w]), NEW f, f = Seen(g, on)
      PROVE  /\ IsFlow(f) /\ (Trackable(f) <=> Trackable(g))
             /\ f.dir = g.dir /\ f.peer = g.peer /\ PeerKey(f) = PeerKey(g)
  BY <1>1, <1>3, SeenFacts
<1>4. ASSUME NEW f \in Demands(w)
      PROVE  /\ IsFlow(f) /\ ~Trackable(f)
             /\ \E g \in ToSet(bucket[w]) : ~Trackable(g) /\ f = Seen(g, on)
  BY <1>2, <1>3
<1>5. ASSUME NEW g \in ToSet(bucket[w]), ~Trackable(g)
      PROVE  /\ Seen(g, on) \in Demands(w)
             /\ Seen(g, on).dir = g.dir /\ Seen(g, on).peer = g.peer
             /\ PeerKey(Seen(g, on)) = PeerKey(g)
  BY <1>2, <1>3, <1>5
<1> QED BY <1>1, <1>4, <1>5 DEF on

\* Without flows there is nothing to cover.
LEMMA InitCoverage == Init => Coverage
<1> SUFFICES ASSUME Init PROVE Coverage
  OBVIOUS
<1>1. /\ IsSeq(queue) /\ ToSet(queue) = {} /\ Len(queue) = 0
      /\ \A w \in Workloads : /\ settled[w] = {} /\ deployed[w] = {} /\ ever[w] = {}
                              /\ ToSet(bucket[w]) = {}
                              /\ file[w] = NoPolicy /\ written[w] = NoPolicy
  BY EmptyIsSeq DEF Init
<1>2. \A w \in Workloads : \A f : ~Past(f, w, 0)
  BY <1>1 DEF Past
<1>3. Flowing /\ Subjects /\ Remembered
  BY <1>1 DEF Flowing, Subjects, Remembered
<1>4. Listing
  BY <1>1, <1>2 DEF Listing
<1>5. Serving
  BY <1>1 DEF Serving
<1> QED BY <1>3, <1>4, <1>5 DEF Coverage

\* The aggregator keeps trackable flows out, and every flow in the bucket of its workload.
LEMMA NextFlowing ==
    ASSUME TypeInv, Flowing, [Next]_vars
    PROVE  Flowing'
<1>1. CASE Idle
  <2>1. ever' = ever
    BY <1>1 DEF Idle
  <2>2. ASSUME NEW w \in Workloads, NEW g \in ToSet(bucket'[w]) PROVE KeyFromFlow(g) = w
    <3>1. CASE bucket' = bucket
      BY <3>1 DEF Flowing
    <3>2. ASSUME NEW f \in Flows, bucket' = [v \in Workloads |->
                   IF v = KeyFromFlow(f) THEN Append(bucket[v], f) ELSE bucket[v]]
          PROVE  KeyFromFlow(g) = w
      <4>1. CASE w = KeyFromFlow(f)
        <5>1. bucket'[w] = Append(bucket[w], f) /\ IsSeq(bucket[w])
          BY <3>2, <4>1 DEF TypeInv, Buffers
        <5>2. ToSet(bucket'[w]) = ToSet(bucket[w]) \cup {f}
          BY <5>1, AppendIsSeq
        <5> QED BY <4>1, <5>2 DEF Flowing
      <4>2. CASE w # KeyFromFlow(f)
        BY <3>2, <4>2 DEF Flowing
      <4> QED BY <4>1, <4>2
    <3> QED BY <1>1, <3>1, <3>2 DEF Idle
  <2> QED BY <2>1, <2>2 DEF Flowing
<1>2. ASSUME NEW w \in Workloads, BuildBucket(w) PROVE Flowing'
  <2>1. /\ bucket' = [bucket EXCEPT ![w] = <<>>]
        /\ ever' = [ever EXCEPT ![w] = @ \cup Demands(w)]
    BY <1>2 DEF BuildBucket
  <2>2. \A v \in Workloads : /\ ever'[v] \subseteq ever[v] \cup (IF v = w THEN Demands(w) ELSE {})
                             /\ ToSet(bucket'[v]) \subseteq ToSet(bucket[v])
    BY <2>1, EmptyIsSeq DEF TypeInv, Scalars, Buffers, Indexed
  <2>3. \A f \in Demands(w) : IsFlow(f) /\ ~Trackable(f)
    BY DemandsFacts
  <2> QED BY <2>2, <2>3 DEF Flowing
<1>3. CASE Skip \/ WriteOk
  BY <1>3 DEF Skip, WriteOk, Take, aggregator, Flowing
<1>4. CASE Restart
  BY <1>4, EmptyIsSeq DEF Restart, Flowing
<1> QED BY <1>1, <1>2, <1>3, <1>4, StepKinds

\* Every step keeps a policy's endpoint selector that of its workload.
LEMMA NextSubjects ==
    ASSUME TypeInv, Flowing, Subjects, [Next]_vars
    PROVE  Subjects'
<1>1. CASE Idle
  BY <1>1 DEF Idle, writer, Subjects
<1>2. ASSUME NEW w \in Workloads, BuildBucket(w) PROVE Subjects'
  <2> DEFINE p == BuildPolicy(w.ns, bucket[w], opts, retained \cup (collected \cup Observations(w)))
             ev == [wl |-> w, flows |-> Demands(w), replace |-> opts.l7 /\ opts.collapse, policy |-> p]
  <2>1. queue' = Append(queue, ev) /\ w \in flushing /\ UNCHANGED writer
    BY <1>2 DEF BuildBucket
  <2>2. IsSeq(bucket[w]) /\ bucket[w] # <<>> /\ ToSet(bucket[w]) \subseteq Flows
    BY <2>1 DEF TypeInv, Buffers
  <2>3. p.subject = SelectLabels(Head(bucket[w]).target) /\ Head(bucket[w]) \in ToSet(bucket[w])
    BY <2>2, BuildPolicyFacts, TailIsSeq
  <2>4. Selects(p, w)
    BY <2>2, <2>3 DEF Flowing, Selects
  <2>5. ev.policy = p /\ ev.wl = w
    OBVIOUS
  <2> HIDE DEF ev, p
  <2>6. ToSet(queue') = ToSet(queue) \cup {ev}
    BY <2>1, AppendIsSeq DEF TypeInv, Queued
  <2> QED BY <2>1, <2>4, <2>5, <2>6 DEF Subjects, writer, Selects
<1>3. ASSUME Take PROVE \A ev \in ToSet(queue') : Selects(ev.policy, ev.wl)
  <2>1. ToSet(queue') \subseteq ToSet(queue)
    BY <1>3, TailIsSeq DEF Take, TypeInv, Queued
  <2> QED BY <2>1 DEF Subjects
<1>4. CASE Skip
  BY <1>3, <1>4 DEF Skip, Subjects, Selects
<1>5. CASE WriteOk
  <2> DEFINE ev == Head(queue)
             w == ev.wl
             old == file[w]
             p == IF old = NoPolicy THEN ev.policy ELSE MergePolicy(old, ev.policy, ev.replace)
  <2>1. Take /\ file' = [file EXCEPT ![w] = p]
    BY <1>5 DEF WriteOk
  <2>2. w \in Workloads /\ ev.policy # NoPolicy /\ Proper(ev.policy) /\ Proper(old)
    BY <2>1, TakeFacts DEF Event, TypeInv, Filed
  <2>3. ev \in ToSet(queue)
    BY <2>1, TailIsSeq DEF Take, TypeInv, Queued
  <2>4. Selects(p, w)
    <3>1. CASE old = NoPolicy
      BY <2>3, <3>1 DEF Subjects
    <3>2. CASE old # NoPolicy
      <4>1. p.subject = old.subject
        BY <2>2, <3>2, MergePolicyFacts DEF Proper
      <4> QED BY <2>2, <3>2, <4>1 DEF Subjects, Selects
    <3> QED BY <3>1, <3>2
  <2> HIDE DEF p, ev, w
  <2>5. \A v \in Workloads : file'[v] = IF v = w THEN p ELSE file[v]
    BY <2>1 DEF TypeInv, Filed, Indexed
  <2> QED BY <1>3, <2>1, <2>4, <2>5 DEF Subjects, Selects
<1>6. CASE Restart
  BY <1>6, EmptyIsSeq DEF Restart, Subjects, Selects
<1> QED BY <1>1, <1>2, <1>4, <1>5, <1>6, StepKinds

\* A step of the writer: the events move up, the settled flows are those of the first.
Handled ==
    LET ev == Head(queue)
    IN  /\ Take
        /\ \A w \in Workloads :
              settled'[w] \subseteq settled[w] \cup (IF w = ev.wl THEN ev.flows ELSE {})

\* Skipping or writing an event settles the flows of that event and no others.
LEMMA StepsHandle ==
    ASSUME TypeInv, Skip \/ WriteOk
    PROVE  Handled
<1> DEFINE ev == Head(queue)
<1>1. Take
  BY DEF Skip, WriteOk
<1>2. \/ settled' = settled
      \/ settled' = [settled EXCEPT ![ev.wl] = @ \cup ev.flows]
  BY DEF Skip, WriteOk, SkipForClusterMatch, SkipForCrossFlushMatch, Settle, writer
<1> HIDE DEF ev
<1>3. \A w \in Workloads :
         settled'[w] \subseteq settled[w] \cup (IF w = ev.wl THEN ev.flows ELSE {})
  BY <1>2 DEF TypeInv, Filed, Indexed
<1> QED BY <1>1, <1>3 DEF Handled, ev

\* What the queue's head settles was past already.
LEMMA HandledPast ==
    ASSUME TypeInv, Handled
    PROVE  /\ Len(queue) \in Nat /\ Len(queue) >= 1 /\ Len(queue') = Len(queue) - 1
           /\ Head(queue) = queue[1]
           /\ \A i \in 1..Len(queue') : i + 1 \in 1..Len(queue) /\ queue'[i] = queue[i + 1]
           /\ \A w \in Workloads : \A n \in 0..Len(queue') : \A f :
                 Past(f, w, n)' => Past(f, w, n + 1)
<1>1. /\ Len(queue) \in Nat /\ Len(queue) >= 1 /\ Len(queue') = Len(queue) - 1
      /\ Head(queue) = queue[1]
      /\ \A i \in 1..Len(queue') : queue'[i] = queue[i + 1]
  BY TailIsSeq DEF TypeInv, Queued, Handled, Take
<1>2. \A i \in 1..Len(queue') : i + 1 \in 1..Len(queue)
  BY <1>1
<1>3. ASSUME NEW w \in Workloads, NEW n \in 0..Len(queue'), NEW f, Past(f, w, n)'
      PROVE  Past(f, w, n + 1)
  <2>0. n + 1 \in Nat /\ 1 \in 1..(n + 1)
    BY <1>1
  <2>1. CASE f \in settled'[w]
    <3>1. f \in settled[w] \/ (w = queue[1].wl /\ f \in queue[1].flows)
      BY <1>1, <2>1 DEF Handled
    <3> QED BY <2>0, <3>1 DEF Past
  <2>2. ASSUME NEW j \in 1..n, queue'[j].wl = w, f \in queue'[j].flows
        PROVE  Past(f, w, n + 1)
    <3>1. queue'[j] = queue[j + 1] /\ j + 1 \in 1..(n + 1)
      BY <1>1
    <3> QED BY <2>2, <3>1 DEF Past
  <2> QED BY <1>3, <2>1, <2>2 DEF Past
<1> QED BY <1>1, <1>2, <1>3

\* Every step keeps the requests of a port in the lists queued after them.
LEMMA NextListing ==
    ASSUME TypeInv, Flowing, Listing, [Next]_vars
    PROVE  Listing'
<1>1. CASE Idle
  BY <1>1 DEF Idle, run, writer, Listing, Past
<1>2. ASSUME NEW w \in Workloads, BuildBucket(w) PROVE Listing'
  <2> DEFINE new == Observations(w)
             obs == retained \cup (collected \cup new)
             p == BuildPolicy(w.ns, bucket[w], opts, obs)
             ev == [wl |-> w, flows |-> Demands(w), replace |-> opts.l7 /\ opts.collapse, policy |-> p]
  <2>0. PICK n \in Nat : n = Len(queue)
    BY SeqFacts DEF TypeInv, Queued
  <2>1. /\ queue' = Append(queue, ev) /\ UNCHANGED <<writer, run>>
        /\ collected' \cup retained' = obs
        /\ ever' = [ever EXCEPT ![w] = @ \cup Demands(w)]
    BY <1>2 DEF BuildBucket, Absorb
  <2>2. settled' = settled /\ opts' = opts
    BY <2>1 DEF writer, run
  <2>3. Len(queue') = n + 1 /\ queue'[n + 1] = ev /\ \A i \in 1..n : queue'[i] = queue[i]
    BY <2>0, <2>1, AppendIsSeq, SeqFacts DEF TypeInv, Queued
  <2>4. /\ ev.wl = w /\ ev.flows = Demands(w) /\ ev.policy = p
        /\ ev.replace <=> opts.l7 /\ opts.collapse
    OBVIOUS
  <2>5. \A f \in Demands(w) : opts.collapse /\ f.l7.kind = "http" => Observed(f) \in new
    BY DEF Observations, Observed
  <2>6. \A v \in Workloads : \A f \in ever'[v] : IsFlow(f)
    <3>1. \A f \in Demands(w) : IsFlow(f)
      BY DemandsFacts
    <3> QED BY <2>1, <3>1 DEF TypeInv, Scalars, Indexed, Flowing
  <2>7. IsSeq(bucket[w])
    BY DEF TypeInv, Buffers
  <2>8. ASSUME NEW f, IsFlow(f), opts.collapse, f.l7.kind = "http" => Observed(f) \in obs
        PROVE  ListsCover(p.rules, f, w.ns)
    <3> HIDE DEF obs
    <3> QED BY <2>7, <2>8, BuiltListsCover
  <2>9. \A v \in Workloads : \A f : \A i \in 1..n : Past(f, v, i)' => Past(f, v, i)
    <3>1. \A i \in 1..n : \A j \in 1..i : j \in 1..n
      BY <2>3
    <3> QED BY <2>2, <2>3, <3>1 DEF Past
  <2> HIDE DEF ev, p
  <2>10. \A v \in Workloads : \A f : Past(f, v, n + 1)' =>
            Past(f, v, n) \/ (v = w /\ f \in Demands(w))
    <3>1. \A j \in 1..(n + 1) : j \in 1..n \/ j = n + 1
      BY <2>3
    <3> QED BY <2>2, <2>3, <2>4, <3>1 DEF Past
  <2>11. \A v \in Workloads : \A f \in ever'[v] : f \in ever[v] \/ (v = w /\ f \in Demands(w))
    BY <2>1 DEF TypeInv, Scalars, Indexed
  <2>12. \A v \in Workloads : \A f : Past(f, v, n) => f \in ever[v]
    BY <2>0, SeqFacts DEF Past, TypeInv, Filed, Queued, Event
  <2>13. ASSUME opts.collapse, NEW v \in Workloads, NEW f \in ever'[v], f.l7.kind = "http",
                Past(f, v, n + 1)'
         PROVE  Observed(f) \in obs
    <3>1. CASE Past(f, v, n)
      BY <2>0, <2>12, <2>13, <3>1 DEF Listing
    <3>2. CASE f \in Demands(w)
      BY <2>5, <2>13, <3>2
    <3> QED BY <2>10, <2>13, <3>1, <3>2
  <2> HIDE DEF obs
  <2>14. opts'.collapse => \A v \in Workloads : \A f \in ever'[v] :
            (f.l7.kind = "http" /\ Past(f, v, Len(queue))') => Observed(f) \in collected' \cup retained'
    BY <2>1, <2>2, <2>3, <2>13
  <2>15. ASSUME NEW i \in 1..Len(queue'), NEW e, e = queue'[i]
         PROVE  /\ e.replace <=> opts.l7 /\ opts.collapse
                /\ e.replace => \A f \in ever'[e.wl] : Past(f, e.wl, i)' =>
                                    ListsCover(e.policy.rules, f, e.wl.ns)
    <3>1. CASE i \in 1..n
      <4>1. e = queue[i] /\ e.wl \in Workloads
        BY <2>0, <2>3, <2>15, <3>1, SeqFacts DEF TypeInv, Queued, Event
      <4>2. \A f : Past(f, e.wl, i)' => Past(f, e.wl, i) /\ f \in ever[e.wl]
        <5>1. \A f : Past(f, e.wl, i) => f \in ever[e.wl]
          <6>1. \A j \in 1..i : j \in 1..n
            BY <2>3, <3>1
          <6> QED BY <4>1, <6>1, <2>12 DEF Past
        <5> QED BY <2>9, <3>1, <4>1, <5>1
      <4> QED BY <2>0, <3>1, <4>1, <4>2 DEF Listing
    <3>2. CASE i = n + 1
      <4>1. e = ev
        BY <2>3, <2>15, <3>2
      <4>2. ASSUME opts.collapse, NEW f \in ever'[w], Past(f, w, n + 1)'
            PROVE  ListsCover(p.rules, f, w.ns)
        BY <2>6, <2>8, <2>13, <4>2
      <4> QED BY <2>4, <3>2, <4>1, <4>2
    <3> QED BY <2>3, <3>1, <3>2
  <2> QED BY <2>2, <2>14, <2>15 DEF Listing
<1>3. CASE Skip \/ WriteOk
  <2>1. Handled /\ Take
    BY <1>3, StepsHandle DEF Handled
  <2>2. UNCHANGED <<collected, retained, opts, ever>>
    BY <2>1 DEF Take, aggregator, run
  <2>3. /\ Len(queue) \in Nat /\ Len(queue) >= 1 /\ Len(queue') = Len(queue) - 1
        /\ \A i \in 1..Len(queue') : i + 1 \in 1..Len(queue) /\ queue'[i] = queue[i + 1]
        /\ \A w \in Workloads : \A n \in 0..Len(queue') : \A f :
              Past(f, w, n)' => Past(f, w, n + 1)
    BY <2>1, HandledPast
  <2>4. opts'.collapse => \A w \in Workloads : \A f \in ever'[w] :
           (f.l7.kind = "http" /\ Past(f, w, Len(queue))') => Observed(f) \in collected' \cup retained'
    <3>1. Len(queue') \in 0..Len(queue') /\ Len(queue') + 1 = Len(queue)
      BY <2>3
    <3>2. \A w \in Workloads : \A f : Past(f, w, Len(queue))' => Past(f, w, Len(queue))
      BY <2>3, <3>1
    <3> QED BY <2>2, <3>2 DEF Listing
  <2>5. ASSUME NEW i \in 1..Len(queue'), NEW e, e = queue'[i]
        PROVE  /\ e.replace <=> opts.l7 /\ opts.collapse
               /\ e.replace => \A f \in ever[e.wl] : Past(f, e.wl, i)' =>
                                   ListsCover(e.policy.rules, f, e.wl.ns)
    <3>1. e = queue[i + 1] /\ i + 1 \in 1..Len(queue) /\ i \in 0..Len(queue')
      BY <2>3, <2>5
    <3>2. e.wl \in Workloads
      BY <3>1, SeqFacts DEF TypeInv, Queued, Event
    <3>3. \A f : Past(f, e.wl, i)' => Past(f, e.wl, i + 1)
      BY <2>3, <3>1, <3>2
    <3> QED BY <3>1, <3>3 DEF Listing
  <2> QED BY <2>2, <2>4, <2>5 DEF Listing
<1>4. CASE Restart
  <2>1. Len(queue') = 0 /\ opts'.collapse => \A w \in Workloads : \A f \in settled'[w] : f.l7.kind # "http"
    BY <1>4 DEF Restart
  <2>2. Len(queue') = 0
    BY <1>4, EmptyIsSeq DEF Restart
  <2>3. \A w \in Workloads : \A f : Past(f, w, 0)' => f \in settled'[w]
    BY DEF Past
  <2> QED BY <2>1, <2>2, <2>3 DEF Listing
<1> QED BY <1>1, <1>2, <1>3, <1>4, StepKinds

\* Only the truth of the replace flag counts.
LEMMA GrowsEquiv ==
    ASSUME NEW r1, NEW r2, r1 <=> r2, NEW a, NEW b, NEW incoming, Grows(a, b, incoming, r1)
    PROVE  Grows(a, b, incoming, r2)
<1>1. \A p : HTTPGrows(a, b, p, incoming, r1) => HTTPGrows(a, b, p, incoming, r2)
  BY Zenon DEF HTTPGrows
<1> QED BY <1>1, Zenon DEF Grows

\* The first event: its lists admit what is settled and what it brings.
LEMMA HeadFacts ==
    ASSUME TypeInv, Listing, Take, NEW ev, ev = Head(queue)
    PROVE  /\ Event(ev) /\ ev \in ToSet(queue)
           /\ ev.replace <=> opts.l7 /\ opts.collapse
           /\ ev.replace => \A f \in settled[ev.wl] \cup ev.flows :
                               ListsCover(ev.policy.rules, f, ev.wl.ns)
<1>1. ev = queue[1] /\ 1 \in 1..Len(queue) /\ ev \in ToSet(queue)
  BY TailIsSeq DEF TypeInv, Queued, Take
<1>2. Event(ev)
  BY <1>1 DEF TypeInv, Queued
<1>3. \A f \in settled[ev.wl] \cup ev.flows : Past(f, ev.wl, 1) /\ f \in ever[ev.wl]
  BY <1>1, <1>2 DEF Past, Event, TypeInv, Filed
<1>4. /\ ev.replace <=> opts.l7 /\ opts.collapse
      /\ ev.replace => \A f \in ever[ev.wl] : Past(f, ev.wl, 1) =>
                           ListsCover(ev.policy.rules, f, ev.wl.ns)
  BY <1>1 DEF Listing
<1> QED BY <1>1, <1>2, <1>3, <1>4

\* Every step keeps the rules last written in the file.
LEMMA NextRemembered ==
    ASSUME TypeInv, Listing, Remembered, [Next]_vars
    PROVE  Remembered'
<1>1. CASE Idle \/ \E w \in Workloads : BuildBucket(w)
  BY <1>1 DEF Idle, BuildBucket, writer, run, Remembered
<1>2. CASE Skip
  <2>1. file' = file /\ opts' = opts
    BY <1>2 DEF Skip, Take, run
  <2>2. opts.dry \/ written' = written
    BY <1>2 DEF Skip, SkipForClusterMatch, SkipForCrossFlushMatch, writer
  <2> QED BY <2>1, <2>2 DEF Remembered
<1>3. CASE WriteOk
  <2>0. PICK ev : ev = Head(queue)
    OBVIOUS
  <2> DEFINE w == ev.wl
             old == file[w]
             rep == opts.l7 /\ opts.collapse
             p == IF old = NoPolicy THEN ev.policy ELSE MergePolicy(old, ev.policy, ev.replace)
  <2>1. /\ Take /\ file' = [file EXCEPT ![w] = p] /\ written' = [written EXCEPT ![w] = ev.policy]
        /\ opts' = opts
    BY <1>3, <2>0 DEF WriteOk, Take, run
  <2>2. /\ w \in Workloads /\ ev.policy # NoPolicy /\ Proper(ev.policy) /\ Proper(old)
        /\ ev.replace <=> rep
    BY <2>0, <2>1, HeadFacts DEF Event, TypeInv, Filed
  <2>3. ASSUME NEW q \in ToSet(ev.policy.rules)
        PROVE  \E r \in ToSet(p.rules) : Grows(q, r, ToSet(ev.policy.rules), rep)
    <3>1. CASE old = NoPolicy
      <4>1. p = ev.policy
        BY <3>1
      <4> HIDE DEF p, rep
      <4> QED BY <4>1, GrowsReflexive
    <3>2. CASE old # NoPolicy
      <4>1. IsPolicy(old) /\ IsPolicy(ev.policy) /\ p = MergePolicy(old, ev.policy, ev.replace)
        BY <2>2, <3>2 DEF Proper
      <4> DEFINE in == ev.policy.rules
      <4>2. MergedUpTo(p.rules, old.rules, in, Len(in), ev.replace) /\ IsSeq(in)
        BY <4>1, MergePolicyFacts DEF IsPolicy, IsRules
      <4> HIDE DEF p, rep, in
      <4>3. PICK j \in 1..Len(in) : in[j] = q
        BY <4>2, SeqFacts DEF in
      <4>4. PICK i \in 1..Len(p.rules) : Grows(in[j], p.rules[i], ToSet(in), ev.replace)
        BY <4>2 DEF MergedUpTo
      <4>5. p.rules[i] \in ToSet(p.rules)
        BY <4>2, SeqFacts DEF MergedUpTo, IsRules
      <4>6. Grows(q, p.rules[i], ToSet(in), rep)
        BY <2>2, <4>3, <4>4, GrowsEquiv DEF rep
      <4> QED BY <4>5, <4>6 DEF in
    <3> QED BY <3>1, <3>2
  <2> HIDE DEF p, w
  <2>4. \A v \in Workloads : /\ file'[v] = IF v = w THEN p ELSE file[v]
                             /\ written'[v] = IF v = w THEN ev.policy ELSE written[v]
    BY <2>1 DEF TypeInv, Filed, Indexed
  <2> QED BY <2>1, <2>3, <2>4 DEF Remembered
<1>4. CASE Restart
  BY <1>4 DEF Restart, Remembered
<1> QED BY <1>1, <1>2, <1>3, <1>4, StepKinds

\* The file serves a flow whose policy is the one last written.
LEMMA RememberedServes ==
    ASSUME TypeInv, Listing, Remembered, Take, ~opts.dry, NEW ev, ev = Head(queue),
           Same(written[ev.wl], ev.policy), NEW f \in ev.flows,
           Served(ev.policy.rules, f, ev.wl.ns)
    PROVE  Served(file[ev.wl].rules, f, ev.wl.ns)
<1> DEFINE old == written[ev.wl]
           rep == opts.l7 /\ opts.collapse
           I == ToSet(ev.policy.rules)
<1>1. old # NoPolicy /\ ToSet(old.rules) = I
  BY DEF Same, PoliciesEquivalent
<1>2. /\ ev.wl \in Workloads
      /\ rep => \A q \in I : ListCovers(q, f, ev.wl.ns)
  BY HeadFacts DEF Event, ListsCover
<1>3. PICK q \in I : OwnRule(q, f, ev.wl.ns)
  BY DEF Served
<1>4. PICK r \in ToSet(file[ev.wl].rules) : Grows(q, r, I, rep)
  BY <1>1, <1>2, <1>3 DEF Remembered
<1> HIDE DEF rep, I
<1>5. OwnRule(r, f, ev.wl.ns)
  BY <1>2, <1>3, <1>4, OwnRuleGrows
<1> QED BY <1>5 DEF Served

\* Peers that share a bucket go on sharing it.
LEMMA ExemptKept ==
    ASSUME NEW w, ever[w] \subseteq ever'[w], NEW f, Exempt(w, f)
    PROVE  Exempt(w, f)'
<1>1. CASE EncodedPath(f)
  <2>1. EncodedPath(f)'
    BY <1>1 DEF EncodedPath
  <2> QED BY <2>1 DEF Exempt
<1>2. CASE SharedBucket(w, f)
  <2>1. SharedBucket(w, f)'
    BY <1>2 DEF SharedBucket
  <2> QED BY <2>1 DEF Exempt
<1> QED BY <1>1, <1>2 DEF Exempt

\* A flow that shares no bucket is served by the policy built from it; an encoded path
\* needs the collapse.
LEMMA UnsharedServed ==
    ASSUME TypeInv, NEW w \in Workloads, NEW obs, Observations(w) \subseteq obs,
           ever' = [ever EXCEPT ![w] = @ \cup Demands(w)], NEW f \in Demands(w),
           ~SharedBucket(w, f)', opts.collapse \/ ~EncodedPath(f)
    PROVE  Served(BuildPolicy(w.ns, bucket[w], opts, obs).rules, f, w.ns)
<1>1. IsSeq(bucket[w]) /\ \A g \in ToSet(bucket[w]) : IsFlow(g)
  BY DemandsFacts DEF TypeInv, Buffers
<1>2. PICK g \in ToSet(bucket[w]) : ~Trackable(g) /\ f = Seen(g, opts.l7)
  BY DemandsFacts
<1>3. opts.collapse /\ f.l7.kind = "http" => Observed(f) \in obs
  BY DEF Observations, Observed
<1>4. Unshared(bucket[w], f)
  <2>1. Demands(w) \subseteq ever'[w]
    BY DEF TypeInv, Scalars, Indexed
  <2>2. ASSUME f.peer.kind = "endpoint", NEW x \in ToSet(bucket[w]), ~Trackable(x),
               x.dir = f.dir, PeerKey(x) = PeerKey(f)
        PROVE  x.peer.ns = f.peer.ns
    <3>1. /\ Seen(x, opts.l7) \in ever'[w]
          /\ Seen(x, opts.l7).dir = f.dir /\ Seen(x, opts.l7).peer = x.peer
          /\ PeerKey(Seen(x, opts.l7)) = PeerKey(f)
      BY <2>1, <2>2, DemandsFacts
    <3>2. \A y \in ever'[w] : y.dir = f.dir /\ PeerKey(y) = PeerKey(f) => y.peer.ns = f.peer.ns
      BY <2>2 DEF SharedBucket
    <3> QED BY <3>1, <3>2
  <2> QED BY <2>2 DEF Unshared
<1> QED BY <1>1, <1>2, <1>3, <1>4, BuildServes

\* A flow of the bucket is served by its policy, or exempt from now on.
LEMMA NewEventServes ==
    ASSUME TypeInv, NEW w \in Workloads, NEW obs, Observations(w) \subseteq obs,
           ever' = [ever EXCEPT ![w] = @ \cup Demands(w)], NEW f \in Demands(w)
    PROVE  Exempt(w, f)' \/ Served(BuildPolicy(w.ns, bucket[w], opts, obs).rules, f, w.ns)
<1> SUFFICES ASSUME ~SharedBucket(w, f)', ~EncodedPath(f)
             PROVE  Served(BuildPolicy(w.ns, bucket[w], opts, obs).rules, f, w.ns)
  BY DEF Exempt, EncodedPath
<1> QED BY UnsharedServed

\* Every step keeps queued, settled and deployed flows admitted.
LEMMA NextServing ==
    ASSUME TypeInv, Flowing, Subjects, Listing, Serving, Remembered, [Next]_vars
    PROVE  Serving'
<1> DEFINE Queues == \A ev \in ToSet(queue) : \A f \in ev.flows :
                        Exempt(ev.wl, f) \/ Served(ev.policy.rules, f, ev.wl.ns)
           Deploys(w, f) == /\ cluster[w.name] # NoPolicy /\ ClusterPolicy(w) # NoPolicy
                            /\ Selects(ClusterPolicy(w), w)
                            /\ Exempt(w, f) \/ Served(ClusterPolicy(w).rules, f, w.ns)
           Settles(w, f) == Exempt(w, f) \/ Served(file[w].rules, f, w.ns)
<1>0. Serving <=> Queues /\ \A w \in Workloads : /\ \A f \in settled[w] : Settles(w, f)
                                                 /\ \A f \in deployed[w] : Deploys(w, f)
  BY Zenon DEF Serving
<1>1. CASE Idle
  BY <1>1 DEF Idle, writer, run, Serving, Exempt, SharedBucket, EncodedPath, ClusterPolicy, Selects
<1>2. ASSUME NEW w \in Workloads, BuildBucket(w) PROVE Serving'
  <2> DEFINE obs == retained \cup (collected \cup Observations(w))
             p == BuildPolicy(w.ns, bucket[w], opts, obs)
             ev == [wl |-> w, flows |-> Demands(w), replace |-> opts.l7 /\ opts.collapse, policy |-> p]
  <2>1. /\ queue' = Append(queue, ev) /\ UNCHANGED <<writer, run>>
        /\ ever' = [ever EXCEPT ![w] = @ \cup Demands(w)]
    BY <1>2 DEF BuildBucket
  <2>2. \A v \in Workloads : ever[v] \subseteq ever'[v]
    BY <2>1 DEF TypeInv, Scalars, Indexed
  <2>3. \A f \in ev.flows : Exempt(ev.wl, f)' \/ Served(ev.policy.rules, f, ev.wl.ns)
    <3>1. Observations(w) \subseteq obs
      OBVIOUS
    <3> HIDE DEF obs
    <3>2. \A f \in Demands(w) : Exempt(w, f)' \/ Served(p.rules, f, w.ns)
      BY <2>1, <3>1, NewEventServes
    <3> HIDE DEF p
    <3> QED BY <3>2 DEF Exempt, SharedBucket, EncodedPath
  <2> HIDE DEF ev
  <2>4. ToSet(queue') = ToSet(queue) \cup {ev}
    BY <2>1, AppendIsSeq DEF TypeInv, Queued
  <2>5. \A v \in Workloads : \A f : Exempt(v, f) => Exempt(v, f)'
    BY <2>2, ExemptKept
  <2>6. \A e \in ToSet(queue) : e.wl \in Workloads
    BY DEF TypeInv, Queued, Event
  <2>7. \A e \in ToSet(queue') : \A f \in e.flows :
           Exempt(e.wl, f)' \/ Served(e.policy.rules, f, e.wl.ns)
    <3>1. ASSUME NEW e \in ToSet(queue), NEW f \in e.flows
          PROVE  Exempt(e.wl, f)' \/ Served(e.policy.rules, f, e.wl.ns)
      BY <2>5, <2>6 DEF Serving
    <3>2. ASSUME NEW e, e = ev, NEW f \in e.flows
          PROVE  Exempt(e.wl, f)' \/ Served(e.policy.rules, f, e.wl.ns)
      <4>1. Exempt(ev.wl, f)' <=> SharedBucket(ev.wl, f)' \/ EncodedPath(f)
        BY DEF Exempt, EncodedPath
      <4>2. Exempt(e.wl, f)' <=> SharedBucket(e.wl, f)' \/ EncodedPath(f)
        BY DEF Exempt, EncodedPath
      <4>3. SharedBucket(ev.wl, f)' <=> \/ /\ f.peer.kind = "endpoint"
                /\ \E g \in ever'[w] : g.dir = f.dir /\ PeerKey(g) = PeerKey(f) /\ g.peer.ns # f.peer.ns
        BY DEF SharedBucket, ev
      <4>4. SharedBucket(e.wl, f)' <=> \/ /\ f.peer.kind = "endpoint"
                /\ \E g \in ever'[e.wl] : g.dir = f.dir /\ PeerKey(g) = PeerKey(f) /\ g.peer.ns # f.peer.ns
        BY DEF SharedBucket
      <4>5. e.wl = w
        BY <3>2 DEF ev
      <4> QED BY <2>3, <3>2, <4>1, <4>2, <4>3, <4>4, <4>5
    <3> QED BY <2>4, <3>1, <3>2
  <2>8. ASSUME NEW v \in Workloads
        PROVE  /\ \A f \in settled[v] : Exempt(v, f)' \/ Served(file[v].rules, f, v.ns)
               /\ \A f \in deployed[v] :
                     /\ cluster[v.name] # NoPolicy /\ ClusterPolicy(v) # NoPolicy
                     /\ Selects(ClusterPolicy(v), v)
                     /\ Exempt(v, f)' \/ Served(ClusterPolicy(v).rules, f, v.ns)
    BY <2>5 DEF Serving
  <2>9. UNCHANGED <<settled, deployed, file, cluster>>
    BY <2>1 DEF writer, run
  <2>10. \A v \in Workloads : ClusterPolicy(v)' = ClusterPolicy(v)
                              /\ (Selects(ClusterPolicy(v), v) => Selects(ClusterPolicy(v), v)')
    BY <2>9 DEF ClusterPolicy, Selects
  <2> QED BY <2>7, <2>8, <2>9, <2>10 DEF Serving
<1>3. ASSUME Take, UNCHANGED file,
             \A w \in Workloads : /\ \A f \in settled'[w] : Settles(w, f)
                                  /\ \A f \in deployed'[w] : Deploys(w, f)
      PROVE  Serving'
  <2>1. UNCHANGED <<cluster, ever>> /\ ToSet(queue') \subseteq ToSet(queue)
    BY <1>3, TailIsSeq DEF Take, run, TypeInv, Queued
  <2>2. \A v : \A f : Exempt(v, f)' <=> Exempt(v, f)
    BY <2>1 DEF Exempt, SharedBucket, EncodedPath
  <2>3. \A v : ClusterPolicy(v)' = ClusterPolicy(v)
    BY <2>1 DEF ClusterPolicy
  <2>4. \A v \in Workloads : /\ \A f \in settled'[v] : Exempt(v, f)' \/ Served(file'[v].rules, f, v.ns)
                             /\ \A f \in deployed'[v] :
                                   /\ cluster'[v.name] # NoPolicy /\ ClusterPolicy(v)' # NoPolicy
                                   /\ Selects(ClusterPolicy(v), v)
                                   /\ Exempt(v, f)' \/ Served(ClusterPolicy(v)'.rules, f, v.ns)
    BY <1>3, <2>1, <2>2, <2>3
  <2>5. \A v \in Workloads : Selects(ClusterPolicy(v), v) => Selects(ClusterPolicy(v), v)'
    BY <2>3 DEF Selects
  <2>6. \A e \in ToSet(queue') : \A f \in e.flows :
           Exempt(e.wl, f)' \/ Served(e.policy.rules, f, e.wl.ns)
    BY <2>1, <2>2 DEF Serving
  <2> QED BY <2>4, <2>5, <2>6 DEF Serving
<1>4. CASE Skip
  <2>0. PICK ev : ev = Head(queue)
    OBVIOUS
  <2>1. Take /\ UNCHANGED file
    BY <1>4 DEF Skip
  <2>2. Event(ev) /\ ev.wl \in Workloads /\ \A f \in ev.flows :
           Exempt(ev.wl, f) \/ Served(ev.policy.rules, f, ev.wl.ns)
    BY <2>0, <2>1, HeadFacts DEF Serving, Event
  <2>3. CASE SkipForClusterMatch
    <3>1. /\ Same(ClusterPolicy(ev.wl), ev.policy) /\ settled' = settled
          /\ deployed' = [deployed EXCEPT ![ev.wl] = @ \cup ev.flows]
      BY <2>0, <2>3 DEF SkipForClusterMatch
    <3>2. \A w \in Workloads : \A f \in deployed'[w] : f \in deployed[w] \/ (w = ev.wl /\ f \in ev.flows)
      BY <3>1 DEF TypeInv, Filed, Indexed
    <3>3. ASSUME NEW f \in ev.flows PROVE Deploys(ev.wl, f)
      <4> DEFINE cp == ClusterPolicy(ev.wl)
      <4>1. cp # NoPolicy /\ cp.subject = ev.policy.subject /\ ToSet(cp.rules) = ToSet(ev.policy.rules)
        BY <3>1 DEF Same, PoliciesEquivalent
      <4>2. cluster[ev.wl.name] # NoPolicy
        BY <4>1 DEF ClusterPolicy
      <4>3. Selects(cp, ev.wl)
        <5>1. Selects(ev.policy, ev.wl)
          BY <2>0, <2>1, HeadFacts DEF Subjects
        <5> HIDE DEF cp
        <5> QED BY <4>1, <5>1 DEF Selects
      <4>4. Exempt(ev.wl, f) \/ Served(cp.rules, f, ev.wl.ns)
        <5> HIDE DEF cp
        <5> QED BY <2>2, <4>1 DEF Served
      <4> QED BY <4>1, <4>2, <4>3, <4>4
    <3>4. \A w \in Workloads : /\ \A f \in settled'[w] : Settles(w, f)
                               /\ \A f \in deployed'[w] : Deploys(w, f)
      <4> HIDE DEF Settles, Deploys
      <4> QED BY <1>0, <3>1, <3>2, <3>3
    <3> QED BY <2>1, <3>4, <1>3
  <2>4. CASE SkipForCrossFlushMatch
    <3>1. deployed' = deployed
      BY <2>4 DEF SkipForCrossFlushMatch, Settle
    <3>2. CASE opts.dry
      <4>1. settled' = settled
        BY <2>4, <3>2 DEF SkipForCrossFlushMatch
      <4>2. \A w \in Workloads : /\ \A f \in settled'[w] : Settles(w, f)
                                 /\ \A f \in deployed'[w] : Deploys(w, f)
        <5> HIDE DEF Settles, Deploys
        <5> QED BY <1>0, <3>1, <4>1
      <4> QED BY <2>1, <4>2, <1>3
    <3>3. CASE ~opts.dry
      <4>1. /\ Same(written[ev.wl], ev.policy)
            /\ settled' = [settled EXCEPT ![ev.wl] = @ \cup ev.flows]
        BY <2>0, <2>4, <3>3 DEF SkipForCrossFlushMatch, Settle
      <4>2. \A w \in Workloads : \A f \in settled'[w] : f \in settled[w] \/ (w = ev.wl /\ f \in ev.flows)
        BY <4>1 DEF TypeInv, Filed, Indexed
      <4>3. ASSUME NEW f \in ev.flows PROVE Settles(ev.wl, f)
        <5>1. Served(ev.policy.rules, f, ev.wl.ns) => Served(file[ev.wl].rules, f, ev.wl.ns)
          BY <2>0, <2>1, <3>3, <4>1, RememberedServes
        <5> QED BY <2>2, <5>1
      <4>4. \A w \in Workloads : /\ \A f \in settled'[w] : Settles(w, f)
                                 /\ \A f \in deployed'[w] : Deploys(w, f)
        <5> HIDE DEF Settles, Deploys
        <5> QED BY <1>0, <3>1, <4>2, <4>3
      <4> QED BY <2>1, <4>4, <1>3
    <3> QED BY <3>2, <3>3
  <2>5. CASE UNCHANGED <<settled, deployed>>
    <3>1. \A w \in Workloads : /\ \A f \in settled'[w] : Settles(w, f)
                               /\ \A f \in deployed'[w] : Deploys(w, f)
      <4> HIDE DEF Settles, Deploys
      <4> QED BY <1>0, <2>5
    <3> QED BY <2>1, <3>1, <1>3
  <2> QED BY <1>4, <2>3, <2>4, <2>5 DEF Skip, writer
<1>5. CASE WriteOk
  <2>0. PICK ev : ev = Head(queue)
    OBVIOUS
  <2> DEFINE w == ev.wl
             old == file[w]
             p == IF old = NoPolicy THEN ev.policy ELSE MergePolicy(old, ev.policy, ev.replace)
  <2>1. /\ Take /\ file' = [file EXCEPT ![w] = p]
        /\ settled' = [settled EXCEPT ![w] = @ \cup ev.flows] /\ deployed' = deployed
        /\ UNCHANGED <<cluster, ever>>
    BY <1>5, <2>0 DEF WriteOk, Settle, Take, run
  <2>2. /\ w \in Workloads /\ ev.policy # NoPolicy /\ Proper(ev.policy) /\ Proper(old)
        /\ \A f \in ev.flows : Exempt(w, f) \/ Served(ev.policy.rules, f, w.ns)
        /\ ev.replace => \A f \in settled[w] \cup ev.flows : ListsCover(ev.policy.rules, f, w.ns)
        /\ ToSet(queue') \subseteq ToSet(queue)
    <3>1. Event(ev) /\ ev \in ToSet(queue)
      BY <2>0, <2>1, HeadFacts
    <3>2. ev.replace => \A f \in settled[w] \cup ev.flows : ListsCover(ev.policy.rules, f, w.ns)
      BY <2>0, <2>1, HeadFacts
    <3>3. ToSet(queue') \subseteq ToSet(queue)
      BY <2>1, TailIsSeq DEF Take, TypeInv, Queued
    <3>4. \A f \in ev.flows : Exempt(w, f) \/ Served(ev.policy.rules, f, w.ns)
      BY <3>1 DEF Serving
    <3> QED BY <3>1, <3>2, <3>3, <3>4 DEF Event, TypeInv, Filed
  <2>3. ASSUME NEW f \in settled[w] \cup ev.flows PROVE Exempt(w, f) \/ Served(p.rules, f, w.ns)
    <3>1. CASE old = NoPolicy
      <4>1. p = ev.policy /\ f \in ev.flows
        BY <2>2, <3>1 DEF TypeInv, Filed
      <4> QED BY <2>2, <4>1
    <3>2. CASE old # NoPolicy
      <4>1. IsPolicy(old) /\ IsPolicy(ev.policy) /\ p = MergePolicy(old, ev.policy, ev.replace)
        BY <2>2, <3>2 DEF Proper
      <4>2. Exempt(w, f) \/ Served(old.rules, f, w.ns) \/ Served(ev.policy.rules, f, w.ns)
        BY <2>2 DEF Serving
      <4>3. ev.replace => ListsCover(ev.policy.rules, f, w.ns)
        BY <2>2
      <4> DEFINE ns == w.ns
                 new == ev.policy
                 rep == ev.replace
      <4>4. Served(old.rules, f, ns) \/ Served(new.rules, f, ns)
              => Served(MergePolicy(old, new, rep).rules, f, ns)
        <5> HIDE DEF ns, new, rep, p, w, old
        <5> QED BY <4>1, <4>3, MergeServes DEF ns, new, rep
      <4> QED BY <4>1, <4>2, <4>4
    <3> QED BY <3>1, <3>2
  <2> HIDE DEF p, w
  <2>4. \A v \in Workloads : /\ file'[v] = IF v = w THEN p ELSE file[v]
                             /\ settled'[v] = settled[v] \cup (IF v = w THEN ev.flows ELSE {})
    BY <2>1 DEF TypeInv, Filed, Indexed
  <2>5. \A v : \A f : Exempt(v, f)' <=> Exempt(v, f)
    BY <2>1 DEF Exempt, SharedBucket, EncodedPath
  <2>6. \A v : ClusterPolicy(v)' = ClusterPolicy(v)
    BY <2>1 DEF ClusterPolicy
  <2>7. \A v \in Workloads : Selects(ClusterPolicy(v), v) => Selects(ClusterPolicy(v), v)'
    BY <2>6 DEF Selects
  <2>8. \A e \in ToSet(queue') : \A f \in e.flows :
           Exempt(e.wl, f)' \/ Served(e.policy.rules, f, e.wl.ns)
    BY <2>2, <2>5 DEF Serving
  <2>9. ASSUME NEW v \in Workloads, NEW f \in settled'[v]
        PROVE  Exempt(v, f)' \/ Served(file'[v].rules, f, v.ns)
    <3>1. CASE v = w
      BY <2>3, <2>4, <2>5, <3>1
    <3>2. CASE v # w
      BY <2>4, <2>5, <3>2 DEF Serving
    <3> QED BY <3>1, <3>2
  <2>10. ASSUME NEW v \in Workloads, NEW f \in deployed'[v]
         PROVE  /\ cluster'[v.name] # NoPolicy /\ ClusterPolicy(v)' # NoPolicy
                /\ Selects(ClusterPolicy(v), v)'
                /\ Exempt(v, f)' \/ Served(ClusterPolicy(v)'.rules, f, v.ns)
    BY <2>1, <2>5, <2>6, <2>7 DEF Serving
  <2> QED BY <2>8, <2>9, <2>10 DEF Serving
<1>6. CASE Restart
  <2>1. /\ ToSet(queue') = {} /\ ever' = ever /\ file' = file
        /\ \A w \in Workloads : settled'[w] \subseteq settled[w] /\ deployed'[w] = {}
    BY <1>6, EmptyIsSeq DEF Restart
  <2>2. \A v : \A f : Exempt(v, f)' <=> Exempt(v, f)
    BY <2>1 DEF Exempt, SharedBucket, EncodedPath
  <2> QED BY <2>1, <2>2 DEF Serving
<1> QED BY <1>1, <1>2, <1>4, <1>5, <1>6, StepKinds

(* What Coverage says of flows, listings and files holds in every state of  *)
(* every run.                                                               *)
LEMMA AlwaysCovered == Spec => [](TypeInv /\ Coverage)
<1>1. TypeInv /\ Coverage /\ [Next]_vars => Coverage'
  BY NextFlowing, NextSubjects, NextListing, NextServing, NextRemembered DEF Coverage
<1> QED BY InitTypeInv, NextTypeInv, InitCoverage, <1>1, PTL DEF Spec

(* Every flow whose event the writer wrote, or skipped as unchanged, stays  *)
(* allowed by the file of its workload through all later flushes, failed    *)
(* writes and runs, and a flow skipped as deployed by the cluster's policy, *)
(* but for the gaps the property names.                                     *)
THEOREM HandledFlowsSafe == Spec => []HandledFlowsCovered
<1>1. ASSUME TypeInv, Coverage, NEW w \in Workloads, NEW p, p # NoPolicy, Selects(p, w),
             NEW f \in ever[w], Exempt(w, f) \/ Served(p.rules, f, w.ns)
      PROVE  Covers(p, f, w.ns) \/ SharedName(p, w, f) \/ SharedBucket(w, f) \/ EncodedPath(f)
  <2> SUFFICES ASSUME ~Exempt(w, f), ~SharedName(p, w, f) PROVE Covers(p, f, w.ns)
    BY DEF Exempt
  <2>1. p.subject = SelectLabels(f.target)
    BY <1>1 DEF SharedName, Selects
  <2>2. p.subject \subseteq f.target
    BY <2>1 DEF SelectLabels, FilterK8sLabels
  <2>3. PICK r \in ToSet(p.rules) : OwnRule(r, f, w.ns)
    BY <1>1 DEF Served
  <2>4. RuleAllows(r, f, w.ns)
    BY <1>1, <2>3, OwnRuleAllows DEF Coverage, Flowing
  <2> QED BY <1>1, <2>2, <2>4 DEF Covers
<1>2. ASSUME TypeInv, Coverage PROVE HandledFlowsCovered
  <2>1. ASSUME NEW w \in Workloads, NEW f \in settled[w]
        PROVE  \/ Covers(file[w], f, w.ns)
               \/ SharedName(file[w], w, f) \/ SharedBucket(w, f) \/ EncodedPath(f)
    <3>1. f \in ever[w] /\ file[w] # NoPolicy
      BY <1>2 DEF TypeInv, Filed
    <3>2. Selects(file[w], w) /\ (Exempt(w, f) \/ Served(file[w].rules, f, w.ns))
      BY <1>2, <3>1 DEF Coverage, Subjects, Serving
    <3> QED BY <1>1, <1>2, <3>1, <3>2
  <2>2. ASSUME NEW w \in Workloads, NEW f \in deployed[w]
        PROVE  \/ cluster[w.name].ns = w.ns /\ Covers(ClusterPolicy(w), f, w.ns)
               \/ Namesake(w) \/ SharedName(ClusterPolicy(w), w, f)
               \/ SharedBucket(w, f) \/ EncodedPath(f)
    <3>1. f \in ever[w]
      BY <1>2 DEF TypeInv, Filed
    <3>2. /\ cluster[w.name] # NoPolicy /\ ClusterPolicy(w) # NoPolicy
          /\ Selects(ClusterPolicy(w), w)
          /\ Exempt(w, f) \/ Served(ClusterPolicy(w).rules, f, w.ns)
      BY <1>2 DEF Coverage, Serving
    <3>3. \/ Covers(ClusterPolicy(w), f, w.ns)
          \/ SharedName(ClusterPolicy(w), w, f) \/ SharedBucket(w, f) \/ EncodedPath(f)
      BY <1>1, <1>2, <3>1, <3>2
    <3>4. Namesake(w) \/ cluster[w.name].ns = w.ns
      BY <3>2 DEF Namesake
    <3> QED BY <3>3, <3>4
  <2> QED BY <2>1, <2>2 DEF HandledFlowsCovered
<1> QED BY <1>2, AlwaysCovered, PTL

-----------------------------------------------------------------------------
(* Nothing is allowed that was not dropped.                                *)

AllFlows == UNION {ever[v] : v \in Workloads}

Names(w) == {f.l7.name : f \in {g \in ever[w] : g.l7.kind = "dns"}}

Sources(w) == IF collapsed THEN Workloads ELSE {w}

Dropped(w, rule, l4) ==
    \E f \in ever[w] : /\ f.dir = rule.dir /\ f.l4 = l4 /\ f.l7.kind # "dns" /\ PeerOf(w, rule, f)

\* A rule is justified by its names, its ICMP types and its ports, one by one.
LEMMA RuleJustifiedParts ==
    ASSUME NEW w, NEW rule
    PROVE  RuleJustified(w, rule) <=>
             /\ rule.fqdns \subseteq Names(w)
             /\ \A l4 \in rule.icmps : Dropped(w, rule, l4)
             /\ \A l4 \in DOMAIN rule.ports :
                   /\ rule.ports[l4].dns \subseteq Names(w)
                   /\ rule.ports[l4].dns = {} => Dropped(w, rule, l4)
                   /\ \A h \in rule.ports[l4].http :
                         HTTPJustified(h, Backing(Sources(w), rule, l4))
BY Zenon DEF RuleJustified, Names, Sources, Dropped

\* What a rule may allow depends on its direction and its peer alone.
LEMMA SamePeerJustified ==
    ASSUME NEW w, NEW a, NEW b, SamePeer(a, b)
    PROVE  /\ \A l4 : Dropped(w, a, l4) <=> Dropped(w, b, l4)
           /\ \A ws, l4 : Backing(ws, a, l4) = Backing(ws, b, l4)
<1>1. \A f : PeerOf(w, a, f) <=> PeerOf(w, b, f)
  BY Zenon DEF PeerOf, SamePeer
<1>2. \A l4 : Dropped(w, a, l4) <=> Dropped(w, b, l4)
  BY <1>1 DEF Dropped, SamePeer
<1>3. \A ws, l4 : Backing(ws, a, l4) = Backing(ws, b, l4)
  BY Zenon DEF Backing, SamePeer
<1> QED BY <1>2, <1>3

\* A rule composed of justified rules is justified.
LEMMA ComposedJustified ==
    ASSUME NEW w, NEW sources, \A a \in sources : RuleJustified(w, a),
           NEW b, Composed(b, sources)
    PROVE  RuleJustified(w, b)
<1>1. b.fqdns \subseteq Names(w)
  BY RuleJustifiedParts DEF Composed
<1>2. ASSUME NEW l4 \in b.icmps PROVE Dropped(w, b, l4)
  <2>1. PICK a \in sources : SamePeer(a, b) /\ l4 \in a.icmps
    BY <1>2 DEF Composed
  <2>2. Dropped(w, a, l4)
    BY <2>1, RuleJustifiedParts
  <2> QED BY <2>1, <2>2, SamePeerJustified
<1>3. ASSUME NEW l4 \in DOMAIN b.ports
      PROVE  /\ b.ports[l4].dns \subseteq Names(w)
             /\ b.ports[l4].dns = {} => Dropped(w, b, l4)
             /\ \A h \in b.ports[l4].http : HTTPJustified(h, Backing(Sources(w), b, l4))
  <2>1. ASSUME NEW n \in b.ports[l4].dns PROVE n \in Names(w)
    <3>1. PICK a \in sources : l4 \in DOMAIN a.ports /\ n \in a.ports[l4].dns
      BY <1>3 DEF Composed
    <3> QED BY <3>1, RuleJustifiedParts
  <2>2. ASSUME b.ports[l4].dns = {} PROVE Dropped(w, b, l4)
    <3>1. PICK a \in sources : SamePeer(a, b) /\ l4 \in DOMAIN a.ports /\ a.ports[l4].dns = {}
      BY <1>3, <2>2 DEF Composed
    <3>2. Dropped(w, a, l4)
      BY <3>1, RuleJustifiedParts
    <3> QED BY <3>1, <3>2, SamePeerJustified
  <2>3. ASSUME NEW h \in b.ports[l4].http PROVE HTTPJustified(h, Backing(Sources(w), b, l4))
    <3>1. PICK a \in sources : SamePeer(a, b) /\ l4 \in DOMAIN a.ports /\ h \in a.ports[l4].http
      BY <1>3 DEF Composed
    <3>2. HTTPJustified(h, Backing(Sources(w), a, l4))
      BY <3>1, RuleJustifiedParts
    <3>3. Backing(Sources(w), a, l4) = Backing(Sources(w), b, l4)
      BY <3>1, SamePeerJustified
    <3> QED BY <3>2, <3>3
  <2> QED BY <2>1, <2>2, <2>3
<1> QED BY <1>1, <1>2, <1>3, RuleJustifiedParts

\* resolveMinFlowsPerL7Rule gives a number for every option.
LEMMA ResolvedIsInt == \A o \in Options : ResolveMinFlowsPerL7Rule(o.minFlows) \in Int
BY OptionsAssumption DEF ResolveMinFlowsPerL7Rule, DefaultMinFlowsPerL7Rule

\* More requests justify no less.
LEMMA HTTPJustifiedMore ==
    ASSUME NEW h, NEW R, NEW S, R \subseteq S, IsFiniteSet(S), HTTPJustified(h, R)
    PROVE  HTTPJustified(h, S)
<1>1. CASE \E q \in R : h = q \/ h = AnchorPath(q)
  BY <1>1 DEF HTTPJustified
<1>2. ASSUME IsTemplate(h), NEW o \in Options, o.collapse,
             Cardinality({q \in R : RuleMatches(h, q)}) >= ResolveMinFlowsPerL7Rule(o.minFlows)
      PROVE  HTTPJustified(h, S)
  <2> DEFINE A == {q \in R : RuleMatches(h, q)}
             B == {q \in S : RuleMatches(h, q)}
             n == ResolveMinFlowsPerL7Rule(o.minFlows)
  <2>1. A \subseteq B /\ B \subseteq S
    OBVIOUS
  <2>2. IsFiniteSet(B)
    BY <2>1, FS_Subset
  <2>3. Cardinality(A) <= Cardinality(B) /\ Cardinality(A) \in Nat /\ Cardinality(B) \in Nat
    BY <2>1, <2>2, FS_Subset, FS_CardinalityType
  <2>4. Cardinality(A) >= n /\ n \in Int
    BY <1>2, ResolvedIsInt
  <2>5. Cardinality(B) >= n
    <3> HIDE DEF A, B, n
    <3> QED BY <2>3, <2>4
  <2> QED BY <1>2, <2>5 DEF HTTPJustified
<1> QED BY <1>1, <1>2 DEF HTTPJustified

\* What comes out of the collapse is a request or a template that passed the gate.
LEMMA CollapseJustified ==
    ASSUME NEW requests, IsFiniteSet(requests), \A q \in requests : IsRequest(q),
           NEW min \in Int, NEW h \in CollapseHTTPPaths(requests, min)
    PROVE  \/ h \in requests
           \/ IsTemplate(h) /\ Cardinality({q \in requests : RuleMatches(h, q)}) >= min
<1>1. PICK r \in requests :
        h \in CollapseSegmentCountGroup({q \in requests : q.method = r.method /\ Len(q.path) = Len(r.path)},
                                        min)
  BY DEF CollapseHTTPPaths
<1> DEFINE group == {q \in requests : q.method = r.method /\ Len(q.path) = Len(r.path)}
<1>2. group \subseteq requests
  OBVIOUS
<1>3. h \in CollapseSegmentCountGroup(group, min)
  BY <1>1
<1> HIDE DEF group
<1>4. PICK q \in group :
        h = IF /\ Cardinality({p \in group : Template(group, p) = Template(group, q)}) >= min
               /\ Len(Template(group, q).path) <= MaxTemplateSegments
            THEN Template(group, q) ELSE q
  BY <1>3, Zenon DEF CollapseSegmentCountGroup
<1>5. CASE h = q
  BY <1>2, <1>5
<1>6. CASE h # q
  <2> DEFINE A == {p \in group : Template(group, p) = h}
             B == {p \in requests : RuleMatches(h, p)}
  <2>1. h = Template(group, q) /\ Cardinality(A) >= min
    BY <1>4, <1>6
  <2>2. A \subseteq B
    BY <1>2, TemplateMatches
  <2>3. IsFiniteSet(B) /\ B \subseteq requests
    BY FS_Subset
  <2>4. Cardinality(A) <= Cardinality(B) /\ Cardinality(A) \in Nat /\ Cardinality(B) \in Nat
    BY <2>2, <2>3, FS_Subset, FS_CardinalityType
  <2>5. Cardinality(B) >= min
    <3> HIDE DEF A, B
    <3> QED BY <2>1, <2>4
  <2>6. IsTemplate(h)
    <3>1. /\ h = [method |-> q.method, path |-> h.path]
          /\ IsSeq(h.path) /\ Len(h.path) = Len(q.path) /\ DOMAIN h.path = DOMAIN q.path
          /\ \A i \in DOMAIN q.path :
                h.path[i] = IF ClassAt(group, i) THEN Class[q.path[i]] ELSE q.path[i]
      BY <1>2, <2>1, TemplateFacts
    <3>2. IsRequest(q)
      BY <1>2
    <3>3. PICK i \in DOMAIN q.path : ClassAt(group, i)
      <4> SUFFICES ASSUME \A i \in DOMAIN q.path : ~ClassAt(group, i) PROVE FALSE
        OBVIOUS
      <4>1. \A i \in 1..Len(q.path) : h.path[i] = q.path[i]
        BY <3>1, <3>2, SeqFacts DEF IsRequest
      <4>2. h.path = [i \in 1..Len(q.path) |-> h.path[i]] /\ q.path = [i \in 1..Len(q.path) |-> q.path[i]]
        BY <3>1, <3>2, SeqFacts DEF IsRequest
      <4>3. h.path = q.path
        BY <4>1, <4>2
      <4> QED BY <1>6, <3>1, <3>2, <4>3 DEF IsRequest
    <3>4. h.path[i] \in Generalizable
      BY <3>1, <3>3 DEF ClassAt
    <3> QED BY <3>1, <3>3, <3>4 DEF IsTemplate
  <2> QED BY <2>5, <2>6
<1> QED BY <1>5, <1>6

\* The selector of a bucket allows the peer of the flow that created it.
LEMMA OwnSelectorAllows ==
    ASSUME NEW f, IsFlow(f), ~Trackable(f), NEW ns
    PROVE  SelectorAllows(BucketPeer(f, ns), f.peer, ns)
<1>1. SelectLabels(f.peer.labels) \subseteq f.peer.labels
  BY DEF SelectLabels, FilterK8sLabels
<1> QED BY <1>1 DEF SelectorAllows, BucketPeer, BuildPeerSelector

\* The value the requests of a selector are looked up by is that of its bucket's key.
LEMMA SelectorValue ==
    ASSUME NEW f, IsFlow(f), ~Trackable(f), NEW ns, NEW p, p = BucketPeer(f, ns)
    PROVE  PeerKey(f)[2] = IF p.kind = "endpoint" THEN p.labels
                           ELSE IF p.kind = "cidr" THEN p.ip ELSE p.id
<1>1. CASE f.peer.kind = "entity"
  BY <1>1 DEF PeerKey, BucketPeer
<1>2. CASE f.peer.kind = "world"
  BY <1>2 DEF PeerKey, BucketPeer
<1>3. CASE f.peer.kind = "endpoint"
  BY <1>3 DEF PeerKey, BucketPeer, BuildPeerSelector
<1> QED BY <1>1, <1>2, <1>3 DEF IsFlow, Trackable

\* A bucket of flows of the workload, with the flow that created it.
BucketIn(w, b) ==
    /\ b.flows \subseteq ever[w] /\ b.first \in ever[w]
    /\ IsFlow(b.first) /\ ~Trackable(b.first)
    /\ \A f \in b.flows : /\ IsFlow(f) /\ ~Trackable(f)
                          /\ f.dir = b.first.dir /\ PeerKey(f) = PeerKey(b.first)

\* The peer of every flow of a bucket may get what the bucket's selector gets.
LEMMA BucketPeers ==
    ASSUME NEW w, NEW b, BucketIn(w, b), NEW f \in b.flows,
           NEW r, r.dir = b.first.dir, r.peer = BucketPeer(b.first, w.ns)
    PROVE  f.dir = r.dir /\ PeerOf(w, r, f)
<1> DEFINE g == b.first
           ns == w.ns
<1>1. /\ IsFlow(f) /\ ~Trackable(f) /\ IsFlow(g) /\ ~Trackable(g) /\ g \in ever[w]
      /\ f.dir = g.dir /\ PeerKey(f) = PeerKey(g) /\ r.dir = g.dir /\ r.peer = BucketPeer(g, ns)
  BY DEF BucketIn
<1> HIDE DEF g
<1>2. CASE f.peer.kind = "endpoint" => g.peer.ns = f.peer.ns
  <2> HIDE DEF ns
  <2>1. BucketPeer(g, ns) = BucketPeer(f, ns)
    BY <1>1, <1>2, SameSelector
  <2>2. SelectorAllows(r.peer, f.peer, ns)
    BY <1>1, <2>1, OwnSelectorAllows
  <2> QED BY <1>1, <2>2 DEF PeerOf, ns
<1>3. CASE f.peer.kind = "endpoint" /\ g.peer.ns # f.peer.ns
  <2>1. SharedBucket(w, f)
    BY <1>1, <1>3 DEF SharedBucket
  <2> QED BY <1>1, <2>1 DEF PeerOf
<1> QED BY <1>2, <1>3

\* The ports and ICMP types of a bucket were dropped.
LEMMA BucketDropped ==
    ASSUME NEW w, NEW b, BucketIn(w, b), NEW l4 \in L4s(b),
           NEW r, r.dir = b.first.dir, r.peer = BucketPeer(b.first, w.ns)
    PROVE  Dropped(w, r, l4)
<1>1. PICK f \in b.flows : f.l7.kind # "dns" /\ f.l4 = l4
  BY DEF L4s
<1>2. f.dir = r.dir /\ PeerOf(w, r, f)
  BY BucketPeers
<1> QED BY <1>1, <1>2 DEF Dropped, BucketIn

\* A request of the rule's peer and port backs it.
LEMMA Backs ==
    ASSUME NEW ws, NEW v \in ws, NEW x \in ever[v], x.l7.kind = "http",
           NEW first, IsFlow(first), ~Trackable(first), PeerKey(x) = PeerKey(first), x.dir = first.dir,
           NEW ns, NEW r, r.dir = first.dir, r.peer = BucketPeer(first, ns)
    PROVE  Request(x) \in Backing(ws, r, x.l4)
<1>1. PeerKey(x)[2] = IF r.peer.kind = "endpoint" THEN r.peer.labels
                      ELSE IF r.peer.kind = "cidr" THEN r.peer.ip ELSE r.peer.id
  BY SelectorValue
<1>2. x \in UNION {ever[u] : u \in ws}
  OBVIOUS
<1> QED BY <1>1, <1>2 DEF Backing

\* What backs a rule is finite and made of requests.
LEMMA BackingFinite ==
    ASSUME NEW ws, ws \subseteq Workloads, IsFiniteSet(AllFlows), \A f \in AllFlows : IsFlow(f),
           NEW r, NEW l4
    PROVE  IsFiniteSet(Backing(ws, r, l4)) /\ \A q \in Backing(ws, r, l4) : IsRequest(q)
<1> DEFINE S == {g \in UNION {ever[u] : u \in ws} :
        /\ g.l7.kind = "http" /\ g.dir = r.dir /\ g.l4 = l4
        /\ PeerKey(g)[2] = IF r.peer.kind = "endpoint" THEN r.peer.labels
                           ELSE IF r.peer.kind = "cidr" THEN r.peer.ip ELSE r.peer.id}
<1>1. S \subseteq AllFlows /\ \A f \in S : f.l7.kind = "http"
  BY DEF AllFlows
<1>2. Backing(ws, r, l4) = {Request(f) : f \in S}
  BY DEF Backing
<1> HIDE DEF S
<1>3. IsFiniteSet(S)
  BY <1>1, FS_Subset
<1>4. IsFiniteSet({Request(f) : f \in S})
  <2> DEFINE T == {Request(f) : f \in S}
             m == [f \in S |-> Request(f)]
  <2>1. m \in Surjection(S, T)
    BY Zenon DEF Surjection
  <2> HIDE DEF m, T
  <2> QED BY <1>3, <2>1, FS_Surjection DEF T
<1> QED BY <1>1, <1>2, <1>4, RequestFacts

\* The whole-run store holds requests of the histories.
Stored(obs) == \A x \in obs : \E f \in AllFlows : f.l7.kind = "http" /\ x = Observed(f)

\* The requests listed for a port of a bucket, written as they are or collapsed, are
\* backed.
LEMMA ListJustified ==
    ASSUME NEW w \in Workloads, NEW b, BucketIn(w, b), NEW o \in Options, o.collapse => collapsed,
           NEW obs, Stored(obs), IsFiniteSet(AllFlows), \A f \in AllFlows : IsFlow(f),
           NEW r, r.dir = b.first.dir, r.peer = BucketPeer(b.first, w.ns),
           NEW l4, NEW h \in HTTPRules(b, l4, o, obs)
    PROVE  HTTPJustified(h, Backing(Sources(w), r, l4))
<1> DEFINE first == b.first
           ns == w.ns
           https == HTTPFlows(b, l4)
<1>1. IsFlow(first) /\ ~Trackable(first) /\ r.dir = first.dir /\ r.peer = BucketPeer(first, ns)
  BY DEF BucketIn
<1>2. \A f \in https : /\ f \in ever[w] /\ f.l7.kind = "http" /\ f.l4 = l4 /\ f.dir = first.dir
                       /\ PeerKey(f) = PeerKey(first)
  BY DEF BucketIn, HTTPFlows
<1>3. w \in Sources(w) /\ Sources(w) \subseteq Workloads
  BY DEF Sources
<1>4. CASE ~(o.collapse /\ https # {})
  <2>1. PICK f \in https : h = AnchorPath(Request(f))
    BY <1>4 DEF HTTPRules
  <2> HIDE DEF https, first, ns
  <2>2. Request(f) \in Backing(Sources(w), r, f.l4)
    BY <1>1, <1>2, <1>3, Backs
  <2> QED BY <1>2, <2>1, <2>2 DEF HTTPJustified
<1>5. CASE o.collapse /\ https # {}
  <2> DEFINE c == CHOOSE f \in https : TRUE
             reqs == MergeL7PathSets(c, obs)
             min == ResolveMinFlowsPerL7Rule(o.minFlows)
             back == Backing(Sources(w), r, l4)
  <2>1. c \in https
    BY <1>5
  <2>2. h \in CollapseHTTPPaths(reqs, min)
    BY <1>5 DEF HTTPRules
  <2> HIDE DEF c, https, first, ns
  <2>3. Sources(w) = Workloads
    BY <1>5 DEF Sources
  <2>4. ASSUME NEW q \in reqs PROVE q \in back
    <3>1. PICK x \in obs : x[1] = CollapseObsKey(c) /\ q = x[2]
      BY DEF MergeL7PathSets
    <3>2. PICK f \in AllFlows : f.l7.kind = "http" /\ x = Observed(f)
      BY DEF Stored
    <3>3. q = Request(f) /\ CollapseObsKey(f) = CollapseObsKey(c)
      BY <3>1, <3>2 DEF Observed
    <3>4. f.dir = first.dir /\ PeerKey(f) = PeerKey(first) /\ f.l4 = l4
      BY <1>2, <2>1, <3>3 DEF CollapseObsKey
    <3>5. PICK v \in Workloads : f \in ever[v]
      BY DEF AllFlows
    <3>6. Request(f) \in Backing(Workloads, r, f.l4)
      BY <1>1, <3>2, <3>4, <3>5, Backs
    <3> QED BY <2>3, <3>3, <3>4, <3>6
  <2>5. IsFiniteSet(back) /\ \A q \in back : IsRequest(q)
    BY <1>3, BackingFinite
  <2> HIDE DEF reqs, back
  <2>6. reqs \subseteq back /\ IsFiniteSet(reqs)
    BY <2>4, <2>5, FS_Subset
  <2>7. min \in Int
    BY ResolvedIsInt
  <2>8. HTTPJustified(h, reqs)
    <3>1. h \in reqs \/ (IsTemplate(h) /\ Cardinality({q \in reqs : RuleMatches(h, q)}) >= min)
      <4> HIDE DEF min
      <4> QED BY <2>2, <2>5, <2>6, <2>7, CollapseJustified
    <3> QED BY <1>5, <3>1 DEF HTTPJustified
  <2> QED BY <2>5, <2>6, <2>8, HTTPJustifiedMore DEF back
<1> QED BY <1>4, <1>5

\* A port rule or an ICMP rule of a bucket allows nothing that was not dropped.
LEMMA BucketRuleJustified ==
    ASSUME NEW w \in Workloads, NEW b, BucketIn(w, b), NEW o \in Options, o.collapse => collapsed,
           NEW obs, Stored(obs), IsFiniteSet(AllFlows), \A f \in AllFlows : IsFlow(f),
           NEW r \in ToSet(RulesFrom(b, w.ns, o, obs))
    PROVE  RuleJustified(w, r)
<1> DEFINE ns == w.ns
<1>1. PICK ports, icmps : /\ r = BucketRule(b, ns, o, obs, ports, icmps)
                          /\ ports \subseteq L4s(b) /\ icmps \subseteq L4s(b)
  <2>1. Ports(b) \subseteq L4s(b) /\ ICMPs(b) \subseteq L4s(b)
    BY DEF Ports, ICMPs
  <2>2. r = BucketRule(b, ns, o, obs, Ports(b), {}) \/ r = BucketRule(b, ns, o, obs, {}, ICMPs(b))
    BY RulesFromFacts
  <2> QED BY <2>1, <2>2
<1>2. /\ r.dir = b.first.dir /\ r.peer = BucketPeer(b.first, ns) /\ r.fqdns = {} /\ r.icmps = icmps
      /\ DOMAIN r.ports = ports
      /\ \A l4 \in ports : r.ports[l4].dns = {} /\ r.ports[l4].http = HTTPRules(b, l4, o, obs)
  BY <1>1 DEF BucketRule, PortRulesFor
<1>3. \A l4 \in L4s(b) : Dropped(w, r, l4)
  BY <1>2, BucketDropped
<1>4. \A l4 \in ports : \A h \in r.ports[l4].http : HTTPJustified(h, Backing(Sources(w), r, l4))
  BY <1>2, ListJustified
<1> QED BY <1>1, <1>2, <1>3, <1>4, RuleJustifiedParts

\* A DNS rule allows the lookup of names that were looked up.
LEMMA DNSRuleJustified ==
    ASSUME NEW w, NEW peer, NEW fqdns, NEW names, fqdns \subseteq names, names # {},
           names \subseteq Names(w)
    PROVE  RuleJustified(w, DNSRule(peer, fqdns, names))
<1> DEFINE r == DNSRule(peer, fqdns, names)
<1>1. /\ r.fqdns = fqdns /\ r.icmps = {} /\ DOMAIN r.ports = DNSPorts
      /\ \A p \in DNSPorts : r.ports[p].dns = names /\ r.ports[p].http = {}
  BY DEF DNSRule
<1> HIDE DEF r
<1>2. RuleJustified(w, r)
  BY <1>1, RuleJustifiedParts
<1> QED BY <1>2 DEF r

\* A bucket of the builder, made of flows the workload's history holds.
LEMMA BuiltBucket ==
    ASSUME NEW w, NEW flows, IsSeq(flows), \A g \in ToSet(flows) : IsFlow(g), NEW o,
           \A g \in ToSet(flows) : ~Trackable(g) => Seen(g, o.l7) \in ever[w],
           NEW fs, fs = SeenFlows(flows, o), NEW dir, NEW i, Opens(fs, dir, i)
    PROVE  BucketIn(w, Bucket(fs, i))
<1>1. SeenBy(fs, flows, o)
  BY SeenFlowsFacts
<1>2. \A j \in DOMAIN fs : IsFlow(fs[j]) /\ (~Trackable(fs[j]) => fs[j] \in ever[w])
  <2> SUFFICES ASSUME NEW j \in DOMAIN fs
               PROVE  IsFlow(fs[j]) /\ (~Trackable(fs[j]) => fs[j] \in ever[w])
    OBVIOUS
  <2> DEFINE x == flows[j]
             y == fs[j]
             on == o.l7
  <2>1. x \in ToSet(flows) /\ IsFlow(x) /\ y = Seen(x, on) /\ IsFlow(y)
    BY <1>1, SeqFacts DEF SeenBy
  <2>2. ~Trackable(x) => y \in ever[w]
    BY <2>1
  <2> HIDE DEF x, y, on
  <2>3. Trackable(y) <=> Trackable(x)
    BY <2>1, SeenFacts
  <2> QED BY <2>1, <2>2, <2>3 DEF y
<1>3. i \in DOMAIN fs /\ ~Trackable(fs[i])
  BY DEF Opens
<1>4. /\ Bucket(fs, i).first = fs[i]
      /\ \A f \in Bucket(fs, i).flows : \E k \in DOMAIN fs : f = fs[k] /\ SameBucket(fs[k], fs[i])
  BY DEF Bucket
<1> HIDE DEF Bucket
<1> QED BY <1>2, <1>3, <1>4 DEF BucketIn, SameBucket

\* What the aggregator hands to BuildPolicy, when its steps have been recorded.
Built(w, flows, o, obs) ==
    /\ w \in Workloads /\ o \in Options
    /\ o.collapse => collapsed
    /\ IsSeq(flows) /\ \A g \in ToSet(flows) : IsFlow(g)
    /\ \A g \in ToSet(flows) : ~Trackable(g) => Seen(g, o.l7) \in ever[w]
    /\ Stored(obs)
    /\ IsFiniteSet(AllFlows) /\ \A f \in AllFlows : IsFlow(f)

BuiltJustified ==
    \A w, flows, o, obs : Built(w, flows, o, obs) =>
        \A r \in ToSet(BuildPolicy(w.ns, flows, o, obs).rules) : RuleJustified(w, r)

\* A policy that is built allows nothing that was not dropped.
LEMMA BuiltAreJustified == BuiltJustified
<1> SUFFICES ASSUME NEW w, NEW flows, NEW o, NEW obs, Built(w, flows, o, obs),
                    NEW r \in ToSet(BuildPolicy(w.ns, flows, o, obs).rules)
             PROVE  RuleJustified(w, r)
  BY DEF BuiltJustified
<1> DEFINE fs == SeenFlows(flows, o)
           ns == w.ns
<1>1. ASSUME NEW q, InBuiltPolicy(q, flows, ns, o, obs) PROVE RuleJustified(w, q)
  <2>1. PICK dir \in {"ingress", "egress"} : InBuiltRules(q, fs, dir, ns, o, obs)
    BY <1>1 DEF InBuiltPolicy
  <2>2. PICK i \in DOMAIN fs :
          /\ Opens(fs, dir, i)
          /\ \/ q \in ToSet(RulesFrom(Bucket(fs, i), ns, o, obs))
             \/ q \in ToSet(FqdnEgressRulesFrom(Bucket(fs, i)))
    BY <2>1, Zenon DEF InBuiltRules
  <2> DEFINE b == Bucket(fs, i)
  <2>3. BucketIn(w, b)
    <3> HIDE DEF b
    <3>1. \A gs : gs = fs => BucketIn(w, Bucket(gs, i))
      BY <2>2, BuiltBucket DEF Built
    <3> QED BY <3>1 DEF b
  <2> HIDE DEF b, fs
  <2>4. CASE q \in ToSet(RulesFrom(b, ns, o, obs))
    <3>1. /\ w \in Workloads /\ o \in Options /\ (o.collapse => collapsed) /\ Stored(obs)
          /\ IsFiniteSet(AllFlows) /\ \A f \in AllFlows : IsFlow(f)
      BY Zenon DEF Built
    <3>2. q \in ToSet(RulesFrom(b, w.ns, o, obs))
      BY <2>4
    <3> QED BY <2>3, <3>1, <3>2, BucketRuleJustified
  <2>5. CASE q \in ToSet(FqdnEgressRulesFrom(b))
    <3>1. DNSNames(b) # {} /\ q = DNSRule(NoPeer, DNSNames(b), DNSNames(b))
      BY <2>5, FqdnRulesFacts
    <3>2. DNSNames(b) \subseteq Names(w)
      BY <2>3 DEF DNSNames, Names, BucketIn
    <3> QED BY <3>1, <3>2, DNSRuleJustified
  <2> QED BY <2>2, <2>4, <2>5 DEF b
<1>2. CASE InBuiltPolicy(r, flows, ns, o, obs)
  BY <1>1, <1>2
<1>3. ASSUME NEW n, n # {}, r = DNSRule(KubeDNSSelector, {}, n),
             \A x \in n : \E q : InBuiltPolicy(q, flows, ns, o, obs) /\ x \in q.fqdns
      PROVE  RuleJustified(w, r)
  <2>1. n \subseteq Names(w)
    BY <1>1, <1>3, RuleJustifiedParts
  <2> QED BY <1>3, <2>1, DNSRuleJustified
<1>4. \/ InBuiltPolicy(r, flows, ns, o, obs)
      \/ \E n : /\ n # {} /\ r = DNSRule(KubeDNSSelector, {}, n)
                /\ \A x \in n : \E q : InBuiltPolicy(q, flows, ns, o, obs) /\ x \in q.fqdns
  BY BuildPolicyFacts DEF Built
<1> QED BY <1>2, <1>3, <1>4

\* What is built after a step is justified after it.
LEMMA BuiltAreJustifiedNext == BuiltJustified'
BY BuiltAreJustified, PTL

BackingsFinite ==
    (IsFiniteSet(AllFlows) /\ \A f \in AllFlows : IsFlow(f)) =>
        \A ws, r, l4 : ws \subseteq Workloads => IsFiniteSet(Backing(ws, r, l4))

\* Finitely many flows back a rule.
LEMMA BackingsAreFinite == BackingsFinite
BY BackingFinite DEF BackingsFinite

\* Finitely many flows back a rule after a step.
LEMMA BackingsFiniteNext == BackingsFinite'
BY BackingsAreFinite, PTL

\* A history that grows, or a run that turns the collapse on, backs no less.
LEMMA JustifiedKept ==
    ASSUME \A v \in Workloads : ever[v] \subseteq ever'[v], collapsed => collapsed',
           IsFiniteSet(AllFlows'), \A f \in AllFlows' : IsFlow(f),
           NEW w \in Workloads, NEW r, RuleJustified(w, r)
    PROVE  RuleJustified(w, r)'
<1>1. Names(w) \subseteq Names(w)'
  BY DEF Names
<1>2. \A f : PeerOf(w, r, f) => PeerOf(w, r, f)'
  <2>1. \A f : SharedBucket(w, f) => SharedBucket(w, f)'
    BY DEF SharedBucket
  <2>2. \A f : (\E g \in ever[w] : g.dir = f.dir /\ PeerKey(g) = PeerKey(f) /\ r.peer = BucketPeer(g, w.ns))
            => (\E g \in ever'[w] : g.dir = f.dir /\ PeerKey(g) = PeerKey(f) /\ r.peer = BucketPeer(g, w.ns))
    OBVIOUS
  <2> QED BY <2>1, <2>2, Zenon DEF PeerOf
<1>3. \A l4 : Dropped(w, r, l4) => Dropped(w, r, l4)'
  <2>1. \A f \in ever[w] : f \in ever'[w]
    OBVIOUS
  <2> QED BY <1>2, <2>1, Zenon DEF Dropped
<1>4. Sources(w) \subseteq Sources(w)' /\ Sources(w)' \subseteq Workloads
  BY DEF Sources
<1>5. ASSUME NEW l4, NEW h, HTTPJustified(h, Backing(Sources(w), r, l4))
      PROVE  HTTPJustified(h, Backing(Sources(w), r, l4)')
  <2>1. Backing(Sources(w), r, l4) \subseteq Backing(Sources(w), r, l4)'
    <3>1. UNION {ever[u] : u \in Sources(w)} \subseteq UNION {ever'[u] : u \in Sources(w)'}
      BY <1>4
    <3> QED BY <3>1 DEF Backing
  <2>2. IsFiniteSet(Backing(Sources(w), r, l4)')
    <3>1. PICK S : S = Sources(w)'
      OBVIOUS
    <3>2. IsFiniteSet(Backing(S, r, l4)')
      BY <1>4, <3>1, BackingsFiniteNext DEF BackingsFinite
    <3> QED BY <3>1, <3>2 DEF Backing
  <2> QED BY <1>5, <2>1, <2>2, HTTPJustifiedMore
<1>6. /\ r.fqdns \subseteq Names(w)'
      /\ \A l4 \in r.icmps : Dropped(w, r, l4)'
      /\ \A l4 \in DOMAIN r.ports :
            /\ r.ports[l4].dns \subseteq Names(w)'
            /\ r.ports[l4].dns = {} => Dropped(w, r, l4)'
            /\ \A h \in r.ports[l4].http : HTTPJustified(h, Backing(Sources(w), r, l4)')
  BY <1>1, <1>3, <1>5, RuleJustifiedParts
<1> QED BY <1>6, Zenon DEF RuleJustified, Names, Sources, Dropped, HTTPJustified

-----------------------------------------------------------------------------
(* The inductive invariant: events and files hold justified rules only.    *)

Justified ==
    /\ IsFiniteSet(AllFlows)
    /\ Stored(collected \cup retained)
    /\ opts.collapse => collapsed
    /\ \A ev \in ToSet(queue) : \A r \in ToSet(ev.policy.rules) : RuleJustified(ev.wl, r)
    /\ NothingUnjustified

\* Without events and files nothing needs a reason.
LEMMA InitJustified == Init => Justified
<1> SUFFICES ASSUME Init PROVE Justified
  OBVIOUS
<1>1. AllFlows = {} /\ IsFiniteSet({})
  BY FS_EmptySet DEF Init, AllFlows
<1>2. Stored(collected \cup retained)
  BY DEF Init, Stored
<1>3. ToSet(queue) = {} /\ NothingUnjustified
  BY EmptyIsSeq DEF Init, NothingUnjustified, RulesIn
<1> QED BY <1>1, <1>2, <1>3 DEF Init, Justified

\* Histories only grow, and stay finite.
LEMMA HistoriesGrow ==
    ASSUME TypeInv, Justified, [Next]_vars
    PROVE  /\ \A v \in Workloads : ever[v] \subseteq ever'[v]
           /\ collapsed => collapsed'
           /\ IsFiniteSet(AllFlows')
<1>1. CASE UNCHANGED ever /\ (collapsed => collapsed')
  BY <1>1 DEF AllFlows, Justified
<1>2. ASSUME NEW w \in Workloads, BuildBucket(w)
      PROVE  /\ \A v \in Workloads : ever[v] \subseteq ever'[v]
             /\ collapsed => collapsed'
             /\ IsFiniteSet(AllFlows')
  <2>1. ever' = [ever EXCEPT ![w] = @ \cup Demands(w)] /\ collapsed' = collapsed
    BY <1>2 DEF BuildBucket, run
  <2>2. AllFlows' \subseteq AllFlows \cup Demands(w) /\ \A v \in Workloads : ever[v] \subseteq ever'[v]
    BY <2>1 DEF AllFlows, TypeInv, Scalars, Indexed
  <2>3. IsFiniteSet(Demands(w))
    <3> DEFINE on == opts.l7
               S == {g \in ToSet(bucket[w]) : ~Trackable(g)}
               T == {Seen(f, on) : f \in S}
               m == [f \in S |-> Seen(f, on)]
    <3>1. IsFiniteSet(ToSet(bucket[w]))
      BY ToSetFinite DEF TypeInv, Buffers
    <3>2. IsFiniteSet(S)
      BY <3>1, FS_Subset
    <3>3. Demands(w) = T
      BY DEF Demands
    <3> HIDE DEF on, S
    <3>4. m \in Surjection(S, T)
      BY Zenon DEF Surjection
    <3> HIDE DEF m, T
    <3> QED BY <3>2, <3>3, <3>4, FS_Surjection
  <2>4. IsFiniteSet(AllFlows \cup Demands(w))
    BY <2>3, FS_Union DEF Justified
  <2> QED BY <2>1, <2>2, <2>4, FS_Subset
<1>3. CASE Idle
  BY <1>1, <1>3 DEF Idle, run
<1>4. CASE Skip \/ WriteOk
  BY <1>1, <1>4 DEF Skip, WriteOk, Take, run
<1>5. CASE Restart
  BY <1>1, <1>5 DEF Restart
<1> QED BY <1>2, <1>3, <1>4, <1>5, StepKinds

\* Every step keeps the rules of events and files justified.
LEMMA NextJustified ==
    ASSUME TypeInv, Flowing, Flowing', Justified, [Next]_vars
    PROVE  Justified'
<1>1. /\ \A v \in Workloads : ever[v] \subseteq ever'[v]
      /\ collapsed => collapsed'
      /\ IsFiniteSet(AllFlows') /\ \A f \in AllFlows' : IsFlow(f)
  BY HistoriesGrow DEF Flowing, AllFlows
<1>2. \A w \in Workloads : \A r : RuleJustified(w, r) => RuleJustified(w, r)'
  BY <1>1, JustifiedKept
<1>3. \A x : Stored(x) => \A y : y \in x => \E f \in AllFlows' : f.l7.kind = "http" /\ y = Observed(f)
  BY <1>1 DEF Stored, AllFlows
<1>4. /\ \A ev \in ToSet(queue) : ev.wl \in Workloads
      /\ \A ev \in ToSet(queue) : \A r \in ToSet(ev.policy.rules) : RuleJustified(ev.wl, r)'
  BY <1>2 DEF Justified, TypeInv, Queued, Event
<1>5. ASSUME UNCHANGED file PROVE NothingUnjustified'
  <2>1. \A w \in Workloads : RulesIn(file[w])' = RulesIn(file[w])
    BY <1>5 DEF RulesIn
  <2> QED BY <1>2, <2>1 DEF NothingUnjustified, Justified
<1>6. CASE Idle
  <2>1. UNCHANGED <<collected, retained, queue, file, opts, collapsed>>
    BY <1>6 DEF Idle, writer, run
  <2>2. Stored(collected \cup retained)'
    BY <1>3, <2>1 DEF Justified, Stored
  <2> QED BY <1>1, <1>4, <1>5, <2>1, <2>2 DEF Justified
<1>7. ASSUME NEW w \in Workloads, BuildBucket(w) PROVE Justified'
  <2>0. PICK flows, o, obs : /\ flows = bucket[w] /\ o = opts
                             /\ obs = retained \cup (collected \cup Observations(w))
    OBVIOUS
  <2> DEFINE p == BuildPolicy(w.ns, flows, o, obs)
             ev == [wl |-> w, flows |-> Demands(w), replace |-> opts.l7 /\ opts.collapse, policy |-> p]
  <2>1. /\ queue' = Append(queue, ev) /\ UNCHANGED <<file, opts, collapsed>>
        /\ collected' \cup retained' = obs
        /\ ever'[w] = ever[w] \cup Demands(w)
    BY <1>7, <2>0 DEF BuildBucket, Absorb, writer, run, TypeInv, Scalars, Indexed
  <2>2. \A y \in obs : \E f \in AllFlows' : f.l7.kind = "http" /\ y = Observed(f)
    <3>1. \A y \in Observations(w) : \E f \in Demands(w) : f.l7.kind = "http" /\ y = Observed(f)
      BY DEF Observations, Observed
    <3>2. Demands(w) \subseteq AllFlows'
      BY <2>1 DEF AllFlows
    <3> QED BY <1>3, <2>0, <3>1, <3>2 DEF Justified
  <2>3. IsSeq(flows) /\ \A g \in ToSet(flows) : IsFlow(g) /\ (~Trackable(g) => Seen(g, o.l7) \in ever'[w])
    BY <2>0, <2>1, DemandsFacts DEF TypeInv, Buffers
  <2>4. Built(w, flows, o, obs)'
    <3>1. o \in Options /\ (o.collapse => collapsed')
      BY <2>0, <2>1 DEF TypeInv, Scalars, Justified
    <3> QED BY <1>1, <2>2, <2>3, <3>1 DEF Built, Stored
  <2>5. \A r \in ToSet(p.rules) : RuleJustified(w, r)'
    BY <2>4, BuiltAreJustifiedNext DEF BuiltJustified
  <2>6. ToSet(queue') = ToSet(queue) \cup {ev} /\ ev.wl = w /\ ev.policy = p
    <3>1. ev.wl = w /\ ev.policy = p
      OBVIOUS
    <3> HIDE DEF ev
    <3> QED BY <2>1, <3>1, AppendIsSeq DEF TypeInv, Queued
  <2> HIDE DEF ev, p
  <2>7. ASSUME NEW e \in ToSet(queue'), NEW r \in ToSet(e.policy.rules) PROVE RuleJustified(e.wl, r)'
    <3>1. CASE e \in ToSet(queue)
      BY <1>4, <2>7, <3>1
    <3>2. CASE e = ev
      <4>1. PICK v : v = e.wl /\ v = w
        BY <2>6, <3>2
      <4>2. RuleJustified(v, r)'
        BY <2>5, <2>6, <2>7, <3>2, <4>1
      <4> QED BY <4>1, <4>2
    <3> QED BY <2>6, <3>1, <3>2
  <2>8. Stored(collected \cup retained)'
    BY <2>1, <2>2 DEF Stored
  <2> QED BY <1>1, <1>5, <2>1, <2>7, <2>8 DEF Justified
<1>8. ASSUME Take PROVE /\ \A ev \in ToSet(queue') : \A r \in ToSet(ev.policy.rules) : RuleJustified(ev.wl, r)'
                        /\ Stored(collected \cup retained)' /\ (opts'.collapse => collapsed')
  <2>1. ToSet(queue') \subseteq ToSet(queue) /\ UNCHANGED <<collected, retained, opts, collapsed>>
    BY <1>8, TailIsSeq DEF Take, aggregator, run, TypeInv, Queued
  <2>2. Stored(collected \cup retained)'
    BY <1>3, <2>1 DEF Justified, Stored
  <2> QED BY <1>4, <2>1, <2>2 DEF Justified
<1>9. CASE Skip
  BY <1>1, <1>5, <1>8, <1>9 DEF Skip, Justified
<1>10. CASE WriteOk
  <2>0. PICK ev : ev = Head(queue)
    OBVIOUS
  <2> DEFINE w == ev.wl
             old == file[w]
             p == IF old = NoPolicy THEN ev.policy ELSE MergePolicy(old, ev.policy, ev.replace)
  <2>1. Take /\ file' = [file EXCEPT ![w] = p]
    BY <1>10, <2>0 DEF WriteOk
  <2>2. /\ w \in Workloads /\ ev.policy # NoPolicy /\ Proper(ev.policy) /\ Proper(old)
        /\ ev \in ToSet(queue)
    BY <2>0, <2>1, TakeFacts, TailIsSeq DEF Event, TypeInv, Filed, Take, Queued
  <2>3. \A r \in ToSet(ev.policy.rules) : RuleJustified(w, r)
    BY <2>2 DEF Justified
  <2>4. \A r \in ToSet(p.rules) : RuleJustified(w, r)
    <3>1. CASE old = NoPolicy
      BY <2>3, <3>1
    <3>2. CASE old # NoPolicy
      <4> DEFINE new == ev.policy
                 rep == ev.replace
                 sources == ToSet(old.rules) \cup ToSet(new.rules)
      <4>1. IsPolicy(old) /\ IsPolicy(new) /\ p = MergePolicy(old, new, rep)
        BY <2>2, <3>2 DEF Proper
      <4>2. \A a \in sources : RuleJustified(w, a)
        BY <2>2, <2>3, <3>2 DEF Justified, NothingUnjustified, RulesIn
      <4> HIDE DEF old, new, rep, p
      <4>3. IsPolicy(p) /\ MergedUpTo(p.rules, old.rules, new.rules, Len(new.rules), rep)
        BY <4>1, MergePolicyFacts
      <4>4. ASSUME NEW r \in ToSet(p.rules) PROVE Composed(r, sources)
        <5>1. PICK i \in 1..Len(p.rules) : r = p.rules[i]
          BY <4>3, SeqFacts DEF MergedUpTo, IsRules
        <5> QED BY <4>3, <5>1 DEF MergedUpTo
      <4> HIDE DEF sources
      <4> QED BY <4>2, <4>4, ComposedJustified
    <3> QED BY <3>1, <3>2
  <2> HIDE DEF p, w
  <2>5. \A v \in Workloads : file'[v] = IF v = w THEN p ELSE file[v]
    BY <2>1 DEF TypeInv, Filed, Indexed
  <2>6. \A v \in Workloads : \A r \in RulesIn(file'[v]) : RuleJustified(v, r)
    BY <2>4, <2>5 DEF Justified, NothingUnjustified, RulesIn
  <2>7. NothingUnjustified'
    <3>1. \A v \in Workloads : RulesIn(file[v])' = RulesIn(file'[v])
      BY DEF RulesIn
    <3> QED BY <1>2, <2>6, <3>1 DEF NothingUnjustified
  <2> QED BY <1>1, <1>8, <2>1, <2>7 DEF Justified
<1>11. CASE Restart
  <2>1. /\ UNCHANGED file /\ queue' = <<>> /\ (opts'.collapse => collapsed')
        /\ collected' = {} /\ retained' = {}
    BY <1>11 DEF Restart
  <2>2. ToSet(queue') = {}
    BY <2>1, EmptyIsSeq
  <2> QED BY <1>1, <1>5, <2>1, <2>2 DEF Justified, Stored
<1> QED BY <1>6, <1>7, <1>9, <1>10, <1>11, StepKinds

(* Every peer, port, ICMP type and DNS name of a file comes from a flow of   *)
(* its workload, every literal path was observed and every template passed  *)
(* the gate, but for the two gaps the property leaves out.                  *)
THEOREM NothingUnjustifiedSafe == Spec => []NothingUnjustified
<1>1. TypeInv /\ Flowing /\ Justified /\ [Next]_vars => Flowing' /\ Justified'
  BY NextFlowing, NextJustified
<1>2. Flowing /\ Justified => NothingUnjustified
  BY DEF Justified
<1>3. Init => TypeInv /\ Flowing /\ Justified
  BY InitTypeInv, InitCoverage, InitJustified DEF Coverage
<1> QED BY <1>1, <1>2, <1>3, NextTypeInv, PTL DEF Spec
-----------------------------------------------------------------------------
(* The collapse leaves no literal beside a template that matches it.       *)

\* A request whose path is made of segments of the wire form.
IsWire(q) == IsRequest(q) /\ \A i \in DOMAIN q.path : q.path[i] \in DOMAIN Class

\* An HTTP flow's request is one.
LEMMA RequestIsWire ==
    ASSUME NEW f, IsFlow(f), f.l7.kind = "http"
    PROVE  IsWire(Request(f))
<1>1. IsRequest(Request(f)) /\ Request(f).path = f.l7.path
  BY RequestFacts DEF Request
<1>2. f.l7.path \in Seq(DOMAIN Class)
  BY DEF IsFlow
<1>3. \A i \in DOMAIN f.l7.path : f.l7.path[i] \in DOMAIN Class
  BY <1>2, SeqIsSeq, SeqFacts
<1> QED BY <1>1, <1>3 DEF IsWire

\* Two paths that agree at every position are one.
LEMMA SamePath ==
    ASSUME NEW p, IsSeq(p), NEW q, IsSeq(q), Len(p) = Len(q), \A i \in 1..Len(p) : p[i] = q[i]
    PROVE  p = q
<1>1. p = [i \in 1..Len(p) |-> p[i]] /\ q = [i \in 1..Len(q) |-> q[i]]
  BY SeqFacts
<1> QED BY <1>1

\* At a class position every request of the group has the same class.
LEMMA OneClass ==
    ASSUME NEW group, NEW i, ClassAt(group, i), NEW a \in group, NEW b \in group
    PROVE  Class[a.path[i]] = Class[b.path[i]] /\ Class[a.path[i]] \in Generalizable
BY DEF ClassAt

\* A template matches no other template of its group, and a request only if it is
\* the request's own template.
LEMMA TemplateMatchesOwn ==
    ASSUME NEW group, NEW a \in group, NEW b \in group, IsWire(a), IsWire(b),
           Len(a.path) = Len(b.path), a.method = b.method,
           NEW h, h = b \/ h = Template(group, b), RuleMatches(Template(group, a), h)
    PROVE  Template(group, b) = Template(group, a)
<1> DEFINE t == Template(group, a)
           u == Template(group, b)
<1>1. /\ t = [method |-> a.method, path |-> t.path]
      /\ IsSeq(t.path) /\ Len(t.path) = Len(a.path) /\ DOMAIN t.path = DOMAIN a.path
      /\ \A i \in DOMAIN a.path :
            t.path[i] = IF ClassAt(group, i) THEN Class[a.path[i]] ELSE a.path[i]
  BY TemplateFacts DEF IsWire
<1>2. /\ u = [method |-> b.method, path |-> u.path]
      /\ IsSeq(u.path) /\ Len(u.path) = Len(b.path) /\ DOMAIN u.path = DOMAIN b.path
      /\ \A i \in DOMAIN b.path :
            u.path[i] = IF ClassAt(group, i) THEN Class[b.path[i]] ELSE b.path[i]
  BY TemplateFacts DEF IsWire
<1>3. /\ DOMAIN a.path = 1..Len(a.path) /\ DOMAIN b.path = 1..Len(a.path)
      /\ \A i \in 1..Len(a.path) : a.path[i] \in DOMAIN Class
  BY SeqFacts DEF IsWire, IsRequest
<1>4. \A i \in DOMAIN t.path :
         t.path[i] = h.path[i] \/ (t.path[i] \in Generalizable /\ t.path[i] = Class[h.path[i]])
  BY DEF RuleMatches
<1> HIDE DEF t, u
<1>5. ASSUME NEW i \in 1..Len(a.path) PROVE t.path[i] = u.path[i]
  <2>1. CASE ClassAt(group, i)
    <3>1. t.path[i] = Class[a.path[i]] /\ u.path[i] = Class[b.path[i]]
      BY <1>1, <1>2, <1>3, <2>1
    <3> QED BY <2>1, <3>1, OneClass
  <2>2. CASE ~ClassAt(group, i)
    <3>1. t.path[i] = a.path[i] /\ u.path[i] = b.path[i] /\ t.path[i] \notin Generalizable
      BY <1>1, <1>2, <1>3, <2>2, ClassAssumption
    <3>2. h.path[i] = b.path[i]
      <4>1. h = b \/ h = u
        BY DEF u
      <4> QED BY <3>1, <4>1
    <3> QED BY <1>1, <1>3, <1>4, <3>1, <3>2
  <2> QED BY <2>1, <2>2
<1>6. t.path = u.path
  BY <1>1, <1>2, <1>5, SamePath
<1>7. t = u
  BY <1>1, <1>2, <1>6
<1> QED BY <1>7 DEF t, u

\* A template of the collapsed list is that of a group that passed the gate.
LEMMA CollapseIsClean ==
    ASSUME NEW requests, \A q \in requests : IsWire(q), NEW min
    PROVE  Clean(CollapseHTTPPaths(requests, min))
<1> DEFINE Group(r) == {q \in requests : q.method = r.method /\ Len(q.path) = Len(r.path)}
           Passes(g, q) == /\ Cardinality({p \in g : Template(g, p) = Template(g, q)}) >= min
                           /\ Len(Template(g, q).path) <= MaxTemplateSegments
           Emits(h, g, q) == q \in g /\ h = IF Passes(g, q) THEN Template(g, q) ELSE q
<1>1. ASSUME NEW h \in CollapseHTTPPaths(requests, min)
      PROVE  \E r, q : r \in requests /\ Emits(h, Group(r), q)
  <2>1. PICK r \in requests : h \in CollapseSegmentCountGroup(Group(r), min)
    BY DEF CollapseHTTPPaths
  <2> DEFINE g == Group(r)
  <2> HIDE DEF Group
  <2>2. PICK q \in g : h = IF Passes(g, q) THEN Template(g, q) ELSE q
    BY <2>1, Zenon DEF CollapseSegmentCountGroup
  <2> QED BY <2>2
<1> SUFFICES ASSUME NEW h \in CollapseHTTPPaths(requests, min),
                    NEW t \in CollapseHTTPPaths(requests, min), IsTemplate(t), RuleMatches(t, h)
             PROVE  h = t
  BY DEF Clean
<1>2. PICK r, a : r \in requests /\ Emits(t, Group(r), a)
  BY <1>1
<1>3. PICK s, b : s \in requests /\ Emits(h, Group(s), b)
  BY <1>1
<1>4. ASSUME NEW x, NEW g, g \subseteq requests, NEW q, Emits(x, g, q)
      PROVE  /\ q \in requests /\ IsWire(q) /\ (x = q \/ x = Template(g, q))
             /\ x.method = q.method /\ Len(x.path) = Len(q.path)
  <2>1. q \in requests /\ IsWire(q) /\ (x = q \/ x = Template(g, q))
    BY <1>4
  <2>2. Template(g, q).method = q.method /\ Len(Template(g, q).path) = Len(q.path)
    <3>1. IsRequest(q)
      BY <2>1 DEF IsWire
    <3> DEFINE u == Template(g, q)
    <3>2. u = [method |-> q.method, path |-> u.path] /\ Len(u.path) = Len(q.path)
      BY <3>1, TemplateFacts
    <3> HIDE DEF u
    <3>3. u.method = q.method
      BY <3>2
    <3> QED BY <3>2, <3>3 DEF u
  <2> QED BY <2>1, <2>2
<1>5. a \in Group(r) /\ b \in Group(s)
  BY <1>2, <1>3
<1>6. Group(r) \subseteq requests /\ Group(s) \subseteq requests
  OBVIOUS
<1> HIDE DEF Emits
<1>7. /\ IsWire(a) /\ IsWire(b) /\ (t = a \/ t = Template(Group(r), a))
      /\ (h = b \/ h = Template(Group(s), b))
      /\ t.method = a.method /\ Len(t.path) = Len(a.path)
      /\ h.method = b.method /\ Len(h.path) = Len(b.path)
  BY <1>2, <1>3, <1>4, <1>5, <1>6
<1>8. a.method = b.method /\ Len(a.path) = Len(b.path)
  BY <1>7 DEF RuleMatches
<1>9. Group(r) = Group(s)
  BY <1>5, <1>8
<1> DEFINE g == Group(r)
<1>10. a \in g /\ b \in g /\ Emits(t, g, a) /\ Emits(h, g, b)
  BY <1>2, <1>3, <1>5, <1>9
<1>11. t # a
  <2>1. \A i \in DOMAIN a.path : a.path[i] \notin Generalizable
    BY <1>7, ClassAssumption DEF IsWire
  <2> QED BY <2>1 DEF IsTemplate
<1>12. (h = b \/ h = Template(g, b)) /\ t = Template(g, a)
  BY <1>7, <1>9, <1>11
<1> HIDE DEF g, Group
<1>13. Template(g, b) = Template(g, a)
  BY <1>7, <1>8, <1>10, <1>12, TemplateMatchesOwn
<1>14. Passes(g, a)
  BY <1>10, <1>11 DEF Emits
<1>15. Passes(g, b)
  BY <1>13, <1>14
<1> QED BY <1>10, <1>12, <1>13, <1>15 DEF Emits

\* Requests stored by the run.
WireStore(obs) == \A x \in obs : IsWire(x[2])

\* A list of a built policy is clean, and empty when L7 is off.
LEMMA BuiltListsClean ==
    ASSUME NEW flows, IsSeq(flows), \A x \in ToSet(flows) : IsFlow(x), NEW ns, NEW o, o.collapse,
           NEW obs, WireStore(obs),
           NEW r \in ToSet(BuildPolicy(ns, flows, o, obs).rules), NEW p \in DOMAIN r.ports
    PROVE  Clean(r.ports[p].http) /\ (o.l7 \/ r.ports[p].http = {})
<1> DEFINE fs == SeenFlows(flows, o)
<1>0. Clean({})
  BY DEF Clean
<1>1. CASE r.ports[p].http = {}
  BY <1>0, <1>1
<1>2. CASE r.ports[p].http # {}
  <2>1. InBuiltPolicy(r, flows, ns, o, obs)
    <3>1. ASSUME NEW q, NEW fq, NEW names, r = DNSRule(q, fq, names) PROVE FALSE
      BY <1>2, <3>1 DEF DNSRule
    <3> QED BY <3>1, BuildPolicyFacts
  <2>2. PICK dir \in {"ingress", "egress"} : InBuiltRules(r, fs, dir, ns, o, obs)
    BY <2>1 DEF InBuiltPolicy
  <2>3. SeenBy(fs, flows, o)
    BY SeenFlowsFacts
  <2> HIDE DEF fs
  <2>4. PICK i \in DOMAIN fs : r \in ToSet(RulesFrom(Bucket(fs, i), ns, o, obs))
    <3>1. ASSUME NEW i \in DOMAIN fs, r \in ToSet(FqdnEgressRulesFrom(Bucket(fs, i))) PROVE FALSE
      BY <1>2, <3>1, FqdnRulesFacts DEF DNSRule
    <3> QED BY <2>2, <3>1 DEF InBuiltRules
  <2> DEFINE b == Bucket(fs, i)
             https == HTTPFlows(b, p)
             c == CHOOSE f \in https : TRUE
             reqs == MergeL7PathSets(c, obs)
             min == ResolveMinFlowsPerL7Rule(o.minFlows)
  <2>5. \A f \in b.flows : \E k \in DOMAIN fs : f = fs[k]
    BY DEF Bucket
  <2> HIDE DEF b
  <2>6. PICK ports, icmps : r = BucketRule(b, ns, o, obs, ports, icmps)
    BY <2>4, RulesFromFacts DEF b
  <2>7. r.ports[p].http = HTTPRules(b, p, o, obs)
    BY <2>6 DEF BucketRule, PortRulesFor
  <2>8. https # {} /\ HTTPRules(b, p, o, obs) = CollapseHTTPPaths(reqs, min)
    BY <1>2, <2>7 DEF HTTPRules
  <2>9. \A q \in reqs : IsWire(q)
    BY DEF WireStore, MergeL7PathSets
  <2>10. o.l7
    <3> SUFFICES ASSUME ~o.l7 PROVE FALSE
      OBVIOUS
    <3>1. PICK f \in https : TRUE
      BY <2>8
    <3>2. PICK k \in DOMAIN fs : f = fs[k]
      BY <2>5 DEF HTTPFlows
    <3> DEFINE x == flows[k]
               on == o.l7
    <3>3. IsFlow(x) /\ f = Seen(x, on) /\ ~on
      BY <2>3, <3>2, SeqFacts DEF SeenBy
    <3> HIDE DEF x, on
    <3>4. f = [x EXCEPT !.l7 = [kind |-> "none"]]
      BY <3>3 DEF Seen
    <3>5. f.l7 = [kind |-> "none"]
      BY <3>3, <3>4 DEF IsFlow
    <3>6. f.l7.kind = "http"
      BY <3>1 DEF HTTPFlows
    <3> QED BY <3>5, <3>6
  <2> HIDE DEF reqs, min
  <2>11. Clean(CollapseHTTPPaths(reqs, min))
    BY <2>9, CollapseIsClean
  <2> QED BY <2>7, <2>8, <2>10, <2>11
<1> QED BY <1>1, <1>2

-----------------------------------------------------------------------------
(* A merge leaves the lists of a port clean.                               *)

\* The lists of a peer's port are clean.
CleanAt(rules, dir, peer, p) ==
    \A i \in 1..Len(rules) :
        (rules[i].dir = dir /\ rules[i].peer = peer /\ p \in DOMAIN rules[i].ports)
            => Clean(rules[i].ports[p].http)

\* A rule that may be merged: its lists are clean, and replace those they meet.
Sweeps(in, replaceHTTP) ==
    /\ Apart(in) /\ \A p \in DOMAIN in.ports : Clean(in.ports[p].http)
    /\ replaceHTTP \/ HTTPFree(in)

\* The list of a port after a merge of two rules.
LEMMA MergedList ==
    ASSUME NEW a, NEW b, RulesMatch(a, b), NEW rep, Sweeps(b, rep),
           NEW m, m = MergedRule(a, b, rep), NEW p \in DOMAIN m.ports
    PROVE  /\ (p \in DOMAIN a.ports => Clean(a.ports[p].http)) => Clean(m.ports[p].http)
           /\ (p \in DOMAIN b.ports /\ b.ports[p].http # {}) => Clean(m.ports[p].http)
<1>1. /\ DOMAIN m.ports = DOMAIN a.ports \cup DOMAIN b.ports
      /\ p \in DOMAIN a.ports /\ p \notin DOMAIN b.ports => m.ports[p] = a.ports[p]
      /\ p \in DOMAIN b.ports /\ p \notin DOMAIN a.ports => m.ports[p] = b.ports[p]
      /\ p \in DOMAIN a.ports /\ p \in DOMAIN b.ports =>
            m.ports[p] = MergeL7Rules(a.ports[p], b.ports[p], rep)
  BY MergedFacts
<1>2. p \in DOMAIN b.ports => Clean(b.ports[p].http) /\ (rep \/ b.ports[p].http = {})
  BY DEF Sweeps, HTTPFree
<1>3. CASE p \notin DOMAIN b.ports
  BY <1>1, <1>3
<1>4. CASE p \notin DOMAIN a.ports
  BY <1>1, <1>2, <1>4
<1>5. CASE p \in DOMAIN a.ports /\ p \in DOMAIN b.ports
  <2> DEFINE x == a.ports[p]  y == b.ports[p]
  <2>1. m.ports[p].http = MergeL7Rules(x, y, rep).http
    BY <1>1, <1>5
  <2>2. /\ y.http # {} => MergeL7Rules(x, y, rep).http = y.http
        /\ y.http = {} => MergeL7Rules(x, y, rep).http = x.http
    <3>1. rep \/ y.http = {}
      BY <1>2, <1>5
    <3> HIDE DEF x, y
    <3> QED BY <3>1 DEF MergeL7Rules
  <2> QED BY <1>2, <1>5, <2>1, <2>2
<1> QED BY <1>3, <1>4, <1>5

\* Merging a rule keeps clean lists clean.
LEMMA MergeKeepsClean ==
    ASSUME NEW rules, IsRules(rules), NEW in, NEW rep, Sweeps(in, rep), NEW new,
           MergesTo(rules, in, new, rep), NEW dir, NEW peer, NEW p, CleanAt(rules, dir, peer, p)
    PROVE  CleanAt(new, dir, peer, p)
<1>1. Len(rules) \in Nat
  BY SeqFacts DEF IsRules
<1>2. CASE /\ Len(new) = Len(rules) + 1 /\ new[Len(rules) + 1] = in
           /\ \A i \in 1..Len(rules) : new[i] = rules[i] /\ ~RulesMatch(rules[i], in)
  <2>1. \A i \in 1..Len(new) : i \in 1..Len(rules) \/ i = Len(rules) + 1
    BY <1>1, <1>2
  <2> QED BY <1>2, <2>1 DEF CleanAt, Sweeps
<1>3. ASSUME NEW k \in 1..Len(rules), RulesMatch(rules[k], in), Len(new) = Len(rules),
             \A i \in 1..Len(rules) :
                /\ i < k => ~RulesMatch(rules[i], in)
                /\ new[i] = IF i = k THEN MergedRule(rules[k], in, rep) ELSE rules[i]
      PROVE  CleanAt(new, dir, peer, p)
  <2> DEFINE a == rules[k]
             m == MergedRule(a, in, rep)
  <2>1. ASSUME m.dir = dir, m.peer = peer, p \in DOMAIN m.ports PROVE Clean(m.ports[p].http)
    <3>1. RulesMatch(a, in) /\ m = MergedRule(a, in, rep)
      BY <1>3
    <3>2. a.dir = dir /\ a.peer = peer => (p \in DOMAIN a.ports => Clean(a.ports[p].http))
      BY DEF CleanAt
    <3> HIDE DEF a, m
    <3>3. m.dir = a.dir /\ m.peer = a.peer
      BY <3>1, MergedFacts
    <3> QED BY <2>1, <3>1, <3>2, <3>3, MergedList
  <2> HIDE DEF m
  <2>2. \A i \in 1..Len(new) : new[i] = m \/ new[i] = rules[i]
    BY <1>3 DEF m
  <2> QED BY <1>3, <2>1, <2>2 DEF CleanAt
<1> QED BY <1>2, <1>3 DEF MergesTo

\* It cleans the lists of its own peer at the ports where it has one.
LEMMA MergeCleans ==
    ASSUME NEW rules, IsRules(rules), Solo(rules), NEW in, NEW rep, Sweeps(in, rep), NEW new,
           MergesTo(rules, in, new, rep), NEW p \in DOMAIN in.ports, in.ports[p].http # {}
    PROVE  CleanAt(new, in.dir, in.peer, p)
<1>0. Clean({})
  BY DEF Clean
<1>1. Len(rules) \in Nat
  BY SeqFacts DEF IsRules
<1>2. ASSUME NEW i \in 1..Len(rules), rules[i].dir = in.dir, rules[i].peer = in.peer,
             p \in DOMAIN rules[i].ports
      PROVE  RulesMatch(rules[i], in)
  <2>1. ~IsICMPRule(in) /\ ~IsICMPRule(rules[i])
    BY <1>2 DEF Sweeps, Apart, Solo
  <2> QED BY <1>2, <2>1 DEF RulesMatch, IsICMPRule
<1>3. CASE /\ Len(new) = Len(rules) + 1 /\ new[Len(rules) + 1] = in
           /\ \A i \in 1..Len(rules) : new[i] = rules[i] /\ ~RulesMatch(rules[i], in)
  <2>1. \A i \in 1..Len(new) : i \in 1..Len(rules) \/ i = Len(rules) + 1
    BY <1>1, <1>3
  <2> QED BY <1>2, <1>3, <2>1 DEF CleanAt, Sweeps
<1>4. ASSUME NEW k \in 1..Len(rules), RulesMatch(rules[k], in), Len(new) = Len(rules),
             \A i \in 1..Len(rules) :
                /\ i < k => ~RulesMatch(rules[i], in)
                /\ new[i] = IF i = k THEN MergedRule(rules[k], in, rep) ELSE rules[i]
      PROVE  CleanAt(new, in.dir, in.peer, p)
  <2> DEFINE a == rules[k]
             m == MergedRule(a, in, rep)
  <2>1. ASSUME p \in DOMAIN m.ports PROVE Clean(m.ports[p].http)
    <3>1. RulesMatch(a, in) /\ m = MergedRule(a, in, rep)
      BY <1>4
    <3> HIDE DEF a, m
    <3> QED BY <2>1, <3>1, MergedList
  <2>2. ASSUME NEW i \in 1..Len(rules), i # k, rules[i].dir = in.dir, rules[i].peer = in.peer,
               p \in DOMAIN rules[i].ports
        PROVE  Clean(rules[i].ports[p].http)
    <3>1. RulesMatch(rules[i], in)
      BY <1>2, <2>2
    <3>2. k < i /\ RulesMatch(rules[k], rules[i])
      BY <1>1, <1>4, <2>2, <3>1 DEF RulesMatch
    <3>3. HTTPFree(rules[i])
      BY <3>2 DEF Solo
    <3> QED BY <1>0, <2>2, <3>3 DEF HTTPFree
  <2> HIDE DEF m
  <2>3. \A i \in 1..Len(new) : i \in 1..Len(rules) /\ new[i] = IF i = k THEN m ELSE rules[i]
    BY <1>4 DEF m
  <2> QED BY <2>1, <2>2, <2>3 DEF CleanAt
<1> QED BY <1>3, <1>4 DEF MergesTo

\* A policy whose rules may be merged.
Sweeping(p, replaceHTTP) == \A i \in 1..Len(p.rules) : Sweeps(p.rules[i], replaceHTTP)

\* The lists the policy has, for the rules of another list of rules.
CleansFor(p, rules) ==
    \A i \in 1..Len(p.rules) : \A l4 \in DOMAIN p.rules[i].ports :
        p.rules[i].ports[l4].http # {} => CleanAt(rules, p.rules[i].dir, p.rules[i].peer, l4)

\* A merge keeps rules solo whatever it merges.
LEMMA MergePolicySolo ==
    ASSUME NEW old, IsPolicy(old), Solo(old.rules), NEW new, IsPolicy(new), Solo(new.rules), NEW rep
    PROVE  Solo(MergePolicy(old, new, rep).rules)
<1> DEFINE in == new.rules
           n == Len(in)
           m == MergePolicy(old, new, rep).rules
<1>1. IsRules(old.rules) /\ IsRules(in) /\ n \in Nat
  BY SeqFacts DEF IsPolicy, IsRules
<1>2. PICK f : /\ f[0] = old.rules /\ f[n] = m
               /\ \A k \in 0..(n - 1) : f[k + 1] = MergeRule(f[k], in[k + 1], rep)
  BY MergePolicySteps
<1> DEFINE T == {k \in Nat : k <= n => IsRules(f[k]) /\ Solo(f[k])}
<1>3. 0 \in T
  BY <1>1, <1>2
<1> HIDE DEF m
<1>4. ASSUME NEW k \in Nat, k \in T PROVE k + 1 \in T
  <2> SUFFICES ASSUME k + 1 <= n PROVE IsRules(f[k + 1]) /\ Solo(f[k + 1])
    OBVIOUS
  <2>1. k + 1 \in 1..n /\ k \in 0..(n - 1) /\ IsRules(f[k]) /\ Solo(f[k])
    BY <1>1, <1>4
  <2>2. IsRule(in[k + 1]) /\ Apart(in[k + 1])
    BY <1>1, <2>1 DEF IsRules, Solo
  <2>3. f[k + 1] = MergeRule(f[k], in[k + 1], rep)
    BY <1>2, <2>1
  <2> HIDE DEF in
  <2>4. IsRules(f[k + 1]) /\ MergesTo(f[k], in[k + 1], f[k + 1], rep)
    BY <2>1, <2>2, <2>3, MergeRulePlaces
  <2> QED BY <2>1, <2>2, <2>4, MergeKeepsSolo
<1> HIDE DEF T
<1>5. n \in T
  BY <1>1, <1>3, <1>4, NatSetInduction
<1> QED BY <1>1, <1>2, <1>5 DEF T, m

\* A merge keeps clean lists clean, and cleans those of the ports the incoming policy has
\* a list for (MergePolicyWithOptions with ReplaceHTTP).
LEMMA MergePolicyClean ==
    ASSUME NEW old, IsPolicy(old), Solo(old.rules),
           NEW new, IsPolicy(new), NEW rep, Sweeping(new, rep)
    PROVE  /\ \A dir, peer, p : CleanAt(old.rules, dir, peer, p) =>
                 CleanAt(MergePolicy(old, new, rep).rules, dir, peer, p)
           /\ CleansFor(new, MergePolicy(old, new, rep).rules)
<1> DEFINE in == new.rules
           n == Len(in)
           m == MergePolicy(old, new, rep).rules
<1>1. IsRules(old.rules) /\ IsRules(in) /\ n \in Nat
  BY SeqFacts DEF IsPolicy, IsRules
<1>2. PICK f : /\ f[0] = old.rules /\ f[n] = m
               /\ \A k \in 0..(n - 1) : f[k + 1] = MergeRule(f[k], in[k + 1], rep)
  BY MergePolicySteps, SMTT(20)
<1> DEFINE Kept(rules) == \A dir, peer, p : CleanAt(old.rules, dir, peer, p) => CleanAt(rules, dir, peer, p)
           Done(rules, k) == \A i \in 1..k : \A p \in DOMAIN in[i].ports :
                                in[i].ports[p].http # {} => CleanAt(rules, in[i].dir, in[i].peer, p)
           T == {k \in Nat : k <= n => IsRules(f[k]) /\ Solo(f[k]) /\ Kept(f[k]) /\ Done(f[k], k)}
<1>3. 0 \in T
  BY <1>1, <1>2
<1> HIDE DEF m
<1>4. ASSUME NEW k \in Nat, k \in T PROVE k + 1 \in T
  <2> SUFFICES ASSUME k + 1 <= n
               PROVE  IsRules(f[k + 1]) /\ Solo(f[k + 1]) /\ Kept(f[k + 1]) /\ Done(f[k + 1], k + 1)
    OBVIOUS
  <2>1. /\ k + 1 \in 1..n /\ k \in 0..(n - 1)
        /\ IsRules(f[k]) /\ Solo(f[k]) /\ Kept(f[k]) /\ Done(f[k], k)
    BY <1>1, <1>4
  <2>2. IsRule(in[k + 1]) /\ Sweeps(in[k + 1], rep) /\ Apart(in[k + 1])
    BY <1>1, <2>1 DEF IsRules, Sweeping, Sweeps
  <2>3. f[k + 1] = MergeRule(f[k], in[k + 1], rep)
    BY <1>2, <2>1
  <2> HIDE DEF in, T
  <2>4. IsRules(f[k + 1]) /\ MergesTo(f[k], in[k + 1], f[k + 1], rep)
    BY <2>1, <2>2, <2>3, MergeRulePlaces
  <2>5. Solo(f[k + 1])
    BY <2>1, <2>2, <2>4, MergeKeepsSolo
  <2>6. \A dir, peer, p : CleanAt(f[k], dir, peer, p) => CleanAt(f[k + 1], dir, peer, p)
    BY <2>1, <2>2, <2>4, MergeKeepsClean
  <2>7. Kept(f[k + 1])
    BY <2>1, <2>6
  <2>8. ASSUME NEW i \in 1..(k + 1), NEW p \in DOMAIN in[i].ports, in[i].ports[p].http # {}
        PROVE  CleanAt(f[k + 1], in[i].dir, in[i].peer, p)
    <3>1. CASE i = k + 1
      BY <2>1, <2>2, <2>4, <2>8, <3>1, MergeCleans
    <3>2. CASE i # k + 1
      <4>1. i \in 1..k
        BY <3>2
      <4> QED BY <2>1, <2>6, <2>8, <4>1
    <3> QED BY <3>1, <3>2
  <2> QED BY <2>4, <2>5, <2>7, <2>8
<1> HIDE DEF T, Kept, Done
<1>5. n \in T
  BY <1>1, <1>3, <1>4, NatSetInduction
<1>6. Kept(m) /\ Done(m, n)
  BY <1>1, <1>2, <1>5 DEF T
<1> QED BY <1>6 DEF Kept, Done, CleansFor, m

-----------------------------------------------------------------------------
(* The inductive invariant: the lists that have been settled are clean.    *)

\* The rule has a list for the flow's peer and port.
Lists(r, f, ns) ==
    /\ r.dir = f.dir /\ r.peer = BucketPeer(f, ns)
    /\ f.l4 \in DOMAIN r.ports /\ r.ports[f.l4].http # {}

\* A request whose list the property is about: no ICMP type has one.
Watched(w, f) == f.l7.kind = "http" /\ ~IsICMP(f.l4) /\ ~SharedBucket(w, f)

\* A queued policy replaces the lists of the requests it brings by clean ones.
Sweeper(ev) ==
    /\ Sweeping(ev.policy, ev.replace)
    /\ \A f \in ev.flows : Watched(ev.wl, f) =>
          \E r \in ToSet(ev.policy.rules) : Lists(r, f, ev.wl.ns)

Alone ==
    /\ \A ev \in ToSet(queue) : Solo(ev.policy.rules)
    /\ \A w \in Workloads : file[w] # NoPolicy => Solo(file[w].rules)

Sweepers == opts.collapse => \A ev \in ToSet(queue) : Sweeper(ev)

\* The lists of the policy last written have been cleaned in the file.
Swept ==
    (opts.collapse /\ ~opts.dry) => \A w \in Workloads :
        written[w] # NoPolicy => IsPolicy(written[w]) /\ CleansFor(written[w], file[w].rules)

SettledClean ==
    opts.collapse => \A w \in Workloads : \A f \in settled[w] :
        Watched(w, f) => CleanAt(file[w].rules, f.dir, BucketPeer(f, w.ns), f.l4)

Unshadowed == WireStore(collected \cup retained) /\ Alone /\ Sweepers /\ Swept /\ SettledClean

\* What the invariant says of the lists is what the runs check.
LEMMA UnshadowedImplies == TypeInv /\ Unshadowed => NoShadowedLiteral
<1> SUFFICES ASSUME TypeInv, Unshadowed,
                    NEW w \in Workloads, NEW f \in settled[w],
                    opts.collapse, f.l7.kind = "http", ~SharedBucket(w, f),
                    NEW r \in RulesIn(file[w]),
                    r.dir = f.dir, r.peer = BucketPeer(f, w.ns), f.l4 \in DOMAIN r.ports
             PROVE  Clean(r.ports[f.l4].http)
  BY DEF NoShadowedLiteral
<1>1. file[w] # NoPolicy /\ r \in ToSet(file[w].rules)
  BY DEF RulesIn
<1>2. IsSeq(file[w].rules) /\ Solo(file[w].rules)
  BY <1>1 DEF TypeInv, Filed, Proper, IsPolicy, IsRules, Unshadowed, Alone
<1>3. PICK i \in 1..Len(file[w].rules) : file[w].rules[i] = r
  BY <1>1, <1>2, SeqFacts
<1>4. ~IsICMP(f.l4)
  BY <1>2, <1>3 DEF Solo, Apart
<1>5. CleanAt(file[w].rules, f.dir, BucketPeer(f, w.ns), f.l4)
  BY <1>4 DEF Unshadowed, SettledClean, Watched
<1> QED BY <1>3, <1>5 DEF CleanAt

\* There is nothing to clean at first.
LEMMA InitUnshadowed == Init => Unshadowed
<1> SUFFICES ASSUME Init PROVE Unshadowed
  OBVIOUS
<1>1. ToSet(queue) = {}
  BY EmptyIsSeq DEF Init
<1> QED BY <1>1 DEF Init, Unshadowed, WireStore, Alone, Sweepers, Swept, SettledClean

\* A clean port of the policy is clean where the policy's lists have gone.
LEMMA ListCleans ==
    ASSUME NEW p, IsPolicy(p), NEW rules, CleansFor(p, rules), NEW f, NEW ns,
           NEW r \in ToSet(p.rules), Lists(r, f, ns)
    PROVE  CleanAt(rules, f.dir, BucketPeer(f, ns), f.l4)
<1>1. PICK i \in 1..Len(p.rules) : p.rules[i] = r
  BY SeqFacts DEF IsPolicy, IsRules
<1> QED BY <1>1 DEF CleansFor, Lists

\* A write cleans the lists of the policy, and keeps the others clean.
LEMMA WriteCleans ==
    ASSUME NEW old, Proper(old), old # NoPolicy => Solo(old.rules),
           NEW new, new # NoPolicy, Proper(new), Solo(new.rules), NEW rep,
           NEW p, p = IF old = NoPolicy THEN new ELSE MergePolicy(old, new, rep)
    PROVE  /\ Solo(p.rules)
           /\ Sweeping(new, rep) =>
                /\ CleansFor(new, p.rules)
                /\ \A dir, peer, l4 : (old # NoPolicy => CleanAt(old.rules, dir, peer, l4))
                                         => CleanAt(p.rules, dir, peer, l4)
<1>1. IsPolicy(new)
  BY DEF Proper
<1>2. CASE old = NoPolicy
  <2>1. p = new
    BY <1>2
  <2> HIDE DEF Sweeping
  <2>2. Sweeping(new, rep) => \A dir, peer, l4 : CleanAt(new.rules, dir, peer, l4)
    BY DEF Sweeping, Sweeps, CleanAt
  <2> QED BY <2>1, <2>2 DEF CleansFor
<1>3. CASE old # NoPolicy
  <2>1. IsPolicy(old) /\ Solo(old.rules) /\ p = MergePolicy(old, new, rep)
    BY <1>3 DEF Proper
  <2>2. Solo(p.rules)
    BY <1>1, <2>1, MergePolicySolo
  <2>3. Sweeping(new, rep) => CleansFor(new, p.rules)
    BY <1>1, <2>1, MergePolicyClean
  <2>4. Sweeping(new, rep) => \A dir, peer, l4 :
           CleanAt(old.rules, dir, peer, l4) => CleanAt(p.rules, dir, peer, l4)
    BY <1>1, <2>1, MergePolicyClean
  <2> QED BY <1>3, <2>2, <2>3, <2>4
<1> QED BY <1>2, <1>3

\* A flow that is watched after a step was watched before it.
LEMMA WatchedBefore ==
    ASSUME NEW w, ever[w] \subseteq ever'[w], NEW f, Watched(w, f)'
    PROVE  Watched(w, f)
<1>1. SharedBucket(w, f) => SharedBucket(w, f)'
  BY DEF SharedBucket
<1> QED BY <1>1 DEF Watched

\* With the collapse on, the policy of a bucket has a list for every watched request.
LEMMA NewEventLists ==
    ASSUME TypeInv, NEW w \in Workloads, NEW obs, Observations(w) \subseteq obs,
           ever' = [ever EXCEPT ![w] = @ \cup Demands(w)], opts.collapse,
           NEW f \in Demands(w), Watched(w, f)'
    PROVE  \E r \in ToSet(BuildPolicy(w.ns, bucket[w], opts, obs).rules) : Lists(r, f, w.ns)
<1>0. IsSeq(bucket[w])
  BY DEF TypeInv, Buffers
<1> DEFINE p == BuildPolicy(w.ns, bucket[w], opts, obs)
<1>1. Served(p.rules, f, w.ns)
  BY UnsharedServed DEF Watched
<1>2. IsSeq(p.rules) /\ Solo(p.rules)
  BY <1>0, BuildPolicyFacts, BuildPolicySolo DEF IsPolicy, IsRules
<1> HIDE DEF p
<1>3. PICK r \in ToSet(p.rules) : OwnRule(r, f, w.ns)
  BY <1>1 DEF Served
<1>4. f.l4 \notin r.icmps
  <2>1. Apart(r)
    BY <1>2, SeqFacts DEF Solo
  <2> QED BY <2>1 DEF Apart, Watched
<1>5. Lists(r, f, w.ns)
  BY <1>3, <1>4 DEF OwnRule, Watched, Lists
<1> QED BY <1>5 DEF p

\* The flows a policy was built from are never forgotten.
LEMMA EverGrows ==
    ASSUME TypeInv, [Next]_vars
    PROVE  \A v \in Workloads : ever[v] \subseteq ever'[v]
<1>1. ASSUME NEW w \in Workloads, BuildBucket(w)
      PROVE  \A v \in Workloads : ever[v] \subseteq ever'[v]
  BY <1>1 DEF BuildBucket, TypeInv, Scalars, Indexed
<1>2. CASE Idle \/ Skip \/ WriteOk \/ Restart
  BY <1>2 DEF Idle, Skip, WriteOk, Take, Restart
<1> QED BY <1>1, <1>2, StepKinds

\* The queue loses events only: its policies stay sweepers.
LEMMA EventsKept ==
    ASSUME TypeInv, Unshadowed, [Next]_vars, Take
    PROVE  /\ ToSet(queue') \subseteq ToSet(queue)
           /\ \A ev \in ToSet(queue') : Solo(ev.policy.rules)
           /\ Sweepers' /\ WireStore(collected \cup retained)'
<1>1. ToSet(queue') \subseteq ToSet(queue) /\ UNCHANGED <<collected, retained, opts, ever>>
  BY TailIsSeq DEF Take, aggregator, run, TypeInv, Queued
<1>2. WireStore(collected \cup retained)'
  BY <1>1 DEF Unshadowed, WireStore
<1>3. Sweepers'
  BY <1>1 DEF Unshadowed, Sweepers, Sweeper, Watched, SharedBucket
<1> QED BY <1>1, <1>2, <1>3 DEF Unshadowed, Alone

\* An event found unchanged finds its lists clean already.
LEMMA SkipUnshadowed ==
    ASSUME TypeInv, Unshadowed, [Next]_vars, Skip
    PROVE  Unshadowed'
<1>1. PICK ev : ev = Head(queue)
  OBVIOUS
<1>2. Take /\ UNCHANGED file
  BY DEF Skip
<1>3. /\ UNCHANGED <<opts, ever>> /\ ev \in ToSet(queue)
      /\ ev.wl \in Workloads /\ IsPolicy(ev.policy)
  BY <1>1, <1>2, TailIsSeq DEF Take, run, TypeInv, Queued, Event, Proper
<1>4. opts.dry \/ written' = written
  BY DEF Skip, SkipForClusterMatch, SkipForCrossFlushMatch, writer
<1>5. ASSUME opts.collapse, NEW w \in Workloads, NEW f \in settled'[w], Watched(w, f)
      PROVE  CleanAt(file[w].rules, f.dir, BucketPeer(f, w.ns), f.l4)
  <2>1. CASE f \in settled[w]
    BY <1>5, <2>1 DEF Unshadowed, SettledClean
  <2>2. CASE f \notin settled[w]
    <3>1. SkipForCrossFlushMatch /\ ~opts.dry
      BY <1>5, <2>2 DEF Skip, SkipForClusterMatch, SkipForCrossFlushMatch, writer
    <3>2. Same(written[ev.wl], ev.policy) /\ settled' = [settled EXCEPT ![ev.wl] = @ \cup ev.flows]
      BY <1>1, <3>1 DEF SkipForCrossFlushMatch, Settle
    <3>3. w = ev.wl /\ f \in ev.flows
      BY <1>5, <2>2, <3>2 DEF TypeInv, Filed, Indexed
    <3>4. PICK r \in ToSet(ev.policy.rules) : Lists(r, f, w.ns)
      BY <1>3, <1>5, <3>3 DEF Unshadowed, Sweepers, Sweeper
    <3>5. written[w] # NoPolicy /\ ToSet(written[w].rules) = ToSet(ev.policy.rules)
      BY <3>2, <3>3 DEF Same, PoliciesEquivalent
    <3>6. IsPolicy(written[w]) /\ CleansFor(written[w], file[w].rules)
      BY <1>5, <3>1, <3>5 DEF Unshadowed, Swept
    <3> QED BY <3>4, <3>5, <3>6, ListCleans
  <2> QED BY <2>1, <2>2
<1>6. SettledClean'
  <2>1. ASSUME opts'.collapse, NEW w \in Workloads, NEW f \in settled'[w], Watched(w, f)'
        PROVE  CleanAt(file'[w].rules, f.dir, BucketPeer(f, w.ns), f.l4)
    <3>1. Watched(w, f)
      BY <1>3, <2>1, WatchedBefore
    <3> QED BY <1>2, <1>3, <1>5, <2>1, <3>1
  <2> QED BY <2>1 DEF SettledClean
<1>7. Swept' /\ Alone'
  BY <1>2, <1>3, <1>4, EventsKept DEF Unshadowed, Swept, Alone
<1> QED BY <1>2, <1>6, <1>7, EventsKept DEF Unshadowed

\* A write cleans the lists of the ports it brings requests for.
LEMMA WriteUnshadowed ==
    ASSUME TypeInv, Unshadowed, [Next]_vars, WriteOk
    PROVE  Unshadowed'
<1>1. PICK ev : ev = Head(queue)
  OBVIOUS
<1> DEFINE w == ev.wl
           old == file[w]
           p == IF old = NoPolicy THEN ev.policy ELSE MergePolicy(old, ev.policy, ev.replace)
<1>2. /\ Take /\ file' = [file EXCEPT ![w] = p] /\ written' = [written EXCEPT ![w] = ev.policy]
      /\ settled' = [settled EXCEPT ![w] = @ \cup ev.flows]
  BY <1>1 DEF WriteOk, Settle
<1>3. /\ UNCHANGED <<opts, ever>> /\ ev \in ToSet(queue)
      /\ w \in Workloads /\ ev.policy # NoPolicy /\ Proper(ev.policy) /\ Proper(old)
  BY <1>1, <1>2, TailIsSeq DEF Take, run, TypeInv, Queued, Event, Filed
<1>4. Solo(ev.policy.rules) /\ (old # NoPolicy => Solo(old.rules))
  BY <1>3 DEF Unshadowed, Alone
<1>5. opts.collapse => Sweeper(ev)
  BY <1>3 DEF Unshadowed, Sweepers
<1> DEFINE Keeps == \A dir, peer, l4 :
                       (old # NoPolicy => CleanAt(old.rules, dir, peer, l4)) => CleanAt(p.rules, dir, peer, l4)
<1>6. /\ Solo(p.rules)
      /\ opts.collapse => CleansFor(ev.policy, p.rules) /\ Keeps
  <2>1. opts.collapse => Sweeping(ev.policy, ev.replace)
    BY <1>5 DEF Sweeper
  <2> QED BY <1>3, <1>4, <2>1, WriteCleans, SMTT(20)
<1> HIDE DEF p, Keeps
<1>7. ASSUME NEW v \in Workloads
      PROVE  /\ v = w => /\ file'[v] = p /\ written'[v] = ev.policy
                         /\ settled'[v] = settled[v] \cup ev.flows
             /\ v # w => UNCHANGED <<file[v], written[v], settled[v]>>
  BY <1>2 DEF TypeInv, Filed, Indexed
<1>8. IsPolicy(ev.policy)
  BY <1>3 DEF Proper
<1>9. ASSUME opts.collapse, NEW f \in settled'[w], Watched(w, f)
      PROVE  CleanAt(p.rules, f.dir, BucketPeer(f, w.ns), f.l4)
  <2>1. CASE f \in settled[w]
    <3>1. old # NoPolicy
      BY <1>3, <2>1 DEF TypeInv, Filed
    <3>2. CleanAt(old.rules, f.dir, BucketPeer(f, w.ns), f.l4)
      BY <1>3, <1>9, <2>1 DEF Unshadowed, SettledClean
    <3> HIDE DEF old
    <3> QED BY <1>6, <1>9, <3>1, <3>2 DEF Keeps
  <2>2. CASE f \in ev.flows
    <3>1. PICK r \in ToSet(ev.policy.rules) : Lists(r, f, w.ns)
      BY <1>5, <1>9, <2>2 DEF Sweeper
    <3> QED BY <1>6, <1>8, <1>9, <3>1, ListCleans
  <2> QED BY <1>3, <1>7, <1>9, <2>1, <2>2
<1> HIDE DEF w
<1>10. SettledClean'
  <2>1. ASSUME opts'.collapse, NEW v \in Workloads, NEW f \in settled'[v], Watched(v, f)'
        PROVE  CleanAt(file'[v].rules, f.dir, BucketPeer(f, v.ns), f.l4)
    <3>1. Watched(v, f) /\ opts.collapse
      BY <1>3, <2>1, WatchedBefore
    <3>2. CASE v = w
      BY <1>7, <1>9, <2>1, <3>1, <3>2
    <3>3. CASE v # w
      BY <1>7, <2>1, <3>1, <3>3 DEF Unshadowed, SettledClean
    <3> QED BY <3>2, <3>3
  <2> QED BY <2>1 DEF SettledClean
<1>11. Swept'
  BY <1>3, <1>6, <1>7, <1>8 DEF Unshadowed, Swept
<1>12. Alone'
  <2>1. \A v \in Workloads : file'[v] # NoPolicy => Solo(file'[v].rules)
    BY <1>6, <1>7 DEF Unshadowed, Alone
  <2> QED BY <1>2, <2>1, EventsKept DEF Alone
<1> QED BY <1>2, <1>10, <1>11, <1>12, EventsKept DEF Unshadowed

\* A new event cleans the lists of the requests it brings.
LEMMA BuildUnshadowed ==
    ASSUME TypeInv, Unshadowed, [Next]_vars, NEW w \in Workloads, BuildBucket(w)
    PROVE  Unshadowed'
<1>0. PICK flows, o, obs : /\ flows = bucket[w] /\ o = opts
                           /\ obs = retained \cup (collected \cup Observations(w))
  OBVIOUS
<1> DEFINE p == BuildPolicy(w.ns, flows, o, obs)
           ev == [wl |-> w, flows |-> Demands(w), replace |-> o.l7 /\ o.collapse, policy |-> p]
<1>1. /\ queue' = Append(queue, ev) /\ UNCHANGED <<written, file, settled, opts>>
      /\ collected' \cup retained' = obs
      /\ ever' = [ever EXCEPT ![w] = @ \cup Demands(w)]
  BY <1>0 DEF BuildBucket, Absorb, writer, run
<1>2. \A v \in Workloads : \A f : Watched(v, f)' => Watched(v, f)
  BY EverGrows, WatchedBefore
<1>3. WireStore(obs)
  <2>1. ASSUME NEW x \in Observations(w) PROVE IsWire(x[2])
    <3>1. PICK f \in Demands(w) : f.l7.kind = "http" /\ x = Observed(f)
      BY DEF Observations, Observed
    <3>2. IsFlow(f)
      BY DemandsFacts
    <3> QED BY <3>1, <3>2, RequestIsWire DEF Observed
  <2> QED BY <1>0, <2>1 DEF Unshadowed, WireStore
<1>4. IsSeq(flows) /\ \A x \in ToSet(flows) : IsFlow(x)
  BY <1>0, DemandsFacts DEF TypeInv, Buffers
<1>5. IsSeq(p.rules) /\ Solo(p.rules)
  BY <1>4, BuildPolicyFacts, BuildPolicySolo DEF IsPolicy, IsRules
<1>6. ToSet(queue') = ToSet(queue) \cup {ev}
  <2> HIDE DEF ev
  <2> QED BY <1>1, AppendIsSeq DEF TypeInv, Queued
<1>7. ev.wl = w /\ ev.flows = Demands(w) /\ ev.policy = p /\ (ev.replace <=> o.l7 /\ o.collapse)
  OBVIOUS
<1>8. o.collapse => Sweeping(p, ev.replace)
  <2>1. ASSUME o.collapse, NEW i \in 1..Len(p.rules) PROVE Sweeps(p.rules[i], ev.replace)
    <3> DEFINE r == p.rules[i]
    <3>1. r \in ToSet(p.rules) /\ Apart(r)
      BY <1>5, SeqFacts DEF Solo
    <3>2. \A l4 \in DOMAIN r.ports : Clean(r.ports[l4].http) /\ (o.l7 \/ r.ports[l4].http = {})
      BY <1>3, <1>4, <2>1, <3>1, BuiltListsClean
    <3> HIDE DEF p, ev
    <3>3. ev.replace \/ HTTPFree(r)
      BY <1>7, <2>1, <3>2 DEF HTTPFree
    <3> QED BY <3>1, <3>2, <3>3 DEF Sweeps
  <2> HIDE DEF p, ev
  <2> QED BY <2>1 DEF Sweeping
<1>9. o.collapse => \A f \in Demands(w) : Watched(w, f)' => \E r \in ToSet(p.rules) : Lists(r, f, w.ns)
  BY <1>0, <1>1, NewEventLists
<1> HIDE DEF ev, p
<1>10. Sweepers'
  <2>1. ASSUME o.collapse, NEW e \in ToSet(queue'), NEW f \in e.flows, Watched(e.wl, f)'
        PROVE  \E r \in ToSet(e.policy.rules) : Lists(r, f, e.wl.ns)
    <3>1. CASE e \in ToSet(queue)
      <4>1. e.wl \in Workloads
        BY <3>1 DEF TypeInv, Queued, Event
      <4>2. Watched(e.wl, f)
        BY <1>2, <2>1, <4>1
      <4> QED BY <1>0, <2>1, <3>1, <4>2 DEF Unshadowed, Sweepers, Sweeper
    <3>2. CASE e = ev
      <4>1. PICK v : v = e.wl /\ v = w
        BY <1>7, <3>2
      <4>2. Watched(v, f)'
        BY <2>1, <4>1
      <4>3. f \in Demands(w) /\ e.policy = p
        BY <1>7, <2>1, <3>2
      <4>4. Watched(w, f)'
        BY <4>1, <4>2
      <4> QED BY <1>9, <2>1, <4>1, <4>3, <4>4
    <3> QED BY <1>6, <3>1, <3>2
  <2>2. ASSUME o.collapse, NEW e \in ToSet(queue') PROVE Sweeping(e.policy, e.replace)
    <3>1. CASE e \in ToSet(queue)
      BY <1>0, <2>2, <3>1 DEF Unshadowed, Sweepers, Sweeper
    <3>2. CASE e = ev
      BY <1>7, <1>8, <2>2, <3>2
    <3> QED BY <1>6, <3>1, <3>2
  <2> QED BY <1>0, <1>1, <2>1, <2>2 DEF Sweepers, Sweeper
<1>11. SettledClean'
  BY <1>1, <1>2 DEF Unshadowed, SettledClean
<1>12. Swept'
  BY <1>1 DEF Unshadowed, Swept
<1>13. Alone'
  BY <1>1, <1>5, <1>6, <1>7 DEF Unshadowed, Alone
<1>14. WireStore(collected \cup retained)'
  BY <1>1, <1>3 DEF WireStore
<1> QED BY <1>10, <1>11, <1>12, <1>13, <1>14 DEF Unshadowed

\* Every step keeps what has been settled clean.
LEMMA NextUnshadowed ==
    ASSUME TypeInv, Unshadowed, [Next]_vars
    PROVE  Unshadowed'
<1>1. CASE Idle
  BY <1>1 DEF Idle, writer, run, Unshadowed, WireStore, Alone, Sweepers, Sweeper, Swept,
     SettledClean, Watched, SharedBucket
<1>2. CASE \E w \in Workloads : BuildBucket(w)
  BY <1>2, BuildUnshadowed
<1>3. CASE Skip
  BY <1>3, SkipUnshadowed
<1>4. CASE WriteOk
  BY <1>4, WriteUnshadowed
<1>5. CASE Restart
  <2>1. /\ ToSet(queue') = {} /\ file' = file /\ collected' \cup retained' = {}
        /\ \A w \in Workloads : /\ written'[w] = NoPolicy
                                /\ opts'.collapse => \A f \in settled'[w] : f.l7.kind # "http"
    BY <1>5, EmptyIsSeq DEF Restart
  <2>2. WireStore(collected \cup retained)' /\ Alone' /\ Sweepers' /\ Swept'
    BY <2>1 DEF WireStore, Unshadowed, Alone, Sweepers, Swept
  <2>3. \A w \in Workloads : \A f : Watched(w, f)' => f.l7.kind = "http"
    BY DEF Watched
  <2>4. SettledClean'
    BY <2>1, <2>3 DEF SettledClean
  <2> QED BY <2>2, <2>4 DEF Unshadowed
<1> QED BY <1>1, <1>2, <1>3, <1>4, <1>5, StepKinds

(* With the collapse on, no flush, merge or restart leaves a literal beside *)
(* a template that matches it, in the list of a port whose requests have    *)
(* been settled, whatever requests were observed.                           *)
THEOREM NoShadowSafe == Spec => []NoShadowedLiteral
BY InitTypeInv, NextTypeInv, InitUnshadowed, NextUnshadowed, UnshadowedImplies, PTL DEF Spec
=============================================================================
