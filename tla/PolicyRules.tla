---------------------------- MODULE PolicyRules ----------------------------
(***************************************************************************)
(* The pure part of policy generation: what BuildPolicy makes of the       *)
(* flows of one workload, how a policy is merged into the one on disk, and *)
(* what the HTTP path collapse emits.                                      *)
(*                                                                         *)
(* A flow is [dir, ns, target, peer, l4, l7]: the labels of the endpoint   *)
(* the policy is for and its namespace (NoNamespace if it has none), and   *)
(*   peer  [kind |-> "endpoint", labels, ns], [kind |-> "entity", id],     *)
(*         [kind |-> "world", ip] (ip = NoIP when absent), or              *)
(*         [kind |-> "nil"];                                               *)
(*   l4    [proto, port], proto one of TCP, UDP, ICMP, "unknown", "none";  *)
(*   l7    [kind |-> "none"], [kind |-> "http", method, path] (path the    *)
(*         sequence of wire-form segments) or [kind |-> "dns", name].      *)
(* A label is <<key, value>>.  A policy is [subject, rules]: the labels    *)
(* its endpointSelector asks for and its rules in emission order; a rule   *)
(* is [dir, peer, fqdns, ports, icmps], ports mapping an l4 to its L7      *)
(* sub-lists [http, dns], both empty when the PortRule carries no Rules.   *)
(***************************************************************************)
EXTENDS Naturals, FiniteSets, SequencesExt, TLC

CONSTANTS
    Class,               \* classifyPathSegment: segment -> its class
    Decode,              \* url.Parse: wire-form segment -> decoded segment
    MaxTemplateSegments, \* stands for maxL7TemplatePatternLen
    NoIP,                \* a world peer whose flow carries no address
    DNSLabels            \* labels of the detected DNS Service selector

\* The shape of a flow.
IsFlow(f) ==
    /\ f = [dir |-> f.dir, ns |-> f.ns, target |-> f.target, peer |-> f.peer, l4 |-> f.l4, l7 |-> f.l7]
    /\ f.dir \in {"ingress", "egress"}
    /\ f.peer.kind \in {"endpoint", "entity", "world", "nil"}
    /\ f.l7.kind \in {"none", "http", "dns"}
    /\ f.l7.kind = "http" => f.l7.path \in Seq(DOMAIN Class)

-----------------------------------------------------------------------------
(* Labels and selectors.                                                   *)

PriorityKeys == <<"app.kubernetes.io/name", "app.kubernetes.io/component", "app">>

\* With the keys Cilium sets under the denied prefixes.
Denylist ==
    {"pod-template-hash", "controller-revision-hash", "statefulset.kubernetes.io/pod-name",
     "job-name", "batch.kubernetes.io/job-name", "batch.kubernetes.io/controller-uid",
     "apps.kubernetes.io/pod-index", "io.kubernetes.pod.namespace",
     "io.cilium.k8s.policy.cluster", "io.cilium.k8s.policy.serviceaccount"}

\* Labels of another source than k8s are no labels of a flow here.
FilterK8sLabels(labels) == {l \in labels : l[1] \notin Denylist}

SelectLabels(labels) ==
    LET filtered == FilterK8sLabels(labels)
        ranked   == SelectSeq(PriorityKeys, LAMBDA k : \E l \in filtered : l[1] = k)
    IN  IF ranked = <<>> THEN filtered
        ELSE {l \in filtered : l[1] = Head(ranked)}

\* A name is the set of the selected values, which the code joins.
WorkloadName(labels) == {l[2] : l \in SelectLabels(labels)}

BuildEndpointSelector(labels) == SelectLabels(labels)

\* A selector names the namespace only when it is not the policy's own.
BuildPeerSelector(peer, ns) ==
    [kind |-> "endpoint", labels |-> SelectLabels(peer.labels),
     ns |-> IF peer.ns = ns THEN "own" ELSE peer.ns]

NoPeer == [kind |-> "fqdn"]

-----------------------------------------------------------------------------
(* Grouping flows into peer buckets.                                       *)

\* A flow that cannot become a rule.
Trackable(f) ==
    \/ f.l4.proto \in {"none", "unknown"}
    \/ f.peer.kind = "nil"
    \/ f.peer.kind = "world" /\ f.peer.ip = NoIP

\* The map key of the flow's bucket: an endpoint's holds its labels only.
PeerKey(f) ==
    CASE f.peer.kind = "entity" -> <<"entity", f.peer.id>>
      [] f.peer.kind = "world"  -> <<"cidr", f.peer.ip>>
      [] OTHER                  -> <<"endpoint", SelectLabels(f.peer.labels)>>

\* The selector a bucket gets from the flow that creates it.
BucketPeer(f, ns) ==
    CASE f.peer.kind = "entity" -> [kind |-> "entity", id |-> f.peer.id]
      [] f.peer.kind = "world"  -> [kind |-> "cidr", ip |-> f.peer.ip]
      [] OTHER                  -> BuildPeerSelector(f.peer, ns)

\* The L7 record a rule can be made of: an HTTP one has a method, a DNS one a name.
ExtractL7(f) ==
    CASE f.l7.kind = "http" /\ f.l7.method # "" -> f.l7
      [] f.l7.kind = "dns"  /\ f.l7.name # ""   -> f.l7
      [] OTHER                                  -> [kind |-> "none"]

\* recordL7: the flow as BuildPolicy sees it.  L7 records are ignored when L7
\* is off, and DNS records on ingress.
Seen(f, l7Enabled) ==
    LET usable == l7Enabled /\ (f.l7.kind = "dns" => f.dir = "egress")
    IN  [f EXCEPT !.l7 = IF usable THEN ExtractL7(f) ELSE [kind |-> "none"]]

\* Flows of one direction that reach a bucket of one of the three kinds.
Grouped(f, dir, kind) == f.dir = dir /\ ~Trackable(f) /\ PeerKey(f)[1] = kind

SameBucket(f, g) == f.dir = g.dir /\ ~Trackable(f) /\ PeerKey(f) = PeerKey(g)

\* The flows that create a bucket of a kind, by position.
GroupFlows(flows, dir, kind) ==
    {i \in DOMAIN flows : /\ Grouped(flows[i], dir, kind)
                          /\ \A j \in 1..(i - 1) : ~SameBucket(flows[j], flows[i])}

\* A bucket keeps the selector of the flow that created it.
Bucket(flows, i) ==
    [first |-> flows[i],
     flows |-> {flows[j] : j \in {k \in DOMAIN flows : SameBucket(flows[k], flows[i])}}]

-----------------------------------------------------------------------------
(* HTTP path collapse.  A literal rule is its path; in a template a class  *)
(* stands at the generalised positions.                                    *)

Generalizable == {"numeric", "hexPrefix", "hexRun", "uuid"}

\* In a path the name of a class stands for its pattern, which is no segment.
ASSUME ClassAssumption == DOMAIN Class \cap Generalizable = {}

Request(f) == [method |-> f.l7.method, path |-> f.l7.path]

AnchorPath(r) == [r EXCEPT !.path = [i \in DOMAIN r.path |-> Decode[r.path[i]]]]

\* A class position has two distinct values, all of one generalizable class.
ClassAt(group, i) ==
    /\ Cardinality({r.path[i] : r \in group}) >= 2
    /\ \E c \in Generalizable : \A r \in group : Class[r.path[i]] = c

Template(group, r) ==
    [r EXCEPT !.path = [i \in DOMAIN r.path |->
                          IF ClassAt(group, i) THEN Class[r.path[i]] ELSE r.path[i]]]

\* Variant: the gate is not applied.
CollapseUngated(group, minDistinct) == {Template(group, r) : r \in group}

CollapseSegmentCountGroup(group, minDistinct) ==
    {LET t == Template(group, r)
     IN  IF /\ Cardinality({q \in group : Template(group, q) = t}) >= minDistinct
            /\ Len(t.path) <= MaxTemplateSegments
         THEN t ELSE r : r \in group}

CollapseHTTPPaths(requests, minDistinct) ==
    UNION {CollapseSegmentCountGroup(
             {q \in requests : q.method = r.method /\ Len(q.path) = Len(r.path)},
             minDistinct) : r \in requests}

DefaultMinFlowsPerL7Rule == 5

ResolveMinFlowsPerL7Rule(n) == IF n < 1 THEN DefaultMinFlowsPerL7Rule ELSE n

CollapseObsKey(f) == <<f.dir, PeerKey(f), f.l4>>

-----------------------------------------------------------------------------
(* Building the rules of one bucket.                                       *)

IsICMP(l4) == l4.proto = "ICMP"

NoL7 == [http |-> {}, dns |-> {}]

DNSPorts == {[proto |-> "UDP", port |-> 53], [proto |-> "TCP", port |-> 53]}

\* The ports and ICMP types of a bucket; a DNS query opens none of its own.
L4s(bucket) == {f.l4 : f \in {g \in bucket.flows : g.l7.kind # "dns"}}

HTTPFlows(bucket, l4) == {f \in bucket.flows : f.l7.kind = "http" /\ f.l4 = l4}

\* MergeL7PathSets: the requests of the whole run in the group of a flow.
MergeL7PathSets(f, obs) == {o[2] : o \in {x \in obs : x[1] = CollapseObsKey(f)}}

\* HTTP sub-list of a port of the bucket: the observed literals, or, when the
\* collapse is on, what it makes of the group's requests.
HTTPRules(bucket, l4, opts, obs) ==
    LET https == HTTPFlows(bucket, l4)
    IN  IF opts.collapse /\ https # {}
        THEN CollapseHTTPPaths(MergeL7PathSets(CHOOSE f \in https : TRUE, obs),
                               ResolveMinFlowsPerL7Rule(opts.minFlows))
        ELSE {AnchorPath(Request(f)) : f \in https}

\* Each port carries its own L7 sub-list, empty when no request was seen on it.
PortRulesFor(ports, bucket, opts, obs) ==
    [p \in ports |-> [http |-> HTTPRules(bucket, p, opts, obs), dns |-> {}]]

\* A port rule and an ICMP rule for the bucket's peer, each if not empty.
RulesFrom(bucket, ns, opts, obs) ==
    LET dir   == bucket.first.dir
        peer  == BucketPeer(bucket.first, ns)
        ports == {p \in L4s(bucket) : ~IsICMP(p)}
        icmps == {p \in L4s(bucket) : IsICMP(p)}
        rule(ps, is) == [dir |-> dir, peer |-> peer, fqdns |-> {}, icmps |-> is,
                         ports |-> PortRulesFor(ps, bucket, opts, obs)]
    IN  (IF ports # {} THEN <<rule(ports, {})>> ELSE <<>>)
            \o (IF icmps # {} THEN <<rule({}, icmps)>> ELSE <<>>)

DNSRule(peer, fqdns, names) ==
    [dir |-> "egress", peer |-> peer, fqdns |-> fqdns, icmps |-> {},
     ports |-> [p \in DNSPorts |-> [http |-> {}, dns |-> names]]]

\* One rule whose only peer field is ToFQDNs for a bucket with DNS names.
FqdnEgressRulesFrom(bucket) ==
    LET names == {f.l7.name : f \in {g \in bucket.flows : g.l7.kind = "dns"}}
    IN  IF names = {} THEN <<>> ELSE <<DNSRule(NoPeer, names, names)>>

\* The rules of one direction: those of the entity buckets, then of the CIDR and
\* of the endpoint ones, each in order of creation; FQDN rules come last.
BuildRules(flows, dir, ns, opts, obs) ==
    LET rules(kind) == FlattenSeq([i \in DOMAIN flows |->
            IF i \in GroupFlows(flows, dir, kind)
            THEN RulesFrom(Bucket(flows, i), ns, opts, obs) ELSE <<>>])
        fqdn(kind) == FlattenSeq([i \in DOMAIN flows |->
            IF dir = "egress" /\ i \in GroupFlows(flows, dir, kind)
            THEN FqdnEgressRulesFrom(Bucket(flows, i)) ELSE <<>>])
    IN  rules("entity") \o rules("cidr") \o rules("endpoint")
          \o fqdn("entity") \o fqdn("cidr") \o fqdn("endpoint")

-----------------------------------------------------------------------------
(* The kube-dns companion.                                                 *)

KubeDNSSelector == [kind |-> "endpoint", labels |-> DNSLabels, ns |-> "kube-system"]

SelectsKubeDNS(rule) ==
    /\ rule.peer.kind = "endpoint"
    /\ rule.peer.ns = "kube-system"
    /\ \/ DNSLabels \subseteq rule.peer.labels
       \/ rule.peer.labels \cap {<<"k8s-app", "kube-dns">>, <<"k8s-app", "coredns">>} # {}

HasKubeDNSCompanion(rules) ==
    \E i \in DOMAIN rules : /\ rules[i].dir = "egress"
                            /\ SelectsKubeDNS(rules[i])
                            /\ DNSPorts \subseteq DOMAIN rules[i].ports

FQDNMatchNames(rules) == UNION {rules[i].fqdns : i \in DOMAIN rules}

\* Variant: one open DNS port is taken for a companion.
EnsureCompanionHalf(rules) ==
    LET names == FQDNMatchNames(rules)
    IN  IF names = {} \/ \E i \in DOMAIN rules : SelectsKubeDNS(rules[i]) THEN rules
        ELSE Append(rules, DNSRule(KubeDNSSelector, {}, names))

EnsureKubeDNSCompanion(rules) ==
    LET names == FQDNMatchNames(rules)
    IN  IF names = {} \/ HasKubeDNSCompanion(rules) THEN rules
        ELSE Append(rules, DNSRule(KubeDNSSelector, {}, names))

\* The policy selects the pods of the first flow.
PickSelectorLabels(flows) == Head(flows).target

BuildPolicy(ns, flows, opts, obs) ==
    LET fs == [i \in DOMAIN flows |-> Seen(flows[i], opts.l7)]
    IN  [subject |-> BuildEndpointSelector(PickSelectorLabels(flows)),
         rules |-> EnsureKubeDNSCompanion(BuildRules(fs, "ingress", ns, opts, obs)
                                            \o BuildRules(fs, "egress", ns, opts, obs))]

-----------------------------------------------------------------------------
(* Merging a policy into the one on disk, and comparing two policies.      *)

IsICMPRule(r) == r.icmps # {}

\* Same peer and same type of rule.  ToFQDNs is not compared.
RulesMatch(a, b) ==
    a.dir = b.dir /\ a.peer = b.peer /\ IsICMPRule(a) = IsICMPRule(b)

\* Variant: literals written before the template stay beside it.
MergeL7Union(a, b, replaceHTTP) ==
    [http |-> a.http \cup b.http, dns |-> a.dns \cup b.dns]

MergeL7Rules(a, b, replaceHTTP) ==
    [http |-> IF replaceHTTP /\ b.http # {} THEN b.http ELSE a.http \cup b.http,
     dns  |-> a.dns \cup b.dns]

\* Variant: the ports of the incoming rule replace the existing ones.
MergePortsKeepsIncoming(existing, incoming, replaceHTTP) == incoming

MergePortRules(existing, incoming, replaceHTTP) ==
    [p \in DOMAIN existing \cup DOMAIN incoming |->
        CASE p \notin DOMAIN incoming -> existing[p]
          [] p \notin DOMAIN existing -> incoming[p]
          [] OTHER -> MergeL7Rules(existing[p], incoming[p], replaceHTTP)]

MergeICMPRules(existing, incoming) == existing \cup incoming

\* An incoming rule goes into the first one it matches, or to the end.
MergeRule(rules, in, replaceHTTP) ==
    LET at == SelectInSeq(rules, LAMBDA r : RulesMatch(r, in))
    IN  IF at = 0 THEN Append(rules, in)
        ELSE [rules EXCEPT ![at].ports = MergePortRules(@, in.ports, replaceHTTP),
                           ![at].icmps = MergeICMPRules(@, in.icmps)]

MergePolicy(existing, incoming, replaceHTTP) ==
    LET merged[i \in 0..Len(incoming.rules)] ==
          IF i = 0 THEN existing.rules
          ELSE MergeRule(merged[i - 1], incoming.rules[i], replaceHTTP)
    IN  [existing EXCEPT !.rules = merged[Len(incoming.rules)]]

\* Rules are sorted before the comparison, so it is one of sets.
PoliciesEquivalent(a, b) ==
    /\ a.subject = b.subject
    /\ Len(a.rules) = Len(b.rules) /\ ToSet(a.rules) = ToSet(b.rules)

\* The order of a rule's PortRules and ICMP fields is not normalised: two
\* policies that differ in nothing else may compare as different.
OrderSensitive(p) ==
    \E r \in ToSet(p.rules) :
        \/ Cardinality(r.icmps) >= 2
        \/ /\ Cardinality(DOMAIN r.ports) >= 2
           /\ \E q \in DOMAIN r.ports : r.ports[q].http # {}
=============================================================================
