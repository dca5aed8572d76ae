---------------------------- MODULE PolicyStore ----------------------------
(***************************************************************************)
(* From flows to policy files: the aggregator's buckets and its flush, the *)
(* channel of policy events, policyWriter.handle and the output writer's   *)
(* merge-on-write, over several runs against one output directory.  The    *)
(* whole-run path store of the HTTP collapse is part of the aggregator.    *)
(***************************************************************************)
EXTENDS PolicyRules

CONSTANTS
    Flows,       \* the flows the source can deliver
    NoNamespace, \* the namespace of a reserved identity
    Options,     \* [l7, collapse, minFlows, dry]: how a run can be started
    Clusters,    \* sets of managed policies [ns, name, policy] a run can find
    MaxFlows,    \* bound: flows over all runs
    MaxRuns      \* bound: runs against the output directory

ASSUME FlowsAssumption == \A f \in Flows : IsFlow(f)
ASSUME OptionsAssumption ==
    \A o \in Options : {o.l7, o.collapse, o.dry} \subseteq BOOLEAN /\ o.minFlows \in Int
ASSUME BoundsAssumption == MaxFlows \in Nat /\ MaxRuns \in Nat \ {0}

\* No file, nothing written yet, no such cluster policy.
NoPolicy == [absent |-> TRUE]

VARIABLES
    opts,        \* options of the current run
    cluster,     \* clusterPolicies, keyed by policy name
    bucket,      \* bucket[w]: flows of the window, in arrival order
    flushing,    \* buckets the flush in progress has still to build
    collected,   \* L7CollapseState.Collected: <<obsKey, request>> pairs
    retained,    \* L7CollapseState.Retained
    queue,       \* policy events on their way to the writer
    written,     \* policyWriter.written
    file,        \* the YAML files, surviving every run
    settled,     \* history: flows whose event was written or found unchanged
    deployed,    \* history: flows skipped in this run as already in the cluster
    ever,        \* history: flows a policy was built from, over all runs
    collapsed,   \* history: some run had the collapse on
    nflows, nruns

\* The aggregation key of a flow, which two kinds of pods may share.
KeyFromFlow(f) == [ns |-> f.ns, name |-> WorkloadName(f.target)]

Workloads == {KeyFromFlow(f) : f \in {g \in Flows : g.ns # NoNamespace}}

aggregator == <<bucket, flushing, collected, retained>>
writer == <<written, file, settled, deployed>>
run == <<opts, cluster, collapsed, nruns>>
vars == <<aggregator, queue, writer, run, ever, nflows>>

\* The listed policies, keyed by their name alone: of two namesakes one stays.
LoadClusterPolicies(listed) ==
    LET named(n) == {p \in listed : p.name = n}
    IN  {m \in [{w.name : w \in Workloads} -> listed \cup {NoPolicy}] :
            \A n \in DOMAIN m : IF named(n) = {} THEN m[n] = NoPolicy ELSE m[n] \in named(n)}

Snapshots == UNION {LoadClusterPolicies(listed) : listed \in Clusters}

Init ==
    /\ opts \in Options
    /\ cluster \in Snapshots
    /\ bucket = [w \in Workloads |-> <<>>]
    /\ flushing = {}
    /\ collected = {} /\ retained = {}
    /\ queue = <<>>
    /\ written = [w \in Workloads |-> NoPolicy]
    /\ file = [w \in Workloads |-> NoPolicy]
    /\ settled = [w \in Workloads |-> {}]
    /\ deployed = [w \in Workloads |-> {}]
    /\ ever = [w \in Workloads |-> {}]
    /\ collapsed = opts.collapse
    /\ nflows = 0 /\ nruns = 1

-----------------------------------------------------------------------------
(* The aggregator.                                                         *)

\* A flow of a reserved identity has no bucket and is only tracked.
Observe(f) ==
    /\ flushing = {} /\ nflows < MaxFlows
    /\ bucket' = [w \in Workloads |->
                     IF w = KeyFromFlow(f) THEN Append(bucket[w], f) ELSE bucket[w]]
    /\ nflows' = nflows + 1
    /\ UNCHANGED <<flushing, collected, retained, queue, writer, run, ever>>

Flush ==
    /\ flushing = {}
    /\ flushing' = {w \in Workloads : bucket[w] # <<>>}
    /\ flushing' # {}
    /\ UNCHANGED <<bucket, collected, retained, queue, writer, run, ever, nflows>>

\* The flows of the bucket BuildPolicy can turn into rules.
Demands(w) ==
    {Seen(f, opts.l7) : f \in {g \in ToSet(bucket[w]) : ~Trackable(g)}}

\* recordL7 observes a request for the collapse before the rules are built.
Observations(w) ==
    IF ~opts.collapse THEN {}
    ELSE {<<CollapseObsKey(f), Request(f)>> :
            f \in {g \in Demands(w) : g.l7.kind = "http"}}

\* Variant: the window is not cleared.
AbsorbKeeps(obs) == retained' = retained \cup obs /\ collected' = obs

\* After the last bucket of a flush the window joins the whole-run store.
Absorb(obs) == retained' = retained \cup obs /\ collected' = {}

\* One iteration of the flush loop.
BuildBucket(w) ==
    LET obs == collected \cup Observations(w)
    IN  /\ w \in flushing
        /\ flushing' = flushing \ {w}
        /\ bucket' = [bucket EXCEPT ![w] = <<>>]
        /\ queue' = Append(queue,
              [wl |-> w, flows |-> Demands(w), replace |-> opts.l7 /\ opts.collapse,
               policy |-> BuildPolicy(w.ns, bucket[w], opts, retained \cup obs)])
        /\ IF flushing' = {} THEN Absorb(obs) ELSE collected' = obs /\ UNCHANGED retained
        /\ ever' = [ever EXCEPT ![w] = @ \cup Demands(w)]
        /\ UNCHANGED <<writer, run, nflows>>

-----------------------------------------------------------------------------
(* The policy writer: handle takes one event.                              *)

\* PoliciesEquivalent answers TRUE, or FALSE.
Same(a, p) == a # NoPolicy /\ PoliciesEquivalent(a, p)

Differs(a, p) == ~Same(a, p) \/ OrderSensitive(p)

\* The snapshot is looked up by policy name alone.
ClusterPolicy(w) ==
    IF cluster[w.name] = NoPolicy THEN NoPolicy ELSE cluster[w.name].policy

Take == /\ queue # <<>>
        /\ queue' = Tail(queue)
        /\ UNCHANGED <<aggregator, run, ever, nflows>>

Settle(ev) == /\ settled' = [settled EXCEPT ![ev.wl] = @ \cup ev.flows]
              /\ UNCHANGED deployed

SkipForClusterMatch ==
    /\ Take
    /\ Same(ClusterPolicy(Head(queue).wl), Head(queue).policy)
    /\ deployed' = [deployed EXCEPT ![Head(queue).wl] = @ \cup Head(queue).flows]
    /\ UNCHANGED <<written, file, settled>>

SkipForCrossFlushMatch ==
    LET ev == Head(queue)
    IN  /\ Take
        /\ Differs(ClusterPolicy(ev.wl), ev.policy)
        /\ Same(written[ev.wl], ev.policy)
        /\ IF opts.dry THEN UNCHANGED <<settled, deployed>> ELSE Settle(ev)
        /\ UNCHANGED <<written, file>>

Changed(ev) == /\ Differs(ClusterPolicy(ev.wl), ev.policy)
               /\ Differs(written[ev.wl], ev.policy)

DryRunEmit ==
    LET ev == Head(queue)
    IN  /\ Take /\ Changed(ev) /\ opts.dry
        /\ written' = [written EXCEPT ![ev.wl] = ev.policy]
        /\ UNCHANGED <<file, settled, deployed>>

\* Writer.Write ends in one rename: the file is replaced whole or not at all.
WriteOk ==
    LET ev  == Head(queue)
        old == file[ev.wl]
    IN  /\ Take /\ Changed(ev) /\ ~opts.dry
        /\ file' = [file EXCEPT ![ev.wl] =
              IF old = NoPolicy THEN ev.policy
              ELSE MergePolicy(old, ev.policy, ev.replace)]
        /\ written' = [written EXCEPT ![ev.wl] = ev.policy]
        /\ Settle(ev)

\* Variant: the history is updated before the write is known to succeed.
WriteFailsRemembered ==
    /\ Take /\ Changed(Head(queue)) /\ ~opts.dry
    /\ written' = [written EXCEPT ![Head(queue).wl] = Head(queue).policy]
    /\ UNCHANGED <<file, settled, deployed>>

WriteFails ==
    /\ Take /\ Changed(Head(queue)) /\ ~opts.dry
    /\ UNCHANGED writer

-----------------------------------------------------------------------------
(* The process ends or is killed; a new run starts on the same directory.  *)
(* With the collapse on it is authoritative for requests again, so the     *)
(* requests of earlier runs stop counting as settled.                      *)

Restart ==
    /\ nruns < MaxRuns
    /\ nruns' = nruns + 1
    /\ opts' \in Options
    /\ collapsed' = (collapsed \/ opts'.collapse)
    /\ cluster' \in Snapshots
    /\ bucket' = [w \in Workloads |-> <<>>]
    /\ flushing' = {}
    /\ collected' = {} /\ retained' = {}
    /\ queue' = <<>>
    /\ written' = [w \in Workloads |-> NoPolicy]
    /\ settled' = [w \in Workloads |->
          {f \in settled[w] : opts'.collapse => f.l7.kind # "http"}]
    /\ deployed' = [w \in Workloads |-> {}]
    /\ UNCHANGED <<file, ever, nflows>>

Next ==
    \/ \E f \in Flows : Observe(f)
    \/ Flush
    \/ \E w \in Workloads : BuildBucket(w)
    \/ SkipForClusterMatch \/ SkipForCrossFlushMatch
    \/ DryRunEmit \/ WriteOk \/ WriteFails
    \/ Restart

Spec == Init /\ [][Next]_vars

-----------------------------------------------------------------------------
(* What a policy allows, as Cilium reads it.                               *)

SelectorAllows(sel, peer, ns) ==
    CASE peer.kind = "entity"   -> sel = [kind |-> "entity", id |-> peer.id]
      [] peer.kind = "world"    -> sel = [kind |-> "cidr", ip |-> peer.ip]
      [] OTHER -> /\ sel.kind = "endpoint"
                  /\ sel.labels \subseteq peer.labels
                  /\ sel.ns = IF peer.ns = ns THEN "own" ELSE peer.ns

RuleMatches(h, q) ==
    /\ h.method = q.method /\ Len(h.path) = Len(q.path)
    /\ \A i \in DOMAIN h.path :
          h.path[i] = q.path[i] \/ (h.path[i] \in Generalizable /\ h.path[i] = Class[q.path[i]])

L7Allows(l7, f) ==
    l7 = NoL7 \/ f.l7.kind = "none" \/ \E h \in l7.http : RuleMatches(h, Request(f))

RuleAllows(rule, f, ns) ==
    IF f.l7.kind = "dns"
    THEN \E p \in DNSPorts \cap DOMAIN rule.ports : f.l7.name \in rule.ports[p].dns
    ELSE /\ rule.dir = f.dir
         /\ SelectorAllows(rule.peer, f.peer, ns)
         /\ \/ f.l4 \in rule.icmps
            \/ f.l4 \in DOMAIN rule.ports /\ L7Allows(rule.ports[f.l4], f)

Covers(policy, f, ns) ==
    /\ policy # NoPolicy
    /\ policy.subject \subseteq f.target
    /\ \E r \in ToSet(policy.rules) : RuleAllows(r, f, ns)

RulesIn(policy) == IF policy = NoPolicy THEN {} ELSE ToSet(policy.rules)

IsTemplate(h) == \E i \in DOMAIN h.path : h.path[i] \in Generalizable

-----------------------------------------------------------------------------
(* Where the code is known to leave a handled flow uncovered.              *)

\* Peers that differ only in their namespace share one bucket, and with it
\* the selector of the first.
SharedBucket(w, f) ==
    /\ f.peer.kind = "endpoint"
    /\ \E g \in ever[w] : g.dir = f.dir /\ PeerKey(g) = PeerKey(f) /\ g.peer.ns # f.peer.ns

\* The literal rule of a percent-encoded path is written decoded.
EncodedPath(f) == f.l7.kind = "http" /\ AnchorPath(Request(f)) # Request(f)

\* The policy selects other pods, whose flows have the same key.
SharedName(policy, w, f) ==
    /\ policy # NoPolicy /\ policy.subject # SelectLabels(f.target)
    /\ \E g \in Flows : KeyFromFlow(g) = w /\ SelectLabels(g.target) = policy.subject

\* The snapshot holds the policy of a namesake in another namespace.
Namesake(w) == cluster[w.name] # NoPolicy /\ cluster[w.name].ns # w.ns

-----------------------------------------------------------------------------
(* Type correctness of the pipeline's state and of its histories.          *)
TypeOK ==
    /\ opts \in Options /\ cluster \in Snapshots
    /\ \A w \in Workloads : /\ ToSet(bucket[w]) \subseteq Flows
                            /\ settled[w] \cup deployed[w] \subseteq ever[w]
                            /\ file[w] = NoPolicy => settled[w] = {}
    /\ flushing \subseteq {w \in Workloads : bucket[w] # <<>>}
    /\ flushing = {} => collected = {}
    /\ \A i \in DOMAIN queue : queue[i].wl \in Workloads
    /\ nflows \in 0..MaxFlows /\ nruns \in 1..MaxRuns

(* Every flow whose event the writer wrote, or skipped as unchanged, stays   *)
(* allowed by the workload's file through all later flushes, failed writes  *)
(* and runs; a flow skipped as deployed is allowed by a cluster policy of   *)
(* its own namespace.  The exceptions are the gaps named above; of a DNS    *)
(* query only the permission of the lookup is claimed.                      *)
HandledFlowsCovered ==
    \A w \in Workloads :
        /\ \A f \in settled[w] :
              \/ Covers(file[w], f, w.ns)
              \/ SharedName(file[w], w, f) \/ SharedBucket(w, f) \/ EncodedPath(f)
        /\ \A f \in deployed[w] :
              \/ cluster[w.name].ns = w.ns /\ Covers(ClusterPolicy(w), f, w.ns)
              \/ Namesake(w) \/ SharedName(ClusterPolicy(w), w, f)
              \/ SharedBucket(w, f) \/ EncodedPath(f)

\* Requests observed on the port of the rule's peer by the workloads ws.
Backing(ws, rule, l4) ==
    {Request(f) : f \in {g \in UNION {ever[w] : w \in ws} :
        /\ g.l7.kind = "http" /\ g.dir = rule.dir /\ g.l4 = l4
        /\ PeerKey(g)[2] = IF rule.peer.kind = "endpoint" THEN rule.peer.labels
                           ELSE IF rule.peer.kind = "cidr" THEN rule.peer.ip ELSE rule.peer.id}}

\* A literal was observed; a template stands for enough distinct requests.
HTTPJustified(h, requests) ==
    \/ \E q \in requests : h = q \/ h = AnchorPath(q)
    \/ /\ IsTemplate(h)
       /\ \E o \in Options : /\ o.collapse
                             /\ Cardinality({q \in requests : RuleMatches(h, q)})
                                  >= ResolveMinFlowsPerL7Rule(o.minFlows)

\* The peer the rule allows, or one that got into its bucket by its labels.
PeerOf(w, rule, f) ==
    \/ SelectorAllows(rule.peer, f.peer, w.ns)
    \/ SharedBucket(w, f) /\ \E g \in ever[w] : /\ g.dir = f.dir /\ PeerKey(g) = PeerKey(f)
                                                /\ rule.peer = BucketPeer(g, w.ns)

RuleJustified(w, rule) ==
    LET names   == {f.l7.name : f \in {g \in ever[w] : g.l7.kind = "dns"}}
        sources == IF collapsed THEN Workloads ELSE {w}
        dropped(l4) == \E f \in ever[w] : /\ f.dir = rule.dir /\ f.l4 = l4
                                          /\ f.l7.kind # "dns" /\ PeerOf(w, rule, f)
    IN  /\ rule.fqdns \subseteq names
        /\ \A l4 \in rule.icmps : dropped(l4)
        /\ \A l4 \in DOMAIN rule.ports :
              /\ rule.ports[l4].dns \subseteq names
              /\ rule.ports[l4].dns = {} => dropped(l4)
              /\ \A h \in rule.ports[l4].http :
                    HTTPJustified(h, Backing(sources, rule, l4))

(* Nothing is allowed that was not dropped: every peer, port, ICMP type and *)
(* DNS name of a file comes from a flow of that workload, every literal     *)
(* path was observed and every template has passed the gate.  Two gaps are  *)
(* left out: a peer may get a port that was dropped for its namesake in     *)
(* another namespace (their bucket is one), and once a run had the collapse *)
(* on, the requests may be those of another workload.                       *)
NothingUnjustified ==
    \A w \in Workloads : \A r \in RulesIn(file[w]) : RuleJustified(w, r)

\* No literal of the list is matched by a template of the list.
Clean(http) == \A h, t \in http : (IsTemplate(t) /\ RuleMatches(t, h)) => h = t

(* The collapsed list replaces what earlier flushes and runs wrote: in a    *)
(* run with the collapse on, once a request has been settled, the list of   *)
(* its port is clean in every rule of its peer, unless its bucket was       *)
(* created by a namesake of the peer, whose rule got the list.              *)
NoShadowedLiteral ==
    \A w \in Workloads : \A f \in settled[w] :
        (opts.collapse /\ f.l7.kind = "http" /\ ~SharedBucket(w, f)) =>
            \A r \in RulesIn(file[w]) :
                (r.dir = f.dir /\ r.peer = BucketPeer(f, w.ns) /\ f.l4 \in DOMAIN r.ports) =>
                    Clean(r.ports[f.l4].http)

(* DNS-02: a file that names FQDNs opens 53/UDP and 53/TCP to the DNS pods, *)
(* after every merge.                                                       *)
CompanionPresent ==
    \A w \in Workloads : file[w] # NoPolicy =>
        (FQDNMatchNames(file[w].rules) # {} => HasKubeDNSCompanion(file[w].rules))

\* Peers with their ports and ICMP types, and FQDNs, a file allows.
GrantsOf(policy) ==
    UNION {{<<r.dir, r.peer, l4>> : l4 \in DOMAIN r.ports \cup r.icmps} : r \in RulesIn(policy)}

Grants == INSTANCE GrantStore
            WITH granted <- [w \in Workloads |-> GrantsOf(file[w])]

(* The files implement a store of grants that only grow: no flush, failed   *)
(* write, crash or later run takes a port or a peer from a file.            *)
GrantsOnlyGrow == Grants!Spec

(* Every DNS name observed on egress is among the ToFQDNs of the file.      *)
DnsNamesKept ==
    \A w \in Workloads : \A f \in settled[w] :
        (f.l7.kind = "dns" /\ file[w] # NoPolicy) => f.l7.name \in FQDNMatchNames(file[w].rules)

(* The collapse never widens a policy by requests of another workload.      *)
NoForeignPaths ==
    \A w \in Workloads : \A r \in RulesIn(file[w]) : \A l4 \in DOMAIN r.ports :
        \A h \in r.ports[l4].http : HTTPJustified(h, Backing({w}, r, l4))
=============================================================================
