--------------------------- MODULE MCPolicyStore ---------------------------
(* Two workloads of the same name in two namespaces, and for the first one  *)
(* every kind of peer, protocol and L7 record the builder tells apart.      *)
EXTENDS PolicyStore

A == [ns |-> "n1", labels |-> {<<"app", "web">>}]
B == [ns |-> "n2", labels |-> {<<"app", "web">>}]
Host == [ns |-> NoNamespace, labels |-> {}]

(* Other pods whose workload name is "web" too. *)
Twin == [ns |-> "n1", labels |-> {<<"app.kubernetes.io/name", "web">>, <<"app", "w">>}]

MCClass == ("users" :> "word") @@ ("1" :> "numeric") @@ ("2" :> "numeric")
             @@ ("items" :> "word") @@ ("%61" :> "word") @@ ("a" :> "word")
MCDecode == [s \in DOMAIN MCClass |-> IF s = "%61" THEN "a" ELSE s]
MCDNSLabels == {<<"k8s-app", "kube-dns">>}

Client(ns) == [kind |-> "endpoint", ns |-> ns,
               labels |-> {<<"app", "client">>, <<"pod-template-hash", ns>>}]
KubeDNS == [kind |-> "endpoint", ns |-> "kube-system", labels |-> MCDNSLabels]
TCP(n) == [proto |-> "TCP", port |-> n]
UDP(n) == [proto |-> "UDP", port |-> n]
None == [kind |-> "none"]
Get(path) == [kind |-> "http", method |-> "GET", path |-> path]
Query(n) == [kind |-> "dns", name |-> n]
Flow(pod, dir, peer, l4, l7) ==
    [dir |-> dir, ns |-> pod.ns, target |-> pod.labels, peer |-> peer, l4 |-> l4, l7 |-> l7]
In(w, peer, l4, l7) == Flow(w, "ingress", peer, l4, l7)
Out(w, peer, l4, l7) == Flow(w, "egress", peer, l4, l7)

MCFlows ==
    {In(A, Client("n1"), TCP(80), None),
     In(A, Client("n2"), TCP(81), None),
     In(A, Client("n1"), TCP(80), Get(<<"users", "1">>)),
     In(A, Client("n1"), TCP(80), Get(<<"users", "2">>)),
     In(B, Client("n1"), TCP(80), Get(<<"users", "%61", "2">>)),
     In(B, Client("n1"), TCP(80), Get(<<"items", "2">>)),
     In(B, Client("n2"), TCP(80), None),
     In(Twin, Client("n1"), TCP(80), None),
     In(Host, Client("n1"), TCP(80), None),
     Out(A, KubeDNS, UDP(53), Query("x")),
     Out(A, KubeDNS, UDP(53), Query("y")),
     Out(A, KubeDNS, TCP(53), None),
     In(A, [kind |-> "entity", id |-> "host"], TCP(80), None),
     In(A, [kind |-> "world", ip |-> "10"], [proto |-> "ICMP", port |-> 8], None),
     In(A, [kind |-> "world", ip |-> NoIP], TCP(80), None)}

Opt(l7, collapse, dry) == [l7 |-> l7, collapse |-> collapse, minFlows |-> 2, dry |-> dry]
MCOptions == {Opt(TRUE, FALSE, FALSE), Opt(TRUE, TRUE, FALSE), Opt(FALSE, FALSE, TRUE)}

Deployed == BuildPolicy("n1", <<In(A, Client("n1"), TCP(80), None)>>, Opt(FALSE, FALSE, FALSE), {})
MCClusters == {{}, {[ns |-> "n1", name |-> {"web"}, policy |-> Deployed]}}
=============================================================================
