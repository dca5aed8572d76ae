---------------------------- MODULE MCQueryPages ----------------------------
(* Three workloads, evidence files of up to two rules, and one request of   *)
(* every shape the tools tell apart.                                        *)
EXTENDS QueryPages, TLC

MCClass == 1 :> "infra"

Req(tool, target, rules, dir, class, limit) ==
    [tool |-> tool, target |-> target, rules |-> rules, dir |-> dir,
     class |-> class, limit |-> limit, bad |-> FALSE]

Flows(target, dir, class, limit) ==
    Req("list_dropped_flows", target, {}, dir, class, limit)

MCRequests ==
    {Req("list_policies", None, {}, None, None, 0),
     Req("get_evidence", KeyOrder[1], Rules, None, None, 0),
     Req("get_evidence", KeyOrder[1], {2}, None, None, 0),
     Req("get_evidence", KeyOrder[3], Rules, None, None, 0),
     Flows(None, None, None, 0), Flows(None, None, None, 3),
     Flows(KeyOrder[2], "egress", "unknown", 0), Flows(None, None, "infra", 0),
     Req("get_cluster_health", None, {}, None, None, 0),
     [Flows(None, None, None, 0) EXCEPT !.bad = TRUE]}

(* Names whose files are listed in the order of their keys; the files of    *)
(* "d" do not parse.                                                        *)
PlainNames == <<"a", "c", "d">>

(* "a-b.yaml" is listed before "a.yaml", but "a" sorts before "a-b".        *)
Names == <<"a", "a-b", "c">>
FileNames == <<"a-b", "a", "c">>
=============================================================================
