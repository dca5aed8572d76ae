----------------------------- MODULE GrantStore -----------------------------
(***************************************************************************)
(* What merge-on-write promises: the grants of a workload's policy file    *)
(* only grow, one file at a time.  A grant is a peer with a port or an     *)
(* ICMP type; which requests a granted port narrows to is left open.       *)
(***************************************************************************)
CONSTANT Workloads

VARIABLE granted   \* granted[w]: the grants of the file of w

Init == granted \in [Workloads -> {{}}]

Publish(w) ==
    /\ granted[w] \subseteq granted'[w]
    /\ granted' = [granted EXCEPT ![w] = granted'[w]]

Next == \E w \in Workloads : Publish(w)

Spec == Init /\ [][Next]_granted
=============================================================================
