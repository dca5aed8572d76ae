----------------------------- MODULE SessionSlot -----------------------------
(***************************************************************************)
(* What pkg/session promises of its single slot, seen from outside: an id  *)
(* is minted once, captures at most once, stops at most once and is gone   *)
(* for good when a later start or the shutdown takes its place.            *)
(***************************************************************************)
CONSTANT Sessions

VARIABLE phase      \* what an observer of the manager knows of each id

Phases == {"new", "capturing", "stopped", "gone"}

Init == phase = [s \in Sessions |-> "new"]

\* A start takes the slot only when nothing captures; a retained session goes.
Begin(s) ==
    /\ phase[s] = "new"
    /\ \A t \in Sessions : phase[t] # "capturing"
    /\ phase' = [t \in Sessions |->
           IF t = s THEN "capturing" ELSE IF phase[t] = "stopped" THEN "gone" ELSE phase[t]]

Halt(s) ==
    /\ phase[s] = "capturing"
    /\ phase' = [phase EXCEPT ![s] = "stopped"]

\* A failed start, or the server's shutdown.
Drop(s) ==
    /\ phase[s] \in {"capturing", "stopped"}
    /\ phase' = [phase EXCEPT ![s] = "gone"]

Next == \E s \in Sessions : Begin(s) \/ Halt(s) \/ Drop(s)

Spec == Init /\ [][Next]_phase
=============================================================================
