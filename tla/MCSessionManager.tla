-------------------------- MODULE MCSessionManager --------------------------
(* Two start_session calls and two stop_session calls, interchangeable.     *)
EXTENDS SessionManager, TLC

Symmetry == Permutations(Sessions) \cup Permutations(Stoppers)
=============================================================================
