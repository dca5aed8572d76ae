-------------------------- MODULE AuditWindowProofs --------------------------
(***************************************************************************)
(* The safety properties of AuditWindow for any number of endpoints and    *)
(* ids.  The argument: an id the manager holds for a UID either changed    *)
(* hands or still names that UID (Bindings); after the drain nothing flips *)
(* (Phases); so what the sweep reverted stays reverted (Outcomes) and what *)
(* was never flipped is never addressed (Foreign).                         *)
(***************************************************************************)
EXTENDS AuditWindow, TLAPS

-----------------------------------------------------------------------------
(* The inductive invariant.                                                *)

\* Live endpoints have ids, and no two share one.
DistinctIds ==
    /\ \A e \in Endpoints : life[e] = "live" => epId[e] \in Ids
    /\ \A e, f \in Endpoints :
         life[e] = "live" /\ life[f] = "live" /\ epId[e] = epId[f] => e = f

\* The id i was once the id of f, and still is unless it changed hands; if f
\* never did, i is the only id it ever had.
Bound(f, i) ==
    /\ life[f] # "unborn"
    /\ i \in rebound \/ (life[f] = "live" /\ epId[f] = i)
    /\ Steady(f) => epId[f] = i

Bindings ==
    /\ \A r \in todo : Bound(r.uid, r.id)
    /\ flip.pc # "idle" => Bound(flip.uid, flip.id)
    /\ \A e \in Endpoints :
         /\ ours[e] # NoId => Bound(e, ours[e])
         /\ recs[e] # NoId => Bound(e, recs[e])
         /\ target[e] # NoId => Bound(e, target[e])

\* What each phase of the command excludes.
Phases ==
    /\ mainPc \in {"start", "list"} =>
         flip.pc = "idle" /\ \A e \in Endpoints : ours[e] = NoId
    /\ mainPc # "sweep" => todo = {}
    /\ mainPc \in {"start", "list", "sweep"} =>
         watcher = "none" /\ ~closing /\ \A k \in Callers : shut[k] = "idle"
    /\ mainPc \in {"open", "shutdown"} => watcher # "none"
    /\ mainPc \in {"defer", "exited"} =>
         \/ report # "none"
         \/ watcher = "none"
    /\ mainPc \in {"defer", "exited"} /\ watcher = "none" =>
         flip.pc = "idle" /\ \A e \in Endpoints : ours[e] = NoId
    /\ watcher = "exited" => flip.pc = "idle"
    /\ \A k \in Callers : shut[k] \in {"revert", "done"} => closing
    /\ shut["main"] \in {"drain", "revert"} => mainPc = "shutdown"
    /\ shut["defer"] \in {"drain", "revert"} => mainPc = "defer"
    /\ once # "free" => closing
    /\ report # "none" => closing
    /\ report = "results" => once = "done"
    /\ closing /\ ~drainExpired => watcher # "running"
    /\ once # "free" /\ ~drainExpired => recs = ours

\* What the sweep has done, and what was reported of it.
Outcomes ==
    /\ once = "free" => \A e \in Endpoints : result[e] = "none"
    /\ \A e \in Endpoints : result[e] # "none" => target[e] # NoId
    /\ once = "done" => \A e \in Endpoints : recs[e] # NoId => result[e] # "none"
    /\ ~drainExpired => \A e \in Endpoints : result[e] = "ok" /\ Steady(e) => ~audit[e]
    /\ report = "timeout" /\ ~drainExpired => Owned(ours) \subseteq stuck

\* An endpoint that was in audit mode before is neither flipped nor owned.
Foreign ==
    /\ ForeignUntouched
    /\ \A e \in Endpoints : native[e] /\ Steady(e) =>
         /\ ours[e] = NoId /\ recs[e] = NoId /\ target[e] = NoId
         /\ flip.pc \in {"set", "record"} => flip.uid # e

IInv == TypeOK /\ DistinctIds /\ Bindings /\ Phases /\ Outcomes /\ Foreign

\* After the drain no flipIfNeeded call is left.
LEMMA Quiet ==
    TypeOK /\ Phases /\ closing /\ ~drainExpired => flip.pc = "idle"
  BY DEF TypeOK, Phases

-----------------------------------------------------------------------------
(* Every step keeps the invariant.                                         *)

\* What a setFn call does to the mode of each endpoint.
LEMMA SetModeEffect ==
    ASSUME TypeOK, NEW id, NEW mode \in BOOLEAN, NEW err \in BOOLEAN, SetMode(id, mode, err)
    PROVE  /\ audit' \in [Endpoints -> BOOLEAN]
           /\ UNCHANGED <<life, epId, native, rebound>>
           /\ \A e \in Endpoints : e \notin At(id) => (audit'[e] <=> audit[e])
           /\ \A e \in At(id) : (audit'[e] <=> audit[e]) \/ (audit'[e] <=> mode)
           /\ ~err => \A e \in At(id) : audit'[e] <=> mode
<1>1. CASE audit' = [e \in Endpoints |-> IF e \in At(id) THEN mode ELSE audit[e]]
  <2>1. audit' \in [Endpoints -> BOOLEAN]
    BY <1>1 DEF TypeOK
  <2>2. \A e \in Endpoints : e \notin At(id) => (audit'[e] <=> audit[e])
    BY <1>1
  <2>3. \A e \in At(id) : audit'[e] <=> mode
    BY <1>1 DEF At
  <2> QED
    BY <2>1, <2>2, <2>3 DEF SetMode
<1>2. CASE err /\ UNCHANGED audit
  BY <1>2 DEF SetMode, TypeOK, At
<1> QED
  BY <1>1, <1>2 DEF SetMode

\* What a step of the sweep does.
LEMMA RevertEffect ==
    ASSUME TypeOK, NEW e \in Endpoints, CloseRevert(e)
    PROVE  /\ audit' \in [Endpoints -> BOOLEAN]
           /\ UNCHANGED <<life, epId, native, rebound>>
           /\ \A f \in Endpoints : audit'[f] => audit[f]
           /\ \A f \in Endpoints : audit[f] /\ ~audit'[f] => f \in At(target[e])
           /\ result'[e] = "ok" => \A f \in At(target[e]) : ~audit'[f]
           /\ result' \in [Endpoints -> {"none", "ok", "error"}]
           /\ result'[e] # "none"
           /\ \A f \in Endpoints : f # e => result'[f] = result[f]
<1>1. PICK err \in BOOLEAN : /\ SetMode(target[e], FALSE, err)
                             /\ result' = [result EXCEPT ![e] = IF err THEN "error" ELSE "ok"]
  BY DEF CloseRevert
<1>2. /\ audit' \in [Endpoints -> BOOLEAN]
      /\ UNCHANGED <<life, epId, native, rebound>>
      /\ \A f \in Endpoints : f \notin At(target[e]) => (audit'[f] <=> audit[f])
      /\ \A f \in At(target[e]) : (audit'[f] <=> audit[f]) \/ (audit'[f] <=> FALSE)
      /\ ~err => \A f \in At(target[e]) : audit'[f] <=> FALSE
  BY <1>1, SetModeEffect
<1>3. /\ result' \in [Endpoints -> {"none", "ok", "error"}]
      /\ result'[e] # "none"
      /\ result'[e] = "ok" => ~err
      /\ \A f \in Endpoints : f # e => result'[f] = result[f]
  BY <1>1 DEF TypeOK
<1> QED
  BY <1>2, <1>3

\* What a flip does.
LEMMA FlipSetEffect ==
    ASSUME TypeOK, FlipSet
    PROVE  /\ audit' \in [Endpoints -> BOOLEAN]
           /\ UNCHANGED <<life, epId, native, rebound>>
           /\ \A e \in Endpoints : audit[e] => audit'[e]
           /\ flip' = NoFlip \/ flip' = [flip EXCEPT !.pc = "record"]
<1>1. PICK err \in BOOLEAN : /\ SetMode(flip.id, TRUE, err)
                             /\ flip' = IF err THEN NoFlip ELSE [flip EXCEPT !.pc = "record"]
  BY DEF FlipSet
<1>2. /\ audit' \in [Endpoints -> BOOLEAN]
      /\ UNCHANGED <<life, epId, native, rebound>>
      /\ \A e \in Endpoints : e \notin At(flip.id) => (audit'[e] <=> audit[e])
      /\ \A e \in At(flip.id) : (audit'[e] <=> audit[e]) \/ (audit'[e] <=> TRUE)
  BY <1>1, SetModeEffect
<1> QED
  BY <1>1, <1>2

\* How each caller goes on when its Shutdown returns.
LEMMA LeaveEffect ==
    ASSUME NEW k \in Callers, NEW outcome, Leave(k, outcome)
    PROVE  /\ shut' = [shut EXCEPT ![k] = "done"]
           /\ \/ /\ k = "main" /\ mainPc' = "defer" /\ report' = outcome
                 /\ stuck' = IF outcome = "timeout" THEN Owned(ours) ELSE {}
              \/ k = "defer" /\ mainPc' = "exited" /\ UNCHANGED reportVars
              \/ k = "signal" /\ UNCHANGED <<mainPc, reportVars>>
           /\ UNCHANGED <<clusterVars, ctxDone, openVars, watchVars, drainExpired, closing,
                          once, sweepVars>>
<1>1. CASE k = "main"
  BY <1>1 DEF Leave
<1>2. CASE k = "defer"
  BY <1>2 DEF Leave
<1>3. CASE k = "signal"
  BY <1>3 DEF Leave
<1> QED
  BY <1>1, <1>2, <1>3 DEF Callers

\* Every step keeps the types.
LEMMA TypeStep ==
    TypeOK /\ DistinctIds /\ [Next]_vars => TypeOK'
<1> SUFFICES ASSUME TypeOK, DistinctIds, [Next]_vars
             PROVE  TypeOK'
  OBVIOUS
<1> USE IdAssumption DEF TypeOK, DistinctIds, IdOrNone, NoFlip, clusterVars, openVars,
        watchVars, sweepVars, reportVars, envUnchanged
<1>1. ASSUME NEW e \in Endpoints, CreateEndpoint(e) PROVE TypeOK'
  BY <1>1 DEF CreateEndpoint, At, Owned
<1>2. ASSUME NEW e \in Endpoints, DeleteEndpoint(e) PROVE TypeOK'
  BY <1>2 DEF DeleteEndpoint, At, Owned
<1>3. ASSUME NEW e \in Endpoints, RenumberEndpoint(e) PROVE TypeOK'
  BY <1>3 DEF RenumberEndpoint, At, Owned
<1>4. CASE Precondition
  BY <1>4 DEF Precondition, At, Owned
<1>5. CASE ListFails
  BY <1>5 DEF ListFails, At, Owned
<1>6. CASE List
  BY <1>6 DEF List, At, Owned
<1>7. CASE SweepNext
  BY <1>7 DEF SweepNext, BeginFlip, At, Owned
<1>8. CASE OpenReturns
  BY <1>8 DEF OpenReturns, At, Owned
<1>9. CASE WatchEvent
  BY <1>9 DEF WatchEvent, BeginFlip, At, Owned
<1>10. CASE WatcherExits
  BY <1>10 DEF WatcherExits, At, Owned
<1>11. CASE FlipRead
  BY <1>11 DEF FlipRead, At, Owned
<1>12. CASE FlipSet
  <2>1. flip' \in [pc : {"read", "set", "record"}, uid : Endpoints, id : Ids] \cup {NoFlip}
    BY <1>12, FlipSetEffect DEF FlipSet
  <2>2. audit' \in [Endpoints -> BOOLEAN] /\ UNCHANGED <<life, epId, native, rebound>>
    BY <1>12, FlipSetEffect
  <2> QED
    BY <1>12, <2>1, <2>2 DEF FlipSet
<1>13. CASE FlipRecord
  BY <1>13 DEF FlipRecord, At, Owned
<1>14. CASE Signal
  BY <1>14 DEF Signal, At, Owned
<1>15. CASE WindowEnds
  BY <1>15 DEF WindowEnds, At, Owned
<1>16. ASSUME NEW k \in Callers, ShutdownCancel(k) PROVE TypeOK'
  BY <1>16 DEF ShutdownCancel, Calls, Callers, At, Owned
<1>17. ASSUME NEW k \in Callers, ShutdownDrained(k) PROVE TypeOK'
  <2>1. drainExpired' \in BOOLEAN
    BY <1>17 DEF ShutdownDrained
  <2>2. shut' \in [Callers -> {"idle", "drain", "revert", "done"}]
    BY <1>17 DEF ShutdownDrained
  <2> QED
    BY <1>17, <2>1, <2>2 DEF ShutdownDrained
<1>18. ASSUME NEW k \in Callers, ShutdownReverted(k) PROVE TypeOK'
  <2>1. Leave(k, "results")
    BY <1>18 DEF ShutdownReverted
  <2> QED
    BY <1>18, <2>1, LeaveEffect DEF ShutdownReverted, Owned, Callers
<1>19. ASSUME NEW k \in Callers, ShutdownDeadline(k) PROVE TypeOK'
  <2>1. Leave(k, "timeout")
    BY <1>19 DEF ShutdownDeadline
  <2> QED
    BY <1>19, <2>1, LeaveEffect DEF ShutdownDeadline, Owned, Callers
<1>20. CASE CloseEnter
  BY <1>20 DEF CloseEnter, At, Owned
<1>21. ASSUME NEW e \in Endpoints, CloseResolve(e) PROVE TypeOK'
  BY <1>21 DEF CloseResolve, At, Owned
<1>22. ASSUME NEW e \in Endpoints, CloseRevert(e) PROVE TypeOK'
  <2>1. /\ audit' \in [Endpoints -> BOOLEAN]
        /\ UNCHANGED <<life, epId, native, rebound>>
        /\ result' \in [Endpoints -> {"none", "ok", "error"}]
    BY <1>22, RevertEffect
  <2> QED
    BY <1>22, <2>1 DEF CloseRevert
<1>23. CASE CloseDone
  BY <1>23 DEF CloseDone, At, Owned
<1>24. CASE UNCHANGED vars
  BY <1>24 DEF vars
<1> QED
  BY <1>1, <1>2, <1>3, <1>4, <1>5, <1>6, <1>7, <1>8, <1>9, <1>10, <1>11, <1>12, <1>13,
     <1>14, <1>15, <1>16, <1>17, <1>18, <1>19, <1>20, <1>21, <1>22, <1>23, <1>24
     DEF Next, Cluster, OpenStep, FlipStep, Sweep, ShutdownStep

\* An id is given only while no live endpoint has it.
LEMMA DistinctStep ==
    TypeOK /\ DistinctIds /\ [Next]_vars => DistinctIds'
<1> SUFFICES ASSUME TypeOK, DistinctIds, [Next]_vars
             PROVE  DistinctIds'
  OBVIOUS
<1> USE IdAssumption DEF TypeOK, DistinctIds, IdOrNone, clusterVars, openVars,
        watchVars, sweepVars, reportVars, envUnchanged
<1>1. ASSUME NEW e \in Endpoints, CreateEndpoint(e) PROVE DistinctIds'
  BY <1>1 DEF CreateEndpoint, At
<1>2. ASSUME NEW e \in Endpoints, DeleteEndpoint(e) PROVE DistinctIds'
  BY <1>2 DEF DeleteEndpoint, At
<1>3. ASSUME NEW e \in Endpoints, RenumberEndpoint(e) PROVE DistinctIds'
  BY <1>3 DEF RenumberEndpoint, At
<1>4. CASE Precondition
  BY <1>4 DEF Precondition, At
<1>5. CASE ListFails
  BY <1>5 DEF ListFails, At
<1>6. CASE List
  BY <1>6 DEF List, At
<1>7. CASE SweepNext
  BY <1>7 DEF SweepNext, BeginFlip, At
<1>8. CASE OpenReturns
  BY <1>8 DEF OpenReturns, At
<1>9. CASE WatchEvent
  BY <1>9 DEF WatchEvent, BeginFlip, At
<1>10. CASE WatcherExits
  BY <1>10 DEF WatcherExits, At
<1>11. CASE FlipRead
  BY <1>11 DEF FlipRead, At
<1>12. CASE FlipSet
  BY <1>12 DEF FlipSet, SetMode, At
<1>13. CASE FlipRecord
  BY <1>13 DEF FlipRecord, At
<1>14. CASE Signal
  BY <1>14 DEF Signal, At
<1>15. CASE WindowEnds
  BY <1>15 DEF WindowEnds, At
<1>16. ASSUME NEW k \in Callers, ShutdownCancel(k) PROVE DistinctIds'
  BY <1>16 DEF ShutdownCancel, Calls, Callers, At
<1>17. ASSUME NEW k \in Callers, ShutdownDrained(k) PROVE DistinctIds'
  BY <1>17 DEF ShutdownDrained, Callers, At
<1>18. ASSUME NEW k \in Callers, ShutdownReverted(k) PROVE DistinctIds'
  BY <1>18 DEF ShutdownReverted, Leave, Callers, At
<1>19. ASSUME NEW k \in Callers, ShutdownDeadline(k) PROVE DistinctIds'
  BY <1>19 DEF ShutdownDeadline, Leave, Callers, At
<1>20. CASE CloseEnter
  BY <1>20 DEF CloseEnter, At
<1>21. ASSUME NEW e \in Endpoints, CloseResolve(e) PROVE DistinctIds'
  BY <1>21 DEF CloseResolve, At
<1>22. ASSUME NEW e \in Endpoints, CloseRevert(e) PROVE DistinctIds'
  BY <1>22 DEF CloseRevert, SetMode, At
<1>23. CASE CloseDone
  BY <1>23 DEF CloseDone, At
<1>24. CASE UNCHANGED vars
  BY <1>24 DEF vars
<1> QED
  BY <1>1, <1>2, <1>3, <1>4, <1>5, <1>6, <1>7, <1>8, <1>9, <1>10, <1>11, <1>12, <1>13,
     <1>14, <1>15, <1>16, <1>17, <1>18, <1>19, <1>20, <1>21, <1>22, <1>23, <1>24
     DEF Next, Cluster, OpenStep, FlipStep, Sweep, ShutdownStep

\* Deletion and renumbering record the ids they unbind.
LEMMA BindingsStep ==
    TypeOK /\ DistinctIds /\ Bindings /\ [Next]_vars => Bindings'
<1> SUFFICES ASSUME TypeOK, DistinctIds, Bindings, [Next]_vars
             PROVE  Bindings'
  OBVIOUS
<1> USE IdAssumption DEF TypeOK, DistinctIds, Bindings, Bound, Steady, IdOrNone,
        NoFlip, clusterVars, openVars, watchVars, sweepVars, reportVars, envUnchanged
<1>1. ASSUME NEW e \in Endpoints, CreateEndpoint(e) PROVE Bindings'
  BY <1>1 DEF CreateEndpoint
<1>2. ASSUME NEW e \in Endpoints, DeleteEndpoint(e) PROVE Bindings'
  BY <1>2 DEF DeleteEndpoint
<1>3. ASSUME NEW e \in Endpoints, RenumberEndpoint(e) PROVE Bindings'
  BY <1>3 DEF RenumberEndpoint
<1>4. CASE Precondition
  BY <1>4 DEF Precondition
<1>5. CASE ListFails
  BY <1>5 DEF ListFails
<1>6. CASE List
  BY <1>6 DEF List
<1>7. CASE SweepNext
  BY <1>7 DEF SweepNext, BeginFlip
<1>8. CASE OpenReturns
  BY <1>8 DEF OpenReturns
<1>9. CASE WatchEvent
  BY <1>9 DEF WatchEvent, BeginFlip
<1>10. CASE WatcherExits
  BY <1>10 DEF WatcherExits
<1>11. CASE FlipRead
  BY <1>11 DEF FlipRead
<1>12. CASE FlipSet
  BY <1>12 DEF FlipSet, SetMode
<1>13. CASE FlipRecord
  BY <1>13 DEF FlipRecord
<1>14. CASE Signal
  BY <1>14 DEF Signal
<1>15. CASE WindowEnds
  BY <1>15 DEF WindowEnds
<1>16. ASSUME NEW k \in Callers, ShutdownCancel(k) PROVE Bindings'
  BY <1>16 DEF ShutdownCancel, Calls, Callers
<1>17. ASSUME NEW k \in Callers, ShutdownDrained(k) PROVE Bindings'
  BY <1>17 DEF ShutdownDrained, Callers
<1>18. ASSUME NEW k \in Callers, ShutdownReverted(k) PROVE Bindings'
  BY <1>18 DEF ShutdownReverted, Leave, Callers
<1>19. ASSUME NEW k \in Callers, ShutdownDeadline(k) PROVE Bindings'
  BY <1>19 DEF ShutdownDeadline, Leave, Callers
<1>20. CASE CloseEnter
  BY <1>20 DEF CloseEnter
<1>21. ASSUME NEW e \in Endpoints, CloseResolve(e) PROVE Bindings'
  BY <1>21 DEF CloseResolve
<1>22. ASSUME NEW e \in Endpoints, CloseRevert(e) PROVE Bindings'
  BY <1>22 DEF CloseRevert, SetMode
<1>23. CASE CloseDone
  BY <1>23 DEF CloseDone
<1>24. CASE UNCHANGED vars
  BY <1>24 DEF vars
<1> QED
  BY <1>1, <1>2, <1>3, <1>4, <1>5, <1>6, <1>7, <1>8, <1>9, <1>10, <1>11, <1>12, <1>13,
     <1>14, <1>15, <1>16, <1>17, <1>18, <1>19, <1>20, <1>21, <1>22, <1>23, <1>24
     DEF Next, Cluster, OpenStep, FlipStep, Sweep, ShutdownStep

\* Nothing flips once a Shutdown has seen the watcher go.
LEMMA PhasesStep ==
    TypeOK /\ Phases /\ [Next]_vars => Phases'
<1> SUFFICES ASSUME TypeOK, Phases, [Next]_vars
             PROVE  Phases'
  OBVIOUS
<1> USE IdAssumption DEF TypeOK, Phases, NoFlip, clusterVars, openVars, watchVars,
        sweepVars, reportVars, envUnchanged
<1>1. ASSUME NEW e \in Endpoints, CreateEndpoint(e) PROVE Phases'
  BY <1>1 DEF CreateEndpoint
<1>2. ASSUME NEW e \in Endpoints, DeleteEndpoint(e) PROVE Phases'
  BY <1>2 DEF DeleteEndpoint
<1>3. ASSUME NEW e \in Endpoints, RenumberEndpoint(e) PROVE Phases'
  BY <1>3 DEF RenumberEndpoint
<1>4. CASE Precondition
  BY <1>4 DEF Precondition
<1>5. CASE ListFails
  BY <1>5 DEF ListFails
<1>6. CASE List
  BY <1>6 DEF List
<1>7. CASE SweepNext
  BY <1>7 DEF SweepNext, BeginFlip
<1>8. CASE OpenReturns
  BY <1>8 DEF OpenReturns
<1>9. CASE WatchEvent
  BY <1>9 DEF WatchEvent, BeginFlip
<1>10. CASE WatcherExits
  BY <1>10 DEF WatcherExits
<1>11. CASE FlipRead
  BY <1>11 DEF FlipRead
<1>12. CASE FlipSet
  BY <1>12 DEF FlipSet, SetMode
<1>13. CASE FlipRecord
  BY <1>13 DEF FlipRecord
<1>14. CASE Signal
  BY <1>14 DEF Signal
<1>15. CASE WindowEnds
  BY <1>15 DEF WindowEnds
<1>16. ASSUME NEW k \in Callers, ShutdownCancel(k) PROVE Phases'
  BY <1>16 DEF ShutdownCancel, Calls, Callers
<1>17. ASSUME NEW k \in Callers, ShutdownDrained(k) PROVE Phases'
  BY <1>17 DEF ShutdownDrained, Callers
<1>18. ASSUME NEW k \in Callers, ShutdownReverted(k) PROVE Phases'
  <2>1. Leave(k, "results")
    BY <1>18 DEF ShutdownReverted
  <2>2. CASE k = "main"
    <3>1. shut["main"] = "revert"
      BY <1>18, <2>2 DEF ShutdownReverted
    <3>2. mainPc = "shutdown" /\ closing /\ watcher # "none" /\ todo = {}
      BY <3>1 DEF Callers
    <3>3. /\ UNCHANGED <<watcher, closing, once, drainExpired, recs, flip, ours, todo>>
          /\ mainPc' = "defer" /\ report' = "results"
          /\ shut' = [shut EXCEPT !["main"] = "done"]
      BY <2>1, <2>2, LeaveEffect
    <3> QED
      BY <1>18, <3>1, <3>2, <3>3, LeaveEffect, <2>1, <2>2 DEF ShutdownReverted, Callers
  <2>3. CASE k = "defer"
    BY <1>18, <2>1, <2>3, LeaveEffect DEF ShutdownReverted, Callers
  <2>4. CASE k = "signal"
    BY <1>18, <2>1, <2>4, LeaveEffect DEF ShutdownReverted, Callers
  <2> QED
    BY <2>2, <2>3, <2>4 DEF Callers
<1>19. ASSUME NEW k \in Callers, ShutdownDeadline(k) PROVE Phases'
  <2>1. Leave(k, "timeout")
    BY <1>19 DEF ShutdownDeadline
  <2>2. CASE k = "main"
    <3>1. shut["main"] = "revert"
      BY <1>19, <2>2 DEF ShutdownDeadline
    <3>2. mainPc = "shutdown" /\ closing /\ watcher # "none" /\ todo = {}
      BY <3>1 DEF Callers
    <3>3. /\ UNCHANGED <<watcher, closing, once, drainExpired, recs, flip, ours, todo>>
          /\ mainPc' = "defer" /\ report' = "timeout"
          /\ shut' = [shut EXCEPT !["main"] = "done"]
      BY <2>1, <2>2, LeaveEffect
    <3> QED
      BY <1>19, <3>1, <3>2, <3>3, LeaveEffect, <2>1, <2>2 DEF ShutdownDeadline, Callers
  <2>3. CASE k = "defer"
    BY <1>19, <2>1, <2>3, LeaveEffect DEF ShutdownDeadline, Callers
  <2>4. CASE k = "signal"
    BY <1>19, <2>1, <2>4, LeaveEffect DEF ShutdownDeadline, Callers
  <2> QED
    BY <2>2, <2>3, <2>4 DEF Callers
<1>20. CASE CloseEnter
  BY <1>20 DEF CloseEnter
<1>21. ASSUME NEW e \in Endpoints, CloseResolve(e) PROVE Phases'
  BY <1>21 DEF CloseResolve
<1>22. ASSUME NEW e \in Endpoints, CloseRevert(e) PROVE Phases'
  BY <1>22 DEF CloseRevert, SetMode
<1>23. CASE CloseDone
  BY <1>23 DEF CloseDone
<1>24. CASE UNCHANGED vars
  BY <1>24 DEF vars
<1> QED
  BY <1>1, <1>2, <1>3, <1>4, <1>5, <1>6, <1>7, <1>8, <1>9, <1>10, <1>11, <1>12, <1>13,
     <1>14, <1>15, <1>16, <1>17, <1>18, <1>19, <1>20, <1>21, <1>22, <1>23, <1>24
     DEF Next, Cluster, OpenStep, FlipStep, Sweep, ShutdownStep

\* What was reverted stays reverted.
LEMMA OutcomesStep ==
    TypeOK /\ DistinctIds /\ Bindings /\ Phases /\ Outcomes /\ [Next]_vars => Outcomes'
<1> SUFFICES ASSUME TypeOK, DistinctIds, Bindings, Phases, Outcomes, [Next]_vars
             PROVE  Outcomes'
  OBVIOUS
<1> USE IdAssumption DEF TypeOK, DistinctIds, Bindings, Bound, Phases, Outcomes,
        Steady, Owned, NoFlip, clusterVars, openVars, watchVars, sweepVars,
        reportVars, envUnchanged
<1>1. ASSUME NEW e \in Endpoints, CreateEndpoint(e) PROVE Outcomes'
  BY <1>1 DEF CreateEndpoint, At
<1>2. ASSUME NEW e \in Endpoints, DeleteEndpoint(e) PROVE Outcomes'
  BY <1>2 DEF DeleteEndpoint, At
<1>3. ASSUME NEW e \in Endpoints, RenumberEndpoint(e) PROVE Outcomes'
  BY <1>3 DEF RenumberEndpoint, At
<1>4. CASE Precondition
  BY <1>4 DEF Precondition, At
<1>5. CASE ListFails
  BY <1>5 DEF ListFails, At
<1>6. CASE List
  BY <1>6 DEF List, At
<1>7. CASE SweepNext
  BY <1>7 DEF SweepNext, BeginFlip, At
<1>8. CASE OpenReturns
  BY <1>8 DEF OpenReturns, At
<1>9. CASE WatchEvent
  BY <1>9 DEF WatchEvent, BeginFlip, At
<1>10. CASE WatcherExits
  BY <1>10 DEF WatcherExits, At
<1>11. CASE FlipRead
  BY <1>11 DEF FlipRead, At
<1>12. CASE FlipSet
  BY <1>12 DEF FlipSet, SetMode, At
<1>13. CASE FlipRecord
  BY <1>13 DEF FlipRecord, At
<1>14. CASE Signal
  BY <1>14 DEF Signal, At
<1>15. CASE WindowEnds
  BY <1>15 DEF WindowEnds, At
<1>16. ASSUME NEW k \in Callers, ShutdownCancel(k) PROVE Outcomes'
  BY <1>16 DEF ShutdownCancel, Calls, Callers, At
<1>17. ASSUME NEW k \in Callers, ShutdownDrained(k) PROVE Outcomes'
  BY <1>17 DEF ShutdownDrained, Callers, At
<1>18. ASSUME NEW k \in Callers, ShutdownReverted(k) PROVE Outcomes'
  BY <1>18 DEF ShutdownReverted, Leave, Callers, At
<1>19. ASSUME NEW k \in Callers, ShutdownDeadline(k) PROVE Outcomes'
  <2>1. Leave(k, "timeout")
    BY <1>19 DEF ShutdownDeadline
  <2>2. UNCHANGED <<clusterVars, ours, drainExpired, once, recs, target, result>>
    BY <2>1, LeaveEffect
  <2>3. CASE k = "main"
    BY <2>1, <2>2, <2>3, LeaveEffect DEF At
  <2>4. CASE k = "defer"
    BY <2>1, <2>2, <2>4, LeaveEffect DEF At
  <2>5. CASE k = "signal"
    BY <2>1, <2>2, <2>5, LeaveEffect DEF At
  <2> QED
    BY <2>3, <2>4, <2>5 DEF Callers
<1>20. CASE CloseEnter
  BY <1>20 DEF CloseEnter, At
<1>21. ASSUME NEW e \in Endpoints, CloseResolve(e) PROVE Outcomes'
  BY <1>21 DEF CloseResolve, At
<1>22. ASSUME NEW e \in Endpoints, CloseRevert(e) PROVE Outcomes'
  <2>1. target[e] # NoId /\ once = "busy"
    BY <1>22 DEF CloseRevert
  <2>2. Steady(e) => e \in At(target[e])
    BY <2>1 DEF At
  <2>3. UNCHANGED <<life, epId, rebound, drainExpired, once, ours, recs, target, report, stuck>>
    BY <1>22, RevertEffect DEF CloseRevert
  <2>4. ~drainExpired' => \A f \in Endpoints : result'[f] = "ok" /\ Steady(f)' => ~audit'[f]
    BY <1>22, <2>2, <2>3, RevertEffect
  <2> QED
    BY <1>22, <2>1, <2>3, <2>4, RevertEffect
<1>23. CASE CloseDone
  BY <1>23 DEF CloseDone, At
<1>24. CASE UNCHANGED vars
  BY <1>24 DEF vars
<1> QED
  BY <1>1, <1>2, <1>3, <1>4, <1>5, <1>6, <1>7, <1>8, <1>9, <1>10, <1>11, <1>12, <1>13,
     <1>14, <1>15, <1>16, <1>17, <1>18, <1>19, <1>20, <1>21, <1>22, <1>23, <1>24
     DEF Next, Cluster, OpenStep, FlipStep, Sweep, ShutdownStep

\* No command is addressed to an endpoint cpg did not flip.
LEMMA ForeignStep ==
    TypeOK /\ DistinctIds /\ Bindings /\ Foreign /\ [Next]_vars => Foreign'
<1> SUFFICES ASSUME TypeOK, DistinctIds, Bindings, Foreign, [Next]_vars
             PROVE  Foreign'
  OBVIOUS
<1> USE IdAssumption DEF TypeOK, DistinctIds, Bindings, Bound, Foreign,
        ForeignUntouched, Steady, NoFlip, clusterVars, openVars, watchVars, sweepVars,
        reportVars, envUnchanged
<1>1. ASSUME NEW e \in Endpoints, CreateEndpoint(e) PROVE Foreign'
  BY <1>1 DEF CreateEndpoint, At
<1>2. ASSUME NEW e \in Endpoints, DeleteEndpoint(e) PROVE Foreign'
  BY <1>2 DEF DeleteEndpoint, At
<1>3. ASSUME NEW e \in Endpoints, RenumberEndpoint(e) PROVE Foreign'
  BY <1>3 DEF RenumberEndpoint, At
<1>4. CASE Precondition
  BY <1>4 DEF Precondition, At
<1>5. CASE ListFails
  BY <1>5 DEF ListFails, At
<1>6. CASE List
  BY <1>6 DEF List, At
<1>7. CASE SweepNext
  BY <1>7 DEF SweepNext, BeginFlip, At
<1>8. CASE OpenReturns
  BY <1>8 DEF OpenReturns, At
<1>9. CASE WatchEvent
  BY <1>9 DEF WatchEvent, BeginFlip, At
<1>10. CASE WatcherExits
  BY <1>10 DEF WatcherExits, At
<1>11. CASE FlipRead
  <2>1. CASE flip' = NoFlip
    BY <1>11, <2>1 DEF FlipRead
  <2>2. CASE flip' # NoFlip
    <3>1. PICK e \in At(flip.id) : ~audit[e]
      BY <1>11, <2>2 DEF FlipRead
    <3>2. flip' = [flip EXCEPT !.pc = "set"] /\ flip.pc = "read" /\ flip.uid \in Endpoints
      BY <1>11, <2>2 DEF FlipRead
    <3>3. Steady(flip.uid) => flip.uid = e
      BY <3>1, <3>2 DEF At
    <3>4. ~(native[flip.uid] /\ Steady(flip.uid))
      BY <3>1, <3>2, <3>3
    <3> QED
      BY <1>11, <3>2, <3>4 DEF FlipRead
  <2> QED
    BY <2>1, <2>2
<1>12. CASE FlipSet
  <2>1. /\ UNCHANGED <<life, epId, native, rebound, ours, recs, target>>
        /\ \A e \in Endpoints : audit[e] => audit'[e]
    BY <1>12, FlipSetEffect DEF FlipSet
  <2>2. flip.pc = "set"
    BY <1>12 DEF FlipSet
  <2>3. flip'.pc \in {"set", "record"} => flip'.uid = flip.uid
    BY <2>2, FlipSetEffect, <1>12
  <2> QED
    BY <2>1, <2>2, <2>3
<1>13. CASE FlipRecord
  BY <1>13 DEF FlipRecord, At
<1>14. CASE Signal
  BY <1>14 DEF Signal, At
<1>15. CASE WindowEnds
  BY <1>15 DEF WindowEnds, At
<1>16. ASSUME NEW k \in Callers, ShutdownCancel(k) PROVE Foreign'
  BY <1>16 DEF ShutdownCancel, Calls, Callers, At
<1>17. ASSUME NEW k \in Callers, ShutdownDrained(k) PROVE Foreign'
  BY <1>17 DEF ShutdownDrained, Callers, At
<1>18. ASSUME NEW k \in Callers, ShutdownReverted(k) PROVE Foreign'
  BY <1>18 DEF ShutdownReverted, Leave, Callers, At
<1>19. ASSUME NEW k \in Callers, ShutdownDeadline(k) PROVE Foreign'
  BY <1>19 DEF ShutdownDeadline, Leave, Callers, At
<1>20. CASE CloseEnter
  BY <1>20 DEF CloseEnter, At
<1>21. ASSUME NEW e \in Endpoints, CloseResolve(e) PROVE Foreign'
  BY <1>21 DEF CloseResolve, At
<1>22. ASSUME NEW e \in Endpoints, CloseRevert(e) PROVE Foreign'
  <2>1. target[e] # NoId /\ UNCHANGED <<ours, recs, target, flip>>
    BY <1>22 DEF CloseRevert
  <2>2. /\ UNCHANGED <<life, epId, native, rebound>>
        /\ \A f \in Endpoints : audit[f] /\ ~audit'[f] => f \in At(target[e])
    BY <1>22, RevertEffect
  <2>3. \A f \in Endpoints : native[f] /\ Steady(f) => f \notin At(target[e])
    BY <2>1 DEF At
  <2> QED
    BY <2>1, <2>2, <2>3
<1>23. CASE CloseDone
  BY <1>23 DEF CloseDone, At
<1>24. CASE UNCHANGED vars
  BY <1>24 DEF vars
<1> QED
  BY <1>1, <1>2, <1>3, <1>4, <1>5, <1>6, <1>7, <1>8, <1>9, <1>10, <1>11, <1>12, <1>13,
     <1>14, <1>15, <1>16, <1>17, <1>18, <1>19, <1>20, <1>21, <1>22, <1>23, <1>24
     DEF Next, Cluster, OpenStep, FlipStep, Sweep, ShutdownStep

-----------------------------------------------------------------------------
(* The theorems.                                                           *)

\* Any namespace is a good start.
LEMMA InvInit == Init => IInv
<1> SUFFICES ASSUME Init PROVE IInv
  OBVIOUS
<1>1. TypeOK
  BY DEF Init, TypeOK, IdOrNone, NoFlip, Callers
<1>2. DistinctIds /\ Bindings
  BY IdAssumption DEF Init, DistinctIds, Bindings, NoFlip, IdOrNone
<1>3. Phases
  BY DEF Init, Phases, NoFlip, Callers
<1>4. Outcomes /\ Foreign
  BY DEF Init, Outcomes, Foreign, ForeignUntouched, Steady, NoFlip, Owned
<1> QED
  BY <1>1, <1>2, <1>3, <1>4 DEF IInv

\* The layers are kept together.
LEMMA InvStep == IInv /\ [Next]_vars => IInv'
  BY TypeStep, DistinctStep, BindingsStep, PhasesStep, OutcomesStep, ForeignStep DEF IInv

\* They hold in every reachable state.
LEMMA Invariant == Spec => []IInv
  BY InvInit, InvStep, PTL DEF Spec

\* Types: in particular every flip in flight is of an endpoint with an id.
THEOREM TypeCorrect == Spec => []TypeOK
<1>1. IInv => TypeOK
  BY DEF IInv
<1> QED
  BY <1>1, Invariant, PTL

\* Manager.Shutdown names every endpoint it failed to revert (T-23-06).
THEOREM NothingLeftUnnamed == Spec => []RevertedOrNamed
<1>1. IInv => RevertedOrNamed
  BY DEF IInv, TypeOK, Phases, Outcomes, RevertedOrNamed, Named, Owned
<1> QED
  BY <1>1, Invariant, PTL

\* flipIfNeeded and Close leave endpoints alone that were in audit mode before.
THEOREM OnlyOursReverted == Spec => []ForeignUntouched
<1>1. IInv => ForeignUntouched
  BY DEF IInv, Foreign
<1> QED
  BY <1>1, Invariant, PTL

\* Shutdown's order: cancel, drain, snapshot.
THEOREM DrainedBeforeSnapshot == Spec => []SnapshotAfterDrain
<1>1. IInv => SnapshotAfterDrain
  BY Quiet DEF IInv, Phases, SnapshotAfterDrain
<1> QED
  BY <1>1, Invariant, PTL

\* closeOnce: an outcome, once recorded, is final.
THEOREM SweptOnce == Spec => ResultsFinal
<1> DEFINE Final == \A e \in Endpoints : result[e] # "none" => result'[e] = result[e]
<1>1. IInv /\ [Next]_vars => [Final]_vars
  <2> SUFFICES ASSUME IInv, Next PROVE Final
    OBVIOUS
  <2>1. CASE CloseEnter
    BY <2>1 DEF CloseEnter, IInv, Outcomes
  <2>2. ASSUME NEW e \in Endpoints, CloseRevert(e) PROVE Final
    BY <2>2 DEF CloseRevert, IInv, TypeOK
  <2>3. UNCHANGED result => Final
    OBVIOUS
  <2> QED
    BY <2>1, <2>2, <2>3
       DEF Next, Cluster, OpenStep, FlipStep, Sweep, ShutdownStep, sweepVars, envUnchanged,
           CreateEndpoint, DeleteEndpoint, RenumberEndpoint, Precondition, ListFails, List,
           SweepNext, OpenReturns, WatchEvent, WatcherExits, FlipRead, FlipSet, FlipRecord,
           Signal, WindowEnds, ShutdownCancel, ShutdownDrained, ShutdownReverted,
           ShutdownDeadline, Leave, CloseResolve, CloseDone
<1> QED
  BY <1>1, Invariant, PTL DEF Spec, ResultsFinal
=============================================================================
