------------------------ MODULE SessionManagerProofs ------------------------
(***************************************************************************)
(* The safety properties of SessionManager hold for any number of          *)
(* start_session and stop_session calls.  Three layers of invariants, each *)
(* using the ones before it: types, control (who is where, and what that   *)
(* says of the slot, the port-forward and the context), and ownership of   *)
(* live sessions and directories.                                          *)
(***************************************************************************)
EXTENDS SessionManager, TLAPS

-----------------------------------------------------------------------------
(* The inductive invariant.                                                *)

\* A Session value exists from the claim on, and only those ids are known to
\* clients, named by a Stop, or held by Shutdown.
IdsExist ==
    /\ \A s \in Sessions : state[s] = "none" <=> startPc[s] \in {"idle", "rejected"}
    /\ slot # NoSession => state[slot] # "none"
    /\ \A s \in known : state[s] # "none"
    /\ \A c \in Stoppers :
         stop[c].pc # "idle" => state[stop[c].id] # "none"
    /\ shut.id # NoSession => state[shut.id] # "none" /\ slot # shut.id
    /\ shut.pc \in {"cancel", "waiting", "remove"} => shut.id # NoSession
    /\ shut.pc = "idle" => shut.id = NoSession
    /\ removal # "none" => shut.pc \in {"remove", "returned"} /\ shut.id # NoSession

\* The launch goroutine exists once Start has returned, and then the
\* directory is published; a directory is made only after the claim.
GoroutineAfterStart ==
    \A s \in Sessions :
        /\ pipePc[s] # "none" <=> startPc[s] = "returned"
        /\ tmpDir[s] <=> startPc[s] = "returned"
        /\ dir[s] => startPc[s] \in {"setup", "connected", "returned"}
        /\ done[s] => pipePc[s] = "exited"

\* The port-forward is closed exactly when its owner has let go of it.
PortForwardPhase ==
    \A s \in Sessions :
        /\ startPc[s] \in {"idle", "rejected", "claimed",
            "setup"} => portForward[s] = "none"
        /\ startPc[s] = "connected" \/ pipePc[s] \in {"running", "finalizing",
            "returned"}
             => portForward[s] \in {"none", "open"}
        /\ startPc[s] \in {"failing", "failed", "aborted"}
               \/ pipePc[s] \in {"auto", "released", "signalling", "exited"}
             => portForward[s] \in {"none", "closed"}

\* Who cancels a session, and what a stopped session implies.
CancelCauses ==
    /\ \A s \in Sessions :
         /\ startPc[s] \in {"failing", "failed", "aborted"} => cancelled[s]
         /\ cancelled[s] => state[s] # "none"
         /\ state[s] = "stopped" =>
              cancelled[s] \/ pipePc[s] \in {"released", "signalling", "exited"}
         /\ pipePc[s] = "released" => ~(slot = s /\ state[s] = "capturing")
         /\ pipePc[s] \in {"signalling", "exited"} =>
              CtxDone(s) \/ ~(slot = s /\ state[s] = "capturing")
         /\ cancelled[s] /\ slot = s /\ state[s] = "capturing" =>
              \/ startPc[s] = "failing"
              \/ \E c \in Stoppers : stop[c].id = s /\ stop[c].pc \in {"waiting",
                  "finalize"}
    /\ \A c \in Stoppers : stop[c].pc \in {"waiting",
        "finalize"} => cancelled[stop[c].id]

\* Where a session that has lost the slot keeps its directory.
ReleasedDirectory ==
    \A s \in Sessions :
        startPc[s] = "returned" /\ (dir[s] \/ PipelineWriting(s))
            => \/ slot = s
               \/ shut.id = s /\ shut.dir /\ removal # "done"
               \/ purgedLive[s]

\* A deadline-free teardown has seen the pipeline exit.
SettledTeardown ==
    /\ \A s \in Sessions :
         /\ state[s] = "stopped" /\ ~timedOut[s]
              => pipePc[s] \in {"released", "signalling", "exited"}
         /\ once[s] = "done" => state[s] = "stopped"
    /\ \A c \in Stoppers :
         /\ stop[c].pc = "finalize" /\ ~timedOut[stop[c].id]
              => pipePc[stop[c].id] = "exited"
         /\ stop[c].pc \in {"summary", "returned"} => state[stop[c].id] = "stopped"

\* explicitStopSeen is the memory of the first summary.
FirstStopMemory ==
    \A s \in Sessions : explicitStopSeen[s] <=> SummariesOf(s) # {}

Control == IdsExist /\ GoroutineAfterStart /\ PortForwardPhase

IInv == Control /\ CancelCauses /\ LiveSessionReachable /\ ReleasedDirectory

-----------------------------------------------------------------------------
(* Types.                                                                  *)

\* Every variable starts in its type.
LEMMA TypeInit == Init => TypeOK
<1> SUFFICES ASSUME Init PROVE TypeOK
  OBVIOUS
<1>1. /\ stop \in [Stoppers -> StopCalls]
      /\ \A c \in Stoppers : stop[c].pc # "idle" => stop[c].id \in Sessions
      /\ summary \in [Stoppers -> Summaries]
      /\ shut \in ShutCalls
  BY DEF Init, StopCalls, StopPcs, Summaries, NoSummary, ShutCalls, ShutPcs,
         SessionOrNone
<1>2. /\ startPc \in [Sessions -> StartPcs]
      /\ pipePc \in [Sessions -> PipePcs]
      /\ slot \in SessionOrNone
      /\ known \subseteq Sessions
  BY DEF Init, StartPcs, PipePcs, SessionOrNone
<1> QED
  BY <1>1, <1>2 DEF Init, TypeOK

\* Every section of the manager keeps every variable in its type.
LEMMA TypeStep ==
    TypeOK /\ [Next]_vars => TypeOK'
<1> SUFFICES ASSUME TypeOK, [Next]_vars
             PROVE  TypeOK'
  OBVIOUS
<1> USE SlotAssumption
        DEF TypeOK, startVars, sessionVars, pipeVars, diskVars, stopVars, shutVars
<1>1. ASSUME NEW s \in Sessions, StartReject(s) PROVE TypeOK'
  BY <1>1 DEF StartReject, StartPcs, SessionOrNone
<1>2. ASSUME NEW s \in Sessions, StartClaim(s) PROVE TypeOK'
  BY <1>2 DEF StartClaim, RemoveAll, PipelineWriting, StartPcs, SessionOrNone
<1>3. ASSUME NEW s \in Sessions, MkdirTemp(s) PROVE TypeOK'
  BY <1>3 DEF MkdirTemp, StartPcs, SessionOrNone
<1>4. ASSUME NEW s \in Sessions, MkdirTempFails(s) PROVE TypeOK'
  BY <1>4 DEF MkdirTempFails, StartPcs, SessionOrNone
<1>5. ASSUME NEW s \in Sessions, ReachRelay(s) PROVE TypeOK'
  BY <1>5 DEF ReachRelay, StartPcs, SessionOrNone
<1>6. ASSUME NEW s \in Sessions, SetupFails(s) PROVE TypeOK'
  BY <1>6 DEF SetupFails, StartPcs, SessionOrNone
<1>7. ASSUME NEW s \in Sessions, DedupFails(s) PROVE TypeOK'
  BY <1>7 DEF DedupFails, PortForwardCleanup, StartPcs, SessionOrNone
<1>8. ASSUME NEW s \in Sessions, FailRelease(s) PROVE TypeOK'
  BY <1>8 DEF FailRelease, StartPcs, SessionOrNone
<1>9. ASSUME NEW s \in Sessions, StartFinalize(s) PROVE TypeOK'
  BY <1>9 DEF StartFinalize, StartPcs, SessionOrNone, PipePcs
<1>10. ASSUME NEW s \in Sessions, StartAbort(s) PROVE TypeOK'
  BY <1>10 DEF StartAbort, PortForwardCleanup, StartPcs, SessionOrNone
<1>11. ASSUME NEW s \in Sessions, PipelineWrite(s) PROVE TypeOK'
  BY <1>11 DEF PipelineWrite, PipelineWriting
<1>12. ASSUME NEW s \in Sessions, PipelineConnectFails(s) PROVE TypeOK'
  BY <1>12 DEF PipelineConnectFails, PipePcs
<1>13. ASSUME NEW s \in Sessions, PipelineFinal(s) PROVE TypeOK'
  BY <1>13 DEF PipelineFinal, PipePcs
<1>14. ASSUME NEW s \in Sessions, PipelineReturn(s) PROVE TypeOK'
  BY <1>14 DEF PipelineReturn, PipePcs
<1>15. ASSUME NEW s \in Sessions, AfterRun(s) PROVE TypeOK'
  <2>1. RunErrors(s) \subseteq BOOLEAN
    BY DEF RunErrors
  <2>2. pipelineErr' \in [Sessions -> BOOLEAN]
    BY <2>1, <1>15 DEF AfterRun
  <2>3. portForward' \in [Sessions -> {"none", "open", "closed", "closedTwice"}]
    BY <1>15 DEF AfterRun, PortForwardCleanup
  <2>4. pipePc' \in [Sessions -> PipePcs]
    BY <1>15 DEF AfterRun, PipePcs
  <2> QED
    BY <2>2, <2>3, <2>4, <1>15 DEF AfterRun
<1>16. ASSUME NEW s \in Sessions, AutoStop(s) PROVE TypeOK'
  BY <1>16 DEF AutoStop, PipePcs
<1>17. ASSUME NEW s \in Sessions, SignalDone(s) PROVE TypeOK'
  BY <1>17 DEF SignalDone, PipePcs
<1>18. ASSUME NEW c \in Stoppers, StopLookup(c) PROVE TypeOK'
  <2>1. /\ stop' \in [Stoppers -> StopCalls]
        /\ \A d \in Stoppers : stop'[d].pc # "idle" => stop'[d].id \in Sessions
    BY <1>18 DEF StopLookup, StopCalls, StopPcs, SessionOrNone
  <2> QED
    BY <2>1, <1>18 DEF StopLookup
<1>19. ASSUME NEW c \in Stoppers, StopCancel(c) PROVE TypeOK'
  <2>1. /\ stop' \in [Stoppers -> StopCalls]
        /\ \A d \in Stoppers : stop'[d].pc # "idle" => stop'[d].id \in Sessions
    BY <1>19 DEF StopCancel, StopCalls, StopPcs, SessionOrNone
  <2> QED
    BY <2>1, <1>19 DEF StopCancel
<1>20. ASSUME NEW c \in Stoppers, StopOnceDone(c) PROVE TypeOK'
  <2>1. /\ stop' \in [Stoppers -> StopCalls]
        /\ \A d \in Stoppers : stop'[d].pc # "idle" => stop'[d].id \in Sessions
    BY <1>20 DEF StopOnceDone, StopCalls, StopPcs, SessionOrNone
  <2> QED
    BY <2>1, <1>20 DEF StopOnceDone
<1>21. ASSUME NEW c \in Stoppers, StopReceiveDone(c) PROVE TypeOK'
  <2>1. /\ stop' \in [Stoppers -> StopCalls]
        /\ \A d \in Stoppers : stop'[d].pc # "idle" => stop'[d].id \in Sessions
    BY <1>21 DEF StopReceiveDone, StopCalls, StopPcs, SessionOrNone
  <2> QED
    BY <2>1, <1>21 DEF StopReceiveDone
<1>22. ASSUME NEW c \in Stoppers, StopWaitExpires(c) PROVE TypeOK'
  <2>1. /\ stop' \in [Stoppers -> StopCalls]
        /\ \A d \in Stoppers : stop'[d].pc # "idle" => stop'[d].id \in Sessions
    BY <1>22 DEF StopWaitExpires, StopCalls, StopPcs, SessionOrNone
  <2> QED
    BY <2>1, <1>22 DEF StopWaitExpires
<1>23. ASSUME NEW c \in Stoppers, StopFinalize(c) PROVE TypeOK'
  <2>1. /\ stop' \in [Stoppers -> StopCalls]
        /\ \A d \in Stoppers : stop'[d].pc # "idle" => stop'[d].id \in Sessions
    BY <1>23 DEF StopFinalize, StopCalls, StopPcs, SessionOrNone
  <2> QED
    BY <2>1, <1>23 DEF StopFinalize
<1>24. ASSUME NEW c \in Stoppers, StopReturn(c) PROVE TypeOK'
  <2>1. /\ stop' \in [Stoppers -> StopCalls]
        /\ \A d \in Stoppers : stop'[d].pc # "idle" => stop'[d].id \in Sessions
    BY <1>24 DEF StopReturn, StopCalls, StopPcs
  <2>2. summary' \in [Stoppers -> Summaries]
    BY <1>24 DEF StopReturn, Summaries, StopCalls, SessionOrNone
  <2>3. explicitStopSeen' \in [Sessions -> BOOLEAN]
    BY <1>24 DEF StopReturn
  <2> QED
    BY <2>1, <2>2, <2>3, <1>24 DEF StopReturn
<1>25. CASE RootCancel
  BY <1>25 DEF RootCancel
<1>26. CASE ShutdownTake
  BY <1>26 DEF ShutdownTake, ShutCalls, ShutPcs, SessionOrNone
<1>27. CASE ShutdownCancel
  BY <1>27 DEF ShutdownCancel, ShutCalls, ShutPcs, SessionOrNone
<1>28. CASE ShutdownWaitOver
  BY <1>28 DEF ShutdownWaitOver, ShutCalls, ShutPcs, SessionOrNone
<1>29. CASE ShutdownRemoves
  BY <1>29
     DEF ShutdownRemoves, RemoveAll, PipelineWriting, ShutCalls, ShutPcs,
         SessionOrNone
<1>30. CASE ShutdownReturn
  BY <1>30 DEF ShutdownReturn, ShutCalls, ShutPcs, SessionOrNone
<1>31. CASE UNCHANGED vars
  BY <1>31 DEF vars
<1> QED
  BY <1>1, <1>2, <1>3, <1>4, <1>5, <1>6, <1>7, <1>8, <1>9, <1>10, <1>11, <1>12, <1>13,
     <1>14, <1>15, <1>16, <1>17, <1>18, <1>19, <1>20, <1>21, <1>22, <1>23, <1>24,
     <1>25, <1>26, <1>27, <1>28, <1>29, <1>30, <1>31
     DEF Next, StartStep, StartSetup, RunPipeline, AfterPipeline, StopStep,
         StopTeardown, ShutdownTeardown

\* Every variable keeps its type, and a stop_session call past its lookup names
\* a session that was really started.
THEOREM TypeCorrect == Spec => []TypeOK
  BY TypeInit, TypeStep, PTL DEF Spec

-----------------------------------------------------------------------------
(* Control.                                                                *)

\* No section of the manager forgets that an id it names was minted.
LEMMA IdsExistStep ==
    TypeOK /\ IdsExist /\ [Next]_vars => IdsExist'
<1> SUFFICES ASSUME TypeOK, IdsExist, [Next]_vars
             PROVE  IdsExist'
  OBVIOUS
<1> USE SlotAssumption
        DEF TypeOK, IdsExist, SessionOrNone, StopCalls, ShutCalls, startVars,
            sessionVars, pipeVars, diskVars, stopVars, shutVars
<1>1. ASSUME NEW s \in Sessions, StartReject(s) PROVE IdsExist'
  BY <1>1 DEF StartReject
<1>2. ASSUME NEW s \in Sessions, StartClaim(s) PROVE IdsExist'
  BY <1>2 DEF StartClaim, RemoveAll, PipelineWriting
<1>3. ASSUME NEW s \in Sessions, MkdirTemp(s) PROVE IdsExist'
  BY <1>3 DEF MkdirTemp
<1>4. ASSUME NEW s \in Sessions, MkdirTempFails(s) PROVE IdsExist'
  BY <1>4 DEF MkdirTempFails
<1>5. ASSUME NEW s \in Sessions, ReachRelay(s) PROVE IdsExist'
  BY <1>5 DEF ReachRelay
<1>6. ASSUME NEW s \in Sessions, SetupFails(s) PROVE IdsExist'
  BY <1>6 DEF SetupFails
<1>7. ASSUME NEW s \in Sessions, DedupFails(s) PROVE IdsExist'
  BY <1>7 DEF DedupFails, PortForwardCleanup
<1>8. ASSUME NEW s \in Sessions, FailRelease(s) PROVE IdsExist'
  BY <1>8 DEF FailRelease
<1>9. ASSUME NEW s \in Sessions, StartFinalize(s) PROVE IdsExist'
  BY <1>9 DEF StartFinalize
<1>10. ASSUME NEW s \in Sessions, StartAbort(s) PROVE IdsExist'
  BY <1>10 DEF StartAbort, PortForwardCleanup
<1>11. ASSUME NEW s \in Sessions, PipelineWrite(s) PROVE IdsExist'
  BY <1>11 DEF PipelineWrite, PipelineWriting
<1>12. ASSUME NEW s \in Sessions, PipelineConnectFails(s) PROVE IdsExist'
  BY <1>12 DEF PipelineConnectFails
<1>13. ASSUME NEW s \in Sessions, PipelineFinal(s) PROVE IdsExist'
  BY <1>13 DEF PipelineFinal
<1>14. ASSUME NEW s \in Sessions, PipelineReturn(s) PROVE IdsExist'
  BY <1>14 DEF PipelineReturn
<1>15. ASSUME NEW s \in Sessions, AfterRun(s) PROVE IdsExist'
  BY <1>15 DEF AfterRun
<1>16. ASSUME NEW s \in Sessions, AutoStop(s) PROVE IdsExist'
  BY <1>16 DEF AutoStop
<1>17. ASSUME NEW s \in Sessions, SignalDone(s) PROVE IdsExist'
  BY <1>17 DEF SignalDone
<1>18. ASSUME NEW c \in Stoppers, StopLookup(c) PROVE IdsExist'
  BY <1>18 DEF StopLookup
<1>19. ASSUME NEW c \in Stoppers, StopCancel(c) PROVE IdsExist'
  BY <1>19 DEF StopCancel
<1>20. ASSUME NEW c \in Stoppers, StopOnceDone(c) PROVE IdsExist'
  BY <1>20 DEF StopOnceDone
<1>21. ASSUME NEW c \in Stoppers, StopReceiveDone(c) PROVE IdsExist'
  BY <1>21 DEF StopReceiveDone
<1>22. ASSUME NEW c \in Stoppers, StopWaitExpires(c) PROVE IdsExist'
  BY <1>22 DEF StopWaitExpires
<1>23. ASSUME NEW c \in Stoppers, StopFinalize(c) PROVE IdsExist'
  BY <1>23 DEF StopFinalize
<1>24. ASSUME NEW c \in Stoppers, StopReturn(c) PROVE IdsExist'
  BY <1>24 DEF StopReturn
<1>25. CASE RootCancel
  BY <1>25 DEF RootCancel
<1>26. CASE ShutdownTake
  BY <1>26 DEF ShutdownTake
<1>27. CASE ShutdownCancel
  BY <1>27 DEF ShutdownCancel
<1>28. CASE ShutdownWaitOver
  BY <1>28 DEF ShutdownWaitOver
<1>29. CASE ShutdownRemoves
  BY <1>29 DEF ShutdownRemoves, RemoveAll, PipelineWriting
<1>30. CASE ShutdownReturn
  BY <1>30 DEF ShutdownReturn
<1>31. CASE UNCHANGED vars
  BY <1>31 DEF vars
<1> QED
  BY <1>1, <1>2, <1>3, <1>4, <1>5, <1>6, <1>7, <1>8, <1>9, <1>10, <1>11, <1>12, <1>13,
     <1>14, <1>15, <1>16, <1>17, <1>18, <1>19, <1>20, <1>21, <1>22, <1>23, <1>24,
     <1>25, <1>26, <1>27, <1>28, <1>29, <1>30, <1>31
     DEF Next, StartStep, StartSetup, RunPipeline, AfterPipeline, StopStep,
         StopTeardown, ShutdownTeardown

\* Only Start launches a goroutine, and only after it made the directory.
LEMMA GoroutineStep ==
    TypeOK /\ IdsExist /\ GoroutineAfterStart /\ [Next]_vars => GoroutineAfterStart'
<1> SUFFICES ASSUME TypeOK, IdsExist, GoroutineAfterStart, [Next]_vars
             PROVE  GoroutineAfterStart'
  OBVIOUS
<1> USE SlotAssumption
        DEF TypeOK, GoroutineAfterStart, SessionOrNone, StopCalls, ShutCalls,
            startVars, sessionVars, pipeVars, diskVars, stopVars, shutVars
<1>1. ASSUME NEW s \in Sessions, StartReject(s) PROVE GoroutineAfterStart'
  BY <1>1 DEF StartReject
<1>2. ASSUME NEW s \in Sessions, StartClaim(s) PROVE GoroutineAfterStart'
  BY <1>2 DEF StartClaim, RemoveAll, PipelineWriting
<1>3. ASSUME NEW s \in Sessions, MkdirTemp(s) PROVE GoroutineAfterStart'
  BY <1>3 DEF MkdirTemp
<1>4. ASSUME NEW s \in Sessions, MkdirTempFails(s) PROVE GoroutineAfterStart'
  BY <1>4 DEF MkdirTempFails
<1>5. ASSUME NEW s \in Sessions, ReachRelay(s) PROVE GoroutineAfterStart'
  BY <1>5 DEF ReachRelay
<1>6. ASSUME NEW s \in Sessions, SetupFails(s) PROVE GoroutineAfterStart'
  BY <1>6 DEF SetupFails
<1>7. ASSUME NEW s \in Sessions, DedupFails(s) PROVE GoroutineAfterStart'
  BY <1>7 DEF DedupFails, PortForwardCleanup
<1>8. ASSUME NEW s \in Sessions, FailRelease(s) PROVE GoroutineAfterStart'
  BY <1>8 DEF FailRelease
<1>9. ASSUME NEW s \in Sessions, StartFinalize(s) PROVE GoroutineAfterStart'
  BY <1>9 DEF StartFinalize
<1>10. ASSUME NEW s \in Sessions, StartAbort(s) PROVE GoroutineAfterStart'
  BY <1>10 DEF StartAbort, PortForwardCleanup
<1>11. ASSUME NEW s \in Sessions, PipelineWrite(s) PROVE GoroutineAfterStart'
  BY <1>11 DEF PipelineWrite, PipelineWriting
<1>12. ASSUME NEW s \in Sessions, PipelineConnectFails(s) PROVE GoroutineAfterStart'
  BY <1>12 DEF PipelineConnectFails
<1>13. ASSUME NEW s \in Sessions, PipelineFinal(s) PROVE GoroutineAfterStart'
  BY <1>13 DEF PipelineFinal
<1>14. ASSUME NEW s \in Sessions, PipelineReturn(s) PROVE GoroutineAfterStart'
  BY <1>14 DEF PipelineReturn
<1>15. ASSUME NEW s \in Sessions, AfterRun(s) PROVE GoroutineAfterStart'
  <2>1. pipePc[s] = "returned" /\ \E x \in {"signalling", "auto"} :
           /\ pipePc' = [pipePc EXCEPT ![s] = x]
           /\ x = "signalling" => CtxDone(s)
    BY <1>15 DEF AfterRun
  <2> QED
    BY <2>1, <1>15 DEF AfterRun
<1>16. ASSUME NEW s \in Sessions, AutoStop(s) PROVE GoroutineAfterStart'
  BY <1>16 DEF AutoStop
<1>17. ASSUME NEW s \in Sessions, SignalDone(s) PROVE GoroutineAfterStart'
  BY <1>17 DEF SignalDone
<1>18. ASSUME NEW c \in Stoppers, StopLookup(c) PROVE GoroutineAfterStart'
  BY <1>18 DEF StopLookup
<1>19. ASSUME NEW c \in Stoppers, StopCancel(c) PROVE GoroutineAfterStart'
  BY <1>19 DEF StopCancel
<1>20. ASSUME NEW c \in Stoppers, StopOnceDone(c) PROVE GoroutineAfterStart'
  BY <1>20 DEF StopOnceDone
<1>21. ASSUME NEW c \in Stoppers, StopReceiveDone(c) PROVE GoroutineAfterStart'
  BY <1>21 DEF StopReceiveDone
<1>22. ASSUME NEW c \in Stoppers, StopWaitExpires(c) PROVE GoroutineAfterStart'
  BY <1>22 DEF StopWaitExpires
<1>23. ASSUME NEW c \in Stoppers, StopFinalize(c) PROVE GoroutineAfterStart'
  BY <1>23 DEF StopFinalize
<1>24. ASSUME NEW c \in Stoppers, StopReturn(c) PROVE GoroutineAfterStart'
  BY <1>24 DEF StopReturn
<1>25. CASE RootCancel
  BY <1>25 DEF RootCancel
<1>26. CASE ShutdownTake
  BY <1>26 DEF ShutdownTake
<1>27. CASE ShutdownCancel
  BY <1>27 DEF ShutdownCancel
<1>28. CASE ShutdownWaitOver
  BY <1>28 DEF ShutdownWaitOver
<1>29. CASE ShutdownRemoves
  BY <1>29 DEF ShutdownRemoves, RemoveAll, PipelineWriting
<1>30. CASE ShutdownReturn
  BY <1>30 DEF ShutdownReturn
<1>31. CASE UNCHANGED vars
  BY <1>31 DEF vars
<1> QED
  BY <1>1, <1>2, <1>3, <1>4, <1>5, <1>6, <1>7, <1>8, <1>9, <1>10, <1>11, <1>12, <1>13,
     <1>14, <1>15, <1>16, <1>17, <1>18, <1>19, <1>20, <1>21, <1>22, <1>23, <1>24,
     <1>25, <1>26, <1>27, <1>28, <1>29, <1>30, <1>31
     DEF Next, StartStep, StartSetup, RunPipeline, AfterPipeline, StopStep,
         StopTeardown, ShutdownTeardown

\* Each path out of Start and of the goroutine closes the port-forward once.
LEMMA PortForwardStep ==
    TypeOK /\ GoroutineAfterStart /\ PortForwardPhase /\ [Next]_vars => PortForwardPhase'
<1> SUFFICES ASSUME TypeOK, GoroutineAfterStart, PortForwardPhase, [Next]_vars
             PROVE  PortForwardPhase'
  OBVIOUS
<1> USE SlotAssumption
        DEF TypeOK, GoroutineAfterStart, PortForwardPhase, SessionOrNone, startVars,
            sessionVars, pipeVars, diskVars, stopVars, shutVars
<1>1. ASSUME NEW s \in Sessions, StartReject(s) PROVE PortForwardPhase'
  BY <1>1 DEF StartReject
<1>2. ASSUME NEW s \in Sessions, StartClaim(s) PROVE PortForwardPhase'
  BY <1>2 DEF StartClaim, RemoveAll, PipelineWriting
<1>3. ASSUME NEW s \in Sessions, MkdirTemp(s) PROVE PortForwardPhase'
  BY <1>3 DEF MkdirTemp
<1>4. ASSUME NEW s \in Sessions, MkdirTempFails(s) PROVE PortForwardPhase'
  BY <1>4 DEF MkdirTempFails
<1>5. ASSUME NEW s \in Sessions, ReachRelay(s) PROVE PortForwardPhase'
  BY <1>5 DEF ReachRelay
<1>6. ASSUME NEW s \in Sessions, SetupFails(s) PROVE PortForwardPhase'
  BY <1>6 DEF SetupFails
<1>7. ASSUME NEW s \in Sessions, DedupFails(s) PROVE PortForwardPhase'
  BY <1>7 DEF DedupFails, PortForwardCleanup
<1>8. ASSUME NEW s \in Sessions, FailRelease(s) PROVE PortForwardPhase'
  BY <1>8 DEF FailRelease
<1>9. ASSUME NEW s \in Sessions, StartFinalize(s) PROVE PortForwardPhase'
  BY <1>9 DEF StartFinalize
<1>10. ASSUME NEW s \in Sessions, StartAbort(s) PROVE PortForwardPhase'
  BY <1>10 DEF StartAbort, PortForwardCleanup
<1>11. ASSUME NEW s \in Sessions, PipelineWrite(s) PROVE PortForwardPhase'
  BY <1>11 DEF PipelineWrite, PipelineWriting
<1>12. ASSUME NEW s \in Sessions, PipelineConnectFails(s) PROVE PortForwardPhase'
  BY <1>12 DEF PipelineConnectFails
<1>13. ASSUME NEW s \in Sessions, PipelineFinal(s) PROVE PortForwardPhase'
  BY <1>13 DEF PipelineFinal
<1>14. ASSUME NEW s \in Sessions, PipelineReturn(s) PROVE PortForwardPhase'
  BY <1>14 DEF PipelineReturn
<1>15. ASSUME NEW s \in Sessions, AfterRun(s) PROVE PortForwardPhase'
  <2>1. pipePc[s] = "returned" /\ \E x \in {"signalling", "auto"} :
           pipePc' = [pipePc EXCEPT ![s] = x]
    BY <1>15 DEF AfterRun
  <2> QED
    BY <2>1, <1>15 DEF AfterRun, PortForwardCleanup
<1>16. ASSUME NEW s \in Sessions, AutoStop(s) PROVE PortForwardPhase'
  BY <1>16 DEF AutoStop
<1>17. ASSUME NEW s \in Sessions, SignalDone(s) PROVE PortForwardPhase'
  BY <1>17 DEF SignalDone
<1>18. ASSUME NEW c \in Stoppers, StopLookup(c) PROVE PortForwardPhase'
  BY <1>18 DEF StopLookup
<1>19. ASSUME NEW c \in Stoppers, StopCancel(c) PROVE PortForwardPhase'
  BY <1>19 DEF StopCancel
<1>20. ASSUME NEW c \in Stoppers, StopOnceDone(c) PROVE PortForwardPhase'
  BY <1>20 DEF StopOnceDone
<1>21. ASSUME NEW c \in Stoppers, StopReceiveDone(c) PROVE PortForwardPhase'
  BY <1>21 DEF StopReceiveDone
<1>22. ASSUME NEW c \in Stoppers, StopWaitExpires(c) PROVE PortForwardPhase'
  BY <1>22 DEF StopWaitExpires
<1>23. ASSUME NEW c \in Stoppers, StopFinalize(c) PROVE PortForwardPhase'
  BY <1>23 DEF StopFinalize
<1>24. ASSUME NEW c \in Stoppers, StopReturn(c) PROVE PortForwardPhase'
  BY <1>24 DEF StopReturn
<1>25. CASE RootCancel
  BY <1>25 DEF RootCancel
<1>26. CASE ShutdownTake
  BY <1>26 DEF ShutdownTake
<1>27. CASE ShutdownCancel
  BY <1>27 DEF ShutdownCancel
<1>28. CASE ShutdownWaitOver
  BY <1>28 DEF ShutdownWaitOver
<1>29. CASE ShutdownRemoves
  BY <1>29 DEF ShutdownRemoves, RemoveAll, PipelineWriting
<1>30. CASE ShutdownReturn
  BY <1>30 DEF ShutdownReturn
<1>31. CASE UNCHANGED vars
  BY <1>31 DEF vars
<1> QED
  BY <1>1, <1>2, <1>3, <1>4, <1>5, <1>6, <1>7, <1>8, <1>9, <1>10, <1>11, <1>12, <1>13,
     <1>14, <1>15, <1>16, <1>17, <1>18, <1>19, <1>20, <1>21, <1>22, <1>23, <1>24,
     <1>25, <1>26, <1>27, <1>28, <1>29, <1>30, <1>31
     DEF Next, StartStep, StartSetup, RunPipeline, AfterPipeline, StopStep,
         StopTeardown, ShutdownTeardown

\* A session is cancelled only by an owner that goes on to release it.
LEMMA CancelCausesStep ==
    TypeOK /\ Control /\ CancelCauses /\ [Next]_vars => CancelCauses'
<1> SUFFICES ASSUME TypeOK, Control, CancelCauses, [Next]_vars
             PROVE  CancelCauses'
  OBVIOUS
<1> USE SlotAssumption
        DEF TypeOK, IdsExist, GoroutineAfterStart, Control, CancelCauses, CtxDone,
            SessionOrNone, StopCalls, ShutCalls, startVars, sessionVars, pipeVars,
            diskVars, stopVars, shutVars
<1>1. ASSUME NEW s \in Sessions, StartReject(s) PROVE CancelCauses'
  BY <1>1 DEF StartReject
<1>2. ASSUME NEW s \in Sessions, StartClaim(s) PROVE CancelCauses'
  <2>1. /\ startPc[s] = "idle"
        /\ slot = NoSession \/ state[slot] = "stopped"
        /\ slot' = s
        /\ state' = [state EXCEPT ![s] = "capturing"]
        /\ startPc' = [startPc EXCEPT ![s] = "claimed"]
        /\ UNCHANGED <<cancelled, pipePc, rootDone, stop>>
    BY <1>2 DEF StartClaim
  <2>2. ~cancelled[s]
    BY <2>1
  <2> QED
    BY <2>1, <2>2
<1>3. ASSUME NEW s \in Sessions, MkdirTemp(s) PROVE CancelCauses'
  BY <1>3 DEF MkdirTemp
<1>4. ASSUME NEW s \in Sessions, MkdirTempFails(s) PROVE CancelCauses'
  BY <1>4 DEF MkdirTempFails
<1>5. ASSUME NEW s \in Sessions, ReachRelay(s) PROVE CancelCauses'
  BY <1>5 DEF ReachRelay
<1>6. ASSUME NEW s \in Sessions, SetupFails(s) PROVE CancelCauses'
  BY <1>6 DEF SetupFails
<1>7. ASSUME NEW s \in Sessions, DedupFails(s) PROVE CancelCauses'
  BY <1>7 DEF DedupFails, PortForwardCleanup
<1>8. ASSUME NEW s \in Sessions, FailRelease(s) PROVE CancelCauses'
  BY <1>8 DEF FailRelease
<1>9. ASSUME NEW s \in Sessions, StartFinalize(s) PROVE CancelCauses'
  BY <1>9 DEF StartFinalize
<1>10. ASSUME NEW s \in Sessions, StartAbort(s) PROVE CancelCauses'
  BY <1>10 DEF StartAbort, PortForwardCleanup
<1>11. ASSUME NEW s \in Sessions, PipelineWrite(s) PROVE CancelCauses'
  BY <1>11 DEF PipelineWrite, PipelineWriting
<1>12. ASSUME NEW s \in Sessions, PipelineConnectFails(s) PROVE CancelCauses'
  BY <1>12 DEF PipelineConnectFails
<1>13. ASSUME NEW s \in Sessions, PipelineFinal(s) PROVE CancelCauses'
  BY <1>13 DEF PipelineFinal
<1>14. ASSUME NEW s \in Sessions, PipelineReturn(s) PROVE CancelCauses'
  BY <1>14 DEF PipelineReturn
<1>15. ASSUME NEW s \in Sessions, AfterRun(s) PROVE CancelCauses'
  <2>1. pipePc[s] = "returned" /\ \E x \in {"signalling", "auto"} :
           /\ pipePc' = [pipePc EXCEPT ![s] = x]
           /\ x = "signalling" => CtxDone(s)
    BY <1>15 DEF AfterRun
  <2> QED
    BY <2>1, <1>15 DEF AfterRun
<1>16. ASSUME NEW s \in Sessions, AutoStop(s) PROVE CancelCauses'
  BY <1>16 DEF AutoStop
<1>17. ASSUME NEW s \in Sessions, SignalDone(s) PROVE CancelCauses'
  BY <1>17 DEF SignalDone
<1>18. ASSUME NEW c \in Stoppers, StopLookup(c) PROVE CancelCauses'
  BY <1>18 DEF StopLookup
<1>19. ASSUME NEW c \in Stoppers, StopCancel(c) PROVE CancelCauses'
  BY <1>19 DEF StopCancel
<1>20. ASSUME NEW c \in Stoppers, StopOnceDone(c) PROVE CancelCauses'
  BY <1>20, SMTT(20) DEF StopOnceDone
<1>21. ASSUME NEW c \in Stoppers, StopReceiveDone(c) PROVE CancelCauses'
  BY <1>21 DEF StopReceiveDone
<1>22. ASSUME NEW c \in Stoppers, StopWaitExpires(c) PROVE CancelCauses'
  BY <1>22 DEF StopWaitExpires
<1>23. ASSUME NEW c \in Stoppers, StopFinalize(c) PROVE CancelCauses'
  BY <1>23 DEF StopFinalize
<1>24. ASSUME NEW c \in Stoppers, StopReturn(c) PROVE CancelCauses'
  BY <1>24 DEF StopReturn
<1>25. CASE RootCancel
  BY <1>25 DEF RootCancel
<1>26. CASE ShutdownTake
  BY <1>26 DEF ShutdownTake
<1>27. CASE ShutdownCancel
  BY <1>27 DEF ShutdownCancel
<1>28. CASE ShutdownWaitOver
  BY <1>28 DEF ShutdownWaitOver
<1>29. CASE ShutdownRemoves
  BY <1>29 DEF ShutdownRemoves, RemoveAll, PipelineWriting
<1>30. CASE ShutdownReturn
  BY <1>30 DEF ShutdownReturn
<1>31. CASE UNCHANGED vars
  BY <1>31 DEF vars
<1> QED
  BY <1>1, <1>2, <1>3, <1>4, <1>5, <1>6, <1>7, <1>8, <1>9, <1>10, <1>11, <1>12, <1>13,
     <1>14, <1>15, <1>16, <1>17, <1>18, <1>19, <1>20, <1>21, <1>22, <1>23, <1>24,
     <1>25, <1>26, <1>27, <1>28, <1>29, <1>30, <1>31
     DEF Next, StartStep, StartSetup, RunPipeline, AfterPipeline, StopStep,
         StopTeardown, ShutdownTeardown

\* No section takes a live session out of the slot without cancelling it.
LEMMA LiveStep ==
    TypeOK /\ Control /\ CancelCauses /\ LiveSessionReachable /\ [Next]_vars
        => LiveSessionReachable'
<1> SUFFICES ASSUME TypeOK, Control, CancelCauses, LiveSessionReachable, [Next]_vars
             PROVE  LiveSessionReachable'
  OBVIOUS
<1> USE SlotAssumption
        DEF TypeOK, IdsExist, GoroutineAfterStart, Control, CancelCauses,
            LiveSessionReachable, SettingUp, PipelineWriting, SessionOrNone,
            StopCalls, ShutCalls, startVars, sessionVars, pipeVars, diskVars,
            stopVars, shutVars
<1>1. ASSUME NEW s \in Sessions, StartReject(s) PROVE LiveSessionReachable'
  BY <1>1 DEF StartReject
<1>2. ASSUME NEW s \in Sessions, StartClaim(s) PROVE LiveSessionReachable'
  BY <1>2 DEF StartClaim, RemoveAll
<1>3. ASSUME NEW s \in Sessions, MkdirTemp(s) PROVE LiveSessionReachable'
  BY <1>3 DEF MkdirTemp
<1>4. ASSUME NEW s \in Sessions, MkdirTempFails(s) PROVE LiveSessionReachable'
  BY <1>4 DEF MkdirTempFails
<1>5. ASSUME NEW s \in Sessions, ReachRelay(s) PROVE LiveSessionReachable'
  BY <1>5 DEF ReachRelay
<1>6. ASSUME NEW s \in Sessions, SetupFails(s) PROVE LiveSessionReachable'
  BY <1>6 DEF SetupFails
<1>7. ASSUME NEW s \in Sessions, DedupFails(s) PROVE LiveSessionReachable'
  BY <1>7 DEF DedupFails, PortForwardCleanup
<1>8. ASSUME NEW s \in Sessions, FailRelease(s) PROVE LiveSessionReachable'
  BY <1>8 DEF FailRelease
<1>9. ASSUME NEW s \in Sessions, StartFinalize(s) PROVE LiveSessionReachable'
  BY <1>9 DEF StartFinalize
<1>10. ASSUME NEW s \in Sessions, StartAbort(s) PROVE LiveSessionReachable'
  BY <1>10 DEF StartAbort, PortForwardCleanup
<1>11. ASSUME NEW s \in Sessions, PipelineWrite(s) PROVE LiveSessionReachable'
  BY <1>11 DEF PipelineWrite
<1>12. ASSUME NEW s \in Sessions, PipelineConnectFails(s) PROVE LiveSessionReachable'
  BY <1>12 DEF PipelineConnectFails
<1>13. ASSUME NEW s \in Sessions, PipelineFinal(s) PROVE LiveSessionReachable'
  BY <1>13 DEF PipelineFinal
<1>14. ASSUME NEW s \in Sessions, PipelineReturn(s) PROVE LiveSessionReachable'
  BY <1>14 DEF PipelineReturn
<1>15. ASSUME NEW s \in Sessions, AfterRun(s) PROVE LiveSessionReachable'
  <2>1. pipePc[s] = "returned" /\ \E x \in {"signalling", "auto"} :
           /\ pipePc' = [pipePc EXCEPT ![s] = x]
           /\ x = "signalling" => CtxDone(s)
    BY <1>15 DEF AfterRun
  <2> QED
    BY <2>1, <1>15 DEF AfterRun
<1>16. ASSUME NEW s \in Sessions, AutoStop(s) PROVE LiveSessionReachable'
  BY <1>16 DEF AutoStop
<1>17. ASSUME NEW s \in Sessions, SignalDone(s) PROVE LiveSessionReachable'
  BY <1>17 DEF SignalDone
<1>18. ASSUME NEW c \in Stoppers, StopLookup(c) PROVE LiveSessionReachable'
  BY <1>18 DEF StopLookup
<1>19. ASSUME NEW c \in Stoppers, StopCancel(c) PROVE LiveSessionReachable'
  BY <1>19 DEF StopCancel
<1>20. ASSUME NEW c \in Stoppers, StopOnceDone(c) PROVE LiveSessionReachable'
  BY <1>20 DEF StopOnceDone
<1>21. ASSUME NEW c \in Stoppers, StopReceiveDone(c) PROVE LiveSessionReachable'
  BY <1>21 DEF StopReceiveDone
<1>22. ASSUME NEW c \in Stoppers, StopWaitExpires(c) PROVE LiveSessionReachable'
  BY <1>22 DEF StopWaitExpires
<1>23. ASSUME NEW c \in Stoppers, StopFinalize(c) PROVE LiveSessionReachable'
  BY <1>23 DEF StopFinalize
<1>24. ASSUME NEW c \in Stoppers, StopReturn(c) PROVE LiveSessionReachable'
  BY <1>24 DEF StopReturn
<1>25. CASE RootCancel
  BY <1>25 DEF RootCancel
<1>26. CASE ShutdownTake
  BY <1>26 DEF ShutdownTake
<1>27. CASE ShutdownCancel
  BY <1>27 DEF ShutdownCancel
<1>28. CASE ShutdownWaitOver
  BY <1>28 DEF ShutdownWaitOver
<1>29. CASE ShutdownRemoves
  BY <1>29 DEF ShutdownRemoves, RemoveAll
<1>30. CASE ShutdownReturn
  BY <1>30 DEF ShutdownReturn
<1>31. CASE UNCHANGED vars
  BY <1>31 DEF vars
<1> QED
  BY <1>1, <1>2, <1>3, <1>4, <1>5, <1>6, <1>7, <1>8, <1>9, <1>10, <1>11, <1>12, <1>13,
     <1>14, <1>15, <1>16, <1>17, <1>18, <1>19, <1>20, <1>21, <1>22, <1>23, <1>24,
     <1>25, <1>26, <1>27, <1>28, <1>29, <1>30, <1>31
     DEF Next, StartStep, StartSetup, RunPipeline, AfterPipeline, StopStep,
         StopTeardown, ShutdownTeardown

\* A launched session keeps an owner for its directory.
LEMMA DirectoryStep ==
    TypeOK /\ Control /\ ReleasedDirectory /\ [Next]_vars => ReleasedDirectory'
<1> SUFFICES ASSUME TypeOK, Control, ReleasedDirectory, [Next]_vars
             PROVE  ReleasedDirectory'
  OBVIOUS
<1> USE SlotAssumption
        DEF TypeOK, IdsExist, GoroutineAfterStart, Control, ReleasedDirectory,
            PipelineWriting, SessionOrNone, StopCalls, ShutCalls, startVars,
            sessionVars, pipeVars, diskVars, stopVars, shutVars
<1>1. ASSUME NEW s \in Sessions, StartReject(s) PROVE ReleasedDirectory'
  BY <1>1 DEF StartReject
<1>2. ASSUME NEW s \in Sessions, StartClaim(s) PROVE ReleasedDirectory'
  <2>1. CASE slot = NoSession
    BY <2>1, <1>2 DEF StartClaim
  <2>2. CASE slot # NoSession /\ RemoveAll(slot, tmpDir[slot])
    BY <2>2, <1>2 DEF StartClaim, RemoveAll
  <2> QED
    BY <2>1, <2>2, <1>2 DEF StartClaim
<1>3. ASSUME NEW s \in Sessions, MkdirTemp(s) PROVE ReleasedDirectory'
  BY <1>3 DEF MkdirTemp
<1>4. ASSUME NEW s \in Sessions, MkdirTempFails(s) PROVE ReleasedDirectory'
  BY <1>4 DEF MkdirTempFails
<1>5. ASSUME NEW s \in Sessions, ReachRelay(s) PROVE ReleasedDirectory'
  BY <1>5 DEF ReachRelay
<1>6. ASSUME NEW s \in Sessions, SetupFails(s) PROVE ReleasedDirectory'
  BY <1>6 DEF SetupFails
<1>7. ASSUME NEW s \in Sessions, DedupFails(s) PROVE ReleasedDirectory'
  BY <1>7 DEF DedupFails, PortForwardCleanup
<1>8. ASSUME NEW s \in Sessions, FailRelease(s) PROVE ReleasedDirectory'
  BY <1>8 DEF FailRelease
<1>9. ASSUME NEW s \in Sessions, StartFinalize(s) PROVE ReleasedDirectory'
  BY <1>9 DEF StartFinalize
<1>10. ASSUME NEW s \in Sessions, StartAbort(s) PROVE ReleasedDirectory'
  BY <1>10 DEF StartAbort, PortForwardCleanup
<1>11. ASSUME NEW s \in Sessions, PipelineWrite(s) PROVE ReleasedDirectory'
  BY <1>11 DEF PipelineWrite
<1>12. ASSUME NEW s \in Sessions, PipelineConnectFails(s) PROVE ReleasedDirectory'
  BY <1>12 DEF PipelineConnectFails
<1>13. ASSUME NEW s \in Sessions, PipelineFinal(s) PROVE ReleasedDirectory'
  BY <1>13 DEF PipelineFinal
<1>14. ASSUME NEW s \in Sessions, PipelineReturn(s) PROVE ReleasedDirectory'
  BY <1>14 DEF PipelineReturn
<1>15. ASSUME NEW s \in Sessions, AfterRun(s) PROVE ReleasedDirectory'
  <2>1. pipePc[s] = "returned" /\ \E x \in {"signalling", "auto"} :
           /\ pipePc' = [pipePc EXCEPT ![s] = x]
           /\ x = "signalling" => CtxDone(s)
    BY <1>15 DEF AfterRun
  <2> QED
    BY <2>1, <1>15 DEF AfterRun
<1>16. ASSUME NEW s \in Sessions, AutoStop(s) PROVE ReleasedDirectory'
  BY <1>16 DEF AutoStop
<1>17. ASSUME NEW s \in Sessions, SignalDone(s) PROVE ReleasedDirectory'
  BY <1>17 DEF SignalDone
<1>18. ASSUME NEW c \in Stoppers, StopLookup(c) PROVE ReleasedDirectory'
  BY <1>18 DEF StopLookup
<1>19. ASSUME NEW c \in Stoppers, StopCancel(c) PROVE ReleasedDirectory'
  BY <1>19 DEF StopCancel
<1>20. ASSUME NEW c \in Stoppers, StopOnceDone(c) PROVE ReleasedDirectory'
  BY <1>20 DEF StopOnceDone
<1>21. ASSUME NEW c \in Stoppers, StopReceiveDone(c) PROVE ReleasedDirectory'
  BY <1>21 DEF StopReceiveDone
<1>22. ASSUME NEW c \in Stoppers, StopWaitExpires(c) PROVE ReleasedDirectory'
  BY <1>22 DEF StopWaitExpires
<1>23. ASSUME NEW c \in Stoppers, StopFinalize(c) PROVE ReleasedDirectory'
  BY <1>23 DEF StopFinalize
<1>24. ASSUME NEW c \in Stoppers, StopReturn(c) PROVE ReleasedDirectory'
  BY <1>24 DEF StopReturn
<1>25. CASE RootCancel
  BY <1>25 DEF RootCancel
<1>26. CASE ShutdownTake
  BY <1>26 DEF ShutdownTake
<1>27. CASE ShutdownCancel
  BY <1>27 DEF ShutdownCancel
<1>28. CASE ShutdownWaitOver
  BY <1>28 DEF ShutdownWaitOver
<1>29. CASE ShutdownRemoves
  BY <1>29 DEF ShutdownRemoves, RemoveAll
<1>30. CASE ShutdownReturn
  BY <1>30 DEF ShutdownReturn
<1>31. CASE UNCHANGED vars
  BY <1>31 DEF vars
<1> QED
  BY <1>1, <1>2, <1>3, <1>4, <1>5, <1>6, <1>7, <1>8, <1>9, <1>10, <1>11, <1>12, <1>13,
     <1>14, <1>15, <1>16, <1>17, <1>18, <1>19, <1>20, <1>21, <1>22, <1>23, <1>24,
     <1>25, <1>26, <1>27, <1>28, <1>29, <1>30, <1>31
     DEF Next, StartStep, StartSetup, RunPipeline, AfterPipeline, StopStep,
         StopTeardown, ShutdownTeardown

-----------------------------------------------------------------------------
(* Teardown and summaries.                                                 *)

\* A Stop that did not give up has seen the goroutine exit.
LEMMA SettledStep ==
    TypeOK /\ IdsExist /\ GoroutineAfterStart /\ SettledTeardown /\ [Next]_vars
        => SettledTeardown'
<1> SUFFICES ASSUME TypeOK, IdsExist, GoroutineAfterStart, SettledTeardown, [Next]_vars
             PROVE  SettledTeardown'
  OBVIOUS
<1> USE SlotAssumption
        DEF TypeOK, IdsExist, GoroutineAfterStart, SettledTeardown, SessionOrNone,
            StopCalls, startVars, sessionVars, pipeVars, diskVars, stopVars, shutVars
<1>1. ASSUME NEW s \in Sessions, StartReject(s) PROVE SettledTeardown'
  BY <1>1 DEF StartReject
<1>2. ASSUME NEW s \in Sessions, StartClaim(s) PROVE SettledTeardown'
  BY <1>2 DEF StartClaim, RemoveAll, PipelineWriting
<1>3. ASSUME NEW s \in Sessions, MkdirTemp(s) PROVE SettledTeardown'
  BY <1>3 DEF MkdirTemp
<1>4. ASSUME NEW s \in Sessions, MkdirTempFails(s) PROVE SettledTeardown'
  BY <1>4 DEF MkdirTempFails
<1>5. ASSUME NEW s \in Sessions, ReachRelay(s) PROVE SettledTeardown'
  BY <1>5 DEF ReachRelay
<1>6. ASSUME NEW s \in Sessions, SetupFails(s) PROVE SettledTeardown'
  BY <1>6 DEF SetupFails
<1>7. ASSUME NEW s \in Sessions, DedupFails(s) PROVE SettledTeardown'
  BY <1>7 DEF DedupFails, PortForwardCleanup
<1>8. ASSUME NEW s \in Sessions, FailRelease(s) PROVE SettledTeardown'
  BY <1>8 DEF FailRelease
<1>9. ASSUME NEW s \in Sessions, StartFinalize(s) PROVE SettledTeardown'
  BY <1>9 DEF StartFinalize
<1>10. ASSUME NEW s \in Sessions, StartAbort(s) PROVE SettledTeardown'
  BY <1>10 DEF StartAbort, PortForwardCleanup
<1>11. ASSUME NEW s \in Sessions, PipelineWrite(s) PROVE SettledTeardown'
  BY <1>11 DEF PipelineWrite, PipelineWriting
<1>12. ASSUME NEW s \in Sessions, PipelineConnectFails(s) PROVE SettledTeardown'
  BY <1>12 DEF PipelineConnectFails
<1>13. ASSUME NEW s \in Sessions, PipelineFinal(s) PROVE SettledTeardown'
  BY <1>13 DEF PipelineFinal
<1>14. ASSUME NEW s \in Sessions, PipelineReturn(s) PROVE SettledTeardown'
  BY <1>14 DEF PipelineReturn
<1>15. ASSUME NEW s \in Sessions, AfterRun(s) PROVE SettledTeardown'
  <2>1. pipePc[s] = "returned" /\ \E x \in {"signalling", "auto"} :
           /\ pipePc' = [pipePc EXCEPT ![s] = x]
           /\ x = "signalling" => CtxDone(s)
    BY <1>15 DEF AfterRun
  <2> QED
    BY <2>1, <1>15 DEF AfterRun
<1>16. ASSUME NEW s \in Sessions, AutoStop(s) PROVE SettledTeardown'
  BY <1>16 DEF AutoStop
<1>17. ASSUME NEW s \in Sessions, SignalDone(s) PROVE SettledTeardown'
  BY <1>17 DEF SignalDone
<1>18. ASSUME NEW c \in Stoppers, StopLookup(c) PROVE SettledTeardown'
  BY <1>18 DEF StopLookup
<1>19. ASSUME NEW c \in Stoppers, StopCancel(c) PROVE SettledTeardown'
  BY <1>19 DEF StopCancel
<1>20. ASSUME NEW c \in Stoppers, StopOnceDone(c) PROVE SettledTeardown'
  BY <1>20 DEF StopOnceDone
<1>21. ASSUME NEW c \in Stoppers, StopReceiveDone(c) PROVE SettledTeardown'
  BY <1>21 DEF StopReceiveDone
<1>22. ASSUME NEW c \in Stoppers, StopWaitExpires(c) PROVE SettledTeardown'
  BY <1>22 DEF StopWaitExpires
<1>23. ASSUME NEW c \in Stoppers, StopFinalize(c) PROVE SettledTeardown'
  BY <1>23 DEF StopFinalize
<1>24. ASSUME NEW c \in Stoppers, StopReturn(c) PROVE SettledTeardown'
  BY <1>24 DEF StopReturn
<1>25. CASE RootCancel
  BY <1>25 DEF RootCancel
<1>26. CASE ShutdownTake
  BY <1>26 DEF ShutdownTake
<1>27. CASE ShutdownCancel
  BY <1>27 DEF ShutdownCancel
<1>28. CASE ShutdownWaitOver
  BY <1>28 DEF ShutdownWaitOver
<1>29. CASE ShutdownRemoves
  BY <1>29 DEF ShutdownRemoves, RemoveAll, PipelineWriting
<1>30. CASE ShutdownReturn
  BY <1>30 DEF ShutdownReturn
<1>31. CASE UNCHANGED vars
  BY <1>31 DEF vars
<1> QED
  BY <1>1, <1>2, <1>3, <1>4, <1>5, <1>6, <1>7, <1>8, <1>9, <1>10, <1>11, <1>12, <1>13,
     <1>14, <1>15, <1>16, <1>17, <1>18, <1>19, <1>20, <1>21, <1>22, <1>23, <1>24,
     <1>25, <1>26, <1>27, <1>28, <1>29, <1>30, <1>31
     DEF Next, StartStep, StartSetup, RunPipeline, AfterPipeline, StopStep,
         StopTeardown, ShutdownTeardown

\* A new summary is the first one exactly when the flag was still clear.
LEMMA FirstStopStep ==
    TypeOK /\ FirstStopMemory /\ OneFirstStop /\ [Next]_vars => OneFirstStop'
<1> SUFFICES ASSUME TypeOK, FirstStopMemory, OneFirstStop, [Next]_vars
             PROVE  OneFirstStop'
  OBVIOUS
<1> USE SlotAssumption
        DEF TypeOK, FirstStopMemory, OneFirstStop, StopCalls, Summaries, startVars,
            sessionVars, pipeVars, diskVars, stopVars, shutVars
<1>1. ASSUME NEW s \in Sessions, StartReject(s) PROVE OneFirstStop'
  BY <1>1 DEF StartReject, SummariesOf
<1>2. ASSUME NEW s \in Sessions, StartClaim(s) PROVE OneFirstStop'
  BY <1>2, SMTT(20) DEF StartClaim, RemoveAll, PipelineWriting, SummariesOf
<1>3. ASSUME NEW s \in Sessions, MkdirTemp(s) PROVE OneFirstStop'
  BY <1>3 DEF MkdirTemp, SummariesOf
<1>4. ASSUME NEW s \in Sessions, MkdirTempFails(s) PROVE OneFirstStop'
  BY <1>4 DEF MkdirTempFails, SummariesOf
<1>5. ASSUME NEW s \in Sessions, ReachRelay(s) PROVE OneFirstStop'
  BY <1>5 DEF ReachRelay, SummariesOf
<1>6. ASSUME NEW s \in Sessions, SetupFails(s) PROVE OneFirstStop'
  BY <1>6 DEF SetupFails, SummariesOf
<1>7. ASSUME NEW s \in Sessions, DedupFails(s) PROVE OneFirstStop'
  BY <1>7 DEF DedupFails, PortForwardCleanup, SummariesOf
<1>8. ASSUME NEW s \in Sessions, FailRelease(s) PROVE OneFirstStop'
  BY <1>8 DEF FailRelease, SummariesOf
<1>9. ASSUME NEW s \in Sessions, StartFinalize(s) PROVE OneFirstStop'
  BY <1>9 DEF StartFinalize, SummariesOf
<1>10. ASSUME NEW s \in Sessions, StartAbort(s) PROVE OneFirstStop'
  BY <1>10 DEF StartAbort, PortForwardCleanup, SummariesOf
<1>11. ASSUME NEW s \in Sessions, PipelineWrite(s) PROVE OneFirstStop'
  BY <1>11 DEF PipelineWrite, PipelineWriting, SummariesOf
<1>12. ASSUME NEW s \in Sessions, PipelineConnectFails(s) PROVE OneFirstStop'
  BY <1>12 DEF PipelineConnectFails, SummariesOf
<1>13. ASSUME NEW s \in Sessions, PipelineFinal(s) PROVE OneFirstStop'
  BY <1>13 DEF PipelineFinal, SummariesOf
<1>14. ASSUME NEW s \in Sessions, PipelineReturn(s) PROVE OneFirstStop'
  BY <1>14 DEF PipelineReturn, SummariesOf
<1>15. ASSUME NEW s \in Sessions, AfterRun(s) PROVE OneFirstStop'
  BY <1>15, SMTT(20) DEF AfterRun, SummariesOf
<1>16. ASSUME NEW s \in Sessions, AutoStop(s) PROVE OneFirstStop'
  BY <1>16 DEF AutoStop, SummariesOf
<1>17. ASSUME NEW s \in Sessions, SignalDone(s) PROVE OneFirstStop'
  BY <1>17 DEF SignalDone, SummariesOf
<1>18. ASSUME NEW c \in Stoppers, StopLookup(c) PROVE OneFirstStop'
  <2>1. \A t \in Sessions : SummariesOf(t)' = SummariesOf(t)
    BY <1>18 DEF StopLookup, SummariesOf
  <2>2. summary' = summary
    BY <1>18 DEF StopLookup
  <2> QED
    BY <2>1, <2>2
<1>19. ASSUME NEW c \in Stoppers, StopCancel(c) PROVE OneFirstStop'
  <2>1. \A t \in Sessions : SummariesOf(t)' = SummariesOf(t)
    BY <1>19 DEF StopCancel, SummariesOf
  <2>2. summary' = summary
    BY <1>19 DEF StopCancel
  <2> QED
    BY <2>1, <2>2
<1>20. ASSUME NEW c \in Stoppers, StopOnceDone(c) PROVE OneFirstStop'
  <2>1. \A t \in Sessions : SummariesOf(t)' = SummariesOf(t)
    BY <1>20 DEF StopOnceDone, SummariesOf
  <2>2. summary' = summary
    BY <1>20 DEF StopOnceDone
  <2> QED
    BY <2>1, <2>2
<1>21. ASSUME NEW c \in Stoppers, StopReceiveDone(c) PROVE OneFirstStop'
  <2>1. \A t \in Sessions : SummariesOf(t)' = SummariesOf(t)
    BY <1>21 DEF StopReceiveDone, SummariesOf
  <2>2. summary' = summary
    BY <1>21 DEF StopReceiveDone
  <2> QED
    BY <2>1, <2>2
<1>22. ASSUME NEW c \in Stoppers, StopWaitExpires(c) PROVE OneFirstStop'
  <2>1. \A t \in Sessions : SummariesOf(t)' = SummariesOf(t)
    BY <1>22 DEF StopWaitExpires, SummariesOf
  <2>2. summary' = summary
    BY <1>22 DEF StopWaitExpires
  <2> QED
    BY <2>1, <2>2
<1>23. ASSUME NEW c \in Stoppers, StopFinalize(c) PROVE OneFirstStop'
  <2>1. \A t \in Sessions : SummariesOf(t)' = SummariesOf(t)
    BY <1>23 DEF StopFinalize, SummariesOf
  <2>2. summary' = summary
    BY <1>23 DEF StopFinalize
  <2> QED
    BY <2>1, <2>2
<1>24. ASSUME NEW c \in Stoppers, StopReturn(c) PROVE OneFirstStop'
  <2>0. PICK u \in Sessions : u = stop[c].id
    BY <1>24 DEF StopReturn
  <2>1. /\ SummariesOf(u)' = SummariesOf(u) \cup {c}
        /\ \A t \in Sessions \ {u} : SummariesOf(t)' = SummariesOf(t)
        /\ \A t \in Sessions : c \notin SummariesOf(t)
    BY <2>0, <1>24 DEF StopReturn, SummariesOf
  <2>2. /\ \A d \in Stoppers \ {c} : summary'[d] = summary[d]
        /\ explicitStopSeen[u] => summary'[c].already
        /\ ~explicitStopSeen[u] => ~summary'[c].already
    BY <2>0, <1>24 DEF StopReturn
  <2>3. \A t \in Sessions : SummariesOf(t) \subseteq Stoppers \ {c}
    BY <2>1 DEF SummariesOf
  <2> SUFFICES ASSUME NEW t \in Sessions, SummariesOf(t)' # {}
               PROVE  \E first \in SummariesOf(t)' :
                          /\ ~summary'[first].already
                          /\ \A d \in SummariesOf(t)' \ {first} : summary'[d].already
    OBVIOUS
  <2>4. CASE t # u
    <3>1. PICK first \in SummariesOf(t) :
            /\ ~summary[first].already
            /\ \A d \in SummariesOf(t) \ {first} : summary[d].already
      BY <2>1, <2>4
    <3>2. SummariesOf(t)' = SummariesOf(t) /\ SummariesOf(t) \subseteq Stoppers \ {c}
      BY <2>1, <2>3, <2>4
    <3>3. \A d \in SummariesOf(t) : summary'[d] = summary[d]
      BY <3>2, <2>2
    <3> QED
      BY <3>1, <3>2, <3>3
  <2>5. CASE t = u /\ SummariesOf(u) = {}
    <3>1. ~explicitStopSeen[u]
      BY <2>1, <2>5
    <3>2. SummariesOf(t)' = {c}
      BY <2>1, <2>5
    <3> QED
      BY <3>1, <3>2, <2>2
  <2>6. CASE t = u /\ SummariesOf(u) # {}
    <3>1. PICK first \in SummariesOf(u) :
            /\ ~summary[first].already
            /\ \A d \in SummariesOf(u) \ {first} : summary[d].already
      BY <2>1, <2>6
    <3>2. /\ first \in SummariesOf(t)'
          /\ summary'[first] = summary[first]
          /\ first \in Stoppers
      BY <3>1, <2>1, <2>2, <2>3, <2>6
    <3>3. explicitStopSeen[u]
      BY <2>1, <2>6
    <3>4. \A d \in SummariesOf(t)' \ {first} : summary'[d].already
      <4> SUFFICES ASSUME NEW d \in SummariesOf(t)', d # first
                   PROVE  summary'[d].already
        OBVIOUS
      <4>1. CASE d = c
        BY <4>1, <3>3, <2>2
      <4>2. CASE d # c
        BY <4>2, <3>1, <2>1, <2>2, <2>3, <2>6
      <4> QED
        BY <4>1, <4>2
    <3> QED
      BY <3>1, <3>2, <3>4
  <2> QED
    BY <2>4, <2>5, <2>6
<1>25. CASE RootCancel
  BY <1>25 DEF RootCancel, SummariesOf
<1>26. CASE ShutdownTake
  BY <1>26 DEF ShutdownTake, SummariesOf
<1>27. CASE ShutdownCancel
  BY <1>27 DEF ShutdownCancel, SummariesOf
<1>28. CASE ShutdownWaitOver
  BY <1>28 DEF ShutdownWaitOver, SummariesOf
<1>29. CASE ShutdownRemoves
  BY <1>29 DEF ShutdownRemoves, RemoveAll, PipelineWriting, SummariesOf
<1>30. CASE ShutdownReturn
  BY <1>30 DEF ShutdownReturn, SummariesOf
<1>31. CASE UNCHANGED vars
  BY <1>31 DEF vars, SummariesOf
<1> QED
  BY <1>1, <1>2, <1>3, <1>4, <1>5, <1>6, <1>7, <1>8, <1>9, <1>10, <1>11, <1>12, <1>13,
     <1>14, <1>15, <1>16, <1>17, <1>18, <1>19, <1>20, <1>21, <1>22, <1>23, <1>24,
     <1>25, <1>26, <1>27, <1>28, <1>29, <1>30, <1>31
     DEF Next, StartStep, StartSetup, RunPipeline, AfterPipeline, StopStep,
         StopTeardown, ShutdownTeardown

\* The flag is set exactly when a summary has been returned.
LEMMA FirstStopMemoryStep ==
    TypeOK /\ FirstStopMemory /\ [Next]_vars => FirstStopMemory'
<1> SUFFICES ASSUME TypeOK, FirstStopMemory, [Next]_vars
             PROVE  FirstStopMemory'
  OBVIOUS
<1> USE SlotAssumption
        DEF TypeOK, FirstStopMemory, StopCalls, startVars, sessionVars, pipeVars,
            diskVars, stopVars, shutVars
<1>1. ASSUME NEW s \in Sessions, StartReject(s) PROVE FirstStopMemory'
  BY <1>1 DEF StartReject, SummariesOf
<1>2. ASSUME NEW s \in Sessions, StartClaim(s) PROVE FirstStopMemory'
  BY <1>2 DEF StartClaim, RemoveAll, PipelineWriting, SummariesOf
<1>3. ASSUME NEW s \in Sessions, MkdirTemp(s) PROVE FirstStopMemory'
  BY <1>3 DEF MkdirTemp, SummariesOf
<1>4. ASSUME NEW s \in Sessions, MkdirTempFails(s) PROVE FirstStopMemory'
  BY <1>4 DEF MkdirTempFails, SummariesOf
<1>5. ASSUME NEW s \in Sessions, ReachRelay(s) PROVE FirstStopMemory'
  BY <1>5 DEF ReachRelay, SummariesOf
<1>6. ASSUME NEW s \in Sessions, SetupFails(s) PROVE FirstStopMemory'
  BY <1>6 DEF SetupFails, SummariesOf
<1>7. ASSUME NEW s \in Sessions, DedupFails(s) PROVE FirstStopMemory'
  BY <1>7 DEF DedupFails, PortForwardCleanup, SummariesOf
<1>8. ASSUME NEW s \in Sessions, FailRelease(s) PROVE FirstStopMemory'
  BY <1>8 DEF FailRelease, SummariesOf
<1>9. ASSUME NEW s \in Sessions, StartFinalize(s) PROVE FirstStopMemory'
  BY <1>9 DEF StartFinalize, SummariesOf
<1>10. ASSUME NEW s \in Sessions, StartAbort(s) PROVE FirstStopMemory'
  BY <1>10 DEF StartAbort, PortForwardCleanup, SummariesOf
<1>11. ASSUME NEW s \in Sessions, PipelineWrite(s) PROVE FirstStopMemory'
  BY <1>11 DEF PipelineWrite, PipelineWriting, SummariesOf
<1>12. ASSUME NEW s \in Sessions, PipelineConnectFails(s) PROVE FirstStopMemory'
  BY <1>12 DEF PipelineConnectFails, SummariesOf
<1>13. ASSUME NEW s \in Sessions, PipelineFinal(s) PROVE FirstStopMemory'
  BY <1>13 DEF PipelineFinal, SummariesOf
<1>14. ASSUME NEW s \in Sessions, PipelineReturn(s) PROVE FirstStopMemory'
  BY <1>14 DEF PipelineReturn, SummariesOf
<1>15. ASSUME NEW s \in Sessions, AfterRun(s) PROVE FirstStopMemory'
  BY <1>15 DEF AfterRun, SummariesOf
<1>16. ASSUME NEW s \in Sessions, AutoStop(s) PROVE FirstStopMemory'
  BY <1>16 DEF AutoStop, SummariesOf
<1>17. ASSUME NEW s \in Sessions, SignalDone(s) PROVE FirstStopMemory'
  BY <1>17 DEF SignalDone, SummariesOf
<1>18. ASSUME NEW c \in Stoppers, StopLookup(c) PROVE FirstStopMemory'
  BY <1>18 DEF StopLookup, SummariesOf
<1>19. ASSUME NEW c \in Stoppers, StopCancel(c) PROVE FirstStopMemory'
  BY <1>19 DEF StopCancel, SummariesOf
<1>20. ASSUME NEW c \in Stoppers, StopOnceDone(c) PROVE FirstStopMemory'
  BY <1>20 DEF StopOnceDone, SummariesOf
<1>21. ASSUME NEW c \in Stoppers, StopReceiveDone(c) PROVE FirstStopMemory'
  BY <1>21 DEF StopReceiveDone, SummariesOf
<1>22. ASSUME NEW c \in Stoppers, StopWaitExpires(c) PROVE FirstStopMemory'
  BY <1>22 DEF StopWaitExpires, SummariesOf
<1>23. ASSUME NEW c \in Stoppers, StopFinalize(c) PROVE FirstStopMemory'
  BY <1>23 DEF StopFinalize, SummariesOf
<1>24. ASSUME NEW c \in Stoppers, StopReturn(c) PROVE FirstStopMemory'
  BY <1>24 DEF StopReturn, SummariesOf
<1>25. CASE RootCancel
  BY <1>25 DEF RootCancel, SummariesOf
<1>26. CASE ShutdownTake
  BY <1>26 DEF ShutdownTake, SummariesOf
<1>27. CASE ShutdownCancel
  BY <1>27 DEF ShutdownCancel, SummariesOf
<1>28. CASE ShutdownWaitOver
  BY <1>28 DEF ShutdownWaitOver, SummariesOf
<1>29. CASE ShutdownRemoves
  BY <1>29 DEF ShutdownRemoves, RemoveAll, PipelineWriting, SummariesOf
<1>30. CASE ShutdownReturn
  BY <1>30 DEF ShutdownReturn, SummariesOf
<1>31. CASE UNCHANGED vars
  BY <1>31 DEF vars, SummariesOf
<1> QED
  BY <1>1, <1>2, <1>3, <1>4, <1>5, <1>6, <1>7, <1>8, <1>9, <1>10, <1>11, <1>12, <1>13,
     <1>14, <1>15, <1>16, <1>17, <1>18, <1>19, <1>20, <1>21, <1>22, <1>23, <1>24,
     <1>25, <1>26, <1>27, <1>28, <1>29, <1>30, <1>31
     DEF Next, StartStep, StartSetup, RunPipeline, AfterPipeline, StopStep,
         StopTeardown, ShutdownTeardown

\* Nothing changes behind a summary that was given without a timeout.
LEMMA SummaryStep ==
    TypeOK /\ Control /\ SettledTeardown /\ SummarySettled /\ [Next]_vars => SummarySettled'
<1> SUFFICES ASSUME TypeOK, Control, SettledTeardown, SummarySettled, [Next]_vars
             PROVE  SummarySettled'
  OBVIOUS
<1> USE SlotAssumption
        DEF TypeOK, Control, IdsExist, GoroutineAfterStart, PortForwardPhase,
            SettledTeardown, SummarySettled, StopCalls, Summaries, startVars,
            sessionVars, pipeVars, diskVars, stopVars, shutVars
<1>1. ASSUME NEW s \in Sessions, StartReject(s) PROVE SummarySettled'
  BY <1>1 DEF StartReject
<1>2. ASSUME NEW s \in Sessions, StartClaim(s) PROVE SummarySettled'
  BY <1>2 DEF StartClaim, RemoveAll, PipelineWriting
<1>3. ASSUME NEW s \in Sessions, MkdirTemp(s) PROVE SummarySettled'
  BY <1>3 DEF MkdirTemp
<1>4. ASSUME NEW s \in Sessions, MkdirTempFails(s) PROVE SummarySettled'
  BY <1>4 DEF MkdirTempFails
<1>5. ASSUME NEW s \in Sessions, ReachRelay(s) PROVE SummarySettled'
  BY <1>5 DEF ReachRelay
<1>6. ASSUME NEW s \in Sessions, SetupFails(s) PROVE SummarySettled'
  BY <1>6 DEF SetupFails
<1>7. ASSUME NEW s \in Sessions, DedupFails(s) PROVE SummarySettled'
  BY <1>7 DEF DedupFails, PortForwardCleanup
<1>8. ASSUME NEW s \in Sessions, FailRelease(s) PROVE SummarySettled'
  BY <1>8 DEF FailRelease
<1>9. ASSUME NEW s \in Sessions, StartFinalize(s) PROVE SummarySettled'
  BY <1>9 DEF StartFinalize
<1>10. ASSUME NEW s \in Sessions, StartAbort(s) PROVE SummarySettled'
  BY <1>10 DEF StartAbort, PortForwardCleanup
<1>11. ASSUME NEW s \in Sessions, PipelineWrite(s) PROVE SummarySettled'
  BY <1>11 DEF PipelineWrite, PipelineWriting
<1>12. ASSUME NEW s \in Sessions, PipelineConnectFails(s) PROVE SummarySettled'
  BY <1>12 DEF PipelineConnectFails
<1>13. ASSUME NEW s \in Sessions, PipelineFinal(s) PROVE SummarySettled'
  BY <1>13 DEF PipelineFinal
<1>14. ASSUME NEW s \in Sessions, PipelineReturn(s) PROVE SummarySettled'
  BY <1>14 DEF PipelineReturn
<1>15. ASSUME NEW s \in Sessions, AfterRun(s) PROVE SummarySettled'
  <2>1. /\ pipePc[s] = "returned"
        /\ UNCHANGED <<stop, summary, final, timedOut>>
    BY <1>15 DEF AfterRun
  <2>2. \A u \in Sessions \ {s} : /\ pipePc'[u] = pipePc[u]
                               /\ portForward'[u] = portForward[u]
                               /\ pipelineErr'[u] = pipelineErr[u]
    BY <1>15 DEF AfterRun, PortForwardCleanup
  <2> QED
    BY <2>1, <2>2
<1>16. ASSUME NEW s \in Sessions, AutoStop(s) PROVE SummarySettled'
  BY <1>16 DEF AutoStop
<1>17. ASSUME NEW s \in Sessions, SignalDone(s) PROVE SummarySettled'
  BY <1>17 DEF SignalDone
<1>18. ASSUME NEW c \in Stoppers, StopLookup(c) PROVE SummarySettled'
  BY <1>18 DEF StopLookup
<1>19. ASSUME NEW c \in Stoppers, StopCancel(c) PROVE SummarySettled'
  BY <1>19 DEF StopCancel
<1>20. ASSUME NEW c \in Stoppers, StopOnceDone(c) PROVE SummarySettled'
  BY <1>20 DEF StopOnceDone
<1>21. ASSUME NEW c \in Stoppers, StopReceiveDone(c) PROVE SummarySettled'
  BY <1>21 DEF StopReceiveDone
<1>22. ASSUME NEW c \in Stoppers, StopWaitExpires(c) PROVE SummarySettled'
  BY <1>22 DEF StopWaitExpires
<1>23. ASSUME NEW c \in Stoppers, StopFinalize(c) PROVE SummarySettled'
  BY <1>23 DEF StopFinalize
<1>24. ASSUME NEW c \in Stoppers, StopReturn(c) PROVE SummarySettled'
  BY <1>24, SMTT(20) DEF StopReturn
<1>25. CASE RootCancel
  BY <1>25 DEF RootCancel
<1>26. CASE ShutdownTake
  BY <1>26 DEF ShutdownTake
<1>27. CASE ShutdownCancel
  BY <1>27 DEF ShutdownCancel
<1>28. CASE ShutdownWaitOver
  BY <1>28 DEF ShutdownWaitOver
<1>29. CASE ShutdownRemoves
  BY <1>29 DEF ShutdownRemoves, RemoveAll, PipelineWriting
<1>30. CASE ShutdownReturn
  BY <1>30 DEF ShutdownReturn
<1>31. CASE UNCHANGED vars
  BY <1>31 DEF vars
<1> QED
  BY <1>1, <1>2, <1>3, <1>4, <1>5, <1>6, <1>7, <1>8, <1>9, <1>10, <1>11, <1>12, <1>13,
     <1>14, <1>15, <1>16, <1>17, <1>18, <1>19, <1>20, <1>21, <1>22, <1>23, <1>24,
     <1>25, <1>26, <1>27, <1>28, <1>29, <1>30, <1>31
     DEF Next, StartStep, StartSetup, RunPipeline, AfterPipeline, StopStep,
         StopTeardown, ShutdownTeardown
-----------------------------------------------------------------------------
(* The theorems.                                                           *)

\* The layers together: what is initially true and kept by every step.
Inductive ==
    /\ TypeOK /\ IInv
    /\ SettledTeardown /\ FirstStopMemory /\ OneFirstStop /\ SummarySettled

\* The layers hold initially.
LEMMA InductiveInit == Init => Inductive
<1> SUFFICES ASSUME Init PROVE Inductive
  OBVIOUS
<1>1. TypeOK
  BY TypeInit
<1>2. Control
  BY DEF Init, Control, IdsExist, GoroutineAfterStart, PortForwardPhase
<1>3. CancelCauses
  BY DEF Init, CancelCauses
<1>4. LiveSessionReachable /\ ReleasedDirectory
  BY DEF Init, LiveSessionReachable, ReleasedDirectory, SettingUp, PipelineWriting
<1>5. SettledTeardown /\ SummarySettled
  BY DEF Init, SettledTeardown, SummarySettled
<1>6. FirstStopMemory /\ OneFirstStop
  BY DEF Init, FirstStopMemory, OneFirstStop, SummariesOf
<1> QED
  BY <1>1, <1>2, <1>3, <1>4, <1>5, <1>6 DEF Inductive, IInv

\* Every step keeps the layers.
LEMMA InductiveStep == Inductive /\ [Next]_vars => Inductive'
  BY TypeStep, IdsExistStep, GoroutineStep, PortForwardStep, CancelCausesStep,
     LiveStep, DirectoryStep, SettledStep, FirstStopMemoryStep, FirstStopStep,
     SummaryStep
     DEF Inductive, IInv, Control

\* The layers hold in every reachable state.
LEMMA InductiveInvariant == Spec => []Inductive
  BY InductiveInit, InductiveStep, PTL DEF Spec

\* A port-forward is never closed twice and never left without an owner
\* (Manager.Start's error and abort paths, the launch goroutine).
THEOREM PortForwardNeverLeaks == Spec => []PortForwardOwned
<1>1. Inductive => PortForwardOwned
  BY DEF Inductive, IInv, Control, TypeOK, GoroutineAfterStart, PortForwardPhase,
         PortForwardOwned, StartPcs, PipePcs
<1> QED
  BY <1>1, InductiveInvariant, PTL

\* Manager.Start, Stop and Shutdown never lose a session nobody cancelled.
THEOREM NoLostSession == Spec => []LiveSessionReachable
<1>1. Inductive => LiveSessionReachable
  BY DEF Inductive, IInv
<1> QED
  BY <1>1, InductiveInvariant, PTL

\* A session directory leaks only by being removed under a running pipeline.
THEOREM DirectoriesOwned == Spec => []DirectoryOwned
<1>1. Inductive => DirectoryOwned
  BY DEF Inductive, IInv, Control, TypeOK, GoroutineAfterStart, ReleasedDirectory,
         DirectoryOwned, SettingUp
<1> QED
  BY <1>1, InductiveInvariant, PTL

\* get_status never reports "capturing" for ever for a pipeline that has exited
\* by itself.
THEOREM DeadSessionsReported == Spec => []DeadSessionNotCapturing
<1>1. Inductive => DeadSessionNotCapturing
  BY DEF Inductive, IInv, Control, TypeOK, GoroutineAfterStart, CancelCauses, CtxDone,
         DeadSessionNotCapturing
<1> QED
  BY <1>1, InductiveInvariant, PTL

\* Exactly one summary of a session says it was not stopped already.
THEOREM ExactlyOneFirstStop == Spec => []OneFirstStop
<1>1. Inductive => OneFirstStop
  BY DEF Inductive
<1> QED
  BY <1>1, InductiveInvariant, PTL

\* A summary given without a timeout is the last word on its session.
THEOREM SummariesSettled == Spec => []SummarySettled
<1>1. Inductive => SummarySettled
  BY DEF Inductive
<1> QED
  BY <1>1, InductiveInvariant, PTL

-----------------------------------------------------------------------------
(* The manager implements the abstract slot.                               *)

\* Initially every id is new to an observer.
LEMMA SlotInit == Init => Slot!Init
  BY DEF Init, Slot!Init, phase

\* Every step of the manager is one step of the slot, or none.
LEMMA SlotStep == Inductive /\ [Next]_vars => [Slot!Next]_phase
<1> SUFFICES ASSUME Inductive, [Next]_vars PROVE [Slot!Next]_phase
  OBVIOUS
<1>t. TypeOK /\ IdsExist
  BY DEF Inductive, IInv, Control
<1> USE <1>t, SlotAssumption
        DEF TypeOK, IdsExist, phase, SessionOrNone, StopCalls, startVars, sessionVars,
            pipeVars, diskVars, stopVars, shutVars
\* A claim begins the new session and lets the retained one go.
<1>1. ASSUME NEW s \in Sessions, StartClaim(s) PROVE Slot!Begin(s)
  BY <1>1 DEF StartClaim, Slot!Begin
\* A failed start drops its session, unless it has lost the slot before.
<1>2. ASSUME NEW s \in Sessions, FailRelease(s) PROVE Slot!Drop(s) \/ UNCHANGED phase
  <2>1. CASE slot = s
    <3>1. s # NoSession /\ state[s] \in {"capturing", "stopped"}
      BY <2>1
    <3>2. phase[s] \in {"capturing", "stopped"}
      BY <2>1, <3>1
    <3>3. UNCHANGED state /\ slot' = NoSession
      BY <1>2, <2>1 DEF FailRelease
    <3>4. phase' = [phase EXCEPT ![s] = "gone"]
      BY <2>1, <3>1, <3>3
    <3> QED
      BY <3>2, <3>4 DEF Slot!Drop
  <2>2. CASE slot # s
    BY <1>2, <2>2 DEF FailRelease
  <2> QED
    BY <2>1, <2>2
\* The autonomous transition halts the session in the slot.
<1>3. ASSUME NEW s \in Sessions, AutoStop(s) PROVE Slot!Halt(s) \/ UNCHANGED phase
  <2>1. CASE slot = s /\ state[s] = "capturing"
    <3>1. UNCHANGED slot /\ state' = [state EXCEPT ![s] = "stopped"]
      BY <1>3, <2>1 DEF AutoStop
    <3>2. phase' = [phase EXCEPT ![s] = "stopped"]
      BY <2>1, <3>1
    <3> QED
      BY <2>1, <3>2 DEF Slot!Halt
  <2>2. CASE ~(slot = s /\ state[s] = "capturing")
    BY <1>3, <2>2 DEF AutoStop
  <2> QED
    BY <2>1, <2>2
\* So does Stop, unless the session has stopped or left the slot by then.
<1>4. ASSUME NEW c \in Stoppers, StopFinalize(c)
      PROVE  \E s \in Sessions : Slot!Halt(s) \/ UNCHANGED phase
  <2>1. PICK s \in Sessions : s = stop[c].id
    BY <1>4 DEF StopFinalize
  <2>2. CASE slot = s /\ state[s] = "capturing"
    BY <1>4, <2>1, <2>2 DEF StopFinalize, Slot!Halt
  <2>3. CASE ~(slot = s /\ state[s] = "capturing")
    BY <1>4, <2>1, <2>3 DEF StopFinalize
  <2> QED
    BY <2>2, <2>3
\* Shutdown drops whatever is in the slot.
<1>5. ASSUME ShutdownTake PROVE (\E s \in Sessions : Slot!Drop(s)) \/ UNCHANGED phase
  <2>1. CASE slot = NoSession
    BY <1>5, <2>1 DEF ShutdownTake
  <2>2. CASE slot # NoSession
    <3>1. PICK s \in Sessions : s = slot
      BY <2>2
    <3>2. phase[s] \in {"capturing", "stopped"}
      BY <2>2, <3>1
    <3>3. UNCHANGED state /\ slot' = NoSession
      BY <1>5 DEF ShutdownTake
    <3>4. phase' = [phase EXCEPT ![s] = "gone"]
      BY <2>2, <3>1, <3>3
    <3> QED
      BY <3>2, <3>4 DEF Slot!Drop
  <2> QED
    BY <2>1, <2>2
\* Nothing else touches the slot or a session's state.
<1>6. UNCHANGED <<slot, state>> => UNCHANGED phase
  OBVIOUS
<1>7. ASSUME NEW s \in Sessions,
             \/ StartReject(s) \/ MkdirTemp(s) \/ MkdirTempFails(s) \/ ReachRelay(s)
             \/ SetupFails(s) \/ DedupFails(s) \/ StartFinalize(s) \/ StartAbort(s)
             \/ PipelineWrite(s) \/ RunPipeline(s) \/ AfterRun(s) \/ SignalDone(s)
      PROVE  UNCHANGED phase
  BY <1>6, <1>7
     DEF StartReject, MkdirTemp, MkdirTempFails, ReachRelay, SetupFails, DedupFails,
         StartFinalize, StartAbort, PipelineWrite, RunPipeline, PipelineConnectFails,
         PipelineFinal, PipelineReturn, AfterRun, SignalDone
<1>8. ASSUME NEW c \in Stoppers,
             \/ StopLookup(c) \/ StopCancel(c) \/ StopOnceDone(c) \/ StopReceiveDone(c)
             \/ StopWaitExpires(c) \/ StopReturn(c)
      PROVE  UNCHANGED phase
  BY <1>6, <1>8
     DEF StopLookup, StopCancel, StopOnceDone, StopReceiveDone, StopWaitExpires,
         StopReturn
<1>9. ASSUME RootCancel \/ ShutdownTeardown PROVE UNCHANGED phase
  BY <1>6, <1>9
     DEF RootCancel, ShutdownTeardown, ShutdownCancel, ShutdownWaitOver,
         ShutdownRemoves, ShutdownReturn
<1>10. CASE UNCHANGED vars
  BY <1>6, <1>10 DEF vars
<1> QED
  BY <1>1, <1>2, <1>3, <1>4, <1>5, <1>7, <1>8, <1>9, <1>10
     DEF Next, StartStep, StartSetup, AfterPipeline, StopStep, StopTeardown, Slot!Next

\* Manager implements SessionSlot: an id captures once, stops once, and never
\* comes back once a later start or Shutdown has taken its place.
THEOREM ImplementsSlot == Spec => SlotSpec
<1>1. Spec => [][Slot!Next]_phase
  BY InductiveInvariant, SlotStep, PTL DEF Spec
<1> QED
  BY <1>1, SlotInit, PTL DEF Spec, SlotSpec, Slot!Spec
=============================================================================
