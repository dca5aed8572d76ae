--------------------------- MODULE SessionManager ---------------------------
(***************************************************************************)
(* pkg/session: the Manager that owns the single capture slot of the MCP   *)
(* server.  Tool handlers (start_session, get_status, stop_session), the   *)
(* pipeline goroutine of every session and the server's Shutdown run       *)
(* concurrently; only the sections under Manager.mu are atomic.  Every     *)
(* action below is one such section, or one step between two of them.      *)
(*                                                                         *)
(* A member of Sessions is one start_session call together with the id it  *)
(* mints; a member of Stoppers is one stop_session call.  Both deadlines   *)
(* (stopWait, removeWait) are modelled as steps that may happen at any     *)
(* moment of the wait: no assumption relates them to the pipeline's speed. *)
(***************************************************************************)
CONSTANTS Sessions,     \* start_session calls, and the session ids they mint
          Stoppers,     \* stop_session calls
          NoSession     \* Manager.session == nil

ASSUME SlotAssumption == NoSession \notin Sessions

VARIABLES
    slot,               \* Manager.session
    rootDone,           \* Manager.rootCtx is cancelled (SIGTERM)
    known,              \* the session ids a client has been told
    startPc,            \* where each start_session call is
    state,              \* Session.State ("none": no Session value yet)
    tmpDir,             \* Session.TmpDir is set
    cancelled,          \* Session.cancel was called
    once,               \* Session.stopOnce
    explicitStopSeen,   \* Session.explicitStopSeen
    final,              \* Session.final is stored
    pipelineErr,        \* Session.pipelineErr is stored
    done,               \* the buffer of Session.done holds a value
    pipePc,             \* where each session's launch goroutine is
    portForward,        \* the port-forward opened for the session
    dir,                \* the session directory exists on disk
    stop,               \* where each stop_session call is, and for which id
    summary,            \* what each stop_session call returned
    shut,               \* where Manager.Shutdown is
    removal,            \* the goroutine Shutdown starts to remove the directory
    timedOut,           \* (history) a Stop of the session gave up waiting
    purgedLive          \* (history) the directory was removed under a running pipeline

startVars   == <<startPc, known>>
sessionVars == <<state, tmpDir, explicitStopSeen>>
pipeVars    == <<pipePc, final, pipelineErr>>
diskVars    == <<dir, purgedLive>>
stopVars    == <<stop, summary, once, timedOut>>
shutVars    == <<shut, removal>>
vars == <<slot, rootDone, startVars, sessionVars, cancelled, done, pipeVars,
          portForward, diskVars, stopVars, shutVars>>

-----------------------------------------------------------------------------
StartPcs == {"idle", "claimed", "setup", "connected", "failing",
             "rejected", "failed", "aborted", "returned"}
PipePcs  == {"none", "running", "finalizing", "returned", "auto",
             "released", "signalling", "exited"}
StopPcs  == {"idle", "once", "waiting", "finalize", "summary", "returned", "notFound"}
ShutPcs  == {"idle", "cancel", "waiting", "remove", "returned"}

SessionOrNone == Sessions \cup {NoSession}

StopCalls == [pc : StopPcs, id : SessionOrNone, dir : BOOLEAN]
ShutCalls == [pc : ShutPcs, id : SessionOrNone, dir : BOOLEAN]

\* StopResult, as far as two summaries of one session can differ: the marker,
\* the OnFinal counters, the terminal error and the two paths, which are derived
\* from two different reads of TmpDir.
Summaries == [already : BOOLEAN, stats : BOOLEAN, err : BOOLEAN,
              healthPath : BOOLEAN, tmpDir : BOOLEAN]

NoSummary == [already |-> FALSE, stats |-> FALSE, err |-> FALSE,
              healthPath |-> FALSE, tmpDir |-> FALSE]

TypeOK ==
    /\ slot \in SessionOrNone
    /\ rootDone \in BOOLEAN
    /\ known \subseteq Sessions
    /\ startPc \in [Sessions -> StartPcs]
    /\ state \in [Sessions -> {"none", "capturing", "stopped"}]
    /\ tmpDir \in [Sessions -> BOOLEAN]
    /\ cancelled \in [Sessions -> BOOLEAN]
    /\ once \in [Sessions -> {"free", "busy", "done"}]
    /\ explicitStopSeen \in [Sessions -> BOOLEAN]
    /\ final \in [Sessions -> BOOLEAN]
    /\ pipelineErr \in [Sessions -> BOOLEAN]
    /\ done \in [Sessions -> BOOLEAN]
    /\ pipePc \in [Sessions -> PipePcs]
    /\ portForward \in [Sessions -> {"none", "open", "closed", "closedTwice"}]
    /\ dir \in [Sessions -> BOOLEAN]
    /\ stop \in [Stoppers -> StopCalls]
    /\ \A c \in Stoppers : stop[c].pc # "idle" => stop[c].id \in Sessions
    /\ summary \in [Stoppers -> Summaries]
    /\ shut \in ShutCalls
    /\ removal \in {"none", "pending", "done"}
    /\ timedOut \in [Sessions -> BOOLEAN]
    /\ purgedLive \in [Sessions -> BOOLEAN]

Init ==
    /\ slot = NoSession
    /\ rootDone = FALSE
    /\ known = {}
    /\ startPc = [s \in Sessions |-> "idle"]
    /\ state = [s \in Sessions |-> "none"]
    /\ tmpDir = [s \in Sessions |-> FALSE]
    /\ cancelled = [s \in Sessions |-> FALSE]
    /\ once = [s \in Sessions |-> "free"]
    /\ explicitStopSeen = [s \in Sessions |-> FALSE]
    /\ final = [s \in Sessions |-> FALSE]
    /\ pipelineErr = [s \in Sessions |-> FALSE]
    /\ done = [s \in Sessions |-> FALSE]
    /\ pipePc = [s \in Sessions |-> "none"]
    /\ portForward = [s \in Sessions |-> "none"]
    /\ dir = [s \in Sessions |-> FALSE]
    /\ stop = [c \in Stoppers |-> [pc |-> "idle", id |-> NoSession, dir |-> FALSE]]
    /\ summary = [c \in Stoppers |-> NoSummary]
    /\ shut = [pc |-> "idle", id |-> NoSession, dir |-> FALSE]
    /\ removal = "none"
    /\ timedOut = [s \in Sessions |-> FALSE]
    /\ purgedLive = [s \in Sessions |-> FALSE]

-----------------------------------------------------------------------------
(* The context, the port-forward and the directory of a session.           *)

\* sessionCtx.Err() # nil: the session's own cancel, or its parent's.
CtxDone(s) == cancelled[s] \/ rootDone

\* cleanup() is close(stopCh): a second close of the channel panics, and the
\* server bypass has no port-forward to close.
PortForwardCleanup(s) ==
    portForward' = [portForward EXCEPT ![s] =
        IF @ = "none" THEN "none" ELSE IF @ = "open" THEN "closed" ELSE "closedTwice"]

PipelineWriting(s) == pipePc[s] \in {"running", "finalizing"}

\* os.RemoveAll(s.TmpDir): a no-op while the field is still "".
RemoveAll(s, published) ==
    /\ dir' = [dir EXCEPT ![s] = @ /\ ~published]
    /\ purgedLive' = [purgedLive EXCEPT ![s] = @ \/ (published /\ PipelineWriting(s))]

-----------------------------------------------------------------------------
(* start_session.                                                          *)

\* The slot is capturing: the call is refused, and the error names the id of
\* the active session to the client.
StartReject(s) ==
    /\ startPc[s] = "idle"
    /\ slot # NoSession
    /\ state[slot] = "capturing"
    /\ startPc' = [startPc EXCEPT ![s] = "rejected"]
    /\ known' = known \cup {slot}
    /\ UNCHANGED <<slot, rootDone, sessionVars, cancelled, done, pipeVars, portForward,
                   diskVars, stopVars, shutVars>>

\* Variant: the slot is taken whatever the state of the session in it.
StartClaimAnyState(s) ==
    /\ startPc[s] = "idle"
    /\ \/ slot = NoSession /\ UNCHANGED diskVars
       \/ /\ slot # NoSession
          /\ RemoveAll(slot, tmpDir[slot])
    /\ slot' = s
    /\ state' = [state EXCEPT ![s] = "capturing"]
    /\ startPc' = [startPc EXCEPT ![s] = "claimed"]
    /\ UNCHANGED <<rootDone, known, tmpDir, explicitStopSeen, cancelled, done,
                   pipeVars, portForward, stopVars, shutVars>>

\* A retained stopped session is purged and the slot is claimed, before any
\* setup, in one critical section.
StartClaim(s) ==
    /\ startPc[s] = "idle"
    /\ \/ slot = NoSession /\ UNCHANGED diskVars
       \/ /\ slot # NoSession
          /\ state[slot] = "stopped"
          /\ RemoveAll(slot, tmpDir[slot])
    /\ slot' = s
    /\ state' = [state EXCEPT ![s] = "capturing"]
    /\ startPc' = [startPc EXCEPT ![s] = "claimed"]
    /\ UNCHANGED <<rootDone, known, tmpDir, explicitStopSeen, cancelled, done,
                   pipeVars, portForward, stopVars, shutVars>>

MkdirTemp(s) ==
    /\ startPc[s] = "claimed"
    /\ startPc' = [startPc EXCEPT ![s] = "setup"]
    /\ dir' = [dir EXCEPT ![s] = TRUE]
    /\ UNCHANGED <<slot, rootDone, known, sessionVars, cancelled, done, pipeVars,
                   portForward, purgedLive, stopVars, shutVars>>

\* fail(err), up to its critical section: the forked context is cancelled.
MkdirTempFails(s) ==
    /\ startPc[s] = "claimed"
    /\ startPc' = [startPc EXCEPT ![s] = "failing"]
    /\ cancelled' = [cancelled EXCEPT ![s] = TRUE]
    /\ UNCHANGED <<slot, rootDone, known, sessionVars, done, pipeVars, portForward,
                   diskVars, stopVars, shutVars>>

\* resolveSetup reaches the relay: through an explicit server, or through a
\* port-forward whose cleanup Start now owes.
ReachRelay(s) ==
    /\ startPc[s] = "setup"
    /\ \E pf \in {"none", "open"} : portForward' = [portForward EXCEPT ![s] = pf]
    /\ startPc' = [startPc EXCEPT ![s] = "connected"]
    /\ UNCHANGED <<slot, rootDone, known, sessionVars, cancelled, done, pipeVars,
                   diskVars, stopVars, shutVars>>

\* resolveSetup fails before it owns a port-forward (kubeconfig, port-forward,
\* timeout, or a cancelled context): the directory goes, then fail(err).
SetupFails(s) ==
    /\ startPc[s] = "setup"
    /\ startPc' = [startPc EXCEPT ![s] = "failing"]
    /\ dir' = [dir EXCEPT ![s] = FALSE]
    /\ cancelled' = [cancelled EXCEPT ![s] = TRUE]
    /\ UNCHANGED <<slot, rootDone, known, sessionVars, done, pipeVars, portForward,
                   purgedLive, stopVars, shutVars>>

\* The cluster-dedup load fails: resolveSetup closes the port-forward itself.
DedupFails(s) ==
    /\ startPc[s] = "connected"
    /\ startPc' = [startPc EXCEPT ![s] = "failing"]
    /\ PortForwardCleanup(s)
    /\ dir' = [dir EXCEPT ![s] = FALSE]
    /\ cancelled' = [cancelled EXCEPT ![s] = TRUE]
    /\ UNCHANGED <<slot, rootDone, known, sessionVars, done, pipeVars,
                   purgedLive, stopVars, shutVars>>

\* Variant: a failed start empties the slot even if another session owns it.
FailReleaseAlways(s) ==
    /\ startPc[s] = "failing"
    /\ startPc' = [startPc EXCEPT ![s] = "failed"]
    /\ slot' = NoSession
    /\ UNCHANGED <<rootDone, known, sessionVars, cancelled, done, pipeVars, portForward,
                   diskVars, stopVars, shutVars>>

\* The critical section of fail(err).
FailRelease(s) ==
    /\ startPc[s] = "failing"
    /\ startPc' = [startPc EXCEPT ![s] = "failed"]
    /\ slot' = IF slot = s THEN NoSession ELSE slot
    /\ UNCHANGED <<rootDone, known, sessionVars, cancelled, done, pipeVars, portForward,
                   diskVars, stopVars, shutVars>>

\* The rest of resolveSetup cannot fail, and the slot is still ours: the directory
\* is published, the pipeline goroutine is launched and the client learns the id.
StartFinalize(s) ==
    /\ startPc[s] = "connected"
    /\ slot = s
    /\ tmpDir' = [tmpDir EXCEPT ![s] = TRUE]
    /\ pipePc' = [pipePc EXCEPT ![s] = "running"]
    /\ startPc' = [startPc EXCEPT ![s] = "returned"]
    /\ known' = known \cup {s}
    /\ UNCHANGED <<slot, rootDone, state, explicitStopSeen, cancelled, done,
                   final, pipelineErr, portForward, diskVars, stopVars, shutVars>>

\* Variant: the abort path leaves the directory behind.
StartAbortNoRemove(s) ==
    /\ startPc[s] = "connected"
    /\ slot # s
    /\ cancelled' = [cancelled EXCEPT ![s] = TRUE]
    /\ PortForwardCleanup(s)
    /\ startPc' = [startPc EXCEPT ![s] = "aborted"]
    /\ UNCHANGED <<dir, slot, rootDone, known, sessionVars, done, pipeVars, purgedLive,
                   stopVars, shutVars>>

\* Variant: the abort path leaves the port-forward open.
StartAbortNoCleanup(s) ==
    /\ startPc[s] = "connected"
    /\ slot # s
    /\ cancelled' = [cancelled EXCEPT ![s] = TRUE]
    /\ dir' = [dir EXCEPT ![s] = FALSE]
    /\ startPc' = [startPc EXCEPT ![s] = "aborted"]
    /\ UNCHANGED <<portForward, slot, rootDone, known, sessionVars, done, pipeVars, purgedLive,
                   stopVars, shutVars>>

\* The slot was taken away while setup ran: everything setup made is undone.
StartAbort(s) ==
    /\ startPc[s] = "connected"
    /\ slot # s
    /\ cancelled' = [cancelled EXCEPT ![s] = TRUE]
    /\ PortForwardCleanup(s)
    /\ dir' = [dir EXCEPT ![s] = FALSE]
    /\ startPc' = [startPc EXCEPT ![s] = "aborted"]
    /\ UNCHANGED <<slot, rootDone, known, sessionVars, done, pipeVars, purgedLive,
                   stopVars, shutVars>>

-----------------------------------------------------------------------------
(* The goroutine Start launches: runPipeline, the port-forward's cleanup,   *)
(* the autonomous transition to stopped, and the signal on done.            *)

\* The writers make the directories they need: a write after the session
\* directory was removed brings it back.
PipelineWrite(s) ==
    /\ PipelineWriting(s)
    /\ ~dir[s]
    /\ dir' = [dir EXCEPT ![s] = TRUE]
    /\ UNCHANGED <<slot, rootDone, startVars, sessionVars, cancelled, done, pipeVars,
                   portForward, purgedLive, stopVars, shutVars>>

\* The stream cannot be opened: runPipeline returns before any statistics.
PipelineConnectFails(s) ==
    /\ pipePc[s] = "running"
    /\ pipePc' = [pipePc EXCEPT ![s] = "returned"]
    /\ UNCHANGED <<slot, rootDone, startVars, sessionVars, cancelled, done, final,
                   pipelineErr, portForward, diskVars, stopVars, shutVars>>

\* All stages have exited: OnFinal stores the statistics, and the evidence and
\* health reports are still to be written.
PipelineFinal(s) ==
    /\ pipePc[s] = "running"
    /\ pipePc' = [pipePc EXCEPT ![s] = "finalizing"]
    /\ final' = [final EXCEPT ![s] = TRUE]
    /\ UNCHANGED <<slot, rootDone, startVars, sessionVars, cancelled, done,
                   pipelineErr, portForward, diskVars, stopVars, shutVars>>

PipelineReturn(s) ==
    /\ pipePc[s] = "finalizing"
    /\ pipePc' = [pipePc EXCEPT ![s] = "returned"]
    /\ UNCHANGED <<slot, rootDone, startVars, sessionVars, cancelled, done, final,
                   pipelineErr, portForward, diskVars, stopVars, shutVars>>

\* What runPipeline returned: a run that never reached OnFinal failed.
RunErrors(s) == IF final[s] THEN BOOLEAN ELSE {TRUE}

\* The port-forward is closed first.  Then sessionCtx.Err() is read, outside the
\* lock: only a pipeline that nobody cancelled makes the autonomous transition,
\* whatever its error.
AfterRun(s) ==
    /\ pipePc[s] = "returned"
    /\ PortForwardCleanup(s)
    /\ \/ /\ CtxDone(s)
          /\ pipePc' = [pipePc EXCEPT ![s] = "signalling"]
          /\ UNCHANGED pipelineErr
       \/ /\ ~CtxDone(s)
          /\ pipePc' = [pipePc EXCEPT ![s] = "auto"]
          /\ \E err \in RunErrors(s) : pipelineErr' = [pipelineErr EXCEPT ![s] = err]
    /\ UNCHANGED <<slot, rootDone, startVars, sessionVars, cancelled, done, final,
                   diskVars, stopVars, shutVars>>

\* Variant: a pipeline that ends without an error makes no transition.
AutoStopOnErrorOnly(s) ==
    /\ pipePc[s] = "auto"
    /\ pipePc' = [pipePc EXCEPT ![s] = "released"]
    /\ \/ /\ slot = s /\ state[s] = "capturing" /\ pipelineErr[s]
          /\ state' = [state EXCEPT ![s] = "stopped"]
       \/ /\ ~(slot = s /\ state[s] = "capturing" /\ pipelineErr[s])
          /\ UNCHANGED state
    /\ UNCHANGED <<slot, rootDone, startVars, tmpDir, explicitStopSeen, cancelled, done,
                   final, pipelineErr, portForward, diskVars, stopVars, shutVars>>

AutoStop(s) ==
    /\ pipePc[s] = "auto"
    /\ pipePc' = [pipePc EXCEPT ![s] = "released"]
    /\ \/ /\ slot = s /\ state[s] = "capturing"
          /\ state' = [state EXCEPT ![s] = "stopped"]
       \/ /\ ~(slot = s /\ state[s] = "capturing")
          /\ UNCHANGED state
    /\ UNCHANGED <<slot, rootDone, startVars, tmpDir, explicitStopSeen, cancelled, done,
                   final, pipelineErr, portForward, diskVars, stopVars, shutVars>>

\* Variant: done has no room, so the send waits for a Stop or a Shutdown to receive.
SignalDoneUnbuffered(s) ==
    /\ pipePc[s] \in {"released", "signalling"}
    /\ \/ \E c \in Stoppers : stop[c].pc = "waiting" /\ stop[c].id = s
       \/ shut.pc = "waiting" /\ shut.id = s
    /\ pipePc' = [pipePc EXCEPT ![s] = "exited"]
    /\ cancelled' = [cancelled EXCEPT ![s] = @ \/ pipePc[s] = "released"]
    /\ done' = [done EXCEPT ![s] = TRUE]
    /\ UNCHANGED <<slot, rootDone, startVars, sessionVars, final, pipelineErr,
                   portForward, diskVars, stopVars, shutVars>>

\* After an autonomous exit the context is released.  The send on done needs the
\* room for one value that the channel was made with, and nobody to receive it:
\* who waited may have given up, and a pipeline that ended alone had no waiter.
SignalDone(s) ==
    /\ pipePc[s] \in {"released", "signalling"}
    /\ ~done[s]
    /\ pipePc' = [pipePc EXCEPT ![s] = "exited"]
    /\ cancelled' = [cancelled EXCEPT ![s] = @ \/ pipePc[s] = "released"]
    /\ done' = [done EXCEPT ![s] = TRUE]
    /\ UNCHANGED <<slot, rootDone, startVars, sessionVars, final, pipelineErr,
                   portForward, diskVars, stopVars, shutVars>>

-----------------------------------------------------------------------------
(* stop_session.                                                           *)

\* Variant: the call goes on with the session in the slot, even if there is none.
StopLookupNilDeref(c) ==
    /\ stop[c].pc = "idle"
    /\ \E s \in known :
         stop' = [stop EXCEPT ![c] =
             [pc  |-> IF slot # s THEN "notFound"
                      ELSE IF state[s] = "stopped" THEN "summary" ELSE "once",
              id  |-> slot,
              dir |-> slot = s /\ tmpDir[s]]]
    /\ UNCHANGED <<slot, rootDone, startVars, sessionVars, cancelled, done, pipeVars,
                   portForward, diskVars, summary, once, timedOut, shutVars>>

\* The first critical section: an unknown id is refused, a stopped session is
\* only summarised, and the path of the report is fixed from this TmpDir.
StopLookup(c) ==
    /\ stop[c].pc = "idle"
    /\ \E s \in known :
         stop' = [stop EXCEPT ![c] =
             [pc  |-> IF slot # s THEN "notFound"
                      ELSE IF state[s] = "stopped" THEN "summary" ELSE "once",
              id  |-> s,
              dir |-> slot = s /\ tmpDir[s]]]
    /\ UNCHANGED <<slot, rootDone, startVars, sessionVars, cancelled, done, pipeVars,
                   portForward, diskVars, summary, once, timedOut, shutVars>>

\* The first caller inside stopOnce cancels the session and waits.
StopCancel(c) ==
    LET s == stop[c].id IN
    /\ stop[c].pc = "once"
    /\ once[s] = "free"
    /\ once' = [once EXCEPT ![s] = "busy"]
    /\ cancelled' = [cancelled EXCEPT ![s] = TRUE]
    /\ stop' = [stop EXCEPT ![c].pc = "waiting"]
    /\ UNCHANGED <<slot, rootDone, startVars, sessionVars, done, pipeVars, portForward,
                   diskVars, summary, timedOut, shutVars>>

\* Variant: a second caller does not wait for the first one's teardown.
StopOnceBusy(c) ==
    /\ stop[c].pc = "once"
    /\ once[stop[c].id] # "free"
    /\ stop' = [stop EXCEPT ![c].pc = "summary"]
    /\ UNCHANGED <<slot, rootDone, startVars, sessionVars, cancelled, done, pipeVars,
                   portForward, diskVars, summary, once, timedOut, shutVars>>

\* Every other caller leaves stopOnce once the first one is through.
StopOnceDone(c) ==
    /\ stop[c].pc = "once"
    /\ once[stop[c].id] = "done"
    /\ stop' = [stop EXCEPT ![c].pc = "summary"]
    /\ UNCHANGED <<slot, rootDone, startVars, sessionVars, cancelled, done, pipeVars,
                   portForward, diskVars, summary, once, timedOut, shutVars>>

StopReceiveDone(c) ==
    LET s == stop[c].id IN
    /\ stop[c].pc = "waiting"
    /\ done[s]
    /\ done' = [done EXCEPT ![s] = FALSE]
    /\ stop' = [stop EXCEPT ![c].pc = "finalize"]
    /\ UNCHANGED <<slot, rootDone, startVars, sessionVars, cancelled, pipeVars, portForward,
                   diskVars, summary, once, timedOut, shutVars>>

\* Variant: the wait for the pipeline has no deadline.
StopNeverExpires(c) ==
    LET s == stop[c].id IN
    /\ stop[c].pc = "waiting" /\ done[s]
    /\ timedOut' = [timedOut EXCEPT ![s] = TRUE]
    /\ stop' = [stop EXCEPT ![c].pc = "finalize"]
    /\ UNCHANGED <<slot, rootDone, startVars, sessionVars, cancelled, done, pipeVars,
                   portForward, diskVars, summary, once, shutVars>>

StopWaitExpires(c) ==
    LET s == stop[c].id IN
    /\ stop[c].pc = "waiting"
    /\ timedOut' = [timedOut EXCEPT ![s] = TRUE]
    /\ stop' = [stop EXCEPT ![c].pc = "finalize"]
    /\ UNCHANGED <<slot, rootDone, startVars, sessionVars, cancelled, done, pipeVars,
                   portForward, diskVars, summary, once, shutVars>>

\* Variant: the teardown, not the summary, sets the marker.
StopFinalizeMarks(c) ==
    LET s == stop[c].id IN
    /\ stop[c].pc = "finalize"
    /\ state' = [state EXCEPT ![s] = "stopped"]
    /\ explicitStopSeen' = [explicitStopSeen EXCEPT ![s] = TRUE]
    /\ once' = [once EXCEPT ![s] = "done"]
    /\ stop' = [stop EXCEPT ![c].pc = "summary"]
    /\ UNCHANGED <<slot, rootDone, startVars, tmpDir, cancelled, done,
                   pipeVars, portForward, diskVars, summary, timedOut, shutVars>>

\* The last critical section of stopOnce.Do: unconditional, whoever owns the
\* slot by now and whatever the pipeline goroutine already wrote.
StopFinalize(c) ==
    LET s == stop[c].id IN
    /\ stop[c].pc = "finalize"
    /\ state' = [state EXCEPT ![s] = "stopped"]
    /\ once' = [once EXCEPT ![s] = "done"]
    /\ stop' = [stop EXCEPT ![c].pc = "summary"]
    /\ UNCHANGED <<slot, rootDone, startVars, tmpDir, explicitStopSeen, cancelled, done,
                   pipeVars, portForward, diskVars, summary, timedOut, shutVars>>

\* buildSummary(explicitStopSeen.Swap(true), healthPath), outside the lock.
StopReturn(c) ==
    LET s == stop[c].id IN
    /\ stop[c].pc = "summary"
    /\ summary' = [summary EXCEPT ![c] =
           [already |-> explicitStopSeen[s], stats |-> final[s], err |-> pipelineErr[s],
            healthPath |-> stop[c].dir, tmpDir |-> tmpDir[s]]]
    /\ explicitStopSeen' = [explicitStopSeen EXCEPT ![s] = TRUE]
    /\ stop' = [stop EXCEPT ![c].pc = "returned"]
    /\ UNCHANGED <<slot, rootDone, startVars, state, tmpDir, cancelled, done,
                   pipeVars, portForward, diskVars, once, timedOut, shutVars>>

-----------------------------------------------------------------------------
(* Shutdown, which the server calls once, when its transport ends or its    *)
(* context is cancelled.                                                    *)

RootCancel ==
    /\ ~rootDone
    /\ rootDone' = TRUE
    /\ UNCHANGED <<slot, startVars, sessionVars, cancelled, done, pipeVars, portForward,
                   diskVars, stopVars, shutVars>>

ShutdownTake ==
    /\ shut.pc = "idle"
    /\ slot' = NoSession
    /\ \/ /\ slot = NoSession
          /\ shut' = [shut EXCEPT !.pc = "returned"]
          /\ UNCHANGED removal
       \/ /\ slot # NoSession
          /\ shut' = [pc  |-> IF state[slot] = "capturing" THEN "cancel" ELSE "remove",
                      id  |-> slot,
                      dir |-> tmpDir[slot]]
          /\ removal' = IF state[slot] = "capturing" THEN "none" ELSE "pending"
    /\ UNCHANGED <<rootDone, startVars, sessionVars, cancelled, done, pipeVars, portForward,
                   diskVars, stopVars>>

ShutdownCancel ==
    /\ shut.pc = "cancel"
    /\ shut' = [shut EXCEPT !.pc = "waiting"]
    /\ cancelled' = [cancelled EXCEPT ![shut.id] = TRUE]
    /\ UNCHANGED <<slot, rootDone, startVars, sessionVars, done, pipeVars, portForward,
                   diskVars, stopVars, removal>>

\* Variant: Shutdown waits for the signal without a deadline.
ShutdownWaitsForDone ==
    /\ shut.pc = "waiting"
    /\ done[shut.id]
    /\ done' = [done EXCEPT ![shut.id] = FALSE]
    /\ shut' = [shut EXCEPT !.pc = "remove"]
    /\ removal' = "pending"
    /\ UNCHANGED <<slot, rootDone, startVars, sessionVars, cancelled, pipeVars, portForward,
                   diskVars, stopVars>>

\* Either the pipeline's signal, which a waiting Stop may have taken, or stopWait.
ShutdownWaitOver ==
    /\ shut.pc = "waiting"
    /\ \/ done[shut.id] /\ done' = [done EXCEPT ![shut.id] = FALSE]
       \/ UNCHANGED done
    /\ shut' = [shut EXCEPT !.pc = "remove"]
    /\ removal' = "pending"
    /\ UNCHANGED <<slot, rootDone, startVars, sessionVars, cancelled, pipeVars, portForward,
                   diskVars, stopVars>>

ShutdownRemoves ==
    /\ removal = "pending"
    /\ removal' = "done"
    /\ RemoveAll(shut.id, shut.dir)
    /\ UNCHANGED <<slot, rootDone, startVars, sessionVars, cancelled, done, pipeVars,
                   portForward, stopVars, shut>>

\* Shutdown returns on the removal or, if it is wedged, on removeWait.
ShutdownReturn ==
    /\ shut.pc = "remove"
    /\ shut' = [shut EXCEPT !.pc = "returned"]
    /\ UNCHANGED <<slot, rootDone, startVars, sessionVars, cancelled, done, pipeVars,
                   portForward, diskVars, stopVars, removal>>

-----------------------------------------------------------------------------
StartSetup(s) ==
    \/ MkdirTemp(s) \/ MkdirTempFails(s)
    \/ ReachRelay(s) \/ SetupFails(s) \/ DedupFails(s)
    \/ FailRelease(s) \/ StartFinalize(s) \/ StartAbort(s)

StartStep(s) == StartReject(s) \/ StartClaim(s) \/ StartSetup(s)

\* runPipeline itself, and what the goroutine does once it has returned.
RunPipeline(s) == PipelineConnectFails(s) \/ PipelineFinal(s) \/ PipelineReturn(s)

AfterPipeline(s) == AfterRun(s) \/ AutoStop(s) \/ SignalDone(s)

StopTeardown(c) ==
    \/ StopCancel(c) \/ StopOnceDone(c)
    \/ StopReceiveDone(c) \/ StopWaitExpires(c)
    \/ StopFinalize(c) \/ StopReturn(c)

StopStep(c) == StopLookup(c) \/ StopTeardown(c)

ShutdownTeardown == ShutdownCancel \/ ShutdownWaitOver \/ ShutdownRemoves \/ ShutdownReturn

Next ==
    \/ \E s \in Sessions :
         StartStep(s) \/ PipelineWrite(s) \/ RunPipeline(s) \/ AfterPipeline(s)
    \/ \E c \in Stoppers : StopStep(c)
    \/ RootCancel \/ ShutdownTake \/ ShutdownTeardown

Spec == Init /\ [][Next]_vars

\* Handlers and goroutines run to their end: setup is bounded by its timeout,
\* Stop and Shutdown by their deadlines.  Clients owe nothing, and a pipeline
\* returns only because its context was cancelled.
Fairness ==
    /\ \A s \in Sessions :
         /\ WF_vars(StartSetup(s))
         /\ WF_vars(AfterPipeline(s))
         /\ WF_vars(CtxDone(s) /\ RunPipeline(s))
    /\ \A c \in Stoppers : WF_vars(StopTeardown(c))
    /\ WF_vars(ShutdownTeardown)

FairSpec == Spec /\ Fairness

-----------------------------------------------------------------------------
(* Safety.                                                                 *)

\* A start_session call between its claim and its last critical section.
SettingUp(s) == startPc[s] \in {"claimed", "setup", "connected"}

\* No port-forward leaks and none is closed twice, which would panic: while one
\* is open, exactly the call or the goroutine that owes its cleanup is still on
\* its way there (Start's error and abort paths, the launch goroutine).
PortForwardOwned ==
    \A s \in Sessions :
        /\ portForward[s] # "closedTwice"
        /\ portForward[s] = "open" =>
             \/ startPc[s] = "connected"
             \/ pipePc[s] \in {"running", "finalizing", "returned"}

\* A session that nobody cancelled and that is being set up or captured is
\* the one in the slot, or the one Shutdown has just taken and is about to
\* cancel: start_session, stop_session and Shutdown never lose track of a
\* capture, however they interleave.
LiveSessionReachable ==
    \A s \in Sessions :
        (SettingUp(s) \/ PipelineWriting(s)) /\ ~cancelled[s]
            => slot = s \/ (shut.pc = "cancel" /\ shut.id = s)

\* A session directory on disk belongs to the slot, to a call that is still
\* setting up, to a pipeline that is still running, to Shutdown's pending
\* removal, or it was removed while its pipeline was writing to it: no other
\* interleaving of purge, failure, abort and shutdown leaks one.
DirectoryOwned ==
    \A s \in Sessions :
        dir[s] => \/ SettingUp(s)
                  \/ slot = s /\ tmpDir[s]
                  \/ PipelineWriting(s)
                  \/ shut.id = s /\ shut.dir /\ removal # "done"
                  \/ purgedLive[s]

\* get_status never reports "capturing" for a session whose pipeline has gone,
\* unless the whole server was told to stop or a stop_session is in the middle
\* of its teardown (the autonomous transition of the launch goroutine).
DeadSessionNotCapturing ==
    \A s \in Sessions :
        pipePc[s] = "exited" /\ slot = s /\ state[s] = "capturing"
            => rootDone \/ \E c \in Stoppers :
                               stop[c].id = s /\ stop[c].pc \in {"waiting", "finalize"}

\* The calls that returned a summary of a session.
SummariesOf(s) == {c \in Stoppers : stop[c].id = s /\ stop[c].pc = "returned"}

\* Of all the stop_session calls that returned a summary of one session exactly
\* one reports already_stopped = false, also when the session stopped by itself.
OneFirstStop ==
    \A s \in Sessions :
        SummariesOf(s) # {} =>
            \E first \in SummariesOf(s) :
                /\ ~summary[first].already
                /\ \A c \in SummariesOf(s) \ {first} : summary[c].already

\* A summary returned without giving up on a deadline is final: the pipeline
\* has exited, its port-forward is closed, and the statistics and the error the
\* summary carries are the ones every later summary will carry.
SummarySettled ==
    \A c \in Stoppers :
        LET s == stop[c].id IN
        stop[c].pc = "returned" /\ ~timedOut[s] =>
            /\ pipePc[s] \in {"released", "signalling", "exited"}
            /\ portForward[s] # "open"
            /\ summary[c].stats = final[s]
            /\ summary[c].err = pipelineErr[s]

-----------------------------------------------------------------------------
(* Liveness.                                                               *)

\* Every stop_session call that found its session returns, even if the pipeline
\* never does, if its signal went to Shutdown, or if another call holds stopOnce.
StopReturns ==
    \A c \in Stoppers :
        stop[c].pc \in {"once", "waiting", "finalize", "summary"} ~> stop[c].pc = "returned"

\* Shutdown returns within its two deadlines whatever is wedged.
ShutdownReturns == shut.pc # "idle" ~> shut.pc = "returned"

\* Once a session is cancelled, by whoever, its port-forward is closed and its
\* goroutine is gone for good.
CancelledSessionDrains ==
    \A s \in Sessions :
        CtxDone(s) ~> [](portForward[s] # "open" /\ pipePc[s] \in {"none", "exited"})

-----------------------------------------------------------------------------
(* What a comment of the package says, and the code does not do.           *)

\* manager.go, Stop: a session whose stop_session returned a summary stays
\* queryable until the next start_session or Shutdown.
StoppedSessionRetained ==
    \A c \in Stoppers :
        stop[c].pc = "returned" =>
            \/ slot = stop[c].id
            \/ shut.pc # "idle"
            \/ \E t \in Sessions \ {stop[c].id} : startPc[t] \notin {"idle", "rejected"}

-----------------------------------------------------------------------------
(* The promise of the slot: SessionSlot, seen through the lock.            *)

phase == [s \in Sessions |->
    IF state[s] = "none" THEN "new" ELSE IF slot = s THEN state[s] ELSE "gone"]

Slot == INSTANCE SessionSlot WITH Sessions <- Sessions, phase <- phase

SlotSpec == Slot!Spec
=============================================================================
