----------------------------- MODULE AuditWindow -----------------------------
(***************************************************************************)
(* pkg/auditwindow and its only caller, cmd/cpg audit-window: the command  *)
(* flips every endpoint of a namespace into policy-audit mode, keeps       *)
(* flipping new ones, and reverts its own flips on every exit path.        *)
(*                                                                         *)
(* The main goroutine, the watcher, up to three overlapping Shutdown calls *)
(* and the revert sweep interleave; the cluster underneath creates,        *)
(* deletes and renumbers endpoints at any moment.  An endpoint is known to *)
(* the manager by its UID and addressed on its node by a small integer id, *)
(* which the node reuses.  One node is modelled: ids are what can collide. *)
(* stopWait, removeWait and the TTL may expire at any moment.              *)
(***************************************************************************)
CONSTANTS Endpoints,    \* CiliumEndpoint UIDs, past and future
          Ids,          \* endpoint ids of the node
          NoId

ASSUME IdAssumption == NoId \notin Ids

\* The three calls of Shutdown: runAuditWindow's explicit one, its deferred one,
\* and the one Open starts for the cancellation of the root context.
Callers == {"main", "defer", "signal"}

VARIABLES
    life, epId, audit,  \* the cluster: who lives, under which id, in which mode
    native,             \* (history) the endpoint was created in audit mode
    rebound,            \* (history) ids that changed hands
    mainPc,             \* where runAuditWindow is
    ctxDone,            \* the command's context is cancelled (SIGINT, SIGTERM)
    todo,               \* what is left of the list Open sweeps
    flip,               \* the flipIfNeeded call of Open, then of the watcher
    watcher,            \* the watcher goroutine
    watchCancelled,     \* Manager.watchCancel was called
    ours,               \* Manager.ours: the id recorded for each endpoint
    shut,               \* where each Shutdown call is
    drainExpired,       \* (history) a Shutdown gave up on the watcher
    closing,            \* a goroutine calling Close was started
    once,               \* Manager.closeOnce
    recs, target,       \* Close's snapshot of ours, and the ids it resolved
    result,             \* RevertResult.EndpointResults
    report,             \* what the command printed of the sweep
    stuck               \* RevertResult.PossiblyStuck

clusterVars == <<life, epId, audit, native, rebound>>
openVars    == <<todo, flip, ours>>
watchVars   == <<watcher, watchCancelled>>
sweepVars   == <<recs, target, result>>
reportVars  == <<report, stuck>>
vars == <<clusterVars, mainPc, ctxDone, openVars, watchVars, shut, drainExpired,
          closing, once, sweepVars, reportVars>>

Owned(r) == {e \in Endpoints : r[e] # NoId}

IdOrNone == Ids \cup {NoId}

NoFlip == [pc |-> "idle", uid |-> NoId, id |-> NoId]

TypeOK ==
    /\ life \in [Endpoints -> {"unborn", "live", "gone"}]
    /\ epId \in [Endpoints -> IdOrNone]
    /\ audit \in [Endpoints -> BOOLEAN]
    /\ native \in [Endpoints -> BOOLEAN]
    /\ rebound \subseteq Ids
    /\ mainPc \in {"start", "list", "sweep", "open", "shutdown", "defer", "exited"}
    /\ ctxDone \in BOOLEAN
    /\ todo \subseteq [uid : Endpoints, id : Ids]
    /\ flip \in [pc : {"read", "set", "record"}, uid : Endpoints, id : Ids] \cup {NoFlip}
    /\ watcher \in {"none", "running", "exited"}
    /\ watchCancelled \in BOOLEAN
    /\ ours \in [Endpoints -> IdOrNone]
    /\ shut \in [Callers -> {"idle", "drain", "revert", "done"}]
    /\ drainExpired \in BOOLEAN
    /\ closing \in BOOLEAN
    /\ once \in {"free", "busy", "done"}
    /\ recs \in [Endpoints -> IdOrNone]
    /\ target \in [Endpoints -> IdOrNone]
    /\ result \in [Endpoints -> {"none", "ok", "error"}]
    /\ report \in {"none", "results", "timeout"}
    /\ stuck \subseteq Endpoints

\* Any namespace: some endpoints live, under distinct ids, some in audit mode
\* already.
Init ==
    /\ life \in [Endpoints -> {"unborn", "live"}]
    /\ epId \in [Endpoints -> IdOrNone]
    /\ audit \in [Endpoints -> BOOLEAN]
    /\ \A e \in Endpoints : /\ life[e] = "live" <=> epId[e] # NoId
                            /\ audit[e] => life[e] = "live"
    /\ \A e, f \in Endpoints : e # f /\ epId[e] = epId[f] => epId[e] = NoId
    /\ native = audit
    /\ rebound = {}
    /\ mainPc = "start"
    /\ ctxDone = FALSE
    /\ todo = {}
    /\ flip = NoFlip
    /\ watcher = "none"
    /\ watchCancelled = FALSE
    /\ ours = [e \in Endpoints |-> NoId]
    /\ shut = [k \in Callers |-> "idle"]
    /\ drainExpired = FALSE
    /\ closing = FALSE
    /\ once = "free"
    /\ recs = [e \in Endpoints |-> NoId]
    /\ target = [e \in Endpoints |-> NoId]
    /\ result = [e \in Endpoints |-> "none"]
    /\ report = "none"
    /\ stuck = {}

-----------------------------------------------------------------------------
(* The cluster (external).  Only the agent knows which endpoint an id means.*)

At(id) == {e \in Endpoints : life[e] = "live" /\ epId[e] = id}

Running == mainPc # "exited"

envUnchanged == UNCHANGED <<mainPc, ctxDone, openVars, watchVars, shut, drainExpired,
                            closing, once, sweepVars, reportVars>>

CreateEndpoint(e) ==
    /\ Running
    /\ life[e] = "unborn"
    /\ \E id \in Ids, mode \in BOOLEAN :
         /\ At(id) = {}
         /\ epId' = [epId EXCEPT ![e] = id]
         /\ audit' = [audit EXCEPT ![e] = mode]
         /\ native' = [native EXCEPT ![e] = mode]
    /\ life' = [life EXCEPT ![e] = "live"]
    /\ UNCHANGED rebound
    /\ envUnchanged

DeleteEndpoint(e) ==
    /\ Running
    /\ life[e] = "live"
    /\ life' = [life EXCEPT ![e] = "gone"]
    /\ rebound' = rebound \cup {epId[e]}
    /\ UNCHANGED <<epId, audit, native>>
    /\ envUnchanged

\* An agent restart gives the endpoint another id; its options stay.
RenumberEndpoint(e) ==
    /\ Running
    /\ life[e] = "live"
    /\ \E id \in Ids :
         /\ At(id) = {}
         /\ epId' = [epId EXCEPT ![e] = id]
         /\ rebound' = rebound \cup {epId[e], id}
    /\ UNCHANGED <<life, audit, native>>
    /\ envUnchanged

\* cilium-dbg endpoint config <id> PolicyAuditMode=<mode>: without an endpoint
\* it fails; a lost answer is an error whether or not the command ran.
SetMode(id, mode, err) ==
    /\ ~err => At(id) # {}
    /\ \/ audit' = [e \in Endpoints |-> IF e \in At(id) THEN mode ELSE audit[e]]
       \/ err /\ UNCHANGED audit
    /\ UNCHANGED <<life, epId, native, rebound>>

-----------------------------------------------------------------------------
(* Open.                                                                   *)

\* The daemon-wide setting is active: refused.  A check that fails is a warning.
Precondition ==
    /\ mainPc = "start"
    /\ mainPc' \in {"list", "defer"}
    /\ UNCHANGED <<clusterVars, ctxDone, openVars, watchVars, shut, drainExpired, closing,
                   once, sweepVars, reportVars>>

ListFails ==
    /\ mainPc = "list"
    /\ mainPc' = "defer"
    /\ UNCHANGED <<clusterVars, ctxDone, openVars, watchVars, shut, drainExpired, closing,
                   once, sweepVars, reportVars>>

\* Variant: an endpoint whose status is still empty is swept too.
ListUnfilled ==
    /\ mainPc = "list"
    /\ ~ctxDone
    /\ mainPc' = "sweep"
    /\ todo' = {[uid |-> e, id |-> epId[e]] : e \in {f \in Endpoints : life[f] # "gone"}}
    /\ UNCHANGED <<clusterVars, ctxDone, flip, ours, watchVars, shut, drainExpired, closing,
                   once, sweepVars, reportVars>>

List ==
    /\ mainPc = "list"
    /\ ~ctxDone
    /\ mainPc' = "sweep"
    /\ todo' = {[uid |-> e, id |-> epId[e]] : e \in {f \in Endpoints : life[f] = "live"}}
    /\ UNCHANGED <<clusterVars, ctxDone, flip, ours, watchVars, shut, drainExpired, closing,
                   once, sweepVars, reportVars>>

\* flipIfNeeded, up to the read: an endpoint already ours, or without networking
\* status, is skipped.
BeginFlip(r) ==
    /\ flip.pc = "idle"
    /\ \/ ours[r.uid] = NoId /\ flip' = [pc |-> "read", uid |-> r.uid, id |-> r.id]
       \/ UNCHANGED flip

SweepNext ==
    /\ mainPc = "sweep"
    /\ \E r \in todo :
         /\ BeginFlip(r)
         /\ todo' = todo \ {r}
    /\ UNCHANGED <<clusterVars, mainPc, ctxDone, ours, watchVars, shut, drainExpired, closing,
                   once, sweepVars, reportVars>>

\* The watcher and the goroutine that waits for the root context start.
OpenReturns ==
    /\ mainPc = "sweep"
    /\ todo = {} /\ flip.pc = "idle"
    /\ mainPc' = "open"
    /\ watcher' = "running"
    /\ UNCHANGED <<clusterVars, ctxDone, openVars, watchCancelled, shut, drainExpired, closing,
                   once, sweepVars, reportVars>>

-----------------------------------------------------------------------------
(* The watcher, and the rest of flipIfNeeded.                               *)

WatchCtxDone == ctxDone \/ watchCancelled

\* An Added or Modified event; a dropped or late one, and the time between two
\* watches, are this action not happening.  Under a cancelled context the read
\* can only fail.
WatchEvent ==
    /\ Running
    /\ watcher = "running"
    /\ ~WatchCtxDone
    /\ \E e \in Endpoints : life[e] = "live" /\ BeginFlip([uid |-> e, id |-> epId[e]])
    /\ UNCHANGED <<clusterVars, mainPc, ctxDone, todo, ours, watchVars, shut, drainExpired,
                   closing, once, sweepVars, reportVars>>

WatcherExits ==
    /\ Running
    /\ watcher = "running"
    /\ WatchCtxDone
    /\ flip.pc = "idle"
    /\ watcher' = "exited"
    /\ UNCHANGED <<clusterVars, mainPc, ctxDone, openVars, watchCancelled, shut, drainExpired,
                   closing, once, sweepVars, reportVars>>

\* Variant: an endpoint in audit mode already is flipped and owned all the same.
FlipReadBlind ==
    /\ Running
    /\ flip.pc = "read"
    /\ \/ flip' = NoFlip
       \/ /\ ~WatchCtxDone
          /\ At(flip.id) # {}
          /\ flip' = [flip EXCEPT !.pc = "set"]
    /\ UNCHANGED <<clusterVars, mainPc, ctxDone, todo, ours, watchVars, shut, drainExpired,
                   closing, once, sweepVars, reportVars>>

\* The read fails, finds the endpoint in audit mode already, or finds it
\* enforcing; then setFn is called, which fails at once under a cancelled context.
FlipRead ==
    /\ Running
    /\ flip.pc = "read"
    /\ \/ flip' = NoFlip
       \/ /\ ~WatchCtxDone
          /\ \E e \in At(flip.id) : ~audit[e]
          /\ flip' = [flip EXCEPT !.pc = "set"]
    /\ UNCHANGED <<clusterVars, mainPc, ctxDone, todo, ours, watchVars, shut, drainExpired,
                   closing, once, sweepVars, reportVars>>

\* setFn(true): after an error nothing is recorded.
FlipSet ==
    /\ Running
    /\ flip.pc = "set"
    /\ \E err \in BOOLEAN :
         /\ SetMode(flip.id, TRUE, err)
         /\ flip' = IF err THEN NoFlip ELSE [flip EXCEPT !.pc = "record"]
    /\ UNCHANGED <<mainPc, ctxDone, todo, ours, watchVars, shut, drainExpired, closing, once,
                   sweepVars, reportVars>>

FlipRecord ==
    /\ Running
    /\ flip.pc = "record"
    /\ ours' = [ours EXCEPT ![flip.uid] = flip.id]
    /\ flip' = NoFlip
    /\ UNCHANGED <<clusterVars, mainPc, ctxDone, todo, watchVars, shut, drainExpired, closing,
                   once, sweepVars, reportVars>>

-----------------------------------------------------------------------------
(* Shutdown.                                                               *)

Signal ==
    /\ Running
    /\ ~ctxDone
    /\ ctxDone' = TRUE
    /\ UNCHANGED <<clusterVars, mainPc, openVars, watchVars, shut, drainExpired, closing, once,
                   sweepVars, reportVars>>

\* The TTL or the signal ends the wait of runAuditWindow.
WindowEnds ==
    /\ mainPc = "open"
    /\ mainPc' = "shutdown"
    /\ UNCHANGED <<clusterVars, ctxDone, openVars, watchVars, shut, drainExpired, closing, once,
                   sweepVars, reportVars>>

\* A caller's turn: main's two calls in their order, the goroutine's once the
\* root context is cancelled.
Calls(k) ==
    CASE k = "main"   -> mainPc = "shutdown"
      [] k = "defer"  -> mainPc = "defer"
      [] k = "signal" -> ctxDone /\ watcher # "none" /\ Running

ShutdownCancel(k) ==
    /\ Calls(k)
    /\ shut[k] = "idle"
    /\ shut' = [shut EXCEPT ![k] = "drain"]
    /\ watchCancelled' = (watchCancelled \/ watcher # "none")
    /\ UNCHANGED <<clusterVars, mainPc, ctxDone, openVars, watcher, drainExpired, closing, once,
                   sweepVars, reportVars>>

\* Variant: the sweep starts without waiting for the watcher.
ShutdownUndrained(k) ==
    /\ Running
    /\ shut[k] = "drain"
    /\ UNCHANGED drainExpired
    /\ shut' = [shut EXCEPT ![k] = "revert"]
    /\ closing' = TRUE
    /\ UNCHANGED <<clusterVars, mainPc, ctxDone, openVars, watchVars, once, sweepVars,
                   reportVars>>

\* Variant: the wait for the watcher has no deadline.
ShutdownDrainedUnbounded(k) ==
    /\ Running
    /\ shut[k] = "drain"
    /\ watcher # "running" /\ UNCHANGED drainExpired
    /\ shut' = [shut EXCEPT ![k] = "revert"]
    /\ closing' = TRUE
    /\ UNCHANGED <<clusterVars, mainPc, ctxDone, openVars, watchVars, once, sweepVars,
                   reportVars>>

\* The watcher has exited, was never started, or stopWait expires; then a
\* goroutine is started that calls Close.
ShutdownDrained(k) ==
    /\ Running
    /\ shut[k] = "drain"
    /\ \/ watcher # "running" /\ UNCHANGED drainExpired
       \/ watcher = "running" /\ drainExpired' = TRUE
    /\ shut' = [shut EXCEPT ![k] = "revert"]
    /\ closing' = TRUE
    /\ UNCHANGED <<clusterVars, mainPc, ctxDone, openVars, watchVars, once, sweepVars,
                   reportVars>>

\* runAuditWindow returns to its caller: after the explicit call it prints what
\* Shutdown returned, after the deferred one the process ends.
Leave(k, outcome) ==
    /\ shut' = [shut EXCEPT ![k] = "done"]
    /\ CASE k = "main" ->
              /\ mainPc' = "defer"
              /\ report' = outcome
              /\ stuck' = IF outcome = "timeout" THEN Owned(ours) ELSE {}
         [] k = "defer"  -> mainPc' = "exited" /\ UNCHANGED reportVars
         [] k = "signal" -> UNCHANGED <<mainPc, reportVars>>
    /\ UNCHANGED <<clusterVars, ctxDone, openVars, watchVars, drainExpired, closing, once,
                   sweepVars>>

ShutdownReverted(k) ==
    /\ Running
    /\ shut[k] = "revert"
    /\ once = "done"
    /\ Leave(k, "results")

\* Variant: at the deadline the unfinished result is returned as it is.
ShutdownDeadlineSilent(k) ==
    /\ Running
    /\ shut[k] = "revert"
    /\ Leave(k, "results")

\* removeWait for each owned endpoint expires, at the latest while the sweep ends.
ShutdownDeadline(k) ==
    /\ Running
    /\ shut[k] = "revert"
    /\ Leave(k, "timeout")

-----------------------------------------------------------------------------
(* Close.                                                                  *)

\* Variant: a later Close sweeps again.
CloseEnterAgain ==
    /\ Running
    /\ closing
    /\ once # "busy"
    /\ once' = "busy"
    /\ recs' = ours
    /\ target' = [e \in Endpoints |-> NoId]
    /\ result' = [e \in Endpoints |-> "none"]
    /\ UNCHANGED <<clusterVars, mainPc, ctxDone, openVars, watchVars, shut, drainExpired,
                   closing, reportVars>>

\* Whichever Shutdown's goroutine is first takes the snapshot.
CloseEnter ==
    /\ Running
    /\ closing
    /\ once = "free"
    /\ once' = "busy"
    /\ recs' = ours
    /\ target' = [e \in Endpoints |-> NoId]
    /\ result' = [e \in Endpoints |-> "none"]
    /\ UNCHANGED <<clusterVars, mainPc, ctxDone, openVars, watchVars, shut, drainExpired,
                   closing, reportVars>>

\* The id is re-resolved from the UID; if that fails the recorded one is used.
CloseResolve(e) ==
    /\ Running
    /\ once = "busy"
    /\ recs[e] # NoId /\ target[e] = NoId
    /\ \/ life[e] = "live" /\ target' = [target EXCEPT ![e] = epId[e]]
       \/ target' = [target EXCEPT ![e] = recs[e]]
    /\ UNCHANGED <<clusterVars, mainPc, ctxDone, openVars, watchVars, shut, drainExpired,
                   closing, once, recs, result, reportVars>>

\* setFn(false), under context.Background().
CloseRevert(e) ==
    /\ Running
    /\ once = "busy"
    /\ target[e] # NoId /\ result[e] = "none"
    /\ \E err \in BOOLEAN :
         /\ SetMode(target[e], FALSE, err)
         /\ result' = [result EXCEPT ![e] = IF err THEN "error" ELSE "ok"]
    /\ UNCHANGED <<mainPc, ctxDone, openVars, watchVars, shut, drainExpired, closing, once,
                   recs, target, reportVars>>

CloseDone ==
    /\ Running
    /\ once = "busy"
    /\ \A e \in Owned(recs) : result[e] # "none"
    /\ once' = "done"
    /\ UNCHANGED <<clusterVars, mainPc, ctxDone, openVars, watchVars, shut, drainExpired,
                   closing, sweepVars, reportVars>>

-----------------------------------------------------------------------------
Cluster == \E e \in Endpoints : CreateEndpoint(e) \/ DeleteEndpoint(e) \/ RenumberEndpoint(e)

OpenStep == Precondition \/ ListFails \/ List \/ SweepNext \/ OpenReturns

FlipStep == FlipRead \/ FlipSet \/ FlipRecord

ShutdownStep(k) ==
    ShutdownCancel(k) \/ ShutdownDrained(k) \/ ShutdownReverted(k) \/ ShutdownDeadline(k)

Sweep == \/ CloseEnter \/ CloseDone
         \/ \E e \in Endpoints : CloseResolve(e) \/ CloseRevert(e)

Next ==
    \/ Cluster \/ OpenStep \/ FlipStep \/ WatchEvent \/ WatcherExits \/ Sweep
    \/ Signal \/ WindowEnds
    \/ \E k \in Callers : ShutdownStep(k)

Spec == Init /\ [][Next]_vars

\* The timers of the command fire: the TTL, stopWait and removeWait.  Nothing is
\* assumed of the cluster, of the exec transport or of the watcher.
Fairness == WF_vars(WindowEnds) /\ \A k \in {"main", "defer"} : WF_vars(ShutdownStep(k))

FairSpec == Spec /\ Fairness

-----------------------------------------------------------------------------
(* Properties.                                                             *)

\* Named in the command's output as an endpoint that may still be in audit mode.
Named(e) ==
    \/ report = "timeout" /\ e \in stuck
    \/ report = "results" /\ result[e] = "error"

\* The endpoint that lives under the id was there all along.
Steady(e) == life[e] = "live" /\ epId[e] \notin rebound

\* Manager.Shutdown, T-23-06: once the command has reported, an endpoint it
\* recorded as its own and that is still in audit mode was named as a failure,
\* unless a Shutdown had to give up on the watcher or the node reused ids.
RevertedOrNamed ==
    mainPc \in {"defer", "exited"} /\ ~drainExpired =>
        \A e \in Owned(ours) : Steady(e) /\ audit[e] => Named(e)

\* flipIfNeeded, revert-only-ours: an endpoint that was in audit mode before cpg
\* saw it stays there, as long as its id does not change hands.
ForeignUntouched ==
    \A e \in Endpoints : native[e] /\ Steady(e) => audit[e]

\* Shutdown cancels and drains the watcher before Close takes its snapshot: from
\* then on no flip is under way, unless stopWait expired.
SnapshotAfterDrain ==
    once # "free" /\ ~drainExpired => watcher # "running" /\ flip.pc = "idle" /\ recs = ours

\* Close, closeOnce: however many Shutdown calls overlap, no endpoint is reverted
\* twice and no outcome is overwritten.
ResultsFinal ==
    [][\A e \in Endpoints : result[e] # "none" => result'[e] = result[e]]_vars

\* The command ends once its window is open, even if the exec transport is
\* wedged in the watcher or in the sweep.
WindowCloses == mainPc = "open" ~> mainPc = "exited"
=============================================================================
