------------------------------ MODULE Pipeline ------------------------------
(***************************************************************************)
(* pkg/hubble RunPipelineWithSource: the goroutines that turn a stream of  *)
(* dropped flows into policies, evidence and the health report, and the    *)
(* bounded channels between them.                                          *)
(*                                                                         *)
(*   stream --flows--> aggregator --policies--> fan-out --> policy writer  *)
(*     |  \--lost--> monitor    \--healthCh--> drainer  \-> evidence writer*)
(*     \--errCh--> stage 0 (its error cancels the group)                   *)
(*                                                                         *)
(* The source is the live Hubble client or a replay file.  A flow is the   *)
(* number under which the source produced it; what the aggregator's gates  *)
(* and keyFromFlow make of it is its kind: a workload (the bucket it lands *)
(* in), "infra" (Infra and Transient drops) or "excluded" (filtered, Noise,*)
(* unhandled).  What the writers do with an event is the subject of other  *)
(* modules; here they take it.                                             *)
(***************************************************************************)
EXTENDS Integers, Sequences, FiniteSets

CONSTANTS Workloads,
          FlowCap, EventCap, HealthCap, LostCap,  \* channel capacities
          MaxFlows, MaxLost,                      \* bounds on what the source produces
          FailOnInfraDrops                        \* --fail-on-infra-drops

ASSUME BoundsAssumption ==
    /\ {FlowCap, EventCap, HealthCap, LostCap} \subseteq Nat \ {0}
    /\ {MaxFlows, MaxLost} \subseteq Nat
    /\ FailOnInfraDrops \in BOOLEAN
    /\ {"infra", "excluded"} \cap Workloads = {}

Kinds == Workloads \cup {"infra", "excluded"}

VARIABLES
    source,         \* "live" or "replay"
    ctxDone,        \* the caller's context is cancelled
    streamPc,       \* where the source's goroutine is
    ended,          \* (history) why the stream ended
    received,       \* (history) the kinds of the flows the source produced
    lostReceived,   \* (history) the lost-event records it produced
    flows, lostCh, errCh,               \* its channels
    groupErr,       \* the errgroup holds an error: gctx is cancelled
    aggPc, buckets, flowsSeen, infraDrops, healthChDrops,
    policies,       \* the aggregator's out channel
    fanPc, fanEvent, policyCh, evidenceCh, healthCh,
    written, evidenced, accumulated, lostTotal,
    returned,       \* the group members that are not aggregator or fan-out
    result          \* what RunPipelineWithSource returned

streamVars == <<streamPc, ended, received, lostReceived>>
aggVars    == <<aggPc, buckets, flowsSeen, infraDrops, healthChDrops>>
fanVars    == <<fanPc, fanEvent>>
sinkVars   == <<written, evidenced, accumulated, lostTotal>>
vars == <<source, ctxDone, streamVars, flows, lostCh, errCh, groupErr, aggVars, policies,
          fanVars, policyCh, evidenceCh, healthCh, sinkVars, returned, result>>

Stages == {"stage0", "policyWriter", "evidenceWriter", "healthDrainer", "monitor"}

Event == [workload : Workloads, flows : SUBSET (1..MaxFlows)]

NoEvent == [workload |-> "none", flows |-> {}]

StreamTypes ==
    /\ source \in {"live", "replay"}
    /\ ctxDone \in BOOLEAN
    /\ streamPc \in {"recv", "send", "sendLost", "closeErr", "closeLost", "closeFlows", "closed"}
    /\ ended \in {"no", "eof", "error", "cancelled"}
    /\ received \in Seq(Kinds) /\ Len(received) <= MaxFlows
    /\ lostReceived \in 0..MaxLost
    /\ flows \in Seq(1..MaxFlows) /\ Len(flows) <= FlowCap
    /\ lostCh \in 0..LostCap
    /\ errCh \in {"empty", "error"}

AggTypes ==
    /\ groupErr \in BOOLEAN
    /\ aggPc \in {"run", "flush", "lastFlush", "exited"}
    /\ buckets \in [Workloads -> SUBSET (1..MaxFlows)]
    /\ flowsSeen \in 0..MaxFlows /\ infraDrops \in 0..MaxFlows /\ healthChDrops \in 0..MaxFlows
    /\ healthCh \in 0..HealthCap

FanTypes ==
    /\ policies \in Seq(Event) /\ Len(policies) <= EventCap
    /\ policyCh \in Seq(Event) /\ Len(policyCh) <= EventCap
    /\ evidenceCh \in Seq(Event) /\ Len(evidenceCh) <= EventCap
    /\ fanPc \in {"recv", "policy", "evidence", "closeEvidence", "closeHealth", "exited"}
    /\ fanEvent \in Event \cup {NoEvent}

SinkTypes ==
    /\ written \in Seq(Event) /\ evidenced \in Seq(Event)
    /\ accumulated \in 0..MaxFlows /\ lostTotal \in 0..MaxLost
    /\ returned \subseteq Stages
    /\ result \in {"running", "ok", "error", "infraDrops"}

\* The channels stay within their capacities and the counters within what the
\* source has produced.
TypeOK == StreamTypes /\ AggTypes /\ FanTypes /\ SinkTypes

\* A replay has no stage 0.
Init ==
    /\ source \in {"live", "replay"}
    /\ ctxDone = FALSE
    /\ streamPc = "recv" /\ ended = "no" /\ received = <<>> /\ lostReceived = 0
    /\ flows = <<>> /\ lostCh = 0 /\ errCh = "empty"
    /\ groupErr = FALSE
    /\ aggPc = "run" /\ buckets = [w \in Workloads |-> {}]
    /\ flowsSeen = 0 /\ infraDrops = 0 /\ healthChDrops = 0
    /\ policies = <<>> /\ policyCh = <<>> /\ evidenceCh = <<>> /\ healthCh = 0
    /\ fanPc = "recv" /\ fanEvent = NoEvent
    /\ written = <<>> /\ evidenced = <<>> /\ accumulated = 0 /\ lostTotal = 0
    /\ returned = IF source = "replay" THEN {"stage0"} ELSE {}
    /\ result = "running"

GroupCtxDone == ctxDone \/ groupErr

Cancel ==
    /\ result = "running"
    /\ ~ctxDone
    /\ ctxDone' = TRUE
    /\ UNCHANGED <<source, streamVars, flows, lostCh, errCh, groupErr, aggVars, policies, fanVars,
                   policyCh, evidenceCh, healthCh, sinkVars, returned, result>>

-----------------------------------------------------------------------------
(* The source: Client.streamFromSource and FileSource.StreamDroppedFlows.  *)

FlowsClosed == streamPc = "closed"

LostClosed == source = "replay" \/ streamPc \in {"closeFlows", "closed"}

ErrClosed == streamPc \in {"closeLost", "closeFlows", "closed"}

streamUnchanged == UNCHANGED <<source, ctxDone, groupErr, aggVars, policies, fanVars, policyCh,
                               evidenceCh, healthCh, sinkVars, returned, result>>

RecvFlow ==
    /\ streamPc = "recv"
    /\ Len(received) < MaxFlows
    /\ source = "replay" => ~ctxDone
    /\ \E kind \in Kinds : received' = Append(received, kind)
    /\ streamPc' = "send"
    /\ UNCHANGED <<ended, lostReceived, flows, lostCh, errCh>>
    /\ streamUnchanged

RecvLost ==
    /\ streamPc = "recv"
    /\ source = "live"
    /\ lostReceived < MaxLost
    /\ lostReceived' = lostReceived + 1
    /\ streamPc' = "sendLost"
    /\ UNCHANGED <<ended, received, flows, lostCh, errCh>>
    /\ streamUnchanged

\* Variant: the send does not wait for room.
SendFlowUnbounded ==
    /\ streamPc = "send"
    /\ flows' = Append(flows, Len(received))
    /\ streamPc' = "recv"
    /\ UNCHANGED <<ended, received, lostReceived, lostCh, errCh>>
    /\ streamUnchanged

SendFlow ==
    /\ streamPc = "send"
    /\ Len(flows) < FlowCap
    /\ flows' = Append(flows, Len(received))
    /\ streamPc' = "recv"
    /\ UNCHANGED <<ended, received, lostReceived, lostCh, errCh>>
    /\ streamUnchanged

SendLost ==
    /\ streamPc = "sendLost"
    /\ lostCh < LostCap
    /\ lostCh' = lostCh + 1
    /\ streamPc' = "recv"
    /\ UNCHANGED <<ended, received, lostReceived, flows, errCh>>
    /\ streamUnchanged

FirstClose == IF source = "live" THEN "closeErr" ELSE "closeFlows"

\* The end of the stream.  A live stream checks its context first.
StreamEof ==
    /\ streamPc = "recv"
    /\ source = "live" => ~ctxDone
    /\ ended' = "eof"
    /\ streamPc' = FirstClose
    /\ UNCHANGED <<received, lostReceived, flows, lostCh, errCh>>
    /\ streamUnchanged

\* A transport failure of the live stream goes to errCh; a scanner error of the
\* replay is only logged.
StreamFails ==
    /\ streamPc = "recv"
    /\ source = "live" => ~ctxDone
    /\ ended' = "error"
    /\ errCh' = IF source = "live" THEN "error" ELSE errCh
    /\ streamPc' = FirstClose
    /\ UNCHANGED <<received, lostReceived, flows, lostCh>>
    /\ streamUnchanged

\* A cancelled context ends a Recv and a blocked send; the flow in hand is gone.
StreamCancelled ==
    /\ streamPc \in {"recv", "send", "sendLost"}
    /\ ctxDone
    /\ ended' = "cancelled"
    /\ streamPc' = FirstClose
    /\ UNCHANGED <<received, lostReceived, flows, lostCh, errCh>>
    /\ streamUnchanged

\* The deferred closes, last registered first.
StreamClose ==
    /\ \/ streamPc = "closeErr"   /\ streamPc' = "closeLost"
       \/ streamPc = "closeLost"  /\ streamPc' = "closeFlows"
       \/ streamPc = "closeFlows" /\ streamPc' = "closed"
    /\ UNCHANGED <<ended, received, lostReceived, flows, lostCh, errCh>>
    /\ streamUnchanged

-----------------------------------------------------------------------------
(* Stage 0.                                                                *)

\* Variant: the error is logged and the stage returns nil.
SurfaceErrorNot ==
    /\ "stage0" \notin returned
    /\ errCh = "error"
    /\ errCh' = "empty"
    /\ UNCHANGED groupErr
    /\ returned' = returned \cup {"stage0"}
    /\ UNCHANGED <<source, ctxDone, streamVars, flows, lostCh, aggVars, policies, fanVars,
                   policyCh, evidenceCh, healthCh, sinkVars, result>>

\* The first error of a member cancels the group's context.
SurfaceError ==
    /\ "stage0" \notin returned
    /\ errCh = "error"
    /\ errCh' = "empty"
    /\ groupErr' = TRUE
    /\ returned' = returned \cup {"stage0"}
    /\ UNCHANGED <<source, ctxDone, streamVars, flows, lostCh, aggVars, policies, fanVars,
                   policyCh, evidenceCh, healthCh, sinkVars, result>>

NoErrorToSurface ==
    /\ "stage0" \notin returned
    /\ errCh = "empty" /\ ErrClosed
    /\ returned' = returned \cup {"stage0"}
    /\ UNCHANGED <<source, ctxDone, streamVars, flows, lostCh, errCh, groupErr, aggVars, policies,
                   fanVars, policyCh, evidenceCh, healthCh, sinkVars, result>>

-----------------------------------------------------------------------------
(* Stage 1: Aggregator.Run, one action per case of its select.             *)

aggUnchanged == UNCHANGED <<source, ctxDone, streamVars, lostCh, errCh, groupErr, fanVars,
                            policyCh, evidenceCh, sinkVars, returned, result>>

Dequeue(kinds) ==
    /\ aggPc = "run"
    /\ flows # <<>>
    /\ received[Head(flows)] \in kinds
    /\ flows' = Tail(flows)

AggExcluded ==
    /\ Dequeue({"excluded"})
    /\ UNCHANGED <<aggVars, policies, healthCh>>
    /\ aggUnchanged

AggBucket ==
    /\ Dequeue(Workloads)
    /\ flowsSeen' = flowsSeen + 1
    /\ buckets' = [buckets EXCEPT ![received[Head(flows)]] = @ \cup {Head(flows)}]
    /\ UNCHANGED <<aggPc, infraDrops, healthChDrops, policies, healthCh>>
    /\ aggUnchanged

\* Variant: an event the drainer has no room for is dropped without a count.
AggInfraSilent ==
    /\ Dequeue({"infra"})
    /\ flowsSeen' = flowsSeen + 1
    /\ infraDrops' = infraDrops + 1
    /\ \/ /\ healthCh < HealthCap
          /\ healthCh' = healthCh + 1
          /\ UNCHANGED <<aggPc, healthChDrops>>
       \/ /\ GroupCtxDone
          /\ aggPc' = "lastFlush"
          /\ UNCHANGED <<healthCh, healthChDrops>>
       \/ /\ healthCh = HealthCap /\ ~GroupCtxDone
          /\ UNCHANGED <<aggPc, healthCh, healthChDrops>>
    /\ UNCHANGED <<buckets, policies>>
    /\ aggUnchanged

\* An infra drop: its event is sent, given up for the cancellation of the group,
\* or counted as dropped when neither is possible.
AggInfra ==
    /\ Dequeue({"infra"})
    /\ flowsSeen' = flowsSeen + 1
    /\ infraDrops' = infraDrops + 1
    /\ \/ /\ healthCh < HealthCap
          /\ healthCh' = healthCh + 1
          /\ UNCHANGED <<aggPc, healthChDrops>>
       \/ /\ GroupCtxDone
          /\ aggPc' = "lastFlush"
          /\ UNCHANGED <<healthCh, healthChDrops>>
       \/ /\ healthCh = HealthCap /\ ~GroupCtxDone
          /\ healthChDrops' = healthChDrops + 1
          /\ UNCHANGED <<aggPc, healthCh>>
    /\ UNCHANGED <<buckets, policies>>
    /\ aggUnchanged

\* The ticker; over empty buckets a flush does nothing.
AggTick ==
    /\ aggPc = "run"
    /\ \E w \in Workloads : buckets[w] # {}
    /\ aggPc' = "flush"
    /\ UNCHANGED <<buckets, flowsSeen, infraDrops, healthChDrops, flows, policies, healthCh>>
    /\ aggUnchanged

\* Variant: Run returns without the last flush.
AggEofUnflushed ==
    /\ aggPc = "run"
    /\ flows = <<>> /\ FlowsClosed
    /\ aggPc' = "exited"
    /\ UNCHANGED <<buckets, flowsSeen, infraDrops, healthChDrops, flows, policies, healthCh>>
    /\ aggUnchanged

AggEof ==
    /\ aggPc = "run"
    /\ flows = <<>> /\ FlowsClosed
    /\ aggPc' = "lastFlush"
    /\ UNCHANGED <<buckets, flowsSeen, infraDrops, healthChDrops, flows, policies, healthCh>>
    /\ aggUnchanged

AggCancelled ==
    /\ aggPc = "run"
    /\ GroupCtxDone
    /\ aggPc' = "lastFlush"
    /\ UNCHANGED <<buckets, flowsSeen, infraDrops, healthChDrops, flows, policies, healthCh>>
    /\ aggUnchanged

\* Variant: the bucket is not cleared.
FlushSendKeeps(w) ==
    /\ aggPc \in {"flush", "lastFlush"}
    /\ buckets[w] # {}
    /\ Len(policies) < EventCap
    /\ policies' = Append(policies, [workload |-> w, flows |-> buckets[w]])
    /\ aggPc' = IF aggPc = "flush" THEN "run" ELSE "exited"
    /\ UNCHANGED <<buckets, flowsSeen, infraDrops, healthChDrops, flows, healthCh>>
    /\ aggUnchanged

\* flush sends one event for each bucket, in any order, and clears them all; a
\* bucket is cleared here when it is sent, which nothing else can observe.
FlushSend(w) ==
    /\ aggPc \in {"flush", "lastFlush"}
    /\ buckets[w] # {}
    /\ Len(policies) < EventCap
    /\ policies' = Append(policies, [workload |-> w, flows |-> buckets[w]])
    /\ buckets' = [buckets EXCEPT ![w] = {}]
    /\ UNCHANGED <<aggPc, flowsSeen, infraDrops, healthChDrops, flows, healthCh>>
    /\ aggUnchanged

\* Back to the select; after the last flush Run closes its out channel.
FlushDone ==
    /\ aggPc \in {"flush", "lastFlush"}
    /\ \A w \in Workloads : buckets[w] = {}
    /\ aggPc' = IF aggPc = "flush" THEN "run" ELSE "exited"
    /\ UNCHANGED <<buckets, flowsSeen, infraDrops, healthChDrops, flows, policies, healthCh>>
    /\ aggUnchanged

-----------------------------------------------------------------------------
(* Stage 1b: the fan-out.                                                  *)

fanUnchanged == UNCHANGED <<source, ctxDone, streamVars, flows, lostCh, errCh, groupErr, aggVars,
                            healthCh, sinkVars, returned, result>>

FanRecv ==
    /\ fanPc = "recv"
    /\ policies # <<>>
    /\ fanEvent' = Head(policies)
    /\ policies' = Tail(policies)
    /\ fanPc' = "policy"
    /\ UNCHANGED <<policyCh, evidenceCh>>
    /\ fanUnchanged

FanPolicy ==
    /\ fanPc = "policy"
    /\ Len(policyCh) < EventCap
    /\ policyCh' = Append(policyCh, fanEvent)
    /\ fanPc' = "evidence"
    /\ UNCHANGED <<fanEvent, policies, evidenceCh>>
    /\ fanUnchanged

\* Variant: an event the evidence writer has no room for is dropped.
FanEvidenceDrops ==
    /\ fanPc = "evidence"
    /\ evidenceCh' = IF Len(evidenceCh) < EventCap THEN Append(evidenceCh, fanEvent)
                                                   ELSE evidenceCh
    /\ fanPc' = "recv"
    /\ fanEvent' = NoEvent
    /\ UNCHANGED <<policies, policyCh>>
    /\ fanUnchanged

FanEvidence ==
    /\ fanPc = "evidence"
    /\ Len(evidenceCh) < EventCap
    /\ evidenceCh' = Append(evidenceCh, fanEvent)
    /\ fanPc' = "recv"
    /\ fanEvent' = NoEvent
    /\ UNCHANGED <<policies, policyCh>>
    /\ fanUnchanged

\* Variant: the fan-out gives up when the group's context is cancelled.
FanCloseOnCancel ==
    /\ \/ /\ fanPc = "recv"
          /\ (policies = <<>> /\ aggPc = "exited") \/ GroupCtxDone
          /\ fanPc' = "closeEvidence"
       \/ fanPc = "closeEvidence" /\ fanPc' = "closeHealth"
       \/ fanPc = "closeHealth"   /\ fanPc' = "exited"
    /\ UNCHANGED <<fanEvent, policies, policyCh, evidenceCh>>
    /\ fanUnchanged

\* Variant: the channels are closed but for healthCh.
FanCloseTwo ==
    /\ \/ /\ fanPc = "recv"
          /\ policies = <<>> /\ aggPc = "exited"
          /\ fanPc' = "closeEvidence"
       \/ fanPc = "closeEvidence" /\ fanPc' = "closeHealth"
    /\ UNCHANGED <<fanEvent, policies, policyCh, evidenceCh>>
    /\ fanUnchanged

\* close(policyCh), close(evidenceCh), close(healthCh).
FanClose ==
    /\ \/ /\ fanPc = "recv"
          /\ policies = <<>> /\ aggPc = "exited"
          /\ fanPc' = "closeEvidence"
       \/ fanPc = "closeEvidence" /\ fanPc' = "closeHealth"
       \/ fanPc = "closeHealth"   /\ fanPc' = "exited"
    /\ UNCHANGED <<fanEvent, policies, policyCh, evidenceCh>>
    /\ fanUnchanged

PolicyClosed == fanPc \in {"closeEvidence", "closeHealth", "exited"}

EvidenceClosed == fanPc \in {"closeHealth", "exited"}

HealthClosed == fanPc = "exited"

-----------------------------------------------------------------------------
(* Stages 2, 2b, 2c and 3: the consumers, each until its channel is closed. *)

consumerUnchanged == UNCHANGED <<source, ctxDone, streamVars, flows, errCh, groupErr, aggVars,
                                 policies, fanVars, result>>

WritePolicy ==
    /\ policyCh # <<>>
    /\ written' = Append(written, Head(policyCh))
    /\ policyCh' = Tail(policyCh)
    /\ UNCHANGED <<lostCh, evidenceCh, healthCh, evidenced, accumulated, lostTotal, returned>>
    /\ consumerUnchanged

WriteEvidence ==
    /\ evidenceCh # <<>>
    /\ evidenced' = Append(evidenced, Head(evidenceCh))
    /\ evidenceCh' = Tail(evidenceCh)
    /\ UNCHANGED <<lostCh, policyCh, healthCh, written, accumulated, lostTotal, returned>>
    /\ consumerUnchanged

Accumulate ==
    /\ healthCh > 0
    /\ accumulated' = accumulated + 1
    /\ healthCh' = healthCh - 1
    /\ UNCHANGED <<lostCh, policyCh, evidenceCh, written, evidenced, lostTotal, returned>>
    /\ consumerUnchanged

CountLost ==
    /\ "monitor" \notin returned
    /\ lostCh > 0
    /\ lostTotal' = lostTotal + 1
    /\ lostCh' = lostCh - 1
    /\ UNCHANGED <<policyCh, evidenceCh, healthCh, written, evidenced, accumulated, returned>>
    /\ consumerUnchanged

\* The end of a consumer; only the monitor also watches the group's context.
ConsumerReturns(stage) ==
    /\ stage \notin returned
    /\ CASE stage = "policyWriter"   -> policyCh = <<>> /\ PolicyClosed
         [] stage = "evidenceWriter" -> evidenceCh = <<>> /\ EvidenceClosed
         [] stage = "healthDrainer"  -> healthCh = 0 /\ HealthClosed
         [] stage = "monitor"        -> (lostCh = 0 /\ LostClosed) \/ GroupCtxDone
    /\ returned' = returned \cup {stage}
    /\ UNCHANGED <<lostCh, policyCh, evidenceCh, healthCh, sinkVars>>
    /\ consumerUnchanged

\* g.Wait returns; the counters are read, the artifacts finalised, and an exit
\* code asked for infra drops is returned when the group itself had no error.
Return ==
    /\ result = "running"
    /\ aggPc = "exited" /\ fanPc = "exited" /\ returned = Stages
    /\ result' = IF groupErr THEN "error"
                 ELSE IF FailOnInfraDrops /\ infraDrops > 0 THEN "infraDrops" ELSE "ok"
    /\ UNCHANGED <<source, ctxDone, streamVars, flows, lostCh, errCh, groupErr, aggVars, policies,
                   fanVars, policyCh, evidenceCh, healthCh, sinkVars, returned>>

-----------------------------------------------------------------------------
Stream == RecvFlow \/ RecvLost \/ SendFlow \/ SendLost \/ StreamEof \/ StreamFails
          \/ StreamCancelled \/ StreamClose

Stage0 == SurfaceError \/ NoErrorToSurface

Agg == \/ AggExcluded \/ AggBucket \/ AggInfra \/ AggTick \/ AggEof \/ AggCancelled \/ FlushDone
       \/ \E w \in Workloads : FlushSend(w)

Fan == FanRecv \/ FanPolicy \/ FanEvidence \/ FanClose

Consumers == \/ WritePolicy \/ WriteEvidence \/ Accumulate \/ CountLost
             \/ \E stage \in Stages \ {"stage0"} : ConsumerReturns(stage)

Next == Cancel \/ Stream \/ Stage0 \/ Agg \/ Fan \/ Consumers \/ Return

Spec == Init /\ [][Next]_vars

\* Every goroutine of the group runs.  Of the source only this is assumed: it
\* does not hold back a flow it has room for, a cancelled context ends it, and
\* once ended it closes its channels.  The relay may stay silent for ever.
Fairness ==
    /\ WF_vars(SendFlow) /\ WF_vars(SendLost) /\ WF_vars(StreamCancelled) /\ WF_vars(StreamClose)
    /\ WF_vars(Stage0) /\ WF_vars(Agg) /\ WF_vars(Fan)
    /\ WF_vars(WritePolicy) /\ WF_vars(WriteEvidence) /\ WF_vars(Accumulate) /\ WF_vars(CountLost)
    /\ \A stage \in Stages \ {"stage0"} : WF_vars(ConsumerReturns(stage))
    /\ WF_vars(Return)

FairSpec == Spec /\ Fairness

-----------------------------------------------------------------------------
(* Properties.                                                             *)

HandedTo(sink, channel, pcs) ==
    sink \o channel \o (IF fanPc \in pcs THEN <<fanEvent>> ELSE <<>>) \o policies

\* No flow of a sequence of events is in two of them or in a bucket, none is in
\* the event of another workload, and none the aggregator counted is missing.
Accounts(events) ==
    LET sets    == {buckets[w] : w \in Workloads}
        carried == UNION {events[i].flows : i \in DOMAIN events}
    IN  /\ \A i, j \in DOMAIN events : i # j => events[i].flows \cap events[j].flows = {}
        /\ carried \cap UNION sets = {}
        /\ \A i \in DOMAIN events : \A f \in events[i].flows : received[f] = events[i].workload
        /\ flowsSeen = infraDrops + Cardinality(carried \cup UNION sets)

\* Aggregator.flush and the fan-out: whatever the ticker, the channels and a
\* cancellation do, each bucketed flow reaches each writer in one event.
FlowsConserved ==
    /\ Accounts(HandedTo(written, policyCh, {"policy"}))
    /\ Accounts(HandedTo(evidenced, evidenceCh, {"policy", "evidence"}))

\* The fan-out closes healthCh, on which the aggregator sends: never while it may
\* still send, which would panic.
NoSendOnClosed ==
    HealthClosed => aggPc = "exited"

\* One writer may run ahead of the other, but both see the same events in the
\* same order: their files are merged from the same history.
WritersAgree ==
    \/ Len(evidenced) <= Len(written)   /\ evidenced = SubSeq(written, 1, Len(evidenced))
    \/ Len(written)   <= Len(evidenced) /\ written = SubSeq(evidenced, 1, Len(written))

\* C1, health counters: an infra drop is in the health report, counted as dropped
\* by back-pressure, or the one in hand when the group was cancelled.
HealthAccounted ==
    result # "running" =>
        /\ infraDrops - (accumulated + healthChDrops) \in {0, 1}
        /\ ~GroupCtxDone => infraDrops = accumulated + healthChDrops

Count(kinds) == Cardinality({f \in DOMAIN received : received[f] \in kinds})

\* RunPipelineWithSource after a clean end of the stream: every flow it received
\* is in the output and every counter of the summary is what was received.
CleanRunComplete ==
    result # "running" /\ ended = "eof" /\ ~ctxDone =>
        /\ flowsSeen = Count(Workloads \cup {"infra"})
        /\ infraDrops = Count({"infra"})
        /\ UNION {written[i].flows : i \in DOMAIN written}
             = {f \in DOMAIN received : received[f] \in Workloads}
        /\ Len(evidenced) = Len(written)
        /\ lostTotal = lostReceived

\* Stage 0 and EXIT-01: a transport failure is never reported as a clean run, and
\* nothing else is reported as one; without it, drops asked for set the exit code.
FailureSurfaced ==
    result # "running" =>
        /\ result = "error" <=> source = "live" /\ ended = "error"
        /\ result = "ok" /\ FailOnInfraDrops /\ ended = "eof" /\ ~ctxDone =>
               "infra" \notin {received[f] : f \in DOMAIN received}

\* A cancelled or ended stream ends the pipeline: no stage waits for another for
\* ever, whatever is in the channels.
PipelineReturns == ctxDone \/ ended # "no" ~> result # "running"
=============================================================================
