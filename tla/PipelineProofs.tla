--------------------------- MODULE PipelineProofs ---------------------------
(***************************************************************************)
(* The safety properties of Pipeline for any workloads, capacities and     *)
(* bounds.  Counters bound each counter by what the source has produced;   *)
(* Closing orders the exits of the stages; Agree says that the two writers *)
(* are served from one sequence of events; Errors follows a transport      *)
(* failure from the stream to the group, Drained an infra drop from the    *)
(* stream to its counter.  Conserved says that each bucketed flow is in    *)
(* one event or bucket; Kept and Finished, that a run no one cancelled has *)
(* counted every flow and left nothing in a channel.                       *)
(***************************************************************************)
EXTENDS Pipeline, SequenceTheorems, FiniteSetTheorems, TLAPS

-----------------------------------------------------------------------------
(* The inductive invariant.                                                *)

\* What is in a channel or a counter was received, and is there once.
Counters ==
    /\ Len(flows) + flowsSeen + (IF streamPc = "send" THEN 1 ELSE 0) <= Len(received)
    /\ infraDrops <= flowsSeen
    /\ lostTotal + lostCh + (IF streamPc = "sendLost" THEN 1 ELSE 0) <= lostReceived
    /\ \A i \in 1..Len(flows) : flows[i] <= Len(received)
    /\ fanPc \in {"policy", "evidence"} => fanEvent \in Event

\* An infra drop is in the report, in the channel, counted as dropped, or the
\* one that was in hand when the aggregator saw the cancellation.
InHand ==
    \/ infraDrops = accumulated + healthCh + healthChDrops
    \/ /\ infraDrops = accumulated + healthCh + healthChDrops + 1
       /\ aggPc \in {"lastFlush", "exited"}
       /\ GroupCtxDone

TypeInv == TypeOK /\ Counters /\ InHand

\* The order in which stages exit, and what that makes of the result.
Closing ==
    /\ PolicyClosed => aggPc = "exited" /\ policies = <<>>
    /\ "healthDrainer" \in returned => HealthClosed /\ healthCh = 0
    /\ result # "running" =>
         /\ aggPc = "exited" /\ fanPc = "exited" /\ returned = Stages
         /\ result = IF groupErr THEN "error"
                     ELSE IF FailOnInfraDrops /\ infraDrops > 0 THEN "infraDrops" ELSE "ok"

\* What the policy writer has or will get from its channel, the evidence writer
\* has or will get as well; one event may still be with the fan-out.
Agree ==
    written \o policyCh
      = (evidenced \o evidenceCh) \o (IF fanPc = "evidence" THEN <<fanEvent>> ELSE <<>>)

\* A transport failure is in errCh until stage 0 turns it into the group's error.
Errors ==
    /\ ended = "no" <=> streamPc \in {"recv", "send", "sendLost"}
    /\ source = "live" /\ ended = "error" <=> errCh = "error" \/ groupErr
    /\ source = "live" /\ "stage0" \in returned => errCh = "empty" /\ (ErrClosed \/ groupErr)

\* Nothing but a cancellation takes a flow from the stream past the counters.
Drained ==
    /\ aggPc \in {"lastFlush", "exited"} => GroupCtxDone \/ (flows = <<>> /\ FlowsClosed)
    /\ infraDrops = 0 /\ ~ctxDone =>
         \A f \in 1..Len(received) : received[f] = "infra" =>
             \/ \E i \in 1..Len(flows) : flows[i] = f
             \/ streamPc = "send" /\ f = Len(received)

-----------------------------------------------------------------------------
(* Type correctness.                                                       *)

\* The types of the counters and lengths, as the arithmetic needs them.
LEMMA Numbers ==
  ASSUME TypeOK
  PROVE  /\ MaxFlows \in Nat /\ MaxLost \in Nat
         /\ FlowCap \in Nat /\ EventCap \in Nat /\ HealthCap \in Nat /\ LostCap \in Nat
         /\ Len(received) \in 0..MaxFlows /\ Len(flows) \in 0..FlowCap
         /\ flowsSeen \in 0..MaxFlows /\ infraDrops \in 0..MaxFlows
         /\ healthChDrops \in 0..MaxFlows /\ accumulated \in 0..MaxFlows
         /\ healthCh \in 0..HealthCap /\ lostCh \in 0..LostCap
         /\ lostTotal \in 0..MaxLost /\ lostReceived \in 0..MaxLost
         /\ \A i \in 1..Len(flows) : flows[i] \in 1..MaxFlows
  <1>1. Len(received) \in Nat /\ Len(flows) \in Nat
    BY LenProperties DEF TypeOK, StreamTypes
  <1>2. \A i \in 1..Len(flows) : flows[i] \in 1..MaxFlows
    BY ElementOfSeq DEF TypeOK, StreamTypes
  <1>3. /\ MaxFlows \in Nat /\ MaxLost \in Nat
        /\ FlowCap \in Nat /\ EventCap \in Nat /\ HealthCap \in Nat /\ LostCap \in Nat
    BY BoundsAssumption
  <1> QED
    BY <1>1, <1>2, <1>3 DEF TypeOK, StreamTypes, AggTypes, SinkTypes

\* The initial state is of its type.
LEMMA InitTypeInv == Init => TypeInv
  <1> SUFFICES ASSUME Init PROVE TypeInv
    OBVIOUS
  <1>1. /\ <<>> \in Seq(Kinds) /\ <<>> \in Seq(1..MaxFlows) /\ <<>> \in Seq(Event)
        /\ Len(<<>>) = 0
    BY EmptySeq
  <1>2. /\ MaxFlows \in Nat /\ MaxLost \in Nat
        /\ FlowCap \in Nat /\ EventCap \in Nat /\ HealthCap \in Nat /\ LostCap \in Nat
    BY BoundsAssumption
  <1>a. 0 \in 0..MaxFlows /\ 0 \in 0..MaxLost /\ 0 \in 0..LostCap /\ 0 \in 0..HealthCap
    BY <1>2
  <1>3. StreamTypes
    <2>1. /\ received \in Seq(Kinds) /\ Len(received) <= MaxFlows
          /\ flows \in Seq(1..MaxFlows) /\ Len(flows) <= FlowCap
      BY <1>1, <1>2 DEF Init
    <2>2. lostReceived \in 0..MaxLost /\ lostCh \in 0..LostCap
      BY <1>a DEF Init
    <2> QED
      BY <2>1, <2>2, Zenon DEF Init, StreamTypes
  <1>4. AggTypes
    <2>1. buckets \in [Workloads -> SUBSET (1..MaxFlows)]
      BY DEF Init
    <2> QED
      BY <1>a, <2>1 DEF Init, AggTypes
  <1>5. FanTypes
    BY <1>1, <1>2 DEF Init, FanTypes
  <1>6. SinkTypes
    BY <1>1, <1>2 DEF Init, SinkTypes, Stages
  <1>7. Counters
    BY <1>1, <1>2 DEF Init, Counters
  <1>8. InHand
    BY DEF Init, InHand
  <1> QED
    BY <1>3, <1>4, <1>5, <1>6, <1>7, <1>8 DEF TypeInv, TypeOK

\* The steps of the flow source keep the types.
LEMMA StreamTypeInv == TypeInv /\ Stream => TypeInv'
  <1> SUFFICES ASSUME TypeInv, Stream PROVE TypeInv'
    OBVIOUS
  <1> USE DEF streamUnchanged, streamVars, aggVars, fanVars, sinkVars
  <1>0. TypeOK /\ StreamTypes /\ AggTypes /\ FanTypes /\ SinkTypes /\ Counters /\ InHand
    BY DEF TypeInv, TypeOK
  <1>n. /\ MaxFlows \in Nat /\ MaxLost \in Nat /\ LostCap \in Nat /\ FlowCap \in Nat
        /\ Len(received) \in 0..MaxFlows /\ Len(flows) \in 0..FlowCap
        /\ flowsSeen \in 0..MaxFlows /\ lostCh \in 0..LostCap
        /\ lostTotal \in 0..MaxLost /\ lostReceived \in 0..MaxLost
        /\ \A i \in 1..Len(flows) : flows[i] \in 1..MaxFlows
    BY <1>0, Numbers
  <1>u. /\ AggTypes' /\ FanTypes' /\ SinkTypes' /\ InHand'
    <2>1. UNCHANGED <<source, ctxDone, groupErr, aggVars, policies, fanVars, policyCh,
                      evidenceCh, healthCh, sinkVars, returned, result>>
      BY DEF Stream, RecvFlow, RecvLost, SendFlow, SendLost, StreamEof, StreamFails,
             StreamCancelled, StreamClose
    <2> QED
      BY <1>0, <2>1 DEF AggTypes, FanTypes, SinkTypes, InHand, GroupCtxDone
  <1>s. SUFFICES StreamTypes' /\ Counters'
    BY <1>u DEF TypeInv, TypeOK
  <1>1. CASE RecvFlow
    <2>1. PICK kind \in Kinds : received' = Append(received, kind)
      BY <1>1 DEF RecvFlow
    <2>2. received' \in Seq(Kinds) /\ Len(received') = Len(received) + 1
      BY <1>0, <2>1, AppendProperties DEF StreamTypes
    <2>3. StreamTypes'
      BY <1>0, <1>1, <1>n, <2>2 DEF RecvFlow, StreamTypes
    <2>4. Counters'
      BY <1>0, <1>1, <1>n, <2>2 DEF RecvFlow, Counters
    <2> QED
      BY <2>3, <2>4
  <1>2. CASE RecvLost
    <2>1. StreamTypes'
      BY <1>0, <1>2, <1>n DEF RecvLost, StreamTypes
    <2>2. Counters'
      BY <1>0, <1>2, <1>n DEF RecvLost, Counters
    <2> QED
      BY <2>1, <2>2
  <1>3. CASE SendFlow
    <2>1. Len(received) \in 1..MaxFlows
      BY <1>0, <1>3, <1>n DEF SendFlow, Counters
    <2>2. /\ flows' \in Seq(1..MaxFlows)
          /\ Len(flows') = Len(flows) + 1
          /\ \A i \in 1..Len(flows) : flows'[i] = flows[i]
          /\ flows'[Len(flows) + 1] = Len(received)
      BY <1>0, <1>3, <2>1, AppendProperties DEF SendFlow, StreamTypes
    <2>3. StreamTypes'
      BY <1>0, <1>3, <1>n, <2>1, <2>2 DEF SendFlow, StreamTypes
    <2>4. \A i \in 1..Len(flows') : flows'[i] <= Len(received')
      <3> TAKE i \in 1..Len(flows')
      <3>1. i \in 1..Len(flows) \/ i = Len(flows) + 1
        BY <1>n, <2>2
      <3> QED
        BY <1>0, <1>3, <2>1, <2>2, <3>1 DEF SendFlow, Counters
    <2>5. Counters'
      BY <1>0, <1>3, <1>n, <2>2, <2>4 DEF SendFlow, Counters
    <2> QED
      BY <2>3, <2>5
  <1>4. CASE SendLost
    <2>1. StreamTypes'
      BY <1>0, <1>4, <1>n DEF SendLost, StreamTypes
    <2>2. Counters'
      BY <1>0, <1>4, <1>n DEF SendLost, Counters
    <2> QED
      BY <2>1, <2>2
  <1>5. CASE StreamEof \/ StreamFails \/ StreamCancelled
    <2>1. StreamTypes'
      BY <1>0, <1>5 DEF StreamEof, StreamFails, StreamCancelled, FirstClose, StreamTypes
    <2>2. UNCHANGED <<received, flows, flowsSeen, infraDrops, lostTotal, lostCh, lostReceived,
                      fanPc, fanEvent>> /\ streamPc' \notin {"send", "sendLost"}
      BY <1>5 DEF StreamEof, StreamFails, StreamCancelled, FirstClose
    <2>3. Counters'
      BY <1>0, <1>n, <2>2 DEF Counters
    <2> QED
      BY <2>1, <2>3
  <1>6. CASE StreamClose
    <2>1. StreamTypes'
      BY <1>0, <1>6 DEF StreamClose, StreamTypes
    <2>2. Counters'
      BY <1>0, <1>6, <1>n DEF StreamClose, Counters
    <2> QED
      BY <2>1, <2>2
  <1> QED
    BY <1>1, <1>2, <1>3, <1>4, <1>5, <1>6 DEF Stream

\* A part of a sum of naturals is no larger than the sum.
LEMMA PartOfSum ==
  ASSUME NEW a \in Nat, NEW b \in Nat, NEW c \in Nat, NEW d \in Nat,
         d = a + b + c \/ d = a + b + c + 1
  PROVE  c <= d
  OBVIOUS

\* The steps of the aggregator keep the types.
LEMMA AggTypeInv == TypeInv /\ Agg => TypeInv'
  <1> SUFFICES ASSUME TypeInv, Agg PROVE TypeInv'
    OBVIOUS
  <1> USE DEF aggUnchanged, streamVars, aggVars, fanVars, sinkVars
  <1>0. TypeOK /\ StreamTypes /\ AggTypes /\ FanTypes /\ SinkTypes /\ Counters /\ InHand
    BY DEF TypeInv, TypeOK
  <1>n. /\ MaxFlows \in Nat /\ EventCap \in Nat /\ HealthCap \in Nat /\ FlowCap \in Nat
        /\ Len(received) \in 0..MaxFlows /\ Len(flows) \in 0..FlowCap
        /\ flowsSeen \in 0..MaxFlows /\ infraDrops \in 0..MaxFlows
        /\ healthChDrops \in 0..MaxFlows /\ accumulated \in 0..MaxFlows
        /\ healthCh \in 0..HealthCap
        /\ \A i \in 1..Len(flows) : flows[i] \in 1..MaxFlows
    BY <1>0, Numbers
  <1>u. SinkTypes'
    <2>1. UNCHANGED <<written, evidenced, accumulated, lostTotal, returned, result>>
      BY DEF Agg, AggExcluded, AggBucket, AggInfra, AggTick, AggEof, AggCancelled, FlushDone,
             FlushSend
    <2> QED
      BY <1>0, <2>1 DEF SinkTypes
  <1>d. ASSUME NEW K, Dequeue(K)
        PROVE  /\ flows' \in Seq(1..MaxFlows) /\ Len(flows') = Len(flows) - 1
               /\ Len(flows) > 0 /\ Head(flows) = flows[1] /\ Head(flows) \in 1..MaxFlows
               /\ \A i \in 1..Len(flows') : flows'[i] = flows[i + 1]
               /\ received[Head(flows)] \in K
    <2>1. flows # <<>> /\ flows' = Tail(flows) /\ received[Head(flows)] \in K
      BY <1>d DEF Dequeue
    <2>2. Len(flows) > 0
      BY <1>0, <2>1, EmptySeq DEF StreamTypes
    <2>3. Head(flows) = flows[1]
      BY <1>0, <2>1 DEF StreamTypes
    <2> QED
      BY <1>0, <1>n, <2>1, <2>2, <2>3, HeadTailProperties DEF StreamTypes
  <1>1. CASE AggExcluded
    <2>1. Dequeue({"excluded"})
      BY <1>1 DEF AggExcluded
    <2>2. StreamTypes'
      BY <1>0, <1>1, <1>n, <1>d, <2>1 DEF AggExcluded, StreamTypes
    <2>3. AggTypes' /\ FanTypes' /\ InHand'
      BY <1>0, <1>1 DEF AggExcluded, AggTypes, FanTypes, InHand, GroupCtxDone
    <2>4. Counters'
      BY <1>0, <1>1, <1>n, <1>d, <2>1 DEF AggExcluded, Counters
    <2> QED
      BY <1>u, <2>2, <2>3, <2>4 DEF TypeInv, TypeOK
  <1>2. CASE AggBucket
    <2>1. Dequeue(Workloads)
      BY <1>2 DEF AggBucket
    <2>2. StreamTypes'
      BY <1>0, <1>2, <1>n, <1>d, <2>1 DEF AggBucket, StreamTypes
    <2>3. AggTypes'
      <3>1. flowsSeen' \in 0..MaxFlows
        BY <1>0, <1>2, <1>n, <1>d, <2>1 DEF AggBucket, Counters
      <3>2. buckets' \in [Workloads -> SUBSET (1..MaxFlows)]
        BY <1>0, <1>2, <1>d, <2>1 DEF AggBucket, AggTypes
      <3> QED
        BY <1>0, <1>2, <3>1, <3>2 DEF AggBucket, AggTypes
    <2>4. FanTypes' /\ InHand'
      BY <1>0, <1>2 DEF AggBucket, FanTypes, InHand, GroupCtxDone
    <2>5. Counters'
      <3>1. /\ Len(flows') = Len(flows) - 1
            /\ \A i \in 1..Len(flows') : flows'[i] = flows[i + 1]
        BY <1>d, <2>1
      <3>2. \A i \in 1..Len(flows') : flows'[i] <= Len(received)
        BY <1>0, <1>n, <3>1 DEF Counters
      <3> QED
        BY <1>0, <1>2, <1>n, <3>1, <3>2 DEF AggBucket, Counters
    <2> QED
      BY <1>u, <2>2, <2>3, <2>4, <2>5 DEF TypeInv, TypeOK
  <1>3. CASE AggInfra
    <2>1. Dequeue({"infra"})
      BY <1>3 DEF AggInfra
    <2>2. StreamTypes'
      BY <1>0, <1>3, <1>n, <1>d, <2>1 DEF AggInfra, StreamTypes
    <2>3. InHand' /\ FanTypes'
      <3>1. infraDrops = accumulated + healthCh + healthChDrops
        BY <1>0, <1>3 DEF AggInfra, Dequeue, InHand
      <3>2. InHand'
        <4>1. infraDrops' = infraDrops + 1 /\ accumulated' = accumulated
          BY <1>3 DEF AggInfra
        <4>2. CASE healthCh < HealthCap /\ healthCh' = healthCh + 1 /\ healthChDrops' = healthChDrops
          BY <1>n, <3>1, <4>1, <4>2 DEF InHand
        <4>3. CASE GroupCtxDone /\ aggPc' = "lastFlush" /\ UNCHANGED <<healthCh, healthChDrops>>
          BY <1>3, <1>n, <3>1, <4>1, <4>3 DEF AggInfra, InHand, GroupCtxDone
        <4>4. CASE healthChDrops' = healthChDrops + 1 /\ healthCh' = healthCh
          BY <1>n, <3>1, <4>1, <4>4 DEF InHand
        <4> QED
          BY <1>3, <4>2, <4>3, <4>4 DEF AggInfra
      <3>3. FanTypes'
        BY <1>0, <1>3 DEF AggInfra, FanTypes
      <3> QED
        BY <3>2, <3>3
    <2>4. Counters'
      BY <1>0, <1>3, <1>n, <1>d, <2>1, SMTT(20) DEF AggInfra, Counters
    <2>5. AggTypes'
      <3>1. flowsSeen' \in 0..MaxFlows /\ infraDrops' \in 0..MaxFlows
        BY <1>0, <1>3, <1>n, <1>d, <2>1 DEF AggInfra, Counters
      <3>2. healthCh' \in 0..HealthCap
        BY <1>3, <1>n DEF AggInfra
      <3>3. healthChDrops' \in Nat
        BY <1>3, <1>n DEF AggInfra
      <3>4. healthChDrops' <= infraDrops'
        <4>1. accumulated' \in Nat /\ healthCh' \in Nat /\ infraDrops' \in Nat
          BY <1>3, <1>n, <3>1, <3>2 DEF AggInfra
        <4>2. \/ infraDrops' = accumulated' + healthCh' + healthChDrops'
              \/ infraDrops' = accumulated' + healthCh' + healthChDrops' + 1
          BY <2>3, Zenon DEF InHand
        <4> QED
          BY <3>3, <4>1, <4>2, PartOfSum
      <3> QED
        BY <1>0, <1>3, <1>n, <3>1, <3>2, <3>3, <3>4 DEF AggInfra, AggTypes
    <2> QED
      BY <1>u, <2>2, <2>3, <2>4, <2>5 DEF TypeInv, TypeOK
  <1>4. CASE AggTick \/ AggEof \/ AggCancelled \/ FlushDone
    <2>1. StreamTypes' /\ FanTypes' /\ Counters'
      BY <1>0, <1>4 DEF AggTick, AggEof, AggCancelled, FlushDone, StreamTypes, FanTypes, Counters
    <2>2. AggTypes' /\ InHand'
      BY <1>0, <1>4 DEF AggTick, AggEof, AggCancelled, FlushDone, AggTypes, InHand, GroupCtxDone
    <2> QED
      BY <1>u, <2>1, <2>2 DEF TypeInv, TypeOK
  <1>5. ASSUME NEW w \in Workloads, FlushSend(w) PROVE TypeInv'
    <2>1. StreamTypes' /\ Counters' /\ InHand'
      BY <1>0, <1>5 DEF FlushSend, StreamTypes, Counters, InHand, GroupCtxDone
    <2>2. AggTypes'
      BY <1>0, <1>5 DEF FlushSend, AggTypes
    <2>3. [workload |-> w, flows |-> buckets[w]] \in Event
      BY <1>0 DEF AggTypes, Event
    <2>4. policies' \in Seq(Event) /\ Len(policies') = Len(policies) + 1 /\ Len(policies) \in Nat
      BY <1>0, <1>5, <2>3, AppendProperties, LenProperties DEF FlushSend, FanTypes
    <2>5. FanTypes'
      BY <1>0, <1>5, <1>n, <2>4 DEF FlushSend, FanTypes
    <2> QED
      BY <1>u, <2>1, <2>2, <2>5 DEF TypeInv, TypeOK
  <1> QED
    BY <1>1, <1>2, <1>3, <1>4, <1>5 DEF Agg

\* The steps of the fan-out keep the types.
LEMMA FanTypeInv == TypeInv /\ Fan => TypeInv'
  <1> SUFFICES ASSUME TypeInv, Fan PROVE TypeInv'
    OBVIOUS
  <1> USE DEF fanUnchanged, streamVars, aggVars, fanVars, sinkVars
  <1>0. TypeOK /\ StreamTypes /\ AggTypes /\ FanTypes /\ SinkTypes /\ Counters /\ InHand
    BY DEF TypeInv, TypeOK
  <1>n. EventCap \in Nat
    BY BoundsAssumption
  <1>u. StreamTypes' /\ AggTypes' /\ SinkTypes' /\ InHand'
    <2>1. UNCHANGED <<source, ctxDone, streamVars, flows, lostCh, errCh, groupErr, aggVars,
                      healthCh, sinkVars, returned, result>>
      BY DEF Fan, FanRecv, FanPolicy, FanEvidence, FanClose
    <2> QED
      BY <1>0, <2>1 DEF StreamTypes, AggTypes, SinkTypes, InHand, GroupCtxDone
  <1>s. SUFFICES FanTypes' /\ Counters'
    BY <1>u DEF TypeInv, TypeOK
  <1>1. CASE FanRecv
    <2>1. /\ Head(policies) \in Event /\ Tail(policies) \in Seq(Event)
          /\ Len(Tail(policies)) = Len(policies) - 1 /\ Len(policies) \in Nat
      BY <1>0, <1>1, HeadTailProperties, LenProperties DEF FanRecv, FanTypes
    <2>2. FanTypes'
      BY <1>0, <1>1, <1>n, <2>1 DEF FanRecv, FanTypes
    <2>3. Counters'
      BY <1>0, <1>1, <2>1 DEF FanRecv, Counters
    <2> QED
      BY <2>2, <2>3
  <1>2. CASE FanPolicy
    <2>1. fanEvent \in Event
      BY <1>0, <1>2 DEF FanPolicy, Counters
    <2>2. /\ policyCh' \in Seq(Event) /\ Len(policyCh') = Len(policyCh) + 1
          /\ Len(policyCh) \in Nat
      BY <1>0, <1>2, <2>1, AppendProperties, LenProperties DEF FanPolicy, FanTypes
    <2>3. FanTypes'
      BY <1>0, <1>2, <1>n, <2>2 DEF FanPolicy, FanTypes
    <2>4. Counters'
      BY <1>0, <1>2 DEF FanPolicy, Counters
    <2> QED
      BY <2>3, <2>4
  <1>3. CASE FanEvidence
    <2>1. fanEvent \in Event
      BY <1>0, <1>3 DEF FanEvidence, Counters
    <2>2. /\ evidenceCh' \in Seq(Event) /\ Len(evidenceCh') = Len(evidenceCh) + 1
          /\ Len(evidenceCh) \in Nat
      BY <1>0, <1>3, <2>1, AppendProperties, LenProperties DEF FanEvidence, FanTypes
    <2>3. FanTypes'
      BY <1>0, <1>3, <1>n, <2>2 DEF FanEvidence, FanTypes
    <2>4. Counters'
      BY <1>0, <1>3 DEF FanEvidence, Counters
    <2> QED
      BY <2>3, <2>4
  <1>4. CASE FanClose
    BY <1>0, <1>4 DEF FanClose, FanTypes, Counters
  <1> QED
    BY <1>1, <1>2, <1>3, <1>4 DEF Fan

\* The steps of the two writers keep the types.
LEMMA ConsumersTypeInv == TypeInv /\ Consumers => TypeInv'
  <1> SUFFICES ASSUME TypeInv, Consumers PROVE TypeInv'
    OBVIOUS
  <1> USE DEF consumerUnchanged, streamVars, aggVars, fanVars, sinkVars
  <1>0. TypeOK /\ StreamTypes /\ AggTypes /\ FanTypes /\ SinkTypes /\ Counters /\ InHand
    BY DEF TypeInv, TypeOK
  <1>n. /\ MaxFlows \in Nat /\ MaxLost \in Nat /\ HealthCap \in Nat /\ LostCap \in Nat
        /\ infraDrops \in 0..MaxFlows /\ healthChDrops \in 0..MaxFlows
        /\ accumulated \in 0..MaxFlows /\ healthCh \in 0..HealthCap /\ lostCh \in 0..LostCap
        /\ lostTotal \in 0..MaxLost /\ lostReceived \in 0..MaxLost
        /\ EventCap \in Nat
    BY <1>0, Numbers
  <1>1. CASE WritePolicy
    <2>1. /\ Head(policyCh) \in Event /\ policyCh' \in Seq(Event)
          /\ Len(policyCh') = Len(policyCh) - 1 /\ Len(policyCh) \in Nat
      BY <1>0, <1>1, HeadTailProperties, LenProperties DEF WritePolicy, FanTypes
    <2>2. written' \in Seq(Event)
      BY <1>0, <1>1, <2>1, AppendProperties DEF WritePolicy, SinkTypes
    <2>3. FanTypes' /\ SinkTypes'
      BY <1>0, <1>1, <1>n, <2>1, <2>2 DEF WritePolicy, FanTypes, SinkTypes
    <2>4. StreamTypes' /\ AggTypes' /\ Counters' /\ InHand'
      BY <1>0, <1>1 DEF WritePolicy, StreamTypes, AggTypes, Counters, InHand, GroupCtxDone
    <2> QED
      BY <2>3, <2>4 DEF TypeInv, TypeOK
  <1>2. CASE WriteEvidence
    <2>1. /\ Head(evidenceCh) \in Event /\ evidenceCh' \in Seq(Event)
          /\ Len(evidenceCh') = Len(evidenceCh) - 1 /\ Len(evidenceCh) \in Nat
      BY <1>0, <1>2, HeadTailProperties, LenProperties DEF WriteEvidence, FanTypes
    <2>2. evidenced' \in Seq(Event)
      BY <1>0, <1>2, <2>1, AppendProperties DEF WriteEvidence, SinkTypes
    <2>3. FanTypes' /\ SinkTypes'
      BY <1>0, <1>2, <1>n, <2>1, <2>2 DEF WriteEvidence, FanTypes, SinkTypes
    <2>4. StreamTypes' /\ AggTypes' /\ Counters' /\ InHand'
      BY <1>0, <1>2 DEF WriteEvidence, StreamTypes, AggTypes, Counters, InHand, GroupCtxDone
    <2> QED
      BY <2>3, <2>4 DEF TypeInv, TypeOK
  <1>3. CASE Accumulate
    <2>1. InHand'
      BY <1>0, <1>3, <1>n DEF Accumulate, InHand, GroupCtxDone
    <2>2. StreamTypes' /\ FanTypes' /\ Counters'
      BY <1>0, <1>3 DEF Accumulate, StreamTypes, FanTypes, Counters
    <2>3. AggTypes'
      BY <1>0, <1>3, <1>n DEF Accumulate, AggTypes
    <2>4. accumulated' \in 0..MaxFlows
      BY <1>0, <1>3, <1>n DEF Accumulate, InHand, GroupCtxDone
    <2>5. SinkTypes'
      BY <1>0, <1>3, <2>4 DEF Accumulate, SinkTypes
    <2> QED
      BY <2>1, <2>2, <2>3, <2>5 DEF TypeInv, TypeOK
  <1>4. CASE CountLost
    <2>1. lostTotal' \in 0..MaxLost /\ lostCh' \in 0..LostCap
      BY <1>0, <1>4, <1>n DEF CountLost, Counters
    <2>2. Counters'
      BY <1>0, <1>4, <1>n DEF CountLost, Counters
    <2>3. AggTypes' /\ FanTypes' /\ InHand'
      BY <1>0, <1>4 DEF CountLost, AggTypes, FanTypes, InHand, GroupCtxDone
    <2>4. StreamTypes' /\ SinkTypes'
      BY <1>0, <1>4, <2>1 DEF CountLost, StreamTypes, SinkTypes
    <2> QED
      BY <2>2, <2>3, <2>4 DEF TypeInv, TypeOK
  <1>5. ASSUME NEW stage \in Stages \ {"stage0"}, ConsumerReturns(stage) PROVE TypeInv'
    <2>1. SinkTypes'
      BY <1>0, <1>5 DEF ConsumerReturns, SinkTypes
    <2>2. StreamTypes' /\ AggTypes' /\ FanTypes' /\ Counters' /\ InHand'
      BY <1>0, <1>5 DEF ConsumerReturns, StreamTypes, AggTypes, FanTypes, Counters, InHand, GroupCtxDone
    <2> QED
      BY <2>1, <2>2 DEF TypeInv, TypeOK
  <1> QED
    BY <1>1, <1>2, <1>3, <1>4, <1>5 DEF Consumers

\* Cancellation, stage 0, the group's return and stuttering keep the types.
LEMMA OtherTypeInv == TypeInv /\ (Cancel \/ Stage0 \/ Return \/ UNCHANGED vars) => TypeInv'
  <1> SUFFICES ASSUME TypeInv, Cancel \/ Stage0 \/ Return \/ UNCHANGED vars PROVE TypeInv'
    OBVIOUS
  <1> USE DEF streamVars, aggVars, fanVars, sinkVars
  <1>0. TypeOK /\ StreamTypes /\ AggTypes /\ FanTypes /\ SinkTypes /\ Counters /\ InHand
    BY DEF TypeInv, TypeOK
  <1>1. CASE Cancel
    <2>1. StreamTypes' /\ AggTypes' /\ FanTypes' /\ SinkTypes'
      BY <1>0, <1>1 DEF Cancel, StreamTypes, AggTypes, FanTypes, SinkTypes
    <2>2. Counters' /\ InHand'
      BY <1>0, <1>1 DEF Cancel, Counters, InHand, GroupCtxDone
    <2> QED
      BY <2>1, <2>2 DEF TypeInv, TypeOK
  <1>2. CASE Stage0
    <2>1. StreamTypes' /\ AggTypes' /\ FanTypes' /\ SinkTypes'
      <3>1. AggTypes' /\ FanTypes'
        BY <1>0, <1>2 DEF Stage0, SurfaceError, NoErrorToSurface, AggTypes, FanTypes
      <3>2. StreamTypes'
        BY <1>0, <1>2 DEF Stage0, SurfaceError, NoErrorToSurface, StreamTypes
      <3>3. SinkTypes'
        BY <1>0, <1>2 DEF Stage0, SurfaceError, NoErrorToSurface, SinkTypes, Stages
      <3> QED
        BY <3>1, <3>2, <3>3
    <2>2. Counters' /\ InHand'
      BY <1>0, <1>2 DEF Stage0, SurfaceError, NoErrorToSurface, Counters, InHand, GroupCtxDone
    <2> QED
      BY <2>1, <2>2 DEF TypeInv, TypeOK
  <1>3. CASE Return
    <2>1. StreamTypes' /\ AggTypes' /\ FanTypes' /\ SinkTypes'
      BY <1>0, <1>3 DEF Return, StreamTypes, AggTypes, FanTypes, SinkTypes
    <2>2. Counters' /\ InHand'
      BY <1>0, <1>3 DEF Return, Counters, InHand, GroupCtxDone
    <2> QED
      BY <2>1, <2>2 DEF TypeInv, TypeOK
  <1>4. CASE UNCHANGED vars
    BY <1>0, <1>4 DEF vars, TypeInv, TypeOK, StreamTypes, AggTypes, FanTypes, SinkTypes,
                      Counters, InHand, GroupCtxDone
  <1> QED
    BY <1>1, <1>2, <1>3, <1>4

\* Pipeline: the channels stay within their capacities, and no counter exceeds
\* what the source has produced, for any capacities.
THEOREM TypeCorrect == Spec => []TypeOK
  <1>1. TypeInv /\ [Next]_vars => TypeInv'
    BY StreamTypeInv, AggTypeInv, FanTypeInv, ConsumersTypeInv, OtherTypeInv DEF Next
  <1>2. TypeInv => TypeOK
    BY DEF TypeInv
  <1> QED
    BY InitTypeInv, <1>1, <1>2, PTL DEF Spec

-----------------------------------------------------------------------------
(* The order of the exits.                                                 *)

\* Every step keeps the order in which stages exit and channels close.
LEMMA ClosingStep == TypeInv /\ Closing /\ [Next]_vars => Closing'
  <1> SUFFICES ASSUME TypeInv, Closing, [Next]_vars PROVE Closing'
    OBVIOUS
  <1> USE DEF streamVars, aggVars, fanVars, sinkVars, PolicyClosed, HealthClosed
  <1>0. AggTypes /\ FanTypes /\ SinkTypes
    BY DEF TypeInv, TypeOK
  <1>1. CASE Cancel \/ Stream \/ UNCHANGED vars
    <2>1. UNCHANGED <<fanPc, aggPc, policies, returned, healthCh, result, groupErr, infraDrops>>
      BY <1>1 DEF Cancel, Stream, RecvFlow, RecvLost, SendFlow, SendLost, StreamEof, StreamFails,
                  StreamCancelled, StreamClose, streamUnchanged, vars
    <2> QED
      BY <2>1 DEF Closing
  <1>2. CASE Stage0
    BY <1>0, <1>2 DEF Stage0, SurfaceError, NoErrorToSurface, Closing, Stages
  <1>3. CASE Agg
    <2>1. aggPc # "exited" /\ UNCHANGED <<fanPc, returned, result, groupErr>>
      BY <1>3 DEF Agg, AggExcluded, AggBucket, AggInfra, AggTick, AggEof, AggCancelled,
                  FlushDone, FlushSend, Dequeue, aggUnchanged
    <2>2. ~PolicyClosed /\ "healthDrainer" \notin returned /\ result = "running"
      BY <2>1 DEF Closing
    <2> QED
      BY <2>1, <2>2 DEF Closing
  <1>4. CASE Fan
    <2>1. UNCHANGED <<aggPc, healthCh, returned, result, groupErr, infraDrops>>
      BY <1>4 DEF Fan, FanRecv, FanPolicy, FanEvidence, FanClose, fanUnchanged
    <2>2. fanPc # "exited"
      BY <1>4 DEF Fan, FanRecv, FanPolicy, FanEvidence, FanClose
    <2>3. PolicyClosed' => aggPc' = "exited" /\ policies' = <<>>
      BY <1>4, <2>1 DEF Closing, Fan, FanRecv, FanPolicy, FanEvidence, FanClose
    <2> QED
      BY <2>1, <2>2, <2>3 DEF Closing
  <1>5. CASE WritePolicy \/ WriteEvidence \/ CountLost
    <2>1. UNCHANGED <<fanPc, aggPc, policies, returned, healthCh, result, groupErr, infraDrops>>
      BY <1>5 DEF WritePolicy, WriteEvidence, CountLost, consumerUnchanged
    <2> QED
      BY <2>1 DEF Closing
  <1>6. CASE Accumulate
    <2>1. "healthDrainer" \notin returned
      BY <1>0, <1>6 DEF Accumulate, Closing, AggTypes
    <2> QED
      BY <1>6, <2>1 DEF Accumulate, consumerUnchanged, Closing, Stages
  <1>7. ASSUME NEW stage \in Stages \ {"stage0"}, ConsumerReturns(stage) PROVE Closing'
    <2>1. /\ UNCHANGED <<fanPc, aggPc, policies, healthCh, result, groupErr, infraDrops>>
          /\ stage \notin returned /\ returned' = returned \cup {stage}
      BY <1>7 DEF ConsumerReturns, consumerUnchanged
    <2>2. result = "running"
      BY <2>1 DEF Closing
    <2>3. stage = "healthDrainer" => HealthClosed /\ healthCh = 0
      BY <1>7 DEF ConsumerReturns
    <2> QED
      BY <2>1, <2>2, <2>3 DEF Closing
  <1>8. CASE Return
    BY <1>8 DEF Return, Closing
  <1> QED
    BY <1>1, <1>2, <1>3, <1>4, <1>5, <1>6, <1>7, <1>8 DEF Next, Consumers

\* The stages exit in the order of their channels: no stage of the group is gone
\* while another may still need it.
LEMMA InvariantClosing == Spec => [](TypeInv /\ Closing)
  <1>1. Init => TypeInv /\ Closing
    BY InitTypeInv DEF Init, Closing, PolicyClosed
  <1>2. TypeInv /\ Closing /\ [Next]_vars => (TypeInv /\ Closing)'
    BY StreamTypeInv, AggTypeInv, FanTypeInv, ConsumersTypeInv, OtherTypeInv, ClosingStep DEF Next
  <1> QED
    BY <1>1, <1>2, PTL DEF Spec

\* The fan-out closes healthCh only when the aggregator, which sends on it, has
\* exited: no interleaving sends on a closed channel.
THEOREM NeverSendsOnClosed == Spec => []NoSendOnClosed
  <1>1. TypeInv /\ Closing => NoSendOnClosed
    BY DEF Closing, NoSendOnClosed, HealthClosed, PolicyClosed
  <1> QED
    BY <1>1, InvariantClosing, PTL

\* C1: when RunPipelineWithSource has returned, every infra drop is in the health
\* report or counted as dropped, but for one in hand at a cancellation.
THEOREM HealthIsAccounted == Spec => []HealthAccounted
  <1>1. TypeInv /\ Closing => HealthAccounted
    <2> SUFFICES ASSUME TypeInv, Closing, result # "running" PROVE
          /\ infraDrops - (accumulated + healthChDrops) \in {0, 1}
          /\ ~GroupCtxDone => infraDrops = accumulated + healthChDrops
      BY DEF HealthAccounted
    <2>1. healthCh = 0
      BY DEF Closing, Stages
    <2>2. infraDrops \in Nat /\ accumulated \in Nat /\ healthChDrops \in Nat
      BY Numbers DEF TypeInv
    <2>3. \/ infraDrops = accumulated + 0 + healthChDrops
          \/ infraDrops = accumulated + 0 + healthChDrops + 1 /\ GroupCtxDone
      BY <2>1, Zenon DEF TypeInv, InHand
    <2> QED
      BY <2>2, <2>3
  <1> QED
    BY <1>1, InvariantClosing, PTL

-----------------------------------------------------------------------------
(* One history for both writers.                                           *)

\* Moving the head of a queue to the end of what was taken changes nothing.
LEMMA MoveHead ==
  ASSUME NEW S, NEW s \in Seq(S), NEW t \in Seq(S), t # <<>>
  PROVE  Append(s, Head(t)) \o Tail(t) = s \o t
  <1>1. Head(t) \in S /\ Tail(t) \in Seq(S) /\ Len(Tail(t)) = Len(t) - 1 /\ Head(t) = t[1]
        /\ \A i \in 1..Len(Tail(t)) : Tail(t)[i] = t[i + 1]
    BY HeadTailProperties
  <1>2. /\ Append(s, Head(t)) \in Seq(S) /\ Len(Append(s, Head(t))) = Len(s) + 1
        /\ \A i \in 1..Len(s) : Append(s, Head(t))[i] = s[i]
        /\ Append(s, Head(t))[Len(s) + 1] = Head(t)
    BY <1>1, AppendProperties
  <1>3. Len(s) \in Nat /\ Len(t) \in Nat \ {0}
    BY LenProperties, EmptySeq
  <1> DEFINE a == Append(s, Head(t))
  <1> HIDE DEF a
  <1>4. /\ a \in Seq(S) /\ Len(a) = Len(s) + 1
        /\ \A i \in 1..Len(s) : a[i] = s[i]
        /\ a[Len(s) + 1] = t[1]
    BY <1>1, <1>2 DEF a
  <1>5. /\ a \o Tail(t) \in Seq(S) /\ Len(a \o Tail(t)) = Len(s) + Len(t)
        /\ \A i \in 1..(Len(s) + Len(t)) : (a \o Tail(t))[i] =
              IF i <= Len(s) + 1 THEN a[i] ELSE Tail(t)[i - (Len(s) + 1)]
    <2>1. /\ a \o Tail(t) \in Seq(S) /\ Len(a \o Tail(t)) = Len(a) + Len(Tail(t))
          /\ \A i \in 1..(Len(a) + Len(Tail(t))) : (a \o Tail(t))[i] =
                IF i <= Len(a) THEN a[i] ELSE Tail(t)[i - Len(a)]
      BY <1>1, <1>4, ConcatProperties
    <2>2. Len(a) + Len(Tail(t)) = Len(s) + Len(t)
      BY <1>1, <1>3, <1>4
    <2> QED
      BY <1>4, <2>1, <2>2
  <1>6. /\ s \o t \in Seq(S) /\ Len(s \o t) = Len(s) + Len(t)
        /\ \A i \in 1..(Len(s) + Len(t)) : (s \o t)[i] =
              IF i <= Len(s) THEN s[i] ELSE t[i - Len(s)]
    BY ConcatProperties
  <1>7. ASSUME NEW i \in 1..(Len(s) + Len(t)) PROVE (a \o Tail(t))[i] = (s \o t)[i]
    <2>1. CASE i <= Len(s)
      BY <1>3, <1>4, <1>5, <1>6, <2>1
    <2>2. CASE i = Len(s) + 1
      BY <1>3, <1>4, <1>5, <1>6, <2>2
    <2>3. CASE i > Len(s) + 1
      <3>1. i - (Len(s) + 1) \in 1..Len(Tail(t))
        BY <1>1, <1>3, <2>3
      <3>2. Tail(t)[i - (Len(s) + 1)] = t[i - Len(s)]
        BY <1>1, <1>3, <3>1
      <3> QED
        BY <1>3, <1>5, <1>6, <2>3, <3>2
    <2>4. i <= Len(s) \/ i = Len(s) + 1 \/ i > Len(s) + 1
      BY <1>3
    <2> QED
      BY <2>1, <2>2, <2>3, <2>4
  <1>8. a \o Tail(t) = s \o t
    BY <1>5, <1>6, <1>7, SeqEqual
  <1> QED
    BY <1>8 DEF a

\* Two prefixes of one sequence are prefixes of one another.
LEMMA Prefixes ==
  ASSUME NEW S, NEW a \in Seq(S), NEW b \in Seq(S), NEW c \in Seq(S), NEW d \in Seq(S),
         a \o b = c \o d, Len(a) <= Len(c)
  PROVE  a = SubSeq(c, 1, Len(a))
  <1>1. Len(a) \in Nat /\ Len(b) \in Nat /\ Len(c) \in Nat /\ Len(d) \in Nat
    BY LenProperties
  <1>2. \A i \in 1..Len(a) : a[i] = (a \o b)[i]
    BY <1>1, ConcatProperties
  <1>3. \A i \in 1..Len(c) : c[i] = (c \o d)[i] /\ c[i] \in S
    BY <1>1, ConcatProperties, ElementOfSeq
  <1>4. \A i \in 1..Len(a) : a[i] = c[i] /\ c[i] \in S
    BY <1>1, <1>2, <1>3
  <1>5. /\ SubSeq(c, 1, Len(a)) \in Seq(S)
        /\ Len(SubSeq(c, 1, Len(a))) = Len(a)
        /\ \A i \in 1..Len(a) : SubSeq(c, 1, Len(a))[i] = c[i]
    BY <1>1, <1>4, SubSeqProperties
  <1> QED
    BY <1>4, <1>5, SeqEqual

\* Every step keeps the two writers at the same events, up to the one the fan-out holds.
LEMMA AgreeStep == TypeInv /\ Agree /\ [Next]_vars => Agree'
  <1> SUFFICES ASSUME TypeInv, Agree, [Next]_vars PROVE Agree'
    OBVIOUS
  <1> USE DEF streamVars, aggVars, fanVars, sinkVars
  <1>0. FanTypes /\ SinkTypes /\ Counters
    BY DEF TypeInv, TypeOK
  <1>t. /\ written \in Seq(Event) /\ policyCh \in Seq(Event)
        /\ evidenced \in Seq(Event) /\ evidenceCh \in Seq(Event)
    BY <1>0 DEF FanTypes, SinkTypes
  <1>1. CASE Cancel \/ Stream \/ Stage0 \/ Agg \/ Accumulate \/ CountLost \/ Return \/ UNCHANGED vars
             \/ \E stage \in Stages \ {"stage0"} : ConsumerReturns(stage)
    <2>1. UNCHANGED <<written, policyCh, evidenced, evidenceCh, fanPc, fanEvent>>
      <3>1. CASE Cancel \/ Stream \/ Stage0 \/ Return \/ UNCHANGED vars
        BY <3>1 DEF Cancel, Stream, RecvFlow, RecvLost, SendFlow, SendLost, StreamEof, StreamFails,
                    StreamCancelled, StreamClose, streamUnchanged, Stage0, SurfaceError,
                    NoErrorToSurface, Return, vars
      <3>2. CASE Agg
        BY <3>2 DEF Agg, AggExcluded, AggBucket, AggInfra, AggTick, AggEof, AggCancelled,
                    FlushDone, FlushSend, aggUnchanged
      <3>3. CASE Accumulate \/ CountLost \/ \E stage \in Stages \ {"stage0"} : ConsumerReturns(stage)
        BY <3>3 DEF Accumulate, CountLost, ConsumerReturns, consumerUnchanged
      <3> QED
        BY <1>1, <3>1, <3>2, <3>3
    <2> QED
      BY <2>1 DEF Agree
  <1>2. CASE FanRecv \/ FanClose
    <2>1. UNCHANGED <<written, policyCh, evidenced, evidenceCh>>
      BY <1>2 DEF FanRecv, FanClose, fanUnchanged
    <2>2. fanPc # "evidence" /\ fanPc' # "evidence"
      BY <1>2 DEF FanRecv, FanClose
    <2> QED
      BY <2>1, <2>2 DEF Agree
  <1>3. CASE FanPolicy
    <2>1. fanEvent \in Event
      BY <1>0, <1>3 DEF FanPolicy, Counters
    <2>2. <<fanEvent>> \in Seq(Event) /\ evidenced \o evidenceCh \in Seq(Event)
      BY <1>t, <2>1, ConcatProperties
    <2>3. written \o policyCh = evidenced \o evidenceCh
      BY <1>3, <1>t, <2>2, ConcatEmptySeq DEF FanPolicy, Agree
    <2>4. policyCh' = policyCh \o <<fanEvent>>
      BY <1>3, <1>t, <2>1, AppendIsConcat DEF FanPolicy
    <2>5. written \o policyCh' = (written \o policyCh) \o <<fanEvent>>
      BY <1>t, <2>2, <2>4, ConcatAssociative
    <2> QED
      BY <1>3, <2>3, <2>5 DEF FanPolicy, fanUnchanged, Agree
  <1>4. CASE FanEvidence
    <2>1. fanEvent \in Event
      BY <1>0, <1>4 DEF FanEvidence, Counters
    <2>2. <<fanEvent>> \in Seq(Event)
      BY <2>1
    <2>3. written \o policyCh = (evidenced \o evidenceCh) \o <<fanEvent>>
      BY <1>4 DEF FanEvidence, Agree
    <2>4. evidenceCh' = evidenceCh \o <<fanEvent>>
      BY <1>4, <1>t, <2>1, AppendIsConcat DEF FanEvidence
    <2>5. evidenced \o evidenceCh' = (evidenced \o evidenceCh) \o <<fanEvent>>
      BY <1>t, <2>2, <2>4, ConcatAssociative
    <2>6. evidenced \o evidenceCh' \in Seq(Event)
      BY <1>t, <2>2, <2>4, ConcatProperties
    <2>7. (evidenced \o evidenceCh') \o <<>> = evidenced \o evidenceCh'
      BY <2>6, ConcatEmptySeq
    <2> QED
      BY <1>4, <2>3, <2>5, <2>7 DEF FanEvidence, fanUnchanged, Agree
  <1>5. CASE WritePolicy
    <2>1. written' \o policyCh' = written \o policyCh
      BY <1>5, <1>t, MoveHead DEF WritePolicy
    <2> QED
      BY <1>5, <2>1 DEF WritePolicy, consumerUnchanged, Agree
  <1>6. CASE WriteEvidence
    <2>1. evidenced' \o evidenceCh' = evidenced \o evidenceCh
      BY <1>6, <1>t, MoveHead DEF WriteEvidence
    <2> QED
      BY <1>6, <2>1 DEF WriteEvidence, consumerUnchanged, Agree
  <1> QED
    BY <1>1, <1>2, <1>3, <1>4, <1>5, <1>6 DEF Next, Fan, Consumers

\* The policy writer and the evidence writer see the same events in the same
\* order, whatever the channels and a cancellation do.
THEOREM WritersSeeOneHistory == Spec => []WritersAgree
  <1>1. Init => Agree
    BY DEF Init, Agree
  <1>2. TypeInv /\ Agree /\ [Next]_vars => Agree'
    BY AgreeStep
  <1>3. TypeInv /\ Agree => WritersAgree
    <2> SUFFICES ASSUME TypeInv, Agree PROVE WritersAgree
      OBVIOUS
    <2> DEFINE hand == IF fanPc = "evidence" THEN <<fanEvent>> ELSE <<>>
    <2>1. /\ written \in Seq(Event) /\ policyCh \in Seq(Event)
          /\ evidenced \in Seq(Event) /\ evidenceCh \in Seq(Event)
      BY DEF TypeInv, TypeOK, FanTypes, SinkTypes
    <2>2. hand \in Seq(Event)
      BY EmptySeq DEF TypeInv, Counters
    <2> HIDE DEF hand
    <2>3. evidenceCh \o hand \in Seq(Event)
      BY <2>1, <2>2, ConcatProperties
    <2>4. (evidenced \o evidenceCh) \o hand = evidenced \o (evidenceCh \o hand)
      BY <2>1, <2>2, ConcatAssociative
    <2>5. written \o policyCh = evidenced \o (evidenceCh \o hand)
      BY <2>4 DEF Agree, hand
    <2>6. Len(written) \in Nat /\ Len(evidenced) \in Nat
      BY <2>1, LenProperties
    <2>7. CASE Len(written) <= Len(evidenced)
      <3>1. written = SubSeq(evidenced, 1, Len(written))
        BY <2>1, <2>3, <2>5, <2>7, Prefixes
      <3> QED
        BY <2>7, <3>1 DEF WritersAgree
    <2>8. CASE Len(evidenced) <= Len(written)
      <3>1. evidenced = SubSeq(written, 1, Len(evidenced))
        BY <2>1, <2>3, <2>5, <2>8, Prefixes
      <3> QED
        BY <2>8, <3>1 DEF WritersAgree
    <2> QED
      BY <2>6, <2>7, <2>8
  <1> QED
    BY <1>1, <1>2, <1>3, InvariantClosing, PTL DEF Spec

-----------------------------------------------------------------------------
(* Failures.                                                               *)

\* Every step keeps a transport failure in errCh or in the group's error.
LEMMA ErrorsStep == TypeInv /\ Errors /\ [Next]_vars => Errors'
  <1> SUFFICES ASSUME TypeInv, Errors, [Next]_vars PROVE Errors'
    OBVIOUS
  <1> USE DEF streamVars, aggVars, fanVars, sinkVars, ErrClosed
  <1>0. StreamTypes /\ SinkTypes
    BY DEF TypeInv, TypeOK
  <1>1. CASE RecvFlow \/ RecvLost \/ SendFlow \/ SendLost
    <2>1. /\ streamPc \in {"recv", "send", "sendLost"} /\ streamPc' \in {"recv", "send", "sendLost"}
          /\ UNCHANGED <<source, ended, errCh, groupErr, returned>>
      BY <1>1 DEF RecvFlow, RecvLost, SendFlow, SendLost, streamUnchanged
    <2> QED
      BY <2>1 DEF Errors
  <1>2. CASE StreamEof \/ StreamFails \/ StreamCancelled
    <2>1. /\ streamPc \in {"recv", "send", "sendLost"} /\ streamPc' = FirstClose
          /\ UNCHANGED <<source, groupErr, returned>>
          /\ ended' \in {"eof", "error", "cancelled"}
          /\ errCh' = IF ended' = "error" /\ source = "live" THEN "error" ELSE errCh
      BY <1>2 DEF StreamEof, StreamFails, StreamCancelled, streamUnchanged
    <2>2. errCh = "empty" /\ ~groupErr /\ (source = "live" => "stage0" \notin returned)
      BY <1>0, <2>1 DEF Errors, StreamTypes
    <2>3. streamPc' \in {"closeErr", "closeFlows"}
      BY <2>1 DEF FirstClose
    <2> QED
      BY <2>1, <2>2, <2>3 DEF Errors
  <1>3. CASE StreamClose
    BY <1>3 DEF StreamClose, streamUnchanged, Errors
  <1>4. CASE SurfaceError
    BY <1>0, <1>4 DEF SurfaceError, Errors, StreamTypes
  <1>5. CASE NoErrorToSurface
    BY <1>5 DEF NoErrorToSurface, Errors
  <1>6. CASE Cancel \/ Agg \/ Fan \/ Return \/ UNCHANGED vars
    <2>1. UNCHANGED <<source, streamPc, ended, errCh, groupErr, returned>>
      <3>1. CASE Cancel \/ Fan \/ Return \/ UNCHANGED vars
        BY <3>1 DEF Cancel, Fan, FanRecv, FanPolicy, FanEvidence, FanClose, fanUnchanged, Return, vars
      <3>2. CASE Agg
        BY <3>2 DEF Agg, AggExcluded, AggBucket, AggInfra, AggTick, AggEof, AggCancelled,
                    FlushDone, FlushSend, aggUnchanged
      <3> QED
        BY <1>6, <3>1, <3>2
    <2> QED
      BY <2>1 DEF Errors
  <1>7. CASE Consumers
    <2>1. /\ UNCHANGED <<source, streamPc, ended, errCh, groupErr>>
          /\ "stage0" \in returned' <=> "stage0" \in returned
      BY <1>7 DEF Consumers, WritePolicy, WriteEvidence, Accumulate, CountLost, ConsumerReturns,
                  consumerUnchanged
    <2> QED
      BY <2>1 DEF Errors
  <1> QED
    BY <1>1, <1>2, <1>3, <1>4, <1>5, <1>6, <1>7 DEF Next, Stream, Stage0

\* Without a cancellation every step keeps a flow in the channels until it is counted.
LEMMA DrainedStep == TypeInv /\ Drained /\ [Next]_vars => Drained'
  <1> SUFFICES ASSUME TypeInv, Drained, [Next]_vars PROVE Drained'
    OBVIOUS
  <1> USE DEF streamVars, aggVars, fanVars, sinkVars, GroupCtxDone, FlowsClosed
  <1>0. StreamTypes /\ Counters
    BY DEF TypeInv, TypeOK
  <1>n. /\ Len(received) \in Nat /\ Len(flows) \in Nat /\ infraDrops \in Nat
        /\ received \in Seq(Kinds) /\ flows \in Seq(1..MaxFlows)
    BY Numbers DEF TypeInv, TypeOK, StreamTypes
  <1>1. CASE RecvFlow
    <2>1. PICK kind \in Kinds : received' = Append(received, kind)
      BY <1>1 DEF RecvFlow
    <2>2. /\ Len(received') = Len(received) + 1
          /\ \A f \in 1..Len(received) : received'[f] = received[f]
      BY <1>n, <2>1, AppendProperties
    <2>3. /\ streamPc = "recv" /\ streamPc' = "send"
          /\ UNCHANGED <<flows, infraDrops, ctxDone, aggPc, groupErr>>
      BY <1>1 DEF RecvFlow, streamUnchanged
    <2> QED
      BY <1>n, <2>2, <2>3 DEF Drained
  <1>2. CASE SendFlow
    <2>1. /\ streamPc = "send" /\ streamPc' = "recv" /\ flows' = Append(flows, Len(received))
          /\ UNCHANGED <<received, infraDrops, ctxDone, aggPc, groupErr>>
      BY <1>2 DEF SendFlow, streamUnchanged
    <2>2. Len(received) \in 1..MaxFlows
      BY <1>0, <1>n, <2>1 DEF Counters, StreamTypes, TypeInv, TypeOK, AggTypes
    <2>3. /\ Len(flows') = Len(flows) + 1
          /\ \A i \in 1..Len(flows) : flows'[i] = flows[i]
          /\ flows'[Len(flows) + 1] = Len(received)
      BY <1>n, <2>1, <2>2, AppendProperties
    <2>4. ASSUME infraDrops' = 0, ~ctxDone', NEW f \in 1..Len(received'), received'[f] = "infra"
          PROVE  \E i \in 1..Len(flows') : flows'[i] = f
      <3>1. \/ \E i \in 1..Len(flows) : flows[i] = f
            \/ f = Len(received)
        BY <2>1, <2>4 DEF Drained
      <3> QED
        BY <1>n, <2>3, <3>1
    <2>5. aggPc' \in {"lastFlush", "exited"} => GroupCtxDone'
      BY <2>1 DEF Drained
    <2> QED
      BY <2>4, <2>5 DEF Drained
  <1>3. CASE RecvLost \/ SendLost \/ StreamEof \/ StreamFails \/ StreamCancelled \/ StreamClose
    <2>1. /\ UNCHANGED <<received, flows, infraDrops, ctxDone, aggPc, groupErr>>
          /\ streamPc # "closed"
          /\ streamPc = "send" => ctxDone
      BY <1>3 DEF RecvLost, SendLost, StreamEof, StreamFails, StreamCancelled, StreamClose,
                  streamUnchanged
    <2> QED
      BY <2>1 DEF Drained
  <1>4. CASE Cancel \/ Stage0 \/ Fan \/ Consumers \/ Return \/ UNCHANGED vars
    <2>1. /\ UNCHANGED <<received, flows, infraDrops, aggPc, streamPc>>
          /\ (ctxDone => ctxDone') /\ (groupErr => groupErr')
      <3>1. CASE Cancel \/ Stage0
        BY <3>1 DEF Cancel, Stage0, SurfaceError, NoErrorToSurface
      <3>2. CASE Fan \/ Return \/ UNCHANGED vars
        BY <3>2 DEF Fan, FanRecv, FanPolicy, FanEvidence, FanClose, fanUnchanged, Return, vars
      <3>3. CASE WritePolicy \/ WriteEvidence \/ Accumulate \/ CountLost
        BY <3>3 DEF WritePolicy, WriteEvidence, Accumulate, CountLost, consumerUnchanged
      <3>4. CASE \E stage \in Stages \ {"stage0"} : ConsumerReturns(stage)
        BY <3>4 DEF ConsumerReturns, consumerUnchanged
      <3> QED
        BY <1>4, <3>1, <3>2, <3>3, <3>4 DEF Consumers
    <2> QED
      BY <2>1 DEF Drained
  <1>5. CASE AggExcluded \/ AggBucket
    <2>1. /\ aggPc = "run" /\ flows # <<>> /\ flows' = Tail(flows)
          /\ received[Head(flows)] # "infra"
          /\ UNCHANGED <<received, infraDrops, ctxDone, aggPc, groupErr, streamPc>>
      BY <1>5, BoundsAssumption DEF AggExcluded, AggBucket, Dequeue, aggUnchanged
    <2>2. /\ Len(flows') = Len(flows) - 1 /\ Head(flows) = flows[1]
          /\ \A i \in 1..Len(flows') : flows'[i] = flows[i + 1]
      BY <1>n, <2>1, HeadTailProperties
    <2>3. ASSUME NEW f, NEW i \in 1..Len(flows), flows[i] = f, f # Head(flows)
          PROVE  \E j \in 1..Len(flows') : flows'[j] = f
      <3>1. i - 1 \in 1..Len(flows')
        BY <1>n, <2>2, <2>3
      <3>2. flows'[i - 1] = f
        BY <1>n, <2>2, <2>3, <3>1
      <3> QED
        BY <3>1, <3>2
    <2> QED
      BY <2>1, <2>3 DEF Drained
  <1>6. CASE AggInfra
    <2>1. /\ infraDrops' # 0 /\ aggPc = "run" /\ UNCHANGED <<ctxDone, groupErr>>
          /\ aggPc' = "run" \/ GroupCtxDone
      BY <1>6, <1>n DEF AggInfra, Dequeue, aggUnchanged
    <2> QED
      BY <2>1 DEF Drained
  <1>7. CASE AggTick \/ AggEof \/ AggCancelled \/ FlushDone \/ \E w \in Workloads : FlushSend(w)
    <2>1. UNCHANGED <<received, flows, infraDrops, ctxDone, groupErr, streamPc>>
      BY <1>7 DEF AggTick, AggEof, AggCancelled, FlushDone, FlushSend, aggUnchanged
    <2>2. aggPc' \in {"lastFlush", "exited"} =>
            aggPc \in {"lastFlush", "exited"} \/ GroupCtxDone \/ (flows = <<>> /\ FlowsClosed)
      BY <1>7 DEF AggTick, AggEof, AggCancelled, FlushDone, FlushSend, aggUnchanged
    <2> QED
      BY <2>1, <2>2 DEF Drained
  <1> QED
    BY <1>1, <1>2, <1>3, <1>4, <1>5, <1>6, <1>7 DEF Next, Stream, Agg

\* Stage 0 and EXIT-01: the run returns an error exactly when the live stream
\* failed, and after a clean end an infra drop that was received sets the exit
\* code that was asked for.
THEOREM FailureIsSurfaced == Spec => []FailureSurfaced
  <1>1. Init => Errors /\ Drained
    BY EmptySeq DEF Init, Errors, Drained, ErrClosed
  <1>2. TypeInv /\ Errors /\ Drained /\ [Next]_vars => (Errors /\ Drained)'
    BY ErrorsStep, DrainedStep
  <1>3. TypeInv /\ Closing /\ Errors /\ Drained => FailureSurfaced
    <2> SUFFICES ASSUME TypeInv, Closing, Errors, Drained, result # "running"
                 PROVE  /\ result = "error" <=> source = "live" /\ ended = "error"
                        /\ result = "ok" /\ FailOnInfraDrops /\ ended = "eof" /\ ~ctxDone =>
                               "infra" \notin {received[f] : f \in DOMAIN received}
      BY DEF FailureSurfaced
    <2>1. /\ aggPc = "exited" /\ returned = Stages
          /\ result = IF groupErr THEN "error"
                      ELSE IF FailOnInfraDrops /\ infraDrops > 0 THEN "infraDrops" ELSE "ok"
      BY DEF Closing
    <2>2. result = "error" <=> source = "live" /\ ended = "error"
      <3>1. result = "error" <=> groupErr
        BY <2>1
      <3>2. source = "live" => errCh = "empty"
        BY <2>1 DEF Errors, Stages
      <3> QED
        BY <3>1, <3>2 DEF Errors
    <2>3. ASSUME result = "ok", FailOnInfraDrops, ended = "eof", ~ctxDone,
                 NEW f \in DOMAIN received, received[f] = "infra"
          PROVE  FALSE
      <3>1. ~groupErr /\ ~(infraDrops > 0)
        BY <2>1, <2>3
      <3>2. infraDrops \in Nat /\ received \in Seq(Kinds)
        BY Numbers DEF TypeInv, TypeOK, StreamTypes
      <3>3. f \in 1..Len(received)
        BY <2>3, <3>2, LenProperties
      <3>4. infraDrops = 0
        BY <3>1, <3>2
      <3>5. flows = <<>> /\ streamPc = "closed"
        BY <2>1, <2>3, <3>1 DEF Drained, GroupCtxDone, FlowsClosed
      <3> QED
        BY <2>3, <3>3, <3>4, <3>5, EmptySeq DEF Drained
    <2> QED
      BY <2>2, <2>3
  <1> QED
    BY <1>1, <1>2, <1>3, InvariantClosing, PTL DEF Spec

-----------------------------------------------------------------------------
(* Conservation of flows.  All(e, b) are the flows of the events e and the *)
(* buckets b; Tally says that they are counted by n, each of them once and *)
(* under its own workload, and that they are among the flows past.         *)

Carried(e) == UNION {e[i].flows : i \in 1..Len(e)}

Held(b) == UNION {b[w] : w \in Workloads}

All(e, b) == Carried(e) \cup Held(b)

Tally(e, b, kind, n, past) ==
    /\ \A i, j \in 1..Len(e) : i # j => \A f \in e[i].flows : f \notin e[j].flows
    /\ \A i \in 1..Len(e) : \A f \in e[i].flows : f \in past /\ kind[f] = e[i].workload
    /\ \A w \in Workloads : \A f \in b[w] : f \in past /\ kind[f] = w
    /\ \A i \in 1..Len(e) : \A w \in Workloads : \A f \in b[w] : f \notin e[i].flows
    /\ IsFiniteSet(All(e, b)) /\ n = Cardinality(All(e, b))

\* A flow of the events handed on or of the buckets.
LEMMA AllMember ==
  ASSUME NEW e, NEW b, NEW f
  PROVE  f \in All(e, b) <=> \/ \E i \in 1..Len(e) : f \in e[i].flows
                             \/ \E w \in Workloads : f \in b[w]
  <1>1. ASSUME NEW i \in 1..Len(e), f \in e[i].flows PROVE f \in All(e, b)
    <2>1. e[i].flows \in {e[j].flows : j \in 1..Len(e)}
      OBVIOUS
    <2>2. f \in Carried(e)
      BY <1>1, <2>1, Zenon DEF Carried
    <2> QED
      BY <2>2, Zenon DEF All
  <1>2. ASSUME NEW w \in Workloads, f \in b[w] PROVE f \in All(e, b)
    <2>1. b[w] \in {b[v] : v \in Workloads}
      OBVIOUS
    <2>2. f \in Held(b)
      BY <1>2, <2>1, Zenon DEF Held
    <2> QED
      BY <2>2, Zenon DEF All
  <1>3. ASSUME f \in All(e, b)
        PROVE  \/ \E i \in 1..Len(e) : f \in e[i].flows
               \/ \E w \in Workloads : f \in b[w]
    <2>1. CASE f \in Carried(e)
      <3>1. PICK s \in {e[j].flows : j \in 1..Len(e)} : f \in s
        BY <2>1, Zenon DEF Carried
      <3> QED
        BY <3>1, Zenon
    <2>2. CASE f \in Held(b)
      <3>1. PICK s \in {b[v] : v \in Workloads} : f \in s
        BY <2>2, Zenon DEF Held
      <3> QED
        BY <3>1, Zenon
    <2> QED
      BY <1>3, <2>1, <2>2, Zenon DEF All
  <1> QED
    BY <1>1, <1>2, <1>3, Zenon

\* More flows may be past, and more may be known.
LEMMA TallyLater ==
  ASSUME NEW e, NEW b, NEW kind, NEW kind2, NEW n, NEW past, NEW past2,
         Tally(e, b, kind, n, past), past \subseteq past2, \A f \in past : kind2[f] = kind[f]
  PROVE  Tally(e, b, kind2, n, past2)
  BY DEF Tally

\* A flow that was not past enters the bucket of its workload.
LEMMA TallyBucket ==
  ASSUME NEW e, NEW kind, NEW n, NEW past, NEW past2, NEW g,
         NEW b \in [Workloads -> SUBSET (1..MaxFlows)],
         Tally(e, b, kind, n, past), past \subseteq past2,
         g \in past2, g \notin past, kind[g] \in Workloads
  PROVE  Tally(e, [b EXCEPT ![kind[g]] = @ \cup {g}], kind, n + 1, past2)
  <1> DEFINE b2 == [b EXCEPT ![kind[g]] = @ \cup {g}]
  <1>1. \A w \in Workloads : b2[w] = IF w = kind[g] THEN b[w] \cup {g} ELSE b[w]
    OBVIOUS
  <1> HIDE DEF b2
  <1>t. /\ \A i, j \in 1..Len(e) : i # j => \A f \in e[i].flows : f \notin e[j].flows
        /\ \A i \in 1..Len(e) : \A f \in e[i].flows : f \in past /\ kind[f] = e[i].workload
        /\ \A w \in Workloads : \A f \in b[w] : f \in past /\ kind[f] = w
        /\ \A i \in 1..Len(e) : \A w \in Workloads : \A f \in b[w] : f \notin e[i].flows
        /\ IsFiniteSet(All(e, b)) /\ n = Cardinality(All(e, b))
    BY DEF Tally
  <1>2. g \notin All(e, b)
    BY <1>t, AllMember, Zenon
  <1>3. All(e, b2) = All(e, b) \cup {g}
    <2>1. ASSUME NEW f, f \in All(e, b2) PROVE f \in All(e, b) \cup {g}
      <3>1. CASE \E i \in 1..Len(e) : f \in e[i].flows
        BY <3>1, AllMember, Zenon
      <3>2. ASSUME NEW w \in Workloads, f \in b2[w] PROVE f \in All(e, b) \cup {g}
        <4>1. f \in b[w] \/ f = g
          BY <1>1, <3>2
        <4> QED
          BY <4>1, AllMember, Zenon
      <3> QED
        BY <2>1, <3>1, <3>2, AllMember, Zenon
    <2>2. ASSUME NEW f, f \in All(e, b) PROVE f \in All(e, b2)
      <3>1. CASE \E i \in 1..Len(e) : f \in e[i].flows
        BY <3>1, AllMember, Zenon
      <3>2. ASSUME NEW w \in Workloads, f \in b[w] PROVE f \in All(e, b2)
        <4>1. f \in b2[w]
          BY <1>1, <3>2
        <4> QED
          BY <4>1, AllMember, Zenon
      <3> QED
        BY <2>2, <3>1, <3>2, AllMember, Zenon
    <2>3. g \in All(e, b2)
      <3>1. g \in b2[kind[g]]
        BY <1>1
      <3> QED
        BY <3>1, AllMember, Zenon
    <2> QED
      BY <2>1, <2>2, <2>3, Zenon
  <1>4. IsFiniteSet(All(e, b2)) /\ n + 1 = Cardinality(All(e, b2))
    BY <1>t, <1>2, <1>3, FS_AddElement
  <1>5. \A i \in 1..Len(e) : \A w \in Workloads : \A f \in b2[w] : f \notin e[i].flows
    <2> SUFFICES ASSUME NEW i \in 1..Len(e), NEW w \in Workloads, NEW f \in b2[w]
                 PROVE  f \notin e[i].flows
      BY Zenon
    <2>1. f \in b[w] \/ f = g
      BY <1>1
    <2>2. g \notin e[i].flows
      BY <1>t, Zenon
    <2> QED
      BY <1>t, <2>1, <2>2, Zenon
  <1>6. \A w \in Workloads : \A f \in b2[w] : f \in past2 /\ kind[f] = w
    <2> SUFFICES ASSUME NEW w \in Workloads, NEW f \in b2[w] PROVE f \in past2 /\ kind[f] = w
      BY Zenon
    <2>1. CASE f \in b[w]
      BY <1>t, <2>1, Zenon
    <2>2. CASE f \notin b[w]
      <3>1. w = kind[g]
        BY <1>1, <2>2
      <3>2. f = g
        BY <1>1, <2>2
      <3> QED
        BY <3>1, <3>2, Zenon
    <2> QED
      BY <2>1, <2>2
  <1>7. \A i \in 1..Len(e) : \A f \in e[i].flows : f \in past2 /\ kind[f] = e[i].workload
    BY <1>t
  <1>8. Tally(e, b2, kind, n + 1, past2)
    BY <1>t, <1>4, <1>5, <1>6, <1>7 DEF Tally
  <1> QED
    BY <1>8 DEF b2

\* A bucket becomes an event.
LEMMA TallyFlush ==
  ASSUME NEW e \in Seq(Event), NEW kind, NEW n, NEW past, NEW w \in Workloads,
         NEW b \in [Workloads -> SUBSET (1..MaxFlows)],
         Tally(e, b, kind, n, past)
  PROVE  Tally(Append(e, [workload |-> w, flows |-> b[w]]), [b EXCEPT ![w] = {}], kind, n, past)
  <1> DEFINE ev == [workload |-> w, flows |-> b[w]]
             e2 == Append(e, ev)
             b2 == [b EXCEPT ![w] = {}]
  <1>1. ev \in Event /\ ev.flows = b[w] /\ ev.workload = w
    BY DEF Event
  <1>2. \A v \in Workloads : b2[v] = IF v = w THEN {} ELSE b[v]
    OBVIOUS
  <1> HIDE DEF ev, b2
  <1>3. /\ Len(e2) = Len(e) + 1 /\ Len(e) \in Nat
        /\ \A i \in 1..Len(e) : e2[i] = e[i]
        /\ e2[Len(e) + 1] = ev
    BY <1>1, AppendProperties, LenProperties
  <1> HIDE DEF e2
  <1>4. \A i \in 1..Len(e2) : i \in 1..Len(e) \/ i = Len(e) + 1
    BY <1>3
  <1>5. 1..Len(e) \subseteq 1..Len(e2) /\ Len(e) + 1 \in 1..Len(e2) /\ Len(e) + 1 \notin 1..Len(e)
    BY <1>3
  <1>t. /\ \A i, j \in 1..Len(e) : i # j => \A f \in e[i].flows : f \notin e[j].flows
        /\ \A i \in 1..Len(e) : \A f \in e[i].flows : f \in past /\ kind[f] = e[i].workload
        /\ \A v \in Workloads : \A f \in b[v] : f \in past /\ kind[f] = v
        /\ \A i \in 1..Len(e) : \A v \in Workloads : \A f \in b[v] : f \notin e[i].flows
        /\ IsFiniteSet(All(e, b)) /\ n = Cardinality(All(e, b))
    BY DEF Tally
  <1>6. \A i, j \in 1..Len(e2) : i # j => \A f \in e2[i].flows : f \notin e2[j].flows
    BY <1>1, <1>3, <1>4, <1>t
  <1>7. \A i \in 1..Len(e2) : \A f \in e2[i].flows : f \in past /\ kind[f] = e2[i].workload
    BY <1>1, <1>3, <1>4, <1>t
  <1>8. \A v \in Workloads : \A f \in b2[v] : f \in past /\ kind[f] = v
    BY <1>2, <1>t
  <1>9. \A i \in 1..Len(e2) : \A v \in Workloads : \A f \in b2[v] : f \notin e2[i].flows
    BY <1>1, <1>2, <1>3, <1>4, <1>t
  <1>10. All(e2, b2) = All(e, b)
    <2>1. ASSUME NEW f, f \in All(e2, b2) PROVE f \in All(e, b)
      <3>1. ASSUME NEW i \in 1..Len(e2), f \in e2[i].flows PROVE f \in All(e, b)
        <4>1. (i \in 1..Len(e) /\ f \in e[i].flows) \/ f \in b[w]
          BY <1>1, <1>3, <1>4, <3>1
        <4> QED
          BY <4>1, AllMember, Zenon
      <3>2. ASSUME NEW v \in Workloads, f \in b2[v] PROVE f \in All(e, b)
        <4>1. f \in b[v]
          BY <1>2, <3>2
        <4> QED
          BY <4>1, AllMember, Zenon
      <3> QED
        BY <2>1, <3>1, <3>2, AllMember, Zenon
    <2>2. ASSUME NEW f, f \in All(e, b) PROVE f \in All(e2, b2)
      <3>1. ASSUME NEW i \in 1..Len(e), f \in e[i].flows PROVE f \in All(e2, b2)
        <4>1. i \in 1..Len(e2) /\ f \in e2[i].flows
          BY <1>3, <1>5, <3>1
        <4> QED
          BY <4>1, AllMember, Zenon
      <3>2. ASSUME NEW v \in Workloads, f \in b[v] PROVE f \in All(e2, b2)
        <4>1. f \in e2[Len(e) + 1].flows \/ f \in b2[v]
          BY <1>1, <1>2, <1>3, <3>2
        <4> QED
          BY <1>5, <4>1, AllMember, Zenon
      <3> QED
        BY <2>2, <3>1, <3>2, AllMember, Zenon
    <2> QED
      BY <2>1, <2>2, Zenon
  <1>11. Tally(e2, b2, kind, n, past)
    BY <1>t, <1>6, <1>7, <1>8, <1>9, <1>10, Zenon DEF Tally
  <1> QED
    BY <1>11 DEF e2, ev, b2

\* The flows in the channel and the one in the stream's hand are distinct.
Queue ==
    /\ \A i, j \in 1..Len(flows) : i # j => flows[i] # flows[j]
    /\ streamPc = "send" => \A i \in 1..Len(flows) : flows[i] # Len(received)

\* The flows that have left the stream and its channel.
Past == {f \in 1..Len(received) : /\ \A i \in 1..Len(flows) : flows[i] # f
                                  /\ ~(streamPc = "send" /\ f = Len(received))}

\* What is past stays past, and a flow keeps its kind.
Onward == Past \subseteq Past' /\ \A f \in Past : received'[f] = received[f]

\* What is in the channel was received.
LEMMA FlowsReceived ==
  ASSUME TypeInv
  PROVE  \A i \in 1..Len(flows) : flows[i] \in 1..Len(received)
  <1>1. TypeOK /\ Counters
    BY DEF TypeInv
  <1>2. \A i \in 1..Len(flows) : flows[i] \in 1..MaxFlows
    BY <1>1, Numbers
  <1>3. \A i \in 1..Len(flows) : flows[i] <= Len(received)
    BY <1>1 DEF Counters
  <1>4. Len(received) \in Nat /\ MaxFlows \in Nat
    BY <1>1, Numbers
  <1> QED
    BY <1>2, <1>3, <1>4

\* Dequeue: the head of the channel is past from then on.
LEMMA DequeueStep ==
  ASSUME TypeInv, Queue, flows # <<>>, flows' = Tail(flows), UNCHANGED <<received, streamPc>>
  PROVE  Queue' /\ Onward /\ Head(flows) \in Past' /\ Head(flows) \notin Past
  <1>n. /\ Len(received) \in Nat /\ Len(flows) \in Nat
        /\ received \in Seq(Kinds) /\ flows \in Seq(1..MaxFlows)
    BY Numbers DEF TypeInv, TypeOK, StreamTypes
  <1>1. /\ Len(flows') = Len(flows) - 1 /\ Head(flows) = flows[1]
        /\ \A i \in 1..Len(flows') : flows'[i] = flows[i + 1]
    BY <1>n, HeadTailProperties
  <1>2. Len(flows) >= 1
    BY <1>n, EmptySeq
  <1>3. flows[1] \in 1..Len(received)
    BY <1>n, <1>2, FlowsReceived
  <1>4. \A i \in 1..Len(flows') : i + 1 \in 1..Len(flows) /\ i + 1 # 1
    BY <1>n, <1>1
  <1>5. Queue'
    BY <1>1, <1>4 DEF Queue
  <1>6. Onward
    BY <1>1, <1>4 DEF Onward, Past
  <1>7. \A i \in 1..Len(flows') : flows'[i] # flows[1]
    BY <1>1, <1>2, <1>4, <1>n DEF Queue
  <1>8. ~(streamPc = "send" /\ flows[1] = Len(received))
    BY <1>2, <1>n DEF Queue
  <1>9. flows[1] \in Past'
    BY <1>3, <1>7, <1>8 DEF Past
  <1>10. flows[1] \notin Past
    BY <1>2, <1>n DEF Past
  <1> QED
    BY <1>1, <1>5, <1>6, <1>9, <1>10

\* Every step keeps the flows of the channel distinct, and what is past stays past.
LEMMA QueueStep == TypeInv /\ Queue /\ [Next]_vars => Queue' /\ Onward
  <1> SUFFICES ASSUME TypeInv, Queue, [Next]_vars PROVE Queue' /\ Onward
    OBVIOUS
  <1> USE DEF streamVars, aggVars, fanVars, sinkVars
  <1>n. /\ Len(received) \in Nat /\ Len(flows) \in Nat
        /\ received \in Seq(Kinds) /\ flows \in Seq(1..MaxFlows)
        /\ \A i \in 1..Len(flows) : flows[i] \in 1..Len(received)
    BY Numbers, FlowsReceived DEF TypeInv, TypeOK, StreamTypes
  <1>1. CASE RecvFlow
    <2>1. PICK kind \in Kinds : received' = Append(received, kind)
      BY <1>1 DEF RecvFlow
    <2>2. /\ Len(received') = Len(received) + 1
          /\ \A f \in 1..Len(received) : received'[f] = received[f]
      BY <1>n, <2>1, AppendProperties
    <2>3. streamPc = "recv" /\ streamPc' = "send" /\ UNCHANGED flows
      BY <1>1 DEF RecvFlow
    <2>4. Queue'
      BY <1>n, <2>2, <2>3 DEF Queue
    <2>5. Onward
      BY <1>n, <2>2, <2>3 DEF Onward, Past
    <2> QED
      BY <2>4, <2>5
  <1>2. CASE SendFlow
    <2>1. /\ streamPc = "send" /\ streamPc' = "recv" /\ flows' = Append(flows, Len(received))
          /\ UNCHANGED received
      BY <1>2 DEF SendFlow
    <2>2. Len(received) \in 1..MaxFlows
      BY <1>n, <2>1, Numbers DEF Counters, StreamTypes, TypeInv, TypeOK, AggTypes
    <2>3. /\ Len(flows') = Len(flows) + 1
          /\ \A i \in 1..Len(flows) : flows'[i] = flows[i]
          /\ flows'[Len(flows) + 1] = Len(received)
      BY <1>n, <2>1, <2>2, AppendProperties
    <2>4. \A i \in 1..Len(flows') : i \in 1..Len(flows) \/ i = Len(flows) + 1
      BY <1>n, <2>3
    <2>5. Queue'
      BY <1>n, <2>1, <2>3, <2>4 DEF Queue
    <2>6. Onward
      BY <1>n, <2>1, <2>3, <2>4 DEF Onward, Past
    <2> QED
      BY <2>5, <2>6
  <1>3. CASE RecvLost \/ SendLost \/ StreamEof \/ StreamFails \/ StreamCancelled \/ StreamClose
    <2>1. UNCHANGED <<received, flows>> /\ streamPc' # "send"
      BY <1>3 DEF RecvLost, SendLost, StreamEof, StreamFails, StreamCancelled, StreamClose,
                  FirstClose
    <2> QED
      BY <2>1 DEF Queue, Onward, Past
  <1>4. CASE Cancel \/ Stage0 \/ Fan \/ Consumers \/ Return \/ UNCHANGED vars
    <2>1. UNCHANGED <<received, flows, streamPc>>
      <3>1. CASE Cancel \/ Stage0
        BY <3>1 DEF Cancel, Stage0, SurfaceError, NoErrorToSurface
      <3>2. CASE Fan \/ Return \/ UNCHANGED vars
        BY <3>2 DEF Fan, FanRecv, FanPolicy, FanEvidence, FanClose, fanUnchanged, Return, vars
      <3>3. CASE WritePolicy \/ WriteEvidence \/ Accumulate \/ CountLost
        BY <3>3 DEF WritePolicy, WriteEvidence, Accumulate, CountLost, consumerUnchanged
      <3>4. CASE \E stage \in Stages \ {"stage0"} : ConsumerReturns(stage)
        BY <3>4 DEF ConsumerReturns, consumerUnchanged
      <3> QED
        BY <1>4, <3>1, <3>2, <3>3, <3>4 DEF Consumers
    <2> QED
      BY <2>1 DEF Queue, Onward, Past
  <1>5. CASE AggExcluded \/ AggBucket \/ AggInfra
    <2>1. flows # <<>> /\ flows' = Tail(flows) /\ UNCHANGED <<received, streamPc>>
      BY <1>5 DEF AggExcluded, AggBucket, AggInfra, Dequeue, aggUnchanged
    <2> QED
      BY <2>1, DequeueStep
  <1>6. CASE AggTick \/ AggEof \/ AggCancelled \/ FlushDone \/ \E w \in Workloads : FlushSend(w)
    <2>1. UNCHANGED <<received, flows, streamPc>>
      BY <1>6 DEF AggTick, AggEof, AggCancelled, FlushDone, FlushSend, aggUnchanged
    <2> QED
      BY <2>1 DEF Queue, Onward, Past
  <1> QED
    BY <1>1, <1>2, <1>3, <1>4, <1>5, <1>6 DEF Next, Stream, Agg

\* What the policy writer has had or will get, in order.
Handed == HandedTo(written, policyCh, {"policy"})

\* It grows by the event a flush sends, and is moved along by every other step.
LEMMA HandedStep ==
  ASSUME TypeInv, [Next]_vars
  PROVE  /\ Handed \in Seq(Event)
         /\ \/ Handed' = Handed /\ \A w \in Workloads : ~FlushSend(w)
            \/ \E w \in Workloads :
                 /\ FlushSend(w)
                 /\ Handed' = Append(Handed, [workload |-> w, flows |-> buckets[w]])
  <1> USE DEF streamVars, aggVars, fanVars, sinkVars
  <1> DEFINE done == written \o policyCh
             hand == IF fanPc = "policy" THEN <<fanEvent>> ELSE <<>>
  <1>0. FanTypes /\ SinkTypes /\ Counters /\ AggTypes
    BY DEF TypeInv, TypeOK
  <1>1. written \in Seq(Event) /\ policyCh \in Seq(Event) /\ policies \in Seq(Event)
    BY <1>0 DEF FanTypes, SinkTypes
  <1>2. hand \in Seq(Event)
    BY <1>0, EmptySeq DEF Counters
  <1>3. done \in Seq(Event) /\ done \o hand \in Seq(Event) /\ (done \o hand) \o policies \in Seq(Event)
    BY <1>1, <1>2, ConcatProperties
  <1>4. Handed = (done \o hand) \o policies
    BY DEF Handed, HandedTo
  <1>5. Handed' = (done' \o hand') \o policies'
    BY DEF Handed, HandedTo
  <1> HIDE DEF hand
  <1>6. CASE \E w \in Workloads : FlushSend(w)
    <2>1. PICK w \in Workloads : FlushSend(w)
      BY <1>6
    <2> DEFINE ev == [workload |-> w, flows |-> buckets[w]]
    <2>2. policies' = Append(policies, ev)
      BY <2>1 DEF FlushSend
    <2>3. ev \in Event
      BY <1>0 DEF Event, AggTypes
    <2>4. done' = done /\ hand' = hand
      BY <2>1 DEF FlushSend, aggUnchanged, hand
    <2> HIDE DEF ev, done
    <2>5. policies' = policies \o <<ev>> /\ <<ev>> \in Seq(Event)
      BY <1>1, <2>2, <2>3, AppendIsConcat
    <2>6. (done \o hand) \o (policies \o <<ev>>) = ((done \o hand) \o policies) \o <<ev>>
      BY <1>1, <1>3, <2>5, ConcatAssociative, SMTT(20)
    <2>7. Append(Handed, ev) = Handed \o <<ev>>
      BY <1>3, <1>4, <2>3, AppendIsConcat
    <2>8. Handed' = Append(Handed, ev)
      BY <1>4, <1>5, <2>4, <2>5, <2>6, <2>7
    <2> QED
      BY <1>3, <1>4, <2>1, <2>8 DEF ev
  <1>7. ASSUME \A w \in Workloads : ~FlushSend(w) PROVE Handed' = Handed
    <2>1. CASE FanRecv
      <3>1. /\ policies # <<>> /\ policies' = Tail(policies) /\ hand' = <<Head(policies)>>
            /\ hand = <<>> /\ done' = done
        BY <2>1 DEF FanRecv, fanUnchanged, hand
      <3>2. Head(policies) \in Event
        BY <1>1, <3>1, HeadTailProperties
      <3> HIDE DEF done
      <3>3. done \o <<Head(policies)>> = Append(done, Head(policies)) /\ done \o <<>> = done
        BY <1>3, <3>2, AppendIsConcat, ConcatEmptySeq
      <3>4. Append(done, Head(policies)) \o Tail(policies) = done \o policies
        BY <1>1, <1>3, <3>1, MoveHead
      <3> QED
        BY <1>4, <1>5, <3>1, <3>3, <3>4
    <2>2. CASE FanPolicy
      <3>1. /\ policyCh' = Append(policyCh, fanEvent) /\ policies' = policies
            /\ hand = <<fanEvent>> /\ hand' = <<>> /\ written' = written
        BY <2>2 DEF FanPolicy, fanUnchanged, hand
      <3>2. fanEvent \in Event
        BY <1>0, <2>2 DEF FanPolicy, Counters
      <3>3. policyCh' = policyCh \o <<fanEvent>> /\ <<fanEvent>> \in Seq(Event)
        BY <1>1, <3>1, <3>2, AppendIsConcat
      <3>4. done' = done \o <<fanEvent>>
        BY <1>1, <3>1, <3>3, ConcatAssociative
      <3> HIDE DEF done
      <3>5. done \o <<fanEvent>> \in Seq(Event)
        BY <1>3, <3>3, ConcatProperties
      <3>6. (done \o <<fanEvent>>) \o <<>> = done \o <<fanEvent>>
        BY <3>5, ConcatEmptySeq
      <3> QED
        BY <1>4, <1>5, <3>1, <3>4, <3>6
    <2>3. CASE WritePolicy
      <3>1. done' = done
        BY <1>1, <2>3, MoveHead DEF WritePolicy
      <3>2. policies' = policies /\ hand' = hand
        BY <2>3 DEF WritePolicy, consumerUnchanged, hand
      <3> HIDE DEF done
      <3> QED
        BY <1>4, <1>5, <3>1, <3>2
    <2>4. CASE ~FanRecv /\ ~FanPolicy /\ ~WritePolicy
      <3>1. UNCHANGED <<written, policyCh, policies>> /\ hand' = hand
        <4>1. CASE Cancel \/ Stream \/ Stage0 \/ Return \/ UNCHANGED vars
          BY <4>1 DEF Cancel, Stream, RecvFlow, RecvLost, SendFlow, SendLost, StreamEof,
                      StreamFails, StreamCancelled, StreamClose, streamUnchanged, Stage0,
                      SurfaceError, NoErrorToSurface, Return, vars, hand
        <4>2. CASE Agg
          BY <1>7, <4>2 DEF Agg, AggExcluded, AggBucket, AggInfra, AggTick, AggEof, AggCancelled,
                            FlushDone, aggUnchanged, hand
        <4>3. CASE Fan
          BY <2>4, <4>3 DEF Fan, FanEvidence, FanClose, fanUnchanged, hand
        <4>4. CASE Consumers
          BY <2>4, <4>4 DEF Consumers, WriteEvidence, Accumulate, CountLost, ConsumerReturns,
                            consumerUnchanged, hand
        <4> QED
          BY <4>1, <4>2, <4>3, <4>4 DEF Next
      <3> QED
        BY <1>4, <1>5, <3>1
    <2> QED
      BY <2>1, <2>2, <2>3, <2>4
  <1> QED
    BY <1>3, <1>4, <1>6, <1>7

\* Every flow the aggregator counted and did not report as an infra drop is in an
\* event handed on or in a bucket.
Conserved == Queue /\ Tally(Handed, buckets, received, flowsSeen - infraDrops, Past)

\* At the start nothing is counted, handed on or in a bucket.
LEMMA ConservedInit == Init => Conserved
  <1> SUFFICES ASSUME Init PROVE Conserved
    OBVIOUS
  <1>1. Queue
    BY EmptySeq DEF Init, Queue
  <1>2. Handed = <<>>
    <2>1. <<>> \in Seq(Event) /\ <<>> \o <<>> = <<>>
      BY EmptySeq, ConcatEmptySeq
    <2> QED
      BY <2>1 DEF Init, Handed, HandedTo
  <1>3. \A w \in Workloads : buckets[w] = {}
    BY DEF Init
  <1>4. \A i \in 1..Len(Handed) : FALSE
    BY <1>2, EmptySeq
  <1>5. All(Handed, buckets) = {}
    <2>1. ASSUME NEW f PROVE f \notin All(Handed, buckets)
      <3>1. \A w \in Workloads : f \notin buckets[w]
        BY <1>3
      <3> QED
        BY <1>4, <3>1, AllMember, Zenon
    <2> QED
      BY <2>1
  <1>6. IsFiniteSet({}) /\ Cardinality({}) = 0
    BY FS_EmptySet
  <1>7. flowsSeen - infraDrops = 0
    BY DEF Init
  <1>8. \A w \in Workloads : \A f \in buckets[w] : FALSE
    BY <1>3
  <1>9. Tally(Handed, buckets, received, flowsSeen - infraDrops, Past)
    BY <1>4, <1>5, <1>6, <1>7, <1>8, Zenon DEF Tally
  <1> QED
    BY <1>1, <1>9 DEF Conserved

\* Every step keeps a counted flow in an event or in a bucket.
LEMMA ConservedStep == TypeInv /\ Conserved /\ [Next]_vars => Conserved'
  <1> SUFFICES ASSUME TypeInv, Conserved, [Next]_vars PROVE Conserved'
    OBVIOUS
  <1> USE DEF streamVars, aggVars, fanVars, sinkVars
  <1> DEFINE n == flowsSeen - infraDrops
  <1>0. Queue /\ Tally(Handed, buckets, received, n, Past)
    BY DEF Conserved
  <1>1. Queue' /\ Onward
    BY <1>0, QueueStep
  <1>n. flowsSeen \in Nat /\ infraDrops \in Nat
    BY Numbers DEF TypeInv
  <1>b. buckets \in [Workloads -> SUBSET (1..MaxFlows)]
    BY DEF TypeInv, TypeOK, AggTypes
  <1>2. Tally(Handed, buckets, received', n, Past')
    BY <1>0, <1>1, TallyLater DEF Onward
  <1>3. CASE AggBucket
    <2>1. /\ flows # <<>> /\ flows' = Tail(flows) /\ UNCHANGED <<received, streamPc, infraDrops>>
          /\ received[Head(flows)] \in Workloads /\ flowsSeen' = flowsSeen + 1
          /\ buckets' = [buckets EXCEPT ![received[Head(flows)]] = @ \cup {Head(flows)}]
      BY <1>3 DEF AggBucket, Dequeue, aggUnchanged
    <2>2. Head(flows) \in Past' /\ Head(flows) \notin Past /\ Past \subseteq Past'
      BY <1>0, <1>1, <2>1, DequeueStep DEF Onward
    <2>3. Tally(Handed, buckets', received, n + 1, Past')
      BY <1>0, <1>b, <2>1, <2>2, TallyBucket
    <2>4. Handed' = Handed
      <3>1. ~ \E w \in Workloads : FlushSend(w)
        BY <1>3 DEF AggBucket, Dequeue, FlushSend
      <3> QED
        BY <3>1, HandedStep
    <2>5. n' = n + 1
      BY <1>n, <2>1
    <2> HIDE DEF n
    <2>6. Tally(Handed', buckets', received', n', Past')
      BY <2>1, <2>3, <2>4, <2>5
    <2> QED
      BY <1>1, <2>6 DEF Conserved, n
  <1>4. CASE \E w \in Workloads : FlushSend(w)
    <2>1. PICK w \in Workloads :
            /\ FlushSend(w)
            /\ Handed' = Append(Handed, [workload |-> w, flows |-> buckets[w]])
      BY <1>4, HandedStep
    <2>2. buckets' = [buckets EXCEPT ![w] = {}] /\ UNCHANGED <<flowsSeen, infraDrops>>
      BY <2>1 DEF FlushSend
    <2>3. Handed \in Seq(Event)
      BY HandedStep
    <2>4. Tally(Append(Handed, [workload |-> w, flows |-> buckets[w]]), [buckets EXCEPT ![w] = {}],
                received', n, Past')
      BY <1>2, <1>b, <2>3, TallyFlush
    <2>5. n' = n
      BY <2>2
    <2> HIDE DEF n
    <2>6. Tally(Handed', buckets', received', n', Past')
      BY <2>1, <2>2, <2>4, <2>5
    <2> QED
      BY <1>1, <2>6 DEF Conserved, n
  <1>5. ASSUME ~AggBucket, ~ \E w \in Workloads : FlushSend(w) PROVE Conserved'
    <2>1. Handed' = Handed
      BY <1>5, HandedStep
    <2>2. buckets' = buckets /\ n' = n
      <3>1. CASE Cancel \/ Stream \/ Stage0 \/ Return \/ UNCHANGED vars
        BY <3>1 DEF Cancel, Stream, RecvFlow, RecvLost, SendFlow, SendLost, StreamEof,
                    StreamFails, StreamCancelled, StreamClose, streamUnchanged, Stage0,
                    SurfaceError, NoErrorToSurface, Return, vars
      <3>2. CASE Agg
        BY <1>n, <1>5, <3>2 DEF Agg, AggExcluded, AggInfra, AggTick, AggEof, AggCancelled, FlushDone
      <3>3. CASE Fan \/ Consumers
        BY <3>3 DEF Fan, FanRecv, FanPolicy, FanEvidence, FanClose, fanUnchanged, Consumers,
                    WritePolicy, WriteEvidence, Accumulate, CountLost, ConsumerReturns,
                    consumerUnchanged
      <3> QED
        BY <3>1, <3>2, <3>3 DEF Next
    <2> HIDE DEF n
    <2>3. Tally(Handed', buckets', received', n', Past')
      BY <1>2, <2>1, <2>2
    <2> QED
      BY <1>1, <2>3 DEF Conserved, n
  <1> QED
    BY <1>3, <1>4, <1>5

\* Both writers are handed the same events.
LEMMA SameHanded ==
  ASSUME TypeInv, Agree
  PROVE  HandedTo(evidenced, evidenceCh, {"policy", "evidence"}) = Handed
  <1>1. /\ written \o policyCh \in Seq(Event) /\ evidenced \o evidenceCh \in Seq(Event)
        /\ policies \in Seq(Event)
    BY ConcatProperties DEF TypeInv, TypeOK, FanTypes, SinkTypes
  <1>2. CASE fanPc = "evidence"
    <2>1. written \o policyCh = (evidenced \o evidenceCh) \o <<fanEvent>>
      BY <1>2 DEF Agree
    <2>2. (written \o policyCh) \o <<>> = written \o policyCh
      BY <1>1, ConcatEmptySeq
    <2> QED
      BY <1>2, <2>1, <2>2 DEF Handed, HandedTo
  <1>3. CASE fanPc # "evidence"
    <2>1. written \o policyCh = evidenced \o evidenceCh
      BY <1>1, <1>3, ConcatEmptySeq DEF Agree
    <2> QED
      BY <1>3, <2>1 DEF Handed, HandedTo
  <1> QED
    BY <1>2, <1>3

\* What is handed on and in the buckets accounts for the flows counted.
LEMMA TallyAccounts ==
  ASSUME TypeInv, Conserved PROVE Accounts(Handed)
  <1> DEFINE e == Handed
             n == flowsSeen - infraDrops
  <1>1. e \in Seq(Event)
    <2>1. /\ written \o policyCh \in Seq(Event) /\ policies \in Seq(Event)
      BY ConcatProperties DEF TypeInv, TypeOK, FanTypes, SinkTypes
    <2>2. (IF fanPc = "policy" THEN <<fanEvent>> ELSE <<>>) \in Seq(Event)
      BY EmptySeq DEF TypeInv, Counters
    <2> QED
      BY <2>1, <2>2, ConcatProperties DEF Handed, HandedTo
  <1> HIDE DEF e
  <1>2. DOMAIN e = 1..Len(e)
    BY <1>1, LenProperties
  <1>t. /\ \A i, j \in 1..Len(e) : i # j => \A f \in e[i].flows : f \notin e[j].flows
        /\ \A i \in 1..Len(e) : \A f \in e[i].flows : received[f] = e[i].workload
        /\ \A i \in 1..Len(e) : \A w \in Workloads : \A f \in buckets[w] : f \notin e[i].flows
        /\ n = Cardinality(All(e, buckets))
    BY Zenon DEF Conserved, Tally, e, n
  <1>3. \A i, j \in DOMAIN e : i # j => e[i].flows \cap e[j].flows = {}
    BY <1>2, <1>t
  <1>4. Carried(e) \cap Held(buckets) = {}
    <2>1. ASSUME NEW f, f \in Carried(e), f \in Held(buckets) PROVE FALSE
      <3>1. PICK s \in {e[j].flows : j \in 1..Len(e)} : f \in s
        BY <2>1, Zenon DEF Carried
      <3>2. PICK u \in {buckets[w] : w \in Workloads} : f \in u
        BY <2>1, Zenon DEF Held
      <3>3. PICK j \in 1..Len(e) : s = e[j].flows
        OBVIOUS
      <3>4. PICK w \in Workloads : u = buckets[w]
        OBVIOUS
      <3>5. f \in buckets[w] /\ f \in e[j].flows
        BY <3>1, <3>2, <3>3, <3>4, Zenon
      <3> QED
        BY <1>t, <3>5, Zenon
    <2> QED
      BY <2>1, Zenon
  <1>5. n \in Int /\ flowsSeen = infraDrops + n
    <2>1. flowsSeen \in Nat /\ infraDrops \in Nat
      BY Numbers DEF TypeInv
    <2> QED
      BY <2>1
  <1>6. flowsSeen = infraDrops + Cardinality(Carried(e) \cup Held(buckets))
    BY <1>t, <1>5, Zenon DEF All
  <1>7. Accounts(e)
    BY <1>2, <1>3, <1>4, <1>6, <1>t, Zenon DEF Accounts, Carried, Held
  <1> QED
    BY <1>7 DEF e

\* Aggregator.flush and the fan-out: each flow the aggregator put into a bucket is
\* handed to each writer in one event of its workload, and none is lost on the way.
THEOREM FlowsAreConserved == Spec => []FlowsConserved
  <1>1. Init => Agree /\ Conserved
    BY ConservedInit DEF Init, Agree
  <1>2. TypeInv /\ Agree /\ Conserved /\ [Next]_vars => Agree' /\ Conserved'
    BY AgreeStep, ConservedStep
  <1>3. TypeInv /\ Agree /\ Conserved => FlowsConserved
    <2> SUFFICES ASSUME TypeInv, Agree, Conserved PROVE FlowsConserved
      OBVIOUS
    <2>1. Accounts(Handed)
      BY TallyAccounts
    <2> QED
      BY <2>1, SameHanded DEF FlowsConserved, Handed
  <1> QED
    BY <1>1, <1>2, <1>3, InvariantClosing, PTL DEF Spec

-----------------------------------------------------------------------------
(* A clean end of the stream.                                              *)

\* Past flows of some kinds.
PastOf(kinds) == {f \in Past : received[f] \in kinds}

\* Without a cancellation the counters count what is past.
Kept ==
    ~ctxDone =>
        /\ flowsSeen = Cardinality(PastOf(Workloads \cup {"infra"}))
        /\ infraDrops = Cardinality(PastOf({"infra"}))

\* What a stage leaves behind when it is over, and the ledger of the lost events.
Finished ==
    /\ aggPc = "exited" => \A w \in Workloads : buckets[w] = {}
    /\ "policyWriter" \in returned => PolicyClosed /\ policyCh = <<>>
    /\ "evidenceWriter" \in returned => EvidenceClosed /\ evidenceCh = <<>>
    /\ "monitor" \in returned => GroupCtxDone \/ (lostCh = 0 /\ LostClosed)
    /\ source = "replay" => lostReceived = 0 /\ streamPc # "sendLost"
    /\ ~ctxDone => lostReceived = lostTotal + lostCh + (IF streamPc = "sendLost" THEN 1 ELSE 0)

\* Finitely many flows have gone by.
LEMMA PastFinite ==
  ASSUME TypeInv, NEW kinds
  PROVE  IsFiniteSet(PastOf(kinds)) /\ Cardinality(PastOf(kinds)) \in Nat
  <1>1. Len(received) \in Int
    BY Numbers DEF TypeInv
  <1>2. IsFiniteSet(1..Len(received))
    BY <1>1, FS_Interval
  <1>3. PastOf(kinds) \subseteq 1..Len(received)
    BY DEF PastOf, Past
  <1> QED
    BY <1>2, <1>3, FS_Subset, FS_CardinalityType

\* Past grows by the flow that is dequeued, and by no other without a cancellation.
LEMMA PastGrows ==
  ASSUME TypeInv, Queue, flows # <<>>, flows' = Tail(flows), UNCHANGED <<received, streamPc>>
  PROVE  Past' = Past \cup {Head(flows)}
  <1>n. Len(flows) \in Nat /\ flows \in Seq(1..MaxFlows)
    BY Numbers DEF TypeInv, TypeOK, StreamTypes
  <1>1. /\ Len(flows') = Len(flows) - 1 /\ Head(flows) = flows[1]
        /\ \A i \in 1..Len(flows') : flows'[i] = flows[i + 1]
    BY <1>n, HeadTailProperties
  <1>2. Past \subseteq Past' /\ Head(flows) \in Past'
    BY DequeueStep DEF Onward
  <1>3. ASSUME NEW f \in Past', f # Head(flows) PROVE f \in Past
    <2>1. /\ f \in 1..Len(received) /\ ~(streamPc = "send" /\ f = Len(received))
          /\ \A i \in 1..Len(flows') : flows'[i] # f
      BY DEF Past
    <2>2. ASSUME NEW i \in 1..Len(flows) PROVE flows[i] # f
      <3>1. CASE i = 1
        BY <1>1, <1>3, <3>1
      <3>2. CASE i # 1
        <4>1. i - 1 \in 1..Len(flows') /\ (i - 1) + 1 = i
          BY <1>n, <1>1, <3>2
        <4> QED
          BY <1>1, <2>1, <4>1
      <3> QED
        BY <3>1, <3>2
    <2> QED
      BY <2>1, <2>2 DEF Past
  <1> QED
    BY <1>2, <1>3

\* Only the aggregator's own steps take a flow past the counters.
LEMMA PastStays ==
  ASSUME TypeInv, Queue, [Next]_vars, ~ctxDone, ~AggExcluded, ~AggBucket, ~AggInfra
  PROVE  Past' = Past
  <1> USE DEF streamVars, aggVars, fanVars, sinkVars
  <1>n. /\ Len(received) \in Nat /\ Len(flows) \in Nat
        /\ received \in Seq(Kinds) /\ flows \in Seq(1..MaxFlows)
        /\ \A i \in 1..Len(flows) : flows[i] \in 1..Len(received)
    BY Numbers, FlowsReceived DEF TypeInv, TypeOK, StreamTypes
  <1>0. Past \subseteq Past'
    BY QueueStep DEF Onward
  <1>1. CASE RecvFlow
    <2>1. PICK kind \in Kinds : received' = Append(received, kind)
      BY <1>1 DEF RecvFlow
    <2>2. Len(received') = Len(received) + 1
      BY <1>n, <2>1, AppendProperties
    <2>3. streamPc = "recv" /\ streamPc' = "send" /\ UNCHANGED flows
      BY <1>1 DEF RecvFlow
    <2>4. Past' \subseteq Past
      BY <1>n, <2>2, <2>3 DEF Past
    <2> QED
      BY <1>0, <2>4
  <1>2. CASE SendFlow
    <2>1. /\ streamPc = "send" /\ flows' = Append(flows, Len(received))
          /\ UNCHANGED received
      BY <1>2 DEF SendFlow
    <2>2. Len(received) \in 1..MaxFlows
      BY <1>n, <2>1, Numbers DEF Counters, StreamTypes, TypeInv, TypeOK, AggTypes
    <2>3. /\ Len(flows') = Len(flows) + 1
          /\ \A i \in 1..Len(flows) : flows'[i] = flows[i]
          /\ flows'[Len(flows) + 1] = Len(received)
      BY <1>n, <2>1, <2>2, AppendProperties
    <2>4. 1..Len(flows) \subseteq 1..Len(flows') /\ Len(flows) + 1 \in 1..Len(flows')
      BY <1>n, <2>3
    <2>5. Past' \subseteq Past
      BY <2>1, <2>3, <2>4 DEF Past
    <2> QED
      BY <1>0, <2>5
  <1>3. CASE RecvLost \/ SendLost \/ StreamEof \/ StreamFails \/ StreamCancelled \/ StreamClose
    <2>1. UNCHANGED <<received, flows>> /\ streamPc # "send" /\ streamPc' # "send"
      BY <1>3 DEF RecvLost, SendLost, StreamEof, StreamFails, StreamCancelled, StreamClose,
                  FirstClose
    <2> QED
      BY <2>1 DEF Past
  <1>4. CASE Cancel \/ Stage0 \/ Fan \/ Consumers \/ Return \/ UNCHANGED vars
    <2>1. UNCHANGED <<received, flows, streamPc>>
      <3>1. CASE Cancel \/ Stage0
        BY <3>1 DEF Cancel, Stage0, SurfaceError, NoErrorToSurface
      <3>2. CASE Fan \/ Return \/ UNCHANGED vars
        BY <3>2 DEF Fan, FanRecv, FanPolicy, FanEvidence, FanClose, fanUnchanged, Return, vars
      <3>3. CASE WritePolicy \/ WriteEvidence \/ Accumulate \/ CountLost
        BY <3>3 DEF WritePolicy, WriteEvidence, Accumulate, CountLost, consumerUnchanged
      <3>4. CASE \E stage \in Stages \ {"stage0"} : ConsumerReturns(stage)
        BY <3>4 DEF ConsumerReturns, consumerUnchanged
      <3> QED
        BY <1>4, <3>1, <3>2, <3>3, <3>4 DEF Consumers
    <2> QED
      BY <2>1 DEF Past
  <1>5. CASE AggTick \/ AggEof \/ AggCancelled \/ FlushDone \/ \E w \in Workloads : FlushSend(w)
    <2>1. UNCHANGED <<received, flows, streamPc>>
      BY <1>5 DEF AggTick, AggEof, AggCancelled, FlushDone, FlushSend, aggUnchanged
    <2> QED
      BY <2>1 DEF Past
  <1> QED
    BY <1>1, <1>2, <1>3, <1>4, <1>5 DEF Next, Stream, Agg

\* Dequeue: a counter of some kinds counts one more exactly for a flow of those.
LEMMA CountStep ==
  ASSUME TypeInv, Queue, flows # <<>>, flows' = Tail(flows), UNCHANGED <<received, streamPc>>,
         NEW kinds
  PROVE  /\ received[Head(flows)] \in kinds =>
              Cardinality(PastOf(kinds)') = Cardinality(PastOf(kinds)) + 1
         /\ received[Head(flows)] \notin kinds => PastOf(kinds)' = PastOf(kinds)
  <1>1. Past' = Past \cup {Head(flows)} /\ Head(flows) \notin Past
    BY PastGrows, DequeueStep
  <1>2. PastOf(kinds)' = {f \in Past' : received[f] \in kinds}
    BY DEF PastOf
  <1>3. ASSUME received[Head(flows)] \in kinds
        PROVE  Cardinality(PastOf(kinds)') = Cardinality(PastOf(kinds)) + 1
    <2>1. PastOf(kinds)' = PastOf(kinds) \cup {Head(flows)}
      BY <1>1, <1>2, <1>3 DEF PastOf
    <2>2. Head(flows) \notin PastOf(kinds)
      BY <1>1 DEF PastOf
    <2> QED
      BY <2>1, <2>2, PastFinite, FS_AddElement
  <1>4. ASSUME received[Head(flows)] \notin kinds PROVE PastOf(kinds)' = PastOf(kinds)
    BY <1>1, <1>2, <1>4 DEF PastOf
  <1> QED
    BY <1>3, <1>4

\* Every step keeps the counters equal to what is past, without a cancellation.
LEMMA KeptStep == TypeInv /\ Queue /\ Kept /\ [Next]_vars => Kept'
  <1> SUFFICES ASSUME TypeInv, Queue, Kept, [Next]_vars, ~ctxDone'
               PROVE  /\ flowsSeen' = Cardinality(PastOf(Workloads \cup {"infra"})')
                      /\ infraDrops' = Cardinality(PastOf({"infra"})')
    BY DEF Kept
  <1> USE DEF streamVars, aggVars, fanVars, sinkVars
  <1>1. ~ctxDone
    <2>1. CASE Cancel \/ Stream \/ Stage0 \/ Return \/ UNCHANGED vars
      BY <2>1 DEF Cancel, Stream, RecvFlow, RecvLost, SendFlow, SendLost, StreamEof,
                  StreamFails, StreamCancelled, StreamClose, streamUnchanged, Stage0,
                  SurfaceError, NoErrorToSurface, Return, vars
    <2>2. CASE Agg
      BY <2>2 DEF Agg, AggExcluded, AggBucket, AggInfra, AggTick, AggEof, AggCancelled, FlushDone,
                  FlushSend, aggUnchanged
    <2>3. CASE Fan \/ Consumers
      BY <2>3 DEF Fan, FanRecv, FanPolicy, FanEvidence, FanClose, fanUnchanged, Consumers,
                  WritePolicy, WriteEvidence, Accumulate, CountLost, ConsumerReturns,
                  consumerUnchanged
    <2> QED
      BY <2>1, <2>2, <2>3 DEF Next
  <1>2. /\ flowsSeen = Cardinality(PastOf(Workloads \cup {"infra"}))
        /\ infraDrops = Cardinality(PastOf({"infra"}))
    BY <1>1 DEF Kept
  <1>3. CASE AggExcluded \/ AggBucket \/ AggInfra
    <2>1. flows # <<>> /\ flows' = Tail(flows) /\ UNCHANGED <<received, streamPc>>
      BY <1>3 DEF AggExcluded, AggBucket, AggInfra, Dequeue, aggUnchanged
    <2>2. CASE AggExcluded
      <3>1. /\ received[Head(flows)] \notin Workloads \cup {"infra"}
            /\ received[Head(flows)] \notin {"infra"}
            /\ UNCHANGED <<flowsSeen, infraDrops>>
        BY <2>2, BoundsAssumption DEF AggExcluded, Dequeue
      <3> QED
        BY <1>2, <2>1, <3>1, CountStep
    <2>3. CASE AggBucket
      <3>1. /\ received[Head(flows)] \in Workloads \cup {"infra"}
            /\ received[Head(flows)] \notin {"infra"}
            /\ flowsSeen' = flowsSeen + 1 /\ infraDrops' = infraDrops
        BY <2>3, BoundsAssumption DEF AggBucket, Dequeue
      <3> QED
        BY <1>2, <2>1, <3>1, CountStep
    <2>4. CASE AggInfra
      <3>1. /\ received[Head(flows)] \in Workloads \cup {"infra"}
            /\ received[Head(flows)] \in {"infra"}
            /\ flowsSeen' = flowsSeen + 1 /\ infraDrops' = infraDrops + 1
        BY <2>4 DEF AggInfra, Dequeue
      <3> QED
        BY <1>2, <2>1, <3>1, CountStep
    <2> QED
      BY <1>3, <2>2, <2>3, <2>4
  <1>4. ASSUME ~AggExcluded, ~AggBucket, ~AggInfra
        PROVE  /\ flowsSeen' = Cardinality(PastOf(Workloads \cup {"infra"})')
               /\ infraDrops' = Cardinality(PastOf({"infra"})')
    <2>1. Past' = Past
      BY <1>1, <1>4, PastStays
    <2>2. \A f \in Past : received'[f] = received[f]
      BY QueueStep DEF Onward
    <2>3. /\ PastOf(Workloads \cup {"infra"})' = PastOf(Workloads \cup {"infra"})
          /\ PastOf({"infra"})' = PastOf({"infra"})
      BY <2>1, <2>2 DEF PastOf
    <2>4. UNCHANGED <<flowsSeen, infraDrops>>
      <3>1. CASE Cancel \/ Stream \/ Stage0 \/ Return \/ UNCHANGED vars
        BY <3>1 DEF Cancel, Stream, RecvFlow, RecvLost, SendFlow, SendLost, StreamEof,
                    StreamFails, StreamCancelled, StreamClose, streamUnchanged, Stage0,
                    SurfaceError, NoErrorToSurface, Return, vars
      <3>2. CASE Agg
        BY <1>4, <3>2 DEF Agg, AggTick, AggEof, AggCancelled, FlushDone, FlushSend
      <3>3. CASE Fan \/ Consumers
        BY <3>3 DEF Fan, FanRecv, FanPolicy, FanEvidence, FanClose, fanUnchanged, Consumers,
                    WritePolicy, WriteEvidence, Accumulate, CountLost, ConsumerReturns,
                    consumerUnchanged
      <3> QED
        BY <3>1, <3>2, <3>3 DEF Next
    <2> QED
      BY <1>2, <2>3, <2>4
  <1> QED
    BY <1>3, <1>4

\* Every step keeps what finished stages leave behind, and the ledger of lost events.
LEMMA FinishedStep == TypeInv /\ Closing /\ Finished /\ [Next]_vars => Finished'
  <1> SUFFICES ASSUME TypeInv, Closing, Finished, [Next]_vars PROVE Finished'
    OBVIOUS
  <1> USE DEF streamVars, aggVars, fanVars, sinkVars, GroupCtxDone, PolicyClosed, EvidenceClosed,
              LostClosed
  <1>n. lostReceived \in Nat /\ lostTotal \in Nat /\ lostCh \in Nat
    BY Numbers DEF TypeInv
  <1>1. CASE RecvLost
    <2>1. /\ streamPc = "recv" /\ streamPc' = "sendLost" /\ source = "live"
          /\ lostReceived' = lostReceived + 1
          /\ UNCHANGED <<aggPc, buckets, returned, fanPc, policyCh, evidenceCh, ctxDone, groupErr,
                         lostCh, lostTotal, source>>
      BY <1>1 DEF RecvLost, streamUnchanged
    <2> QED
      BY <1>n, <2>1 DEF Finished
  <1>2. CASE SendLost
    <2>1. /\ streamPc = "sendLost" /\ streamPc' = "recv" /\ lostCh' = lostCh + 1
          /\ UNCHANGED <<aggPc, buckets, returned, fanPc, policyCh, evidenceCh, ctxDone, groupErr,
                         lostReceived, lostTotal, source>>
      BY <1>2 DEF SendLost, streamUnchanged
    <2> QED
      BY <1>n, <2>1 DEF Finished
  <1>3. CASE RecvFlow \/ SendFlow \/ StreamEof \/ StreamFails \/ StreamCancelled \/ StreamClose
    <2>1. /\ streamPc = "sendLost" => ctxDone
          /\ streamPc' # "sendLost"
          /\ LostClosed => LostClosed'
          /\ UNCHANGED <<aggPc, buckets, returned, fanPc, policyCh, evidenceCh, ctxDone, groupErr,
                         lostReceived, lostCh, lostTotal, source>>
      BY <1>3 DEF RecvFlow, SendFlow, StreamEof, StreamFails, StreamCancelled, StreamClose,
                  FirstClose, streamUnchanged
    <2> QED
      BY <1>n, <2>1 DEF Finished
  <1>4. CASE Cancel \/ Stage0 \/ Return \/ UNCHANGED vars
    <2>1. /\ UNCHANGED <<aggPc, buckets, fanPc, policyCh, evidenceCh, lostReceived, lostCh,
                         lostTotal, source, streamPc>>
          /\ (ctxDone => ctxDone') /\ (groupErr => groupErr')
          /\ returned' \subseteq returned \cup {"stage0"}
      BY <1>4 DEF Cancel, Stage0, SurfaceError, NoErrorToSurface, Return, vars
    <2> QED
      BY <2>1 DEF Finished
  <1>5. CASE Agg
    <2>1. /\ UNCHANGED <<returned, fanPc, policyCh, evidenceCh, ctxDone, groupErr, lostReceived,
                         lostCh, lostTotal, source, streamPc>>
          /\ aggPc # "exited"
      BY <1>5 DEF Agg, AggExcluded, AggBucket, AggInfra, AggTick, AggEof, AggCancelled, FlushDone,
                  FlushSend, Dequeue, aggUnchanged
    <2>2. aggPc' = "exited" => \A w \in Workloads : buckets'[w] = {}
      BY <1>5 DEF Agg, AggExcluded, AggBucket, AggInfra, AggTick, AggEof, AggCancelled, FlushDone,
                  FlushSend, Dequeue
    <2> QED
      BY <2>1, <2>2 DEF Finished
  <1>6. CASE Fan
    <2>1. /\ UNCHANGED <<aggPc, buckets, returned, ctxDone, groupErr, lostReceived, lostCh,
                         lostTotal, source, streamPc>>
          /\ PolicyClosed => PolicyClosed' /\ policyCh' = policyCh /\ evidenceCh' = evidenceCh
          /\ EvidenceClosed => EvidenceClosed'
      BY <1>6 DEF Fan, FanRecv, FanPolicy, FanEvidence, FanClose, fanUnchanged
    <2> QED
      BY <2>1 DEF Finished
  <1>7. CASE WritePolicy \/ WriteEvidence \/ Accumulate
    <2>1. /\ UNCHANGED <<aggPc, buckets, returned, fanPc, ctxDone, groupErr, lostReceived, lostCh,
                         lostTotal, source, streamPc>>
          /\ policyCh = <<>> => policyCh' = policyCh
          /\ evidenceCh = <<>> => evidenceCh' = evidenceCh
      BY <1>7 DEF WritePolicy, WriteEvidence, Accumulate, consumerUnchanged
    <2> QED
      BY <2>1 DEF Finished
  <1>8. CASE CountLost
    <2>1. /\ "monitor" \notin returned /\ lostTotal' = lostTotal + 1 /\ lostCh' = lostCh - 1
          /\ UNCHANGED <<aggPc, buckets, returned, fanPc, policyCh, evidenceCh, ctxDone, groupErr,
                         lostReceived, source, streamPc>>
      BY <1>8 DEF CountLost, consumerUnchanged
    <2> QED
      BY <1>n, <2>1 DEF Finished
  <1>9. ASSUME NEW stage \in Stages \ {"stage0"}, ConsumerReturns(stage) PROVE Finished'
    <2>1. /\ UNCHANGED <<aggPc, buckets, fanPc, policyCh, evidenceCh, ctxDone, groupErr,
                         lostReceived, lostCh, lostTotal, source, streamPc>>
          /\ returned' = returned \cup {stage}
      BY <1>9 DEF ConsumerReturns, consumerUnchanged
    <2>2. /\ stage = "policyWriter" => policyCh = <<>> /\ PolicyClosed
          /\ stage = "evidenceWriter" => evidenceCh = <<>> /\ EvidenceClosed
          /\ stage = "monitor" => (lostCh = 0 /\ LostClosed) \/ GroupCtxDone
      BY <1>9 DEF ConsumerReturns
    <2> QED
      BY <2>1, <2>2 DEF Finished
  <1> QED
    BY <1>1, <1>2, <1>3, <1>4, <1>5, <1>6, <1>7, <1>8, <1>9 DEF Next, Stream, Consumers

\* RunPipelineWithSource after a clean end of the stream: every flow received is
\* in the output, and the counters of the summary are what was received.
THEOREM CleanRunsAreComplete == Spec => []CleanRunComplete
  <1>1. Init => Agree /\ Conserved /\ Errors /\ Drained /\ Kept /\ Finished
    <2> SUFFICES ASSUME Init PROVE Agree /\ Conserved /\ Errors /\ Drained /\ Kept /\ Finished
      OBVIOUS
    <2>1. Agree /\ Conserved
      BY ConservedInit DEF Init, Agree
    <2>2. Errors /\ Drained
      BY EmptySeq DEF Init, Errors, Drained, ErrClosed
    <2>3. Kept
      <3>1. Past = {}
        BY EmptySeq DEF Init, Past
      <3>2. PastOf(Workloads \cup {"infra"}) = {} /\ PastOf({"infra"}) = {}
        BY <3>1 DEF PastOf
      <3> QED
        BY <3>2, FS_EmptySet DEF Init, Kept
    <2>4. Finished
      BY DEF Init, Finished
    <2> QED
      BY <2>1, <2>2, <2>3, <2>4
  <1>2. TypeInv /\ Closing /\ (Agree /\ Conserved /\ Errors /\ Drained /\ Kept /\ Finished) /\ [Next]_vars
          => (Agree /\ Conserved /\ Errors /\ Drained /\ Kept /\ Finished)'
    <2> SUFFICES ASSUME TypeInv, Closing, Agree, Conserved, Errors, Drained, Kept, Finished,
                        [Next]_vars
                 PROVE  (Agree /\ Conserved /\ Errors /\ Drained /\ Kept /\ Finished)'
      OBVIOUS
    <2>1. Queue
      BY DEF Conserved
    <2> QED
      BY <2>1, AgreeStep, ConservedStep, ErrorsStep, DrainedStep, KeptStep, FinishedStep
  <1>3. ASSUME TypeInv, Closing, Agree, Conserved, Errors, Drained, Kept, Finished,
               result # "running", ended = "eof", ~ctxDone
        PROVE  /\ flowsSeen = Count(Workloads \cup {"infra"})
               /\ infraDrops = Count({"infra"})
               /\ UNION {written[i].flows : i \in DOMAIN written}
                    = {f \in DOMAIN received : received[f] \in Workloads}
               /\ Len(evidenced) = Len(written)
               /\ lostTotal = lostReceived
    <2>t. /\ received \in Seq(Kinds) /\ written \in Seq(Event) /\ evidenced \in Seq(Event)
          /\ policies \in Seq(Event) /\ flowsSeen \in Nat /\ infraDrops \in Nat
          /\ lostTotal \in Nat /\ lostCh \in Nat
      BY <1>3, Numbers DEF TypeInv, TypeOK, StreamTypes, FanTypes, SinkTypes
    <2>1. aggPc = "exited" /\ fanPc = "exited" /\ returned = Stages /\ policies = <<>>
      BY <1>3 DEF Closing, PolicyClosed
    <2>2. ~groupErr
      BY <1>3 DEF Errors
    <2>3. flows = <<>> /\ streamPc = "closed"
      BY <1>3, <2>1, <2>2 DEF Drained, GroupCtxDone, FlowsClosed
    <2>4. /\ policyCh = <<>> /\ evidenceCh = <<>> /\ lostCh = 0
          /\ \A w \in Workloads : buckets[w] = {}
      BY <1>3, <2>1, <2>2 DEF Finished, Stages, GroupCtxDone
    <2>5. lostTotal = lostReceived
      BY <1>3, <2>t, <2>3, <2>4 DEF Finished
    <2>6. DOMAIN received = 1..Len(received)
      BY <2>t, LenProperties
    <2>7. Past = DOMAIN received
      BY <2>3, <2>6, EmptySeq DEF Past
    <2>8. \A kinds : PastOf(kinds) = {f \in DOMAIN received : received[f] \in kinds}
      BY <2>7 DEF PastOf
    <2>9. /\ flowsSeen = Count(Workloads \cup {"infra"})
          /\ infraDrops = Count({"infra"})
      BY <1>3, <2>8 DEF Kept, Count
    <2>10. written = evidenced
      <3>1. written \o <<>> = written /\ evidenced \o <<>> = evidenced
        BY <2>t, ConcatEmptySeq
      <3> QED
        BY <1>3, <2>1, <2>4, <3>1 DEF Agree
    <2>11. Handed = written
      <3>1. written \o <<>> = written
        BY <2>t, ConcatEmptySeq
      <3> QED
        BY <2>1, <2>4, <3>1 DEF Handed, HandedTo
    <2>12. All(written, buckets) = PastOf(Workloads)
      <3>t. Tally(written, buckets, received, flowsSeen - infraDrops, Past)
        BY <1>3, <2>11 DEF Conserved
      <3>1. IsFiniteSet(PastOf(Workloads)) /\ IsFiniteSet(PastOf({"infra"}))
            /\ Cardinality(PastOf(Workloads)) \in Nat /\ Cardinality(PastOf({"infra"})) \in Nat
        BY <1>3, PastFinite
      <3>2. /\ PastOf(Workloads \cup {"infra"}) = PastOf(Workloads) \cup PastOf({"infra"})
            /\ PastOf(Workloads) \cap PastOf({"infra"}) = {}
        BY BoundsAssumption DEF PastOf
      <3>3. flowsSeen = Cardinality(PastOf(Workloads)) + infraDrops
        <4>1. Cardinality(PastOf(Workloads) \cup PastOf({"infra"}))
                = Cardinality(PastOf(Workloads)) + Cardinality(PastOf({"infra"})) - Cardinality({})
          BY <3>1, <3>2, FS_Union
        <4>2. Cardinality({}) = 0
          BY FS_EmptySet
        <4>3. /\ flowsSeen = Cardinality(PastOf(Workloads) \cup PastOf({"infra"}))
              /\ infraDrops = Cardinality(PastOf({"infra"}))
          BY <1>3, <3>2 DEF Kept
        <4> QED
          BY <3>1, <4>1, <4>2, <4>3
      <3>4. Cardinality(All(written, buckets)) = Cardinality(PastOf(Workloads))
        BY <2>t, <3>t, <3>1, <3>3 DEF Tally
      <3>5. All(written, buckets) \subseteq PastOf(Workloads)
        <4> SUFFICES ASSUME NEW f \in All(written, buckets) PROVE f \in PastOf(Workloads)
          OBVIOUS
        <4>1. PICK i \in 1..Len(written) : f \in written[i].flows
          <5>1. ~ \E w \in Workloads : f \in buckets[w]
            BY <2>4
          <5> QED
            BY <5>1, AllMember, Zenon
        <4>2. f \in Past /\ received[f] = written[i].workload
          BY <3>t, <4>1, Zenon DEF Tally
        <4>3. written[i].workload \in Workloads
          <5>1. written[i] \in Event
            BY <2>t, <4>1, ElementOfSeq
          <5> QED
            BY <5>1 DEF Event
        <4> QED
          BY <4>2, <4>3 DEF PastOf
      <3> QED
        BY <3>1, <3>4, <3>5, FS_Subset
    <2>13. Carried(written) = All(written, buckets)
      <3>1. \A s \in {buckets[w] : w \in Workloads} : s = {}
        BY <2>4
      <3>2. Held(buckets) = {}
        BY <3>1, Zenon DEF Held
      <3> QED
        BY <3>2, Zenon DEF All
    <2>14. DOMAIN written = 1..Len(written)
      BY <2>t, LenProperties
    <2>15. UNION {written[i].flows : i \in DOMAIN written}
             = {f \in DOMAIN received : received[f] \in Workloads}
      BY <2>8, <2>12, <2>13, <2>14, Zenon DEF Carried
    <2> QED
      BY <2>5, <2>9, <2>10, <2>15
  <1>4. TypeInv /\ Closing /\ (Agree /\ Conserved /\ Errors /\ Drained /\ Kept /\ Finished)
          => CleanRunComplete
    BY <1>3 DEF CleanRunComplete
  <1> QED
    BY <1>1, <1>2, <1>4, InvariantClosing, PTL DEF Spec

=============================================================================
