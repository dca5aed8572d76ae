# cpg in TLA+

cpg watches the flows that Cilium drops, through Hubble, and writes the
CiliumNetworkPolicies that would allow them. This directory models its
concurrent and its persistent parts, checks them with TLC on small instances and
proves the most important results with TLAPS for instances of any size. Every
definition is translated from the Go source; `PROJECT.json` names the lines.

1. [The system](#1-the-system) 2. [Modules](#2-modules)
3. [Runs](#3-runs) 4. [Bounds](#4-bounds) 5. [Fairness](#5-fairness)
6. [Proofs](#6-proofs) 7. [Findings](#7-where-the-code-and-its-comments-disagree)
8. [What is not modelled](#8-what-is-not-modelled) 9. [Plan](#9-plan)

## 1. The system

Two programs share one core. `cpg generate` and `cpg replay` run one capture and
end; `cpg mcp` is a server that runs captures on request, one at a time. A third
command, `cpg audit-window`, switches the endpoints of a namespace to policy
audit mode for a while and back.

| component | state it keeps | operations | who it talks to |
|---|---|---|---|
| session manager (`pkg/session`) | the slot, one `Session` with its state, directory, context, `stopOnce`, `done`, final statistics | `Start`, `Status`, `Stop`, `Shutdown`, the `launch` goroutine | tool handlers call it concurrently; it starts a pipeline, a port-forward, a directory |
| audit window (`pkg/auditwindow`) | the endpoints it flipped, `closeOnce`, the watcher | `Open`, `flipIfNeeded`, `Close`, `Shutdown` | the agent, by exec; the Kubernetes watch; three callers of `Shutdown` |
| capture pipeline (`pkg/hubble`, `pkg/flowsource`) | five channels, the aggregator's buckets, the counters of the summary | one goroutine per stage under an `errgroup` | the relay or a file; both writers; the health report |
| policy writer (`pkg/hubble/writer.go`, `pkg/output`) | the last policy written per workload, the cluster snapshot, the YAML files | `handle`, `Write` | the pipeline; policy merge |
| policy merge (`pkg/policy/merge.go`, `dedup.go`) | none | `MergePolicyWithOptions`, `PoliciesEquivalent` | the policy writer |
| policy builder (`pkg/policy/builder.go` and others) | buckets by peer, attribution | `BuildPolicy`, `recordAttribution`, companion DNS rule | the aggregator's flush |
| L7 path collapse (`pkg/policy/l7_collapse.go`) | the paths of the whole run | collect, collapse | the builder |
| evidence store (`pkg/evidence`, `evidence_writer.go`) | one JSON file per workload, shared by all runs over an output directory | `handle`, `finalize`, `Write`, `Merge` | the pipeline; `cpg explain` and the MCP query tools read it |
| health report (`health_writer.go`) | drops by reason, node and workload | accumulate, finalize | the pipeline |
| namespace watcher (`pkg/k8s/ns_watch.go`) | known and new namespaces | list, watch, re-list | `cpg generate`; the pipeline's summary reads it |
| MCP query tools (`cmd/cpg/mcp_query*.go`) | none; opaque cursors held by the client | list and get, by pages | the files of a session while it may still write them |
| the rest | flags, formatting, label selection, a table of drop reasons, single reads of the cluster | | |

The hard behaviours, and where they are looked at:

* **A lock that is not held during the slow part.** `Start` claims the slot,
  unlocks, opens directories and port-forwards for seconds, and locks again.
  Anything may happen to the slot in between (`SessionManager`).
* **Deadlines against work that may be wedged.** `Stop`, both `Shutdown`s and the
  removal of a directory give up after a while and go on, while the goroutine
  they gave up on is alive (`SessionManager`, `AuditWindow`).
* **Names that are reused.** An endpoint id belongs to another pod after the
  first one is gone; the UID does not (`AuditWindow`).
* **Several stages, bounded channels, and a channel that one goroutine closes
  and another sends on** (`Pipeline`).
* **A file that several processes read, change and replace** (`EvidenceStore`).
* **Data folded flush after flush**, by runs that follow each other on the same
  files, where what an earlier flush granted must survive (`EvidenceStore`,
  `PolicyStore`).
* **Pages over files that change between two calls**, and a status read before
  the files it is about (`QueryPages`).

The hazards of `PROJECT.json` list these at the line where they bite, with the
properties that would catch them going wrong.

## 2. Modules

| module | of | lines it stands for |
|---|---|---|
| `SessionManager` | the session manager, as one step per critical section and per step between two | `pkg/session/manager.go`, `session.go`, parts of `cmd/cpg/mcp.go`, `pkg/k8s/portforward.go` |
| `SessionSlot` | what the manager promises of its slot: the abstract specification | the contract of `Start` and `Stop` |
| `SessionManagerProofs` | theorems about both | |
| `AuditWindow` | the audit window over a node whose endpoints come, go and change ids | `pkg/auditwindow/manager.go`, `cmd/cpg/audit_window.go`, `pkg/k8s/exec.go` |
| `AuditWindowProofs` | theorems about it | |
| `Pipeline` | all goroutines of `RunPipelineWithSource` over a live and over a replay source | `pkg/hubble/pipeline.go`, `aggregator.go`, `client.go`, `health_writer.go`, `pkg/flowsource/file.go` |
| `PipelineProofs` | theorems about it | |
| `EvidenceStore` | the evidence file of one workload and the runs that write it | `pkg/evidence/merge.go`, `writer.go`, `pkg/hubble/evidence_writer.go`, `recordAttribution` |
| `EvidenceStoreProofs` | theorems about it | |
| `PolicyRules` | the pure part of policy generation: labels, peer buckets, rules, path collapse, merge, equivalence | `pkg/policy/builder.go`, `merge.go`, `dedup.go`, `l7.go`, `l7_collapse.go`, `companion_dns.go`, `pkg/labels/selector.go` |
| `PolicyStore` | the aggregator's buckets and flushes, the policy writer and the YAML files, over several runs; uses `PolicyRules` | `pkg/hubble/aggregator.go`, `writer.go`, `pkg/output/writer.go`, `pkg/k8s/cluster_dedup.go` |
| `GrantStore` | what merge-on-write promises: the abstract specification of the files | the contract of `output.Writer.Write` |
| `QueryPages` | the paged query tools over the directory of a session that is still being written | `cmd/cpg/mcp_query.go`, `mcp_query_evidence.go`, `mcp_query_flows.go`, `mcp_query_pagination.go`, `pkg/explain/filter.go` |
| `QueryPagesProofs` | theorems about it | |
| `PolicyRulesProofs` | lemmas about `PolicyRules`: what one step of the merge, a whole merge and a build return | |
| `PolicyStoreProofs` | theorems about `PolicyStore` and its refinement of `GrantStore` | |
| `SequenceLemmas` | induction in a form the provers can use, and facts about the community modules' sequence operators | |
| `MCSessionManager`, `MCPipeline` | the symmetry sets of the instances | |
| `MCPolicyStore`, `MCQueryPages` | the flows, options and clusters, and the names and requests, of the instances | |

An operator whose comment starts with *Variant* is not part of a specification:
it is the definition after it with a plausible fault (a dropped guard, a missing
reset, an unbounded wait). Each property was seen to fail with one of them in
place; `PROJECT.json` lists which under "mutants".

### SessionManager

A member of `Sessions` is one `start_session` call with the id it mints; a member
of `Stoppers` is one `stop_session` call. `slot` is `Manager.session`; `state`,
`tmpDir`, `once`, `explicitStopSeen`, `final`, `pipelineErr` and `done` are the
fields of each `Session`; `startPc`, `pipePc`, `stop` and `shut` say where each
call and each `launch` goroutine is. `StartClaim` is the first critical section of
`Start`, which purges a retained session; `MkdirTemp`, `ReachRelay` and
`SetupFails`/`DedupFails` are the unlocked setup; `StartFinalize` and `StartAbort`
are its last section. `AfterRun`, `AutoStop` and `SignalDone` are what `launch` does
when the pipeline returns: close the port-forward, stop the session unless its
context is done, and signal. `done` holds one value, which is why the signal needs no
receiver. `StopCancel` to `StopReturn` are `Stop` under
`stopOnce`, `ShutdownTake` to `ShutdownReturn` are `Shutdown`. A deadline is a step
that may be taken at any moment of its wait. The pipeline writes into its
directory while it runs, and recreates it when it was removed: the writers call
`MkdirAll`. `timedOut` and `purgedLive` are history variables.

`SessionSlot` has one variable, the phase of each id as a client can see it: new,
capturing, stopped, gone. `SessionManager` implements it under the mapping
`phase`, which reads the slot and the states.

### AuditWindow

`Endpoints` are UIDs; `epId` is the id the node has given each of them. The
environment creates, deletes and renumbers endpoints (`rebound` remembers the ids
that changed hands). `Open` is `Precondition`, `List`, one `SweepNext` per endpoint and
`OpenReturns`; the watcher (`WatchEvent`) runs beside it. `flipIfNeeded` is three
steps, `FlipRead`, `FlipSet` and `FlipRecord`, because the agent is asked twice and the
id may change hands in between; `FlipSet` and `CloseRevert` may fail before or after
the agent has acted. Three callers, the command, its `defer` and the signal
handler, go through `ShutdownCancel`, the wait for the watcher and the wait for the
sweep, which `CloseEnter`, `CloseResolve`, `CloseRevert` and `CloseDone` perform once.

### Pipeline

A flow is a number; `received` says what the aggregator will make of it: a workload,
an infra drop or something it leaves out. `flows`, `lostCh`, `policies`, `policyCh`,
`evidenceCh` and `healthCh` are the channels, with capacities as constants. Sending
and receiving are actions that wait for room and for a value; a `select` is a
disjunction. `FlushSend` sends one event per bucket, and `FanPolicy` and `FanEvidence` are
the fan-out's two sends. `SurfaceError` and `NoErrorToSurface` are stage 0. `Return` is
what follows `g.Wait()`.

### EvidenceStore

A run is a process, named by its `StartedAt`; a flow is its timestamp, 0 for one
that has none. `file` is the file of one workload. `Handle` and `Finalize` read and merge
it (`Merge`, `mergeRule`, `capSamples`, `capSessions`: the functions of `merge.go`),
`CreateTemp`, `FillTemp` and `Rename` replace it, `WriteFails` and `Crash` interrupt that
anywhere. The history variables remember what the renames have put into the
file, and whether one of them replaced a document it had not read.

### PolicyRules and PolicyStore

A flow carries what the builder looks at: direction, the labels and namespace of
the pods the policy is for, peer, port and L7 record. A policy is the labels it
selects and its rules in emission order; a rule has one peer, its ports with
their L7 sub-lists, its ICMP types and its `ToFQDNs`. `BuildPolicy` follows the code:
flows into buckets by `PeerKey`, which for an endpoint holds the labels only
(`GroupFlows`), a port rule and an ICMP rule per bucket (`RulesFrom`), FQDN rules,
the kube-dns companion. `MergePolicy` folds the incoming rules into the first rule
that matches; `MergePortRules` and `MergeL7Rules` unite, or replace the HTTP list.

`PolicyStore` is the path of a flow. `Observe` is `keyFromFlow` and the bucket;
`Flush` and `BuildBucket` are the flush loop, whose last iteration moves the paths
of the window into the whole-run store (`Absorb`); the event goes into `queue`.
`SkipForClusterMatch`, `SkipForCrossFlushMatch`, `DryRunEmit`, `WriteOk` and
`WriteFails` are the ways `handle` ends. `Restart` is a new run over the same files,
after an exit or a kill: everything but `file` is lost. The histories: `settled` and
`deployed` are the flows the writer has dealt with, `ever` those a policy was built
from, `collapsed` says whether any run had the collapse on.

The data is abstracted to what the properties tell apart. A workload name is the
set of label values the code joins. The class and the decoded form of a path
segment are constant functions, and the 256 characters a template may have are a
number of segments. Labels are those of source `k8s`. `PoliciesEquivalent` may
answer FALSE of two policies that differ only in the order of ports
(`OrderSensitive`): the code does not normalise it.

`GrantStore` has one variable, the grants (peer with port or ICMP type) of each
workload's file, and one action, which makes one of them grow.

### QueryPages

The writing side is as coarse as a reader can see it: a policy file appears, a
sample enters a rule of an evidence file and the oldest leaves, a drop is counted,
the pipeline returns and leaves a report, the session stops by itself or by `Stop`,
a later start purges the directory. The reading side is one client. A handler is
two steps, because the code resolves the session first and opens the files later:
`Resolve` takes the status, `AnswerPage`, `AnswerNotFound` or `AnswerHealth` scans the
files. `Paginate` and the three item lists (`ListPolicies`, `GetEvidence`,
`BuildCombinedItems`) follow the code, keys and indices included. `base`, `got`,
`inserted` and `removed` are histories of one listing. `Present` says which rows a
request is about, independently of how they are sorted and cut into pages.

## 3. Runs

| run | what it checks | result |
|---|---|---|
| `session` | No port-forward leaks or is closed twice (`PortForwardOwned`); no capture is lost track of (`LiveSessionReachable`); no directory leaks (`DirectoryOwned`); no dead session is reported as capturing (`DeadSessionNotCapturing`); one first stop (`OneFirstStop`); summaries are final (`SummarySettled`); the slot's contract (`SlotSpec`) | holds |
| `session_live` | `StopReturns`, `ShutdownReturns`, `CancelledSessionDrains` | holds |
| `session_retained` | a session whose stop was acknowledged stays queryable | violated |
| `audit` | Every endpoint left in audit mode is named (`RevertedOrNamed`); what was in audit mode before is left alone (`ForeignUntouched`); the sweep sees what the watcher did (`SnapshotAfterDrain`) and runs once (`ResultsFinal`); the command ends, whatever is wedged (`WindowCloses`) | holds |
| `pipeline` | Each flow reaches each writer once (`FlowsConserved`); no send on a closed channel (`NoSendOnClosed`); both writers see one history (`WritersAgree`); drops are accounted for (`HealthAccounted`); a clean run is complete (`CleanRunComplete`); a failure is never a clean exit (`FailureSurfaced`) | holds |
| `pipeline_live` | no stage waits for ever (`PipelineReturns`) | holds |
| `evidence` | Totals are those of all flows written (`TotalsExact`); capping at each flush equals capping once (`SamplesNewest`); the session list is right although old runs write late (`SessionLedger`); the file is never torn (`Readable`) | holds |
| `policy` | What was handled stays allowed through later flushes, failures and runs (`HandledFlowsCovered`); nothing is allowed that was not dropped (`NothingUnjustified`); no literal survives beside its template (`NoShadowedLiteral`); FQDN rules come with DNS (`CompanionPresent`); the files implement `GrantStore` (`GrantsOnlyGrow`) | holds |
| `policy_fqdn` | every observed DNS name is among the file's `ToFQDNs` | violated |
| `policy_l7_leak` | a policy allows only requests its own workload received or sent | violated |
| `query` | Paging over changing files loses or repeats rows only one for one (`DriftBounded`); every cursor lies after the last (`CursorAdvances`); "no drops" is true (`NoDropsTruthful`) | holds |
| `query_order` | `DriftBounded`, with a workload whose name extends another's by a hyphen and pages of two: the same page comes again and again | violated |

Some properties have conditions that say what the code cannot promise; with any of
them removed TLC finds a counterexample.

* `DirectoryOwned` excepts a directory that was removed under a running pipeline:
  the pipeline brings it back, and nobody removes it again.
* `RevertedOrNamed` excepts the case in which `stopWait` expired with the watcher
  inside a flip, and ids that changed hands (section 7).
* The exactness properties of `EvidenceStore` except a file in which a rename has
  replaced a document it had not read: the comment on `evidence.Writer` leaves that
  to callers, and two processes over one output directory do not keep to it.
  `Readable` has no condition.
* `HandledFlowsCovered` has four. `SharedBucket`: peers with equal labels in two
  namespaces share a bucket and get the selector of the first. `EncodedPath`: the
  literal rule of a percent-encoded path is written decoded. `SharedName`: the file
  selects other pods whose flows have the same key. `Namesake`: the cluster snapshot
  is looked up by policy name, and the namesake is in another namespace. Of a DNS
  query it claims the permission of the lookup, not `ToFQDNs` (`policy_fqdn`). A
  request settled in an earlier run no longer counts once a run with the collapse
  on has started: that run rewrites the HTTP lists.
* `NothingUnjustified` accepts, once a run had the collapse on, requests of other
  workloads as the source of a path (`policy_l7_leak`); and, where two namespaces
  have peers with equal labels (`SharedBucket`), the port of the one for the other.
* `NoShadowedLiteral` leaves out flows whose bucket another peer created.
* `DriftBounded` and `CursorAdvances` hold where the directory lists its files in the
  order of their keys; `query_order` shows what happens where it does not.
* `NoDropsTruthful` excepts a `Stop` that gave up on the pipeline, a report that
  could not be saved, and a purge between reading the status and the file. It speaks of
  the drops the health writer counted: an event the aggregator held when it was
  cancelled is not among them (`HealthAccounted`).

The runs switch TLC's deadlock check off, because every one of these systems may
come to rest: a server whose calls have all returned, a command that has exited,
a capture that has ended. That nothing rests too early is what the liveness
properties say of the session manager, the audit window and the pipeline.

## 4. Bounds

* `session`: 2 starts, 2 stops. Two starts are needed for a session that is purged,
  or set up, while another owns the slot; two stops for the race on `stopOnce` and
  for the question which one was first. `session_live` has one session: the
  deadlines involve no second one.
* `audit`: 2 endpoints and 2 ids, so that an id can pass from one endpoint to the
  other. The three callers are all there are. The run has a temporal property, so
  it uses no symmetry.
* `pipeline`: 3 flows, 2 workloads, 1 lost event, channels of capacity 1. With room
  for one, every blocking order shows up after two events; the real capacities
  (64 to 256) only delay it. `pipeline_live`: 1 workload, 2 flows.
* `evidence`: 3 runs, at most 3 flows in all and 3 in one flush, dated 1, 2 or not at
  all, 2 samples, 2 sessions: a third session makes the cap act, and a third
  flow both caps on samples. One rule, since rules are merged independently.
* `policy`: 3 flows out of 15, 2 runs, each with one of 3 options, with and without
  a policy in the cluster. The flows are those of two workloads of one name in two
  namespaces, of other pods that share the name, and of the host, and meet every
  kind of peer, protocol and L7 record the builder tells apart. A template needs 2
  requests, so that two of three flows make one and the third comes before or after
  it. Two flows and two flushes show each pair of flows merged in either order; the
  third is for the companion, which one pair makes and the next flow must not undo.
* `query`: 3 workloads, one of them with unreadable files, 2 rules, 3 samples of which
  2 are kept, 4 writes, pages of 1 and of 2. A listing has then up to three pages, with
  writes and evictions before, between and after them. `query_order` differs in the
  names, and in a default page of 2.

`Symmetry` permutes sets whose members the specification treats alike; liveness runs
do not use it. The theorems need none of these bounds.

## 5. Fairness

* Session manager: weak fairness of the setup of a start (every step has a
  timeout), of what follows the return of a pipeline, of `Stop` and of `Shutdown`
  (both have deadlines), and of a pipeline **whose context is cancelled**. Nothing is
  assumed of clients, and nothing of a pipeline nobody cancelled. A `Stop` returns
  even so when its pipeline is stuck: the deadline is part of `StopTeardown`.
* Audit window: only the timers, that is the TTL and the deadlines of the two
  `Shutdown` calls the command itself makes. No fairness of the cluster, the agent,
  the watcher or the sweep: each may be wedged for ever.
* Pipeline: each goroutine of the group runs; the source does not hold back a flow
  it has room for, ends when its context is cancelled, and closes its channels
  once it has ended. The relay may be silent for ever. Each consumer has fairness
  of its own, since each is a goroutine.
* `EvidenceStore`, `PolicyStore` and `QueryPages` are checked for safety only: a run may
  stop at any moment, and a client need not ask for the next page. That a client who
  does ask comes to an end follows from `CursorAdvances`.

## 6. Proofs

`SessionManagerProofs` proves, for any number of starts and stops, that the
specification satisfies `TypeOK`, `PortForwardOwned`, `LiveSessionReachable`,
`DirectoryOwned`, `DeadSessionNotCapturing`, `OneFirstStop` and `SummarySettled`, and that
it implements `SessionSlot`. The only assumption is `SlotAssumption`: the empty slot is
not a session. None of these is inductive alone. The argument has layers:

* `Control`: which ids exist (`IdsExist`), that the goroutine, the published
  directory and the return of `Start` go together (`GoroutineAfterStart`), and at which
  points a port-forward is open (`PortForwardPhase`).
* `CancelCauses`: who may have cancelled a session. A cancelled session in the slot
  that still says "capturing" has a failing start or a stop in the middle of its
  teardown; that is what makes the transition `launch` skips harmless.
* `LiveSessionReachable` and `ReleasedDirectory`: what a session that lost the slot
  may still own.
* `SettledTeardown`: a teardown without a timeout has seen the goroutine exit.
* `FirstStopMemory`: `explicitStopSeen` is set exactly when a summary was returned.

The refinement proof goes through the actions once more: each changes the phase
of one id in a way `SessionSlot` allows, or of none. `Begin` there requires that
nothing captures, which `IdsExist` and the claim's guard give.

`AuditWindowProofs` proves `TypeOK`, `RevertedOrNamed`, `ForeignUntouched`,
`SnapshotAfterDrain` and the action property `ResultsFinal`, for any number of
endpoints and ids, from `IdAssumption` (no id is the null one). The invariant:

* `DistinctIds`: two live endpoints never share an id;
* `Bindings`: an id held for a UID, in whatever variable, either changed hands or
  still names that UID. This is the fact that makes an id safe to use at all;
* `Phases`: what each phase of the command excludes, above all that nothing flips
  after the drain unless `stopWait` expired;
* `Outcomes`: what a successful revert, and a report, imply;
* `Foreign`: a native endpoint whose id is its own is in no list of the manager.

`PipelineProofs` proves every safety property of `Pipeline`: `TypeOK`,
`FlowsConserved`, `NoSendOnClosed`, `WritersAgree`, `HealthAccounted`,
`CleanRunComplete` and `FailureSurfaced`, for any workloads, capacities and bounds,
from `BoundsAssumption` (capacities are positive, and no workload is called "infra" or
"excluded"). `TypeOK` itself is not inductive: a counter stays in its range only
because what it counts was received. The layers:

* `Counters` and `InHand`: what is in a channel or a counter was produced by the
  source, and every infra drop is in one of four places, or is the one in the
  aggregator's hand when the group is cancelled;
* `Closing`: the stages exit in the order of their channels, which gives
  `NoSendOnClosed` and, with `InHand`, `HealthAccounted`;
* `Agree`: what the policy writer has had or will get is what the evidence writer
  has had or will get, but for the event in the fan-out's hand;
* `Errors` and `Drained`: a transport failure is in `errCh` until stage 0 makes it the
  group's error, and only a cancellation leaves flows in the channel;
* `Queue` and `Tally`: the flows in the channel are distinct, and the flows past it
  are in one bucket or one event each, under their own workload, and as many as
  were counted. Every step but `FlushSend` leaves the sequence handed to a writer as
  it was (`HandedStep`); by `Agree` it is the same sequence for both;
* `Kept` and `Finished`: without a cancellation the counters are the cardinalities of
  the past flows of their kinds, and a stage that is over has left nothing behind.
  At the end everything received is past, and a set of events with as many flows
  as there are bucketed ones has them all: `CleanRunComplete`.

`EvidenceStoreProofs` proves `TypeOK`, `TotalsExact`, `SamplesNewest`, `SessionLedger` and
`Readable` for any number of overlapping runs, any caps, batches and times, from
`CapsAssumption` (runs are numbers, a cap on samples is positive). Two layers:

* `Atomic`, for `Readable`: a run renames only a file it has filled, and is inside
  `Write` only over a file that was absent or a document.
* `Typed`, `Open` and `Summed`, for the rest: while no rename has replaced a document
  its writer had not read, the document on disk **and the one in the memory of every
  writer that read the current one** are exactly what the histories say
  (`ExactDoc`: `ExactRule` for each rule, `Ledger` for the sessions). The second half is
  what makes the first inductive. The step is `MergedDocument`, about the functions of
  `merge.go` alone: `ByTimeFacts` (sorting permutes), `NewestLast` (the last of the
  sorted samples are the newest) and `Kept`, that capping what was capped before keeps
  what one cap over everything would keep.

`PolicyStoreProofs` proves `TypeOK`, `CompanionPresent`, `HandledFlowsCovered`,
`NothingUnjustified`, `NoShadowedLiteral` and the refinement `GrantsOnlyGrow` for any flows,
options, cluster policies, bounds and runs. It assumes that flows are flows, options are options
(`FlowsAssumption`, `OptionsAssumption`, `BoundsAssumption`), and that the name of a class
is not a path segment (`ClassAssumption`: in the code a class is a regular expression).
`PolicyRulesProofs` has the facts about policies these rest on: `MergeRuleCases` and
`MergePolicyFacts` (what a merge leaves of each old and each incoming rule, in terms of
`Grows`), `BuildPolicyFacts` (which buckets give which rules), `BuildPolicySolo` and
`MergeKeepsSolo` (of the rules that match one another only the first has HTTP lists). The
invariants:

* `TypeInv` with `Accompanied`: a policy that names FQDNs is built with a companion rule,
  and a merge loses none of its ports; this gives `CompanionPresent`.
  `GrantsRefined` follows from `TypeInv` and `Grows` alone.
* `Coverage`, for `HandledFlowsCovered`, is five facts. `Flowing`: a flow waits in the
  bucket of its own workload. `Subjects`: events and files select the pods of a flow
  of theirs. `Listing`: with the collapse on, the run-wide store holds every request
  already handled, so that the list that is about to *replace* the one in the file
  admits them all, in queue order; without this the replacement would lose requests.
  `Serving`: each event serves its flows, each file those settled. `Remembered`: what
  `written` remembers is still in the file, perhaps merged with more. This is what makes
  skipping an unchanged policy safe after a failed write.
* `Justified`, for `NothingUnjustified`: events and files have justified rules only, and
  the store has only requests that were seen. A template stands for enough requests
  because its group is a subset of them (`ClassAssumption` keeps a pattern from being
  counted as a request).
* `Unshadowed`, for `NoShadowedLiteral`. `CollapseIsClean` is about the collapse alone: a
  template of a group that passed the gate matches no request of the group but those it
  stands for, and each of these was replaced by it. A merge puts the incoming list in
  the *first* rule that matches, so the old lists are gone only if no later one has any:
  `Alone` says that of every event and file (`Solo`). `Sweepers`: a queued policy has a
  list for each request it brings and replaces what it meets. `Swept`: the lists of the
  policy in `written` have been cleaned in the file, so that the event skipped because it
  is equal to it leaves nothing behind. `SettledClean` is the claim itself, kept by
  writes that merge other rules in between.

`QueryPagesProofs` proves every property of `QueryPages`, for any names, files, requests
and page sizes: `TypeOK`, `NoDropsTruthful`, and, **where the directory lists files in the
order of their keys** (`FilesInKeyOrder`, a hypothesis of the theorem and not of the
model, since the code does not ensure it), `CursorAdvances` and `DriftBounded`. The
assumptions are that the two orders list the same workloads once each
(`OrdersAssumption`), that limits are positive numbers (`NumbersAssumption`) and that
requests are well formed (`RequestsAssumption`). The invariants:

* `Settled`, for `NoDropsTruthful`: a stopped session has no running pipeline unless `Stop`
  timed out, a pipeline that has returned has reported its drops, and the status a
  handler holds may be old but "stopped" is final.
* `Typed`, with the lemmas about the scans (`PoliciesFacts` and its like: the items are the
  rows present, in strictly increasing key order, each with its `Index`), gives
  `CursorAdvances`: a page begins after the cursor, and a cursor is the key of its last row.
* `Remembered` and `Drift`, for `DriftBounded`. The index in a key is a *position*, so one row
  that enters or leaves a group moves the keys of all the rows behind it. `Within` is the
  budget: rows already returned that are now ahead of the cursor again (`Crossed`), with
  those returned twice, are at most the insertions, and rows of the first scan that are
  now behind the cursor and were not returned (`Missed`) at most the removals. An
  insertion carries at most one row over the cursor and an eviction takes at most one
  back, since a shift by one moves the row at the boundary only (`WithinShift`). A page turn
  moves the cursor past rows it returns and leaves both sets as they were.

The proofs about sorts, folds and concatenations use `NatSetInduction` of
`SequenceLemmas`: induction stated over the *set* of the numbers a fact holds of, which
the provers can instantiate where the library's rules, which take an operator, cannot.

Every invariant the passing runs check, and every action property, is proved. Only
model-checked are the liveness properties: fairness and `ENABLED` are out of the
prover's reach.

## 7. Where the code and its comments disagree

With a run that shows it:

* **An acknowledged stop may be forgotten** (`session_retained`). A refused start tells
  the client the id of the session in the slot. A stop of that session during its
  setup is acknowledged; when the setup then fails, `fail()` empties the slot, and the
  next query answers that the id is not found, although a stopped session "stays
  queryable".
* **A later DNS name is not granted** (`policy_fqdn`). Two FQDN rules match whatever they
  name; the merge unites their ports and leaves `ToFQDNs` as it was. The name may be
  looked up and not reached, although new peers are said to be appended.
* **Paths leak between workloads** (`policy_l7_leak`). The key of the whole-run path store
  has direction, peer and port and no workload. What one workload received from a
  peer appears in the policy of another with the same peer. The plan of the engine
  (`25-01-PLAN.md:93`) has "never leak collapse state across AggKeys" as a constraint, and
  an `AggKey` is a namespace and a workload.
* **list_policies may return one page for ever** (`query_order`). Rows come in the order of
  `os.ReadDir`, in which `a-b.yaml` precedes `a.yaml`; the cursor compares names, of which
  `a` precedes `a-b`. After a page that ends with `a` the first row beyond the cursor is
  `a-b` again: the client gets the same page and the same cursor for ever, and what
  follows is never shown. A page that ends with `a-b` skips `a` instead. The comment
  says the rows are sorted.

Met while modelling, as conditions of the properties above:

* When `stopWait` expires, `Stop` marks the session stopped with the pipeline still
  running and writing; `session.go` says a stopped session "has zero live resources".
* If `stopWait` expires while the watcher is inside `flipIfNeeded`, the endpoint is
  recorded after the sweep's snapshot; the comment says no flip can escape. When an
  id cannot be resolved again, `Close` uses the recorded one, which the node may have
  given to another endpoint.
* The fan-out closes three channels in a row, which does not order the exits of the
  drainers, as a comment has it. Nothing depends on it today.
* The gaps of policy generation that section 3 names: shared buckets, encoded paths,
  shared workload names (rules seen on the other pods are granted as well),
  namesakes in the cluster.
* The companion may be merged into a plain rule for the DNS pods and narrow it to
  the names it knows. A new run with the collapse on drops the requests of earlier
  runs from the lists it writes. A policy without rules is written when none of a
  bucket's flows could be turned into one.
* `get_cluster_health` may answer "no_drops" after a `Stop` that timed out, a failed
  `finalize`, or a purge.
* `Stop` overwrites the `StoppedAt` that the end of the pipeline has set.
* `healthChDrops` is read by tests only, so drops lost to back-pressure are not in
  the report; a scanner error truncates a replay and the run ends as a clean one;
  `finalize` passes the number of lost events as `flows_unhandled`; a rule's
  contributing sessions may name one that the session cap has dropped; `/32` is
  appended to IPv6 addresses too.

## 8. What is not modelled

Times (only their order), log lines, the text of YAML, JSON and of the summary,
the validation of tool arguments, the version and permission checks before a
capture, RBAC. Machine crashes: the writers do not call `fsync`, and nothing is said
of power loss. In the audit window there is one node, and nobody else changes
audit modes. `Pipeline` and the two stores are not composed: `Pipeline` shows that
both writers get the same events in the same order, and the stores start from
there. Of the policies: files edited by hand or without a spec, two label sets
whose joined values are the same string, the cut of a name at 63 bytes, the
bootstrap policy, annotations and diffs. Of the query tools: `get_policy`, which is
one read of one file, and the truncation of a long health report. The unhandled
tracker only counts for log lines; the namespace watcher is one goroutine whose
findings are printed at the end, and nothing waits for it. `PROJECT.json` gives the
status of each component and the reason.

## 9. Plan

1. `NamespaceWatcher`: list, watch and an early end, against the reader at the end
   of the run.
2. A composition of `Pipeline` with `PolicyStore` and `EvidenceStore`: an abstract
   pipeline that hands each writer the same sequence of events, which `Pipeline`
   implements and the stores start from.
