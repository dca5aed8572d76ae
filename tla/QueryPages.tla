----------------------------- MODULE QueryPages -----------------------------
(***************************************************************************)
(* The read side of the MCP server: list_policies, get_evidence,           *)
(* list_dropped_flows and get_cluster_health over the directory of one     *)
(* session, while the capture still writes into it.  The server keeps no   *)
(* snapshot between two pages: each call resolves the session, scans the   *)
(* files again and resumes after the key in the client's cursor.           *)
(*                                                                         *)
(* A handler reads the session's status first and the files later, so it   *)
(* is two steps; one scan of the files is a single step.                   *)
(***************************************************************************)
EXTENDS Integers, FiniteSets, SequencesExt

CONSTANTS
    KeyOrder,      \* workloads sorted by (namespace, workload)
    ReadDirOrder,  \* the same workloads in the order ReadDir lists their files
    Unreadable,    \* workloads whose files do not parse
    Rules,         \* rule keys of an evidence file, numbered in sorted order
    Times,         \* bound: one flow sample per element
    MaxWrites,     \* bound: policy files, samples and counted drops together
    Undescribed,   \* the samples with DROP_REASON_UNKNOWN
    Reasons,       \* infra and transient drop reasons, numbered in sorted order
    Class,         \* Class[reason]: "infra" or "transient"
    Egress,        \* the rules of direction egress
    MaxSamples,    \* MergeCaps.MaxSamples
    DefaultLimit, MaxLimit,
    Requests,      \* what the client may ask for: [tool, target, rules, dir,
                   \* class, limit, bad], bad for a malformed cursor
    None           \* no filter, no cursor, no request

Workloads == ToSet(KeyOrder)

\* Both name every workload once.
ASSUME OrdersAssumption ==
    /\ KeyOrder \in Seq(Workloads) /\ IsInjective(KeyOrder)
    /\ ReadDirOrder \in Seq(Workloads) /\ ToSet(ReadDirOrder) = Workloads
    /\ Len(ReadDirOrder) = Len(KeyOrder)

ASSUME NumbersAssumption ==
    /\ Rules \subseteq Nat /\ Times \subseteq Nat /\ Reasons \subseteq Nat
    /\ {MaxSamples, DefaultLimit, MaxLimit} \subseteq Nat \ {0}

ASSUME RequestsAssumption ==
    /\ None \notin Nat \X Nat
    /\ \A q \in Requests :
          /\ q.limit \in Int /\ q.dir \in {None, "egress", "ingress"} /\ q.rules \subseteq Rules
          /\ q.tool = "get_evidence" => q.target \in Workloads

VARIABLES
    policies,   \* workloads with a policy file
    evidence,   \* evidence[w][r]: times of the samples kept for rule r
    drops,      \* <<w, reason>> the health writer has accumulated
    report,     \* rows of cluster-health.json, {} when there is no file
    used,       \* times of the flows seen so far
    pipeline,   \* "running", or it returned: "cancelled", or "alone" with the
                \* goroutine about to mark the session stopped, then "settled"
    cancelled,  \* Stop has cancelled the session's context
    state,      \* Session.State: "capturing" or "stopped"
    failed,     \* pipelineErr is set
    purged,     \* a later start_session took the slot and the directory
    timedOut,   \* history: Stop gave up waiting for the pipeline
    unsaved,    \* history: the health report could not be written
    call,       \* the client's request, page by page
    base,       \* history: rows that existed when the first page was read
    got,        \* history: rows the client received, in order
    inserted,   \* history: rows added since the first page was read
    removed     \* history: rows evicted or purged since then

files == <<policies, evidence, drops, report, used>>
session == <<pipeline, cancelled, state, failed, purged, timedOut, unsaved>>
client == <<call, base, got>>
drift == <<inserted, removed>>
vars == <<files, session, client, drift>>

Init ==
    /\ policies = {}
    /\ evidence = [w \in Workloads |-> [r \in Rules |-> {}]]
    /\ drops = {} /\ report = {} /\ used = {}
    /\ pipeline = "running" /\ cancelled = FALSE /\ state = "capturing"
    /\ failed = FALSE /\ purged = FALSE /\ timedOut = FALSE /\ unsaved = FALSE
    /\ call = [pc |-> "idle", q |-> None, after |-> None, status |-> None]
    /\ base = {} /\ got = <<>>
    /\ inserted = 0 /\ removed = 0

\* Bound: the capture goes on, but what it writes after the client's last
\* answer is left out.
Writable ==
    /\ pipeline = "running" /\ call.pc \in {"idle", "resolved", "paged"}
    /\ Cardinality(policies) + Cardinality(used) + Cardinality(drops) < MaxWrites

Listing == call.pc # "idle" /\ base # {}

-----------------------------------------------------------------------------
(* The capture, as far as the files show it.                               *)

WritePolicy(w) ==
    /\ Writable /\ w \notin policies
    /\ policies' = policies \cup {w}
    /\ inserted' = IF Listing THEN inserted + 1 ELSE inserted
    /\ UNCHANGED <<evidence, drops, report, used, session, client, removed>>

\* Variant: a new sample is appended and nothing is capped.
NewestUncapped(ts) == ts

Newest(ts) == {t \in ts : Cardinality({u \in ts : u > t}) < MaxSamples}

\* A flush that brings one flow: the rule is added or its samples merged.
WriteEvidence(w, r, t) ==
    LET old == evidence[w][r]
        new == Newest(old \cup {t})
    IN  /\ Writable /\ t \notin used
        /\ used' = used \cup {t}
        /\ evidence' = [evidence EXCEPT ![w][r] = new]
        /\ IF Listing THEN /\ inserted' = inserted + Cardinality(new \ old)
                           /\ removed' = removed + Cardinality(old \ new)
                      ELSE UNCHANGED drift
        /\ UNCHANGED <<policies, drops, report, session, client>>

Accumulate(w, reason) ==
    /\ Writable
    /\ drops' = drops \cup {<<w, reason>>}
    /\ UNCHANGED <<policies, evidence, report, used, session, client, drift>>

\* RunPipeline returns: finalize writes the report when there were drops.
PipelineExits ==
    /\ pipeline = "running"
    /\ pipeline' = IF cancelled THEN "cancelled" ELSE "alone"
    /\ \/ report' = drops /\ UNCHANGED unsaved
       \/ drops # {} /\ unsaved' = TRUE /\ UNCHANGED report
    /\ UNCHANGED <<policies, evidence, drops, used, cancelled, state, failed,
                   purged, timedOut, client, drift>>

\* The launch goroutine's transition when nobody had cancelled the session.
StopsByItself ==
    /\ pipeline = "alone"
    /\ pipeline' = "settled"
    /\ state' = "stopped"
    /\ failed' \in BOOLEAN
    /\ UNCHANGED <<files, cancelled, purged, timedOut, unsaved, client, drift>>

StopCancels ==
    /\ state = "capturing" /\ ~cancelled
    /\ cancelled' = TRUE
    /\ UNCHANGED <<files, pipeline, state, failed, purged, timedOut, unsaved, client, drift>>

StopReturns ==
    /\ cancelled /\ state = "capturing"
    /\ state' = "stopped"
    /\ timedOut' = (pipeline = "running")
    /\ UNCHANGED <<files, pipeline, cancelled, failed, purged, unsaved, client, drift>>

\* start_session discards the stopped session and its directory.
Purge ==
    /\ state = "stopped" /\ ~purged
    /\ purged' = TRUE
    /\ policies' = {} /\ report' = {}
    /\ evidence' = [w \in Workloads |-> [r \in Rules |-> {}]]
    /\ removed' = removed + Cardinality(base)
    /\ UNCHANGED <<drops, used, pipeline, cancelled, state, failed, timedOut,
                   unsaved, client, inserted>>

-----------------------------------------------------------------------------
(* Pagination.  A key is <<position of (namespace, workload), index>>; an  *)
(* item is a row with its key, a row <<kind, workload, rule, time>>.       *)

Sorted(S) ==
    [i \in 1..Cardinality(S) |-> CHOOSE x \in S : Cardinality({y \in S : y < x}) = i - 1]

Key(w, i) == <<CHOOSE p \in DOMAIN KeyOrder : KeyOrder[p] = w, i>>

KeyLess(a, b) == a[1] < b[1] \/ (a[1] = b[1] /\ a[2] < b[2])

ClampLimit(limit) ==
    IF limit <= 0 THEN DefaultLimit ELSE IF limit > MaxLimit THEN MaxLimit ELSE limit

\* Variant: the scan resumes at the cursor instead of after it.
FirstNotBefore(items, after) ==
    LET later == {i \in DOMAIN items : after = None \/ ~KeyLess(items[i].key, after)}
    IN  IF later = {} THEN Len(items) + 1
        ELSE CHOOSE i \in later : \A j \in later : i <= j

\* First item after the cursor, Len(items) + 1 when there is none.
FirstAfter(items, after) ==
    LET later == {i \in DOMAIN items : after = None \/ KeyLess(after, items[i].key)}
    IN  IF later = {} THEN Len(items) + 1
        ELSE CHOOSE i \in later : \A j \in later : i <= j

Smaller(a, b) == IF a < b THEN a ELSE b

\* Variant: the cursor names the first row of the next page.
PaginateNext(items, after, limit) ==
    LET start == FirstAfter(items, after)
        end   == Smaller(start + ClampLimit(limit) - 1, Len(items))
    IN  [page |-> SubSeq(items, start, end), more |-> end < Len(items),
         next |-> IF end < Len(items) THEN items[end + 1].key ELSE None]

Paginate(items, after, limit) ==
    LET start == FirstAfter(items, after)
        end   == Smaller(start + ClampLimit(limit) - 1, Len(items))
    IN  [page |-> SubSeq(items, start, end), more |-> end < Len(items),
         next |-> IF end < Len(items) THEN items[end].key ELSE None]

-----------------------------------------------------------------------------
(* What each tool scans.                                                   *)

\* One row per readable file, in the order the directory lists them.
ListPolicies ==
    FlattenSeq([i \in DOMAIN ReadDirOrder |->
        LET w == ReadDirOrder[i] IN
        IF w \in policies \ Unreadable
        THEN <<[key |-> Key(w, 0), row |-> <<"policy", w, 0, 0>>]>> ELSE <<>>])

RulesOf(w) == Sorted({r \in Rules : evidence[w][r] # {}})

\* The filter is any predicate on rules: the request names those it selects.
FilterMatch(q, r) == r \in q.rules

\* The index is the rule's position in the whole file; the filter comes after.
GetEvidence(q) ==
    LET rs == RulesOf(q.target) IN
    FlattenSeq([i \in DOMAIN rs |->
        IF FilterMatch(q, rs[i])
        THEN <<[key |-> Key(q.target, i - 1), row |-> <<"rule", q.target, rs[i], 0>>]>>
        ELSE <<>>])

\* classifyDropReasonName: reason 0 in the evidence is never "transient".
SampleClass(t) == IF t \in Undescribed THEN "unknown" ELSE "policy"

MatchesWorkload(q, w) == q.target \in {None, w}

MatchesDirection(q, r) == q.dir \in {None, IF r \in Egress THEN "egress" ELSE "ingress"}

CollectSamples(q, w) ==
    LET rs == RulesOf(w)
        shown(r) == {t \in evidence[w][r] : q.class \in {None, SampleClass(t)}}
        rows(r) == LET ts == Sorted(shown(r))
                   IN  [i \in DOMAIN ts |-> <<"sample", w, r, ts[i]>>]
    IN  FlattenSeq([i \in DOMAIN rs |->
            IF w \notin Unreadable /\ MatchesDirection(q, rs[i]) THEN rows(rs[i]) ELSE <<>>])

\* Aggregate rows carry no direction, so the direction filter spares them.
CollectAggregates(q, w, status) ==
    LET rs == Sorted({r \in Reasons : <<w, r>> \in report /\ q.class \in {None, Class[r]}})
    IN  IF status = "capturing" THEN <<>>
        ELSE [i \in DOMAIN rs |-> <<"aggregate", w, rs[i], 0>>]

\* Sorted by workload, samples first; the index restarts in every workload.
BuildCombinedItems(q, status) ==
    LET group(w) == LET rows == CollectSamples(q, w) \o CollectAggregates(q, w, status)
                    IN  [i \in DOMAIN rows |-> [key |-> Key(w, i - 1), row |-> rows[i]]]
    IN  FlattenSeq([i \in DOMAIN KeyOrder |->
            IF MatchesWorkload(q, KeyOrder[i]) THEN group(KeyOrder[i]) ELSE <<>>])

Items(q, status) ==
    CASE q.tool = "list_policies" -> ListPolicies
      [] q.tool = "get_evidence"  -> GetEvidence(q)
      [] OTHER                    -> BuildCombinedItems(q, status)

-----------------------------------------------------------------------------
(* The handlers.                                                           *)

Paged == {"list_policies", "get_evidence", "list_dropped_flows"}

\* A cursor the server did not issue is refused, never guessed at.
DecodeCursorFails(q) == q.bad

\* resolveSession, then the checks that need no file.
Resolve(q) ==
    /\ \/ call.pc = "idle"
       \/ call.pc = "paged" /\ call.q = q
    /\ call' = [call EXCEPT !.q = q, !.status = [state |-> state, failed |-> failed],
                            !.pc = IF purged \/ DecodeCursorFails(q) THEN "error" ELSE "resolved"]
    /\ UNCHANGED <<files, session, base, got, drift>>

\* get_evidence has no evidence file to read, or one that does not parse.
NotFound(q) ==
    /\ q.tool = "get_evidence"
    /\ RulesOf(q.target) = <<>> \/ q.target \in Unreadable

AnswerNotFound ==
    /\ call.pc = "resolved" /\ NotFound(call.q)
    /\ call' = [call EXCEPT !.pc = "error"]
    /\ UNCHANGED <<files, session, base, got, drift>>

\* The rows a request is about, whatever their order.
PresentSamples(q, w) ==
    UNION {{<<"sample", w, r, t>> : t \in
                {u \in evidence[w][r] : q.class \in {None, SampleClass(u)}}} :
           r \in {s \in Rules : w \notin Unreadable /\ MatchesDirection(q, s)}}

PresentAggregates(q, w, status) ==
    {<<"aggregate", w, r, 0>> : r \in
        {s \in Reasons : /\ status # "capturing" /\ <<w, s>> \in report
                         /\ q.class \in {None, Class[s]}}}

Present(q, status) ==
    CASE q.tool = "list_policies" -> {<<"policy", w, 0, 0>> : w \in policies \ Unreadable}
      [] q.tool = "get_evidence" ->
            {<<"rule", q.target, r, 0>> : r \in {s \in q.rules : evidence[q.target][s] # {}}}
      [] OTHER ->
            UNION {PresentSamples(q, w) \cup PresentAggregates(q, w, status) :
                   w \in {v \in Workloads : MatchesWorkload(q, v)}}

AnswerPage ==
    LET q == call.q
        p == Paginate(Items(q, call.status.state), call.after, q.limit)
    IN  /\ call.pc = "resolved" /\ q.tool \in Paged /\ ~NotFound(q)
        /\ got' = got \o [i \in DOMAIN p.page |-> p.page[i].row]
        /\ base' = IF call.after = None THEN Present(q, call.status.state) ELSE base
        /\ call' = [call EXCEPT !.pc = IF p.more THEN "paged" ELSE "done", !.after = p.next]
        /\ UNCHANGED <<files, session, drift>>

\* Variant: an absent report is read as "no drops" in every state.
HealthAnyState(status) ==
    IF report # {} THEN "report" ELSE IF status.failed THEN "error" ELSE "no_drops"

ClusterHealthBranch(status) ==
    LET stopped == status.state # "capturing" IN
    CASE ~stopped                                  -> "available_after_stop"
      [] stopped /\ report # {}                    -> "report"
      [] stopped /\ report = {} /\ ~status.failed  -> "no_drops"
      [] OTHER                                     -> "error"

AnswerHealth ==
    /\ call.pc = "resolved" /\ call.q.tool = "get_cluster_health"
    /\ call' = [call EXCEPT !.pc = ClusterHealthBranch(call.status)]
    /\ UNCHANGED <<files, session, base, got, drift>>

Next ==
    \/ \E w \in Workloads : \/ WritePolicy(w)
                            \/ \E r \in Rules, t \in Times : WriteEvidence(w, r, t)
                            \/ \E reason \in Reasons : Accumulate(w, reason)
    \/ PipelineExits \/ StopsByItself \/ StopCancels \/ StopReturns \/ Purge
    \/ \E q \in Requests : Resolve(q)
    \/ AnswerNotFound \/ AnswerPage \/ AnswerHealth

Spec == Init /\ [][Next]_vars

-----------------------------------------------------------------------------
(* Type correctness; the samples of a rule stay within their cap.           *)
TypeOK ==
    /\ policies \subseteq Workloads /\ used \subseteq Times
    /\ \A w \in Workloads, r \in Rules :
          evidence[w][r] \subseteq used /\ Cardinality(evidence[w][r]) <= MaxSamples
    /\ report \subseteq drops /\ drops \subseteq Workloads \X Reasons
    /\ state \in {"capturing", "stopped"}
    /\ pipeline \in {"running", "cancelled", "alone", "settled"}
    /\ call.pc \in {"idle", "resolved", "paged", "done", "error",
                    "available_after_stop", "report", "no_drops"}
    /\ call.q \in Requests \cup {None}

Repeats == Cardinality({i \in DOMAIN got : \E j \in 1..(i - 1) : got[j] = got[i]})

(* D-06: paging over files that change degrades by the row and not by the   *)
(* page.  When the last page has been read, the rows of the first scan that *)
(* still exist and were not returned are at most as many as the rows        *)
(* removed meanwhile, and the rows returned twice at most as many as the    *)
(* rows added meanwhile: a listing of files that stay as they are, or that  *)
(* only grow, skips nothing.                                                *)
DriftBounded ==
    /\ Repeats <= inserted
    /\ call.pc = "done" =>
          Cardinality({x \in base : x \in Present(call.q, call.status.state)
                                    /\ ~Contains(got, x)}) <= removed

(* Every next_cursor lies after the one the client sent, so a client that   *)
(* follows the cursors reaches the last page.                               *)
CursorAdvances ==
    [][(call.pc = "resolved" /\ call'.pc = "paged" /\ call.after # None)
         => KeyLess(call.after, call'.after)]_vars

(* get_cluster_health says "no drops" only of a capture that counted none,  *)
(* unless the pipeline outlived the wait of Stop, the report could not be   *)
(* saved, or the directory was purged between status and read.              *)
NoDropsTruthful ==
    call.pc = "no_drops" => drops = {} \/ timedOut \/ unsaved \/ purged
=============================================================================
