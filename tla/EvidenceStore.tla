--------------------------- MODULE EvidenceStore ---------------------------
(***************************************************************************)
(* pkg/evidence and pkg/hubble/evidence_writer.go: the evidence file of    *)
(* one workload, which every run over an output directory reads, merges    *)
(* with what it has just seen and replaces by a temporary file and a       *)
(* rename.  Nothing locks the file: a run is a process of its own, and two *)
(* of them may be inside Write at once.                                    *)
(*                                                                         *)
(* A run is named by its StartedAt, a flow by its timestamp; Undated is    *)
(* the zero time of a flow that carries none.  A rule is named by its key. *)
(***************************************************************************)
EXTENDS Naturals, Sequences, FiniteSets, SequencesExt

CONSTANTS Runs,                     \* the StartedAt of each run
          Keys,                     \* RuleEvidence.Key
          MaxTime,                  \* flows are dated 1..MaxTime
          MaxSamples, MaxSessions,  \* MergeCaps
          MaxFlows, MaxBatch        \* bounds: flows of all runs, flows of one flush

ASSUME CapsAssumption ==
    /\ Runs \subseteq Nat
    /\ MaxSamples \in Nat \ {0}     \* 0 switches the attribution off altogether
    /\ {MaxTime, MaxSessions, MaxFlows, MaxBatch} \subseteq Nat

Undated == 0

Times == 0..MaxTime

VARIABLES
    file,       \* what is at the path, and the document in it
    pc,         \* where each run is
    closing,    \* the run has entered finalize: its session has the final counters
    merged,     \* the document a run has in memory inside Write
    temp,       \* the temporary file of a run
    seen,       \* the run has written this workload at least once
    handled,    \* flows the runs have handled so far
    batch,      \* (history) the flows behind the Write under way
    stale,      \* (history) runs whose merged document misses a later rename
    lost,       \* (history) a rename has replaced a document it had not read
    given,      \* (history) what the renames so far have put into each rule
    wrote       \* (history) what each run has put into the session list

histVars == <<batch, stale, lost, given, wrote>>
vars == <<file, pc, closing, merged, temp, seen, handled, histVars>>

-----------------------------------------------------------------------------
(* The document, and the functions of merge.go.                            *)

NoRule == [count |-> 0, first |-> Undated, last |-> Undated, sessions |-> <<>>, samples |-> <<>>]

NewSkeleton == [sessions |-> <<>>, rules |-> [k \in Keys |-> NoRule]]

\* sort.SliceStable: the positions of v by ascending value, equal ones as they stand.
Upto(v, j) == {k \in DOMAIN v : v[k] < v[j] \/ (v[k] = v[j] /\ k <= j)}

Order(v) == [i \in DOMAIN v |-> CHOOSE j \in DOMAIN v : Cardinality(Upto(v, j)) = i]

ByTime(s) == [i \in DOMAIN s |-> s[Order(s)[i]]]

ByStart(s) == [i \in DOMAIN s |-> s[Order([j \in DOMAIN s |-> s[j].id])[i]]]

\* Variant: the oldest samples survive.
capSamplesOldest(s) == SubSeq(ByTime(s), 1, IF Len(s) > MaxSamples THEN MaxSamples ELSE Len(s))

\* Variant: one sample too many.
capSamplesLate(s) ==
    IF Len(s) > MaxSamples THEN SubSeq(ByTime(s), Len(s) - MaxSamples, Len(s)) ELSE ByTime(s)

capSamples(s) ==
    IF Len(s) > MaxSamples THEN SubSeq(ByTime(s), Len(s) - MaxSamples + 1, Len(s)) ELSE ByTime(s)

\* Of an ID that occurs twice the first one stays.
mergeSessionIDs(a, b) ==
    LET ids == a \o b
    IN  FlattenSeq([i \in DOMAIN ids |->
            IF \E j \in 1..(i - 1) : ids[j] = ids[i] THEN <<>> ELSE <<ids[i]>>])

Dated(s) == {s[i] : i \in DOMAIN s} \ {Undated}

Earliest(T) == IF T = {} THEN Undated ELSE CHOOSE t \in T : \A u \in T : t <= u

Latest(T) == IF T = {} THEN Undated ELSE CHOOSE t \in T : \A u \in T : t >= u

\* Variant: an undated flush resets first_seen.
mergeRuleUndated(a, b) ==
    [count    |-> a.count + b.count,
     first    |-> IF a.first = Undated \/ b.first < a.first THEN b.first ELSE a.first,
     last     |-> IF b.last > a.last THEN b.last ELSE a.last,
     sessions |-> mergeSessionIDs(a.sessions, b.sessions),
     samples  |-> capSamples(a.samples \o b.samples)]

mergeRule(a, b) ==
    [count    |-> a.count + b.count,
     first    |-> IF b.first # Undated /\ (a.first = Undated \/ b.first < a.first)
                  THEN b.first ELSE a.first,
     last     |-> IF b.last > a.last THEN b.last ELSE a.last,
     sessions |-> mergeSessionIDs(a.sessions, b.sessions),
     samples  |-> capSamples(a.samples \o b.samples)]

\* Variant: the session cap drops whatever was appended first.
capSessionsUnsorted(s) ==
    IF MaxSessions > 0 /\ Len(s) > MaxSessions
    THEN SubSeq(s, Len(s) - MaxSessions + 1, Len(s)) ELSE s

capSessions(s) ==
    IF MaxSessions > 0 /\ Len(s) > MaxSessions
    THEN SubSeq(ByStart(s), Len(s) - MaxSessions + 1, Len(s)) ELSE s

upsert(sessions, new) ==
    IF \E i \in DOMAIN sessions : sessions[i].id = new.id
    THEN [i \in DOMAIN sessions |-> IF sessions[i].id = new.id THEN new ELSE sessions[i]]
    ELSE Append(sessions, new)

\* A rule the document does not have yet is NoRule there: merging into it is
\* what Merge does for a new rule.
Merge(doc, new, rules) ==
    [sessions |-> capSessions(upsert(doc.sessions, new)),
     rules    |-> [k \in Keys |-> IF rules[k].count = 0 THEN doc.rules[k]
                                  ELSE mergeRule(doc.rules[k], rules[k])]]

-----------------------------------------------------------------------------
(* The attribution of one flush, which the policy builder hands over: the  *)
(* flows of every rule, in the order they arrived.                         *)

NoFlows == [k \in Keys |-> <<>>]

Flows(ev) == UNION {{<<k, i>> : i \in DOMAIN ev[k]} : k \in Keys}

Events == {ev \in [Keys -> UNION {[1..n -> Times] : n \in 0..MaxBatch}] :
               Cardinality(Flows(ev)) \in 1..MaxBatch}

\* The builder counts the flows and keeps the ones that arrived last.
recordAttribution(f) ==
    [count   |-> Len(f),
     first   |-> Earliest(Dated(f)),
     last    |-> Latest(Dated(f)),
     samples |-> SubSeq(f, IF Len(f) > MaxSamples THEN Len(f) - MaxSamples + 1 ELSE 1, Len(f))]

convert(f, r) ==
    LET a == recordAttribution(f) IN
    [count |-> a.count, first |-> a.first, last |-> a.last,
     sessions |-> <<r>>, samples |-> a.samples]

\* What a rule has been given, and this flush of run r.
With(g, f, r) ==
    [flows   |-> ByTime(g.flows \o f),
     samples |-> ByTime(g.samples \o recordAttribution(f).samples),
     runs    |-> g.runs \cup (IF f = <<>> THEN {} ELSE {r})]

-----------------------------------------------------------------------------
Pcs == {"idle", "create", "fill", "rename", "done", "crashed"}

Writing(r) == pc[r] \in {"create", "fill", "rename"}

Init ==
    /\ file \in [kind : {"absent", "foreign"}, doc : {NewSkeleton}]
    /\ pc = [r \in Runs |-> "idle"]
    /\ closing = [r \in Runs |-> FALSE]
    /\ merged = [r \in Runs |-> NewSkeleton]
    /\ temp = [r \in Runs |-> "none"]
    /\ seen = [r \in Runs |-> FALSE]
    /\ handled = 0
    /\ batch = [r \in Runs |-> NoFlows]
    /\ stale = {}
    /\ lost = FALSE
    /\ given = [k \in Keys |-> [flows |-> <<>>, samples |-> <<>>, runs |-> {}]]
    /\ wrote = [r \in Runs |-> "nothing"]

\* Write up to CreateTemp: the file is read, and what this run has is merged in.
OpenWrite(r, ev, final) ==
    /\ file.kind \in {"absent", "doc"}
    /\ merged' = [merged EXCEPT ![r] =
           Merge(file.doc, [id |-> r, final |-> final], [k \in Keys |-> convert(ev[k], r)])]
    /\ batch' = [batch EXCEPT ![r] = ev]
    /\ pc' = [pc EXCEPT ![r] = "create"]
    /\ UNCHANGED <<file, temp, seen, stale, lost, given, wrote>>

Returned(r) == IF closing[r] THEN "done" ELSE "idle"

\* handle, and Write's way out before the temporary file exists: the file cannot
\* be read, does not parse or is of another schema version.
Handle(r) ==
    /\ pc[r] = "idle"
    /\ \E ev \in Events :
           /\ handled' = handled + Cardinality(Flows(ev))
           /\ handled' <= MaxFlows
           /\ OpenWrite(r, ev, FALSE)
    /\ UNCHANGED closing

HandleFails(r) ==
    /\ pc[r] = "idle" /\ handled < MaxFlows
    /\ handled' = handled + 1
    /\ UNCHANGED <<file, pc, closing, merged, temp, seen, histVars>>

\* finalize: once, after the last event.
Finalize(r) ==
    /\ pc[r] = "idle" /\ seen[r]
    /\ closing' = [closing EXCEPT ![r] = TRUE]
    /\ OpenWrite(r, NoFlows, TRUE)
    /\ UNCHANGED handled

\* Nothing was written, or finalize's own Write fails early.
FinalizeNothing(r) ==
    /\ pc[r] = "idle"
    /\ closing' = [closing EXCEPT ![r] = TRUE]
    /\ pc' = [pc EXCEPT ![r] = "done"]
    /\ UNCHANGED <<file, merged, temp, seen, handled, histVars>>

\* Variant: the document is written where it will be read.
CreateInPlace(r) ==
    /\ pc[r] = "create"
    /\ pc' = [pc EXCEPT ![r] = "fill"]
    /\ temp' = [temp EXCEPT ![r] = "partial"]
    /\ file' = [file EXCEPT !.kind = "torn"]
    /\ UNCHANGED <<closing, merged, seen, handled, histVars>>

CreateTemp(r) ==
    /\ pc[r] = "create"
    /\ pc' = [pc EXCEPT ![r] = "fill"]
    /\ temp' = [temp EXCEPT ![r] = "partial"]
    /\ UNCHANGED <<file, closing, merged, seen, handled, histVars>>

FillTemp(r) ==
    /\ pc[r] = "fill"
    /\ pc' = [pc EXCEPT ![r] = "rename"]
    /\ temp' = [temp EXCEPT ![r] = "full"]
    /\ UNCHANGED <<file, closing, merged, seen, handled, histVars>>

\* The rename makes the merged document the file, and handle notes the workload.
Rename(r) ==
    /\ pc[r] = "rename"
    /\ file' = [kind |-> IF temp[r] = "full" THEN "doc" ELSE "torn", doc |-> merged[r]]
    /\ temp' = [temp EXCEPT ![r] = "none"]
    /\ seen' = [seen EXCEPT ![r] = TRUE]
    /\ pc' = [pc EXCEPT ![r] = Returned(r)]
    /\ merged' = [merged EXCEPT ![r] = NewSkeleton]
    /\ batch' = [batch EXCEPT ![r] = NoFlows]
    /\ lost' = (lost \/ r \in stale)
    /\ stale' = {q \in Runs : Writing(q)} \ {r}
    /\ given' = [k \in Keys |-> With(given[k], batch[r][k], r)]
    /\ wrote' = [wrote EXCEPT ![r] = IF closing[r] THEN "final" ELSE "open"]
    /\ UNCHANGED <<closing, handled>>

\* An error from MkdirAll to Rename: the temporary file is removed.
WriteFails(r) ==
    /\ Writing(r)
    /\ temp' = [temp EXCEPT ![r] = "none"]
    /\ pc' = [pc EXCEPT ![r] = Returned(r)]
    /\ merged' = [merged EXCEPT ![r] = NewSkeleton]
    /\ batch' = [batch EXCEPT ![r] = NoFlows]
    /\ stale' = stale \ {r}
    /\ UNCHANGED <<file, closing, seen, handled, lost, given, wrote>>

\* The process is killed; its temporary file stays behind.
Crash(r) ==
    /\ pc[r] \notin {"done", "crashed"}
    /\ pc' = [pc EXCEPT ![r] = "crashed"]
    /\ merged' = [merged EXCEPT ![r] = NewSkeleton]
    /\ batch' = [batch EXCEPT ![r] = NoFlows]
    /\ stale' = stale \ {r}
    /\ UNCHANGED <<file, closing, temp, seen, handled, lost, given, wrote>>

Next ==
    \E r \in Runs :
        \/ Handle(r) \/ HandleFails(r) \/ Finalize(r) \/ FinalizeNothing(r)
        \/ CreateTemp(r) \/ FillTemp(r) \/ Rename(r) \/ WriteFails(r) \/ Crash(r)

Spec == Init /\ [][Next]_vars

-----------------------------------------------------------------------------
(* Properties.                                                             *)

SessionEntries == [id : Runs, final : BOOLEAN]

IsRule(r) ==
    /\ r.count \in Nat /\ r.first \in Times /\ r.last \in Times
    /\ r.sessions \in Seq(Runs) /\ r.samples \in Seq(Times) /\ Len(r.samples) <= MaxSamples

IsDocument(d) == d.sessions \in Seq(SessionEntries) /\ \A k \in Keys : IsRule(d.rules[k])

\* Every document, on disk or in memory, is well formed and within the sample cap.
TypeOK ==
    /\ file.kind \in {"absent", "foreign", "doc", "torn"} /\ IsDocument(file.doc)
    /\ pc \in [Runs -> Pcs]
    /\ closing \in [Runs -> BOOLEAN]
    /\ \A r \in Runs : IsDocument(merged[r])
    /\ temp \in [Runs -> {"none", "partial", "full"}]
    /\ seen \in [Runs -> BOOLEAN]
    /\ handled \in 0..MaxFlows
    /\ stale \subseteq Runs /\ lost \in BOOLEAN
    /\ wrote \in [Runs -> {"nothing", "open", "final"}]

\* While every Write has read what it replaces, which is what the comment on Writer
\* asks of its callers, the file is the sum of what was renamed into it.
Exact == file.kind = "doc" /\ ~lost

\* flow_count, first_seen and last_seen of a rule are those of all the flows whose
\* Write succeeded, whichever run saw them, whatever failed or crashed in between
\* and whether or not the flows were dated (Merge and mergeRule, flush after flush).
TotalsExact ==
    Exact => \A k \in Keys :
        LET rule == file.doc.rules[k] IN
            /\ rule.count = Len(given[k].flows)
            /\ rule.first = Earliest(Dated(given[k].flows))
            /\ rule.last = Latest(Dated(given[k].flows))

Count(s, t) == Cardinality({i \in DOMAIN s : s[i] = t})

\* Capping at every flush keeps the same samples as capping once would: as many as
\* the cap allows of those handed over, and none of the others is newer (capSamples).
SamplesNewest ==
    Exact => \A k \in Keys :
        LET kept == file.doc.rules[k].samples  all == given[k].samples IN
            /\ Len(kept) = IF Len(all) > MaxSamples THEN MaxSamples ELSE Len(all)
            /\ \A t \in Times : Count(kept, t) <= Count(all, t)
            /\ \A t \in Times :
                   Count(kept, t) < Count(all, t) => \A i \in DOMAIN kept : kept[i] >= t

Committers == {r \in Runs : wrote[r] # "nothing"}

\* The session list holds the newest runs that have written, each once and with its
\* final counters as soon as its finalize succeeded, although older runs may write
\* after newer ones; a rule names every run that contributed, once.
SessionLedger ==
    Exact =>
        LET list == file.doc.sessions  ids == {list[i].id : i \in DOMAIN list} IN
            /\ IsInjective([i \in DOMAIN list |-> list[i].id])
            /\ ids \subseteq Committers
            /\ Cardinality(ids) = IF MaxSessions > 0 /\ Cardinality(Committers) > MaxSessions
                                  THEN MaxSessions ELSE Cardinality(Committers)
            /\ \A r \in Committers \ ids, q \in ids : r < q
            /\ \A i \in DOMAIN list : list[i].final = (wrote[list[i].id] = "final")
            /\ \A k \in Keys :
                   LET named == file.doc.rules[k].sessions IN
                       IsInjective(named) /\ {named[i] : i \in DOMAIN named} = given[k].runs

\* Whatever crashes or fails, and however the runs overlap, the file is never a torn
\* one, and a file of another schema version is left as it was found.
Readable ==
    /\ file.kind # "torn"
    /\ file.kind = "foreign" => Committers = {}
    /\ file.kind = "doc" <=> Committers # {}
=============================================================================
