---------------------------- MODULE SegmentMerge ----------------------------
(***************************************************************************)
(* Merging of one shard's segments (internal/shard/merge.go): the choice   *)
(* of candidates by the tiered policy, by deletions or by a forced merge,  *)
(* the merge of their files without the deleted documents, the purge of    *)
(* tombstones, the swap in the manifest and in memory, the removal of the  *)
(* inputs, all of it while documents are written, deleted and flushed and  *)
(* the process may crash.                                                  *)
(*                                                                         *)
(* SegmentManager has the interleavings of the write path; here a write, a *)
(* delete, a flush and a recovery are one step each.  A segment is         *)
(* identified by its flush sequence and level, as its file name is.        *)
(***************************************************************************)
EXTENDS Integers, FiniteSets, FiniteSetsExt

CONSTANTS
    Docs,            \* document ids
    Mergers,         \* goroutines that merge: runMerge and forced merges
    Nobody,          \* the holder of a free mergeMu
    Policies,        \* how candidates are chosen: "tier", "expunge", "force";
                     \* "capped": a merge's total size is limited
    Operations,      \* "delete", "crash" and "abort", when they may happen
    SegmentsPerTier,
    MaxMergeAtOnce,
    MaxSeq,          \* bound on logged operations
    MaxFaults        \* bound on crashes and aborted merges

ASSUME MergeAssumption ==
    /\ Nobody \notin Mergers
    /\ SegmentsPerTier \in Nat \ {0}
    /\ MaxMergeAtOnce \in Nat \ {0, 1}
    /\ MaxSeq \in Nat
    /\ MaxFaults \in Nat

VARIABLES
    log,            \* log entries a restart would replay
    files,          \* segment -> the versions in its file
    metaSegments,   \* manifest: registered segments
    metaTombstones, \* manifest: deleted documents
    seq,            \* last sequence number of the log
    buffer,         \* versions in the active builder
    tombstones,     \* deleted documents, in memory
    segRecords,     \* segments a search can see
    expungeable,    \* of them, those whose record counts a deleted document
    mergeMu,        \* holder of mergeMu
    pc, job,        \* per merger: next step and its merge
    last,           \* history: last operation on each document
    faults          \* history

disk    == <<files, metaSegments, metaTombstones>>
writes  == <<log, seq, buffer, last, faults>>
memory  == <<tombstones, segRecords, expungeable>>
merging == <<mergeMu, pc, job>>
vars    == <<disk, writes, memory, merging>>

Segment == [seq : Nat, level : Nat]
Version == [doc : Docs, seq : Nat]

NoJob == [inputs |-> {}, out |-> [seq |-> 0, level |-> 0], dead |-> {},
          loaded |-> {}, purge |-> {}, counted |-> FALSE]

DocsOf(vs)         == {v.doc : v \in vs}
Contents(segs)     == UNION {files[s] : s \in segs \cap DOMAIN files}
Holders(segs, d)   == {s \in segs : d \in DocsOf(Contents({s}))}
PutFile(key, vs)   == [k \in DOMAIN files \cup {key} |-> IF k = key THEN vs ELSE files[k]]
Newest(segs)       == CHOOSE s \in segs : \A t \in segs : t.seq <= s.seq
LastOn(d, es)      == CHOOSE e \in es : e.doc = d /\ \A f \in es : f.doc = d => f.seq <= e.seq

-----------------------------------------------------------------------------
(* The merge of files and the identity of its output.                      *)

\* MergeSegmentsWithOptions: the inputs from oldest to newest, the last one that
\* has a document wins; documents deleted when the merge began are dropped.
Merged(inputs, dead) ==
    UNION {{v \in files[Newest(Holders(inputs, d))] : v.doc = d} :
           d \in DocsOf(Contents(inputs)) \ dead}

\* The output has the flush sequence of its newest input and the level after
\* that of the first candidate.
Output(inputs, first) == [seq |-> Max({s.seq : s \in inputs}), level |-> first.level + 1]

\* Fault: every tombstone an input's document has is purged.
PurgedBlindly(m) == {d \in tombstones : d \in DocsOf(job[m].loaded)}

\* Deleted documents that an input had and the output has no more.
Purged(m) == {d \in tombstones : /\ d \notin DocsOf(files[job[m].out])
                                 /\ d \in DocsOf(job[m].loaded)}

-----------------------------------------------------------------------------
Init ==
    /\ log = {} /\ seq = 0 /\ buffer = {}
    /\ files = [s \in {} |-> {}]
    /\ metaSegments = {} /\ metaTombstones = {}
    /\ tombstones = {} /\ segRecords = {} /\ expungeable = {}
    /\ mergeMu = Nobody
    /\ pc = [m \in Mergers |-> "idle"]
    /\ job = [m \in Mergers |-> NoJob]
    /\ last = [d \in Docs |-> [op |-> "none", seq |-> 0, times |-> 0]]
    /\ faults = 0

(* The write path, one step per operation.                                 *)

Log(op, d) ==
    /\ seq < MaxSeq
    /\ seq' = seq + 1
    /\ log' = log \cup {[seq |-> seq', op |-> op, doc |-> d]}
    /\ last' = [last EXCEPT ![d] = [op |-> op, seq |-> seq',
                                    times |-> @.times + (IF op = "index" THEN 1 ELSE 0)]]

Index(d) ==
    /\ Log("index", d)
    /\ buffer' = {v \in buffer : v.doc # d} \cup {[doc |-> d, seq |-> seq']}
    /\ tombstones' = tombstones \ {d}
    /\ metaTombstones' = metaTombstones \ ({d} \cap tombstones)
    /\ UNCHANGED <<files, metaSegments, segRecords, expungeable, faults, merging>>

\* The copies of d in the builder and in the segments stay where they are; one
\* segment that has d, if any, counts it as deleted.
Delete(d) ==
    /\ "delete" \in Operations
    /\ Log("delete", d)
    /\ tombstones' = tombstones \cup {d}
    /\ metaTombstones' = metaTombstones \cup {d}
    /\ LET holders == Holders(segRecords, d)
       IN  \/ holders = {} /\ UNCHANGED expungeable
           \/ \E s \in holders : expungeable' = expungeable \cup {s}
    /\ UNCHANGED <<files, metaSegments, buffer, segRecords, faults, merging>>

\* A flush: segment file, manifest record, publication, rotation.
Flush ==
    LET s == [seq |-> seq, level |-> 0]
    IN  /\ buffer # {}
        /\ files' = PutFile(s, buffer)
        /\ metaSegments' = metaSegments \cup {s}
        /\ segRecords' = segRecords \cup {s}
        /\ buffer' = {} /\ log' = {}
        /\ UNCHANGED <<metaTombstones, seq, last, faults, tombstones, expungeable, merging>>

\* A crash and the recovery: the manifest is loaded and the log replayed; the
\* first search loads the segments and counts their deleted documents.
CrashAndRecover ==
    LET docs(op) == {e.doc : e \in {x \in log : x.op = op}}
        deleted  == {d \in docs("delete") : LastOn(d, log).op = "delete"}
    IN  /\ "crash" \in Operations /\ faults < MaxFaults
        /\ faults' = faults + 1
        /\ seq' = Max({0} \cup {s.seq : s \in metaSegments} \cup {e.seq : e \in log})
        /\ buffer' = {[doc |-> d, seq |-> LastOn(d, {e \in log : e.op = "index"}).seq] :
                      d \in docs("index")}
        /\ metaTombstones' = metaTombstones \ docs("index")
        /\ tombstones' = metaTombstones' \cup deleted
        /\ segRecords' = metaSegments
        /\ expungeable' = {s \in metaSegments : DocsOf(Contents({s})) \cap tombstones' # {}}
        /\ mergeMu' = Nobody
        /\ pc' = [m \in Mergers |-> "idle"]
        /\ job' = [m \in Mergers |-> NoJob]
        /\ UNCHANGED <<files, metaSegments, log, last>>

-----------------------------------------------------------------------------
(* Selection, from a copy of the records.                                  *)

Level(l)     == {s \in segRecords : s.level = l}
Lesser(a, b) == IF a < b THEN a ELSE b
FullLevels   == {l \in {s.level : s \in segRecords} : Cardinality(Level(l)) > SegmentsPerTier}

Choose(m, inputs, first) ==
    /\ pc[m] = "idle"
    /\ pc' = [pc EXCEPT ![m] = "begin"]
    /\ job' = [job EXCEPT ![m] = [NoJob EXCEPT !.inputs = inputs, !.out = Output(inputs, first)]]
    /\ UNCHANGED <<disk, writes, memory, mergeMu>>

\* SelectMerge: some segments of the lowest level that has too many; which ones
\* depends on their sizes and deletions, not on their age.  The size limit leaves
\* at least two of them.
SelectMerge(m) ==
    /\ "tier" \in Policies /\ FullLevels # {}
    /\ \E inputs \in SUBSET Level(Min(FullLevels)) :
          /\ LET most == Lesser(MaxMergeAtOnce, Cardinality(Level(Min(FullLevels))))
             IN  Cardinality(inputs) \in (IF "capped" \in Policies THEN 2 .. most ELSE {most})
          /\ Choose(m, inputs, Newest(inputs))

\* SelectExpungeDeletes: segments with deleted documents, of any level; how many
\* of its documents make a segment eligible is left open.
SelectExpungeDeletes(m) ==
    /\ "expunge" \in Policies /\ FullLevels = {}
    /\ \E inputs \in SUBSET expungeable :
          \E first \in inputs : Choose(m, inputs, first)

\* forceMerge to one segment: the smallest ones, of any level.
ForceMerge(m) ==
    LET n == Cardinality(segRecords)
    IN  /\ "force" \in Policies /\ n > 1
        /\ \E inputs \in kSubset(Lesser(MaxMergeAtOnce, n), segRecords) :
              \E first \in inputs : Choose(m, inputs, first)

-----------------------------------------------------------------------------
(* executeMerge.                                                           *)

Goto(m, label) == pc' = [pc EXCEPT ![m] = label]
Finish(m) == Goto(m, "idle") /\ mergeMu' = Nobody /\ job' = [job EXCEPT ![m] = NoJob]

\* Under mergeMu: the candidates must still be there; the tombstones are copied.
BeginMerge(m) ==
    /\ pc[m] = "begin" /\ mergeMu = Nobody
    /\ IF job[m].inputs \subseteq segRecords
       THEN /\ mergeMu' = m
            /\ job' = [job EXCEPT ![m].dead = tombstones]
            /\ Goto(m, "merge")
       ELSE Finish(m)
    /\ UNCHANGED <<disk, writes, memory>>

\* The inputs are loaded and merged, and the output is put in place.
PutMerged(m) ==
    LET j == job[m]
    IN  /\ pc[m] = "merge" /\ j.inputs \subseteq DOMAIN files
        /\ files' = PutFile(j.out, Merged(j.inputs, j.dead))
        /\ job' = [job EXCEPT ![m].loaded = Contents(j.inputs)]
        /\ Goto(m, "scan")
        /\ UNCHANGED <<metaSegments, metaTombstones, writes, memory, mergeMu>>

\* An input cannot be loaded, or the output cannot be written or loaded.
AbortMerge(m) ==
    /\ "abort" \in Operations /\ faults < MaxFaults
    /\ pc[m] \in {"merge", "scan"}
    /\ faults' = faults + 1
    /\ Finish(m)
    /\ UNCHANGED <<disk, log, seq, buffer, last, memory>>

\* An input is gone from the store.
MissingInput(m) ==
    /\ pc[m] = "merge" /\ ~ job[m].inputs \subseteq DOMAIN files
    /\ Finish(m)
    /\ UNCHANGED <<disk, writes, memory>>

\* Under the read lock, the tombstones to purge are collected ...
ScanTombstones(m) ==
    /\ pc[m] = "scan"
    /\ job' = [job EXCEPT ![m].purge = Purged(m),
                              ![m].counted = DocsOf(files[job[m].out]) \cap tombstones # {}]
    /\ Goto(m, IF Purged(m) = {} THEN "register" ELSE "purge")
    /\ UNCHANGED <<disk, writes, memory, mergeMu>>

\* ... and under the write lock dropped ...
PurgeTombstones(m) ==
    /\ pc[m] = "purge"
    /\ tombstones' = tombstones \ job[m].purge
    /\ Goto(m, "purgeMeta")
    /\ UNCHANGED <<disk, writes, segRecords, expungeable, mergeMu, job>>

\* ... then removed from the manifest, one by one.
RemoveTombstone(m) ==
    /\ pc[m] = "purgeMeta"
    /\ \E d \in job[m].purge :
          /\ metaTombstones' = metaTombstones \ {d}
          /\ job' = [job EXCEPT ![m].purge = @ \ {d}]
          /\ IF job[m].purge = {d} THEN Goto(m, "register") ELSE UNCHANGED pc
    /\ UNCHANGED <<files, metaSegments, writes, memory, mergeMu>>

\* Fault: the inputs stay registered.
AddMergedOnly(m) ==
    /\ pc[m] = "register"
    /\ metaSegments' = metaSegments \cup {job[m].out}
    /\ Goto(m, "publish")
    /\ UNCHANGED <<files, metaTombstones, writes, memory, mergeMu, job>>

\* One save of the manifest.
AddThenRemoveSegments(m) ==
    /\ pc[m] = "register"
    /\ metaSegments' = (metaSegments \ job[m].inputs) \cup {job[m].out}
    /\ Goto(m, "publish")
    /\ UNCHANGED <<files, metaTombstones, writes, memory, mergeMu, job>>

\* Fault: segments flushed during the merge are forgotten.
PublishOnly(m) ==
    /\ pc[m] = "publish"
    /\ segRecords' = {job[m].out}
    /\ expungeable' = IF job[m].counted THEN {job[m].out} ELSE {}
    /\ Goto(m, "delete")
    /\ UNCHANGED <<disk, writes, tombstones, mergeMu, job>>

\* The lists are rebuilt from the current ones, under mu.
PublishMerged(m) ==
    /\ pc[m] = "publish"
    /\ segRecords' = (segRecords \ job[m].inputs) \cup {job[m].out}
    /\ expungeable' = (expungeable \ job[m].inputs) \cup
                      {s \in {job[m].out} : job[m].counted}
    /\ Goto(m, "delete")
    /\ UNCHANGED <<disk, writes, tombstones, mergeMu, job>>

DeleteInput(m) ==
    /\ pc[m] = "delete"
    /\ \E s \in job[m].inputs :
          /\ files' = [k \in DOMAIN files \ {s} |-> files[k]]
          /\ IF job[m].inputs = {s} THEN Finish(m)
             ELSE job' = [job EXCEPT ![m].inputs = @ \ {s}] /\ UNCHANGED <<pc, mergeMu>>
    /\ UNCHANGED <<metaSegments, metaTombstones, writes, memory>>

-----------------------------------------------------------------------------
Select(m) == SelectMerge(m) \/ SelectExpungeDeletes(m) \/ ForceMerge(m)

MergeStep(m) ==
    \/ BeginMerge(m) \/ PutMerged(m) \/ AbortMerge(m) \/ MissingInput(m)
    \/ ScanTombstones(m) \/ PurgeTombstones(m) \/ RemoveTombstone(m)
    \/ AddThenRemoveSegments(m) \/ PublishMerged(m) \/ DeleteInput(m)

\* With no room for another log entry and nothing to merge, nothing happens.
Rest == (\A m \in Mergers : pc[m] = "idle") /\ UNCHANGED vars

Next ==
    \/ \E d \in Docs : Index(d) \/ Delete(d)
    \/ Flush \/ CrashAndRecover
    \/ \E m \in Mergers : Select(m) \/ MergeStep(m)
    \/ Rest

Spec == Init /\ [][Next]_vars

-----------------------------------------------------------------------------
(* Properties.                                                             *)

\* Every segment the manifest or a search knows has its file: a merge deletes
\* its inputs only after its output has replaced them, and never its output.
RegisteredFilesExist == metaSegments \cup segRecords \subseteq DOMAIN files

\* The version a search ranks highest (mostRecentSegmentFor): the builder's, else
\* that of the segment with the highest flush sequence; 0 if there is none.
Found(d) ==
    IF d \in DocsOf(buffer) THEN (CHOOSE v \in buffer : v.doc = d).seq
    ELSE LET holders == Holders(segRecords, d)
         IN  IF holders = {} THEN 0
             ELSE (CHOOSE v \in files[Newest(holders)] : v.doc = d).seq

\* The newest version of a document on disk: the log's, else the manifest's.
Recoverable(d) ==
    LET logged  == {e \in log : e.doc = d /\ e.op = "index"}
        holders == Holders(metaSegments, d)
    IN  IF logged # {} THEN Max({e.seq : e \in logged})
        ELSE IF holders = {} THEN 0
        ELSE (CHOOSE v \in files[Newest(holders)] : v.doc = d).seq

\* Whatever is merged, in memory and on disk the newest copy of a document whose
\* last operation indexed it is the one that operation wrote, and no tombstone
\* hides it from a search.
LatestWriteWins ==
    \A d \in Docs : last[d].op = "index" =>
        /\ d \notin tombstones
        /\ Found(d) = last[d].seq
        /\ Recoverable(d) = last[d].seq

\* The segments a search sees once the merge that has purged its tombstones is
\* published: until then, its inputs still have the purged documents.
Upcoming ==
    LET publishing == {m \in Mergers : pc[m] \in {"purgeMeta", "register", "publish"}}
    IN  (segRecords \ UNION {job[m].inputs : m \in publishing})
          \cup {job[m].out : m \in publishing}

Resurrected(d) ==
    /\ last[d].op = "delete" /\ d \notin tombstones
    /\ d \in DocsOf(buffer \cup Contents(Upcoming))

\* A document written once stays deleted: a merge purges its tombstone only with
\* its last copy, a deletion during the merge included.  "A purged doc can only
\* ever have lived in one segment at a time" (merge.go:264-265).
OnceWrittenStaysDeleted == \A d \in Docs : last[d].times = 1 => ~Resurrected(d)
=============================================================================
