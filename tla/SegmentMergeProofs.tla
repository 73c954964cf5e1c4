------------------------- MODULE SegmentMergeProofs -------------------------
(***************************************************************************)
(* Theorems about SegmentMerge, for all values of its constants: which     *)
(* merges leave every registered segment its file, every document its      *)
(* newest copy and a deleted document deleted.                             *)
(***************************************************************************)
EXTENDS SegmentMerge, FiniteSetTheorems, WellFoundedInduction, TLAPS

-----------------------------------------------------------------------------
(* What the theorems ask of the merges.                                    *)

\* The steps of executeMerge under mergeMu: before its output is published ...
Replacing == {"merge", "scan", "purge", "purgeMeta", "register", "publish"}
\* ... and of these, after the output is written.
Written   == Replacing \ {"merge"}

\* No running merge gives its output the name of one of its inputs.
OwnName == \A m \in Mergers : pc[m] \in Replacing => job[m].out \notin job[m].inputs

\* The inputs of a running merge are neighbours: no other segment lies between them.
Neighbours ==
    \A m \in Mergers : pc[m] \in Replacing =>
        \A r \in segRecords \ job[m].inputs :
            r.seq > job[m].out.seq \/ \A s \in job[m].inputs : r.seq < s.seq

-----------------------------------------------------------------------------
(* The inductive invariant: types, order and the merges under way.         *)

Labels == {"idle", "begin", "delete"} \cup Replacing
Logged == [seq : Nat, op : {"index", "delete"}, doc : Docs]
LastOp == [op : {"none", "index", "delete"}, seq : Nat, times : Nat]
Job    == [inputs : SUBSET Segment, out : Segment, dead : SUBSET Docs,
           loaded : SUBSET Version, purge : SUBSET Docs, counted : BOOLEAN]

WritesTyped ==
    /\ log \subseteq Logged /\ buffer \subseteq Version /\ seq \in Nat
    /\ tombstones \subseteq Docs /\ metaTombstones \subseteq Docs
    /\ last \in [Docs -> LastOp]

SegmentsTyped ==
    /\ DOMAIN files \subseteq Segment
    /\ \A s \in DOMAIN files : files[s] \subseteq Version
    /\ segRecords \subseteq Segment /\ metaSegments \subseteq Segment
    /\ IsFiniteSet(segRecords) /\ IsFiniteSet(metaSegments)
    /\ expungeable \subseteq segRecords

MergesTyped ==
    /\ mergeMu \in Mergers \cup {Nobody}
    /\ pc \in [Mergers -> Labels] /\ job \in [Mergers -> Job]

Typed == WritesTyped /\ SegmentsTyped /\ MergesTyped

Registered == segRecords \cup metaSegments

\* What is logged or buffered is newer than every segment, and no two segments
\* have one flush sequence.
InSequence ==
    /\ \A e \in log : e.seq <= seq /\ \A s \in Registered : s.seq < e.seq
    /\ \A v \in buffer : v.seq <= seq /\ \A s \in Registered : s.seq < v.seq
    /\ \A s \in Registered : s.seq <= seq
    /\ \A s, t \in segRecords : s.seq = t.seq => s = t
    /\ \A s, t \in metaSegments : s.seq = t.seq => s = t

\* The manifest and the searches know the same segments, except between the swap in
\* the manifest and the one in memory.
SameSegments ==
    /\ (\A m \in Mergers : pc[m] # "publish") => metaSegments = segRecords
    /\ \A m \in Mergers : pc[m] = "publish" =>
          metaSegments = (segRecords \ job[m].inputs) \cup {job[m].out}

\* A merge that has started to run holds the lock and its inputs are still there;
\* its output is as new as the newest of them, and older than what is buffered.
JobFits(m) ==
    /\ pc[m] \in Replacing \cup {"delete"} <=> mergeMu = m
    /\ pc[m] = "idle" => job[m] = NoJob
    /\ pc[m] \in Replacing => job[m].inputs \subseteq segRecords
    /\ pc[m] \in Replacing \cup {"begin"} => \E s \in job[m].inputs : s.seq = job[m].out.seq
    /\ \A s \in job[m].inputs : s.seq <= job[m].out.seq
    /\ job[m].out.seq <= seq
    /\ pc[m] # "idle" => \A v \in buffer : job[m].out.seq < v.seq

JobsFit == \A m \in Mergers : JobFits(m)

Struct == Typed /\ InSequence /\ SameSegments /\ JobsFit

-----------------------------------------------------------------------------
(* The invariants on top of it.                                            *)

\* Every registered file exists, the output of a merge too once it is written, and
\* the inputs that are being deleted are not registered any more.
FilesFit ==
    /\ Registered \subseteq DOMAIN files
    /\ \A m \in Mergers : pc[m] \in Written => job[m].out \in DOMAIN files
    /\ \A m \in Mergers : pc[m] = "delete" => job[m].inputs \cap Registered = {}

Has(s, d) == s \in DOMAIN files /\ d \in DocsOf(files[s])

\* An output has only documents of its inputs, which are as they were unless the
\* output took the place of one; what is to be purged is not in it.
OutputFits(m) ==
    /\ pc[m] \in Written => /\ job[m].out \in DOMAIN files
                            /\ DocsOf(files[job[m].out]) \subseteq DocsOf(job[m].loaded)
                            /\ \/ job[m].out \in job[m].inputs
                               \/ job[m].loaded = Contents(job[m].inputs)
    /\ pc[m] = "purge" => /\ job[m].purge \subseteq DocsOf(job[m].loaded)
                          /\ job[m].purge \cap DocsOf(files[job[m].out]) = {}

\* No copy of d anywhere a search or a merge could find one.
Nowhere(d) ==
    /\ d \notin DocsOf(buffer)
    /\ \A s \in segRecords : ~ Has(s, d)
    /\ \A m \in Mergers : pc[m] \in Written => d \notin DocsOf(job[m].loaded)

\* The copy of a document written once is in the buffer or in one segment; while an
\* output is in the place of an input, it may be in two inputs of that merge.
OneCopy(d) ==
    /\ d \in DocsOf(buffer) =>
          /\ \A s \in segRecords : ~ Has(s, d)
          /\ \A m \in Mergers : pc[m] \in Written => d \notin DocsOf(job[m].loaded)
    /\ \A s, t \in segRecords : Has(s, d) /\ Has(t, d) =>
          \/ s = t
          \/ \E m \in Mergers : /\ pc[m] \in Written /\ job[m].out \in job[m].inputs
                                /\ s \in job[m].inputs /\ t \in job[m].inputs
    /\ \A m \in Mergers : pc[m] \in Written /\ d \in DocsOf(job[m].loaded) =>
          \A s \in segRecords \ job[m].inputs : ~ Has(s, d)

\* Without its tombstone, a deleted document is in no segment to come.
Hidden(d) ==
    last[d].op = "delete" /\ d \notin tombstones =>
        d \notin DocsOf(buffer) /\ \A s \in Upcoming : ~ Has(s, d)

OnceInv ==
    /\ \A m \in Mergers : OutputFits(m)
    /\ \A d \in Docs : /\ last[d].times = 0 => Nowhere(d)
                       /\ last[d].times = 1 => OneCopy(d) /\ Hidden(d)

\* The buffer has the last logged version of each document in the log, which is the
\* one its last operation wrote, unless that deleted it.
BufferFits ==
    /\ \A v \in buffer : \E e \in log : e.op = "index" /\ e.doc = v.doc /\ e.seq = v.seq
    /\ \A e \in log : e.op = "index" => \E v \in buffer : v.doc = e.doc /\ e.seq <= v.seq
    /\ \A v, w \in buffer : v.doc = w.doc => v = w
    /\ \A v \in buffer : last[v.doc].op = "index" => v.seq = last[v.doc].seq

\* A file has one version of a document, not newer than the file.
VersionsFit ==
    \A s \in DOMAIN files : /\ \A v, w \in files[s] : v.doc = w.doc => v = w
                            /\ \A v \in files[s] : v.seq <= s.seq

\* An output is the merge of its inputs; a document it leaves out as deleted and that
\* is indexed now was indexed after the newest of them.
MergeFits(m) ==
    /\ pc[m] \in Written => files[job[m].out] = Merged(job[m].inputs, job[m].dead)
    /\ pc[m] \in Replacing =>
          \A d \in job[m].dead : last[d].op = "index" => last[d].seq > job[m].out.seq

\* The newest of the segments in segs that have d has the version its last operation
\* wrote.
NewestIn(segs, d) ==
    \E h \in segs : /\ h \in DOMAIN files
                    /\ \E v \in files[h] : v.doc = d /\ v.seq = last[d].seq
                    /\ \A t \in segs : Has(t, d) => t.seq <= h.seq

NoneDeleted == /\ tombstones = {} /\ metaTombstones = {}
               /\ \A e \in log : e.op = "index"

LatestInv ==
    /\ BufferFits /\ VersionsFit
    /\ \A m \in Mergers : MergeFits(m)
    /\ "delete" \notin Operations => NoneDeleted
    /\ \A d \in Docs : last[d].op = "index" =>
          /\ d \notin tombstones
          /\ d \notin DocsOf(buffer) => NewestIn(segRecords, d) /\ NewestIn(metaSegments, d)

-----------------------------------------------------------------------------
(* Greatest and least numbers of a set.                                    *)

\* A non-empty set of naturals has a least element.
LEMMA LeastExists ==
    ASSUME NEW S \in SUBSET Nat, S # {} PROVE \E k \in S : \A n \in S : k <= n
<1>1. PICK x \in S : \A y \in S : ~ (<<y, x>> \in OpToRel(<, Nat))
  BY NatLessThanWellFounded, WFMin
<1>2. \A y \in S : ~ (y < x)
  BY <1>1 DEF OpToRel
<1> QED
  BY <1>2

LEMMA MinIsLeast == ASSUME NEW S \in SUBSET Nat, S # {} PROVE Min(S) \in S /\ \A k \in S : Min(S) <= k
BY LeastExists DEF Min

\* One with an upper bound has a greatest element.
LEMMA MaxIsGreatest ==
    ASSUME NEW S \in SUBSET Nat, S # {}, NEW n \in Nat, \A k \in S : k <= n
    PROVE  Max(S) \in S /\ \A k \in S : k <= Max(S)
<1> DEFINE T == {n - k : k \in S}
<1>1. T \subseteq Nat /\ T # {}
  <2>1. PICK k \in S : TRUE
    OBVIOUS
  <2>2. n - k \in T
    BY <2>1
  <2> QED
    BY <2>2
<1> HIDE DEF T
<1>2. PICK x \in T : \A y \in T : x <= y
  BY <1>1, LeastExists
<1>3. PICK m \in S : x = n - m
  BY <1>2 DEF T
<1>4. ASSUME NEW k \in S PROVE k <= m
  <2>1. n - k \in T /\ k \in Nat /\ m \in Nat
    BY DEF T
  <2> QED
    BY <1>2, <1>3, <2>1
<1>5. \E i \in S : \A k \in S : i >= k
  BY <1>3, <1>4
<1> QED
  BY <1>5 DEF Max

-----------------------------------------------------------------------------
(* The write path keeps the structure.                                     *)

LEMMA NoJobTyped == NoJob \in Job /\ NoJob.inputs = {} /\ NoJob.out.seq = 0
BY DEF NoJob, Job, Segment

LEMMA InitStruct == Init => Struct
<1> SUFFICES ASSUME Init PROVE Struct
  OBVIOUS
<1>1. WritesTyped
  BY DEF Init, WritesTyped, LastOp
<1>2. SegmentsTyped
  BY FS_EmptySet DEF Init, SegmentsTyped
<1>3. MergesTyped
  BY NoJobTyped DEF Init, MergesTyped, Labels
<1>4. InSequence /\ SameSegments
  BY DEF Init, InSequence, SameSegments, Registered
<1>5. JobsFit
  BY NoJobTyped, MergeAssumption DEF Init, JobsFit, JobFits, Replacing
<1> QED
  BY <1>1, <1>2, <1>3, <1>4, <1>5 DEF Struct, Typed

\* A write concerns the merges under way only in that it is newer than them.
LEMMA WritesKeepJobs ==
    ASSUME Struct, UNCHANGED merging, seq' \in Nat, seq <= seq', segRecords \subseteq segRecords',
           buffer' \subseteq Version, \A v \in buffer' : v \in buffer \/ v.seq > seq
    PROVE  MergesTyped' /\ JobsFit'
<1>1. MergesTyped'
  BY DEF Struct, Typed, MergesTyped, merging
<1>2. ASSUME NEW m \in Mergers PROVE JobFits(m)'
  <2>1. JobFits(m) /\ pc' = pc /\ job' = job /\ mergeMu' = mergeMu
    BY DEF Struct, JobsFit, merging
  <2>2. job[m].out.seq \in Nat /\ seq \in Nat /\ \A v \in buffer' : v.seq \in Nat
    BY DEF Struct, Typed, MergesTyped, WritesTyped, Job, Segment, Version
  <2>3. job[m].out.seq <= seq'
    BY <2>1, <2>2 DEF JobFits
  <2>4. \A v \in buffer' : v \in buffer \/ job[m].out.seq < v.seq
    BY <2>1, <2>2 DEF JobFits
  <2> QED
    BY <2>1, <2>3, <2>4 DEF JobFits
<1> QED
  BY <1>1, <1>2 DEF JobsFit

LEMMA LogKeeps ==
    ASSUME Struct, NEW op \in {"index", "delete"}, NEW d \in Docs, Log(op, d)
    PROVE  /\ seq' = seq + 1 /\ seq' \in Nat
           /\ log' \subseteq Logged /\ last' \in [Docs -> LastOp]
           /\ \A e \in log' : e \in log \/ e.seq = seq'
<1>1. seq \in Nat /\ log \subseteq Logged /\ last \in [Docs -> LastOp]
  BY DEF Struct, Typed, WritesTyped
<1>2. seq' = seq + 1 /\ log' = log \cup {[seq |-> seq', op |-> op, doc |-> d]}
  BY DEF Log
<1>3. [seq |-> seq', op |-> op, doc |-> d] \in Logged
  BY <1>1, <1>2 DEF Logged
<1>4. last[d].times \in Nat
  BY <1>1 DEF LastOp
<1>5. [op |-> op, seq |-> seq', times |-> last[d].times + (IF op = "index" THEN 1 ELSE 0)] \in LastOp
  BY <1>1, <1>2, <1>4 DEF LastOp
<1>6. last' \in [Docs -> LastOp]
  BY <1>1, <1>5 DEF Log
<1> QED
  BY <1>1, <1>2, <1>3, <1>6

LEMMA IndexStruct == ASSUME Struct, NEW d \in Docs, Index(d) PROVE Struct'
<1>1. Log("index", d) /\ UNCHANGED <<files, metaSegments, segRecords, expungeable, merging>>
  BY DEF Index
<1>2. /\ seq' = seq + 1 /\ seq' \in Nat /\ log' \subseteq Logged /\ last' \in [Docs -> LastOp]
      /\ \A e \in log' : e \in log \/ e.seq = seq'
  BY <1>1, LogKeeps
<1>3. /\ buffer \subseteq Version /\ seq \in Nat /\ log \subseteq Logged
      /\ Registered \subseteq Segment
  BY DEF Struct, Typed, WritesTyped, SegmentsTyped, Registered
<1>4. buffer' \subseteq Version /\ \A v \in buffer' : v \in buffer \/ v.seq = seq'
  BY <1>2, <1>3 DEF Index, Version
<1>5. WritesTyped'
  BY <1>2, <1>4 DEF Index, WritesTyped, Struct, Typed
<1>6. SegmentsTyped'
  BY <1>1 DEF SegmentsTyped, Struct, Typed
<1>7. MergesTyped' /\ JobsFit'
  BY <1>1, <1>2, <1>3, <1>4, WritesKeepJobs
<1>8. InSequence'
  <2>1. InSequence /\ Registered' = Registered
    BY <1>1 DEF Struct, Registered
  <2>2. \A s \in Registered : s.seq \in Nat /\ s.seq <= seq
    BY <1>3, <2>1 DEF InSequence, Segment
  <2>3. \A e \in log' : e.seq <= seq' /\ \A s \in Registered : s.seq < e.seq
    <3>1. \A e \in log : e.seq \in Nat /\ e.seq <= seq /\ \A s \in Registered : s.seq < e.seq
      BY <1>3, <2>1 DEF InSequence, Logged
    <3> QED
      BY <1>2, <1>3, <2>2, <3>1
  <2>4. \A v \in buffer' : v.seq <= seq' /\ \A s \in Registered : s.seq < v.seq
    <3>1. \A v \in buffer : v.seq \in Nat /\ v.seq <= seq /\ \A s \in Registered : s.seq < v.seq
      BY <1>3, <2>1 DEF InSequence, Version
    <3> QED
      BY <1>2, <1>3, <1>4, <2>2, <3>1
  <2>5. \A s \in Registered : s.seq <= seq'
    BY <1>2, <1>3, <2>2
  <2> QED
    BY <1>1, <2>1, <2>3, <2>4, <2>5 DEF InSequence
<1>9. SameSegments'
  BY <1>1 DEF SameSegments, Struct, merging
<1> QED
  BY <1>5, <1>6, <1>7, <1>8, <1>9 DEF Struct, Typed

LEMMA DeleteStruct == ASSUME Struct, NEW d \in Docs, Delete(d) PROVE Struct'
<1>1. Log("delete", d) /\ UNCHANGED <<files, metaSegments, buffer, segRecords, merging>>
  BY DEF Delete
<1>2. /\ seq' = seq + 1 /\ seq' \in Nat /\ log' \subseteq Logged /\ last' \in [Docs -> LastOp]
      /\ \A e \in log' : e \in log \/ e.seq = seq'
  BY <1>1, LogKeeps
<1>3. /\ buffer \subseteq Version /\ seq \in Nat /\ log \subseteq Logged
      /\ Registered \subseteq Segment
  BY DEF Struct, Typed, WritesTyped, SegmentsTyped, Registered
<1>4. WritesTyped'
  BY <1>1, <1>2 DEF Delete, WritesTyped, Struct, Typed
<1>5. SegmentsTyped'
  <2>1. expungeable' \subseteq segRecords
    BY DEF Delete, Holders, SegmentsTyped, Struct, Typed
  <2> QED
    BY <1>1, <2>1 DEF SegmentsTyped, Struct, Typed
<1>6. MergesTyped' /\ JobsFit'
  BY <1>1, <1>2, <1>3, WritesKeepJobs
<1>7. InSequence'
  <2>1. InSequence /\ Registered' = Registered
    BY <1>1 DEF Struct, Registered
  <2>2. \A s \in Registered : s.seq \in Nat /\ s.seq <= seq
    BY <1>3, <2>1 DEF InSequence, Segment
  <2>3. \A e \in log' : e.seq <= seq' /\ \A s \in Registered : s.seq < e.seq
    <3>1. \A e \in log : e.seq \in Nat /\ e.seq <= seq /\ \A s \in Registered : s.seq < e.seq
      BY <1>3, <2>1 DEF InSequence, Logged
    <3> QED
      BY <1>2, <1>3, <2>2, <3>1
  <2>4. \A v \in buffer : v.seq <= seq' /\ \A s \in Registered : s.seq < v.seq
    <3>1. \A v \in buffer : v.seq \in Nat /\ v.seq <= seq /\ \A s \in Registered : s.seq < v.seq
      BY <1>3, <2>1 DEF InSequence, Version
    <3> QED
      BY <1>2, <1>3, <3>1
  <2>5. \A s \in Registered : s.seq <= seq'
    BY <1>2, <1>3, <2>2
  <2> QED
    BY <1>1, <2>1, <2>3, <2>4, <2>5 DEF InSequence
<1>8. SameSegments'
  BY <1>1 DEF SameSegments, Struct, merging
<1> QED
  BY <1>4, <1>5, <1>6, <1>7, <1>8 DEF Struct, Typed

\* A flush gives its segment a name that no other one has, nor any output to come.
LEMMA FlushedIsNew ==
    ASSUME Struct, buffer # {}
    PROVE  /\ [seq |-> seq, level |-> 0] \in Segment
           /\ \A s \in Registered : s.seq < seq /\ s # [seq |-> seq, level |-> 0]
           /\ \A m \in Mergers : pc[m] # "idle" => job[m].out # [seq |-> seq, level |-> 0]
<1>1. PICK v \in buffer : TRUE
  OBVIOUS
<1>2. seq \in Nat /\ v.seq \in Nat /\ v.seq <= seq
  BY DEF Struct, Typed, WritesTyped, InSequence, Version
<1>3. \A s \in Registered : s.seq \in Nat /\ s.seq < v.seq
  BY DEF Struct, Typed, SegmentsTyped, Registered, InSequence, Segment
<1>4. \A m \in Mergers : job[m].out.seq \in Nat /\ (pc[m] # "idle" => job[m].out.seq < v.seq)
  BY DEF Struct, Typed, MergesTyped, JobsFit, JobFits, Job, Segment
<1>5. \A s \in Registered : s.seq < seq
  BY <1>2, <1>3
<1>6. \A m \in Mergers : pc[m] # "idle" => job[m].out.seq < seq
  BY <1>2, <1>4
<1>7. [seq |-> seq, level |-> 0] \in Segment /\ [seq |-> seq, level |-> 0].seq = seq
  BY <1>2 DEF Segment
<1> QED
  BY <1>2, <1>5, <1>6, <1>7

LEMMA PutFileTyped ==
    ASSUME Struct, NEW s \in Segment, NEW vs \in SUBSET Version, files' = PutFile(s, vs)
    PROVE  /\ DOMAIN files' = DOMAIN files \cup {s}
           /\ DOMAIN files' \subseteq Segment
           /\ files'[s] = vs
           /\ \A k \in DOMAIN files : k # s => files'[k] = files[k]
           /\ \A k \in DOMAIN files' : files'[k] \subseteq Version
BY DEF PutFile, Struct, Typed, SegmentsTyped

LEMMA FlushStruct == ASSUME Struct, Flush PROVE Struct'
<1> DEFINE s == [seq |-> seq, level |-> 0]
<1>1. /\ buffer # {} /\ files' = PutFile(s, buffer)
      /\ metaSegments' = metaSegments \cup {s} /\ segRecords' = segRecords \cup {s}
      /\ buffer' = {} /\ log' = {}
      /\ UNCHANGED <<metaTombstones, seq, last, faults, tombstones, expungeable, merging>>
  BY DEF Flush
<1>2. /\ s \in Segment /\ s.seq = seq /\ \A k \in Registered : k.seq < seq /\ k # s
      /\ \A m \in Mergers : pc[m] # "idle" => job[m].out # s
  BY <1>1, FlushedIsNew
<1> HIDE DEF s
<1>3. seq \in Nat /\ \A k \in Registered : k.seq \in Nat
  BY DEF Struct, Typed, WritesTyped, SegmentsTyped, Registered, Segment
<1>4. Registered' = Registered \cup {s}
  BY <1>1 DEF Registered
<1>5. WritesTyped'
  BY <1>1 DEF WritesTyped, Struct, Typed
<1>6. SegmentsTyped'
  <2>1. DOMAIN files' \subseteq Segment /\ \A k \in DOMAIN files' : files'[k] \subseteq Version
    BY <1>1, <1>2, PutFileTyped DEF Struct, Typed, WritesTyped
  <2>2. IsFiniteSet(segRecords') /\ IsFiniteSet(metaSegments')
    BY <1>1, FS_AddElement DEF Struct, Typed, SegmentsTyped
  <2> QED
    BY <1>1, <1>2, <2>1, <2>2 DEF SegmentsTyped, Struct, Typed
<1>7. MergesTyped' /\ JobsFit'
  BY <1>1, <1>3, WritesKeepJobs
<1>8. InSequence'
  <2>1. \A k \in Registered' : k.seq <= seq'
    BY <1>1, <1>2, <1>3, <1>4
  <2>2. \A k, l \in segRecords' : k.seq = l.seq => k = l
    BY <1>1, <1>2, <1>3 DEF Struct, InSequence, Registered
  <2>3. \A k, l \in metaSegments' : k.seq = l.seq => k = l
    BY <1>1, <1>2, <1>3 DEF Struct, InSequence, Registered
  <2> QED
    BY <1>1, <2>1, <2>2, <2>3 DEF InSequence
<1>9. SameSegments'
  <2>1. pc' = pc /\ job' = job
    BY <1>1 DEF merging
  <2>2. ASSUME NEW m \in Mergers, pc[m] = "publish"
        PROVE  metaSegments' = (segRecords' \ job[m].inputs) \cup {job[m].out}
    <3>1. metaSegments = (segRecords \ job[m].inputs) \cup {job[m].out}
      BY <2>2 DEF Struct, SameSegments
    <3>2. s \notin job[m].inputs
      BY <1>2, <2>2 DEF Struct, JobsFit, JobFits, Registered, Replacing
    <3> QED
      BY <1>1, <3>1, <3>2
  <2> QED
    BY <1>1, <2>1, <2>2 DEF Struct, SameSegments
<1> QED
  BY <1>5, <1>6, <1>7, <1>8, <1>9 DEF Struct, Typed

\* The last entry of a document is one of them, since the log has an end.
LEMMA LastOnExists ==
    ASSUME Struct, NEW es \in SUBSET log, NEW d \in Docs, NEW e \in es, e.doc = d
    PROVE  /\ LastOn(d, es) \in es /\ LastOn(d, es).doc = d
           /\ \A f \in es : f.doc = d => f.seq <= LastOn(d, es).seq
<1> DEFINE S == {f.seq : f \in {g \in es : g.doc = d}}
<1>1. \A f \in es : f.seq \in Nat /\ seq \in Nat /\ f.seq <= seq
  BY DEF Struct, Typed, WritesTyped, InSequence, Logged
<1>2. S \in SUBSET Nat /\ \A k \in S : k <= seq
  BY <1>1
<1>3. e.seq \in S
  OBVIOUS
<1> HIDE DEF S
<1>4. Max(S) \in S /\ \A k \in S : k <= Max(S)
  BY <1>1, <1>2, <1>3, MaxIsGreatest
<1>5. PICK f \in es : f.doc = d /\ f.seq = Max(S)
  BY <1>4 DEF S
<1>6. \A g \in es : g.doc = d => g.seq <= f.seq
  BY <1>4, <1>5 DEF S
<1> QED
  BY <1>5, <1>6 DEF LastOn

LEMMA CrashStruct == ASSUME Struct, CrashAndRecover PROVE Struct'
<1> DEFINE entries == {x \in log : x.op = "index"}
           written == {e.doc : e \in entries}
           S == {0} \cup {s.seq : s \in metaSegments} \cup {e.seq : e \in log}
<1>1. /\ seq' = Max(S)
      /\ buffer' = {[doc |-> d, seq |-> LastOn(d, entries).seq] : d \in written}
      /\ segRecords' = metaSegments /\ mergeMu' = Nobody
      /\ pc' = [m \in Mergers |-> "idle"] /\ job' = [m \in Mergers |-> NoJob]
      /\ UNCHANGED <<files, metaSegments, log, last>>
      /\ metaTombstones' \subseteq metaTombstones
      /\ tombstones' \subseteq metaTombstones' \cup {e.doc : e \in log}
      /\ expungeable' \subseteq metaSegments
  BY DEF CrashAndRecover
<1>2. /\ log \subseteq Logged /\ seq \in Nat /\ metaSegments \subseteq Segment
      /\ \A e \in log : e.seq \in Nat /\ e.seq <= seq /\ e.doc \in Docs
      /\ \A s \in metaSegments : s.seq \in Nat /\ s.seq <= seq
      /\ \A e \in log : \A s \in metaSegments : s.seq < e.seq
  BY DEF Struct, Typed, WritesTyped, SegmentsTyped, InSequence, Registered, Logged, Segment
<1>3. S \in SUBSET Nat /\ S # {} /\ \A k \in S : k <= seq
  BY <1>2
<1>4. seq' \in Nat /\ \A k \in S : k <= seq'
  <2> HIDE DEF S
  <2> QED
    BY <1>1, <1>2, <1>3, MaxIsGreatest
<1>5. ASSUME NEW v \in buffer'
      PROVE  v \in Version /\ \E e \in log : e.seq = v.seq
  <2>1. PICK d \in written : v = [doc |-> d, seq |-> LastOn(d, entries).seq]
    BY <1>1
  <2>2. PICK e \in entries : e.doc = d
    OBVIOUS
  <2>3. d \in Docs /\ entries \in SUBSET log
    BY <1>2
  <2>4. LastOn(d, entries) \in log
    BY <2>2, <2>3, LastOnExists
  <2> QED
    BY <1>2, <2>1, <2>3, <2>4 DEF Version
<1>6. WritesTyped'
  <2>1. metaTombstones \subseteq Docs /\ last \in [Docs -> LastOp]
    BY DEF WritesTyped, Struct, Typed
  <2>2. {e.doc : e \in log} \subseteq Docs
    BY <1>2
  <2>3. buffer' \subseteq Version
    BY <1>5
  <2> QED
    BY <1>1, <1>2, <1>4, <2>1, <2>2, <2>3 DEF WritesTyped
<1>7. SegmentsTyped'
  BY <1>1 DEF SegmentsTyped, Struct, Typed
<1>8. MergesTyped'
  BY <1>1, NoJobTyped DEF MergesTyped, Labels
<1>9. InSequence'
  <2>1. Registered' = metaSegments
    BY <1>1 DEF Registered
  <2>2. \A e \in log' : e.seq <= seq' /\ \A s \in Registered' : s.seq < e.seq
    BY <1>1, <1>2, <1>4, <2>1
  <2>3. \A v \in buffer' : v.seq <= seq' /\ \A s \in Registered' : s.seq < v.seq
    BY <1>1, <1>5, <2>2
  <2>4. \A s \in Registered' : s.seq <= seq'
    BY <1>4, <2>1
  <2>5. \A s, t \in metaSegments : s.seq = t.seq => s = t
    BY DEF Struct, InSequence
  <2> QED
    BY <1>1, <2>2, <2>3, <2>4, <2>5 DEF InSequence
<1>10. SameSegments'
  BY <1>1 DEF SameSegments
<1>11. JobsFit'
  <2>1. ASSUME NEW m \in Mergers PROVE JobFits(m)'
    <3>1. pc'[m] = "idle" /\ job'[m] = NoJob /\ mergeMu' # m
      BY <1>1, MergeAssumption
    <3> QED
      BY <1>4, <3>1, NoJobTyped DEF JobFits, Replacing
  <2> QED
    BY <2>1 DEF JobsFit
<1> QED
  BY <1>6, <1>7, <1>8, <1>9, <1>10, <1>11 DEF Struct, Typed

-----------------------------------------------------------------------------
(* Selection.                                                              *)

LEMMA JobTyped ==
    ASSUME Struct, NEW m \in Mergers
    PROVE  /\ job[m].inputs \subseteq Segment /\ job[m].out \in Segment /\ job[m].out.seq \in Nat
           /\ job[m].dead \subseteq Docs /\ job[m].loaded \subseteq Version
           /\ job[m].purge \subseteq Docs /\ job[m].counted \in BOOLEAN
           /\ \A s \in job[m].inputs : s.seq \in Nat
           /\ job[m] \in Job /\ pc[m] \in Labels
BY DEF Struct, Typed, MergesTyped, Job, Segment

\* The name of an output: the flush sequence of the newest input, one level up.
LEMMA OutputTyped ==
    ASSUME Struct, NEW inputs \in SUBSET segRecords, NEW first \in inputs
    PROVE  /\ Output(inputs, first) \in Segment
           /\ Output(inputs, first).level = first.level + 1
           /\ \E s \in inputs : s.seq = Output(inputs, first).seq
           /\ \A s \in inputs : s.seq <= Output(inputs, first).seq
           /\ Output(inputs, first).seq <= seq
           /\ \A v \in buffer : Output(inputs, first).seq < v.seq
<1> DEFINE S == {s.seq : s \in inputs}
<1>1. /\ seq \in Nat /\ first.level \in Nat
      /\ \A s \in segRecords : s.seq \in Nat /\ s.seq <= seq /\ \A v \in buffer : s.seq < v.seq
  BY DEF Struct, Typed, WritesTyped, SegmentsTyped, InSequence, Registered, Segment
<1>2. S \in SUBSET Nat /\ \A k \in S : k <= seq
  BY <1>1
<1>3. first.seq \in S
  OBVIOUS
<1>4. Max(S) \in S /\ \A k \in S : k <= Max(S)
  <2> HIDE DEF S
  <2> QED
    BY <1>1, <1>2, <1>3, MaxIsGreatest
<1>5. PICK s \in inputs : s.seq = Max(S)
  BY <1>4
<1>6. Output(inputs, first) = [seq |-> Max(S), level |-> first.level + 1]
  BY DEF Output
<1>7. \A k \in inputs : k.seq <= Max(S)
  BY <1>4
<1>8. Max(S) \in Nat
  BY <1>1, <1>5
<1> HIDE DEF S
<1> QED
  BY <1>1, <1>5, <1>6, <1>7, <1>8 DEF Segment

\* Whatever the policy, candidates are segments a search can see, and the first one
\* is among them; by tier, they are all of one level, and all that are of it if it has
\* no more than a merge takes.
LEMMA Selected ==
    ASSUME Struct, NEW m \in Mergers, Select(m)
    PROVE  \E inputs \in SUBSET segRecords : \E first \in inputs :
              /\ Choose(m, inputs, first)
              /\ SelectMerge(m) => \A s \in inputs : s.level = first.level
              /\ SelectMerge(m) /\ "capped" \notin Policies
                 /\ Cardinality(Level(first.level)) <= MaxMergeAtOnce =>
                    inputs = Level(first.level)
<1>1. CASE SelectMerge(m)
  <2> DEFINE l == Min(FullLevels)
  <2>1. PICK inputs \in SUBSET Level(l) :
           /\ Cardinality(inputs) \in (IF "capped" \in Policies
                                       THEN 2 .. Lesser(MaxMergeAtOnce, Cardinality(Level(l)))
                                       ELSE {Lesser(MaxMergeAtOnce, Cardinality(Level(l)))})
           /\ Choose(m, inputs, Newest(inputs))
    BY <1>1 DEF SelectMerge
  <2>2. segRecords \subseteq Segment /\ IsFiniteSet(segRecords)
    BY DEF Struct, Typed, SegmentsTyped
  <2>3. l \in FullLevels
    <3>1. FullLevels \in SUBSET Nat /\ FullLevels # {}
      BY <1>1, <2>2 DEF SelectMerge, FullLevels, Segment
    <3> QED
      BY <3>1, MinIsLeast
  <2>4. Cardinality(Level(l)) > SegmentsPerTier
    BY <2>3 DEF FullLevels
  <2>5. Level(l) \subseteq segRecords /\ IsFiniteSet(Level(l)) /\ Cardinality(Level(l)) \in Nat
    BY <2>2, FS_Subset, FS_CardinalityType DEF Level
  <2>6. Lesser(MaxMergeAtOnce, Cardinality(Level(l))) \in Nat \ {0}
    BY <2>4, <2>5, MergeAssumption DEF Lesser
  <2>7. Cardinality(inputs) # 0
    BY <2>1, <2>6
  <2>8. inputs # {}
    BY <2>7, FS_EmptySet
  <2>9. inputs \subseteq segRecords /\ \A s \in inputs : s.level = l
    BY <2>1, <2>5 DEF Level
  <2>10. Newest(inputs) \in inputs
    <3> DEFINE S == {s.seq : s \in inputs}
    <3>1. /\ seq \in Nat /\ \A s \in inputs : s.seq \in Nat /\ s.seq <= seq
      BY <2>9 DEF Struct, Typed, WritesTyped, SegmentsTyped, InSequence, Registered, Segment
    <3>2. S \in SUBSET Nat /\ (\A k \in S : k <= seq) /\ S # {}
      BY <3>1, <2>8
    <3>3. Max(S) \in S /\ \A k \in S : k <= Max(S)
      <4> HIDE DEF S
      <4> QED
        BY <3>1, <3>2, MaxIsGreatest
    <3>4. PICK s \in inputs : s.seq = Max(S)
      BY <3>3
    <3>5. \A t \in inputs : t.seq <= s.seq
      BY <3>3, <3>4
    <3> QED
      BY <3>4, <3>5 DEF Newest
  <2>11. ASSUME "capped" \notin Policies, Cardinality(Level(l)) <= MaxMergeAtOnce
         PROVE  inputs = Level(l)
    <3>1. Cardinality(inputs) = Cardinality(Level(l))
      BY <2>1, <2>5, <2>11, MergeAssumption DEF Lesser
    <3> QED
      BY <2>1, <2>5, <3>1, FS_Subset
  <2>12. Newest(inputs).level = l
    BY <2>9, <2>10
  <2> HIDE DEF l
  <2> QED
    BY <2>1, <2>9, <2>10, <2>11, <2>12
<1>2. CASE SelectExpungeDeletes(m) /\ ~ SelectMerge(m)
  BY <1>2 DEF SelectExpungeDeletes, Struct, Typed, SegmentsTyped
<1>3. CASE ForceMerge(m) /\ ~ SelectMerge(m)
  BY <1>3 DEF ForceMerge, kSubset
<1> QED
  BY <1>1, <1>2, <1>3 DEF Select

-----------------------------------------------------------------------------
(* The merges keep the structure.                                          *)

\* A step of one merge leaves the others as they were.
LEMMA OtherJobs ==
    ASSUME Struct, NEW m \in Mergers, NEW n \in Mergers \ {m},
           pc'[n] = pc[n], job'[n] = job[n], buffer' = buffer, seq' = seq,
           mergeMu' = n <=> mergeMu = n, segRecords' = segRecords \/ mergeMu = m
    PROVE  JobFits(n)'
BY DEF Struct, JobsFit, JobFits

\* A step that neither writes nor changes the segments.
LEMMA QuietStruct ==
    ASSUME Struct, NEW m \in Mergers, NEW label \in Labels, NEW j \in Job,
           pc' = [pc EXCEPT ![m] = label], job' = [job EXCEPT ![m] = j],
           mergeMu' \in Mergers \cup {Nobody},
           \A n \in Mergers \ {m} : mergeMu' = n <=> mergeMu = n,
           UNCHANGED <<log, seq, buffer, last, segRecords, metaSegments, expungeable>>,
           tombstones' \subseteq tombstones, metaTombstones' \subseteq metaTombstones,
           pc[m] # "publish", label # "publish",
           DOMAIN files' \subseteq Segment, \A s \in DOMAIN files' : files'[s] \subseteq Version,
           JobFits(m)'
    PROVE  Struct'
<1>1. pc'[m] = label /\ job'[m] = j /\ \A n \in Mergers \ {m} : pc'[n] = pc[n] /\ job'[n] = job[n]
  BY DEF Struct, Typed, MergesTyped
<1>2. WritesTyped'
  BY DEF WritesTyped, Struct, Typed
<1>3. SegmentsTyped'
  BY DEF SegmentsTyped, Struct, Typed
<1>4. MergesTyped'
  BY DEF MergesTyped, Struct, Typed
<1>5. InSequence'
  BY DEF InSequence, Registered, Struct
<1>6. SameSegments'
  BY <1>1 DEF SameSegments, Struct
<1>7. JobsFit'
  <2>1. ASSUME NEW n \in Mergers \ {m} PROVE JobFits(n)'
    BY <1>1, <2>1, OtherJobs
  <2> QED
    BY <2>1 DEF JobsFit
<1> QED
  BY <1>2, <1>3, <1>4, <1>5, <1>6, <1>7 DEF Struct, Typed

LEMMA SelectStruct == ASSUME Struct, NEW m \in Mergers, Select(m) PROVE Struct'
<1>1. PICK inputs \in SUBSET segRecords : \E first \in inputs : Choose(m, inputs, first)
  BY Selected
<1>2. PICK first \in inputs : Choose(m, inputs, first)
  BY <1>1
<1> DEFINE j == [NoJob EXCEPT !.inputs = inputs, !.out = Output(inputs, first)]
<1>3. /\ pc[m] = "idle" /\ pc' = [pc EXCEPT ![m] = "begin"] /\ job' = [job EXCEPT ![m] = j]
      /\ UNCHANGED <<disk, writes, memory, mergeMu>>
  BY <1>2 DEF Choose
<1>4. /\ Output(inputs, first) \in Segment
      /\ \E s \in inputs : s.seq = Output(inputs, first).seq
      /\ \A s \in inputs : s.seq <= Output(inputs, first).seq
      /\ Output(inputs, first).seq <= seq
      /\ \A v \in buffer : Output(inputs, first).seq < v.seq
  BY OutputTyped
<1>5. inputs \subseteq Segment
  BY DEF Struct, Typed, SegmentsTyped
<1>6. j \in Job /\ j.inputs = inputs /\ j.out = Output(inputs, first)
  BY <1>4, <1>5 DEF NoJob, Job
<1> HIDE DEF j
<1>7. pc'[m] = "begin" /\ job'[m] = j
  BY <1>3 DEF Struct, Typed, MergesTyped
<1>8. JobFits(m)'
  <2>1. mergeMu # m
    BY <1>3 DEF Struct, JobsFit, JobFits, Replacing
  <2> QED
    BY <1>3, <1>4, <1>6, <1>7, <2>1 DEF JobFits, Replacing, writes, memory
<1>9. /\ UNCHANGED <<log, seq, buffer, last, segRecords, metaSegments, expungeable, files>>
      /\ tombstones' = tombstones /\ metaTombstones' = metaTombstones
  BY <1>3 DEF disk, writes, memory
<1>10. DOMAIN files' \subseteq Segment /\ \A s \in DOMAIN files' : files'[s] \subseteq Version
  BY <1>9 DEF Struct, Typed, SegmentsTyped
<1>11. mergeMu' = mergeMu /\ mergeMu \in Mergers \cup {Nobody}
  BY <1>3 DEF Struct, Typed, MergesTyped
<1>12. "begin" \in Labels
  BY DEF Labels
<1> QED
  BY <1>3, <1>6, <1>8, <1>9, <1>10, <1>11, <1>12, QuietStruct

\* A merge that ends changes nothing else.
LEMMA FinishStruct ==
    ASSUME Struct, NEW m \in Mergers, Finish(m), mergeMu \in {m, Nobody}, pc[m] # "publish",
           UNCHANGED <<log, seq, buffer, last, segRecords, metaSegments, expungeable>>,
           tombstones' = tombstones, metaTombstones' = metaTombstones,
           DOMAIN files' \subseteq Segment, \A s \in DOMAIN files' : files'[s] \subseteq Version
    PROVE  Struct'
<1>1. /\ pc' = [pc EXCEPT ![m] = "idle"] /\ job' = [job EXCEPT ![m] = NoJob]
      /\ mergeMu' = Nobody
  BY DEF Finish, Goto
<1>2. pc'[m] = "idle" /\ job'[m] = NoJob
  BY <1>1 DEF Struct, Typed, MergesTyped
<1>3. \A n \in Mergers \ {m} : mergeMu' = n <=> mergeMu = n
  BY <1>1, MergeAssumption
<1>4. JobFits(m)'
  <2>1. 0 <= seq /\ mergeMu' # m
    BY <1>1, MergeAssumption DEF Struct, Typed, WritesTyped
  <2> QED
    BY <1>2, <2>1, NoJobTyped DEF JobFits, Replacing
<1>5. "idle" \in Labels
  BY DEF Labels
<1> QED
  BY <1>1, <1>3, <1>4, <1>5, NoJobTyped, QuietStruct

\* A running merge holds the lock.
LEMMA Holder ==
    ASSUME Struct, NEW m \in Mergers, pc[m] \in Replacing \cup {"delete"}
    PROVE  mergeMu = m /\ \A n \in Mergers \ {m} : pc[n] \notin Replacing \cup {"delete"}
BY DEF Struct, JobsFit, JobFits

LEMMA FilesTyped ==
    ASSUME Struct PROVE DOMAIN files \subseteq Segment /\ \A s \in DOMAIN files : files[s] \subseteq Version
BY DEF Struct, Typed, SegmentsTyped

LEMMA BeginMergeStruct == ASSUME Struct, NEW m \in Mergers, BeginMerge(m) PROVE Struct'
<1>1. /\ pc[m] = "begin" /\ mergeMu = Nobody
      /\ UNCHANGED <<log, seq, buffer, last, segRecords, metaSegments, expungeable, files>>
      /\ tombstones' = tombstones /\ metaTombstones' = metaTombstones
  BY DEF BeginMerge, disk, writes, memory
<1>2. DOMAIN files' \subseteq Segment /\ \A s \in DOMAIN files' : files'[s] \subseteq Version
  BY <1>1, FilesTyped
<1>3. CASE job[m].inputs \subseteq segRecords
  <2> DEFINE j == [job[m] EXCEPT !.dead = tombstones]
  <2>1. mergeMu' = m /\ pc' = [pc EXCEPT ![m] = "merge"] /\ job' = [job EXCEPT ![m] = j]
    BY <1>3 DEF BeginMerge, Goto
  <2>2. j \in Job /\ j.inputs = job[m].inputs /\ j.out = job[m].out
    BY JobTyped DEF Struct, Typed, WritesTyped, Job
  <2> HIDE DEF j
  <2>3. pc'[m] = "merge" /\ job'[m] = j
    BY <2>1 DEF Struct, Typed, MergesTyped
  <2>4. JobFits(m)'
    BY <1>1, <1>3, <2>1, <2>2, <2>3 DEF Struct, JobsFit, JobFits, Replacing
  <2>5. \A n \in Mergers \ {m} : mergeMu' = n <=> mergeMu = n
    BY <1>1, <2>1, MergeAssumption
  <2>6. "merge" \in Labels
    BY DEF Labels, Replacing
  <2> QED
    BY <1>1, <1>2, <2>1, <2>2, <2>4, <2>5, <2>6, QuietStruct
<1>4. CASE ~ job[m].inputs \subseteq segRecords
  BY <1>1, <1>2, <1>4, FinishStruct DEF BeginMerge
<1> QED
  BY <1>3, <1>4

\* A step under mergeMu that only moves on to the next one.
LEMMA ForwardStruct ==
    ASSUME Struct, NEW m \in Mergers, pc[m] \in Replacing \ {"publish"},
           NEW label \in Written \ {"publish"}, NEW j \in Job,
           j.inputs = job[m].inputs, j.out = job[m].out,
           pc' = [pc EXCEPT ![m] = label], job' = [job EXCEPT ![m] = j],
           UNCHANGED <<log, seq, buffer, last, segRecords, metaSegments, expungeable, mergeMu>>,
           tombstones' \subseteq tombstones, metaTombstones' \subseteq metaTombstones,
           DOMAIN files' \subseteq Segment, \A s \in DOMAIN files' : files'[s] \subseteq Version
    PROVE  Struct'
<1>1. pc'[m] = label /\ job'[m] = j
  BY DEF Struct, Typed, MergesTyped
<1>2. JobFits(m)'
  BY <1>1 DEF Struct, JobsFit, JobFits, Written, Replacing
<1>3. label \in Labels /\ label # "publish" /\ pc[m] # "publish"
  BY DEF Labels, Written
<1>4. mergeMu' \in Mergers \cup {Nobody}
  BY DEF Struct, Typed, MergesTyped
<1>5. \A n \in Mergers \ {m} : mergeMu' = n <=> mergeMu = n
  OBVIOUS
<1> QED
  BY <1>2, <1>3, <1>4, <1>5, QuietStruct

\* What the merge of files returns are versions that its inputs have.
LEMMA MergedVersions ==
    ASSUME Struct, NEW inputs \in SUBSET segRecords, inputs \subseteq DOMAIN files, NEW dead,
           NEW v \in Merged(inputs, dead)
    PROVE  /\ v.doc \notin dead /\ v.doc \in DocsOf(Contents(inputs))
           /\ v \in files[Newest(Holders(inputs, v.doc))]
BY DEF Merged

\* A segment holds a document if its file has it.
LEMMA HoldersHave ==
    ASSUME NEW segs, NEW d PROVE Holders(segs, d) = {s \in segs : Has(s, d)}
<1>1. \A s : Contents({s}) = IF s \in DOMAIN files THEN files[s] ELSE {}
  BY DEF Contents
<1>2. \A s : d \in DocsOf(Contents({s})) <=> Has(s, d)
  BY <1>1 DEF Has, DocsOf
<1> QED
  BY <1>2 DEF Holders

\* Of the segments in segs that have a document, one is the newest.
LEMMA NewestHolder ==
    ASSUME Struct, NEW segs \in SUBSET Registered, NEW d, NEW s \in segs, Has(s, d)
    PROVE  /\ Newest(Holders(segs, d)) \in segs /\ Has(Newest(Holders(segs, d)), d)
           /\ \A t \in segs : Has(t, d) => t.seq <= Newest(Holders(segs, d)).seq
<1> DEFINE H == {t \in segs : Has(t, d)}
           S == {t.seq : t \in H}
<1>1. Holders(segs, d) = H
  BY HoldersHave
<1>2. seq \in Nat /\ \A t \in segs : t.seq \in Nat /\ t.seq <= seq
  BY DEF Struct, Typed, WritesTyped, SegmentsTyped, InSequence, Registered, Segment
<1>3. S \in SUBSET Nat /\ \A k \in S : k <= seq
  BY <1>2
<1>4. s.seq \in S
  OBVIOUS
<1>5. Max(S) \in S /\ \A k \in S : k <= Max(S)
  <2> HIDE DEF S
  <2> QED
    BY <1>2, <1>3, <1>4, MaxIsGreatest
<1>6. PICK h \in H : h.seq = Max(S)
  BY <1>5
<1>7. \A t \in H : t.seq <= h.seq
  BY <1>5, <1>6
<1> HIDE DEF S
<1>8. Newest(H) \in H /\ \A t \in H : t.seq <= Newest(H).seq
  <2> HIDE DEF H
  <2> QED
    BY <1>6, <1>7 DEF Newest
<1> QED
  BY <1>1, <1>8

LEMMA PutMergedStruct == ASSUME Struct, NEW m \in Mergers, PutMerged(m) PROVE Struct'
<1> DEFINE j == [job[m] EXCEPT !.loaded = Contents(job[m].inputs)]
<1>1. /\ pc[m] = "merge" /\ job[m].inputs \subseteq DOMAIN files
      /\ files' = PutFile(job[m].out, Merged(job[m].inputs, job[m].dead))
      /\ pc' = [pc EXCEPT ![m] = "scan"] /\ job' = [job EXCEPT ![m] = j]
      /\ UNCHANGED <<log, seq, buffer, last, segRecords, metaSegments, expungeable, mergeMu>>
      /\ tombstones' = tombstones /\ metaTombstones' = metaTombstones
  BY DEF PutMerged, Goto, writes, memory
<1>2. Contents(job[m].inputs) \subseteq Version
  BY FilesTyped DEF Contents
<1>3. j \in Job /\ j.inputs = job[m].inputs /\ j.out = job[m].out
  BY <1>2, JobTyped DEF Job
<1>4. Merged(job[m].inputs, job[m].dead) \subseteq Version
  <2>1. job[m].inputs \in SUBSET segRecords
    BY <1>1 DEF Struct, JobsFit, JobFits, Replacing
  <2>2. ASSUME NEW v \in Merged(job[m].inputs, job[m].dead) PROVE v \in Version
    <3> DEFINE h == Newest(Holders(job[m].inputs, v.doc))
    <3>1. v.doc \in DocsOf(Contents(job[m].inputs)) /\ v \in files[h]
      BY <1>1, <2>1, MergedVersions
    <3>2. PICK s \in job[m].inputs : Has(s, v.doc)
      BY <3>1 DEF DocsOf, Contents, Has
    <3>3. h \in job[m].inputs
      BY <2>1, <3>2, NewestHolder DEF Registered
    <3> HIDE DEF h
    <3> QED
      BY <1>1, <3>1, <3>3, FilesTyped
  <2> QED
    BY <2>2
<1>5. DOMAIN files' \subseteq Segment /\ \A s \in DOMAIN files' : files'[s] \subseteq Version
  BY <1>1, <1>4, JobTyped, PutFileTyped
<1> HIDE DEF j
<1> QED
  BY <1>1, <1>3, <1>5, ForwardStruct DEF Written, Replacing

LEMMA ScanTombstonesStruct == ASSUME Struct, NEW m \in Mergers, ScanTombstones(m) PROVE Struct'
<1> DEFINE counts == DocsOf(files[job[m].out]) \cap tombstones # {}
           j == [[job[m] EXCEPT !.purge = Purged(m)] EXCEPT !.counted = counts]
           label == IF Purged(m) = {} THEN "register" ELSE "purge"
<1>1. /\ pc[m] = "scan" /\ pc' = [pc EXCEPT ![m] = label] /\ job' = [job EXCEPT ![m] = j]
      /\ UNCHANGED <<log, seq, buffer, last, segRecords, metaSegments, expungeable, mergeMu, files>>
      /\ tombstones' = tombstones /\ metaTombstones' = metaTombstones
  BY JobTyped DEF ScanTombstones, Goto, disk, writes, memory
<1>2. Purged(m) \subseteq Docs /\ counts \in BOOLEAN
  BY DEF Purged, Struct, Typed, WritesTyped
<1> HIDE DEF counts
<1>3. j \in Job /\ j.inputs = job[m].inputs /\ j.out = job[m].out
  BY <1>2, JobTyped DEF Job
<1>4. label \in Written \ {"publish"}
  BY DEF Written, Replacing
<1> HIDE DEF j, label
<1> QED
  BY <1>1, <1>3, <1>4, FilesTyped, ForwardStruct DEF Replacing

LEMMA PurgeTombstonesStruct == ASSUME Struct, NEW m \in Mergers, PurgeTombstones(m) PROVE Struct'
<1>1. /\ pc[m] = "purge" /\ pc' = [pc EXCEPT ![m] = "purgeMeta"]
      /\ UNCHANGED <<log, seq, buffer, last, segRecords, metaSegments, expungeable, mergeMu, files, job>>
      /\ tombstones' \subseteq tombstones /\ metaTombstones' = metaTombstones
  BY DEF PurgeTombstones, Goto, disk, writes
<1>2. job' = [job EXCEPT ![m] = job[m]] /\ job[m] \in Job
  BY <1>1, JobTyped DEF Struct, Typed, MergesTyped
<1> QED
  BY <1>1, <1>2, FilesTyped, ForwardStruct DEF Written, Replacing

LEMMA RemoveTombstoneStruct == ASSUME Struct, NEW m \in Mergers, RemoveTombstone(m) PROVE Struct'
<1>1. PICK d \in job[m].purge :
         /\ metaTombstones' = metaTombstones \ {d}
         /\ job' = [job EXCEPT ![m].purge = @ \ {d}]
         /\ IF job[m].purge = {d} THEN Goto(m, "register") ELSE UNCHANGED pc
  BY DEF RemoveTombstone
<1> DEFINE j == [job[m] EXCEPT !.purge = job[m].purge \ {d}]
           label == IF job[m].purge = {d} THEN "register" ELSE "purgeMeta"
<1>2. /\ pc[m] = "purgeMeta" /\ tombstones' = tombstones
      /\ UNCHANGED <<log, seq, buffer, last, segRecords, metaSegments, expungeable, mergeMu, files>>
  BY DEF RemoveTombstone, writes, memory
<1>3. pc' = [pc EXCEPT ![m] = label]
  BY <1>1, <1>2 DEF Goto, Struct, Typed, MergesTyped
<1>4. job' = [job EXCEPT ![m] = j]
  BY <1>1
<1>5. j \in Job /\ j.inputs = job[m].inputs /\ j.out = job[m].out
  BY JobTyped DEF Job
<1>6. label \in Written \ {"publish"}
  BY DEF Written, Replacing
<1> HIDE DEF j, label
<1> QED
  BY <1>1, <1>2, <1>3, <1>4, <1>5, <1>6, FilesTyped, ForwardStruct DEF Replacing

LEMMA AbortMergeStruct == ASSUME Struct, NEW m \in Mergers, AbortMerge(m) PROVE Struct'
<1>1. /\ pc[m] \in {"merge", "scan"} /\ Finish(m)
      /\ UNCHANGED <<log, seq, buffer, last, segRecords, metaSegments, expungeable, files>>
      /\ tombstones' = tombstones /\ metaTombstones' = metaTombstones
  BY DEF AbortMerge, disk, memory
<1> QED
  BY <1>1, Holder, FilesTyped, FinishStruct DEF Replacing

LEMMA MissingInputStruct == ASSUME Struct, NEW m \in Mergers, MissingInput(m) PROVE Struct'
<1>1. /\ pc[m] = "merge" /\ Finish(m)
      /\ UNCHANGED <<log, seq, buffer, last, segRecords, metaSegments, expungeable, files>>
      /\ tombstones' = tombstones /\ metaTombstones' = metaTombstones
  BY DEF MissingInput, disk, writes, memory
<1> QED
  BY <1>1, Holder, FilesTyped, FinishStruct DEF Replacing

\* The output put in the place of the inputs leaves a set of segments like the one
\* before: typed, finite, with no flush sequence that was not there.
LEMMA Replaced ==
    ASSUME Struct, NEW m \in Mergers, pc[m] \in Replacing,
           NEW R, R = (segRecords \ job[m].inputs) \cup {job[m].out}
    PROVE  /\ R \subseteq Segment /\ IsFiniteSet(R)
           /\ \A s \in R : \E t \in segRecords : t.seq = s.seq
           /\ \A s, t \in R : s.seq = t.seq => s = t
<1>1. segRecords \subseteq Segment /\ IsFiniteSet(segRecords)
  BY DEF Struct, Typed, SegmentsTyped
<1>2. /\ job[m].inputs \subseteq segRecords /\ job[m].out \in Segment
      /\ \E s \in job[m].inputs : s.seq = job[m].out.seq
  BY JobTyped DEF Struct, JobsFit, JobFits
<1>3. PICK s \in job[m].inputs : s.seq = job[m].out.seq
  BY <1>2
<1>4. IsFiniteSet(R)
  <2>1. IsFiniteSet(segRecords \ job[m].inputs)
    BY <1>1, FS_Subset
  <2> QED
    BY <2>1, FS_AddElement
<1>5. \A t \in segRecords \ job[m].inputs : t.seq # job[m].out.seq
  BY <1>2, <1>3 DEF Struct, InSequence
<1>6. \A t, u \in segRecords : t.seq = u.seq => t = u
  BY DEF Struct, InSequence
<1> QED
  BY <1>1, <1>2, <1>3, <1>4, <1>5, <1>6

\* An output that is no input is no other segment either.
LEMMA OutputIsNew ==
    ASSUME Struct, NEW m \in Mergers, pc[m] \in Replacing
    PROVE  job[m].out \notin segRecords \ job[m].inputs
<1>1. PICK s \in job[m].inputs : s.seq = job[m].out.seq
  BY DEF Struct, JobsFit, JobFits
<1>2. s \in segRecords
  BY DEF Struct, JobsFit, JobFits
<1> QED
  BY <1>1, <1>2 DEF Struct, InSequence

\* Swapping the segments in the manifest or in memory.
LEMMA SwapInSequence ==
    ASSUME Struct, NEW m \in Mergers, pc[m] \in Replacing,
           NEW R, R = (segRecords \ job[m].inputs) \cup {job[m].out},
           UNCHANGED <<log, seq, buffer>>,
           \/ segRecords' = segRecords /\ metaSegments' = R
           \/ segRecords' = R /\ metaSegments' = R
    PROVE  InSequence'
<1>1. /\ \A s \in R : \E t \in segRecords : t.seq = s.seq
      /\ \A s, t \in R : s.seq = t.seq => s = t
  BY Replaced
<1>2. \A s \in Registered' : \E t \in Registered : t.seq = s.seq
  BY <1>1 DEF Registered
<1>3. /\ \A e \in log : e.seq <= seq /\ \A s \in Registered : s.seq < e.seq
      /\ \A v \in buffer : v.seq <= seq /\ \A s \in Registered : s.seq < v.seq
      /\ \A s \in Registered : s.seq <= seq
      /\ \A s, t \in segRecords : s.seq = t.seq => s = t
  BY DEF Struct, InSequence
<1>4. \A e \in log' : e.seq <= seq' /\ \A s \in Registered' : s.seq < e.seq
  BY <1>2, <1>3
<1>5. \A v \in buffer' : v.seq <= seq' /\ \A s \in Registered' : s.seq < v.seq
  BY <1>2, <1>3
<1>6. \A s \in Registered' : s.seq <= seq'
  BY <1>2, <1>3
<1> QED
  BY <1>1, <1>3, <1>4, <1>5, <1>6 DEF InSequence

LEMMA AddThenRemoveSegmentsStruct ==
    ASSUME Struct, NEW m \in Mergers, AddThenRemoveSegments(m) PROVE Struct'
<1> DEFINE R == (segRecords \ job[m].inputs) \cup {job[m].out}
<1>1. /\ pc[m] = "register" /\ pc' = [pc EXCEPT ![m] = "publish"]
      /\ metaSegments' = (metaSegments \ job[m].inputs) \cup {job[m].out}
      /\ UNCHANGED <<log, seq, buffer, last, segRecords, expungeable, mergeMu, job, files>>
      /\ tombstones' = tombstones /\ metaTombstones' = metaTombstones
  BY DEF AddThenRemoveSegments, Goto, writes, memory
<1>2. pc'[m] = "publish" /\ \A n \in Mergers \ {m} : pc'[n] = pc[n] /\ pc[n] # "publish"
  BY <1>1, Holder DEF Struct, Typed, MergesTyped, Replacing
<1>3. metaSegments' = R
  BY <1>1, <1>2 DEF Struct, SameSegments
<1>4. R \subseteq Segment /\ IsFiniteSet(R)
  BY <1>1, Replaced DEF Replacing
<1>5. WritesTyped'
  BY <1>1 DEF WritesTyped, Struct, Typed
<1>6. SegmentsTyped'
  BY <1>1, <1>3, <1>4 DEF SegmentsTyped, Struct, Typed
<1>7. MergesTyped'
  BY <1>1 DEF MergesTyped, Struct, Typed, Labels, Replacing
<1>8. InSequence'
  BY <1>1, <1>3, SwapInSequence DEF Replacing
<1>9. SameSegments'
  BY <1>1, <1>2, <1>3 DEF SameSegments
<1>10. JobsFit'
  <2>1. JobFits(m)'
    BY <1>1, <1>2 DEF Struct, JobsFit, JobFits, Replacing
  <2>2. ASSUME NEW n \in Mergers \ {m} PROVE JobFits(n)'
    BY <1>1, <1>2, <2>2, OtherJobs
  <2> QED
    BY <2>1, <2>2 DEF JobsFit
<1> QED
  BY <1>5, <1>6, <1>7, <1>8, <1>9, <1>10 DEF Struct, Typed

LEMMA PublishMergedStruct == ASSUME Struct, NEW m \in Mergers, PublishMerged(m) PROVE Struct'
<1>1. /\ pc[m] = "publish" /\ pc' = [pc EXCEPT ![m] = "delete"]
      /\ segRecords' = (segRecords \ job[m].inputs) \cup {job[m].out}
      /\ expungeable' \subseteq (expungeable \ job[m].inputs) \cup {job[m].out}
      /\ UNCHANGED <<log, seq, buffer, last, metaSegments, mergeMu, job, files>>
      /\ tombstones' = tombstones /\ metaTombstones' = metaTombstones
  BY DEF PublishMerged, Goto, disk, writes
<1>2. pc'[m] = "delete" /\ \A n \in Mergers \ {m} : pc'[n] = pc[n] /\ pc[n] # "publish"
  BY <1>1, Holder DEF Struct, Typed, MergesTyped, Replacing
<1>3. metaSegments' = segRecords'
  BY <1>1 DEF Struct, SameSegments
<1>4. segRecords' \subseteq Segment /\ IsFiniteSet(segRecords')
  BY <1>1, Replaced DEF Replacing
<1>5. WritesTyped'
  BY <1>1 DEF WritesTyped, Struct, Typed
<1>6. SegmentsTyped'
  BY <1>1, <1>3, <1>4 DEF SegmentsTyped, Struct, Typed
<1>7. MergesTyped'
  BY <1>1 DEF MergesTyped, Struct, Typed, Labels
<1>8. InSequence'
  BY <1>1, <1>3, SwapInSequence DEF Replacing
<1>9. SameSegments'
  BY <1>2, <1>3 DEF SameSegments
<1>10. JobsFit'
  <2>1. JobFits(m)'
    BY <1>1, <1>2 DEF Struct, JobsFit, JobFits, Replacing
  <2>2. ASSUME NEW n \in Mergers \ {m} PROVE JobFits(n)'
    <3>1. mergeMu = m
      BY <1>1, Holder DEF Replacing
    <3> QED
      BY <1>1, <1>2, <2>2, <3>1, OtherJobs
  <2> QED
    BY <2>1, <2>2 DEF JobsFit
<1> QED
  BY <1>5, <1>6, <1>7, <1>8, <1>9, <1>10 DEF Struct, Typed

LEMMA DeleteInputStruct == ASSUME Struct, NEW m \in Mergers, DeleteInput(m) PROVE Struct'
<1>1. PICK s \in job[m].inputs :
         /\ files' = [k \in DOMAIN files \ {s} |-> files[k]]
         /\ IF job[m].inputs = {s} THEN Finish(m)
            ELSE job' = [job EXCEPT ![m].inputs = @ \ {s}] /\ UNCHANGED <<pc, mergeMu>>
  BY DEF DeleteInput
<1>2. /\ pc[m] = "delete"
      /\ UNCHANGED <<log, seq, buffer, last, segRecords, metaSegments, expungeable>>
      /\ tombstones' = tombstones /\ metaTombstones' = metaTombstones
  BY DEF DeleteInput, writes, memory
<1>3. DOMAIN files' \subseteq Segment /\ \A k \in DOMAIN files' : files'[k] \subseteq Version
  BY <1>1, FilesTyped
<1>4. CASE Finish(m)
  BY <1>2, <1>3, <1>4, Holder, FinishStruct
<1>5. CASE ~ Finish(m)
  <2> DEFINE j == [job[m] EXCEPT !.inputs = job[m].inputs \ {s}]
  <2>1. job' = [job EXCEPT ![m] = j] /\ pc' = pc /\ mergeMu' = mergeMu
    BY <1>1, <1>5
  <2>2. j \in Job /\ j.inputs = job[m].inputs \ {s} /\ j.out = job[m].out
    BY JobTyped DEF Job
  <2> HIDE DEF j
  <2>3. pc' = [pc EXCEPT ![m] = "delete"] /\ job'[m] = j /\ pc'[m] = "delete"
    BY <1>2, <2>1 DEF Struct, Typed, MergesTyped
  <2>4. JobFits(m)'
    BY <1>2, <2>1, <2>2, <2>3 DEF Struct, JobsFit, JobFits, Replacing
  <2>5. "delete" \in Labels /\ mergeMu' \in Mergers \cup {Nobody}
    BY <2>1 DEF Labels, Struct, Typed, MergesTyped
  <2> QED
    BY <1>2, <1>3, <2>1, <2>2, <2>3, <2>4, <2>5, QuietStruct
<1> QED
  BY <1>4, <1>5

LEMMA NextStruct == Struct /\ [Next]_vars => Struct'
<1> SUFFICES ASSUME Struct, [Next]_vars PROVE Struct'
  OBVIOUS
<1>1. CASE UNCHANGED vars
  BY <1>1 DEF vars, disk, writes, memory, merging, Struct, Typed, WritesTyped, SegmentsTyped,
              MergesTyped, InSequence, Registered, SameSegments, JobsFit, JobFits
<1>2. CASE \E d \in Docs : Index(d) \/ Delete(d)
  BY <1>2, IndexStruct, DeleteStruct
<1>3. CASE Flush \/ CrashAndRecover
  BY <1>3, FlushStruct, CrashStruct
<1>4. CASE \E m \in Mergers : Select(m) \/ MergeStep(m)
  BY <1>4, SelectStruct, BeginMergeStruct, PutMergedStruct, AbortMergeStruct, MissingInputStruct,
     ScanTombstonesStruct, PurgeTombstonesStruct, RemoveTombstoneStruct,
     AddThenRemoveSegmentsStruct, PublishMergedStruct, DeleteInputStruct DEF MergeStep
<1> QED
  BY <1>1, <1>2, <1>3, <1>4 DEF Next, Rest

\* What a step of a merge does to the others, and to what it is about itself.
LEMMA StepFrame ==
    ASSUME Struct, NEW m \in Mergers, MergeStep(m)
    PROVE  /\ \A n \in Mergers \ {m} : pc'[n] = pc[n] /\ job'[n] = job[n]
           /\ \/ job'[m] = NoJob
              \/ job'[m].out = job[m].out /\ job'[m].inputs \subseteq job[m].inputs
<1> USE JobTyped DEF Struct, Typed, MergesTyped, Job, Finish, Goto
<1>1. CASE BeginMerge(m)
  BY <1>1 DEF BeginMerge
<1>2. CASE PutMerged(m)
  BY <1>2 DEF PutMerged
<1>3. CASE AbortMerge(m) \/ MissingInput(m)
  BY <1>3 DEF AbortMerge, MissingInput
<1>4. CASE ScanTombstones(m)
  <2>1. job'[m] = [[job[m] EXCEPT !.purge = Purged(m)]
                   EXCEPT !.counted = DocsOf(files[job[m].out]) \cap tombstones # {}]
    BY <1>4 DEF ScanTombstones
  <2>2. job'[m].out = job[m].out /\ job'[m].inputs = job[m].inputs
    BY <2>1
  <2> QED
    BY <1>4, <2>2 DEF ScanTombstones
<1>5. CASE PurgeTombstones(m)
  BY <1>5 DEF PurgeTombstones
<1>6. CASE RemoveTombstone(m)
  BY <1>6 DEF RemoveTombstone
<1>7. CASE AddThenRemoveSegments(m)
  BY <1>7 DEF AddThenRemoveSegments
<1>8. CASE PublishMerged(m)
  BY <1>8 DEF PublishMerged
<1>9. CASE DeleteInput(m)
  <2>1. PICK s \in job[m].inputs :
           IF job[m].inputs = {s} THEN Finish(m)
           ELSE job' = [job EXCEPT ![m].inputs = @ \ {s}] /\ UNCHANGED <<pc, mergeMu>>
    BY <1>9 DEF DeleteInput
  <2>2. CASE Finish(m)
    BY <2>2
  <2>3. CASE job' = [job EXCEPT ![m].inputs = @ \ {s}] /\ UNCHANGED <<pc, mergeMu>>
    BY <2>3
  <2> QED
    BY <2>1, <2>2, <2>3
<1> QED
  BY <1>1, <1>2, <1>3, <1>4, <1>5, <1>6, <1>7, <1>8, <1>9 DEF MergeStep

-----------------------------------------------------------------------------
(* Registered files exist.                                                 *)

\* While a file is put in place, none disappears.
LEMMA FilesGrow ==
    ASSUME FilesFit, DOMAIN files \subseteq DOMAIN files', Registered' \subseteq DOMAIN files',
           \A m \in Mergers : pc'[m] \in Written => \/ pc[m] \in Written /\ job'[m].out = job[m].out
                                                    \/ job'[m].out \in DOMAIN files',
           \A m \in Mergers : pc'[m] = "delete" => job'[m].inputs \cap Registered' = {}
    PROVE  FilesFit'
BY DEF FilesFit

LEMMA WriteFiles == ASSUME Struct, FilesFit, NEW d \in Docs, Index(d) \/ Delete(d) PROVE FilesFit'
BY DEF FilesFit, Index, Delete, merging, Registered

LEMMA FlushFiles == ASSUME Struct, FilesFit, Flush PROVE FilesFit'
<1> DEFINE s == [seq |-> seq, level |-> 0]
<1>1. /\ buffer # {} /\ files' = PutFile(s, buffer)
      /\ metaSegments' = metaSegments \cup {s} /\ segRecords' = segRecords \cup {s}
      /\ pc' = pc /\ job' = job
  BY DEF Flush, merging
<1>2. /\ s \in Segment /\ s.seq = seq /\ seq \in Nat /\ \A k \in Registered : k.seq < seq
      /\ buffer \subseteq Version
  BY <1>1, FlushedIsNew DEF Struct, Typed, WritesTyped
<1> HIDE DEF s
<1>3. DOMAIN files' = DOMAIN files \cup {s}
  BY <1>1, <1>2, PutFileTyped
<1>4. Registered' \subseteq DOMAIN files'
  BY <1>1, <1>3 DEF FilesFit, Registered
<1>5. ASSUME NEW m \in Mergers, pc[m] = "delete" PROVE s \notin job[m].inputs
  <2>1. PICK v \in buffer : TRUE
    BY <1>1
  <2>2. /\ \A k \in job[m].inputs : k.seq \in Nat /\ k.seq <= job[m].out.seq
        /\ job[m].out.seq \in Nat /\ job[m].out.seq < v.seq
    BY <1>5, JobTyped DEF Struct, JobsFit, JobFits
  <2>3. v.seq \in Nat /\ v.seq <= seq
    BY DEF Struct, Typed, WritesTyped, InSequence, Version
  <2> QED
    BY <1>2, <2>2, <2>3
<1>6. \A m \in Mergers : pc'[m] = "delete" => job'[m].inputs \cap Registered' = {}
  BY <1>1, <1>5 DEF FilesFit, Registered
<1> QED
  BY <1>1, <1>3, <1>4, <1>6, FilesGrow

LEMMA CrashFiles == ASSUME Struct, FilesFit, CrashAndRecover PROVE FilesFit'
<1>1. /\ UNCHANGED <<files, metaSegments>> /\ segRecords' = metaSegments
      /\ \A m \in Mergers : pc'[m] = "idle"
  BY DEF CrashAndRecover
<1> QED
  BY <1>1 DEF FilesFit, Registered, Written, Replacing

\* A step that touches no file and no list of segments.
LEMMA QuietFiles ==
    ASSUME Struct, FilesFit, NEW m \in Mergers, UNCHANGED <<files, segRecords, metaSegments>>,
           \A n \in Mergers \ {m} : pc'[n] = pc[n] /\ job'[n] = job[n],
           pc'[m] # "delete", pc'[m] \in Written => pc[m] \in Written /\ job'[m].out = job[m].out
    PROVE  FilesFit'
BY DEF FilesFit, Registered

LEMMA MergeFiles ==
    ASSUME Struct, FilesFit, OwnName, NEW m \in Mergers, Select(m) \/ MergeStep(m)
    PROVE  FilesFit'
<1>1. \A n \in Mergers \ {m} : pc'[n] = pc[n] /\ job'[n] = job[n]
  BY DEF Select, MergeStep, SelectMerge, SelectExpungeDeletes, ForceMerge, Choose, BeginMerge,
         PutMerged, AbortMerge, MissingInput, ScanTombstones, PurgeTombstones, RemoveTombstone,
         AddThenRemoveSegments, PublishMerged, DeleteInput, Finish, Goto, Struct, Typed, MergesTyped
<1> USE DEF Struct, Typed, MergesTyped
<1>2. CASE Select(m)
  <2>1. UNCHANGED <<files, segRecords, metaSegments>> /\ pc'[m] = "begin"
    BY <1>2 DEF Select, SelectMerge, SelectExpungeDeletes, ForceMerge, Choose, disk, memory
  <2> QED
    BY <1>1, <2>1, QuietFiles DEF Written, Replacing
<1>3. CASE BeginMerge(m) \/ AbortMerge(m) \/ MissingInput(m)
  <2>1. UNCHANGED <<files, segRecords, metaSegments>> /\ pc'[m] \in {"idle", "merge"}
    BY <1>3 DEF BeginMerge, AbortMerge, MissingInput, Finish, Goto, disk, memory
  <2> QED
    BY <1>1, <2>1, QuietFiles DEF Written, Replacing
<1>4. CASE PutMerged(m)
  <2>1. /\ files' = PutFile(job[m].out, Merged(job[m].inputs, job[m].dead))
        /\ pc'[m] = "scan" /\ job'[m].out = job[m].out /\ UNCHANGED <<segRecords, metaSegments>>
    BY <1>4 DEF PutMerged, Goto, memory
  <2>2. DOMAIN files' = DOMAIN files \cup {job[m].out}
    BY <2>1 DEF PutFile
  <2>3. Registered' = Registered
    BY <2>1 DEF Registered
  <2>4. ASSUME NEW n \in Mergers, pc'[n] \in Written
        PROVE  \/ pc[n] \in Written /\ job'[n].out = job[n].out
               \/ job'[n].out \in DOMAIN files'
    BY <1>1, <2>1, <2>2, <2>4
  <2>5. \A n \in Mergers : pc'[n] = "delete" => job'[n].inputs \cap Registered' = {}
    BY <1>1, <2>1, <2>3 DEF FilesFit
  <2>6. DOMAIN files \subseteq DOMAIN files' /\ Registered' \subseteq DOMAIN files'
    BY <2>2, <2>3 DEF FilesFit
  <2> QED
    BY <2>4, <2>5, <2>6, FilesGrow
<1>5. CASE ScanTombstones(m) \/ PurgeTombstones(m) \/ RemoveTombstone(m)
  <2>1. UNCHANGED <<files, segRecords, metaSegments>> /\ pc[m] \in Written
    BY <1>5 DEF ScanTombstones, PurgeTombstones, RemoveTombstone, disk, memory, Written, Replacing
  <2>2. pc'[m] \in Written
    BY <1>5 DEF ScanTombstones, PurgeTombstones, RemoveTombstone, Goto, Written, Replacing
  <2>3. job'[m].out = job[m].out
    <3>1. CASE ScanTombstones(m)
      <4>1. job'[m] = [[job[m] EXCEPT !.purge = Purged(m)]
                       EXCEPT !.counted = DocsOf(files[job[m].out]) \cap tombstones # {}]
        BY <3>1 DEF ScanTombstones
      <4> QED
        BY <4>1, JobTyped DEF Job
    <3>2. CASE PurgeTombstones(m) \/ RemoveTombstone(m)
      BY <3>2, JobTyped DEF PurgeTombstones, RemoveTombstone, Job
    <3> QED
      BY <1>5, <3>1, <3>2
  <2> QED
    BY <1>1, <2>1, <2>2, <2>3, QuietFiles DEF Written, Replacing
<1>6. CASE AddThenRemoveSegments(m)
  <2>1. /\ pc[m] = "register" /\ pc'[m] = "publish" /\ UNCHANGED <<files, segRecords, job>>
        /\ metaSegments' = (metaSegments \ job[m].inputs) \cup {job[m].out}
    BY <1>6 DEF AddThenRemoveSegments, Goto, memory
  <2>2. job[m].out \in DOMAIN files
    BY <2>1 DEF FilesFit, Written, Replacing
  <2>3. Registered' \subseteq DOMAIN files'
    BY <2>1, <2>2 DEF FilesFit, Registered
  <2>4. \A n \in Mergers : pc'[n] # "delete"
    BY <1>1, <2>1, Holder DEF Replacing
  <2> QED
    BY <1>1, <2>1, <2>2, <2>3, <2>4 DEF FilesFit
<1>7. CASE PublishMerged(m)
  <2>1. /\ pc[m] = "publish" /\ pc'[m] = "delete" /\ UNCHANGED <<files, metaSegments, job>>
        /\ segRecords' = (segRecords \ job[m].inputs) \cup {job[m].out}
    BY <1>7 DEF PublishMerged, Goto, disk
  <2>2. job[m].out \in DOMAIN files /\ job[m].out \notin job[m].inputs
    BY <2>1 DEF FilesFit, OwnName, Written, Replacing
  <2>3. metaSegments = segRecords'
    BY <2>1 DEF SameSegments
  <2>4. Registered' \subseteq DOMAIN files' /\ job[m].inputs \cap Registered' = {}
    BY <2>1, <2>2, <2>3 DEF FilesFit, Registered
  <2>5. \A n \in Mergers \ {m} : pc'[n] \notin Written \cup {"delete"}
    BY <1>1, <2>1, Holder DEF Written, Replacing
  <2> QED
    BY <2>1, <2>4, <2>5 DEF FilesFit, Written, Replacing
<1>8. CASE DeleteInput(m)
  <2>1. PICK s \in job[m].inputs :
           /\ files' = [k \in DOMAIN files \ {s} |-> files[k]]
           /\ IF job[m].inputs = {s} THEN Finish(m)
              ELSE job' = [job EXCEPT ![m].inputs = @ \ {s}] /\ UNCHANGED <<pc, mergeMu>>
    BY <1>8 DEF DeleteInput
  <2>2. pc[m] = "delete" /\ UNCHANGED <<segRecords, metaSegments>>
    BY <1>8 DEF DeleteInput, memory
  <2>3. s \notin Registered /\ Registered' = Registered
    BY <2>2 DEF FilesFit, Registered
  <2>4. Registered' \subseteq DOMAIN files'
    BY <2>1, <2>3 DEF FilesFit
  <2>5. \A n \in Mergers \ {m} : pc'[n] \notin Written \cup {"delete"}
    BY <1>1, <2>2, Holder DEF Written, Replacing
  <2>6. pc'[m] \in {"idle", "delete"}
    BY <2>1, <2>2 DEF Finish, Goto
  <2>7. job'[m].inputs \subseteq job[m].inputs
    BY <1>8, StepFrame, NoJobTyped DEF MergeStep
  <2> QED
    BY <2>2, <2>3, <2>4, <2>5, <2>6, <2>7 DEF FilesFit, Written, Replacing
<1> QED
  BY <1>2, <1>3, <1>4, <1>5, <1>6, <1>7, <1>8 DEF MergeStep

LEMMA NextFiles == Struct /\ FilesFit /\ OwnName /\ [Next]_vars => FilesFit'
<1> SUFFICES ASSUME Struct, FilesFit, OwnName, [Next]_vars PROVE FilesFit'
  OBVIOUS
<1>1. CASE UNCHANGED vars
  BY <1>1 DEF vars, disk, memory, merging, FilesFit, Registered
<1> QED
  BY <1>1, WriteFiles, FlushFiles, CrashFiles, MergeFiles DEF Next, Rest

LEMMA InitFiles == Init => FilesFit
BY DEF Init, FilesFit, Registered, Written, Replacing

\* Whatever the policies, the writes, the crashes and the merges that fail: as long as
\* no output takes the name of one of its inputs (merge.go:188), every segment in the
\* manifest and in the list of the searches has its file.
THEOREM FilesExist == Spec /\ []OwnName => []RegisteredFilesExist
<1>1. FilesFit => RegisteredFilesExist
  BY DEF FilesFit, RegisteredFilesExist, Registered
<1> QED
  BY <1>1, InitStruct, NextStruct, InitFiles, NextFiles, PTL DEF Spec

\* The inputs of a merge by tier are below the level of its output.
Rising == \A m \in Mergers : \A s \in job[m].inputs : s.level < job[m].out.level

LEMMA NextRising ==
    ASSUME Struct, Rising, [Next]_vars, Policies \cap {"expunge", "force"} = {}
    PROVE  Rising'
<1>1. ASSUME NEW m \in Mergers, Select(m) PROVE Rising'
  <2>1. SelectMerge(m)
    BY <1>1 DEF Select, SelectExpungeDeletes, ForceMerge
  <2>2. PICK inputs \in SUBSET segRecords : \E first \in inputs :
           Choose(m, inputs, first) /\ \A s \in inputs : s.level = first.level
    BY <1>1, <2>1, Selected
  <2>3. PICK first \in inputs : Choose(m, inputs, first) /\ \A s \in inputs : s.level = first.level
    BY <2>2
  <2>4. Output(inputs, first).level = first.level + 1 /\ first.level \in Nat
    BY OutputTyped DEF Struct, Typed, SegmentsTyped, Segment
  <2>5. job'[m].inputs = inputs /\ job'[m].out = Output(inputs, first)
    BY <2>3 DEF Choose, NoJob, Struct, Typed, MergesTyped
  <2>6. \A n \in Mergers \ {m} : job'[n] = job[n]
    BY <2>3 DEF Choose, Struct, Typed, MergesTyped
  <2> QED
    BY <2>3, <2>4, <2>5, <2>6 DEF Rising
<1>2. ASSUME NEW m \in Mergers, MergeStep(m) PROVE Rising'
  BY <1>2, StepFrame, NoJobTyped DEF Rising
<1>3. CASE UNCHANGED job
  BY <1>3 DEF Rising
<1>4. CASE CrashAndRecover
  BY <1>4, NoJobTyped DEF CrashAndRecover, Rising
<1>5. (Flush \/ \E d \in Docs : Index(d) \/ Delete(d)) \/ UNCHANGED vars => UNCHANGED job
  BY DEF Flush, Index, Delete, merging, vars
<1> QED
  BY <1>1, <1>2, <1>3, <1>4, <1>5 DEF Next, Rest

LEMMA TierOwnName ==
    ASSUME Policies \cap {"expunge", "force"} = {} PROVE Spec => []OwnName
<1>1. Init => Rising
  BY NoJobTyped DEF Init, Rising
<1>2. Struct /\ Rising => OwnName
  <2> SUFFICES ASSUME Struct, Rising, NEW m \in Mergers, job[m].out \in job[m].inputs PROVE FALSE
    BY DEF OwnName
  <2> QED
    BY JobTyped DEF Rising, Segment
<1>3. Struct /\ Rising /\ [Next]_vars => Rising'
  BY NextRising
<1> QED
  BY <1>1, <1>2, <1>3, InitStruct, NextStruct, PTL DEF Spec

\* With the tiered policy alone that is always so.
THEOREM FilesExistByTier ==
    ASSUME Policies \cap {"expunge", "force"} = {} PROVE Spec => []RegisteredFilesExist
BY TierOwnName, FilesExist, PTL

-----------------------------------------------------------------------------
(* A document written once stays deleted.                                  *)

\* Without failures, an output may have the name of an input.
Sheltered == "abort" \in Operations => OwnName

Pending == {"purgeMeta", "register", "publish"}

\* One merge at a time replaces segments.
LEMMA UpcomingIs ==
    ASSUME Struct
    PROVE  /\ (\A m \in Mergers : pc[m] \notin Pending) => Upcoming = segRecords
           /\ \A m \in Mergers : pc[m] \in Pending =>
                 Upcoming = (segRecords \ job[m].inputs) \cup {job[m].out}
<1>1. ASSUME \A m \in Mergers : pc[m] \notin Pending PROVE Upcoming = segRecords
  BY <1>1 DEF Upcoming, Pending
<1>2. ASSUME NEW m \in Mergers, pc[m] \in Pending
      PROVE  Upcoming = (segRecords \ job[m].inputs) \cup {job[m].out}
  <2>1. \A n \in Mergers : pc[n] \in Pending <=> n = m
    BY <1>2, Holder DEF Pending, Replacing
  <2>2. {n \in Mergers : pc[n] \in Pending} = {m}
    BY <2>1
  <2> QED
    BY <2>2 DEF Upcoming, Pending
<1> QED
  BY <1>1, <1>2

\* The same of the state after a step.
LEMMA UpcomingNext ==
    ASSUME Struct'
    PROVE  /\ (\A m \in Mergers : pc'[m] \notin Pending) => Upcoming' = segRecords'
           /\ \A m \in Mergers : pc'[m] \in Pending =>
                 Upcoming' = (segRecords' \ job'[m].inputs) \cup {job'[m].out}
<1>1. ASSUME \A m \in Mergers : pc'[m] \notin Pending PROVE Upcoming' = segRecords'
  BY <1>1 DEF Upcoming, Pending
<1>2. ASSUME NEW m \in Mergers, pc'[m] \in Pending
      PROVE  Upcoming' = (segRecords' \ job'[m].inputs) \cup {job'[m].out}
  <2>1. \A n \in Mergers : pc'[n] \in Pending <=> n = m
    BY <1>2 DEF Pending, Replacing, Struct, JobsFit, JobFits
  <2>2. {n \in Mergers : pc'[n] \in Pending} = {m}
    BY <2>1
  <2> QED
    BY <2>2 DEF Upcoming, Pending
<1> QED
  BY <1>1, <1>2

\* What an output has, some segment has.
LEMMA OutputCopies ==
    ASSUME Struct, NEW m \in Mergers, OutputFits(m), pc[m] \in Written, NEW d, Has(job[m].out, d)
    PROVE  /\ \E t \in segRecords : Has(t, d)
           /\ d \in DocsOf(job[m].loaded)
<1>1. job[m].inputs \subseteq segRecords
  BY DEF Struct, JobsFit, JobFits, Written
<1>2. d \in DocsOf(job[m].loaded)
  BY DEF OutputFits, Has
<1>3. CASE job[m].out \in job[m].inputs
  BY <1>1, <1>2, <1>3
<1>4. CASE job[m].loaded = Contents(job[m].inputs)
  BY <1>1, <1>2, <1>4 DEF DocsOf, Contents, Has
<1> QED
  BY <1>2, <1>3, <1>4 DEF OutputFits

Sound(d) == /\ last[d].times = 0 => Nowhere(d)
            /\ last[d].times = 1 => OneCopy(d) /\ Hidden(d)

\* A step that brings no copy of d and leaves the outputs as they are.
LEMMA CopiesKept ==
    ASSUME NEW d, d \in DocsOf(buffer') => d \in DocsOf(buffer),
           \A s \in segRecords' : Has(s, d)' => s \in segRecords /\ Has(s, d),
           \A m \in Mergers : pc'[m] \in Written =>
              pc[m] \in Written /\ job'[m].loaded = job[m].loaded /\ job'[m].inputs = job[m].inputs,
           \A m \in Mergers : pc[m] \in Written /\ job[m].out \in job[m].inputs =>
              pc'[m] \in Written /\ job'[m].out = job[m].out /\ job'[m].inputs = job[m].inputs
    PROVE  (Nowhere(d) => Nowhere(d)') /\ (OneCopy(d) => OneCopy(d)')
<1>1. Nowhere(d) => Nowhere(d)'
  BY DEF Nowhere
<1>2. ASSUME OneCopy(d) PROVE OneCopy(d)'
  <2>1. d \in DocsOf(buffer') =>
          /\ \A s \in segRecords' : ~ Has(s, d)'
          /\ \A m \in Mergers : pc'[m] \in Written => d \notin DocsOf(job'[m].loaded)
    BY <1>2 DEF OneCopy
  <2>2. ASSUME NEW s \in segRecords', NEW t \in segRecords', Has(s, d)', Has(t, d)', s # t
        PROVE  \E m \in Mergers : /\ pc'[m] \in Written /\ job'[m].out \in job'[m].inputs
                                  /\ s \in job'[m].inputs /\ t \in job'[m].inputs
    <3>1. PICK m \in Mergers : /\ pc[m] \in Written /\ job[m].out \in job[m].inputs
                               /\ s \in job[m].inputs /\ t \in job[m].inputs
      BY <1>2, <2>2 DEF OneCopy
    <3> QED
      BY <3>1
  <2>3. \A m \in Mergers : pc'[m] \in Written /\ d \in DocsOf(job'[m].loaded) =>
          \A s \in segRecords' \ job'[m].inputs : ~ Has(s, d)'
    BY <1>2 DEF OneCopy
  <2> QED
    BY <2>1, <2>2, <2>3 DEF OneCopy
<1> QED
  BY <1>1, <1>2

\* A step that shows no copy of d where there was none and keeps its tombstone.
LEMMA HiddenKept ==
    ASSUME NEW d, Hidden(d), last'[d] = last[d], d \in tombstones => d \in tombstones',
           d \in DocsOf(buffer') => d \in DocsOf(buffer),
           \A s \in Upcoming' : Has(s, d)' => \E t \in Upcoming : Has(t, d)
    PROVE  Hidden(d)'
BY DEF Hidden

LEMMA WriteOnce ==
    ASSUME Struct, Struct', OnceInv, NEW e \in Docs, Index(e) \/ Delete(e)
    PROVE  OnceInv'
<1>1. /\ UNCHANGED <<files, segRecords, merging>> /\ pc' = pc /\ job' = job
      /\ \A d \in Docs \ {e} : last'[d] = last[d]
      /\ \A d \in Docs \ {e} : d \in tombstones <=> d \in tombstones'
  BY DEF Index, Delete, Log, merging, Struct, Typed, WritesTyped
<1>2. \A d \in Docs \ {e} : d \in DocsOf(buffer') => d \in DocsOf(buffer)
  BY DEF Index, Delete, DocsOf
<1>3. Upcoming' = Upcoming
  BY <1>1 DEF Upcoming
<1>4. \A s, d : Has(s, d)' <=> Has(s, d)
  BY <1>1 DEF Has
<1>5. \A m \in Mergers : OutputFits(m)'
  BY <1>1 DEF OnceInv, OutputFits, Contents
<1>6. ASSUME NEW d \in Docs \ {e} PROVE Sound(d)'
  BY <1>1, <1>2, <1>3, <1>4, CopiesKept, HiddenKept DEF OnceInv, Sound
<1>7. Sound(e)'
  <2>1. CASE Index(e)
    <3>1. last'[e].op = "index" /\ last'[e].times = last[e].times + 1 /\ last[e].times \in Nat
      BY <2>1 DEF Index, Log, Struct, Typed, WritesTyped, LastOp
    <3>2. Nowhere(e) => OneCopy(e)'
      BY <1>1, <1>4 DEF Nowhere, OneCopy
    <3> QED
      BY <3>1, <3>2 DEF OnceInv, Sound, Hidden
  <2>2. CASE Delete(e)
    <3>1. last'[e].times = last[e].times /\ e \in tombstones' /\ buffer' = buffer
      BY <2>2 DEF Delete, Log, Struct, Typed, WritesTyped, LastOp
    <3> QED
      BY <1>1, <1>4, <3>1, CopiesKept DEF OnceInv, Sound, Hidden
  <2> QED
    BY <2>1, <2>2
<1> QED
  BY <1>5, <1>6, <1>7 DEF OnceInv, Sound

LEMMA FlushOnce == ASSUME Struct, Struct', OnceInv, Flush PROVE OnceInv'
<1>0. PICK f : f = [seq |-> seq, level |-> 0]
  OBVIOUS
<1>1. /\ buffer # {} /\ files' = PutFile(f, buffer) /\ segRecords' = segRecords \cup {f}
      /\ buffer' = {} /\ UNCHANGED <<last, tombstones>> /\ pc' = pc /\ job' = job
  BY <1>0 DEF Flush, merging
<1>2. /\ f \in Segment /\ \A s \in segRecords : s # f
      /\ \A m \in Mergers : pc[m] # "idle" => job[m].out # f
      /\ buffer \subseteq Version
  BY <1>0, <1>1, FlushedIsNew DEF Registered, Struct, Typed, WritesTyped
<1>3. /\ DOMAIN files' = DOMAIN files \cup {f} /\ files'[f] = buffer
      /\ \A k \in DOMAIN files : k # f => files'[k] = files[k]
  BY <1>1, <1>2, PutFileTyped
<1>4. /\ \A d : Has(f, d)' => d \in DocsOf(buffer)
      /\ \A s, d : s # f => (Has(s, d)' <=> Has(s, d))
  <2>1. ASSUME NEW d, Has(f, d)' PROVE d \in DocsOf(buffer)
    BY <1>3, <2>1 DEF Has
  <2>2. ASSUME NEW k, NEW d, k # f PROVE Has(k, d)' <=> Has(k, d)
    <3>1. k \in DOMAIN files' <=> k \in DOMAIN files
      BY <1>3, <2>2
    <3>2. k \in DOMAIN files => files'[k] = files[k]
      BY <1>3, <2>2
    <3> QED
      BY <3>1, <3>2 DEF Has
  <2> QED
    BY <2>1, <2>2
<1>10. \A d : d \notin DocsOf(buffer')
  BY <1>1 DEF DocsOf
<1>5. \A m \in Mergers : pc[m] \in Written => /\ job[m].inputs \subseteq segRecords /\ job[m].out # f
                                              /\ f \notin job[m].inputs
  BY <1>2 DEF Struct, JobsFit, JobFits, Written, Replacing
<1>6. ASSUME NEW m \in Mergers PROVE OutputFits(m)'
  <2>1. CASE pc[m] \in Written
    <3>1. OutputFits(m) /\ "purge" \in Written
      BY DEF OnceInv, Written, Replacing
    <3>2. job[m].out \in DOMAIN files /\ files'[job[m].out] = files[job[m].out]
      BY <1>3, <1>5, <2>1, <3>1 DEF OutputFits
    <3>3. Contents(job[m].inputs)' = Contents(job[m].inputs)
      BY <1>1, <1>3, <1>5, <2>1 DEF Contents
    <3> QED
      BY <1>1, <1>3, <2>1, <3>1, <3>2, <3>3 DEF OutputFits
  <2>2. CASE pc[m] \notin Written
    BY <1>1, <2>2 DEF OutputFits, Written, Replacing
  <2> QED
    BY <2>1, <2>2
<1>7. ASSUME NEW d \in Docs, Nowhere(d) PROVE Nowhere(d)'
  BY <1>1, <1>4, <1>7, <1>10 DEF Nowhere
<1>8. ASSUME NEW d \in Docs, OneCopy(d) PROVE OneCopy(d)'
  <2>1. d \notin DocsOf(buffer')
    BY <1>10
  <2>2. ASSUME NEW s \in segRecords', NEW t \in segRecords', Has(s, d)', Has(t, d)', s # t
        PROVE  s \in segRecords /\ t \in segRecords /\ Has(s, d) /\ Has(t, d)
    <3>1. CASE s # f /\ t # f
      BY <1>1, <1>4, <2>2, <3>1
    <3>2. CASE s = f \/ t = f
      <4>1. d \in DocsOf(buffer)
        BY <1>4, <2>2, <3>2
      <4> QED
        BY <1>1, <1>4, <1>8, <2>2, <3>2, <4>1 DEF OneCopy
    <3> QED
      BY <3>1, <3>2
  <2>3. \A m \in Mergers : pc[m] \in Written /\ d \in DocsOf(job[m].loaded) =>
          \A s \in segRecords' \ job[m].inputs : ~ Has(s, d)'
    BY <1>1, <1>4, <1>8 DEF OneCopy
  <2> QED
    BY <1>1, <1>8, <2>1, <2>2, <2>3 DEF OneCopy
<1>9. ASSUME NEW d \in Docs, Hidden(d) PROVE Hidden(d)'
  <2>1. d \notin DocsOf(buffer')
    BY <1>10
  <2>2. Upcoming' \subseteq Upcoming \cup {f}
    BY <1>1 DEF Upcoming
  <2> QED
    BY <1>1, <1>4, <1>9, <2>1, <2>2 DEF Hidden
<1> QED
  BY <1>1, <1>6, <1>7, <1>8, <1>9 DEF OnceInv

\* A step of a merge that changes no file, no segment and no document.
LEMMA QuietOnce ==
    ASSUME Struct, OnceInv, NEW m \in Mergers, UNCHANGED <<files, buffer, segRecords>>,
           \A n \in Mergers \ {m} : pc'[n] = pc[n] /\ job'[n] = job[n],
           pc'[m] \in Written =>
              /\ pc[m] \in Written /\ job'[m].out = job[m].out
              /\ job'[m].loaded = job[m].loaded /\ job'[m].inputs = job[m].inputs,
           pc[m] \in Written /\ job[m].out \in job[m].inputs => pc'[m] \in Written,
           pc'[m] = "purge" => /\ job'[m].purge \subseteq DocsOf(job[m].loaded)
                               /\ job'[m].purge \cap DocsOf(files[job[m].out]) = {}
    PROVE  /\ \A n \in Mergers : OutputFits(n)'
           /\ \A s, d : Has(s, d)' <=> Has(s, d)
           /\ \A d \in Docs : (Nowhere(d) => Nowhere(d)') /\ (OneCopy(d) => OneCopy(d)')
<1>1. ASSUME NEW n \in Mergers \ {m} PROVE OutputFits(n)'
  BY DEF OnceInv, OutputFits, Contents
<1>2. OutputFits(m)'
  <2>1. "purge" \in Written
    BY DEF Written, Replacing
  <2> QED
    BY <2>1 DEF OnceInv, OutputFits, Contents
<1>3. \A s, d : Has(s, d)' <=> Has(s, d)
  BY DEF Has
<1>4. \A n \in Mergers : pc'[n] \in Written =>
         pc[n] \in Written /\ job'[n].loaded = job[n].loaded /\ job'[n].inputs = job[n].inputs
  OBVIOUS
<1>5. \A n \in Mergers : pc[n] \in Written /\ job[n].out \in job[n].inputs =>
         pc'[n] \in Written /\ job'[n].out = job[n].out /\ job'[n].inputs = job[n].inputs
  OBVIOUS
<1>6. \A d \in Docs : (Nowhere(d) => Nowhere(d)') /\ (OneCopy(d) => OneCopy(d)')
  BY <1>3, <1>4, <1>5, CopiesKept
<1> QED
  BY <1>1, <1>2, <1>3, <1>6

\* ... and no segment to come or tombstone either.
LEMMA CalmOnce ==
    ASSUME Struct, Struct', OnceInv, NEW m \in Mergers,
           UNCHANGED <<files, buffer, segRecords, last, tombstones>>,
           \A n \in Mergers \ {m} : pc'[n] = pc[n] /\ job'[n] = job[n],
           pc'[m] \in Written =>
              /\ pc[m] \in Written /\ job'[m].out = job[m].out
              /\ job'[m].loaded = job[m].loaded /\ job'[m].inputs = job[m].inputs,
           pc[m] \in Written /\ job[m].out \in job[m].inputs => pc'[m] \in Written,
           pc'[m] = "purge" => /\ job'[m].purge \subseteq DocsOf(job[m].loaded)
                               /\ job'[m].purge \cap DocsOf(files[job[m].out]) = {},
           pc'[m] \in Pending <=> pc[m] \in Pending
    PROVE  OnceInv'
<1>1. /\ \A n \in Mergers : OutputFits(n)'
      /\ \A s, d : Has(s, d)' <=> Has(s, d)
      /\ \A d \in Docs : (Nowhere(d) => Nowhere(d)') /\ (OneCopy(d) => OneCopy(d)')
  BY QuietOnce
<1>2. Upcoming' = Upcoming
  <2>1. CASE \E n \in Mergers : pc[n] \in Pending
    <3>1. PICK n \in Mergers : pc[n] \in Pending
      BY <2>1
    <3>2. pc'[n] \in Pending /\ job'[n].inputs = job[n].inputs /\ job'[n].out = job[n].out
      BY <3>1 DEF Pending, Written, Replacing
    <3>3. Upcoming = (segRecords \ job[n].inputs) \cup {job[n].out}
      BY <3>1, UpcomingIs
    <3>4. Upcoming' = (segRecords' \ job'[n].inputs) \cup {job'[n].out}
      BY <3>2, UpcomingNext
    <3> QED
      BY <3>2, <3>3, <3>4
  <2>2. CASE \A n \in Mergers : pc[n] \notin Pending
    <3>1. Upcoming = segRecords
      BY <2>2, UpcomingIs
    <3>2. \A n \in Mergers : pc'[n] \notin Pending
      BY <2>2
    <3>3. Upcoming' = segRecords'
      BY <3>2 DEF Upcoming, Pending
    <3> QED
      BY <3>1, <3>3
  <2> QED
    BY <2>1, <2>2
<1>3. \A d \in Docs : Hidden(d) => Hidden(d)'
  BY <1>1, <1>2 DEF Hidden
<1> QED
  BY <1>1, <1>3 DEF OnceInv

LEMMA CalmSteps ==
    ASSUME Struct, Struct', OnceInv, Sheltered, NEW m \in Mergers,
           \/ Select(m) \/ BeginMerge(m) \/ MissingInput(m) \/ AbortMerge(m)
           \/ RemoveTombstone(m) \/ AddThenRemoveSegments(m)
    PROVE  OnceInv'
<1> USE DEF disk, writes, memory
<1>0. pc \in [Mergers -> Labels] /\ job \in [Mergers -> Job] /\ job[m] \in Job
  BY DEF Struct, Typed, MergesTyped
<1>1. CASE Select(m)
  <2>1. PICK inputs, first : Choose(m, inputs, first)
    BY <1>1 DEF Select, SelectMerge, SelectExpungeDeletes, ForceMerge
  <2>2. /\ pc[m] = "idle" /\ pc'[m] = "begin"
        /\ \A n \in Mergers \ {m} : pc'[n] = pc[n] /\ job'[n] = job[n]
        /\ UNCHANGED <<files, buffer, segRecords, last, tombstones>>
    BY <1>0, <2>1 DEF Choose
  <2> QED
    BY <2>2, CalmOnce DEF Written, Replacing, Pending
<1>2. CASE BeginMerge(m) \/ MissingInput(m)
  <2>1. /\ pc[m] \in {"begin", "merge"} /\ pc'[m] \in {"merge", "idle"}
        /\ \A n \in Mergers \ {m} : pc'[n] = pc[n] /\ job'[n] = job[n]
        /\ UNCHANGED <<files, buffer, segRecords, last, tombstones>>
    BY <1>0, <1>2 DEF BeginMerge, MissingInput, Goto, Finish
  <2> QED
    BY <2>1, CalmOnce DEF Written, Replacing, Pending
<1>3. CASE AbortMerge(m)
  <2>1. /\ "abort" \in Operations /\ pc[m] \in {"merge", "scan"} /\ pc'[m] = "idle"
        /\ \A n \in Mergers \ {m} : pc'[n] = pc[n] /\ job'[n] = job[n]
        /\ UNCHANGED <<files, buffer, segRecords, last, tombstones>>
    BY <1>0, <1>3 DEF AbortMerge, Goto, Finish
  <2> QED
    BY <2>1, CalmOnce DEF Written, Replacing, Pending, Sheltered, OwnName
<1>4. CASE RemoveTombstone(m)
  <2>1. PICK d \in job[m].purge :
           /\ job' = [job EXCEPT ![m].purge = @ \ {d}]
           /\ IF job[m].purge = {d} THEN Goto(m, "register") ELSE UNCHANGED pc
    BY <1>4 DEF RemoveTombstone
  <2>2. /\ pc[m] = "purgeMeta" /\ pc'[m] \in {"purgeMeta", "register"}
        /\ \A n \in Mergers \ {m} : pc'[n] = pc[n]
    BY <1>0, <1>4, <2>1 DEF RemoveTombstone, Goto
  <2>3. /\ \A n \in Mergers \ {m} : job'[n] = job[n]
        /\ job'[m] = [job[m] EXCEPT !.purge = @ \ {d}]
    BY <1>0, <2>1
  <2>4. /\ job'[m].out = job[m].out /\ job'[m].loaded = job[m].loaded
        /\ job'[m].inputs = job[m].inputs
    BY <2>3, <1>0 DEF Job
  <2>5. UNCHANGED <<files, buffer, segRecords, last, tombstones>>
    BY <1>4 DEF RemoveTombstone
  <2> QED
    BY <2>2, <2>3, <2>4, <2>5, CalmOnce DEF Written, Replacing, Pending
<1>5. CASE AddThenRemoveSegments(m)
  <2>1. /\ pc[m] = "register" /\ pc'[m] = "publish" /\ job' = job
        /\ \A n \in Mergers \ {m} : pc'[n] = pc[n]
        /\ UNCHANGED <<files, buffer, segRecords, last, tombstones>>
    BY <1>0, <1>5 DEF AddThenRemoveSegments, Goto
  <2> QED
    BY <2>1, CalmOnce DEF Written, Replacing, Pending
<1> QED
  BY <1>1, <1>2, <1>3, <1>4, <1>5

\* The segments to come have no document that no segment has now.
LEMMA UpcomingCopies ==
    ASSUME Struct', \A m \in Mergers : OutputFits(m)', NEW d, NEW u \in Upcoming', Has(u, d)'
    PROVE  \E t \in segRecords' : Has(t, d)'
<1>1. CASE \E m \in Mergers : pc'[m] \in Pending
  <2>1. PICK m \in Mergers : pc'[m] \in Pending
    BY <1>1
  <2>2. Upcoming' = (segRecords' \ job'[m].inputs) \cup {job'[m].out}
    BY <2>1, UpcomingNext
  <2>3. CASE u = job'[m].out
    <3>1. job'[m].inputs \subseteq segRecords' /\ d \in DocsOf(files'[job'[m].out])
      BY <2>1, <2>3 DEF Struct, JobsFit, JobFits, Pending, Replacing, Has
    <3>2. /\ DocsOf(files'[job'[m].out]) \subseteq DocsOf(job'[m].loaded)
          /\ \/ job'[m].out \in job'[m].inputs
             \/ job'[m].loaded = Contents(job[m].inputs)'
      BY <2>1 DEF OutputFits, Pending, Written, Replacing
    <3>3. CASE job'[m].out \in job'[m].inputs
      BY <2>3, <3>1, <3>3
    <3>4. CASE job'[m].loaded = Contents(job[m].inputs)'
      BY <3>1, <3>2, <3>4 DEF DocsOf, Contents, Has
    <3> QED
      BY <3>2, <3>3, <3>4
  <2> QED
    BY <2>2, <2>3
<1>2. CASE \A m \in Mergers : pc'[m] \notin Pending
  BY <1>2, UpcomingNext
<1> QED
  BY <1>1, <1>2

LEMMA ScanOnce ==
    ASSUME Struct, Struct', OnceInv, NEW m \in Mergers, ScanTombstones(m) PROVE OnceInv'
<1> DEFINE counts == DocsOf(files[job[m].out]) \cap tombstones # {}
           j == [[job[m] EXCEPT !.purge = Purged(m)] EXCEPT !.counted = counts]
<1>0. pc \in [Mergers -> Labels] /\ job \in [Mergers -> Job] /\ job[m] \in Job
  BY DEF Struct, Typed, MergesTyped
<1>1. /\ pc[m] = "scan" /\ pc'[m] = IF Purged(m) = {} THEN "register" ELSE "purge"
      /\ \A n \in Mergers \ {m} : pc'[n] = pc[n] /\ job'[n] = job[n]
      /\ UNCHANGED <<files, buffer, segRecords, last, tombstones>>
  BY <1>0 DEF ScanTombstones, Goto, disk, writes, memory
<1>2. /\ job'[m].out = job[m].out /\ job'[m].loaded = job[m].loaded
      /\ job'[m].inputs = job[m].inputs /\ job'[m].purge = Purged(m)
  <2>1. job'[m] = j
    BY <1>0 DEF ScanTombstones
  <2> QED
    BY <1>0, <2>1 DEF Job
<1>3. /\ Purged(m) \subseteq DocsOf(job[m].loaded)
      /\ Purged(m) \cap DocsOf(files[job[m].out]) = {}
  BY DEF Purged
<1>4. CASE pc'[m] = "purge"
  BY <1>1, <1>2, <1>3, <1>4, CalmOnce DEF Written, Replacing, Pending
<1>5. CASE pc'[m] = "register"
  <2>1. /\ \A n \in Mergers : OutputFits(n)'
        /\ \A s, d : Has(s, d)' <=> Has(s, d)
        /\ \A d \in Docs : (Nowhere(d) => Nowhere(d)') /\ (OneCopy(d) => OneCopy(d)')
    BY <1>1, <1>2, <1>5, QuietOnce DEF Written, Replacing
  <2>2. Upcoming = segRecords
    <3>1. \A n \in Mergers : pc[n] \notin Pending
      BY <1>1, Holder DEF Pending, Replacing
    <3> QED
      BY <3>1, UpcomingIs
  <2>3. ASSUME NEW d \in Docs, Hidden(d) PROVE Hidden(d)'
    <3>1. \A s \in Upcoming' : Has(s, d)' => \E t \in Upcoming : Has(t, d)
      BY <1>1, <2>1, <2>2, UpcomingCopies
    <3> QED
      BY <1>1, <2>3, <3>1, HiddenKept
  <2> QED
    BY <1>1, <2>1, <2>3 DEF OnceInv
<1> QED
  BY <1>1, <1>4, <1>5

LEMMA PurgeOnce ==
    ASSUME Struct, Struct', OnceInv, NEW m \in Mergers, PurgeTombstones(m) PROVE OnceInv'
<1>0. pc \in [Mergers -> Labels] /\ job \in [Mergers -> Job] /\ job[m] \in Job
  BY DEF Struct, Typed, MergesTyped
<1>1. /\ pc[m] = "purge" /\ pc'[m] = "purgeMeta" /\ job' = job
      /\ \A n \in Mergers \ {m} : pc'[n] = pc[n]
      /\ UNCHANGED <<files, buffer, segRecords, last>>
      /\ tombstones' = tombstones \ job[m].purge
  BY <1>0 DEF PurgeTombstones, Goto, disk, writes
<1>2. /\ \A n \in Mergers : OutputFits(n)'
      /\ \A s, d : Has(s, d)' <=> Has(s, d)
      /\ \A d \in Docs : (Nowhere(d) => Nowhere(d)') /\ (OneCopy(d) => OneCopy(d)')
  BY <1>1, QuietOnce DEF Written, Replacing
<1>3. /\ Upcoming = segRecords
      /\ Upcoming' = (segRecords \ job[m].inputs) \cup {job[m].out}
  <2>1. \A n \in Mergers : pc[n] \notin Pending
    BY <1>1, Holder DEF Pending, Replacing
  <2>2. Upcoming' = (segRecords' \ job'[m].inputs) \cup {job'[m].out}
    BY <1>1, UpcomingNext DEF Pending
  <2> QED
    BY <1>1, <2>1, <2>2, UpcomingIs
<1>4. ASSUME NEW d \in Docs, OneCopy(d), Hidden(d) PROVE Hidden(d)'
  <2>1. CASE d \in job[m].purge
    <3>1. d \in DocsOf(job[m].loaded) /\ ~ Has(job[m].out, d) /\ pc[m] \in Written
      BY <1>1, <2>1 DEF OnceInv, OutputFits, Has, Written, Replacing
    <3>2. d \notin DocsOf(buffer) /\ \A s \in segRecords \ job[m].inputs : ~ Has(s, d)
      BY <1>4, <3>1 DEF OneCopy
    <3> QED
      BY <1>1, <1>2, <1>3, <3>1, <3>2 DEF Hidden
  <2>2. CASE d \notin job[m].purge
    <3>1. \A s \in Upcoming' : Has(s, d)' => \E t \in Upcoming : Has(t, d)
      BY <1>1, <1>2, <1>3, UpcomingCopies
    <3> QED
      BY <1>1, <1>4, <2>2, <3>1, HiddenKept
  <2> QED
    BY <2>1, <2>2
<1> QED
  BY <1>1, <1>2, <1>4 DEF OnceInv

\* While a merge runs, no other one does.
LEMMA Alone ==
    ASSUME Struct, NEW m \in Mergers, pc[m] \in Replacing \cup {"delete"}, NEW n \in Mergers \ {m}
    PROVE  pc[n] \notin Replacing \cup {"delete"} /\ pc[n] \notin Written /\ pc[n] \notin Pending
BY Holder DEF Written, Replacing, Pending

LEMMA PublishOnce ==
    ASSUME Struct, Struct', OnceInv, NEW m \in Mergers, PublishMerged(m) PROVE OnceInv'
<1>0. pc \in [Mergers -> Labels] /\ job \in [Mergers -> Job] /\ job[m] \in Job
  BY DEF Struct, Typed, MergesTyped
<1>1. /\ pc[m] = "publish" /\ pc'[m] = "delete" /\ job' = job
      /\ \A n \in Mergers \ {m} : pc'[n] = pc[n]
      /\ UNCHANGED <<files, buffer, last, tombstones>>
      /\ segRecords' = (segRecords \ job[m].inputs) \cup {job[m].out}
  BY <1>0 DEF PublishMerged, Goto, disk, writes
<1>2. /\ \A n \in Mergers : pc'[n] \notin Written /\ pc'[n] \notin Pending
      /\ pc[m] \in Written /\ pc[m] \in Replacing /\ pc[m] \in Pending
  BY <1>1, Alone DEF Written, Replacing, Pending
<1>3. \A n \in Mergers : OutputFits(n)'
  BY <1>2 DEF OutputFits, Written, Replacing
<1>4. \A s, d : Has(s, d)' <=> Has(s, d)
  BY <1>1 DEF Has
<1>5. \A d : Has(job[m].out, d) => /\ \E t \in segRecords : Has(t, d)
                                   /\ d \in DocsOf(job[m].loaded)
  BY <1>2, OutputCopies DEF OnceInv
<1>6. ASSUME NEW d \in Docs, Nowhere(d) PROVE Nowhere(d)'
  BY <1>1, <1>2, <1>4, <1>5, <1>6 DEF Nowhere
<1>7. ASSUME NEW d \in Docs, OneCopy(d) PROVE OneCopy(d)'
  <2>1. d \in DocsOf(buffer') => \A s \in segRecords' : ~ Has(s, d)'
    BY <1>1, <1>4, <1>5, <1>7 DEF OneCopy
  <2>2. ASSUME NEW s \in segRecords', NEW t \in segRecords', Has(s, d)', Has(t, d)'
        PROVE  s = t
    <3>1. CASE s \in segRecords \ job[m].inputs /\ t \in segRecords \ job[m].inputs
      <4>1. \A n \in Mergers : pc[n] \in Written => n = m
        BY <1>2, Alone
      <4> QED
        BY <1>4, <1>7, <2>2, <3>1, <4>1 DEF OneCopy
    <3>2. CASE s = job[m].out \/ t = job[m].out
      <4>1. d \in DocsOf(job[m].loaded)
        BY <1>4, <1>5, <2>2, <3>2
      <4>2. \A r \in segRecords \ job[m].inputs : ~ Has(r, d)
        BY <1>2, <1>7, <4>1 DEF OneCopy
      <4> QED
        BY <1>1, <1>4, <2>2, <3>2, <4>2
    <3> QED
      BY <1>1, <3>1, <3>2
  <2> QED
    BY <1>2, <2>1, <2>2 DEF OneCopy
<1>8. Upcoming' = Upcoming
  BY <1>1, <1>2, UpcomingIs, UpcomingNext
<1>9. \A d \in Docs : Hidden(d) => Hidden(d)'
  BY <1>1, <1>4, <1>8 DEF Hidden
<1> QED
  BY <1>1, <1>3, <1>6, <1>7, <1>9 DEF OnceInv

LEMMA DeleteInputOnce ==
    ASSUME Struct, Struct', OnceInv, NEW m \in Mergers, DeleteInput(m) PROVE OnceInv'
<1>0. pc \in [Mergers -> Labels] /\ job \in [Mergers -> Job] /\ job[m] \in Job
  BY DEF Struct, Typed, MergesTyped
<1>1. PICK i \in job[m].inputs :
        /\ files' = [k \in DOMAIN files \ {i} |-> files[k]]
        /\ IF job[m].inputs = {i} THEN Finish(m)
           ELSE job' = [job EXCEPT ![m].inputs = @ \ {i}] /\ UNCHANGED <<pc, mergeMu>>
  BY DEF DeleteInput
<1>2. /\ pc[m] = "delete" /\ UNCHANGED <<buffer, segRecords, last, tombstones>>
      /\ pc'[m] \in {"delete", "idle"} /\ \A n \in Mergers \ {m} : pc'[n] = pc[n]
  BY <1>0, <1>1 DEF DeleteInput, Finish, Goto, writes, memory
<1>3. \A n \in Mergers : /\ pc[n] \notin Written /\ pc[n] \notin Pending
                         /\ pc'[n] \notin Written /\ pc'[n] \notin Pending
  BY <1>2, Alone DEF Written, Replacing, Pending
<1>4. \A n \in Mergers : OutputFits(n)'
  BY <1>3 DEF OutputFits, Written, Replacing
<1>5. \A s, d : Has(s, d)' => Has(s, d)
  BY <1>1 DEF Has
<1>6. \A d \in Docs : (Nowhere(d) => Nowhere(d)') /\ (OneCopy(d) => OneCopy(d)')
  BY <1>2, <1>3, <1>5, CopiesKept
<1>7. Upcoming' = Upcoming
  BY <1>2, <1>3, UpcomingIs, UpcomingNext
<1>8. \A d \in Docs : Hidden(d) => Hidden(d)'
  BY <1>2, <1>5, <1>7 DEF Hidden
<1> QED
  BY <1>2, <1>4, <1>6, <1>8 DEF OnceInv

\* What the output of a merge gets, an input of it has.
LEMMA PutMergedFrame ==
    ASSUME Struct, NEW m \in Mergers, PutMerged(m)
    PROVE  /\ pc[m] = "merge" /\ pc'[m] = "scan"
           /\ \A n \in Mergers \ {m} : pc'[n] = pc[n] /\ job'[n] = job[n]
           /\ job'[m].out = job[m].out /\ job'[m].inputs = job[m].inputs
           /\ job'[m].dead = job[m].dead /\ job'[m].loaded = Contents(job[m].inputs)
           /\ job[m].inputs \subseteq segRecords /\ job[m].inputs \subseteq DOMAIN files
           /\ UNCHANGED <<log, seq, buffer, last, segRecords, metaSegments, tombstones, metaTombstones>>
           /\ DOMAIN files' = DOMAIN files \cup {job[m].out}
           /\ files'[job[m].out] = Merged(job[m].inputs, job[m].dead)
           /\ \A k \in DOMAIN files : k # job[m].out => files'[k] = files[k]
           /\ \A d : Has(job[m].out, d)' => \E i \in job[m].inputs : Has(i, d)
           /\ \A s, d : s # job[m].out => (Has(s, d)' <=> Has(s, d))
<1> DEFINE j == [job[m] EXCEPT !.loaded = Contents(job[m].inputs)]
<1>0. pc \in [Mergers -> Labels] /\ job \in [Mergers -> Job] /\ job[m] \in Job
  BY DEF Struct, Typed, MergesTyped
<1>1. /\ pc[m] = "merge" /\ job[m].inputs \subseteq DOMAIN files
      /\ files' = PutFile(job[m].out, Merged(job[m].inputs, job[m].dead))
      /\ pc' = [pc EXCEPT ![m] = "scan"] /\ job' = [job EXCEPT ![m] = j]
      /\ UNCHANGED <<log, seq, buffer, last, segRecords, metaSegments, tombstones, metaTombstones>>
  BY DEF PutMerged, Goto, writes, memory
<1>2. /\ job'[m] = j /\ j.out = job[m].out /\ j.inputs = job[m].inputs /\ j.dead = job[m].dead
      /\ j.loaded = Contents(job[m].inputs)
  BY <1>0, <1>1 DEF Job
<1>3. job[m].inputs \subseteq segRecords
  BY <1>1 DEF Struct, JobsFit, JobFits, Replacing
<1>4. /\ DOMAIN files' = DOMAIN files \cup {job[m].out}
      /\ files'[job[m].out] = Merged(job[m].inputs, job[m].dead)
      /\ \A k \in DOMAIN files : k # job[m].out => files'[k] = files[k]
  BY <1>1 DEF PutFile
<1>5. ASSUME NEW d, Has(job[m].out, d)' PROVE \E i \in job[m].inputs : Has(i, d)
  <2>1. PICK out : out = job[m].out
    OBVIOUS
  <2>2. out = job'[m].out
    BY <1>2, <2>1
  <2>3. d \in DocsOf(files'[out])
    BY <1>2, <1>5, <2>2 DEF Has
  <2>4. d \in DocsOf(Merged(job[m].inputs, job[m].dead))
    BY <1>4, <2>1, <2>3
  <2>5. d \in DocsOf(Contents(job[m].inputs))
    BY <1>1, <1>3, <2>4, MergedVersions DEF DocsOf
  <2> QED
    BY <2>5 DEF DocsOf, Contents, Has
<1>6. ASSUME NEW s, NEW d, s # job[m].out PROVE Has(s, d)' <=> Has(s, d)
  <2>1. s \in DOMAIN files' <=> s \in DOMAIN files
    BY <1>4, <1>6
  <2>2. s \in DOMAIN files => files'[s] = files[s]
    BY <1>4, <1>6
  <2> QED
    BY <2>1, <2>2 DEF Has
<1> HIDE DEF j
<1> QED
  BY <1>0, <1>1, <1>2, <1>3, <1>4, <1>5, <1>6

LEMMA PutMergedOnce ==
    ASSUME Struct, Struct', OnceInv, NEW m \in Mergers, PutMerged(m) PROVE OnceInv'
<1>0. PICK out, inputs, dead : out = job[m].out /\ inputs = job[m].inputs /\ dead = job[m].dead
  OBVIOUS
<1>1. /\ pc[m] = "merge" /\ pc'[m] = "scan"
      /\ \A n \in Mergers \ {m} : pc'[n] = pc[n] /\ job'[n] = job[n]
      /\ job'[m].out = out /\ job'[m].inputs = inputs /\ job'[m].loaded = Contents(inputs)
      /\ inputs \subseteq segRecords /\ inputs \subseteq DOMAIN files
      /\ UNCHANGED <<buffer, segRecords, last, tombstones>>
      /\ DOMAIN files' = DOMAIN files \cup {out} /\ files'[out] = Merged(inputs, dead)
      /\ \A k \in DOMAIN files : k # out => files'[k] = files[k]
  BY <1>0, PutMergedFrame
<1>2. /\ \A d : Has(out, d)' => \E i \in inputs : Has(i, d)
      /\ \A s, d : s # out => (Has(s, d)' <=> Has(s, d))
  BY <1>0, <1>1, PutMergedFrame DEF Has
<1>3. /\ \A n \in Mergers : pc[n] \notin Written /\ pc[n] \notin Pending
      /\ \A n \in Mergers : pc'[n] \notin Pending
      /\ \A n \in Mergers : pc'[n] \in Written => n = m
      /\ pc'[m] \in Written
  BY <1>1, Alone DEF Written, Replacing, Pending
<1>4. out \in segRecords => out \in inputs
  BY <1>0, <1>1, OutputIsNew DEF Replacing
<1>5. \A d : d \in DocsOf(Contents(inputs)) <=> \E i \in inputs : Has(i, d)
  BY DEF DocsOf, Contents, Has
<1>6. ASSUME NEW n \in Mergers PROVE OutputFits(n)'
  <2>1. CASE n = m
    <3>1. DocsOf(Merged(inputs, dead)) \subseteq DocsOf(Contents(inputs))
      BY <1>1, MergedVersions DEF DocsOf
    <3>2. CASE out \in inputs
      BY <1>1, <2>1, <3>1, <3>2 DEF OutputFits
    <3>3. CASE out \notin inputs
      <4>1. UNION {files'[s] : s \in inputs \cap DOMAIN files'} = Contents(inputs)
        BY <1>1, <3>3 DEF Contents
      <4>2. Contents(job[m].inputs)' = Contents(inputs)
        BY <1>1, <4>1 DEF Contents
      <4> QED
        BY <1>1, <2>1, <3>1, <4>2 DEF OutputFits
    <3> QED
      BY <3>2, <3>3
  <2>2. CASE n # m
    BY <1>1, <1>3, <2>2 DEF OutputFits, Written, Replacing
  <2> QED
    BY <2>1, <2>2
<1>7. ASSUME NEW d \in Docs, Nowhere(d) PROVE Nowhere(d)'
  BY <1>1, <1>2, <1>3, <1>5, <1>7 DEF Nowhere
<1>8. ASSUME NEW d \in Docs, OneCopy(d) PROVE OneCopy(d)'
  <2>1. \A s, t \in segRecords : Has(s, d) /\ Has(t, d) => s = t
    BY <1>3, <1>8 DEF OneCopy
  <2>2. d \in DocsOf(buffer') =>
          /\ \A s \in segRecords' : ~ Has(s, d)'
          /\ \A n \in Mergers : pc'[n] \in Written => d \notin DocsOf(job'[n].loaded)
    BY <1>1, <1>2, <1>3, <1>5, <1>8 DEF OneCopy
  <2>3. ASSUME NEW s \in segRecords, NEW t \in segRecords, Has(s, d)', Has(t, d)', s # t
        PROVE  out \in inputs /\ s \in inputs /\ t \in inputs
    BY <1>1, <1>2, <1>4, <2>1, <2>3
  <2>4. d \in DocsOf(Contents(inputs)) => \A s \in segRecords \ inputs : ~ Has(s, d)'
    BY <1>1, <1>2, <1>4, <1>5, <2>1
  <2> QED
    BY <1>1, <1>3, <2>2, <2>3, <2>4 DEF OneCopy
<1>9. ASSUME NEW d \in Docs, Hidden(d) PROVE Hidden(d)'
  <2>1. Upcoming' = segRecords /\ Upcoming = segRecords
    BY <1>1, <1>3, UpcomingIs, UpcomingNext
  <2>2. \A s \in Upcoming' : Has(s, d)' => \E t \in Upcoming : Has(t, d)
    BY <1>1, <1>2, <2>1
  <2> QED
    BY <1>1, <1>9, <2>2, HiddenKept
<1> QED
  BY <1>1, <1>6, <1>7, <1>8, <1>9 DEF OnceInv

LEMMA InitOnce == Init => OnceInv
<1> SUFFICES ASSUME Init PROVE OnceInv
  OBVIOUS
<1>1. \A m \in Mergers : pc[m] = "idle"
  BY DEF Init
<1>2. \A m \in Mergers : OutputFits(m)
  BY <1>1 DEF OutputFits, Written, Replacing
<1>3. ASSUME NEW d \in Docs PROVE last[d].times = 0 /\ Nowhere(d)
  BY <1>1, <1>3 DEF Init, Nowhere, DocsOf, Written, Replacing
<1> QED
  BY <1>2, <1>3 DEF OnceInv

LEMMA NextOnce ==
    ASSUME "crash" \notin Operations
    PROVE  Struct /\ OnceInv /\ Sheltered /\ [Next]_vars => OnceInv'
<1> SUFFICES ASSUME Struct, OnceInv, Sheltered, [Next]_vars PROVE OnceInv'
  OBVIOUS
<1>0. Struct'
  BY NextStruct
<1>1. CASE UNCHANGED vars
  BY <1>1 DEF vars, disk, writes, memory, merging, OnceInv, OutputFits, Nowhere, OneCopy, Hidden,
              Has, Contents, Upcoming
<1>2. CASE \E d \in Docs : Index(d) \/ Delete(d)
  BY <1>0, <1>2, WriteOnce
<1>3. CASE Flush
  BY <1>0, <1>3, FlushOnce
<1>4. CASE CrashAndRecover
  BY <1>4 DEF CrashAndRecover
<1>5. CASE \E m \in Mergers : Select(m) \/ MergeStep(m)
  BY <1>0, <1>5, CalmSteps, PutMergedOnce, ScanOnce, PurgeOnce, PublishOnce, DeleteInputOnce
     DEF MergeStep
<1> QED
  BY <1>1, <1>2, <1>3, <1>4, <1>5 DEF Next, Rest

\* What is upcoming is found in files.
LEMMA HiddenStaysDeleted == ASSUME OnceInv PROVE OnceWrittenStaysDeleted
<1> SUFFICES ASSUME NEW d \in Docs, last[d].times = 1, Resurrected(d) PROVE FALSE
  BY DEF OnceWrittenStaysDeleted
<1>1. d \notin DocsOf(buffer) /\ \A s \in Upcoming : ~ Has(s, d)
  BY DEF OnceInv, Hidden, Resurrected
<1> QED
  BY <1>1 DEF Resurrected, DocsOf, Contents, Has

\* As long as the process does not crash, and if merges can be given up, as long as
\* no output has the name of an input, a document that was written once and then
\* deleted is in no segment a search will see after its tombstone was purged
\* (merge.go:264-265).  A crash between the purge and the swap would bring the inputs
\* back without the tombstone.
THEOREM OnceWrittenIsGone ==
    ASSUME "crash" \notin Operations
    PROVE  Spec /\ []Sheltered => []OnceWrittenStaysDeleted
<1>1. Init => Struct /\ OnceInv
  BY InitStruct, InitOnce
<1>2. Struct /\ OnceInv /\ Sheltered /\ [Next]_vars => (Struct /\ OnceInv)'
  BY NextStruct, NextOnce
<1>3. OnceInv => OnceWrittenStaysDeleted
  BY HiddenStaysDeleted
<1> QED
  BY <1>1, <1>2, <1>3, PTL DEF Spec

\* So it is with every policy if no merge is given up, and with the tiered policy.
THEOREM OnceWrittenIsGoneByTier ==
    ASSUME "crash" \notin Operations,
           "abort" \notin Operations \/ Policies \cap {"expunge", "force"} = {}
    PROVE  Spec => []OnceWrittenStaysDeleted
<1>1. CASE "abort" \notin Operations
  <2>1. Sheltered
    BY <1>1 DEF Sheltered
  <2> QED
    BY <2>1, OnceWrittenIsGone, PTL
<1>2. CASE Policies \cap {"expunge", "force"} = {}
  <2>1. OwnName => Sheltered
    BY DEF Sheltered
  <2>2. Spec => []OwnName
    BY <1>2, TierOwnName
  <2> QED
    BY <2>1, <2>2, OnceWrittenIsGone, PTL
<1> QED
  BY <1>1, <1>2

-----------------------------------------------------------------------------
(* The newest copy of a document is its last version.                      *)

\* What a merge of files gives does not change while its inputs do not.
LEMMA MergedKept ==
    ASSUME Struct, FilesFit, NEW m \in Mergers, pc[m] \in Replacing,
           job'[m].inputs = job[m].inputs, job'[m].dead = job[m].dead,
           \A s \in job[m].inputs : s \in DOMAIN files' /\ files'[s] = files[s]
    PROVE  Merged(job[m].inputs, job[m].dead)' = Merged(job[m].inputs, job[m].dead)
<1>0. PICK inputs, dead : inputs = job[m].inputs /\ dead = job[m].dead
  OBVIOUS
<1>1. inputs \subseteq segRecords /\ inputs \subseteq DOMAIN files
  BY <1>0 DEF Struct, JobsFit, JobFits, FilesFit, Registered
<1>2. \A s \in inputs : s \in DOMAIN files' /\ files'[s] = files[s]
  BY <1>0
<1>3. Contents(inputs)' = Contents(inputs)
  BY <1>1, <1>2 DEF Contents
<1>4. \A s \in inputs : Contents({s})' = Contents({s})
  BY <1>1, <1>2 DEF Contents
<1>5. \A d : Holders(inputs, d)' = Holders(inputs, d)
  BY <1>4 DEF Holders
<1>6. ASSUME NEW d \in DocsOf(Contents(inputs))
      PROVE  files'[Newest(Holders(inputs, d))] = files[Newest(Holders(inputs, d))]
  <2>1. PICK s \in inputs : Has(s, d)
    BY DEF DocsOf, Contents, Has
  <2>2. Newest(Holders(inputs, d)) \in inputs
    BY <1>1, <2>1, NewestHolder DEF Registered
  <2> QED
    BY <1>2, <2>2
<1>7. Merged(inputs, dead)' = Merged(inputs, dead)
  BY <1>3, <1>5, <1>6 DEF Merged
<1> QED
  BY <1>0, <1>7

LEMMA MergeKept ==
    ASSUME Struct, FilesFit, NEW m \in Mergers, MergeFits(m), last' = last,
           pc'[m] \in Replacing =>
              /\ pc[m] \in Replacing /\ job'[m].out = job[m].out
              /\ job'[m].inputs = job[m].inputs /\ job'[m].dead = job[m].dead,
           pc'[m] \in Written =>
              /\ pc[m] \in Written /\ files'[job[m].out] = files[job[m].out]
              /\ \A s \in job[m].inputs : s \in DOMAIN files' /\ files'[s] = files[s]
    PROVE  MergeFits(m)'
<1>1. CASE pc'[m] \in Written
  <2>1. pc'[m] \in Replacing
    BY <1>1 DEF Written
  <2>2. Merged(job[m].inputs, job[m].dead)' = Merged(job[m].inputs, job[m].dead)
    BY <1>1, <2>1, MergedKept
  <2>3. (files[job[m].out] = Merged(job[m].inputs, job[m].dead))'
    BY <1>1, <2>1, <2>2 DEF MergeFits
  <2> QED
    BY <2>1, <2>3 DEF MergeFits
<1>2. CASE pc'[m] \notin Written
  BY <1>2 DEF MergeFits
<1> QED
  BY <1>1, <1>2

\* A step that neither writes nor changes a registered file.
LEMMA LatestKept ==
    ASSUME FilesFit, LatestInv, UNCHANGED <<log, buffer, last, segRecords, metaSegments>>,
           tombstones' \subseteq tombstones, metaTombstones' \subseteq metaTombstones,
           \A s \in Registered : s \in DOMAIN files' /\ files'[s] = files[s],
           VersionsFit', \A m \in Mergers : MergeFits(m)'
    PROVE  LatestInv'
<1>1. BufferFits'
  BY DEF LatestInv, BufferFits
<1>2. ("delete" \notin Operations => NoneDeleted)'
  BY DEF LatestInv, NoneDeleted
<1>3. \A d : \A s \in Registered : Has(s, d)' <=> Has(s, d)
  BY DEF Has, FilesFit
<1>4. ASSUME NEW d \in Docs
      PROVE  /\ NewestIn(segRecords, d) => NewestIn(segRecords, d)'
             /\ NewestIn(metaSegments, d) => NewestIn(metaSegments, d)'
  BY <1>3 DEF NewestIn, Registered
<1> QED
  BY <1>1, <1>2, <1>4 DEF LatestInv

\* A step of a merge, or a selection, that changes no file.
LEMMA QuietLatest ==
    ASSUME Struct, FilesFit, LatestInv, NEW m \in Mergers,
           UNCHANGED <<files, log, buffer, last, segRecords, metaSegments>>,
           tombstones' \subseteq tombstones, metaTombstones' \subseteq metaTombstones,
           \A n \in Mergers \ {m} : pc'[n] = pc[n] /\ job'[n] = job[n],
           MergeFits(m)'
    PROVE  LatestInv'
<1>1. \A s \in Registered : s \in DOMAIN files' /\ files'[s] = files[s]
  BY DEF FilesFit
<1>2. VersionsFit'
  BY DEF LatestInv, VersionsFit
<1>3. ASSUME NEW n \in Mergers \ {m} PROVE MergeFits(n)'
  <2>1. pc[n] \in Written => pc[n] \in Replacing /\ job[n].inputs \subseteq DOMAIN files
    BY DEF Written, Struct, JobsFit, JobFits, FilesFit, Registered
  <2> QED
    BY <2>1, MergeKept DEF LatestInv
<1> QED
  BY <1>1, <1>2, <1>3, LatestKept

LEMMA QuietStepsLatest ==
    ASSUME Struct, FilesFit, LatestInv, NEW m \in Mergers,
           \/ Select(m) \/ BeginMerge(m) \/ MissingInput(m) \/ AbortMerge(m)
           \/ ScanTombstones(m) \/ PurgeTombstones(m) \/ RemoveTombstone(m)
    PROVE  LatestInv'
<1> USE DEF disk, writes, memory
<1>0. /\ pc \in [Mergers -> Labels] /\ job \in [Mergers -> Job] /\ job[m] \in Job
      /\ MergeFits(m)
  BY DEF Struct, Typed, MergesTyped, LatestInv
<1>1. CASE Select(m)
  <2>1. PICK inputs, first : Choose(m, inputs, first)
    BY <1>1 DEF Select, SelectMerge, SelectExpungeDeletes, ForceMerge
  <2>2. /\ pc'[m] = "begin" /\ \A n \in Mergers \ {m} : pc'[n] = pc[n] /\ job'[n] = job[n]
        /\ UNCHANGED <<files, log, buffer, last, segRecords, metaSegments>>
        /\ tombstones' = tombstones /\ metaTombstones' = metaTombstones
    BY <1>0, <2>1 DEF Choose
  <2>3. MergeFits(m)'
    BY <2>2 DEF MergeFits, Written, Replacing
  <2> QED
    BY <2>2, <2>3, QuietLatest
<1>2. CASE BeginMerge(m)
  <2>1. /\ \A n \in Mergers \ {m} : pc'[n] = pc[n] /\ job'[n] = job[n]
        /\ UNCHANGED <<files, log, buffer, last, segRecords, metaSegments>>
        /\ tombstones' = tombstones /\ metaTombstones' = metaTombstones
        /\ pc'[m] = "idle" \/ (pc'[m] = "merge" /\ job'[m].dead = tombstones)
    <3>1. /\ UNCHANGED <<files, log, buffer, last, segRecords, metaSegments>>
          /\ tombstones' = tombstones /\ metaTombstones' = metaTombstones
      BY <1>2 DEF BeginMerge
    <3>2. CASE Finish(m)
      BY <1>0, <3>1, <3>2 DEF Goto, Finish
    <3>3. CASE job' = [job EXCEPT ![m].dead = tombstones] /\ Goto(m, "merge")
      <4>1. job'[m] = [job[m] EXCEPT !.dead = tombstones]
        BY <1>0, <3>3
      <4> QED
        BY <1>0, <3>1, <3>3, <4>1 DEF Goto, Job
    <3> QED
      BY <1>2, <3>2, <3>3 DEF BeginMerge
  <2>2. \A d \in tombstones : last[d].op # "index"
    BY DEF LatestInv, Struct, Typed, WritesTyped
  <2>3. MergeFits(m)'
    BY <2>1, <2>2 DEF MergeFits, Written, Replacing
  <2> QED
    BY <2>1, <2>3, QuietLatest
<1>3. CASE MissingInput(m) \/ AbortMerge(m)
  <2>1. /\ pc'[m] = "idle" /\ \A n \in Mergers \ {m} : pc'[n] = pc[n] /\ job'[n] = job[n]
        /\ UNCHANGED <<files, log, buffer, last, segRecords, metaSegments>>
        /\ tombstones' = tombstones /\ metaTombstones' = metaTombstones
    BY <1>0, <1>3 DEF MissingInput, AbortMerge, Goto, Finish
  <2>2. MergeFits(m)'
    BY <2>1 DEF MergeFits, Written, Replacing
  <2> QED
    BY <2>1, <2>2, QuietLatest
<1>4. CASE ScanTombstones(m) \/ PurgeTombstones(m) \/ RemoveTombstone(m)
  <2>1. /\ pc[m] \in Written /\ pc[m] \in Replacing
        /\ \A n \in Mergers \ {m} : pc'[n] = pc[n] /\ job'[n] = job[n]
        /\ UNCHANGED <<files, log, buffer, last, segRecords, metaSegments>>
        /\ tombstones' \subseteq tombstones /\ metaTombstones' \subseteq metaTombstones
    <3>1. CASE ScanTombstones(m)
      BY <1>0, <3>1 DEF ScanTombstones, Goto, Written, Replacing
    <3>2. CASE PurgeTombstones(m)
      BY <1>0, <3>2 DEF PurgeTombstones, Goto, Written, Replacing
    <3>3. CASE RemoveTombstone(m)
      BY <1>0, <3>3 DEF RemoveTombstone, Goto, Written, Replacing
    <3> QED
      BY <1>4, <3>1, <3>2, <3>3
  <2>2. /\ job'[m].out = job[m].out /\ job'[m].inputs = job[m].inputs
        /\ job'[m].dead = job[m].dead
    <3>1. CASE ScanTombstones(m)
      <4>1. job'[m] = [[job[m] EXCEPT !.purge = Purged(m)]
                       EXCEPT !.counted = DocsOf(files[job[m].out]) \cap tombstones # {}]
        BY <1>0, <3>1 DEF ScanTombstones
      <4> QED
        BY <1>0, <4>1 DEF Job
    <3>2. CASE PurgeTombstones(m)
      BY <3>2 DEF PurgeTombstones
    <3>3. CASE RemoveTombstone(m)
      <4>1. PICK d : job' = [job EXCEPT ![m].purge = @ \ {d}]
        BY <3>3 DEF RemoveTombstone
      <4>2. job'[m] = [job[m] EXCEPT !.purge = @ \ {d}]
        BY <1>0, <4>1
      <4> QED
        BY <1>0, <4>2 DEF Job
    <3> QED
      BY <1>4, <3>1, <3>2, <3>3
  <2>3. job[m].inputs \subseteq DOMAIN files
    BY <2>1 DEF Struct, JobsFit, JobFits, FilesFit, Registered
  <2>4. MergeFits(m)'
    BY <1>0, <2>1, <2>2, <2>3, MergeKept
  <2> QED
    BY <2>1, <2>4, QuietLatest
<1> QED
  BY <1>1, <1>2, <1>3, <1>4

LEMMA PutMergedLatest ==
    ASSUME Struct, FilesFit, LatestInv, OwnName, NEW m \in Mergers, PutMerged(m)
    PROVE  LatestInv'
<1>0. PICK out, inputs, dead : out = job[m].out /\ inputs = job[m].inputs /\ dead = job[m].dead
  OBVIOUS
<1>1. /\ pc[m] = "merge" /\ pc'[m] = "scan"
      /\ \A n \in Mergers \ {m} : pc'[n] = pc[n] /\ job'[n] = job[n]
      /\ job'[m].out = out /\ job'[m].inputs = inputs /\ job'[m].dead = dead
      /\ inputs \subseteq segRecords /\ inputs \subseteq DOMAIN files
      /\ UNCHANGED <<log, buffer, last, segRecords, metaSegments, tombstones, metaTombstones>>
      /\ DOMAIN files' = DOMAIN files \cup {out} /\ files'[out] = Merged(inputs, dead)
      /\ \A k \in DOMAIN files : k # out => files'[k] = files[k]
  BY <1>0, PutMergedFrame
<1>2. pc[m] \in Replacing /\ pc'[m] \in Written
  BY <1>1 DEF Replacing, Written
<1>3. out \notin Registered
  <2>1. out \notin inputs
    BY <1>0, <1>2 DEF OwnName
  <2>2. out \notin segRecords
    BY <1>0, <1>1, <1>2, <2>1, OutputIsNew
  <2>3. metaSegments = segRecords
    <3>1. \A n \in Mergers : pc[n] # "publish"
      BY <1>1, Alone DEF Replacing
    <3> QED
      BY <3>1 DEF Struct, SameSegments
  <2> QED
    BY <2>2, <2>3 DEF Registered
<1>4. \A s \in Registered : s \in DOMAIN files' /\ files'[s] = files[s]
  BY <1>1, <1>3 DEF FilesFit
<1>5. \A s \in inputs : s \in DOMAIN files' /\ files'[s] = files[s]
  BY <1>1, <1>4 DEF Registered
<1>6. /\ \A v, w \in Merged(inputs, dead) : v.doc = w.doc => v = w
      /\ \A v \in Merged(inputs, dead) : v.seq <= out.seq
  <2>1. ASSUME NEW v \in Merged(inputs, dead)
        PROVE  /\ Newest(Holders(inputs, v.doc)) \in inputs
               /\ v \in files[Newest(Holders(inputs, v.doc))]
    <3>1. v.doc \in DocsOf(Contents(inputs)) /\ v \in files[Newest(Holders(inputs, v.doc))]
      <4>1. inputs \in SUBSET segRecords /\ inputs \subseteq DOMAIN files
        BY <1>1
      <4> QED
        BY <4>1, MergedVersions
    <3>2. PICK s \in inputs : Has(s, v.doc)
      BY <3>1 DEF DocsOf, Contents, Has
    <3> QED
      BY <1>1, <3>1, <3>2, NewestHolder DEF Registered
  <2>2. \A s \in inputs : /\ \A v, w \in files[s] : v.doc = w.doc => v = w
                          /\ \A v \in files[s] : v.seq <= s.seq
    BY <1>1 DEF LatestInv, VersionsFit
  <2>3. \A s \in inputs : s.seq <= out.seq /\ s.seq \in Nat /\ out.seq \in Nat
                          /\ \A v \in files[s] : v.seq \in Nat
    BY <1>0, <1>1, JobTyped, FilesTyped DEF Struct, JobsFit, JobFits, Version
  <2>4. ASSUME NEW v \in Merged(inputs, dead), NEW w \in Merged(inputs, dead), v.doc = w.doc
        PROVE  v = w
    BY <2>1, <2>2, <2>4
  <2>5. ASSUME NEW v \in Merged(inputs, dead) PROVE v.seq <= out.seq
    <3>1. PICK s \in inputs : v \in files[s]
      BY <2>1
    <3> QED
      BY <2>2, <2>3, <3>1
  <2> QED
    BY <2>4, <2>5
<1>7. VersionsFit'
  <2>1. ASSUME NEW s \in DOMAIN files'
        PROVE  /\ \A v, w \in files'[s] : v.doc = w.doc => v = w
               /\ \A v \in files'[s] : v.seq <= s.seq
    <3>1. CASE s = out
      BY <1>1, <1>6, <3>1
    <3>2. CASE s # out
      BY <1>1, <3>2 DEF LatestInv, VersionsFit
    <3> QED
      BY <3>1, <3>2
  <2> QED
    BY <2>1 DEF VersionsFit
<1>8. ASSUME NEW n \in Mergers PROVE MergeFits(n)'
  <2>1. CASE n = m
    <3>1. Merged(job[m].inputs, job[m].dead)' = Merged(inputs, dead)
      BY <1>0, <1>1, <1>2, <1>5, MergedKept
    <3>2. (files[job[m].out])' = files'[out]
      BY <1>1
    <3>3. \A d \in dead : last[d].op = "index" => last[d].seq > out.seq
      BY <1>0, <1>2 DEF LatestInv, MergeFits
    <3> QED
      BY <1>1, <2>1, <3>1, <3>2, <3>3 DEF MergeFits
  <2>2. CASE n # m
    <3>1. pc'[n] \notin Replacing /\ pc'[n] \notin Written
      BY <1>1, <1>2, <2>2, Alone
    <3> QED
      BY <3>1 DEF MergeFits
  <2> QED
    BY <2>1, <2>2
<1> QED
  BY <1>1, <1>4, <1>7, <1>8, LatestKept

LEMMA DeleteInputLatest ==
    ASSUME Struct, FilesFit, LatestInv, NEW m \in Mergers, DeleteInput(m)
    PROVE  LatestInv'
<1>0. pc \in [Mergers -> Labels] /\ job \in [Mergers -> Job] /\ job[m] \in Job
  BY DEF Struct, Typed, MergesTyped
<1>1. PICK i \in job[m].inputs :
        /\ files' = [k \in DOMAIN files \ {i} |-> files[k]]
        /\ IF job[m].inputs = {i} THEN Finish(m)
           ELSE job' = [job EXCEPT ![m].inputs = @ \ {i}] /\ UNCHANGED <<pc, mergeMu>>
  BY DEF DeleteInput
<1>2. /\ pc[m] = "delete" /\ pc'[m] \in {"delete", "idle"}
      /\ UNCHANGED <<log, buffer, segRecords, last, metaSegments, tombstones, metaTombstones>>
      /\ \A n \in Mergers \ {m} : pc'[n] = pc[n]
  BY <1>0, <1>1 DEF DeleteInput, Finish, Goto, writes, memory
<1>3. \A n \in Mergers : pc'[n] \notin Written /\ pc'[n] \notin Replacing
  BY <1>2, Alone DEF Written, Replacing
<1>4. \A s \in Registered : s \in DOMAIN files' /\ files'[s] = files[s]
  BY <1>1, <1>2 DEF FilesFit
<1>5. VersionsFit'
  BY <1>1 DEF LatestInv, VersionsFit
<1>6. \A n \in Mergers : MergeFits(n)'
  BY <1>3 DEF MergeFits
<1> QED
  BY <1>2, <1>4, <1>5, <1>6, LatestKept

\* The last version of a document that is buffered is logged and buffered.
LEMMA BufferedIsLogged ==
    ASSUME Struct, BufferFits, NEW d \in Docs, last[d].op = "index"
    PROVE  /\ \A v \in buffer : v.doc = d => v.seq = last[d].seq
           /\ d \in DocsOf(buffer) <=> \E e \in log : e.op = "index" /\ e.doc = d
           /\ \A e \in log : e.op = "index" /\ e.doc = d => e.seq <= last[d].seq
           /\ d \in DocsOf(buffer) =>
                 \E e \in log : e.op = "index" /\ e.doc = d /\ e.seq = last[d].seq
<1>1. \A v \in buffer : v.doc = d => v.seq = last[d].seq
  BY DEF BufferFits
<1>2. d \in DocsOf(buffer) <=> \E v \in buffer : v.doc = d
  BY DEF DocsOf
<1>3. ASSUME NEW e \in log, e.op = "index", e.doc = d
      PROVE  \E v \in buffer : v.doc = d /\ e.seq <= last[d].seq
  BY <1>1, <1>3 DEF BufferFits
<1>4. ASSUME NEW v \in buffer, v.doc = d
      PROVE  \E e \in log : e.op = "index" /\ e.doc = d /\ e.seq = last[d].seq
  BY <1>1, <1>4 DEF BufferFits
<1> QED
  BY <1>1, <1>2, <1>3, <1>4

LEMMA IndexLatest ==
    ASSUME Struct, FilesFit, LatestInv, NEW e \in Docs, Index(e) PROVE LatestInv'
<1>1. /\ seq' = seq + 1 /\ log' = log \cup {[seq |-> seq', op |-> "index", doc |-> e]}
      /\ last'[e].op = "index" /\ last'[e].seq = seq'
      /\ \A d \in Docs \ {e} : last'[d] = last[d]
      /\ buffer' = {v \in buffer : v.doc # e} \cup {[doc |-> e, seq |-> seq']}
      /\ tombstones' = tombstones \ {e} /\ metaTombstones' \subseteq metaTombstones
      /\ UNCHANGED <<files, metaSegments, segRecords>> /\ pc' = pc /\ job' = job
  BY DEF Index, Log, merging, Struct, Typed, WritesTyped
<1>2. /\ seq \in Nat /\ \A x \in log : x.seq \in Nat /\ x.seq <= seq
      /\ \A v \in buffer : v.doc \in Docs
  BY DEF Struct, Typed, WritesTyped, InSequence, Logged, Version
<1>3. BufferFits'
  <2>1. ASSUME NEW v \in buffer'
        PROVE  \E x \in log' : x.op = "index" /\ x.doc = v.doc /\ x.seq = v.seq
    <3>1. CASE v = [doc |-> e, seq |-> seq']
      <4>1. [seq |-> seq', op |-> "index", doc |-> e] \in log'
        BY <1>1
      <4> QED
        BY <3>1, <4>1
    <3>2. CASE v \in buffer
      BY <1>1, <3>2 DEF LatestInv, BufferFits
    <3> QED
      BY <1>1, <3>1, <3>2
  <2>2. ASSUME NEW x \in log', x.op = "index"
        PROVE  \E v \in buffer' : v.doc = x.doc /\ x.seq <= v.seq
    <3>1. CASE x.doc = e
      <4>1. x.seq <= seq'
        BY <1>1, <1>2
      <4>2. [doc |-> e, seq |-> seq'] \in buffer'
        BY <1>1
      <4> QED
        BY <3>1, <4>1, <4>2
    <3>2. CASE x.doc # e
      <4>1. x \in log
        BY <1>1, <3>2
      <4>2. PICK v \in buffer : v.doc = x.doc /\ x.seq <= v.seq
        BY <2>2, <4>1 DEF LatestInv, BufferFits
      <4> QED
        BY <1>1, <3>2, <4>2
    <3> QED
      BY <3>1, <3>2
  <2>3. \A v, w \in buffer' : v.doc = w.doc => v = w
    BY <1>1 DEF LatestInv, BufferFits
  <2>4. \A v \in buffer' : last'[v.doc].op = "index" => v.seq = last'[v.doc].seq
    BY <1>1, <1>2 DEF LatestInv, BufferFits
  <2> QED
    BY <2>1, <2>2, <2>3, <2>4 DEF BufferFits
<1>4. VersionsFit'
  BY <1>1 DEF LatestInv, VersionsFit
<1>5. ASSUME NEW m \in Mergers PROVE MergeFits(m)'
  <2>1. pc[m] \in Written => files[job[m].out] = Merged(job[m].inputs, job[m].dead)
    BY DEF LatestInv, MergeFits
  <2>2. Merged(job[m].inputs, job[m].dead)' = Merged(job[m].inputs, job[m].dead)
    BY <1>1 DEF Merged, Contents, Holders
  <2>3. pc[m] \in Replacing =>
          \A d \in job[m].dead : last'[d].op = "index" => last'[d].seq > job[m].out.seq
    <3>1. job[m].out.seq < seq' /\ job[m].dead \subseteq Docs
      BY <1>1, <1>2, JobTyped DEF Struct, JobsFit, JobFits
    <3> QED
      BY <1>1, <3>1 DEF LatestInv, MergeFits
  <2> QED
    BY <1>1, <2>1, <2>2, <2>3 DEF MergeFits
<1>6. ("delete" \notin Operations => NoneDeleted)'
  <2>1. ASSUME "delete" \notin Operations PROVE NoneDeleted'
    BY <1>1, <2>1 DEF LatestInv, NoneDeleted
  <2> QED
    BY <2>1
<1>7. ASSUME NEW d \in Docs \ {e}
      PROVE  /\ d \in DocsOf(buffer) => d \in DocsOf(buffer')
             /\ NewestIn(segRecords, d) => NewestIn(segRecords, d)'
             /\ NewestIn(metaSegments, d) => NewestIn(metaSegments, d)'
  <2>1. d \in DocsOf(buffer) => d \in DocsOf(buffer')
    BY <1>1 DEF DocsOf
  <2>2. \A s : Has(s, d)' <=> Has(s, d)
    BY <1>1 DEF Has
  <2> QED
    BY <1>1, <2>1, <2>2 DEF NewestIn
<1>8. e \notin tombstones' /\ e \in DocsOf(buffer')
  <2>1. [doc |-> e, seq |-> seq'] \in buffer'
    BY <1>1
  <2>2. e \in {v.doc : v \in buffer'}
    BY <2>1
  <2> QED
    BY <1>1, <2>2 DEF DocsOf
<1>9. ASSUME NEW d \in Docs, last'[d].op = "index"
      PROVE  /\ d \notin tombstones'
             /\ d \notin DocsOf(buffer') => NewestIn(segRecords, d)' /\ NewestIn(metaSegments, d)'
  BY <1>1, <1>7, <1>8, <1>9 DEF LatestInv
<1> QED
  BY <1>3, <1>4, <1>5, <1>6, <1>9 DEF LatestInv

LEMMA DeleteLatest ==
    ASSUME Struct, FilesFit, LatestInv, NEW e \in Docs, Delete(e) PROVE LatestInv'
<1>1. /\ "delete" \in Operations
      /\ log' = log \cup {[seq |-> seq', op |-> "delete", doc |-> e]}
      /\ last'[e].op = "delete" /\ \A d \in Docs \ {e} : last'[d] = last[d]
      /\ tombstones' = tombstones \cup {e}
      /\ UNCHANGED <<files, metaSegments, segRecords, buffer>> /\ pc' = pc /\ job' = job
  BY DEF Delete, Log, merging, Struct, Typed, WritesTyped
<1>2. \A v \in buffer : v.doc \in Docs
  BY DEF Struct, Typed, WritesTyped, Version
<1>3. BufferFits'
  BY <1>1, <1>2 DEF LatestInv, BufferFits
<1>4. VersionsFit'
  BY <1>1 DEF LatestInv, VersionsFit
<1>5. ASSUME NEW m \in Mergers PROVE MergeFits(m)'
  <2>1. Merged(job[m].inputs, job[m].dead)' = Merged(job[m].inputs, job[m].dead)
    BY <1>1 DEF Merged, Contents, Holders
  <2>2. job[m].dead \subseteq Docs
    BY JobTyped
  <2> QED
    BY <1>1, <2>1, <2>2 DEF LatestInv, MergeFits
<1>6. ASSUME NEW d \in Docs \ {e}
      PROVE  /\ NewestIn(segRecords, d) => NewestIn(segRecords, d)'
             /\ NewestIn(metaSegments, d) => NewestIn(metaSegments, d)'
  <2>1. \A s : Has(s, d)' <=> Has(s, d)
    BY <1>1 DEF Has
  <2> QED
    BY <1>1, <2>1 DEF NewestIn
<1> QED
  BY <1>1, <1>3, <1>4, <1>5, <1>6 DEF LatestInv

LEMMA FlushLatest ==
    ASSUME Struct, FilesFit, LatestInv, Flush PROVE LatestInv'
<1>0. PICK f : f = [seq |-> seq, level |-> 0]
  OBVIOUS
<1>1. /\ buffer # {} /\ files' = PutFile(f, buffer) /\ segRecords' = segRecords \cup {f}
      /\ metaSegments' = metaSegments \cup {f} /\ log' = {} /\ buffer' = {}
      /\ UNCHANGED <<last, tombstones, metaTombstones>> /\ pc' = pc /\ job' = job
  BY <1>0 DEF Flush, merging
<1>2. /\ f \in Segment /\ \A s \in Registered : s # f /\ s.seq < f.seq /\ s.seq \in Nat
      /\ \A m \in Mergers : pc[m] # "idle" => job[m].out # f
      /\ buffer \subseteq Version /\ f.seq = seq /\ seq \in Nat
  BY <1>0, <1>1, FlushedIsNew DEF Registered, Struct, Typed, WritesTyped, SegmentsTyped, Segment
<1>3. /\ DOMAIN files' = DOMAIN files \cup {f} /\ files'[f] = buffer
      /\ \A k \in DOMAIN files : k # f => files'[k] = files[k]
  BY <1>1, <1>2, PutFileTyped
<1>4. \A s \in Registered : s \in DOMAIN files' /\ files'[s] = files[s] /\ s \in DOMAIN files
  BY <1>2, <1>3 DEF FilesFit
<1>5. BufferFits'
  BY <1>1 DEF BufferFits
<1>6. VersionsFit'
  <2>1. /\ \A v, w \in buffer : v.doc = w.doc => v = w
        /\ \A v \in buffer : v.seq <= f.seq
    BY <1>2 DEF LatestInv, BufferFits, Struct, InSequence
  <2>2. ASSUME NEW s \in DOMAIN files'
        PROVE  /\ \A v, w \in files'[s] : v.doc = w.doc => v = w
               /\ \A v \in files'[s] : v.seq <= s.seq
    <3>1. CASE s = f
      BY <1>3, <2>1, <3>1
    <3>2. CASE s # f
      BY <1>3, <3>2 DEF LatestInv, VersionsFit
    <3> QED
      BY <3>1, <3>2
  <2> QED
    BY <2>2 DEF VersionsFit
<1>7. ASSUME NEW m \in Mergers PROVE MergeFits(m)'
  <2>1. pc[m] \in Written => files'[job[m].out] = files[job[m].out]
    <3>1. pc[m] \in Written => pc[m] # "idle" /\ job[m].out \in DOMAIN files
      BY DEF Written, Replacing, FilesFit
    <3> QED
      BY <1>2, <1>3, <3>1
  <2>2. pc[m] \in Written => pc[m] \in Replacing /\ job[m].inputs \subseteq Registered
    BY DEF Written, Struct, JobsFit, JobFits, Registered
  <2> QED
    BY <1>1, <1>4, <2>1, <2>2, MergeKept DEF LatestInv
<1>8. ("delete" \notin Operations => NoneDeleted)'
  BY <1>1 DEF LatestInv, NoneDeleted
<1>9. ASSUME NEW d \in Docs, last[d].op = "index"
      PROVE  NewestIn(segRecords, d)' /\ NewestIn(metaSegments, d)'
  <2>1. \A s \in Registered : Has(s, d)' => Has(s, d)
    BY <1>4 DEF Has
  <2>2. CASE d \in DocsOf(buffer)
    <3>1. PICK v \in files'[f] : v.doc = d /\ v.seq = last[d].seq
      BY <1>3, <1>9, <2>2, BufferedIsLogged DEF LatestInv, DocsOf
    <3>2. \A t \in Registered \cup {f} : t.seq <= f.seq
      BY <1>2
    <3> QED
      BY <1>1, <1>3, <3>1, <3>2 DEF NewestIn, Registered
  <2>3. CASE d \notin DocsOf(buffer)
    <3>1. ~ Has(f, d)'
      <4>1. d \notin DocsOf(files'[f])
        BY <1>3, <2>3
      <4> QED
        BY <4>1 DEF Has
    <3>2. NewestIn(segRecords, d) /\ NewestIn(metaSegments, d)
      BY <1>9, <2>3 DEF LatestInv
    <3> QED
      BY <1>1, <1>4, <2>1, <3>1, <3>2 DEF NewestIn, Registered
  <2> QED
    BY <2>2, <2>3
<1> QED
  BY <1>1, <1>5, <1>6, <1>7, <1>8, <1>9 DEF LatestInv

LEMMA CrashLatest ==
    ASSUME Struct, FilesFit, LatestInv, CrashAndRecover, ~ {"delete", "crash"} \subseteq Operations
    PROVE  LatestInv'
<1> DEFINE entries == {x \in log : x.op = "index"}
           written == {e.doc : e \in entries}
<1>1. /\ buffer' = {[doc |-> d, seq |-> LastOn(d, entries).seq] : d \in written}
      /\ segRecords' = metaSegments /\ UNCHANGED <<files, metaSegments, log, last>>
      /\ metaTombstones' \subseteq metaTombstones
      /\ tombstones' = metaTombstones' \cup
            {d \in {e.doc : e \in {x \in log : x.op = "delete"}} : LastOn(d, log).op = "delete"}
      /\ \A m \in Mergers : pc'[m] = "idle"
      /\ "crash" \in Operations
  BY DEF CrashAndRecover
<1>2. NoneDeleted
  BY <1>1 DEF LatestInv
<1>3. tombstones' = {} /\ metaTombstones' = {}
  BY <1>1, <1>2 DEF NoneDeleted
<1>4. /\ BufferFits /\ VersionsFit
      /\ log \subseteq Logged /\ \A e \in log : e.seq \in Nat /\ e.doc \in Docs
      /\ \A d \in Docs : last[d].seq \in Nat
  BY DEF LatestInv, Struct, Typed, WritesTyped, Logged, LastOp
<1>5. ASSUME NEW e \in entries
      PROVE  /\ LastOn(e.doc, entries) \in entries /\ LastOn(e.doc, entries).doc = e.doc
             /\ e.seq <= LastOn(e.doc, entries).seq
  <2>1. entries \in SUBSET log /\ e.doc \in Docs
    BY <1>4
  <2> HIDE DEF entries
  <2> QED
    BY <2>1, LastOnExists
<1>6. ASSUME NEW v \in buffer'
      PROVE  \E e \in entries : v = [doc |-> e.doc, seq |-> LastOn(e.doc, entries).seq]
  BY <1>1
<1>7. ASSUME NEW e \in entries
      PROVE  [doc |-> e.doc, seq |-> LastOn(e.doc, entries).seq] \in buffer'
  BY <1>1
<1>8. entries = {x \in log : x.op = "index"}
  OBVIOUS
<1> HIDE DEF entries, written
<1>9. BufferFits'
  <2>1. ASSUME NEW v \in buffer'
        PROVE  \E e \in log : e.op = "index" /\ e.doc = v.doc /\ e.seq = v.seq
    BY <1>5, <1>6, <1>8
  <2>2. ASSUME NEW e \in log, e.op = "index"
        PROVE  \E v \in buffer' : v.doc = e.doc /\ e.seq <= v.seq
    <3>1. e \in entries
      BY <1>8, <2>2
    <3> QED
      BY <1>5, <1>7, <3>1
  <2>3. \A v, w \in buffer' : v.doc = w.doc => v = w
    BY <1>6
  <2>4. ASSUME NEW v \in buffer', last[v.doc].op = "index" PROVE v.seq = last[v.doc].seq
    <3>1. PICK e \in log : e.op = "index" /\ e.doc = v.doc /\ e.seq = v.seq
      BY <2>1
    <3>2. e.seq <= last[e.doc].seq /\ e.doc \in DocsOf(buffer)
      BY <1>4, <2>4, <3>1, BufferedIsLogged
    <3>3. PICK g \in log : g.op = "index" /\ g.doc = e.doc /\ g.seq = last[e.doc].seq
      BY <1>4, <2>4, <3>1, <3>2, BufferedIsLogged
    <3>4. PICK w \in buffer' : w.doc = g.doc /\ g.seq <= w.seq
      BY <2>2, <3>3
    <3>5. w = v
      BY <2>3, <3>1, <3>3, <3>4
    <3> QED
      BY <1>4, <3>1, <3>2, <3>3, <3>4, <3>5
  <2> QED
    BY <1>1, <2>1, <2>2, <2>3, <2>4 DEF BufferFits
<1>10. VersionsFit'
  BY <1>1, <1>4 DEF VersionsFit
<1>11. \A m \in Mergers : MergeFits(m)'
  BY <1>1 DEF MergeFits, Written, Replacing
<1>12. NoneDeleted'
  BY <1>1, <1>2, <1>3 DEF NoneDeleted
<1>13. ASSUME NEW d \in Docs, last[d].op = "index", d \notin DocsOf(buffer')
       PROVE  NewestIn(segRecords, d)' /\ NewestIn(metaSegments, d)'
  <2>1. ~ \E e \in log : e.op = "index" /\ e.doc = d
    <3> SUFFICES ASSUME NEW e \in log, e.op = "index", e.doc = d PROVE FALSE
      OBVIOUS
    <3>1. [doc |-> d, seq |-> LastOn(d, entries).seq] \in buffer'
      BY <1>7, <1>8
    <3>2. d \in {v.doc : v \in buffer'}
      BY <3>1
    <3> QED
      BY <1>13, <3>2 DEF DocsOf
  <2>2. NewestIn(metaSegments, d)
    BY <1>4, <1>13, <2>1, BufferedIsLogged DEF LatestInv
  <2>3. \A s : Has(s, d)' <=> Has(s, d)
    BY <1>1 DEF Has
  <2> QED
    BY <1>1, <2>2, <2>3 DEF NewestIn
<1> QED
  BY <1>1, <1>3, <1>9, <1>10, <1>11, <1>12, <1>13 DEF LatestInv

\* The newest copy of a document is still the newest after a merge has replaced its
\* inputs, if these were neighbours.
LEMMA NewestReplaced ==
    ASSUME Struct, FilesFit, LatestInv, Neighbours, NEW m \in Mergers, pc[m] \in Written,
           NEW d \in Docs, last[d].op = "index", NewestIn(segRecords, d)
    PROVE  NewestIn((segRecords \ job[m].inputs) \cup {job[m].out}, d)
<1>0. PICK out, inputs, dead : out = job[m].out /\ inputs = job[m].inputs /\ dead = job[m].dead
  OBVIOUS
<1>1. /\ pc[m] \in Replacing /\ inputs \in SUBSET segRecords /\ inputs \subseteq DOMAIN files
      /\ out \in DOMAIN files
  BY <1>0 DEF Written, Struct, JobsFit, JobFits, FilesFit, Registered
<1>2. /\ \A s \in inputs : s.seq <= out.seq
      /\ files[out] = Merged(inputs, dead)
      /\ d \in dead => last[d].seq > out.seq
  BY <1>0, <1>1 DEF Struct, JobsFit, JobFits, LatestInv, MergeFits
<1>3. PICK h \in segRecords : /\ h \in DOMAIN files
                              /\ \E v \in files[h] : v.doc = d /\ v.seq = last[d].seq
                              /\ \A t \in segRecords : Has(t, d) => t.seq <= h.seq
  BY DEF NewestIn
<1>4. PICK v \in files[h] : v.doc = d /\ v.seq = last[d].seq
  BY <1>3
<1>5. v.seq <= h.seq
  BY <1>3, <1>4 DEF LatestInv, VersionsFit
<1>6. /\ \A s \in segRecords : s.seq \in Nat
      /\ out.seq \in Nat /\ last[d].seq \in Nat
  BY <1>0, JobTyped DEF Struct, Typed, WritesTyped, SegmentsTyped, Segment, LastOp
<1>7. Has(h, d)
  BY <1>3, <1>4 DEF Has, DocsOf
<1>8. CASE h \notin inputs
  <2>1. ASSUME Has(out, d) PROVE out.seq <= h.seq
    <3>1. d \in DocsOf(Merged(inputs, dead))
      BY <1>2, <2>1 DEF Has
    <3>2. d \in DocsOf(Contents(inputs))
      BY <1>1, <3>1, MergedVersions DEF DocsOf
    <3>3. PICK i \in inputs : Has(i, d)
      BY <3>2 DEF DocsOf, Contents, Has
    <3>4. i.seq <= h.seq
      BY <1>1, <1>3, <3>3
    <3>5. h.seq > out.seq \/ \A s \in inputs : h.seq < s.seq
      BY <1>0, <1>1, <1>8 DEF Neighbours
    <3> QED
      BY <1>1, <1>6, <3>3, <3>4, <3>5
  <2> QED
    BY <1>0, <1>3, <1>8, <2>1 DEF NewestIn
<1>9. CASE h \in inputs
  <2>1. d \notin dead
    BY <1>2, <1>4, <1>5, <1>6, <1>9
  <2>2. Newest(Holders(inputs, d)) = h
    <3> DEFINE n == Newest(Holders(inputs, d))
    <3>1. n \in inputs /\ Has(n, d) /\ h.seq <= n.seq
      BY <1>1, <1>7, <1>9, NewestHolder DEF Registered
    <3>2. n.seq <= h.seq /\ n \in segRecords
      BY <1>1, <1>3, <3>1
    <3> HIDE DEF n
    <3>3. n.seq = h.seq
      BY <1>6, <3>1, <3>2
    <3> QED
      <4>1. n = h
        BY <3>2, <3>3 DEF Struct, InSequence
      <4> QED
        BY <4>1 DEF n
  <2>3. v \in files[out]
    <3>1. d \in DocsOf(Contents(inputs)) \ dead
      BY <1>3, <1>4, <1>9, <2>1 DEF DocsOf, Contents
    <3> QED
      BY <1>2, <1>4, <2>2, <3>1 DEF Merged
  <2>4. \A t \in segRecords \ inputs : Has(t, d) => t.seq <= out.seq
    BY <1>2, <1>3, <1>6, <1>9
  <2> QED
    BY <1>0, <1>1, <1>4, <1>6, <2>3, <2>4 DEF NewestIn
<1> QED
  BY <1>8, <1>9

LEMMA RegisterLatest ==
    ASSUME Struct, FilesFit, LatestInv, Neighbours, NEW m \in Mergers, AddThenRemoveSegments(m)
    PROVE  LatestInv'
<1>1. /\ pc[m] = "register" /\ pc' = [pc EXCEPT ![m] = "publish"] /\ job' = job
      /\ metaSegments' = (metaSegments \ job[m].inputs) \cup {job[m].out}
      /\ UNCHANGED <<files, log, buffer, last, segRecords, tombstones, metaTombstones>>
  BY DEF AddThenRemoveSegments, Goto, writes, memory
<1>2. pc[m] \in Written /\ metaSegments = segRecords
  <2>1. \A n \in Mergers : pc[n] # "publish"
    BY <1>1, Alone DEF Replacing
  <2> QED
    BY <1>1, <2>1 DEF Struct, SameSegments, Written, Replacing
<1>3. BufferFits' /\ VersionsFit' /\ ("delete" \notin Operations => NoneDeleted)'
  BY <1>1 DEF LatestInv, BufferFits, VersionsFit, NoneDeleted
<1>4. ASSUME NEW n \in Mergers PROVE MergeFits(n)'
  <2>1. pc'[n] \in Replacing => pc[n] \in Replacing
    BY <1>1 DEF Struct, Typed, MergesTyped, Replacing
  <2>2. pc'[n] \in Written => pc[n] \in Written
    BY <1>1 DEF Struct, Typed, MergesTyped, Written, Replacing
  <2>3. pc[n] \in Written => job[n].inputs \subseteq DOMAIN files
    BY DEF Written, Struct, JobsFit, JobFits, FilesFit, Registered
  <2> QED
    BY <1>1, <2>1, <2>2, <2>3, MergeKept DEF LatestInv
<1>5. ASSUME NEW d \in Docs, last[d].op = "index", NewestIn(segRecords, d)
      PROVE  NewestIn(segRecords, d)' /\ NewestIn(metaSegments, d)'
  <2>1. NewestIn((segRecords \ job[m].inputs) \cup {job[m].out}, d)
    BY <1>2, <1>5, NewestReplaced
  <2>2. \A s : Has(s, d)' <=> Has(s, d)
    BY <1>1 DEF Has
  <2>3. NewestIn(segRecords, d)'
    BY <1>1, <1>5, <2>2 DEF NewestIn
  <2>4. NewestIn(metaSegments, d)'
    BY <1>1, <1>2, <2>1, <2>2 DEF NewestIn
  <2> QED
    BY <2>3, <2>4
<1> QED
  BY <1>1, <1>3, <1>4, <1>5 DEF LatestInv

LEMMA PublishLatest ==
    ASSUME Struct, FilesFit, LatestInv, NEW m \in Mergers, PublishMerged(m) PROVE LatestInv'
<1>1. /\ pc[m] = "publish" /\ pc' = [pc EXCEPT ![m] = "delete"] /\ job' = job
      /\ segRecords' = (segRecords \ job[m].inputs) \cup {job[m].out}
      /\ UNCHANGED <<files, log, buffer, last, metaSegments, tombstones, metaTombstones>>
  BY DEF PublishMerged, Goto, disk, writes
<1>2. segRecords' = metaSegments
  BY <1>1 DEF Struct, SameSegments
<1>3. BufferFits' /\ VersionsFit' /\ ("delete" \notin Operations => NoneDeleted)'
  BY <1>1 DEF LatestInv, BufferFits, VersionsFit, NoneDeleted
<1>4. ASSUME NEW n \in Mergers PROVE MergeFits(n)'
  <2>1. pc'[n] \notin Replacing /\ pc'[n] \notin Written
    BY <1>1, Alone DEF Struct, Typed, MergesTyped, Written, Replacing
  <2> QED
    BY <2>1 DEF MergeFits
<1>5. ASSUME NEW d \in Docs, NewestIn(metaSegments, d)
      PROVE  NewestIn(segRecords, d)' /\ NewestIn(metaSegments, d)'
  <2>1. \A s : Has(s, d)' <=> Has(s, d)
    BY <1>1 DEF Has
  <2> QED
    BY <1>1, <1>2, <1>5, <2>1 DEF NewestIn
<1> QED
  BY <1>1, <1>3, <1>4, <1>5 DEF LatestInv

LEMMA InitLatest == Init => LatestInv
<1> SUFFICES ASSUME Init PROVE LatestInv
  OBVIOUS
<1>1. BufferFits /\ VersionsFit /\ NoneDeleted
  BY DEF Init, BufferFits, VersionsFit, NoneDeleted
<1>2. \A m \in Mergers : MergeFits(m)
  BY DEF Init, MergeFits, Written, Replacing
<1>3. \A d \in Docs : last[d].op # "index"
  BY DEF Init
<1> QED
  BY <1>1, <1>2, <1>3 DEF LatestInv

LEMMA NextLatest ==
    ASSUME ~ {"delete", "crash"} \subseteq Operations
    PROVE  Struct /\ FilesFit /\ LatestInv /\ OwnName /\ Neighbours /\ [Next]_vars => LatestInv'
<1> SUFFICES ASSUME Struct, FilesFit, LatestInv, OwnName, Neighbours, [Next]_vars PROVE LatestInv'
  OBVIOUS
<1>1. CASE UNCHANGED vars
  <2>1. /\ UNCHANGED <<files, log, buffer, last, segRecords, metaSegments>>
        /\ tombstones' = tombstones /\ metaTombstones' = metaTombstones
        /\ pc' = pc /\ job' = job
    BY <1>1 DEF vars, disk, writes, memory, merging
  <2>2. VersionsFit' /\ \A s \in Registered : s \in DOMAIN files' /\ files'[s] = files[s]
    BY <2>1 DEF LatestInv, VersionsFit, FilesFit
  <2>3. ASSUME NEW m \in Mergers PROVE MergeFits(m)'
    <3>1. pc[m] \in Written => pc[m] \in Replacing /\ job[m].inputs \subseteq DOMAIN files
      BY DEF Written, Struct, JobsFit, JobFits, FilesFit, Registered
    <3> QED
      BY <2>1, <3>1, MergeKept DEF LatestInv
  <2> QED
    BY <2>1, <2>2, <2>3, LatestKept
<1>2. CASE \E d \in Docs : Index(d) \/ Delete(d)
  BY <1>2, IndexLatest, DeleteLatest
<1>3. CASE Flush \/ CrashAndRecover
  BY <1>3, FlushLatest, CrashLatest
<1>4. CASE \E m \in Mergers : Select(m) \/ MergeStep(m)
  BY <1>4, QuietStepsLatest, PutMergedLatest, RegisterLatest, PublishLatest, DeleteInputLatest
     DEF MergeStep
<1> QED
  BY <1>1, <1>2, <1>3, <1>4 DEF Next, Rest

\* The newest holder of a document is the segment that has its last version.
LEMMA NewestHasIt ==
    ASSUME Struct, VersionsFit, NEW segs, segs = segRecords \/ segs = metaSegments,
           NEW d \in Docs, NewestIn(segs, d)
    PROVE  /\ Holders(segs, d) # {}
           /\ (CHOOSE v \in files[Newest(Holders(segs, d))] : v.doc = d).seq = last[d].seq
<1>1. PICK h \in segs : /\ h \in DOMAIN files
                        /\ \E v \in files[h] : v.doc = d /\ v.seq = last[d].seq
                        /\ \A t \in segs : Has(t, d) => t.seq <= h.seq
  BY DEF NewestIn
<1>2. PICK v \in files[h] : v.doc = d /\ v.seq = last[d].seq
  BY <1>1
<1>3. Has(h, d) /\ segs \in SUBSET Registered
  BY <1>1, <1>2 DEF Has, DocsOf, Registered
<1>4. Newest(Holders(segs, d)) = h
  <2> DEFINE n == Newest(Holders(segs, d))
  <2>1. n \in segs /\ Has(n, d) /\ h.seq <= n.seq
    BY <1>1, <1>3, NewestHolder
  <2>2. n.seq <= h.seq
    BY <1>1, <2>1
  <2> HIDE DEF n
  <2>3. n.seq = h.seq
    BY <1>1, <2>1, <2>2 DEF Struct, Typed, SegmentsTyped, Segment
  <2>4. n = h
    BY <1>1, <2>1, <2>3 DEF Struct, InSequence
  <2> QED
    BY <2>4 DEF n
<1>5. \A w \in files[h] : w.doc = d => w = v
  BY <1>1, <1>2 DEF VersionsFit
<1>6. Holders(segs, d) # {}
  BY <1>1, <1>3, HoldersHave
<1> QED
  BY <1>2, <1>4, <1>5, <1>6

LEMMA NewestWins == ASSUME Struct, LatestInv PROVE LatestWriteWins
<1> SUFFICES ASSUME NEW d \in Docs, last[d].op = "index"
             PROVE  /\ d \notin tombstones /\ Found(d) = last[d].seq
                    /\ Recoverable(d) = last[d].seq
  BY DEF LatestWriteWins
<1>1. /\ d \notin tombstones /\ BufferFits /\ VersionsFit
      /\ d \notin DocsOf(buffer) => NewestIn(segRecords, d) /\ NewestIn(metaSegments, d)
  BY DEF LatestInv
<1>2. Found(d) = last[d].seq
  <2>1. CASE d \in DocsOf(buffer)
    <3>1. \E v \in buffer : v.doc = d
      BY <2>1 DEF DocsOf
    <3>2. \A v \in buffer : v.doc = d => v.seq = last[d].seq
      BY <1>1, BufferedIsLogged
    <3> QED
      BY <2>1, <3>1, <3>2 DEF Found
  <2>2. CASE d \notin DocsOf(buffer)
    BY <1>1, <2>2, NewestHasIt DEF Found
  <2> QED
    BY <2>1, <2>2
<1>3. Recoverable(d) = last[d].seq
  <2> DEFINE logged == {e \in log : e.doc = d /\ e.op = "index"}
             S == {e.seq : e \in logged}
  <2>1. CASE logged # {}
    <3>1. d \in DocsOf(buffer)
      BY <1>1, <2>1, BufferedIsLogged
    <3>2. last[d].seq \in S /\ last[d].seq \in Nat /\ S \in SUBSET Nat
          /\ \A k \in S : k <= last[d].seq
      <4>1. PICK e \in log : e.op = "index" /\ e.doc = d /\ e.seq = last[d].seq
        BY <1>1, <3>1, BufferedIsLogged
      <4>2. \A g \in log : g.seq \in Nat
        BY DEF Struct, Typed, WritesTyped, Logged
      <4>3. \A g \in logged : g.seq <= last[d].seq
        BY <1>1, BufferedIsLogged
      <4> QED
        BY <4>1, <4>2, <4>3
    <3>3. Max(S) = last[d].seq
      <4> HIDE DEF S
      <4>1. Max(S) \in S /\ \A k \in S : k <= Max(S)
        BY <3>2, MaxIsGreatest
      <4> QED
        BY <3>2, <4>1
    <3> QED
      BY <2>1, <3>3 DEF Recoverable
  <2>2. CASE logged = {}
    <3>1. d \notin DocsOf(buffer)
      BY <1>1, <2>2, BufferedIsLogged
    <3> QED
      BY <1>1, <2>2, <3>1, NewestHasIt DEF Recoverable
  <2> QED
    BY <2>1, <2>2
<1> QED
  BY <1>1, <1>2, <1>3

\* As long as merges take neighbours and give their outputs names of their own, the
\* copy that a search ranks highest, and the newest one on disk, is the one that the
\* last write of the document made, whatever is merged while it is flushed: with
\* deletes, or with crashes and given-up merges.  merge.go:188 breaks the second
\* condition, a selection that skips a segment (tieredmerge.go) the first.
THEOREM LatestWriteIsFound ==
    ASSUME ~ {"delete", "crash"} \subseteq Operations
    PROVE  Spec /\ [](OwnName /\ Neighbours) => []LatestWriteWins
<1>1. Init => Struct /\ FilesFit /\ LatestInv
  BY InitStruct, InitFiles, InitLatest
<1>2. Struct /\ FilesFit /\ LatestInv /\ OwnName /\ Neighbours /\ [Next]_vars
         => (Struct /\ FilesFit /\ LatestInv)'
  BY NextStruct, NextFiles, NextLatest
<1>3. Struct /\ LatestInv => LatestWriteWins
  BY NewestWins
<1> QED
  BY <1>1, <1>2, <1>3, PTL DEF Spec

-----------------------------------------------------------------------------
(* Merges by tier that take whole levels take neighbours.                  *)

\* No level has more segments than a merge takes.
KeepsUp == \A l \in Nat : Cardinality(Level(l)) <= MaxMergeAtOnce

\* Merges are chosen by tier only, and no limit on their size cuts the choice.
WholeTiers == Policies \cap {"expunge", "force", "capped"} = {}

\* The higher the level, the older the segments.
Ordered(segs) == \A s, t \in segs : s.level > t.level => s.seq < t.seq

\* What a merge takes is of one level and older than what is left in that level or
\* below it; a candidate that is gone does not come back.
TakesLevel(m) ==
    pc[m] \in Replacing \cup {"begin"} =>
        /\ \A s \in job[m].inputs : s.level + 1 = job[m].out.level
        /\ \A s \in job[m].inputs \ segRecords :
              \A r \in segRecords : r.seq = s.seq => r.level > s.level
        /\ job[m].inputs \subseteq segRecords =>
              \A r \in segRecords \ job[m].inputs :
                 r.level < job[m].out.level => r.seq > job[m].out.seq

TierInv == Ordered(segRecords) /\ \A m \in Mergers : TakesLevel(m)

\* The segments in order of age stay so when an output takes the place of its inputs.
LEMMA ReplacedInOrder ==
    ASSUME Struct, TierInv, NEW m \in Mergers, pc[m] \in Replacing
    PROVE  Ordered((segRecords \ job[m].inputs) \cup {job[m].out})
<1>0. PICK out, inputs : out = job[m].out /\ inputs = job[m].inputs
  OBVIOUS
<1>1. /\ inputs \subseteq segRecords /\ out \in Segment
      /\ \A s \in inputs : s.level + 1 = out.level
      /\ \A r \in segRecords \ inputs : r.level < out.level => r.seq > out.seq
      /\ \E s \in inputs : s.seq = out.seq
  BY <1>0, JobTyped DEF Struct, JobsFit, JobFits, TierInv, TakesLevel
<1>2. \A s \in segRecords \cup {out} : s.level \in Nat /\ s.seq \in Nat
  BY <1>1 DEF Struct, Typed, SegmentsTyped, Segment
<1>3. ASSUME NEW r \in segRecords \ inputs, r.level > out.level PROVE r.seq < out.seq
  <2>1. PICK s \in inputs : s.seq = out.seq
    BY <1>1
  <2>2. r.level > s.level
    BY <1>1, <1>2, <1>3
  <2> QED
    BY <1>1, <2>1, <2>2 DEF TierInv, Ordered
<1>4. ASSUME NEW r \in segRecords \ inputs, out.level > r.level PROVE out.seq < r.seq
  BY <1>1, <1>2, <1>4
<1>5. \A s, t \in segRecords \ inputs : s.level > t.level => s.seq < t.seq
  BY DEF TierInv, Ordered
<1>6. ASSUME NEW s \in (segRecords \ inputs) \cup {out}, NEW t \in (segRecords \ inputs) \cup {out},
             s.level > t.level
      PROVE  s.seq < t.seq
  <2>1. CASE s \in segRecords \ inputs /\ t \in segRecords \ inputs
    BY <1>5, <1>6, <2>1
  <2>2. CASE s \notin segRecords \ inputs \/ t \notin segRecords \ inputs
    BY <1>2, <1>3, <1>4, <1>6, <2>2
  <2> QED
    BY <2>1, <2>2
<1> QED
  BY <1>0, <1>6 DEF Ordered

\* A step that leaves the segments and the choice of a merge as they are.
LEMMA TakesKept ==
    ASSUME NEW m \in Mergers, TakesLevel(m), segRecords' = segRecords,
           pc'[m] \in Replacing \cup {"begin"} =>
              /\ pc[m] \in Replacing \cup {"begin"}
              /\ job'[m].inputs = job[m].inputs /\ job'[m].out = job[m].out
    PROVE  TakesLevel(m)'
BY DEF TakesLevel

\* A flush adds a segment of the lowest level that is newer than all others.
LEMMA FlushTier == ASSUME Struct, TierInv, Flush PROVE TierInv'
<1>0. PICK f : f = [seq |-> seq, level |-> 0]
  OBVIOUS
<1>1. /\ buffer # {} /\ segRecords' = segRecords \cup {f} /\ pc' = pc /\ job' = job
  BY <1>0 DEF Flush, merging
<1>2. /\ f.level = 0 /\ f.seq \in Nat /\ f.seq = seq
      /\ \A s \in segRecords : s.seq < f.seq /\ s.seq \in Nat /\ s.level \in Nat
  BY <1>0, <1>1, FlushedIsNew DEF Registered, Struct, Typed, SegmentsTyped, Segment
<1>3. Ordered(segRecords)'
  BY <1>1, <1>2 DEF TierInv, Ordered
<1>4. ASSUME NEW m \in Mergers, pc[m] \in Replacing \cup {"begin"} PROVE TakesLevel(m)'
  <2>1. /\ job[m].out.seq \in Nat /\ \A s \in job[m].inputs : s.seq \in Nat
        /\ job[m].out.seq < f.seq /\ \A s \in job[m].inputs : s.seq < f.seq
    <3>1. PICK v \in buffer : TRUE
      BY <1>1
    <3>2. v.seq \in Nat /\ v.seq <= seq /\ pc[m] # "idle"
      BY <1>4 DEF Struct, Typed, WritesTyped, InSequence, Version, Replacing
    <3>3. job[m].out.seq < v.seq /\ \A s \in job[m].inputs : s.seq <= job[m].out.seq
      BY <3>2 DEF Struct, JobsFit, JobFits
    <3> QED
      BY <1>2, <3>2, <3>3, JobTyped
  <2>2. f \notin job[m].inputs
    BY <1>2, <2>1
  <2> QED
    BY <1>1, <1>2, <1>4, <2>1, <2>2 DEF TierInv, TakesLevel
<1>5. ASSUME NEW m \in Mergers PROVE TakesLevel(m)'
  BY <1>1, <1>4 DEF TakesLevel
<1> QED
  BY <1>3, <1>5 DEF TierInv

LEMMA CrashTier == ASSUME Struct, TierInv, CrashAndRecover PROVE TierInv'
<1>1. segRecords' = metaSegments /\ \A m \in Mergers : pc'[m] = "idle"
  BY DEF CrashAndRecover
<1>2. Ordered(metaSegments)
  <2>1. CASE \A m \in Mergers : pc[m] # "publish"
    BY <2>1 DEF Struct, SameSegments, TierInv
  <2>2. ASSUME NEW m \in Mergers, pc[m] = "publish" PROVE Ordered(metaSegments)
    <3>1. metaSegments = (segRecords \ job[m].inputs) \cup {job[m].out}
      BY <2>2 DEF Struct, SameSegments
    <3> QED
      BY <2>2, <3>1, ReplacedInOrder DEF Replacing
  <2> QED
    BY <2>1, <2>2
<1> QED
  BY <1>1, <1>2 DEF TierInv, Ordered, TakesLevel, Replacing

LEMMA SelectTier ==
    ASSUME Struct, TierInv, KeepsUp, WholeTiers, NEW m \in Mergers, Select(m) PROVE TierInv'
<1>1. SelectMerge(m) /\ "capped" \notin Policies
  BY DEF Select, SelectExpungeDeletes, ForceMerge, WholeTiers
<1>2. PICK inputs \in SUBSET segRecords : \E first \in inputs :
         /\ Choose(m, inputs, first)
         /\ \A s \in inputs : s.level = first.level
         /\ Cardinality(Level(first.level)) <= MaxMergeAtOnce => inputs = Level(first.level)
  BY <1>1, Selected
<1>3. PICK first \in inputs :
         /\ Choose(m, inputs, first)
         /\ \A s \in inputs : s.level = first.level
         /\ Cardinality(Level(first.level)) <= MaxMergeAtOnce => inputs = Level(first.level)
  BY <1>2
<1>4. PICK out : out = Output(inputs, first)
  OBVIOUS
<1>5. /\ out.level = first.level + 1 /\ \E s \in inputs : s.seq = out.seq
      /\ \A s \in segRecords : s.level \in Nat /\ s.seq \in Nat
  BY <1>4, OutputTyped DEF Struct, Typed, SegmentsTyped, Segment
<1>6. inputs = Level(first.level)
  BY <1>3, <1>5 DEF KeepsUp
<1>7. /\ segRecords' = segRecords /\ job'[m].inputs = inputs /\ job'[m].out = out
      /\ \A n \in Mergers \ {m} : pc'[n] = pc[n] /\ job'[n] = job[n]
  BY <1>3, <1>4 DEF Choose, memory, NoJob, Struct, Typed, MergesTyped
<1>8. ASSUME NEW r \in segRecords \ inputs, r.level < out.level PROVE r.seq > out.seq
  <2>1. r.level < first.level
    BY <1>5, <1>6, <1>8 DEF Level
  <2>2. PICK s \in inputs : s.seq = out.seq
    BY <1>5
  <2>3. s.seq < r.seq
    BY <1>3, <2>1, <2>2 DEF TierInv, Ordered
  <2> QED
    BY <1>5, <2>2, <2>3
<1>9. TakesLevel(m)'
  <2>1. \A s \in inputs : s.level + 1 = out.level
    BY <1>3, <1>5
  <2> QED
    BY <1>2, <1>7, <1>8, <2>1 DEF TakesLevel
<1>10. ASSUME NEW n \in Mergers \ {m} PROVE TakesLevel(n)'
  BY <1>7, TakesKept DEF TierInv
<1> QED
  BY <1>7, <1>9, <1>10 DEF TierInv, Ordered

LEMMA PublishTier ==
    ASSUME Struct, TierInv, NEW m \in Mergers, PublishMerged(m) PROVE TierInv'
<1>0. PICK out, inputs : out = job[m].out /\ inputs = job[m].inputs
  OBVIOUS
<1>1. /\ pc[m] = "publish" /\ pc' = [pc EXCEPT ![m] = "delete"] /\ job' = job
      /\ segRecords' = (segRecords \ inputs) \cup {out}
  BY <1>0 DEF PublishMerged, Goto, disk, writes
<1>2. /\ pc[m] \in Replacing /\ inputs \subseteq segRecords
      /\ \A s \in inputs : s.level + 1 = out.level
      /\ \E s \in inputs : s.seq = out.seq
      /\ \A s \in segRecords \cup {out} : s.level \in Nat /\ s.seq \in Nat
  BY <1>0, <1>1, JobTyped
     DEF Struct, JobsFit, JobFits, TierInv, TakesLevel, Replacing, Typed, SegmentsTyped, Segment
<1>3. Ordered(segRecords)'
  <2>1. Ordered((segRecords \ inputs) \cup {out})
    BY <1>0, <1>2, ReplacedInOrder
  <2> QED
    BY <1>1, <2>1 DEF Ordered
<1>4. PICK i \in inputs : i.seq = out.seq /\ i.level + 1 = out.level
  BY <1>2
<1>5. ASSUME NEW n \in Mergers \ {m}, pc[n] \in Replacing \cup {"begin"} PROVE TakesLevel(n)'
  <2>0. PICK o, taken : o = job[n].out /\ taken = job[n].inputs
    OBVIOUS
  <2>1. /\ o.seq \in Nat /\ o.level \in Nat /\ \A s \in taken : s.seq \in Nat /\ s.level \in Nat
        /\ \A s \in taken : s.level + 1 = o.level
        /\ \A s \in taken \ segRecords : \A r \in segRecords : r.seq = s.seq => r.level > s.level
        /\ taken \subseteq segRecords =>
              \A r \in segRecords \ taken : r.level < o.level => r.seq > o.seq
    BY <1>5, <2>0, JobTyped DEF TierInv, TakesLevel, Segment
  <2>2. out \notin taken
    <3> SUFFICES ASSUME out \in taken PROVE FALSE
      OBVIOUS
    <3>1. out \notin segRecords
      BY <1>0, <1>2, OutputIsNew
    <3>2. i.level > out.level
      BY <1>2, <1>4, <2>1, <3>1
    <3> QED
      BY <1>2, <1>4, <3>2
  <2>3. ASSUME NEW s \in taken, s \notin segRecords', NEW r \in segRecords', r.seq = s.seq
        PROVE  r.level > s.level
    <3>1. CASE s \in segRecords
      <4>1. s \in inputs
        BY <1>1, <2>3, <3>1
      <4>2. r = out
        <5>1. \A a, b \in segRecords : a.seq = b.seq => a = b
          BY DEF Struct, InSequence
        <5> QED
          BY <1>1, <2>3, <3>1, <4>1, <5>1
      <4> QED
        BY <1>2, <4>1, <4>2
    <3>2. CASE s \notin segRecords /\ r \in segRecords
      BY <2>1, <2>3, <3>2
    <3>3. CASE s \notin segRecords /\ r = out
      <4>1. i.level > s.level
        BY <1>2, <1>4, <2>1, <2>3, <3>3
      <4> QED
        BY <1>2, <1>4, <2>1, <3>3, <4>1
    <3> QED
      BY <1>1, <2>3, <3>1, <3>2, <3>3
  <2>4. ASSUME taken \subseteq segRecords', NEW r \in segRecords' \ taken, r.level < o.level
        PROVE  r.seq > o.seq
    <3>1. taken \subseteq segRecords \ inputs
      BY <1>1, <2>2, <2>4
    <3>2. CASE r \in segRecords
      BY <2>1, <2>4, <3>1, <3>2
    <3>3. CASE r = out
      <4>1. i \in segRecords \ taken /\ i.level < o.level
        BY <1>2, <1>4, <2>1, <2>4, <3>1, <3>3
      <4> QED
        BY <1>4, <2>1, <3>1, <3>3, <4>1
    <3> QED
      BY <1>1, <2>4, <3>2, <3>3
  <2> QED
    BY <1>1, <2>0, <2>1, <2>3, <2>4 DEF TakesLevel
<1>6. ASSUME NEW n \in Mergers PROVE TakesLevel(n)'
  BY <1>1, <1>5 DEF TakesLevel, Struct, Typed, MergesTyped, Replacing
<1> QED
  BY <1>3, <1>6 DEF TierInv

\* The other steps of a merge change no list of segments and no choice.
LEMMA StepTier ==
    ASSUME Struct, TierInv, NEW m \in Mergers, MergeStep(m) PROVE TierInv'
<1>0. /\ pc \in [Mergers -> Labels] /\ job \in [Mergers -> Job] /\ job[m] \in Job
      /\ \A n \in Mergers \ {m} : pc'[n] = pc[n] /\ job'[n] = job[n]
  BY StepFrame DEF Struct, Typed, MergesTyped
<1> DEFINE Kept == /\ segRecords' = segRecords
                   /\ pc'[m] \in Replacing \cup {"begin"} =>
                         /\ pc[m] \in Replacing \cup {"begin"}
                         /\ job'[m].inputs = job[m].inputs /\ job'[m].out = job[m].out
<1>1. Kept => TierInv'
  BY <1>0, TakesKept DEF TierInv, Ordered
<1>2. CASE BeginMerge(m)
  BY <1>0, <1>1, <1>2 DEF BeginMerge, Goto, Finish, memory, Replacing, Job
<1>3. CASE PutMerged(m)
  BY <1>1, <1>3, PutMergedFrame DEF Replacing
<1>4. CASE AbortMerge(m) \/ MissingInput(m)
  BY <1>0, <1>1, <1>4 DEF AbortMerge, MissingInput, Finish, Goto, memory, Replacing
<1>5. CASE ScanTombstones(m)
  <2>1. job'[m] = [[job[m] EXCEPT !.purge = Purged(m)]
                   EXCEPT !.counted = DocsOf(files[job[m].out]) \cap tombstones # {}]
    BY <1>0, <1>5 DEF ScanTombstones
  <2> QED
    BY <1>0, <1>1, <1>5, <2>1 DEF ScanTombstones, memory, Replacing, Job
<1>6. CASE PurgeTombstones(m) \/ AddThenRemoveSegments(m)
  BY <1>0, <1>1, <1>6 DEF PurgeTombstones, AddThenRemoveSegments, Goto, memory, Replacing
<1>7. CASE RemoveTombstone(m)
  <2>1. PICK d : job' = [job EXCEPT ![m].purge = @ \ {d}]
    BY <1>7 DEF RemoveTombstone
  <2>2. job'[m] = [job[m] EXCEPT !.purge = @ \ {d}]
    BY <1>0, <2>1
  <2> QED
    BY <1>0, <1>1, <1>7, <2>2 DEF RemoveTombstone, memory, Replacing, Job
<1>8. CASE PublishMerged(m)
  BY <1>8, PublishTier
<1>9. CASE DeleteInput(m)
  <2>1. pc'[m] \in {"delete", "idle"} /\ segRecords' = segRecords
    BY <1>0, <1>9 DEF DeleteInput, Finish, Goto, memory
  <2> QED
    BY <1>1, <2>1 DEF Replacing
<1> QED
  BY <1>2, <1>3, <1>4, <1>5, <1>6, <1>7, <1>8, <1>9 DEF MergeStep

LEMMA NextTier ==
    ASSUME WholeTiers PROVE Struct /\ TierInv /\ KeepsUp /\ [Next]_vars => TierInv'
<1> SUFFICES ASSUME Struct, TierInv, KeepsUp, [Next]_vars PROVE TierInv'
  OBVIOUS
<1>1. CASE UNCHANGED <<segRecords, merging>>
  BY <1>1 DEF merging, TierInv, Ordered, TakesLevel
<1>2. CASE \E m \in Mergers : Select(m) \/ MergeStep(m)
  BY <1>2, SelectTier, StepTier
<1>3. (\E d \in Docs : Index(d) \/ Delete(d)) \/ UNCHANGED vars => UNCHANGED <<segRecords, merging>>
  BY DEF Index, Delete, vars, memory, merging
<1> QED
  BY <1>1, <1>2, <1>3, FlushTier, CrashTier DEF Next, Rest

LEMMA TiersAreNeighbours ==
    ASSUME Struct, TierInv PROVE Neighbours /\ OwnName
<1> SUFFICES ASSUME NEW m \in Mergers, pc[m] \in Replacing
             PROVE  /\ job[m].out \notin job[m].inputs
                    /\ \A r \in segRecords \ job[m].inputs :
                          r.seq > job[m].out.seq \/ \A s \in job[m].inputs : r.seq < s.seq
  BY DEF Neighbours, OwnName
<1>1. /\ job[m].inputs \subseteq segRecords
      /\ \A s \in job[m].inputs : s.level + 1 = job[m].out.level
      /\ \A r \in segRecords \ job[m].inputs :
            r.level < job[m].out.level => r.seq > job[m].out.seq
  BY DEF Struct, JobsFit, JobFits, TierInv, TakesLevel
<1>2. \A s \in segRecords \cup {job[m].out} : s.level \in Nat /\ s.seq \in Nat
  BY JobTyped DEF Struct, Typed, SegmentsTyped, Segment
<1>3. job[m].out \notin job[m].inputs
  BY <1>1, <1>2
<1>4. ASSUME NEW r \in segRecords \ job[m].inputs, ~ (r.level < job[m].out.level),
             NEW s \in job[m].inputs
      PROVE  r.seq < s.seq
  <2>1. r.level > s.level
    BY <1>1, <1>2, <1>4
  <2> QED
    BY <1>1, <2>1 DEF TierInv, Ordered
<1> QED
  BY <1>1, <1>3, <1>4

\* With the tiered policy and no limit on a merge's size, writes win through as long as
\* no level grows beyond MaxMergeAtOnce: a merge then takes its whole level, and the
\* levels stay in the order of age.  The defaults of the server, 15 segments to a level
\* and 10 to a merge (config.go:162-163), leave a segment out of every merge.
THEOREM LatestWriteIsFoundByTier ==
    ASSUME WholeTiers, ~ {"delete", "crash"} \subseteq Operations
    PROVE  Spec /\ []KeepsUp => []LatestWriteWins
<1>1. Init => TierInv
  BY DEF Init, TierInv, Ordered, TakesLevel, Replacing
<1>2. Struct /\ TierInv /\ KeepsUp /\ [Next]_vars => TierInv'
  BY NextTier
<1>3. Struct /\ TierInv => Neighbours /\ OwnName
  BY TiersAreNeighbours
<1>4. Spec /\ []KeepsUp => [](OwnName /\ Neighbours)
  BY <1>1, <1>2, <1>3, InitStruct, NextStruct, PTL DEF Spec
<1> QED
  BY <1>4, LatestWriteIsFound, PTL

=============================================================================
