--------------------------- MODULE FlushSeqProofs ---------------------------
(* FlushSeqCoversSegment proved for all values of the constants: no segment *)
(* holds a version that its flush sequence does not cover.                 *)
EXTENDS BuilderOwnershipProofs

-----------------------------------------------------------------------------
(* The inductive invariant.                                                *)

\* Every file, registered or not, is covered by its sequence; so is a builder
\* whose flush has started; and every builder holds only numbers already assigned.
Covered ==
    /\ \A f \in DOMAIN segFiles : \A v \in segFiles[f] : v.seq <= f
    /\ \A b \in Builders : flushing[b].stage # "none" =>
          \A v \in content[b] : v.seq <= flushing[b].seq
    /\ \A b \in Builders : \A v \in content[b] : v.seq < nextSeq
    /\ ~up => \A b \in Builders : content[b] = {}

CoverInv == OwnInv /\ Covered

LEMMA InitCovered == Init => Covered
BY DEF Init, Covered, NotFlushed

LEMMA CoveredIsCovering == CoverInv => FlushSeqCoversSegment
BY DEF CoverInv, Covered, FlushSeqCoversSegment

\* Versions and sequence numbers are naturals.
LEMMA SeqTypes ==
    ASSUME TypeOK
    PROVE  /\ nextSeq \in Nat \ {0}
           /\ \A b \in Builders : \A v \in content[b] : v.seq \in Nat
           /\ \A b \in Builders : flushing[b].seq \in Nat
           /\ DOMAIN segFiles \subseteq Nat
           /\ \A f \in DOMAIN segFiles : \A v \in segFiles[f] : v.seq \in Nat
           /\ \A e \in wal \cup walSealed \cup walBuf : e.seq \in Nat
BY DEF TypeOK, Version, Flushing, Entry

-----------------------------------------------------------------------------
(* Steps that write no content.                                            *)

\* Such a step adds no file, changes no builder except to empty it, starts no
\* flush and takes no sequence number back.
ContentUntouched ==
    /\ DOMAIN segFiles' \subseteq DOMAIN segFiles
    /\ \A f \in DOMAIN segFiles' : segFiles'[f] = segFiles[f]
    /\ \A b \in Builders : content'[b] \subseteq content[b]
    /\ \A b \in Builders : \/ flushing'[b].stage = "none"
                           \/ /\ flushing[b].stage # "none"
                              /\ flushing'[b].seq = flushing[b].seq
    /\ nextSeq' \in Nat /\ nextSeq <= nextSeq'
    /\ ~up' => up = FALSE \/ \A b \in Builders : content'[b] = {}

LEMMA UntouchedCovers == ASSUME CoverInv, ContentUntouched PROVE Covered'
<1> USE DEF CoverInv, OwnInv, IndInv, ContentUntouched
<1>1. TypeOK
  OBVIOUS
<1>2. \A f \in DOMAIN segFiles' : \A v \in segFiles'[f] : v.seq <= f
  BY DEF Covered
<1>3. \A b \in Builders : flushing'[b].stage # "none" =>
        \A v \in content'[b] : v.seq <= flushing'[b].seq
  BY DEF Covered
<1>4. \A b \in Builders : \A v \in content'[b] : v.seq < nextSeq'
  <2>1. \A k \in Nat : k < nextSeq => k < nextSeq'
    BY <1>1, SeqTypes
  <2> QED
    BY <1>1, <2>1, SeqTypes DEF Covered
<1>5. ~up' => \A b \in Builders : content'[b] = {}
  BY DEF Covered
<1> QED
  BY <1>2, <1>3, <1>4, <1>5 DEF Covered

\* Requests start without writing content, except for an explicit flush.
LEMMA NewRequestCovers ==
    ASSUME CoverInv, NEW t \in Threads, NewRequest(t), ~ (Flush(t) \/ CloseFlush(t))
    PROVE  Covered'
<1>1. ContentUntouched
  <2> USE DEF CoverInv, OwnInv, IndInv, TypeOK, ContentUntouched, disk, pipeline, log, process
  <2>1. ASSUME NEW kind, NEW es, NEW n \in Nat, LogRequest(t, kind, es, n)
        PROVE  ContentUntouched
    BY <2>1 DEF LogRequest, WriteWAL
  <2>2. CASE IndexDocs(t)
    <3>1. \A docs \in Batches : Len(docs) \in Nat
      BY ConstantsAssumption
    <3> QED
      BY <2>1, <2>2, <3>1 DEF IndexDocs
  <2>3. CASE DeleteDocument(t)
    BY <2>1, <2>3 DEF DeleteDocument
  <2>4. CASE IndexDocsNoWAL(t)
    BY <2>4 DEF IndexDocsNoWAL
  <2>5. CASE ResetWait(t)
    BY <2>5 DEF ResetWait
  <2>6. CASE DrainPool(t)
    BY <2>6 DEF DrainPool
  <2> QED
    BY <2>2, <2>3, <2>4, <2>5, <2>6 DEF NewRequest
<1> QED
  BY <1>1, UntouchedCovers

\* So do the steps of a thread that neither index nor swap a full builder.
LEMMA ThreadStepCovers ==
    ASSUME CoverInv, NEW t \in Threads,
           \/ TakeBuilder(t) \/ RefillPool(t) \/ AddTombstone(t) \/ FlushAddSegment(t)
           \/ RotateWAL(t) \/ ResetFiles(t) \/ ResetWAL(t) \/ ResetMeta(t) \/ ResetFloor(t)
    PROVE  Covered'
<1>1. ContentUntouched
  <2> USE DEF CoverInv, OwnInv, IndInv, TypeOK, ContentUntouched, disk, pipeline, log, process
  <2>1. CASE TakeBuilder(t)
    BY <2>1 DEF TakeBuilder
  <2>2. CASE RefillPool(t)
    BY <2>2 DEF RefillPool
  <2>3. CASE AddTombstone(t)
    BY <2>3 DEF AddTombstone
  <2>4. CASE FlushAddSegment(t)
    BY <2>4 DEF FlushAddSegment
  <2>5. CASE RotateWAL(t)
    BY <2>5 DEF RotateWAL
  <2>6. CASE ResetFiles(t)
    BY <2>6 DEF ResetFiles
  <2>7. CASE ResetWAL(t)
    BY <2>7 DEF ResetWAL
  <2>8. CASE ResetMeta(t)
    BY <2>8 DEF ResetMeta
  <2>9. CASE ResetFloor(t)
    BY <2>9 DEF ResetFloor
  <2> QED
    BY <2>1, <2>2, <2>3, <2>4, <2>5, <2>6, <2>7, <2>8, <2>9
<1> QED
  BY <1>1, UntouchedCovers
-----------------------------------------------------------------------------
(* Steps that write content.                                               *)

\* A file is put in place under a sequence that covers it.
LEMMA PutFileCovers ==
    ASSUME CoverInv, NEW key \in Nat, NEW vs, \A v \in vs : v.seq <= key,
           segFiles' = PutFile(segFiles, key, vs)
    PROVE  \A f \in DOMAIN segFiles' : \A v \in segFiles'[f] : v.seq <= f
BY DEF PutFile, CoverInv, Covered

\* An explicit flush: every version in the active builder is below nextSeq.
LEMMA FlushPutFileCovers ==
    ASSUME CoverInv, NEW t \in Threads, NEW kind, FlushPutFile(t, kind) PROVE Covered'
<1> USE DEF CoverInv, OwnInv, IndInv
<1>1. nextSeq - 1 \in Nat /\ \A v \in content[buffer] : v.seq <= nextSeq - 1
  BY SeqTypes DEF Covered, TypeOK
<1>2. \A f \in DOMAIN segFiles' : \A v \in segFiles'[f] : v.seq <= f
  BY <1>1, PutFileCovers DEF FlushPutFile, FlushSeq
<1>3. UNCHANGED <<content, flushing, nextSeq, up>>
  BY DEF FlushPutFile, pipeline, log, process
<1> QED
  BY <1>2, <1>3 DEF Covered

\* The versions a request adds are below nextSeq, like those already there.
LEMMA UpsertCovers ==
    ASSUME NEW vs, NEW es, NEW n, \A v \in vs : v.seq < n, \A e \in es : e.seq < n
    PROVE  \A v \in Upsert(vs, es) : v.seq < n
BY DEF Upsert, Latest

\* The documents of a request enter the active builder, and only that one: a
\* builder whose flush has started receives nothing any more.
LEMMA AddDocsToBufferCovers ==
    ASSUME CoverInv, NEW t \in Threads, AddDocsToBuffer(t) PROVE Covered'
<1> USE DEF CoverInv, OwnInv, IndInv
<1>1. /\ content' = [content EXCEPT ![buffer] = Upsert(@, req[t].entries)]
      /\ UNCHANGED <<segFiles, nextSeq, up>> /\ pc[t] = "apply"
  BY DEF AddDocsToBuffer, log, process
<1>2. \A v \in Upsert(content[buffer], req[t].entries) : v.seq < nextSeq
  BY UpsertCovers DEF TypeOK, Covered, Fresh
<1>3. Upsert(content[buffer], req[t].entries) \in SUBSET Version
  BY UpsertType, RequestTyped DEF TypeOK
<1>4. /\ content'[buffer] = Upsert(content[buffer], req[t].entries)
      /\ \A b \in Builders \ {buffer} : content'[b] = content[b]
  BY <1>1 DEF TypeOK
<1>5. \A b \in Builders : \A v \in content'[b] : v.seq < nextSeq'
  BY <1>1, <1>2, <1>4 DEF Covered
<1>6. \A b \in Builders \ {buffer} : flushing'[b] = flushing[b]
  BY DEF AddDocsToBuffer, Swap, TypeOK
<1>7. flushing'[buffer].stage # "none" => flushing'[buffer].seq = nextSeq - 1
  BY DEF AddDocsToBuffer, Swap, FlushSeq, TypeOK, Owned
<1>8. \A v \in content'[buffer] : v.seq <= nextSeq - 1
  BY <1>2, <1>3, <1>4 DEF TypeOK, Version
<1>9. \A b \in Builders : flushing'[b].stage # "none" =>
        \A v \in content'[b] : v.seq <= flushing'[b].seq
  BY <1>4, <1>6, <1>7, <1>8 DEF Covered
<1>10. up
  BY <1>1 DEF DownIsCold
<1> QED
  BY <1>1, <1>5, <1>9, <1>10 DEF Covered, TypeOK

\* A swap after the wait for the pool reads the sequence anew.
LEMMA RecheckCovers ==
    ASSUME CoverInv, NEW t \in Threads, Recheck(t) PROVE Covered'
<1> USE DEF CoverInv, OwnInv, IndInv
<1>1. UNCHANGED <<segFiles, nextSeq, up, content>>
  BY DEF Recheck, disk, log, process
<1>2. \A b \in Builders \ {buffer} : flushing'[b] = flushing[b]
  BY DEF Recheck, Swap, TypeOK
<1>3. flushing'[buffer].stage # "none" => flushing'[buffer].seq = nextSeq - 1
  BY DEF Recheck, Swap, FlushSeq, TypeOK, Owned
<1>4. \A v \in content[buffer] : v.seq <= nextSeq - 1
  BY SeqTypes DEF Covered, TypeOK
<1> QED
  BY <1>1, <1>2, <1>3, <1>4 DEF Covered

\* A background flush writes its builder under the sequence of its swap.
LEMMA BackgroundStepCovers ==
    ASSUME CoverInv, NEW b \in Builders, BackgroundStep(b) PROVE Covered'
<1> USE DEF CoverInv, OwnInv, IndInv
<1>1. CASE BackgroundPutFile(b)
  <2>1. flushing[b].seq \in Nat /\ \A v \in content[b] : v.seq <= flushing[b].seq
    BY <1>1, SeqTypes DEF BackgroundPutFile, Covered
  <2>2. \A f \in DOMAIN segFiles' : \A v \in segFiles'[f] : v.seq <= f
    BY <1>1, <2>1, PutFileCovers DEF BackgroundPutFile
  <2>3. /\ UNCHANGED <<content, nextSeq, up>> /\ flushing[b].stage # "none"
        /\ \A c \in Builders : flushing'[c].seq = flushing[c].seq
        /\ \A c \in Builders \ {b} : flushing'[c] = flushing[c]
    BY <1>1 DEF BackgroundPutFile, log, process, TypeOK, Flushing
  <2> QED
    BY <2>2, <2>3 DEF Covered
<1>2. CASE BackgroundFlushError(b) \/ BackgroundAddSegment(b) \/ BackgroundPublish(b)
  <2> USE DEF ContentUntouched, NotFlushed, disk, log, process, TypeOK, Flushing
  <2>1. CASE BackgroundFlushError(b)
    <3>1. ContentUntouched
      BY <2>1 DEF BackgroundFlushError
    <3> QED
      BY <3>1, UntouchedCovers
  <2>2. CASE BackgroundAddSegment(b)
    <3>1. ContentUntouched
      BY <2>2 DEF BackgroundAddSegment
    <3> QED
      BY <3>1, UntouchedCovers
  <2>3. CASE BackgroundPublish(b)
    <3>1. ContentUntouched
      BY <2>3 DEF BackgroundPublish
    <3> QED
      BY <3>1, UntouchedCovers
  <2> QED
    BY <1>2, <2>1, <2>2, <2>3
<1> QED
  BY <1>1, <1>2 DEF BackgroundStep

\* Replay numbers on from above everything it replays.
LEMMA LoadFromMetaCovers == ASSUME CoverInv, LoadFromMeta PROVE Covered'
<1> USE DEF CoverInv, OwnInv, IndInv
<1>1. \A v \in Upsert({}, IndexOf(Replayed)) : v.seq < ResumeSeq
  BY UpsertCovers, ResumeSeqBounds DEF IndexOf, Replayed
<1>2. /\ nextSeq' = ResumeSeq /\ UNCHANGED <<segFiles, flushing>> /\ up'
      /\ content' = [content EXCEPT ![buffer] = Upsert({}, IndexOf(Replayed))]
      /\ \A b \in Builders : content[b] = {} /\ flushing[b].stage = "none"
  BY DEF LoadFromMeta, Covered, DownIsCold, NotFlushed
<1>3. \A b \in Builders : \A v \in content'[b] : v.seq < nextSeq'
  BY <1>1, <1>2 DEF TypeOK
<1> QED
  BY <1>2, <1>3 DEF Covered

-----------------------------------------------------------------------------
(* The theorem.                                                            *)

\* Every step keeps the invariant.
LEMMA NextCovered == CoverInv /\ [Next]_vars => CoverInv'
<1> SUFFICES ASSUME CoverInv, [Next]_vars PROVE Covered'
  BY NextOwned DEF CoverInv
<1>1. ASSUME NEW t \in Threads, NewRequest(t) PROVE Covered'
  BY <1>1, NewRequestCovers, FlushPutFileCovers DEF Flush, CloseFlush
<1>2. ASSUME Stop, UNCHANGED segFiles PROVE Covered'
  <2>1. ContentUntouched
    BY <1>2 DEF Stop, ContentUntouched, NotFlushed, CoverInv, OwnInv, IndInv, TypeOK
  <2> QED
    BY <2>1, UntouchedCovers
<1>3. Stop => UNCHANGED segFiles
  BY DEF Stop
<1>4. ASSUME NEW t \in Threads, ThreadStep(t) PROVE Covered'
  <2>1. CASE CloseWAL(t)
    BY <1>2, <1>3, <2>1 DEF CloseWAL
  <2>2. CASE AddDocsToBuffer(t) \/ Recheck(t)
    BY <2>2, AddDocsToBufferCovers, RecheckCovers
  <2> QED
    BY <1>4, <2>1, <2>2, ThreadStepCovers DEF ThreadStep
<1>5. CASE FlushWALBuffer \/ UNCHANGED vars
  <2>1. ContentUntouched
    BY <1>5 DEF FlushWALBuffer, vars, disk, pipeline, log, process, ContentUntouched, CoverInv,
                OwnInv, IndInv, TypeOK
  <2> QED
    BY <2>1, UntouchedCovers
<1>6. Crash => Stop
  BY DEF Crash
<1>7. Rest => UNCHANGED vars
  BY DEF Rest
<1> QED
  BY <1>1, <1>2, <1>3, <1>4, <1>5, <1>6, <1>7, BackgroundStepCovers, LoadFromMetaCovers DEF Next

\* No segment file, registered or about to be, holds a version its flush sequence
\* does not cover (flushOrSwap and flushLocked read nextSeq-1 after the builder is
\* filled): recovery never replays an entry on top of a segment that has it.
THEOREM FlushSeqCovers == Spec => []FlushSeqCoversSegment
<1>1. Init => CoverInv
  BY InitIndInv, InitOwned, InitCovered DEF CoverInv, OwnInv
<1> QED
  BY <1>1, NextCovered, CoveredIsCovering, PTL DEF Spec
=============================================================================
