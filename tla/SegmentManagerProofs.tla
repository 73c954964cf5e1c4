------------------------ MODULE SegmentManagerProofs ------------------------
(* Invariants of SegmentManager proved for all values of its constants.     *)
EXTENDS SegmentManagerProperties, TLAPS, FiniteSetTheorems, WellFoundedInduction

-----------------------------------------------------------------------------
(* The largest of a bounded set of numbers.                                *)

\* A non-empty set of naturals with an upper bound has a greatest element.
LEMMA GreatestExists ==
    ASSUME NEW S \in SUBSET Nat, S # {}, NEW n \in Nat, \A k \in S : k <= n
    PROVE  \E m \in S : \A k \in S : m >= k
<1> DEFINE T == {n - k : k \in S}
<1>1. T \subseteq Nat
  OBVIOUS
<1>2. T # {}
  <2>1. PICK k \in S : TRUE
    OBVIOUS
  <2> QED
    BY <2>1
<1> HIDE DEF T
<1>3. PICK x \in T : \A y \in T : ~ (<<y, x>> \in OpToRel(<, Nat))
  BY <1>1, <1>2, NatLessThanWellFounded, WFMin
<1>4. \A y \in T : ~ (y < x)
  BY <1>1, <1>3 DEF OpToRel
<1>5. PICK m \in S : x = n - m
  BY DEF T
<1>6. ASSUME NEW k \in S PROVE m >= k
  <2>1. n - k \in T
    BY DEF T
  <2>2. m \in Nat /\ k \in Nat
    OBVIOUS
  <2> QED
    BY <1>4, <1>5, <2>1, <2>2
<1> QED
  BY <1>6

\* Max of such a set is in it and above the rest.
LEMMA MaxOfBounded ==
    ASSUME NEW S \in SUBSET Nat, S # {}, NEW n \in Nat, \A k \in S : k <= n
    PROVE  Max(S) \in S /\ \A k \in S : Max(S) >= k
BY GreatestExists DEF Max
-----------------------------------------------------------------------------
(* The inductive invariant.                                                *)

\* The log holds finitely many entries, so that replay can count them.
LogFinite == IsFiniteSet(wal) /\ IsFiniteSet(walSealed) /\ IsFiniteSet(walBuf)

\* No sequence number in use anywhere reaches the next one to be assigned.
Fresh ==
    /\ \A e \in wal \cup walSealed \cup walBuf : e.seq < nextSeq
    /\ \A f \in metaSegments : f < nextSeq
    /\ seqFloor < nextSeq
    /\ \A b \in Builders : flushing[b].seq < nextSeq
    /\ \A t \in Threads : req[t].seq < nextSeq /\ \A e \in req[t].entries : e.seq < nextSeq

\* A stopped process has no buffered entry, no request and no background flush.
DownIsCold ==
    ~up => /\ walBuf = {}
           /\ \A b \in Builders : flushing[b] = NotFlushed
           /\ \A t \in Threads : pc[t] = "idle" /\ req[t] = NoRequest /\ held[t] = {}

IndInv == TypeOK /\ LogFinite /\ Fresh /\ DownIsCold

\* The initial states satisfy it.
LEMMA InitIndInv == Init => IndInv
<1> SUFFICES ASSUME Init PROVE IndInv
  OBVIOUS
<1>1. TypeOK
  BY DEF Init, TypeOK, NotFlushed, Flushing, NoRequest, Request, LastOp
<1>2. LogFinite
  BY FS_EmptySet DEF Init, LogFinite
<1>3. Fresh
  BY DEF Init, Fresh, NotFlushed, NoRequest
<1>4. DownIsCold
  BY DEF Init, DownIsCold
<1> QED
  BY <1>1, <1>2, <1>3, <1>4 DEF IndInv

-----------------------------------------------------------------------------
(* The log.                                                                *)

\* Among finitely numbered entries each document has a last one.
LEMMA LatestExists ==
    ASSUME NEW es \in SUBSET Entry, NEW n \in Nat, \A e \in es : e.seq <= n,
           NEW d \in DocsOf(es)
    PROVE  \E x \in Latest(es) : x.doc = d
<1> DEFINE S == {e.seq : e \in {f \in es : f.doc = d}}
<1>1. S \in SUBSET Nat /\ \A k \in S : k <= n
  BY DEF Entry
<1>2. S # {}
  <2>1. PICK e \in es : e.doc = d
    BY DEF DocsOf
  <2>2. e.seq \in S
    BY <2>1
  <2> QED
    BY <2>2
<1>3. PICK m \in S : \A k \in S : m >= k
  <2> HIDE DEF S
  <2> QED
    BY <1>1, <1>2, GreatestExists
<1>4. PICK x \in es : x.doc = d /\ x.seq = m
  OBVIOUS
<1>5. ASSUME NEW f \in es, f.doc = x.doc PROVE f.seq <= x.seq
  <2>1. f.seq \in S
    BY <1>4, <1>5
  <2>2. f.seq \in Nat /\ m \in Nat
    BY <1>1, <2>1
  <2> QED
    BY <1>3, <1>4, <2>1, <2>2
<1> QED
  BY <1>4, <1>5 DEF Latest

\* What appending numbered entries does to the log and its history.
LEMMA WriteWALKeeps ==
    ASSUME IndInv, NEW es \in SUBSET Entry, IsFiniteSet(es), NEW n \in Nat,
           \A e \in es : e.seq < nextSeq + n, WriteWAL(es, n)
    PROVE  /\ nextSeq' \in Nat \ {0} /\ nextSeq <= nextSeq'
           /\ wal' \subseteq Entry /\ walBuf' \subseteq Entry
           /\ IsFiniteSet(wal') /\ IsFiniteSet(walBuf')
           /\ \A e \in wal' \cup walBuf' \cup es : e.seq < nextSeq'
           /\ issued' \in Nat /\ last' \in [Docs -> LastOp]
<1> USE DEF IndInv
<1>1. nextSeq' = nextSeq + n /\ nextSeq' \in Nat \ {0} /\ nextSeq <= nextSeq'
  BY DEF WriteWAL, TypeOK
<1>2. wal' \subseteq Entry /\ walBuf' \subseteq Entry
  BY DEF WriteWAL, TypeOK
<1>3. IsFiniteSet(wal') /\ IsFiniteSet(walBuf')
  <2>1. IsFiniteSet(wal) /\ IsFiniteSet(walBuf)
    BY DEF LogFinite
  <2>2. IsFiniteSet(walBuf \cup es) /\ IsFiniteSet(wal \cup walBuf)
    BY <2>1, FS_Union
  <2>3. IsFiniteSet((wal \cup walBuf) \cup es)
    BY <2>2, FS_Union
  <2> QED
    BY <2>1, <2>2, <2>3, FS_EmptySet DEF WriteWAL
<1>4. \A e \in wal \cup walBuf : e \in Entry /\ e.seq \in Nat /\ e.seq < nextSeq
  BY DEF Fresh, TypeOK, Entry
<1>5. \A e \in wal' \cup walBuf' \cup es : e.seq < nextSeq'
  BY <1>1, <1>4 DEF WriteWAL, Entry, TypeOK
<1>6. issued' \in Nat
  BY <1>1 DEF WriteWAL, MaxNum, TypeOK
<1>7. \A d \in DocsOf(es) : \E x \in Latest(es) : x.doc = d
  <2>1. \A e \in es : e.seq <= nextSeq + n
    BY DEF Entry, TypeOK
  <2> QED
    BY <2>1, LatestExists DEF TypeOK
<1>8. last' \in [Docs -> LastOp]
  <2> DEFINE final(d) == CHOOSE x \in Latest(es) : x.doc = d
  <2>1. \A d \in DocsOf(es) : final(d) \in es
    BY <1>7 DEF Latest
  <2>2. \A d \in DocsOf(es) : [op |-> final(d).op, seq |-> final(d).seq] \in LastOp
    <3> HIDE DEF final
    <3> QED
      BY <2>1 DEF Entry, LastOp
  <2> QED
    BY <2>2 DEF WriteWAL, TypeOK
<1> QED
  BY <1>1, <1>2, <1>3, <1>5, <1>6, <1>8
-----------------------------------------------------------------------------
(* Requests.                                                               *)

\* A logged request keeps the invariant.
LEMMA LogRequestKeeps ==
    ASSUME IndInv, NEW t \in Threads, NEW kind \in {"index", "delete"},
           NEW es \in SUBSET Entry, IsFiniteSet(es), NEW n \in Nat,
           \A e \in es : e.seq < nextSeq + n, LogRequest(t, kind, es, n)
    PROVE  IndInv'
<1>1. /\ nextSeq' \in Nat \ {0} /\ nextSeq <= nextSeq'
      /\ wal' \subseteq Entry /\ walBuf' \subseteq Entry
      /\ IsFiniteSet(wal') /\ IsFiniteSet(walBuf')
      /\ \A e \in wal' \cup walBuf' \cup es : e.seq < nextSeq'
      /\ issued' \in Nat /\ last' \in [Docs -> LastOp]
  BY WriteWALKeeps DEF LogRequest
<1>2. [kind |-> kind, entries |-> es, count |-> n, seq |-> 0] \in Request
  BY DEF Request
<1>3. TypeOK'
  BY <1>1, <1>2 DEF IndInv, TypeOK, LogRequest, Begin, Goto, pipeline, searched, process
<1>4. LogFinite'
  BY <1>1 DEF IndInv, LogFinite, LogRequest
<1>5. Fresh'
  <2>1. \A k \in Nat : k < nextSeq => k < nextSeq'
    BY <1>1 DEF IndInv, TypeOK
  <2>2. \A e \in (wal \cup walSealed \cup walBuf)' : e.seq < nextSeq'
    BY <1>1, <2>1 DEF IndInv, TypeOK, Fresh, Entry, LogRequest
  <2>3. (\A f \in metaSegments : f < nextSeq)' /\ (seqFloor < nextSeq)'
    BY <2>1 DEF IndInv, TypeOK, Fresh, LogRequest
  <2>4. \A b \in Builders : flushing'[b].seq < nextSeq'
    BY <2>1 DEF IndInv, TypeOK, Fresh, Flushing, LogRequest, pipeline
  <2>5. ASSUME NEW u \in Threads
        PROVE  req'[u].seq < nextSeq' /\ \A e \in req'[u].entries : e.seq < nextSeq'
    <3>1. CASE u = t
      BY <1>1, <3>1 DEF IndInv, TypeOK, LogRequest, Begin
    <3>2. CASE u # t
      <4>1. req'[u] = req[u]
        BY <3>2 DEF IndInv, TypeOK, LogRequest, Begin
      <4>2. req[u] \in Request
        BY DEF IndInv, TypeOK
      <4> QED
        BY <2>1, <4>1, <4>2 DEF IndInv, Fresh, Request, Entry
    <3> QED
      BY <3>1, <3>2
  <2> QED
    BY <2>2, <2>3, <2>4, <2>5 DEF Fresh
<1>6. DownIsCold'
  BY DEF IndInv, DownIsCold, LogRequest, process
<1> QED
  BY <1>3, <1>4, <1>5, <1>6 DEF IndInv
\* The labels a thread may be at.
PcLabels == {"idle", "apply", "await", "recheck", "refill", "register", "rotate",
             "closeWAL", "resetFiles", "resetWAL", "resetMeta", "resetFloor"}

\* Moving one thread to another label.
LEMMA GotoTyped ==
    ASSUME NEW labels \in [Threads -> PcLabels], NEW t \in Threads, NEW l \in PcLabels
    PROVE  [labels EXCEPT ![t] = l] \in [Threads -> PcLabels]
OBVIOUS

\* The parts of a request have their types.
LEMMA RequestTyped ==
    ASSUME TypeOK, NEW t \in Threads
    PROVE  /\ req[t].entries \in SUBSET Entry /\ DocsOf(req[t].entries) \subseteq Docs
           /\ req[t].count \in Nat /\ req[t].seq \in Nat
BY DEF TypeOK, Request, DocsOf, Entry

\* What a builder holds after an Add are versions of documents.
LEMMA UpsertType ==
    ASSUME NEW vs \in SUBSET Version, NEW es \in SUBSET Entry
    PROVE  Upsert(vs, es) \in SUBSET Version
BY DEF Upsert, Latest, Version, Entry

\* The documents of a request enter the active builder, which may be swapped.
LEMMA AddDocsToBufferKeeps ==
    ASSUME IndInv, NEW t \in Threads, AddDocsToBuffer(t) PROVE IndInv'
<1> USE DEF IndInv, AddDocsToBuffer, Swap, Return, Begin, Goto, FlushSeq, log, process
<1>0. /\ req[t].entries \in SUBSET Entry /\ DocsOf(req[t].entries) \subseteq Docs
      /\ req[t].count \in Nat
  BY RequestTyped
<1>1. TypeOK'
  <2>1. content' \in [Builders -> SUBSET Version]
    <3>1. Upsert(content[buffer], req[t].entries) \in SUBSET Version
      BY <1>0, UpsertType DEF TypeOK
    <3> QED
      BY <3>1 DEF TypeOK
  <2>2. last' \in [Docs -> LastOp]
    BY DEF TypeOK, LastOp
  <2>3. /\ tombstones' \subseteq Docs /\ metaTombstones' \subseteq Docs
        /\ freeBuffers' \subseteq Builders /\ buffer' \in Builders /\ bufferDocs' \in Nat
    BY <1>0 DEF TypeOK
  <2>4. flushing' \in [Builders -> Flushing]
    <3>1. [stage |-> "write", seq |-> nextSeq - 1] \in Flushing
      BY DEF TypeOK, Flushing
    <3> QED
      BY <3>1 DEF TypeOK
  <2>5. pc' \in [Threads -> PcLabels] /\ req' \in [Threads -> Request]
    <3>1. PICK l \in PcLabels : pc' = [pc EXCEPT ![t] = l]
      BY DEF PcLabels
    <3>2. pc \in [Threads -> PcLabels]
      BY DEF TypeOK, PcLabels
    <3>3. pc' \in [Threads -> PcLabels]
      <4> HIDE DEF IndInv, AddDocsToBuffer, Swap, Return, Begin, Goto
      <4> QED
        BY <3>1, <3>2, GotoTyped
    <3>4. NoRequest \in Request /\ req \in [Threads -> Request]
      BY DEF TypeOK, NoRequest, Request
    <3>5. req' = req \/ req' = [req EXCEPT ![t] = NoRequest]
      OBVIOUS
    <3> QED
      BY <3>3, <3>4, <3>5
  <2> QED
    BY <2>1, <2>2, <2>3, <2>4, <2>5 DEF TypeOK, PcLabels
<1>2. LogFinite'
  BY DEF LogFinite
<1>3. Fresh'
  <2>1. \A b \in Builders : flushing'[b].seq < nextSeq'
    BY DEF Fresh, TypeOK
  <2>2. \A u \in Threads :
          req'[u].seq < nextSeq' /\ \A e \in req'[u].entries : e.seq < nextSeq'
    BY DEF Fresh, TypeOK, NoRequest
  <2> QED
    BY <2>1, <2>2 DEF Fresh
<1>4. DownIsCold'
  BY DEF DownIsCold, NotFlushed
<1> QED
  BY <1>1, <1>2, <1>3, <1>4

\* A blocked thread takes a builder.
LEMMA TakeBuilderKeeps ==
    ASSUME IndInv, NEW t \in Threads, TakeBuilder(t) PROVE IndInv'
<1> USE DEF IndInv, TakeBuilder, Goto, disk, searched, log, process
<1>1. TypeOK'
  BY DEF TypeOK, Request, Flushing, NotFlushed, NoRequest, LastOp, Entry, Version
<1>2. LogFinite'
  BY DEF LogFinite
<1>3. Fresh'
  BY DEF Fresh, TypeOK, Request, Flushing, NotFlushed, NoRequest, Entry
<1>4. DownIsCold'
  BY DEF DownIsCold, NotFlushed
<1> QED
  BY <1>1, <1>2, <1>3, <1>4

\* It swaps the builder in, or returns it.
LEMMA RecheckKeeps ==
    ASSUME IndInv, NEW t \in Threads, Recheck(t) PROVE IndInv'
<1> USE DEF IndInv, Recheck, Swap, Return, Begin, Goto, FlushSeq, disk, searched, log, process
<1>1. TypeOK'
  <2>1. flushing' \in [Builders -> Flushing]
    <3>1. [stage |-> "write", seq |-> nextSeq - 1] \in Flushing
      BY DEF TypeOK, Flushing
    <3> QED
      BY <3>1 DEF TypeOK
  <2>2. pc' \in [Threads -> PcLabels] /\ req' \in [Threads -> Request]
    <3>1. PICK l \in PcLabels : pc' = [pc EXCEPT ![t] = l]
      BY DEF PcLabels
    <3>2. pc \in [Threads -> PcLabels]
      BY DEF TypeOK, PcLabels
    <3>3. pc' \in [Threads -> PcLabels]
      BY <3>1, <3>2, GotoTyped
    <3> QED
      BY <3>3 DEF TypeOK, NoRequest, Request
  <2>3. /\ freeBuffers' \subseteq Builders /\ buffer' \in Builders /\ bufferDocs' \in Nat
        /\ held' \in [Threads -> SUBSET Builders]
    BY DEF TypeOK
  <2> QED
    BY <2>1, <2>2, <2>3 DEF TypeOK, PcLabels
<1>2. LogFinite'
  BY DEF LogFinite
<1>3. Fresh'
  <2>1. \A b \in Builders : flushing'[b].seq < nextSeq'
    BY DEF Fresh, TypeOK
  <2>2. \A u \in Threads :
          req'[u].seq < nextSeq' /\ \A e \in req'[u].entries : e.seq < nextSeq'
    BY DEF Fresh, TypeOK, NoRequest
  <2> QED
    BY <2>1, <2>2 DEF Fresh
<1>4. DownIsCold'
  BY DEF DownIsCold, NotFlushed
<1> QED
  BY <1>1, <1>2, <1>3, <1>4

\* GC empties the pool.
LEMMA DrainPoolKeeps ==
    ASSUME IndInv, NEW t \in Threads, DrainPool(t) PROVE IndInv'
<1> USE DEF IndInv, DrainPool, Begin, Goto, disk, searched, log, process
<1>1. TypeOK'
  BY DEF TypeOK, Request, Flushing, NotFlushed, NoRequest, LastOp, Entry, Version
<1>2. LogFinite'
  BY DEF LogFinite
<1>3. Fresh'
  BY DEF Fresh, TypeOK, Request, Flushing, NotFlushed, NoRequest, Entry
<1>4. DownIsCold'
  BY DEF DownIsCold, NotFlushed
<1> QED
  BY <1>1, <1>2, <1>3, <1>4

\* GC fills the pool again.
LEMMA RefillPoolKeeps ==
    ASSUME IndInv, NEW t \in Threads, RefillPool(t) PROVE IndInv'
<1> USE DEF IndInv, RefillPool, Return, Begin, Goto, disk, searched, log, process
<1>1. TypeOK'
  BY DEF TypeOK, Request, Flushing, NotFlushed, NoRequest, LastOp, Entry, Version
<1>2. LogFinite'
  BY DEF LogFinite
<1>3. Fresh'
  BY DEF Fresh, TypeOK, Request, Flushing, NotFlushed, NoRequest, Entry
<1>4. DownIsCold'
  BY DEF DownIsCold, NotFlushed
<1> QED
  BY <1>1, <1>2, <1>3, <1>4

\* A background flush puts its file in place.
LEMMA BackgroundPutFileKeeps ==
    ASSUME IndInv, NEW b \in Builders, BackgroundPutFile(b) PROVE IndInv'
<1> USE DEF IndInv, BackgroundPutFile, PutFile, searched, log, process
<1>1. TypeOK'
  BY DEF TypeOK, Request, Flushing, NotFlushed, NoRequest, LastOp, Entry, Version
<1>2. LogFinite'
  BY DEF LogFinite
<1>3. Fresh'
  BY DEF Fresh, TypeOK, Request, Flushing, NotFlushed, NoRequest, Entry
<1>4. DownIsCold'
  BY DEF DownIsCold, NotFlushed
<1> QED
  BY <1>1, <1>2, <1>3, <1>4

\* A background flush fails.
LEMMA BackgroundFlushErrorKeeps ==
    ASSUME IndInv, NEW b \in Builders, BackgroundFlushError(b) PROVE IndInv'
<1> USE DEF IndInv, BackgroundFlushError, disk, searched, log, process
<1>1. TypeOK'
  BY DEF TypeOK, Request, Flushing, NotFlushed, NoRequest, LastOp, Entry, Version
<1>2. LogFinite'
  BY DEF LogFinite
<1>3. Fresh'
  BY DEF Fresh, TypeOK, Request, Flushing, NotFlushed, NoRequest, Entry
<1>4. DownIsCold'
  BY DEF DownIsCold, NotFlushed
<1> QED
  BY <1>1, <1>2, <1>3, <1>4

\* A background flush registers its segment.
LEMMA BackgroundAddSegmentKeeps ==
    ASSUME IndInv, NEW b \in Builders, BackgroundAddSegment(b) PROVE IndInv'
<1> USE DEF IndInv, BackgroundAddSegment, searched, log, process
<1>1. TypeOK'
  BY DEF TypeOK, Request, Flushing, NotFlushed, NoRequest, LastOp, Entry, Version
<1>2. LogFinite'
  BY DEF LogFinite
<1>3. Fresh'
  BY DEF Fresh, TypeOK, Request, Flushing, NotFlushed, NoRequest, Entry
<1>4. DownIsCold'
  BY DEF DownIsCold, NotFlushed
<1> QED
  BY <1>1, <1>2, <1>3, <1>4

\* A background flush publishes its segment.
LEMMA BackgroundPublishKeeps ==
    ASSUME IndInv, NEW b \in Builders, BackgroundPublish(b) PROVE IndInv'
<1> USE DEF IndInv, BackgroundPublish, disk, log, process
<1>1. TypeOK'
  <2>1. flushing[b].seq \in Nat
    BY DEF TypeOK, Flushing
  <2> QED
    BY <2>1 DEF TypeOK, Flushing, NotFlushed
<1>2. LogFinite'
  BY DEF LogFinite
<1>3. Fresh'
  BY DEF Fresh, TypeOK, Request, Flushing, NotFlushed, NoRequest, Entry
<1>4. DownIsCold'
  BY DEF DownIsCold, NotFlushed
<1> QED
  BY <1>1, <1>2, <1>3, <1>4

\* A delete leaves its tombstone.
LEMMA AddTombstoneKeeps ==
    ASSUME IndInv, NEW t \in Threads, AddTombstone(t) PROVE IndInv'
<1> USE DEF IndInv, AddTombstone, Return, Begin, Goto, pipeline, log, process
<1>1. TypeOK'
  <2>1. DocsOf(req[t].entries) \subseteq Docs
    BY RequestTyped
  <2> QED
    BY <2>1 DEF TypeOK, Request, NoRequest
<1>2. LogFinite'
  BY DEF LogFinite
<1>3. Fresh'
  BY DEF Fresh, TypeOK, Request, Flushing, NotFlushed, NoRequest, Entry
<1>4. DownIsCold'
  BY DEF DownIsCold, NotFlushed
<1> QED
  BY <1>1, <1>2, <1>3, <1>4

\* An explicit flush registers its segment.
LEMMA FlushAddSegmentKeeps ==
    ASSUME IndInv, NEW t \in Threads, FlushAddSegment(t) PROVE IndInv'
<1> USE DEF IndInv, FlushAddSegment, Goto, log, process
<1>1. TypeOK'
  <2>1. req[t].seq \in Nat
    BY RequestTyped
  <2> QED
    BY <2>1 DEF TypeOK
<1>2. LogFinite'
  BY DEF LogFinite
<1>3. Fresh'
  BY DEF Fresh, TypeOK, Request, Flushing, NotFlushed, NoRequest, Entry
<1>4. DownIsCold'
  BY DEF DownIsCold, NotFlushed
<1> QED
  BY <1>1, <1>2, <1>3, <1>4

\* An explicit flush rotates the log.
LEMMA RotateWALKeeps ==
    ASSUME IndInv, NEW t \in Threads, RotateWAL(t) PROVE IndInv'
<1> USE DEF IndInv, RotateWAL, Return, Begin, Goto, pipeline, searched, process
<1>1. TypeOK'
  <2>1. walSealed' \subseteq Entry /\ wal' \subseteq Entry /\ walBuf' \subseteq Entry
    BY DEF TypeOK
  <2>2. mu' \in Threads \cup {NoThread} /\ req' \in [Threads -> Request]
    BY DEF TypeOK, Request, NoRequest
  <2>3. pc' \in [Threads -> PcLabels]
    BY DEF TypeOK, PcLabels
  <2> QED
    BY <2>1, <2>2, <2>3 DEF TypeOK, PcLabels
<1>2. LogFinite'
  <2>1. IsFiniteSet(wal \cup walBuf)
    BY FS_Union DEF LogFinite
  <2>2. IsFiniteSet(walSealed \cup (wal \cup walBuf))
    BY <2>1, FS_Union DEF LogFinite
  <2>3. walSealed \cup (wal \cup walBuf) = (walSealed \cup wal) \cup walBuf
    OBVIOUS
  <2> QED
    BY <2>2, <2>3, FS_EmptySet DEF LogFinite
<1>3. Fresh'
  <2>1. \A e \in wal' \cup walSealed' \cup walBuf' : e.seq < nextSeq'
    BY DEF Fresh
  <2>2. \A u \in Threads : req'[u] = req[u] \/ req'[u] = NoRequest
    BY DEF TypeOK
  <2>3. ASSUME NEW u \in Threads
        PROVE  req'[u].seq < nextSeq' /\ \A e \in req'[u].entries : e.seq < nextSeq'
    <3>1. CASE req'[u] = req[u]
      BY <3>1 DEF Fresh
    <3>2. CASE req'[u] = NoRequest
      BY <3>2 DEF TypeOK, NoRequest
    <3> QED
      BY <2>2, <3>1, <3>2
  <2> QED
    BY <2>1, <2>3 DEF Fresh
<1>4. DownIsCold'
  BY DEF DownIsCold, NotFlushed
<1> QED
  BY <1>1, <1>2, <1>3, <1>4

\* Reset has waited for the background flushes.
LEMMA ResetWaitKeeps ==
    ASSUME IndInv, NEW t \in Threads, ResetWait(t) PROVE IndInv'
<1> USE DEF IndInv, ResetWait, Begin, Goto, disk, pipeline, searched, log, process
<1>1. TypeOK'
  BY DEF TypeOK, Request, Flushing, NotFlushed, NoRequest, LastOp, Entry, Version
<1>2. LogFinite'
  BY DEF LogFinite
<1>3. Fresh'
  BY DEF Fresh, TypeOK, Request, Flushing, NotFlushed, NoRequest, Entry
<1>4. DownIsCold'
  BY DEF DownIsCold, NotFlushed
<1> QED
  BY <1>1, <1>2, <1>3, <1>4

\* Reset deletes the segment files.
LEMMA ResetFilesKeeps ==
    ASSUME IndInv, NEW t \in Threads, ResetFiles(t) PROVE IndInv'
<1> USE DEF IndInv, ResetFiles, Goto, pipeline, searched, log, process
<1>1. TypeOK'
  BY DEF TypeOK, Request, Flushing, NotFlushed, NoRequest, LastOp, Entry, Version
<1>2. LogFinite'
  BY DEF LogFinite
<1>3. Fresh'
  BY DEF Fresh, TypeOK, Request, Flushing, NotFlushed, NoRequest, Entry
<1>4. DownIsCold'
  BY DEF DownIsCold, NotFlushed
<1> QED
  BY <1>1, <1>2, <1>3, <1>4

\* Reset empties the log.
LEMMA ResetWALKeeps ==
    ASSUME IndInv, NEW t \in Threads, ResetWAL(t) PROVE IndInv'
<1> USE DEF IndInv, ResetWAL, Goto, pipeline, searched, process
<1>1. TypeOK'
  BY DEF TypeOK, Request, Flushing, NotFlushed, NoRequest, LastOp, Entry, Version
<1>2. LogFinite'
  BY FS_EmptySet DEF LogFinite
<1>3. Fresh'
  BY DEF Fresh, TypeOK, Request, Flushing, NotFlushed, NoRequest, Entry
<1>4. DownIsCold'
  BY DEF DownIsCold, NotFlushed
<1> QED
  BY <1>1, <1>2, <1>3, <1>4

\* Reset wipes the manifest and takes a number.
LEMMA ResetMetaKeeps ==
    ASSUME IndInv, NEW t \in Threads, ResetMeta(t) PROVE IndInv'
<1> USE DEF IndInv, ResetMeta, Goto, pipeline, searched, process
<1>1. TypeOK'
  BY DEF TypeOK, Request, Flushing, NotFlushed, NoRequest, LastOp, Entry, Version
<1>2. LogFinite'
  BY DEF LogFinite
<1>3. Fresh'
  BY DEF Fresh, TypeOK, Request, Flushing, NotFlushed, NoRequest, Entry
<1>4. DownIsCold'
  BY DEF DownIsCold, NotFlushed
<1> QED
  BY <1>1, <1>2, <1>3, <1>4

\* Reset raises the floor and clears the memory.
LEMMA ResetFloorKeeps ==
    ASSUME IndInv, NEW t \in Threads, ResetFloor(t) PROVE IndInv'
<1> USE DEF IndInv, ResetFloor, MaxNum, Return, Begin, Goto, process
<1>1. TypeOK'
  BY DEF TypeOK, Request, Flushing, NotFlushed, NoRequest, LastOp, Entry, Version
<1>2. LogFinite'
  BY DEF LogFinite
<1>3. Fresh'
  BY DEF Fresh, TypeOK, Request, Flushing, NotFlushed, NoRequest, Entry
<1>4. DownIsCold'
  BY DEF DownIsCold, NotFlushed
<1> QED
  BY <1>1, <1>2, <1>3, <1>4

\* An unlogged bulk write starts.
LEMMA IndexDocsNoWALKeeps ==
    ASSUME IndInv, NEW t \in Threads, IndexDocsNoWAL(t) PROVE IndInv'
<1> USE DEF IndInv, IndexDocsNoWAL, Begin, Goto, disk, pipeline, searched, log, process
<1>1. PICK docs \in Batches :
        req' = [req EXCEPT ![t] =
                  [kind |-> "bulk", count |-> Len(docs), seq |-> 0,
                   entries |-> {[seq |-> Unlogged, op |-> "index", doc |-> docs[i]] :
                                i \in DOMAIN docs}]]
  OBVIOUS
<1> DEFINE es == {[seq |-> Unlogged, op |-> "index", doc |-> docs[i]] : i \in DOMAIN docs}
<1>2. Len(docs) \in Nat /\ es \in SUBSET Entry /\ \A e \in es : e.seq = 0
  BY ConstantsAssumption DEF Entry, Unlogged
<1> DEFINE r == [kind |-> "bulk", count |-> Len(docs), seq |-> 0, entries |-> es]
<1>3. r \in Request /\ r.entries = es /\ r.seq = 0
  BY <1>2 DEF Request
<1>4. req' = [req EXCEPT ![t] = r]
  BY <1>1
<1> HIDE DEF r, es
<1>5. TypeOK'
  BY <1>3, <1>4 DEF TypeOK
<1>6. LogFinite'
  BY DEF LogFinite
<1>7. Fresh'
  BY <1>2, <1>3, <1>4 DEF Fresh, TypeOK
<1>8. DownIsCold'
  BY DEF DownIsCold
<1> QED
  BY <1>5, <1>6, <1>7, <1>8

\* A batch is logged.
LEMMA IndexDocsKeeps ==
    ASSUME IndInv, NEW t \in Threads, IndexDocs(t) PROVE IndInv'
<1>1. PICK docs \in Batches :
        LogRequest(t, "index", {[seq |-> nextSeq + i - 1, op |-> "index", doc |-> docs[i]] :
                                i \in DOMAIN docs}, Len(docs))
  BY DEF IndexDocs
<1> DEFINE entry(i) == [seq |-> nextSeq + i - 1, op |-> "index", doc |-> docs[i]]
           es == {entry(i) : i \in DOMAIN docs}
<1>2. docs \in Seq(Docs) /\ Len(docs) \in Nat /\ DOMAIN docs = 1 .. Len(docs)
  BY ConstantsAssumption
<1>3. nextSeq \in Nat \ {0}
  BY DEF IndInv, TypeOK
<1>4. es \in SUBSET Entry /\ \A e \in es : e.seq < nextSeq + Len(docs)
  BY <1>2, <1>3 DEF Entry
<1>5. IsFiniteSet(es)
  <2> DEFINE numbered == [i \in DOMAIN docs |-> entry(i)]
  <2>1. IsFiniteSet(DOMAIN docs)
    BY <1>2, FS_Interval
  <2>2. numbered \in Surjection(DOMAIN docs, es)
    BY DEF Surjection
  <2> HIDE DEF numbered, es
  <2> QED
    BY <2>1, <2>2, FS_Surjection
<1> QED
  BY <1>1, <1>2, <1>4, <1>5, LogRequestKeeps

\* A delete is logged.
LEMMA DeleteDocumentKeeps ==
    ASSUME IndInv, NEW t \in Threads, DeleteDocument(t) PROVE IndInv'
<1>1. PICK d \in Docs :
        LogRequest(t, "delete", {[seq |-> nextSeq, op |-> "delete", doc |-> d]}, 1)
  BY DEF DeleteDocument
<1> DEFINE e == [seq |-> nextSeq, op |-> "delete", doc |-> d]
<1>2. nextSeq \in Nat \ {0}
  BY DEF IndInv, TypeOK
<1>3. {e} \in SUBSET Entry /\ e.seq < nextSeq + 1
  BY <1>2 DEF Entry
<1>4. IsFiniteSet({e})
  BY FS_Singleton
<1> HIDE DEF e
<1>5. \A x \in {e} : x.seq < nextSeq + 1
  BY <1>3
<1> QED
  BY <1>1, <1>3, <1>4, <1>5, LogRequestKeeps DEF e

\* Buffered entries reach the file.
LEMMA FlushWALBufferKeeps == ASSUME IndInv, FlushWALBuffer PROVE IndInv'
<1> USE DEF IndInv, FlushWALBuffer, pipeline, searched, process
<1>1. PICK out \in SUBSET walBuf : wal' = wal \cup out /\ walBuf' = walBuf \ out
  OBVIOUS
<1>2. TypeOK'
  BY <1>1 DEF TypeOK
<1>3. LogFinite'
  <2>1. IsFiniteSet(out) /\ IsFiniteSet(walBuf \ out)
    BY <1>1, FS_Subset DEF LogFinite
  <2> QED
    BY <1>1, <2>1, FS_Union DEF LogFinite
<1>4. Fresh'
  BY <1>1 DEF Fresh
<1>5. DownIsCold'
  BY DEF DownIsCold
<1> QED
  BY <1>2, <1>3, <1>4, <1>5

\* The request of a flush.
LEMMA FlushRequest ==
    ASSUME NEW kind \in {"flush", "close"}, NEW n \in Nat,
           NEW r, r = [NoRequest EXCEPT !.kind = kind, !.seq = n]
    PROVE  r \in Request /\ r.entries = {} /\ r.seq = n
<1>1. NoRequest \in Request
  BY DEF NoRequest, Request
<1> QED
  BY <1>1 DEF NoRequest, Request

\* An explicit flush puts its file in place.
LEMMA FlushPutFileKeeps ==
    ASSUME IndInv, NEW t \in Threads, NEW kind \in {"flush", "close"}, FlushPutFile(t, kind)
    PROVE  IndInv'
<1> USE DEF IndInv, FlushPutFile, PutFile, FlushSeq, Begin, Goto, pipeline, searched, log, process
<1> DEFINE r == [NoRequest EXCEPT !.kind = kind, !.seq = nextSeq - 1]
<1>0. nextSeq \in Nat /\ nextSeq - 1 \in Nat
  BY DEF TypeOK
<1>1. r \in Request /\ r.entries = {} /\ r.seq < nextSeq
  <2>1. r = [NoRequest EXCEPT !.kind = kind, !.seq = nextSeq - 1]
    OBVIOUS
  <2> HIDE DEF r, IndInv, FlushPutFile, Begin, Goto
  <2>2. r \in Request /\ r.entries = {} /\ r.seq = nextSeq - 1
    BY <1>0, <2>1, FlushRequest
  <2> QED
    BY <1>0, <2>2
<1>2. req' = [req EXCEPT ![t] = r]
  OBVIOUS
<1> HIDE DEF r
<1>3. TypeOK'
  BY <1>0, <1>1, <1>2 DEF TypeOK
<1>4. LogFinite'
  BY DEF LogFinite
<1>5. Fresh'
  <2>1. \A u \in Threads : req'[u] = IF u = t THEN r ELSE req[u]
    BY <1>2 DEF TypeOK
  <2> QED
    BY <1>1, <2>1 DEF Fresh
<1>6. DownIsCold'
  BY DEF DownIsCold
<1> QED
  BY <1>3, <1>4, <1>5, <1>6

-----------------------------------------------------------------------------
(* Shutdown, crash and recovery.                                           *)

\* What every way of stopping leaves behind.
LEMMA StopKeeps ==
    ASSUME IndInv, Stop, wal' = wal \/ wal' = wal \cup walBuf, last' \in [Docs -> LastOp]
    PROVE  IndInv'
<1> USE DEF IndInv, Stop
<1>1. TypeOK'
  <2>1. wal' \subseteq Entry
    BY DEF TypeOK
  <2>2. NotFlushed \in Flushing /\ NoRequest \in Request
    BY DEF NotFlushed, Flushing, NoRequest, Request
  <2>3. flushing' \in [Builders -> Flushing] /\ req' \in [Threads -> Request]
    BY <2>2
  <2>4. /\ content' \in [Builders -> SUBSET Version] /\ held' \in [Threads -> SUBSET Builders]
        /\ pc' \in [Threads -> PcLabels]
    BY DEF PcLabels
  <2>5. walBuf' = {} /\ walSealed' \subseteq Entry /\ stops' \in Nat /\ issued' \in Nat
    BY DEF TypeOK
  <2>6. /\ DOMAIN segFiles' \subseteq Nat
        /\ \A f \in DOMAIN segFiles' : segFiles'[f] \subseteq Version
    BY DEF TypeOK
  <2>7. /\ up' \in BOOLEAN /\ nextSeq' \in Nat \ {0} /\ mu' \in Threads \cup {NoThread}
        /\ buffer' \in Builders /\ bufferDocs' \in Nat /\ freeBuffers' \subseteq Builders
        /\ tombstones' \subseteq Docs /\ segRecords' \subseteq Nat
        /\ metaSegments' \subseteq Nat /\ metaTombstones' \subseteq Docs /\ seqFloor' \in Nat
    BY DEF TypeOK
  <2> QED
    BY <2>1, <2>3, <2>4, <2>5, <2>6, <2>7 DEF TypeOK, PcLabels
<1>2. LogFinite'
  <2>1. IsFiniteSet(wal \cup walBuf)
    BY FS_Union DEF LogFinite
  <2> QED
    BY <2>1, FS_EmptySet DEF LogFinite
<1>3. Fresh'
  <2>1. 0 < nextSeq
    BY DEF TypeOK
  <2> QED
    BY <2>1 DEF Fresh, NotFlushed, NoRequest
<1>4. DownIsCold'
  BY DEF DownIsCold
<1> QED
  BY <1>1, <1>2, <1>3, <1>4

\* A crash keeps the files only.
LEMMA CrashKeeps == ASSUME IndInv, Crash PROVE IndInv'
<1>1. last' \in [Docs -> LastOp]
  BY DEF Crash, IndInv, TypeOK, LastOp
<1> QED
  BY <1>1, StopKeeps DEF Crash

\* So does a shutdown, after the buffered entries are written.
LEMMA CloseWALKeeps == ASSUME IndInv, NEW t \in Threads, CloseWAL(t) PROVE IndInv'
<1>1. last' \in [Docs -> LastOp]
  BY DEF CloseWAL, IndInv, TypeOK
<1> QED
  BY <1>1, StopKeeps DEF CloseWAL

\* The high-water mark is the manifest's largest number.
LEMMA HighWaterBounds ==
    ASSUME IndInv
    PROVE  /\ HighWater \in Nat /\ HighWater < nextSeq
           /\ seqFloor <= HighWater /\ \A f \in metaSegments : f <= HighWater
<1> DEFINE S == metaSegments \cup {seqFloor}
<1>1. S \in SUBSET Nat /\ S # {} /\ nextSeq \in Nat
  BY DEF IndInv, TypeOK
<1>2. \A k \in S : k < nextSeq
  BY DEF IndInv, Fresh
<1>3. Max(S) \in S /\ \A k \in S : Max(S) >= k
  <2>1. \A k \in S : k <= nextSeq
    BY <1>1, <1>2
  <2> HIDE DEF S
  <2> QED
    BY <1>1, <2>1, MaxOfBounded
<1>4. HighWater = Max(S)
  BY DEF HighWater
<1>5. seqFloor \in S /\ \A f \in metaSegments : f \in S
  OBVIOUS
<1> HIDE DEF S
<1> QED
  BY <1>1, <1>2, <1>3, <1>4, <1>5

\* Numbering resumes above every number the disk holds.
LEMMA ResumeSeqBounds ==
    ASSUME IndInv
    PROVE  /\ ResumeSeq \in Nat \ {0} /\ HighWater < ResumeSeq
           /\ \A e \in wal \cup walSealed : e.seq < ResumeSeq
<1> DEFINE S == {e.seq : e \in wal \cup walSealed} \cup {HighWater}
<1>1. S \in SUBSET Nat /\ S # {} /\ nextSeq \in Nat
  BY HighWaterBounds DEF IndInv, TypeOK, Entry
<1>2. \A k \in S : k < nextSeq
  BY HighWaterBounds DEF IndInv, Fresh
<1>3. Max(S) \in S /\ \A k \in S : Max(S) >= k
  <2> HIDE DEF S
  <2>1. \A k \in S : k <= nextSeq
    BY <1>1, <1>2
  <2> QED
    BY <1>1, <2>1, MaxOfBounded
<1>4. ResumeSeq = 1 + Max(S)
  BY DEF ResumeSeq
<1>5. HighWater \in S /\ \A e \in wal \cup walSealed : e.seq \in S
  OBVIOUS
<1> DEFINE m == Max(S)
<1>6. m \in Nat /\ ResumeSeq = 1 + m
  BY <1>1, <1>3, <1>4
<1>7. HighWater <= m /\ \A e \in wal \cup walSealed : e.seq <= m
  BY <1>3, <1>5
<1>8. HighWater \in Nat /\ \A e \in wal \cup walSealed : e.seq \in Nat
  BY <1>1, <1>5
<1> HIDE DEF m
<1> QED
  BY <1>6, <1>7, <1>8

\* A restart replays the log.
LEMMA LoadFromMetaKeeps == ASSUME IndInv, LoadFromMeta PROVE IndInv'
<1>1. Replayed \subseteq wal \cup walSealed /\ IndexOf(Replayed) \subseteq Entry
  BY DEF Replayed, IndexOf, IndInv, TypeOK
<1>2. TypeOK'
  <2>1. content' \in [Builders -> SUBSET Version]
    <3>1. Upsert({}, IndexOf(Replayed)) \in SUBSET Version
      BY <1>1, UpsertType
    <3> QED
      BY <3>1 DEF LoadFromMeta, IndInv, TypeOK
  <2>2. bufferDocs' \in Nat
    <3>1. IsFiniteSet(wal \cup walSealed)
      BY FS_Union DEF IndInv, LogFinite
    <3>2. IndexOf(Replayed) \in SUBSET (wal \cup walSealed)
      BY DEF IndexOf, Replayed
    <3>3. IsFiniteSet(IndexOf(Replayed))
      BY <3>1, <3>2, FS_Subset
    <3> QED
      BY <3>3, FS_CardinalityType DEF LoadFromMeta
  <2>3. tombstones' \subseteq Docs /\ metaTombstones' \subseteq Docs
    BY <1>1 DEF LoadFromMeta, ReplayedTombstones, LastDeleted, Latest, Replayed, IndInv,
                TypeOK, Entry
  <2>4. nextSeq' \in Nat \ {0}
    BY ResumeSeqBounds DEF LoadFromMeta
  <2> QED
    BY <2>1, <2>2, <2>3, <2>4 DEF LoadFromMeta, IndInv, TypeOK
<1>3. LogFinite'
  <2>1. walSealed' \in SUBSET walSealed
    BY DEF LoadFromMeta
  <2> QED
    BY <2>1, FS_Subset DEF LoadFromMeta, IndInv, LogFinite
<1>4. Fresh'
  <2>1. nextSeq' = ResumeSeq /\ 0 < nextSeq' /\ nextSeq' \in Nat
    BY ResumeSeqBounds DEF LoadFromMeta
  <2>2. \A e \in (wal \cup walSealed)' : e.seq < nextSeq'
    BY <2>1, ResumeSeqBounds DEF LoadFromMeta
  <2>3. walBuf' = {}
    BY DEF LoadFromMeta, IndInv, DownIsCold
  <2>4. (\A f \in metaSegments : f < nextSeq)' /\ (seqFloor < nextSeq)'
    <3>1. HighWater \in Nat /\ HighWater < nextSeq' /\ metaSegments \subseteq Nat /\ seqFloor \in Nat
      BY <2>1, HighWaterBounds, ResumeSeqBounds DEF IndInv, TypeOK
    <3> QED
      BY <2>1, <3>1, HighWaterBounds DEF LoadFromMeta
  <2>5. \A b \in Builders : flushing'[b].seq < nextSeq'
    BY <2>1 DEF LoadFromMeta, IndInv, DownIsCold, NotFlushed
  <2>6. \A t \in Threads :
          req'[t].seq < nextSeq' /\ \A e \in req'[t].entries : e.seq < nextSeq'
    BY <2>1 DEF LoadFromMeta, IndInv, DownIsCold, NoRequest
  <2> QED
    BY <2>2, <2>3, <2>4, <2>5, <2>6 DEF Fresh
<1>5. DownIsCold'
  BY DEF LoadFromMeta, DownIsCold
<1> QED
  BY <1>2, <1>3, <1>4, <1>5 DEF IndInv
-----------------------------------------------------------------------------
(* The theorems.                                                           *)

\* Every step keeps the invariant.
LEMMA NextIndInv == IndInv /\ [Next]_vars => IndInv'
<1> SUFFICES ASSUME IndInv, [Next]_vars PROVE IndInv'
  OBVIOUS
<1>1. ASSUME NEW t \in Threads, NewRequest(t) PROVE IndInv'
  <2>1. CASE IndexDocs(t)
    BY <2>1, IndexDocsKeeps
  <2>2. CASE IndexDocsNoWAL(t)
    BY <2>2, IndexDocsNoWALKeeps
  <2>3. CASE DeleteDocument(t)
    BY <2>3, DeleteDocumentKeeps
  <2>4. CASE Flush(t) \/ CloseFlush(t)
    BY <2>4, FlushPutFileKeeps DEF Flush, CloseFlush
  <2>5. CASE ResetWait(t)
    BY <2>5, ResetWaitKeeps
  <2>6. CASE DrainPool(t)
    BY <2>6, DrainPoolKeeps
  <2> QED
    BY <1>1, <2>1, <2>2, <2>3, <2>4, <2>5, <2>6 DEF NewRequest
<1>2. ASSUME NEW t \in Threads, ThreadStep(t) PROVE IndInv'
  <2>1. CASE AddDocsToBuffer(t)
    BY <2>1, AddDocsToBufferKeeps
  <2>2. CASE TakeBuilder(t)
    BY <2>2, TakeBuilderKeeps
  <2>3. CASE Recheck(t)
    BY <2>3, RecheckKeeps
  <2>4. CASE RefillPool(t)
    BY <2>4, RefillPoolKeeps
  <2>5. CASE AddTombstone(t)
    BY <2>5, AddTombstoneKeeps
  <2>6. CASE FlushAddSegment(t)
    BY <2>6, FlushAddSegmentKeeps
  <2>7. CASE RotateWAL(t)
    BY <2>7, RotateWALKeeps
  <2>8. CASE CloseWAL(t)
    BY <2>8, CloseWALKeeps
  <2>9. CASE ResetFiles(t)
    BY <2>9, ResetFilesKeeps
  <2>10. CASE ResetWAL(t)
    BY <2>10, ResetWALKeeps
  <2>11. CASE ResetMeta(t)
    BY <2>11, ResetMetaKeeps
  <2>12. CASE ResetFloor(t)
    BY <2>12, ResetFloorKeeps
  <2> QED
    BY <1>2, <2>1, <2>2, <2>3, <2>4, <2>5, <2>6, <2>7, <2>8, <2>9, <2>10, <2>11, <2>12
       DEF ThreadStep
<1>3. ASSUME NEW b \in Builders, BackgroundStep(b) PROVE IndInv'
  BY <1>3, BackgroundPutFileKeeps, BackgroundFlushErrorKeeps, BackgroundAddSegmentKeeps,
     BackgroundPublishKeeps DEF BackgroundStep
<1>4. CASE FlushWALBuffer
  BY <1>4, FlushWALBufferKeeps
<1>5. CASE Crash
  BY <1>5, CrashKeeps
<1>6. CASE LoadFromMeta
  BY <1>6, LoadFromMetaKeeps
<1>7. CASE UNCHANGED vars
  BY <1>7 DEF vars, disk, pipeline, searched, log, process, IndInv, TypeOK, LogFinite, Fresh,
              DownIsCold
<1>8. Rest => UNCHANGED vars
  BY DEF Rest
<1> QED
  BY <1>1, <1>2, <1>3, <1>4, <1>5, <1>6, <1>7, <1>8 DEF Next

\* Every variable keeps its type, for every number of documents, threads and
\* builders, every set of batches, and both durability modes.
THEOREM TypeCorrect == Spec => []TypeOK
<1>1. IndInv => TypeOK
  BY DEF IndInv
<1> QED
  BY InitIndInv, NextIndInv, <1>1, PTL DEF Spec

\* A running shard never numbers an entry at or below its high-water mark or any
\* entry it holds (replayWALLocked, setWALSealedUpTo): recovery skips no new entry.
THEOREM SequenceNumbersAreFresh == Spec => []NextSeqIsFresh
<1>1. IndInv => NextSeqIsFresh
  <2> SUFFICES ASSUME IndInv PROVE NextSeqIsFresh
    OBVIOUS
  <2>1. nextSeq \in Nat
    BY DEF IndInv, TypeOK
  <2>2. nextSeq > HighWater
    BY <2>1, HighWaterBounds
  <2> QED
    BY <2>2 DEF NextSeqIsFresh, IndInv, Fresh
<1> QED
  BY InitIndInv, NextIndInv, <1>1, PTL DEF Spec
=============================================================================
