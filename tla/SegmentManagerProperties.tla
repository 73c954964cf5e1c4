---------------------- MODULE SegmentManagerProperties ----------------------
(* What SegmentManager must never do, and what it must eventually do.       *)
EXTENDS SegmentManager

\* Every variable has its type; a segment file holds versions of documents.
TypeOK ==
    /\ wal \subseteq Entry /\ walSealed \subseteq Entry /\ walBuf \subseteq Entry
    /\ DOMAIN segFiles \subseteq Nat
    /\ \A f \in DOMAIN segFiles : segFiles[f] \subseteq Version
    /\ metaSegments \subseteq Nat /\ metaTombstones \subseteq Docs /\ seqFloor \in Nat
    /\ up \in BOOLEAN /\ nextSeq \in Nat \ {0} /\ mu \in Threads \cup {NoThread}
    /\ buffer \in Builders /\ content \in [Builders -> SUBSET Version]
    /\ bufferDocs \in Nat /\ tombstones \subseteq Docs /\ segRecords \subseteq Nat
    /\ freeBuffers \subseteq Builders /\ flushing \in [Builders -> Flushing]
    /\ pc \in [Threads -> {"idle", "apply", "await", "recheck", "refill", "register", "rotate",
                           "closeWAL", "resetFiles", "resetWAL", "resetMeta", "resetFloor"}]
    /\ req \in [Threads -> Request] /\ held \in [Threads -> SUBSET Builders]
    /\ last \in [Docs -> LastOp] /\ issued \in Nat /\ stops \in Nat

\* flushOrSwap and runBackgroundFlush never let one builder serve two roles: it
\* is the active one, or in the pool, or in the hands of one blocked thread, or
\* being flushed; and whatever may become the active builder is empty.
BuilderOwnership ==
    LET inFlight == {b \in Builders : flushing[b].stage # "none"}
        taken    == UNION {held[t] : t \in Threads}
    IN  /\ buffer \notin freeBuffers \cup inFlight \cup taken
        /\ freeBuffers \cap (inFlight \cup taken) = {}
        /\ inFlight \cap taken = {}
        /\ \A t, u \in Threads : t # u => held[t] \cap held[u] = {}
        /\ Builders = {buffer} \cup freeBuffers \cup inFlight \cup taken
        /\ \A b \in freeBuffers \cup taken : content[b] = {}

\* replayWALLocked: "Never reuse those seqs: replay skips seq <= afterSeq, so a
\* reused one would be lost on the next crash".  The next sequence a running
\* shard assigns is above its high-water mark and above every entry it has.
NextSeqIsFresh ==
    up => /\ nextSeq > HighWater
          /\ \A e \in wal \cup walSealed \cup walBuf : e.seq < nextSeq

\* The flush sequence is read after the builder is filled, so a version that a
\* registered segment or one on its way holds is never replayed on top of it.
FlushSeqCoversSegment ==
    /\ \A f \in metaSegments \cap DOMAIN segFiles : \A v \in segFiles[f] : v.seq <= f
    /\ \A b \in Builders : flushing[b].stage # "none" =>
          \A v \in content[b] : v.seq <= flushing[b].seq

\* Every segment the manifest registers has its file, except while a Reset is
\* between its file deletions and its manifest wipe.
RegisteredFilesExist ==
    (\A t \in Threads : pc[t] \notin ResetLocked) => metaSegments \subseteq DOMAIN segFiles

\* No request on d is between its log entry and its acknowledgement, and the
\* last entry on d has left the bufio.Writer.
Settled(d) ==
    /\ \A t \in Threads : pc[t] = "apply" => d \notin DocsOf(req[t].entries)
    /\ \A e \in walBuf : e.doc # d

Reflects(version, l) ==
    CASE l.op = "index" -> version = l.seq
      [] l.op \in {"delete", "none"} -> version = Absent
      [] l.op = "unknown" -> TRUE

\* Durability: were the process to stop now, a restart would bring back the last
\* acknowledged operation on every document.
AcknowledgedIsDurable ==
    \A d \in Docs : Settled(d) => Reflects(RecoveredVersion(d), last[d])

\* manifest.go: SeqHighWater is "the highest WAL seq whose effects are already
\* durable outside the WAL".  An acknowledged operation at or below it has its
\* effect in the segments and the manifest's tombstones alone.
HighWaterIsDurable ==
    \A d \in Docs :
        Settled(d) /\ last[d].op \in {"index", "delete"} /\ last[d].seq <= HighWater
        => Reflects(Visible(d, metaTombstones, {}, metaSegments), last[d])

\* The replicas and the recovery apply the log in sequence order.  At rest, the
\* shard's own searches must agree with it: each document shows what its last
\* log entry says.
MemoryFollowsLog ==
    (up /\ NoBackgroundFlush /\ \A t \in Threads : pc[t] = "idle")
    => \A d \in Docs : Reflects(MemoryVersion(d), last[d])

\* SetWALHook: entries go out "in strictly increasing seq order", across Reset
\* and restarts (SeqFloor: "WAL sequence numbers never rewind").
SeqNeverRewinds == up => nextSeq > issued

\* rotateWALLocked: "All entries up to and including sealedSeq are guaranteed to
\* be in a registered segment" when the sealed file is removed.
RotationIsSafe ==
    [][ \A t \in Threads : RotateWAL(t) =>
          \A e \in IndexOf(wal \cup walBuf) : e.seq <= req[t].seq =>
              \E f \in metaSegments \cap DOMAIN segFiles : \E v \in segFiles[f] :
                  v.doc = e.doc /\ (v.seq >= e.seq \/ v.seq = Unlogged) ]_vars

\* A registered segment's file is never written again (SegmentRecord "describes
\* one immutable segment file on disk"); only Reset removes it.
SegmentsAreImmutable ==
    [][ \A f \in metaSegments \cap DOMAIN segFiles \cap DOMAIN segFiles' :
          segFiles'[f] = segFiles[f] ]_vars

\* Every request that has started is answered.
RequestsComplete == \A t \in Threads : pc[t] # "idle" ~> pc[t] = "idle"

\* The durable contents of the shard are what a restart would recover, and the
\* abstract clock is the highest sequence number ever assigned.
Store == INSTANCE DurableStore WITH
           store <- [d \in Docs |-> RecoveredVersion(d)],
           clock <- issued

\* Every step of the shard is an atomic write of the durable map or leaves it be.
ImplementsDurableStore == Store!Spec
=============================================================================
