--------------------------- MODULE SegmentManager ---------------------------
(***************************************************************************)
(* One shard of the engine (internal/shard): the write-ahead log, the      *)
(* in-memory builder that collects new documents, the pool of spare        *)
(* builders with their background flushes, the explicit flush that rotates *)
(* the log, the tombstones, the manifest (internal/storage), the wipe of   *)
(* the shard, its shutdown, a crash at any instant and the recovery.       *)
(*                                                                         *)
(* A document is a member of Docs; its content is the sequence number of   *)
(* the log entry that wrote it (Unlogged for a bulk write that skips the   *)
(* log).  A segment file is named after its flush sequence, as in the code,*)
(* so two flushes with one sequence write one file.  Merges are another    *)
(* component: every segment here is a level-0 one.                         *)
(*                                                                         *)
(* A critical section that does no I/O is one step.  The two that do (the  *)
(* explicit flush and Reset) hold mu across several steps; of the holders  *)
(* of walMu only Reset keeps it across steps, and it holds mu too.         *)
(***************************************************************************)
EXTENDS Integers, Sequences, FiniteSets, FiniteSetsExt

CONSTANTS
    Docs,           \* document ids
    Threads,        \* goroutines that serve requests
    NoThread,       \* the holder of a free mutex
    Builders,       \* the active builder and the spare ones of the pool
    Batches,        \* the document sequences one indexDocs call may carry
    Operations,     \* which requests are made
    MaxBufferDocs,  \* sm.maxBufferDocs, the flush threshold
    SyncWAL,        \* wal_durability is "sync" (else "async")
    IOErrors,       \* a background flush may fail to write its segment
    MaxSeq,         \* bound: no request is logged past this sequence number
    MaxStops        \* bound on crashes and shutdowns

ASSUME ConstantsAssumption ==
    /\ NoThread \notin Threads
    /\ Builders # {}
    /\ Batches \subseteq Seq(Docs) \ {<<>>}
    /\ SyncWAL \in BOOLEAN
    /\ IOErrors \in BOOLEAN
    /\ MaxBufferDocs \in Nat
    /\ MaxSeq \in Nat
    /\ MaxStops \in Nat

VARIABLES
    wal,            \* entries in the active log file
    walSealed,      \* entries in sealed files whose removal failed
    segFiles,       \* flush sequence of a segment file -> the versions in it
    metaSegments,   \* manifest: flush sequences of the registered segments
    metaTombstones, \* manifest: deleted documents
    seqFloor,       \* manifest: highest sequence discarded by a Reset
    up,             \* the process runs
    nextSeq,        \* guarded by walMu
    walBuf,         \* entries in the bufio.Writer, not yet in the file
    mu,             \* the thread that keeps sm.mu across steps
    buffer,         \* the active builder
    content,        \* builder -> the versions added to it
    bufferDocs,     \* number of Adds since the last flush
    tombstones,     \* deleted documents, in memory
    segRecords,     \* segments a search can see
    freeBuffers,    \* the pool channel
    flushing,       \* builder -> progress of its background flush
    pc, req, held,  \* per thread: next step, its request, a builder it took
    last,           \* history: last logged operation on each document
    issued,         \* history: highest sequence ever assigned
    stops           \* history: crashes and shutdowns so far

disk     == <<wal, walSealed, segFiles, metaSegments, metaTombstones, seqFloor>>
pipeline == <<buffer, bufferDocs, freeBuffers, flushing>>
searched == <<tombstones, segRecords>>
log      == <<nextSeq, walBuf, issued>>
process  == <<up, stops>>
vars == <<disk, pipeline, searched, log, process, mu, content, pc, req, held, last>>

Unlogged == 0
Absent   == -1

Entry    == [seq : Nat, op : {"index", "delete"}, doc : Docs]
Version  == [doc : Docs, seq : Nat]
LastOp   == [op : {"none", "index", "delete", "unknown"}, seq : Nat]
Request  == [kind : {"none", "index", "bulk", "delete", "flush", "close",
                      "reset", "gc"},
             entries : SUBSET Entry, count : Nat, seq : Nat]
Flushing == [stage : {"none", "write", "register", "publish"}, seq : Nat]

NoRequest  == [kind |-> "none", entries |-> {}, count |-> 0, seq |-> 0]
NotFlushed == [stage |-> "none", seq |-> 0]

DocsOf(es)    == {e.doc : e \in es}
IndexOf(es)   == {e \in es : e.op = "index"}
Latest(es)    == {e \in es : \A f \in es : f.doc = e.doc => f.seq <= e.seq}
MaxNum(a, b)  == IF a >= b THEN a ELSE b

\* Fault: the first content added to a builder wins.
UpsertKeepsFirst(vs, es) ==
    vs \cup {[doc |-> e.doc, seq |-> e.seq] : e \in {x \in Latest(es) : x.doc \notin DocsOf(vs)}}

\* A builder keeps, of each document, the content added last.
Upsert(vs, es) ==
    {v \in vs : v.doc \notin DocsOf(es)} \cup
    {[doc |-> e.doc, seq |-> e.seq] : e \in Latest(es)}

\* Fault: the error of PutFile is ignored.
PutFileLost(files, key, vs) == files

\* PutFile renames over whatever file has the key.
PutFile(files, key, vs) ==
    [k \in DOMAIN files \cup {key} |-> IF k = key THEN vs ELSE files[k]]

-----------------------------------------------------------------------------
(* What a restart would recover from the disk.                             *)

HighWater == Max(metaSegments \cup {seqFloor})

\* Fault: replay starts one entry too late.
ReplayedFromNext == {e \in wal \cup walSealed : e.seq > HighWater + 1}

\* The entries replay applies.
Replayed == {e \in wal \cup walSealed : e.seq > HighWater}

LastDeleted(es) == {e.doc : e \in {f \in Latest(es) : f.op = "delete"}}

\* Fault: numbering resumes after the log alone, which rotation has emptied.
ResumeAfterLog == 1 + Max({e.seq : e \in wal \cup walSealed} \cup {0})

\* Fault: numbering resumes at the last used number.
ResumeAtLast == Max({e.seq : e \in wal \cup walSealed} \cup {HighWater})

\* The sequence a restarted shard numbers its next entry with.
ResumeSeq == 1 + Max({e.seq : e \in wal \cup walSealed} \cup {HighWater})

\* Manifest tombstones that survive the replayed writes, plus replayed deletes.
ReplayedTombstones ==
    (metaTombstones \ DocsOf(IndexOf(Replayed))) \cup LastDeleted(Replayed)

\* The version of d in the newest segment that holds it (searchAll's recency).
SegmentVersion(segs, d) ==
    LET holders == {f \in segs \cap DOMAIN segFiles : d \in DocsOf(segFiles[f])}
    IN  IF holders = {} THEN Absent
        ELSE (CHOOSE v \in segFiles[Max(holders)] : v.doc = d).seq

\* What a search returns for d: a builder's copy hides the segments' ones, and
\* a tombstone hides all of them.
Visible(d, deleted, buffered, segs) ==
    IF d \in deleted THEN Absent
    ELSE IF d \in DocsOf(buffered)
         THEN (CHOOSE v \in buffered : v.doc = d).seq
         ELSE SegmentVersion(segs, d)

RecoveredVersion(d) ==
    Visible(d, ReplayedTombstones, Upsert({}, IndexOf(Replayed)), metaSegments)

MemoryVersion(d) == Visible(d, tombstones, content[buffer], segRecords)

-----------------------------------------------------------------------------
Init ==
    /\ wal = {} /\ walSealed = {} /\ walBuf = {}
    /\ segFiles = [k \in {} |-> {}]
    /\ metaSegments = {} /\ metaTombstones = {} /\ seqFloor = 0
    /\ up = TRUE /\ nextSeq = 1 /\ mu = NoThread
    /\ buffer \in Builders
    /\ content = [b \in Builders |-> {}]
    /\ bufferDocs = 0
    /\ tombstones = {} /\ segRecords = {}
    /\ freeBuffers = Builders \ {buffer}
    /\ flushing = [b \in Builders |-> NotFlushed]
    /\ pc = [t \in Threads |-> "idle"]
    /\ req = [t \in Threads |-> NoRequest]
    /\ held = [t \in Threads |-> {}]
    /\ last = [d \in Docs |-> [op |-> "none", seq |-> 0]]
    /\ issued = 0 /\ stops = 0

MuFree  == mu = NoThread
NoBackgroundFlush == \A b \in Builders : flushing[b].stage = "none"   \* flushWg
\* Reset is the only request that keeps walMu across steps.
ResetLocked == {"resetWAL", "resetMeta", "resetFloor"}
WalMuFree   == \A t \in Threads : pc[t] \notin ResetLocked

\* Faults: the flush sequence is one behind, one ahead of the last entry.
FlushSeqBehind == nextSeq - 2
FlushSeqAhead  == nextSeq

\* Read under walMu by flushOrSwap and by flushLocked.
FlushSeq == nextSeq - 1

Goto(t, label) == pc' = [pc EXCEPT ![t] = label]
Begin(t, label, r) == Goto(t, label) /\ req' = [req EXCEPT ![t] = r]
Return(t) == Begin(t, "idle", NoRequest)

-----------------------------------------------------------------------------
(* The log: writeWALEntryLocked for each entry, then syncWALLocked.         *)

WriteWAL(es, n) ==
    /\ nextSeq' = nextSeq + n
    /\ IF SyncWAL THEN wal' = wal \cup walBuf \cup es /\ walBuf' = {}
                  ELSE walBuf' = walBuf \cup es /\ UNCHANGED wal
    /\ issued' = MaxNum(issued, nextSeq' - 1)
    /\ last' = [d \in Docs |->
                  IF d \in DocsOf(es)
                  THEN LET e == CHOOSE x \in Latest(es) : x.doc = d
                       IN  [op |-> e.op, seq |-> e.seq]
                  ELSE last[d]]

LogRequest(t, kind, es, n) ==
    /\ up /\ pc[t] = "idle" /\ kind \in Operations /\ WalMuFree
    /\ nextSeq + n <= MaxSeq + 1
    /\ WriteWAL(es, n)
    /\ Begin(t, "apply", [kind |-> kind, entries |-> es, count |-> n, seq |-> 0])
    /\ UNCHANGED <<walSealed, segFiles, metaSegments, metaTombstones, seqFloor,
                   pipeline, searched, process, mu, content, held>>

\* indexDocs, first half: one walMu hold logs the whole batch.
IndexDocs(t) ==
    \E docs \in Batches :
        LogRequest(t, "index", {[seq |-> nextSeq + i - 1, op |-> "index", doc |-> docs[i]] :
                                i \in DOMAIN docs}, Len(docs))

\* DeleteDocument, first half.
DeleteDocument(t) ==
    \E d \in Docs :
        LogRequest(t, "delete", {[seq |-> nextSeq, op |-> "delete", doc |-> d]}, 1)

\* indexDocs with withWAL = false (/index/bulk?wal=off) starts at the buffer.
IndexDocsNoWAL(t) ==
    /\ up /\ pc[t] = "idle" /\ "bulk" \in Operations
    /\ \E docs \in Batches :
          Begin(t, "apply",
                [kind |-> "bulk", count |-> Len(docs), seq |-> 0,
                 entries |-> {[seq |-> Unlogged, op |-> "index", doc |-> docs[i]] :
                              i \in DOMAIN docs}])
    /\ UNCHANGED <<disk, pipeline, searched, log, process, mu, content, held, last>>

\* runWALFlusher's tick, or bufio writing through when it is full.
FlushWALBuffer ==
    /\ up /\ ~SyncWAL /\ walBuf # {} /\ WalMuFree
    /\ \E last_written \in walBuf :
          LET out == {e \in walBuf : e.seq <= last_written.seq}
          IN  wal' = wal \cup out /\ walBuf' = walBuf \ out
    /\ UNCHANGED <<walSealed, segFiles, metaSegments, metaTombstones, seqFloor, nextSeq,
                   issued, pipeline, searched, process, mu, content, pc, req, held, last>>

-----------------------------------------------------------------------------
(* The buffer and the background-flush pipeline.                           *)

\* flushOrSwap with builder b in hand: b becomes the active builder and the
\* full one starts its background flush, with the sequence read under walMu.
Swap(t, b) ==
    /\ buffer' = b
    /\ bufferDocs' = 0
    /\ flushing' = [flushing EXCEPT ![buffer] = [stage |-> "write", seq |-> FlushSeq]]
    /\ Return(t)

\* indexDocs, second half, under one hold of mu: the documents enter the active
\* builder and leave the tombstones; at the threshold, flushOrSwap.
AddDocsToBuffer(t) ==
    LET es == req[t].entries
        n  == bufferDocs + req[t].count
    IN  /\ pc[t] = "apply" /\ req[t].kind \in {"index", "bulk"} /\ MuFree
        /\ tombstones' = tombstones \ DocsOf(es)
        /\ metaTombstones' = metaTombstones \ (DocsOf(es) \cap tombstones)
        /\ content' = [content EXCEPT ![buffer] = Upsert(@, es)]
        /\ last' = [d \in Docs |-> IF req[t].kind = "bulk" /\ d \in DocsOf(es)
                                   THEN [op |-> "unknown", seq |-> 0] ELSE last[d]]
        /\ \/ /\ n < MaxBufferDocs
              /\ bufferDocs' = n
              /\ Return(t)
              /\ UNCHANGED <<buffer, freeBuffers, flushing>>
           \/ /\ n >= MaxBufferDocs
              /\ \E b \in freeBuffers : Swap(t, b) /\ freeBuffers' = freeBuffers \ {b}
           \/ /\ n >= MaxBufferDocs /\ freeBuffers = {}
              /\ bufferDocs' = n
              /\ Goto(t, "await")
              /\ UNCHANGED <<req, buffer, freeBuffers, flushing>>
        /\ UNCHANGED <<wal, walSealed, segFiles, metaSegments, seqFloor, segRecords,
                       log, process, mu, held>>

\* flushOrSwap's slow path: mu is released and the thread blocks on the pool.
TakeBuilder(t) ==
    /\ pc[t] = "await"
    /\ \E b \in freeBuffers :
          /\ freeBuffers' = freeBuffers \ {b}
          /\ held' = [held EXCEPT ![t] = {b}]
    /\ Goto(t, "recheck")
    /\ UNCHANGED <<disk, searched, log, process, mu, content, last, req,
                   buffer, bufferDocs, flushing>>

\* Fault: the unused slot is not returned to the pool.
RecheckKeepsSlot(t) ==
    /\ pc[t] = "recheck" /\ MuFree
    /\ held' = [held EXCEPT ![t] = {}]
    /\ IF bufferDocs < MaxBufferDocs
       THEN Return(t) /\ UNCHANGED <<buffer, bufferDocs, flushing>>
       ELSE \E b \in held[t] : Swap(t, b)
    /\ UNCHANGED <<disk, searched, log, process, mu, content, last, freeBuffers>>

\* With mu again: swap, unless another thread has flushed in the meantime.
Recheck(t) ==
    /\ pc[t] = "recheck" /\ MuFree
    /\ held' = [held EXCEPT ![t] = {}]
    /\ \/ /\ bufferDocs < MaxBufferDocs
          /\ freeBuffers' = freeBuffers \cup held[t]
          /\ Return(t)
          /\ UNCHANGED <<buffer, bufferDocs, flushing>>
       \/ /\ bufferDocs >= MaxBufferDocs
          /\ \E b \in held[t] : Swap(t, b)
          /\ UNCHANGED freeBuffers
    /\ UNCHANGED <<disk, searched, log, process, mu, content, last>>

\* GC waits for the background flushes, empties the pool and closes what it
\* drained, then fills the pool with as many new builders; indexing goes on.
DrainPool(t) ==
    /\ up /\ pc[t] = "idle" /\ "gc" \in Operations /\ NoBackgroundFlush
    /\ held' = [held EXCEPT ![t] = freeBuffers]
    /\ freeBuffers' = {}
    /\ Begin(t, "refill", [NoRequest EXCEPT !.kind = "gc"])
    /\ UNCHANGED <<disk, searched, log, process, mu, content, last,
                   buffer, bufferDocs, flushing>>

RefillPool(t) ==
    /\ pc[t] = "refill"
    /\ freeBuffers' = freeBuffers \cup held[t]
    /\ held' = [held EXCEPT ![t] = {}]
    /\ Return(t)
    /\ UNCHANGED <<disk, searched, log, process, mu, content, last,
                   buffer, bufferDocs, flushing>>

\* runBackgroundFlush writes the segment file and moves it into place ...
BackgroundPutFile(b) ==
    /\ flushing[b].stage = "write"
    /\ segFiles' = PutFile(segFiles, flushing[b].seq, content[b])
    /\ flushing' = [flushing EXCEPT ![b].stage = "register"]
    /\ UNCHANGED <<wal, walSealed, metaSegments, metaTombstones, seqFloor, buffer, bufferDocs,
                   freeBuffers, searched, log, process, mu, content, pc, req, held, last>>

\* ... or fails to: the builder is emptied and goes back to the pool.
BackgroundFlushError(b) ==
    /\ IOErrors
    /\ flushing[b].stage = "write"
    /\ content' = [content EXCEPT ![b] = {}]
    /\ flushing' = [flushing EXCEPT ![b] = NotFlushed]
    /\ freeBuffers' = freeBuffers \cup {b}
    /\ UNCHANGED <<disk, buffer, bufferDocs, searched, log, process, mu, pc, req, held, last>>

\* ... registers it in the manifest ...
BackgroundAddSegment(b) ==
    /\ flushing[b].stage = "register"
    /\ metaSegments' = metaSegments \cup {flushing[b].seq}
    /\ flushing' = [flushing EXCEPT ![b].stage = "publish"]
    /\ UNCHANGED <<wal, walSealed, segFiles, metaTombstones, seqFloor, buffer, bufferDocs,
                   freeBuffers, searched, log, process, mu, content, pc, req, held, last>>

\* Fault: the flush is tried again although it succeeded.
BackgroundPublishRetry(b) ==
    /\ flushing[b].stage = "publish" /\ MuFree
    /\ flushing' = [flushing EXCEPT ![b].stage = "write"]
    /\ UNCHANGED <<disk, buffer, bufferDocs, freeBuffers, searched, log, process, mu, content,
                   pc, req, held, last>>

\* ... and under mu shows it to searches; the builder goes back to the pool.
BackgroundPublish(b) ==
    /\ flushing[b].stage = "publish" /\ MuFree
    /\ segRecords' = segRecords \cup {flushing[b].seq}
    /\ content' = [content EXCEPT ![b] = {}]
    /\ flushing' = [flushing EXCEPT ![b] = NotFlushed]
    /\ freeBuffers' = freeBuffers \cup {b}
    /\ UNCHANGED <<disk, buffer, bufferDocs, tombstones, log, process, mu, pc, req, held, last>>

\* Fault: the tombstone does not reach the manifest.
AddTombstoneInMemory(t) ==
    /\ pc[t] = "apply" /\ req[t].kind = "delete" /\ MuFree
    /\ tombstones' = tombstones \cup DocsOf(req[t].entries)
    /\ Return(t)
    /\ UNCHANGED <<disk, segRecords, pipeline, log, process, mu, content, held, last>>

\* DeleteDocument, second half.
AddTombstone(t) ==
    LET gone == DocsOf(req[t].entries)
    IN  /\ pc[t] = "apply" /\ req[t].kind = "delete" /\ MuFree
        /\ tombstones' = tombstones \cup gone
        /\ metaTombstones' = metaTombstones \cup gone
        /\ Return(t)
        /\ UNCHANGED <<wal, walSealed, segFiles, metaSegments, seqFloor, segRecords,
                       pipeline, log, process, mu, content, held, last>>

-----------------------------------------------------------------------------
(* flushLocked, which Flush and Close call with mu held.                    *)

\* The flush sequence is read; the segment file is written and put in place.
\* Threads go on appending to the log until the rotation.
FlushPutFile(t, kind) ==
    /\ up /\ pc[t] = "idle" /\ kind \in Operations /\ MuFree /\ bufferDocs > 0
    /\ mu' = t
    /\ segFiles' = PutFile(segFiles, FlushSeq, content[buffer])
    /\ Begin(t, "register", [NoRequest EXCEPT !.kind = kind, !.seq = FlushSeq])
    /\ UNCHANGED <<wal, walSealed, metaSegments, metaTombstones, seqFloor,
                   pipeline, searched, log, process, content, held, last>>

\* Fault: the segment is not registered in the manifest before the rotation.
FlushAddSegmentInMemory(t) ==
    /\ pc[t] = "register"
    /\ segRecords' = segRecords \cup {req[t].seq}
    /\ content' = [content EXCEPT ![buffer] = {}]
    /\ bufferDocs' = 0
    /\ Goto(t, "rotate")
    /\ UNCHANGED <<disk, buffer, freeBuffers, flushing, tombstones, log, process, mu, req,
                   held, last>>

FlushAddSegment(t) ==
    /\ pc[t] = "register"
    /\ metaSegments' = metaSegments \cup {req[t].seq}
    /\ segRecords' = segRecords \cup {req[t].seq}
    /\ content' = [content EXCEPT ![buffer] = {}]
    /\ bufferDocs' = 0
    /\ Goto(t, "rotate")
    /\ UNCHANGED <<wal, walSealed, segFiles, metaTombstones, seqFloor, buffer, freeBuffers,
                   flushing, tombstones, log, process, mu, req, held, last>>

\* rotateWALLocked: the active file is sealed, a new one opened, and the sealed
\* one removed, unless os.Remove fails.
RotateWAL(t) ==
    /\ pc[t] = "rotate"
    /\ wal' = {} /\ walBuf' = {}
    /\ walSealed' \in {walSealed, walSealed \cup wal \cup walBuf}
    /\ IF req[t].kind = "close" THEN Goto(t, "closeWAL") /\ UNCHANGED <<mu, req>>
                                ELSE Return(t) /\ mu' = NoThread
    /\ UNCHANGED <<segFiles, metaSegments, metaTombstones, seqFloor, nextSeq, issued,
                   pipeline, searched, process, content, held, last>>

Flush(t) == FlushPutFile(t, "flush")

-----------------------------------------------------------------------------
(* Reset: the wait for background flushes comes before the locks.           *)

ResetWait(t) ==
    /\ up /\ pc[t] = "idle" /\ "reset" \in Operations
    /\ NoBackgroundFlush /\ nextSeq <= MaxSeq
    /\ Begin(t, "resetFiles", [NoRequest EXCEPT !.kind = "reset"])
    /\ UNCHANGED <<disk, pipeline, searched, log, process, mu, content, held, last>>

\* From here on the shard's contents are neither the old ones nor none.
ResetFiles(t) ==
    /\ pc[t] = "resetFiles" /\ MuFree
    /\ mu' = t
    /\ segFiles' = [k \in {} |-> {}]
    /\ last' = [d \in Docs |-> [op |-> "unknown", seq |-> 0]]
    /\ Goto(t, "resetWAL")
    /\ UNCHANGED <<wal, walSealed, metaSegments, metaTombstones, seqFloor,
                   pipeline, searched, log, process, content, req, held>>

ResetWAL(t) ==
    /\ pc[t] = "resetWAL"
    /\ wal' = {} /\ walSealed' = {} /\ walBuf' = {}
    /\ Goto(t, "resetMeta")
    /\ UNCHANGED <<segFiles, metaSegments, metaTombstones, seqFloor, nextSeq, issued,
                   pipeline, searched, process, mu, content, req, held, last>>

ResetMeta(t) ==
    /\ pc[t] = "resetMeta"
    /\ req' = [req EXCEPT ![t].seq = nextSeq]
    /\ nextSeq' = nextSeq + 1
    /\ metaSegments' = {} /\ metaTombstones' = {}
    /\ Goto(t, "resetFloor")
    /\ UNCHANGED <<wal, walSealed, segFiles, seqFloor, walBuf, issued,
                   pipeline, searched, process, mu, content, held, last>>

\* SetSeqFloor, the hook's "reset" entry and the in-memory state.
ResetFloor(t) ==
    /\ pc[t] = "resetFloor"
    /\ seqFloor' = MaxNum(seqFloor, req[t].seq)
    /\ issued' = MaxNum(issued, req[t].seq)
    /\ content' = [content EXCEPT ![buffer] = {}]
    /\ bufferDocs' = 0
    /\ tombstones' = {} /\ segRecords' = {}
    /\ last' = [d \in Docs |-> [op |-> "none", seq |-> 0]]
    /\ mu' = NoThread
    /\ Return(t)
    /\ UNCHANGED <<wal, walSealed, segFiles, metaSegments, metaTombstones, nextSeq, walBuf,
                   buffer, freeBuffers, flushing, process, held>>

-----------------------------------------------------------------------------
(* Shutdown, crash and recovery.                                           *)

\* The process ends; only the files are left.  (nextSeq, like buffer, is
\* meaningless until LoadFromMeta computes it again.)
Stop ==
    /\ up' = FALSE /\ stops' = stops + 1
    /\ walBuf' = {} /\ mu' = NoThread
    /\ content' = [b \in Builders |-> {}]
    /\ bufferDocs' = 0
    /\ tombstones' = {} /\ segRecords' = {}
    /\ freeBuffers' = Builders \ {buffer}
    /\ flushing' = [b \in Builders |-> NotFlushed]
    /\ pc' = [t \in Threads |-> "idle"]
    /\ req' = [t \in Threads |-> NoRequest]
    /\ held' = [t \in Threads |-> {}]
    /\ UNCHANGED <<buffer, nextSeq, issued, walSealed, segFiles, metaSegments, metaTombstones,
                   seqFloor>>

\* An entry that was only in the bufio.Writer is gone, and with it any claim
\* about its document.
Crash ==
    /\ up /\ stops < MaxStops /\ "crash" \in Operations
    /\ Stop
    /\ last' = [d \in Docs |-> IF \E e \in walBuf : e.doc = d
                               THEN [op |-> "unknown", seq |-> 0] ELSE last[d]]
    /\ UNCHANGED wal

\* The server calls Close when its requests have drained; Close waits for the
\* background flushes.
Drained(t) ==
    /\ up /\ stops < MaxStops /\ "close" \in Operations
    /\ NoBackgroundFlush
    /\ \A u \in Threads \ {t} : pc[u] = "idle"

CloseFlush(t) == Drained(t) /\ FlushPutFile(t, "close")

CloseWAL(t) ==
    /\ Drained(t)
    /\ pc[t] = "closeWAL" \/ (pc[t] = "idle" /\ bufferDocs = 0)
    /\ wal' = wal \cup walBuf
    /\ Stop
    /\ UNCHANGED last

\* NewSegmentManager and LoadFromMeta.  Replay drops the manifest tombstone of
\* every document it indexes; a replayed delete goes to memory only.  A sealed
\* file is removed once all of it is covered; its covered entries are dropped
\* here one by one, as no later replay can apply them.
LoadFromMeta ==
    /\ ~up /\ up' = TRUE
    /\ nextSeq' = ResumeSeq
    /\ content' = [content EXCEPT ![buffer] = Upsert({}, IndexOf(Replayed))]
    /\ bufferDocs' = Cardinality(IndexOf(Replayed))
    /\ tombstones' = ReplayedTombstones
    /\ metaTombstones' = metaTombstones \ DocsOf(IndexOf(Replayed))
    /\ segRecords' = metaSegments
    /\ walSealed' = {e \in walSealed : e.seq > HighWater}
    /\ UNCHANGED <<wal, segFiles, metaSegments, seqFloor, walBuf, issued, buffer, freeBuffers,
                   flushing, stops, mu, pc, req, held, last>>

-----------------------------------------------------------------------------
ThreadStep(t) ==
    \/ AddDocsToBuffer(t) \/ TakeBuilder(t) \/ Recheck(t) \/ RefillPool(t)
    \/ AddTombstone(t) \/ FlushAddSegment(t) \/ RotateWAL(t) \/ CloseWAL(t)
    \/ ResetFiles(t) \/ ResetWAL(t) \/ ResetMeta(t) \/ ResetFloor(t)

BackgroundStep(b) ==
    BackgroundPutFile(b) \/ BackgroundFlushError(b) \/ BackgroundAddSegment(b) \/ BackgroundPublish(b)

NewRequest(t) ==
    \/ IndexDocs(t) \/ IndexDocsNoWAL(t) \/ DeleteDocument(t)
    \/ Flush(t) \/ CloseFlush(t) \/ ResetWait(t) \/ DrainPool(t)

\* Between requests nothing happens: the only state the shard may rest in.
Rest == up /\ NoBackgroundFlush /\ (\A t \in Threads : pc[t] = "idle") /\ UNCHANGED vars

Next ==
    \/ \E t \in Threads : NewRequest(t) \/ ThreadStep(t)
    \/ \E b \in Builders : BackgroundStep(b)
    \/ FlushWALBuffer \/ Crash \/ LoadFromMeta \/ Rest

Spec == Init /\ [][Next]_vars

\* A goroutine that can run does run.  A mutex or a channel receive that is
\* enabled again and again is eventually granted: sync.RWMutex hands over to
\* starving waiters and a channel serves its receivers in arrival order.
Fairness ==
    /\ \A t \in Threads : SF_vars(pc[t] # "idle" /\ ThreadStep(t))
    /\ \A b \in Builders : SF_vars(BackgroundStep(b))
    /\ WF_vars(FlushWALBuffer)

FairSpec == Spec /\ Fairness

=============================================================================
