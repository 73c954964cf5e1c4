------------------------- MODULE DurabilityProofs -------------------------
(***************************************************************************)
(* That a shard loses nothing: its files, its numbers, its segments, what  *)
(* a restart brings back, and the durable map it implements.  Each theorem *)
(* states the configurations it is about; outside of them the code loses   *)
(* entries, as the runs of expected violations show.                       *)
(***************************************************************************)
EXTENDS FlushSeqProofs

\* One request at a time.
OneThread == \A t, u \in Threads : t = u

-----------------------------------------------------------------------------
(* Files.                                                                  *)

\* The steps of a Reset once its wait is over.
Resetting == {"resetFiles"} \cup ResetLocked

\* A segment is registered after its file is in place, and a Reset has no
\* background flush beside it.
FilesKept ==
    /\ RegisteredFilesExist
    /\ \A b \in Builders : flushing[b].stage = "register" => flushing[b].seq \in DOMAIN segFiles
    /\ \A t \in Threads :
         /\ pc[t] = "register" => req[t].seq \in DOMAIN segFiles
         /\ pc[t] \in Resetting => NoBackgroundFlush /\ "reset" \in Operations
         /\ pc[t] = "resetFloor" => metaSegments = {}

\* What the steps of the shard that touch no file and start no reset change.
FilesUntouched ==
    /\ DOMAIN segFiles \subseteq DOMAIN segFiles' /\ metaSegments' = metaSegments
    /\ \A b \in Builders : \/ flushing'[b].stage \notin {"register"}
                           \/ flushing'[b] = flushing[b]
    /\ \A b \in Builders : flushing'[b].stage # "none" =>
         flushing[b].stage # "none" \/ \E t \in Threads : pc[t] \in {"apply", "recheck"}
    /\ \A t \in Threads : \/ pc'[t] = pc[t] /\ req'[t] = req[t]
                          \/ pc'[t] \notin {"register"} \cup Resetting /\ pc[t] \notin Resetting

LEMMA FilesUntouchedKeeps ==
    ASSUME FilesKept, FilesUntouched, "reset" \in Operations => OneThread
    PROVE  FilesKept'
<1>1. RegisteredFilesExist'
  BY DEF FilesKept, FilesUntouched, RegisteredFilesExist, Resetting, ResetLocked
<1>2. \A b \in Builders : flushing'[b].stage = "register" => flushing'[b].seq \in DOMAIN segFiles'
  BY DEF FilesKept, FilesUntouched
<1>3. ASSUME NEW t \in Threads, pc'[t] \in Resetting
      PROVE  NoBackgroundFlush' /\ "reset" \in Operations
  <2>1. pc[t] = pc'[t] /\ NoBackgroundFlush /\ "reset" \in Operations
    BY <1>3 DEF FilesKept, FilesUntouched
  <2>2. \A u \in Threads : pc[u] \notin {"apply", "recheck"}
    BY <1>3, <2>1 DEF OneThread, Resetting, ResetLocked
  <2> QED
    BY <2>1, <2>2 DEF FilesUntouched, NoBackgroundFlush
<1>4. \A t \in Threads : /\ pc'[t] = "register" => req'[t].seq \in DOMAIN segFiles'
                         /\ pc'[t] = "resetFloor" => metaSegments' = {}
  BY DEF FilesKept, FilesUntouched, Resetting, ResetLocked
<1> QED
  BY <1>1, <1>2, <1>3, <1>4 DEF FilesKept

\* A file put in place keeps the others.
LEMMA PutFileDomain ==
    ASSUME NEW files, NEW key, NEW vs
    PROVE  DOMAIN PutFile(files, key, vs) = DOMAIN files \cup {key}
BY DEF PutFile

LEMMA NextFiles ==
    ASSUME IndInv, FilesKept, [Next]_vars,
           "reset" \in Operations => OneThread /\ "crash" \notin Operations
    PROVE  FilesKept'
<1>1. TypeOK
  BY DEF IndInv
<1> USE DEF Begin, Goto, Return, Swap, disk, pipeline, searched, log, process
<1>2. ASSUME NEW t \in Threads, NewRequest(t) PROVE FilesKept'
  <2>1. CASE IndexDocs(t) \/ DeleteDocument(t) \/ IndexDocsNoWAL(t) \/ DrainPool(t)
    <3>1. /\ UNCHANGED <<segFiles, metaSegments, flushing>> /\ pc[t] = "idle"
          /\ \E step \in {"apply", "refill"} : pc' = [pc EXCEPT ![t] = step]
          /\ \A u \in Threads \ {t} : req'[u] = req[u]
      <4>1. CASE IndexDocs(t) \/ DeleteDocument(t)
        BY <1>1, <4>1 DEF IndexDocs, DeleteDocument, LogRequest, TypeOK
      <4>2. CASE IndexDocsNoWAL(t)
        BY <1>1, <4>2 DEF IndexDocsNoWAL, TypeOK
      <4>3. CASE DrainPool(t)
        BY <1>1, <4>3 DEF DrainPool, TypeOK
      <4> QED
        BY <2>1, <4>1, <4>2, <4>3
    <3>2. FilesUntouched
      BY <1>1, <3>1 DEF FilesUntouched, TypeOK, Resetting, ResetLocked
    <3> QED
      BY <3>2, FilesUntouchedKeeps
  <2>2. ASSUME NEW kind, FlushPutFile(t, kind) PROVE FilesKept'
    <3>1. /\ DOMAIN segFiles' = DOMAIN segFiles \cup {FlushSeq} /\ pc[t] = "idle"
          /\ pc' = [pc EXCEPT ![t] = "register"] /\ req'[t].seq = FlushSeq
          /\ \A u \in Threads \ {t} : req'[u] = req[u]
          /\ UNCHANGED <<metaSegments, flushing>>
      BY <1>1, <2>2, PutFileDomain DEF FlushPutFile, NoRequest, TypeOK
    <3>2. \A u \in Threads : \/ u = t /\ pc'[u] = "register"
                             \/ u # t /\ pc'[u] = pc[u] /\ req'[u] = req[u]
      BY <1>1, <3>1 DEF TypeOK
    <3> QED
      BY <3>1, <3>2 DEF FilesKept, RegisteredFilesExist, NoBackgroundFlush, Resetting, ResetLocked
  <2>3. CASE ResetWait(t)
    <3>1. /\ pc[t] = "idle" /\ pc' = [pc EXCEPT ![t] = "resetFiles"] /\ "reset" \in Operations
          /\ UNCHANGED <<segFiles, metaSegments, flushing>> /\ NoBackgroundFlush
          /\ \A u \in Threads \ {t} : req'[u] = req[u]
      BY <1>1, <2>3 DEF ResetWait, TypeOK
    <3>2. \A u \in Threads : \/ u = t /\ pc'[u] = "resetFiles"
                             \/ u # t /\ pc'[u] = pc[u] /\ req'[u] = req[u]
      BY <1>1, <3>1 DEF TypeOK
    <3> QED
      BY <3>1, <3>2 DEF FilesKept, RegisteredFilesExist, NoBackgroundFlush, Resetting, ResetLocked
  <2> QED
    BY <1>2, <2>1, <2>2, <2>3 DEF NewRequest, Flush, CloseFlush
<1>3. ASSUME Stop, \A t \in Threads : pc[t] \notin Resetting PROVE FilesKept'
  <2>1. FilesUntouched
    BY <1>3 DEF Stop, FilesUntouched, NotFlushed, Resetting, ResetLocked
  <2> QED
    BY <2>1, FilesUntouchedKeeps
<1>4. ASSUME NEW t \in Threads, ThreadStep(t) PROVE FilesKept'
  <2>1. CASE \/ AddDocsToBuffer(t) \/ TakeBuilder(t) \/ Recheck(t) \/ RefillPool(t)
             \/ AddTombstone(t) \/ RotateWAL(t)
    <3> USE DEF FilesUntouched, TypeOK, Resetting, ResetLocked
    <3>1. CASE AddDocsToBuffer(t)
      <4>1. FilesUntouched
        BY <1>1, <3>1 DEF AddDocsToBuffer
      <4> QED
        BY <4>1, FilesUntouchedKeeps
    <3>2. CASE TakeBuilder(t)
      <4>1. FilesUntouched
        BY <1>1, <3>2 DEF TakeBuilder
      <4> QED
        BY <4>1, FilesUntouchedKeeps
    <3>3. CASE Recheck(t)
      <4>1. FilesUntouched
        BY <1>1, <3>3 DEF Recheck
      <4> QED
        BY <4>1, FilesUntouchedKeeps
    <3>4. CASE RefillPool(t)
      <4>1. FilesUntouched
        BY <1>1, <3>4 DEF RefillPool
      <4> QED
        BY <4>1, FilesUntouchedKeeps
    <3>5. CASE AddTombstone(t)
      <4>1. FilesUntouched
        BY <1>1, <3>5 DEF AddTombstone
      <4> QED
        BY <4>1, FilesUntouchedKeeps
    <3>6. CASE RotateWAL(t)
      <4>1. FilesUntouched
        BY <1>1, <3>6 DEF RotateWAL
      <4> QED
        BY <4>1, FilesUntouchedKeeps
    <3> QED
      BY <2>1, <3>1, <3>2, <3>3, <3>4, <3>5, <3>6
  <2>2. CASE FlushAddSegment(t)
    <3>1. /\ UNCHANGED <<segFiles, flushing, req>> /\ metaSegments' = metaSegments \cup {req[t].seq}
          /\ pc[t] = "register" /\ pc' = [pc EXCEPT ![t] = "rotate"]
      BY <2>2 DEF FlushAddSegment
    <3>2. \A u \in Threads : \/ u = t /\ pc'[u] = "rotate"
                             \/ u # t /\ pc'[u] = pc[u]
      BY <1>1, <3>1 DEF TypeOK
    <3>3. \A u \in Threads : pc[u] # "resetFloor"
      BY <3>1 DEF FilesKept, OneThread, Resetting, ResetLocked
    <3> QED
      BY <3>1, <3>2, <3>3 DEF FilesKept, RegisteredFilesExist, NoBackgroundFlush, Resetting,
                              ResetLocked
  <2>3. CASE CloseWAL(t)
    <3>1. Stop /\ \A u \in Threads : pc[u] \notin Resetting
      BY <2>3 DEF CloseWAL, Drained, Resetting, ResetLocked
    <3> QED
      BY <1>3, <3>1
  <2>4. CASE ResetFiles(t) \/ ResetWAL(t) \/ ResetMeta(t) \/ ResetFloor(t)
    <3>1. pc[t] \in Resetting
      BY <2>4 DEF ResetFiles, ResetWAL, ResetMeta, ResetFloor, Resetting, ResetLocked
    <3>2. NoBackgroundFlush /\ "reset" \in Operations /\ \A u \in Threads : u = t
      BY <3>1 DEF FilesKept, OneThread
    <3>3. flushing' = flushing
      BY <2>4 DEF ResetFiles, ResetWAL, ResetMeta, ResetFloor
    <3>4. CASE ResetFiles(t)
      <4>1. pc'[t] = "resetWAL"
        BY <1>1, <3>4 DEF ResetFiles, TypeOK
      <4> QED
        BY <3>2, <3>3, <4>1 DEF FilesKept, RegisteredFilesExist, NoBackgroundFlush, ResetLocked
    <3>5. CASE ResetWAL(t)
      <4>1. pc'[t] = "resetMeta"
        BY <1>1, <3>5 DEF ResetWAL, TypeOK
      <4> QED
        BY <3>2, <3>3, <4>1 DEF FilesKept, RegisteredFilesExist, NoBackgroundFlush, ResetLocked
    <3>6. CASE ResetMeta(t)
      <4>1. pc'[t] = "resetFloor" /\ metaSegments' = {}
        BY <1>1, <3>6 DEF ResetMeta, TypeOK
      <4> QED
        BY <3>2, <3>3, <4>1 DEF FilesKept, RegisteredFilesExist, NoBackgroundFlush, ResetLocked
    <3>7. CASE ResetFloor(t)
      <4>1. pc'[t] = "idle" /\ metaSegments' = {}
        BY <1>1, <3>7 DEF ResetFloor, TypeOK, FilesKept
      <4> QED
        BY <3>2, <3>3, <4>1 DEF FilesKept, RegisteredFilesExist, NoBackgroundFlush, Resetting,
                                ResetLocked
    <3> QED
      BY <2>4, <3>4, <3>5, <3>6, <3>7
  <2> QED
    BY <1>4, <2>1, <2>2, <2>3, <2>4 DEF ThreadStep
<1>5. ASSUME NEW b \in Builders, BackgroundStep(b) PROVE FilesKept'
  <2>1. CASE BackgroundPutFile(b)
    <3>1. /\ DOMAIN segFiles' = DOMAIN segFiles \cup {flushing[b].seq} /\ flushing[b].stage = "write"
          /\ flushing' = [flushing EXCEPT ![b].stage = "register"]
          /\ UNCHANGED <<metaSegments, pc, req>>
      BY <2>1, PutFileDomain DEF BackgroundPutFile
    <3>2. /\ flushing'[b].seq = flushing[b].seq
          /\ \A c \in Builders \ {b} : flushing'[c] = flushing[c]
      BY <1>1, <3>1 DEF TypeOK, Flushing
    <3> QED
      BY <3>1, <3>2 DEF FilesKept, RegisteredFilesExist, NoBackgroundFlush
  <2>2. CASE BackgroundAddSegment(b)
    <3>1. /\ metaSegments' = metaSegments \cup {flushing[b].seq} /\ flushing[b].stage = "register"
          /\ flushing' = [flushing EXCEPT ![b].stage = "publish"]
          /\ UNCHANGED <<segFiles, pc, req>>
      BY <2>2 DEF BackgroundAddSegment
    <3>2. /\ flushing'[b].stage = "publish"
          /\ \A c \in Builders \ {b} : flushing'[c] = flushing[c]
      BY <1>1, <3>1 DEF TypeOK, Flushing
    <3> QED
      BY <3>1, <3>2 DEF FilesKept, RegisteredFilesExist, NoBackgroundFlush, Resetting, ResetLocked
  <2>3. CASE BackgroundFlushError(b)
    <3>1. FilesUntouched
      BY <1>1, <2>3 DEF BackgroundFlushError, FilesUntouched, NotFlushed, TypeOK
    <3> QED
      BY <3>1, FilesUntouchedKeeps
  <2>4. CASE BackgroundPublish(b)
    <3>1. FilesUntouched
      BY <1>1, <2>4 DEF BackgroundPublish, FilesUntouched, NotFlushed, TypeOK
    <3> QED
      BY <3>1, FilesUntouchedKeeps
  <2> QED
    BY <1>5, <2>1, <2>2, <2>3, <2>4 DEF BackgroundStep
<1>6. CASE Crash
  BY <1>3, <1>6 DEF Crash, FilesKept
<1>7. CASE FlushWALBuffer \/ LoadFromMeta \/ Rest \/ UNCHANGED vars
  <2>1. FilesUntouched
    BY <1>7 DEF FlushWALBuffer, LoadFromMeta, Rest, vars, FilesUntouched
  <2> QED
    BY <2>1, FilesUntouchedKeeps
<1> QED
  BY <1>2, <1>4, <1>5, <1>6, <1>7 DEF Next

\* Every registered segment has its file, except inside a Reset: whatever the
\* threads, flushes and crashes if there is no Reset, and for one thread that
\* does not crash if there is.
THEOREM RegisteredFilesAreThere ==
    ASSUME "reset" \in Operations => OneThread /\ "crash" \notin Operations
    PROVE  Spec => []RegisteredFilesExist
<1>1. Init => FilesKept
  BY DEF Init, FilesKept, RegisteredFilesExist, NotFlushed, Resetting, ResetLocked
<1>2. IndInv /\ FilesKept /\ [Next]_vars => FilesKept'
  BY NextFiles
<1>3. FilesKept => RegisteredFilesExist
  BY DEF FilesKept
<1> QED
  BY <1>1, <1>2, <1>3, InitIndInv, NextIndInv, PTL DEF Spec

-----------------------------------------------------------------------------
(* Numbers.                                                                *)

\* What a restart after a clean shutdown would read; and whether a Reset is between
\* its deletion of the log and the new floor.
Log    == wal \cup walSealed \cup walBuf
Wiping == \E t \in Threads : pc[t] \in ResetLocked

\* A restart would number on from above every number ever assigned.
Remembered ==
    \/ issued <= seqFloor
    \/ \E f \in metaSegments : issued <= f
    \/ \E e \in Log : issued <= e.seq

\* Each thread that is about to empty the log, or has emptied it, has a sequence
\* number in hand that takes the place of what the log remembers.
Numbered ==
    /\ up => issued < nextSeq
    /\ "reset" \notin Operations => nextSeq = issued + 1
    /\ Wiping \/ Remembered
    /\ SyncWAL => walBuf = {}
    /\ \A t \in Threads :
         /\ pc[t] \in {"register", "rotate"} => OneThread
         /\ pc[t] \in {"register", "rotate", "resetFloor"} => issued <= req[t].seq
         /\ pc[t] = "rotate" => req[t].seq \in metaSegments
         /\ pc[t] \in Resetting => "reset" \in Operations
         /\ pc[t] \in ResetLocked => mu = t

\* What the steps that assign no number and shorten no log change.
NumbersUntouched ==
    /\ UNCHANGED <<nextSeq, issued, seqFloor>>
    /\ metaSegments \subseteq metaSegments' /\ Log \subseteq Log'
    /\ walBuf' \subseteq walBuf /\ (up' => up)
    /\ \A t \in Threads :
         /\ pc[t] \in ResetLocked => pc'[t] \in ResetLocked
         /\ \/ pc'[t] = pc[t] /\ req'[t] = req[t] /\ (pc[t] \in ResetLocked => mu' = mu)
            \/ pc'[t] \notin {"register", "rotate"} \cup Resetting

LEMMA NumbersUntouchedKeeps == ASSUME TypeOK, Numbered, NumbersUntouched PROVE Numbered'
<1>1. (up' => issued' < nextSeq') /\ ("reset" \notin Operations => nextSeq' = issued' + 1)
  BY DEF Numbered, NumbersUntouched
<1>2. Wiping' \/ Remembered'
  BY DEF Numbered, NumbersUntouched, Wiping, Remembered
<1>3. SyncWAL => walBuf' = {}
  BY DEF Numbered, NumbersUntouched
<1>4. ASSUME NEW t \in Threads
      PROVE  /\ pc'[t] \in {"register", "rotate"} => OneThread
             /\ pc'[t] \in {"register", "rotate", "resetFloor"} => issued' <= req'[t].seq
             /\ pc'[t] = "rotate" => req'[t].seq \in metaSegments'
             /\ pc'[t] \in Resetting => "reset" \in Operations
             /\ pc'[t] \in ResetLocked => mu' = t
  <2>1. CASE pc'[t] \notin {"register", "rotate"} \cup Resetting
    BY <2>1 DEF Resetting, ResetLocked
  <2>2. CASE pc'[t] = pc[t] /\ req'[t] = req[t] /\ (pc[t] \in ResetLocked => mu' = mu)
    BY <2>2 DEF Numbered, NumbersUntouched
  <2> QED
    BY <2>1, <2>2 DEF NumbersUntouched
<1> QED
  BY <1>1, <1>2, <1>3, <1>4 DEF Numbered

\* A batch names at least one document.
LEMMA BatchLength ==
    ASSUME NEW docs \in Batches
    PROVE  /\ Len(docs) \in Nat \ {0} /\ DOMAIN docs = 1 .. Len(docs)
           /\ \A i \in DOMAIN docs : docs[i] \in Docs
<1>1. docs \in Seq(Docs) /\ docs # <<>>
  BY ConstantsAssumption
<1>2. DOMAIN docs = 1 .. Len(docs) /\ Len(docs) \in Nat /\ \A i \in DOMAIN docs : docs[i] \in Docs
  BY <1>1
<1>3. Len(docs) # 0
  <2>1. SUFFICES ASSUME Len(docs) = 0 PROVE docs = <<>>
    BY <1>1
  <2> QED
    BY <1>1, <1>2, <2>1
<1> QED
  BY <1>2, <1>3

\* A request takes the next numbers, and its last entry holds the last of them.
LEMMA LogRequestNumbers ==
    ASSUME IndInv, Numbered, NEW t \in Threads, NEW kind, NEW es, NEW n \in Nat \ {0},
           \E e \in es : e.seq = nextSeq + n - 1,
           LogRequest(t, kind, es, n)
    PROVE  Numbered'
<1>1. TypeOK
  BY DEF IndInv
<1>2. /\ up /\ up' /\ pc[t] = "idle" /\ issued' = nextSeq + n - 1 /\ issued' \in Nat
      /\ nextSeq' = issued' + 1 /\ issued' < nextSeq'
  <2>1. /\ up /\ up' = up /\ pc[t] = "idle" /\ nextSeq' = nextSeq + n
        /\ issued' = MaxNum(issued, nextSeq' - 1)
    BY DEF LogRequest, WriteWAL, process
  <2>2. issued \in Nat /\ nextSeq \in Nat \ {0} /\ issued < nextSeq
    BY <1>1, <2>1 DEF Numbered, TypeOK
  <2> QED
    BY <2>1, <2>2 DEF MaxNum
<1>3. es \subseteq Log' /\ (SyncWAL => walBuf' = {})
  BY DEF LogRequest, WriteWAL, Log
<1>4. /\ \A u \in Threads \ {t} : pc'[u] = pc[u] /\ req'[u] = req[u]
      /\ pc'[t] = "apply" /\ \A u \in Threads : pc[u] \notin ResetLocked
  BY <1>1 DEF LogRequest, Begin, Goto, TypeOK, WalMuFree
<1>5. ASSUME NEW u \in Threads
      PROVE  /\ pc'[u] \notin {"register", "rotate"} \cup ResetLocked
             /\ pc'[u] \in Resetting => "reset" \in Operations
  <2>1. pc[u] \in {"register", "rotate"} => u = t
    BY DEF Numbered, OneThread
  <2> QED
    BY <1>2, <1>4, <2>1 DEF Numbered, Resetting, ResetLocked
<1>6. Remembered'
  BY <1>2, <1>3 DEF Remembered
<1> QED
  BY <1>2, <1>3, <1>5, <1>6 DEF Numbered, ResetLocked

LEMMA NewRequestNumbers ==
    ASSUME IndInv, Numbered, NEW t \in Threads, NewRequest(t),
           {"flush", "close"} \cap Operations # {} => OneThread
    PROVE  Numbered'
<1>1. TypeOK
  BY DEF IndInv
<1>2. CASE IndexDocs(t)
  <2>1. PICK docs \in Batches :
          LogRequest(t, "index", {[seq |-> nextSeq + i - 1, op |-> "index", doc |-> docs[i]] :
                                  i \in DOMAIN docs}, Len(docs))
    BY <1>2 DEF IndexDocs
  <2>2. Len(docs) \in Nat \ {0} /\ Len(docs) \in DOMAIN docs
    <3>1. Len(docs) \in Nat \ {0} /\ DOMAIN docs = 1 .. Len(docs)
      BY BatchLength
    <3> QED
      BY <3>1
  <2>3. \E e \in {[seq |-> nextSeq + i - 1, op |-> "index", doc |-> docs[i]] : i \in DOMAIN docs} :
          e.seq = nextSeq + Len(docs) - 1
    <3> DEFINE x == [seq |-> nextSeq + Len(docs) - 1, op |-> "index", doc |-> docs[Len(docs)]]
    <3>1. x \in {[seq |-> nextSeq + i - 1, op |-> "index", doc |-> docs[i]] : i \in DOMAIN docs}
      BY <2>2
    <3>2. x.seq = nextSeq + Len(docs) - 1
      OBVIOUS
    <3> QED
      BY <3>1, <3>2
  <2> QED
    BY <2>1, <2>2, <2>3, LogRequestNumbers
<1>3. CASE DeleteDocument(t)
  <2>1. PICK d \in Docs :
          LogRequest(t, "delete", {[seq |-> nextSeq, op |-> "delete", doc |-> d]}, 1)
    BY <1>3 DEF DeleteDocument
  <2>2. \E e \in {[seq |-> nextSeq, op |-> "delete", doc |-> d]} : e.seq = nextSeq + 1 - 1
    BY <1>1 DEF TypeOK
  <2> QED
    BY <2>1, <2>2, LogRequestNumbers
<1> USE DEF Begin, Goto, Return, disk, pipeline, searched, log, process
<1>4. CASE IndexDocsNoWAL(t) \/ DrainPool(t)
  <2>1. NumbersUntouched
    BY <1>1, <1>4 DEF IndexDocsNoWAL, DrainPool, NumbersUntouched, Log, TypeOK, Resetting, ResetLocked
  <2> QED
    BY <1>1, <2>1, NumbersUntouchedKeeps
<1>5. CASE ResetWait(t)
  <2>1. /\ UNCHANGED <<nextSeq, issued, seqFloor, metaSegments, wal, walSealed, walBuf, up, mu>>
        /\ pc[t] = "idle" /\ pc'[t] = "resetFiles" /\ "reset" \in Operations
        /\ \A u \in Threads \ {t} : pc'[u] = pc[u] /\ req'[u] = req[u]
    BY <1>1, <1>5 DEF ResetWait, TypeOK
  <2> QED
    BY <2>1 DEF Numbered, Wiping, Remembered, Log, ResetLocked
<1>6. ASSUME NEW kind \in {"flush", "close"}, FlushPutFile(t, kind) PROVE Numbered'
  <2>1. /\ UNCHANGED <<nextSeq, issued, seqFloor, metaSegments, wal, walSealed, walBuf, up>>
        /\ up /\ pc[t] = "idle" /\ pc'[t] = "register" /\ req'[t].seq = nextSeq - 1
        /\ \A u \in Threads \ {t} : pc'[u] = pc[u] /\ req'[u] = req[u]
        /\ mu = NoThread /\ OneThread
    BY <1>1, <1>6 DEF FlushPutFile, TypeOK, FlushSeq, NoRequest, MuFree
  <2>2. issued <= nextSeq - 1
    BY <1>1, <2>1 DEF Numbered, TypeOK
  <2>3. \A u \in Threads : u = t
    BY <2>1 DEF OneThread
  <2> QED
    BY <2>1, <2>2, <2>3 DEF Numbered, Wiping, Remembered, Log, ResetLocked, Resetting
<1> QED
  BY <1>2, <1>3, <1>4, <1>5, <1>6 DEF NewRequest, Flush, CloseFlush

LEMMA ThreadStepNumbers ==
    ASSUME IndInv, Numbered, NEW t \in Threads, ThreadStep(t)
    PROVE  Numbered'
<1>1. TypeOK
  BY DEF IndInv
<1> USE DEF Begin, Goto, Return, disk, pipeline, searched, log, process, Swap
<1>2. CASE \/ AddDocsToBuffer(t) \/ TakeBuilder(t) \/ Recheck(t) \/ RefillPool(t)
           \/ AddTombstone(t)
  <2> USE DEF NumbersUntouched, Log, TypeOK, Resetting, ResetLocked
  <2>1. CASE AddDocsToBuffer(t)
    <3>1. NumbersUntouched
      BY <1>1, <2>1 DEF AddDocsToBuffer
    <3> QED
      BY <1>1, <3>1, NumbersUntouchedKeeps
  <2>2. CASE TakeBuilder(t)
    <3>1. NumbersUntouched
      BY <1>1, <2>2 DEF TakeBuilder
    <3> QED
      BY <1>1, <3>1, NumbersUntouchedKeeps
  <2>3. CASE Recheck(t)
    <3>1. NumbersUntouched
      BY <1>1, <2>3 DEF Recheck
    <3> QED
      BY <1>1, <3>1, NumbersUntouchedKeeps
  <2>4. CASE RefillPool(t)
    <3>1. NumbersUntouched
      BY <1>1, <2>4 DEF RefillPool
    <3> QED
      BY <1>1, <3>1, NumbersUntouchedKeeps
  <2>5. CASE AddTombstone(t)
    <3>1. NumbersUntouched
      BY <1>1, <2>5 DEF AddTombstone
    <3> QED
      BY <1>1, <3>1, NumbersUntouchedKeeps
  <2> QED
    BY <1>2, <2>1, <2>2, <2>3, <2>4, <2>5
<1>3. CASE FlushAddSegment(t)
  <2>1. /\ UNCHANGED <<nextSeq, issued, seqFloor, wal, walSealed, walBuf, up, mu, req>>
        /\ metaSegments' = metaSegments \cup {req[t].seq}
        /\ pc[t] = "register" /\ pc'[t] = "rotate"
        /\ \A u \in Threads \ {t} : pc'[u] = pc[u]
    BY <1>1, <1>3 DEF FlushAddSegment, TypeOK
  <2>2. \A u \in Threads : u = t
    BY <2>1 DEF OneThread, Numbered
  <2> QED
    BY <2>1, <2>2 DEF Numbered, Wiping, Remembered, Log, ResetLocked, Resetting
<1>4. CASE RotateWAL(t)
  <2>1. /\ UNCHANGED <<nextSeq, issued, seqFloor, metaSegments, up>> /\ walBuf' = {}
        /\ pc[t] = "rotate" /\ pc'[t] \in {"closeWAL", "idle"}
    BY <1>1, <1>4 DEF RotateWAL, TypeOK
  <2>2. \A u \in Threads : u = t
    BY <2>1 DEF OneThread, Numbered
  <2> QED
    BY <2>1, <2>2 DEF Numbered, Remembered, ResetLocked, Resetting
<1>5. CASE CloseWAL(t)
  <2>1. \A u \in Threads : pc[u] \notin Resetting
    BY <1>5 DEF CloseWAL, Drained, Resetting, ResetLocked
  <2>2. NumbersUntouched
    BY <1>5, <2>1 DEF CloseWAL, Stop, NumbersUntouched, Log, Resetting, ResetLocked
  <2> QED
    BY <1>1, <2>2, NumbersUntouchedKeeps
<1>6. ASSUME NEW u \in Threads, u # t, pc[u] \in ResetLocked, pc[t] \in ResetLocked PROVE FALSE
  BY <1>6 DEF Numbered
<1>7. CASE ResetFiles(t)
  <2>1. /\ UNCHANGED <<nextSeq, issued, seqFloor, metaSegments, wal, walSealed, walBuf, up, req>>
        /\ pc[t] = "resetFiles" /\ pc'[t] = "resetWAL" /\ mu = NoThread /\ mu' = t
        /\ \A u \in Threads \ {t} : pc'[u] = pc[u]
    BY <1>1, <1>7 DEF ResetFiles, TypeOK, MuFree
  <2>2. "resetWAL" \in ResetLocked
    BY DEF ResetLocked
  <2>3. \A u \in Threads : pc[u] \notin ResetLocked
    BY <2>1, ConstantsAssumption DEF Numbered
  <2> QED
    BY <2>1, <2>2, <2>3 DEF Numbered, Wiping, Resetting
<1>8. CASE ResetWAL(t)
  <2>1. /\ UNCHANGED <<nextSeq, issued, seqFloor, metaSegments, up, mu, req>>
        /\ pc[t] = "resetWAL" /\ pc'[t] = "resetMeta" /\ walBuf' = {}
        /\ \A u \in Threads \ {t} : pc'[u] = pc[u]
    BY <1>1, <1>8 DEF ResetWAL, TypeOK
  <2> QED
    BY <2>1 DEF Numbered, Wiping, Resetting, ResetLocked
<1>9. CASE ResetMeta(t)
  <2>1. /\ UNCHANGED <<issued, seqFloor, walBuf, up, mu>>
        /\ nextSeq' = nextSeq + 1 /\ req'[t].seq = nextSeq
        /\ \A u \in Threads \ {t} : req'[u] = req[u]
        /\ pc[t] = "resetMeta" /\ pc'[t] = "resetFloor"
        /\ \A u \in Threads \ {t} : pc'[u] = pc[u]
    BY <1>1, <1>9 DEF ResetMeta, TypeOK, Request
  <2>2. up /\ issued < nextSeq /\ nextSeq \in Nat /\ issued \in Nat /\ "reset" \in Operations
    BY <1>1, <2>1 DEF Numbered, IndInv, DownIsCold, TypeOK, Resetting, ResetLocked
  <2>3. \A u \in Threads : pc[u] = "rotate" => u = t
    BY DEF Numbered, OneThread
  <2> QED
    BY <2>1, <2>2, <2>3 DEF Numbered, Wiping, Resetting, ResetLocked
<1>10. CASE ResetFloor(t)
  <2>1. /\ UNCHANGED <<nextSeq, metaSegments, wal, walSealed, walBuf, up>>
        /\ seqFloor' = MaxNum(seqFloor, req[t].seq) /\ issued' = MaxNum(issued, req[t].seq)
        /\ \A u \in Threads \ {t} : req'[u] = req[u]
        /\ pc[t] = "resetFloor" /\ pc'[t] = "idle"
        /\ \A u \in Threads \ {t} : pc'[u] = pc[u]
    BY <1>1, <1>10 DEF ResetFloor, TypeOK
  <2>2. req[t].seq \in Nat /\ seqFloor \in Nat /\ issued \in Nat /\ nextSeq \in Nat
    BY <1>1, RequestTyped DEF TypeOK
  <2>3. issued <= req[t].seq /\ "reset" \in Operations /\ pc[t] \in ResetLocked
    BY <2>1 DEF Numbered, Resetting, ResetLocked
  <2>4. issued' = req[t].seq /\ issued' <= seqFloor'
    BY <2>1, <2>2, <2>3 DEF MaxNum
  <2>5. issued' < nextSeq'
    BY <2>1, <2>2, <2>4 DEF IndInv, Fresh
  <2>6. \A u \in Threads : pc'[u] \notin {"register", "rotate"} \cup ResetLocked
    <3> SUFFICES ASSUME NEW u \in Threads, u # t
                 PROVE  pc[u] \notin {"register", "rotate"} \cup ResetLocked
      BY <2>1 DEF ResetLocked
    <3>1. ~ OneThread
      BY DEF OneThread
    <3> QED
      BY <1>6, <2>3, <3>1 DEF Numbered
  <2> QED
    BY <2>1, <2>3, <2>4, <2>5, <2>6 DEF Numbered, Remembered, Resetting, ResetLocked
<1> QED
  BY <1>2, <1>3, <1>4, <1>5, <1>7, <1>8, <1>9, <1>10 DEF ThreadStep

\* The largest number of the manifest is one of them.
LEMMA HighWaterIsUsed == IndInv => HighWater \in metaSegments \cup {seqFloor}
<1> SUFFICES ASSUME IndInv PROVE HighWater \in metaSegments \cup {seqFloor}
  OBVIOUS
<1>1. metaSegments \cup {seqFloor} \in SUBSET Nat /\ nextSeq \in Nat
  BY DEF IndInv, TypeOK
<1>2. \A k \in metaSegments \cup {seqFloor} : k <= nextSeq
  <2>1. \A k \in metaSegments \cup {seqFloor} : k < nextSeq
    BY DEF IndInv, Fresh
  <2> QED
    BY <1>1, <2>1
<1> QED
  BY <1>1, <1>2, MaxOfBounded DEF HighWater

\* Replay numbers on from what is remembered; while no number is spent on a
\* Reset, that is the number a running shard would assign.
LEMMA LoadFromMetaNumbers == ASSUME IndInv, Numbered, LoadFromMeta PROVE Numbered'
<1>1. TypeOK
  BY DEF IndInv
<1>2. /\ ~up /\ nextSeq' = ResumeSeq /\ walSealed' = {e \in walSealed : e.seq > HighWater}
      /\ UNCHANGED <<wal, metaSegments, seqFloor, walBuf, issued, mu, pc, req>>
  BY DEF LoadFromMeta
<1>3. walBuf = {} /\ \A u \in Threads : pc[u] = "idle"
  BY <1>2 DEF IndInv, DownIsCold
<1>4. Remembered
  BY <1>3 DEF Numbered, Wiping, ResetLocked
<1>5. issued < ResumeSeq
  <2>1. issued \in Nat /\ ResumeSeq \in Nat /\ HighWater \in Nat /\ seqFloor \in Nat
        /\ metaSegments \subseteq Nat /\ HighWater < ResumeSeq
    BY <1>1, HighWaterBounds, ResumeSeqBounds DEF TypeOK
  <2>2. CASE issued <= seqFloor \/ \E f \in metaSegments : issued <= f
    BY <2>1, <2>2, HighWaterBounds
  <2>3. CASE \E e \in Log : issued <= e.seq
    <3>1. PICK e \in wal \cup walSealed : issued <= e.seq
      BY <1>3, <2>3 DEF Log
    <3>2. e.seq < ResumeSeq /\ e.seq \in Nat
      BY <3>1, ResumeSeqBounds, <1>1, SeqTypes
    <3> QED
      BY <2>1, <3>1, <3>2
  <2> QED
    BY <1>4, <2>2, <2>3 DEF Remembered
<1>6. ResumeSeq <= nextSeq
  <2> DEFINE S == {e.seq : e \in wal \cup walSealed} \cup {HighWater}
  <2>1. S \in SUBSET Nat /\ nextSeq \in Nat /\ S # {}
    BY <1>1, HighWaterBounds, SeqTypes DEF TypeOK
  <2>2. \A k \in S : k <= nextSeq /\ k < nextSeq
    <3>1. \A k \in S : k < nextSeq
      BY HighWaterBounds DEF IndInv, Fresh
    <3> QED
      BY <2>1, <3>1
  <2> HIDE DEF S
  <2>3. Max(S) \in S
    BY <2>1, <2>2, MaxOfBounded
  <2>4. ResumeSeq = 1 + Max(S)
    BY DEF ResumeSeq, S
  <2>5. Max(S) \in Nat /\ Max(S) < nextSeq
    BY <2>1, <2>2, <2>3
  <2> QED
    BY <2>1, <2>4, <2>5
<1>7. "reset" \notin Operations => ResumeSeq = issued + 1
  BY <1>1, <1>5, <1>6, ResumeSeqBounds DEF Numbered, TypeOK
<1>8. Remembered'
  <2>1. CASE issued <= seqFloor \/ \E f \in metaSegments : issued <= f
    BY <1>2, <2>1 DEF Remembered
  <2>2. CASE \E e \in Log : issued <= e.seq
    <3>1. PICK e \in wal \cup walSealed : issued <= e.seq
      BY <1>3, <2>2 DEF Log
    <3>2. CASE e \in wal \/ e.seq > HighWater
      BY <1>2, <3>1, <3>2 DEF Remembered, Log
    <3>3. CASE e.seq <= HighWater
      <4>1. issued <= HighWater
        BY <1>1, <3>1, <3>3, HighWaterBounds, SeqTypes DEF TypeOK
      <4> QED
        BY <1>2, <4>1, HighWaterIsUsed DEF Remembered
    <3> QED
      BY <1>1, <3>1, <3>2, <3>3, HighWaterBounds, SeqTypes
  <2> QED
    BY <1>4, <2>1, <2>2 DEF Remembered
<1> QED
  BY <1>2, <1>3, <1>5, <1>7, <1>8 DEF Numbered, Resetting, ResetLocked

LEMMA NextNumbered ==
    ASSUME IndInv, Numbered, [Next]_vars,
           "crash" \in Operations => SyncWAL /\ "reset" \notin Operations,
           {"flush", "close"} \cap Operations # {} => OneThread
    PROVE  Numbered'
<1>1. TypeOK
  BY DEF IndInv
<1>2. CASE Crash
  <2>1. \A u \in Threads : pc[u] \notin Resetting
    BY <1>2 DEF Crash, Numbered
  <2>2. NumbersUntouched
    BY <1>2, <2>1 DEF Crash, Stop, NumbersUntouched, Log, Resetting, ResetLocked, Numbered
  <2> QED
    BY <1>1, <2>2, NumbersUntouchedKeeps
<1>3. CASE FlushWALBuffer
  <2>1. NumbersUntouched
    BY <1>3 DEF FlushWALBuffer, NumbersUntouched, Log, process
  <2> QED
    BY <1>1, <2>1, NumbersUntouchedKeeps
<1>4. ASSUME NEW b \in Builders, BackgroundStep(b) PROVE Numbered'
  <2>1. NumbersUntouched
    BY <1>4 DEF BackgroundStep, BackgroundPutFile, BackgroundFlushError, BackgroundAddSegment,
                BackgroundPublish, NumbersUntouched, Log, disk, log, process
  <2> QED
    BY <1>1, <2>1, NumbersUntouchedKeeps
<1>5. CASE Rest \/ UNCHANGED vars
  <2>1. NumbersUntouched
    BY <1>5 DEF Rest, vars, NumbersUntouched, Log, disk, log, process
  <2> QED
    BY <1>1, <2>1, NumbersUntouchedKeeps
<1> QED
  BY <1>2, <1>3, <1>4, <1>5, NewRequestNumbers, ThreadStepNumbers, LoadFromMetaNumbers DEF Next

\* No number is assigned twice, across Resets and restarts ("WAL sequence numbers
\* never rewind"): with any threads if the log is never rotated, and with one if
\* it is; a crash may come at any point if the log is synced and there is no Reset.
THEOREM NumbersNeverRewind ==
    ASSUME "crash" \in Operations => SyncWAL /\ "reset" \notin Operations,
           {"flush", "close"} \cap Operations # {} => OneThread
    PROVE  Spec => []SeqNeverRewinds
<1>1. Init => Numbered
  BY DEF Init, Numbered, Wiping, Remembered, NotFlushed, Resetting, ResetLocked
<1>2. IndInv /\ Numbered /\ [Next]_vars => Numbered'
  BY NextNumbered
<1>3. IndInv /\ Numbered => SeqNeverRewinds
  BY DEF Numbered, IndInv, TypeOK, SeqNeverRewinds
<1> QED
  BY <1>1, <1>2, <1>3, InitIndInv, NextIndInv, PTL DEF Spec

-----------------------------------------------------------------------------
(* The configurations in which nothing acknowledged is lost.               *)

\* One request at a time, all logged, no failing write; and a crash only where
\* there are neither deletes nor Resets.
Serial ==
    /\ OneThread
    /\ "bulk" \notin Operations /\ IOErrors = FALSE
    /\ "crash" \in Operations => "delete" \notin Operations /\ "reset" \notin Operations

\* A flush is on its way to the manifest.
InFlight(b) == flushing[b].stage \in {"write", "register"}

\* Segments are registered in the order of their flush sequences.
RegistersInOrder ==
    \A f \in metaSegments' \ metaSegments : \A b \in Builders :
        flushing'[b].stage \in {"write", "register"} => flushing[b].seq > f

FlushesInOrder == [][RegistersInOrder]_vars

\* Above the high-water mark; and above every flush that has started, too.
Above(s) == s > seqFloor /\ \A f \in metaSegments : s > f
Young(s) == Above(s) /\ \A b \in Builders : flushing[b].stage # "none" => s > flushing[b].seq

OneEach(vs) == \A v, w \in vs : v.doc = w.doc => v = w

-----------------------------------------------------------------------------
(* Where the builders, the files and the manifest stand.                   *)

\* What a thread between two of its steps may count on.
AtStep ==
    \A t \in Threads :
      /\ pc[t] \in {"await", "recheck"} => bufferDocs > 0
      /\ pc[t] = "register" => /\ bufferDocs > 0 /\ req[t].seq = nextSeq - 1
                               /\ segFiles[req[t].seq] = content[buffer]
      /\ pc[t] = "rotate" => req[t].seq = nextSeq - 1 /\ req[t].seq \in metaSegments
      /\ pc[t] \in {"rotate", "closeWAL"} => bufferDocs = 0
      /\ pc[t] \in {"resetMeta", "resetFloor"} => Log = {}
      /\ pc[t] = "resetFloor" => metaTombstones = {}
      /\ pc[t] = "apply" =>
           /\ req[t].kind \in {"index", "delete"} /\ req[t].count > 0 /\ req[t].entries # {}
           /\ \A e \in req[t].entries : /\ Young(e.seq) /\ e.op = req[t].kind
                                        /\ \A v \in content[buffer] : v.seq < e.seq

\* The active builder holds what is younger than every flush.
Buffered ==
    /\ up => (bufferDocs = 0 <=> content[buffer] = {})
    /\ \A v \in content[buffer] : Young(v.seq)

\* The flushes on their way hold successive stretches of the log.
Flights ==
    \A b \in Builders :
      /\ InFlight(b) => Above(flushing[b].seq) /\ \A v \in content[b] : Above(v.seq)
      /\ flushing[b].stage = "register" => segFiles[flushing[b].seq] = content[b]
      /\ flushing[b].stage = "publish" => flushing[b].seq \in metaSegments
      /\ \A c \in Builders \ {b} :
           flushing[b].stage # "none" /\ flushing[c].stage # "none" =>
             /\ flushing[b].seq # flushing[c].seq
             /\ flushing[b].seq < flushing[c].seq => \A v \in content[c] : v.seq > flushing[b].seq

\* Searches see the registered segments, once published.
Published ==
    up /\ (\A t \in Threads : pc[t] # "resetFloor") =>
      /\ segRecords \subseteq metaSegments
      /\ \A f \in metaSegments :
           f \in segRecords \/ \E b \in Builders : flushing[b].stage = "publish" /\ flushing[b].seq = f

\* A builder or a segment holds one version of a document.
OnePerDoc ==
    /\ \A b \in Builders : OneEach(content[b])
    /\ \A f \in DOMAIN segFiles : OneEach(segFiles[f])

\* What holds of the places versions are in, whatever the log says.
Shape == AtStep /\ Buffered /\ Flights /\ Published /\ OnePerDoc

\* Types, owners, flush sequences and files, from the theorems before.
Base == CoverInv /\ FilesKept

\* The steps that leave the builders, the files and the manifest alone.
ShapeUntouched ==
    /\ UNCHANGED <<segFiles, metaSegments, seqFloor, up, nextSeq, buffer, content, bufferDocs,
                   segRecords, flushing>>
    /\ Log' \subseteq Log
    /\ \A t \in Threads :
         \/ pc'[t] = pc[t] /\ req'[t] = req[t] /\ metaTombstones' = metaTombstones
         \/ pc'[t] \in {"idle", "refill", "resetFiles"} /\ pc[t] # "resetFloor"
         \/ pc[t] = "await" /\ pc'[t] = "recheck"
         \/ pc[t] = "rotate" /\ pc'[t] = "closeWAL"
         \/ pc[t] = "resetWAL" /\ pc'[t] = "resetMeta" /\ Log' = {}

LEMMA ShapeUntouchedKeeps == ASSUME Shape, ShapeUntouched PROVE Shape'
<1>1. AtStep'
  <2> SUFFICES ASSUME NEW t \in Threads
      PROVE  /\ pc'[t] \in {"await", "recheck"} => bufferDocs' > 0
             /\ pc'[t] = "register" => /\ bufferDocs' > 0 /\ req'[t].seq = nextSeq' - 1
                                       /\ segFiles'[req'[t].seq] = content'[buffer']
             /\ pc'[t] = "rotate" => req'[t].seq = nextSeq' - 1 /\ req'[t].seq \in metaSegments'
             /\ pc'[t] \in {"rotate", "closeWAL"} => bufferDocs' = 0
             /\ pc'[t] \in {"resetMeta", "resetFloor"} => Log' = {}
             /\ pc'[t] = "resetFloor" => metaTombstones' = {}
             /\ pc'[t] = "apply" =>
                  /\ req'[t].kind \in {"index", "delete"} /\ req'[t].count > 0
                  /\ req'[t].entries # {}
                  /\ \A e \in req'[t].entries :
                        /\ Young(e.seq)' /\ e.op = req'[t].kind
                        /\ \A v \in content'[buffer'] : v.seq < e.seq
    BY DEF AtStep
  <2>1. \A s : Young(s)' = Young(s)
    BY DEF Young, Above, ShapeUntouched
  <2>2. CASE pc'[t] = pc[t] /\ req'[t] = req[t] /\ metaTombstones' = metaTombstones
    BY <2>1, <2>2 DEF Shape, AtStep, ShapeUntouched
  <2>3. CASE pc'[t] # pc[t] \/ req'[t] # req[t] \/ metaTombstones' # metaTombstones
    BY <2>3 DEF Shape, AtStep, ShapeUntouched
  <2> QED
    BY <2>2, <2>3
<1>2. Buffered' /\ Flights'
  BY DEF Shape, Buffered, Flights, InFlight, Young, Above, ShapeUntouched
<1>3. Published'
  BY DEF Shape, Published, ShapeUntouched
<1>4. OnePerDoc'
  BY DEF Shape, OnePerDoc, OneEach, ShapeUntouched
<1> QED
  BY <1>1, <1>2, <1>3, <1>4 DEF Shape

\* Sequence numbers are naturals.
LEMMA NumberTypes ==
    ASSUME TypeOK
    PROVE  /\ nextSeq \in Nat \ {0} /\ seqFloor \in Nat /\ issued \in Nat /\ bufferDocs \in Nat
           /\ \A f \in metaSegments : f \in Nat
           /\ \A b \in Builders : /\ flushing[b].seq \in Nat
                                  /\ \A v \in content[b] : v.seq \in Nat /\ v \in Version
           /\ \A t \in Threads : /\ req[t].seq \in Nat /\ req[t].count \in Nat
                                 /\ \A e \in req[t].entries : e.seq \in Nat /\ e \in Entry
           /\ \A e \in Log : e.seq \in Nat /\ e \in Entry
           /\ \A f \in DOMAIN segFiles : f \in Nat /\ \A v \in segFiles[f] : v.seq \in Nat /\ v \in Version
BY RequestTyped DEF TypeOK, Version, Flushing, Entry, Log

\* A number not yet assigned is younger than anything.
LEMMA NextIsYoung == ASSUME IndInv, NEW s \in Nat, s >= nextSeq PROVE Young(s)
BY NumberTypes DEF IndInv, Fresh, Young, Above

\* With one thread, no other is between two steps.
LEMMA OnlyOne ==
    ASSUME Serial, NEW t \in Threads, NEW u \in Threads PROVE u = t
BY DEF Serial, OneThread

\* A request that has been logged carries the youngest entries.
LEMMA LogRequestShape ==
    ASSUME Serial, Base, Shape, NEW t \in Threads, NEW kind \in {"index", "delete"}, NEW es, NEW n \in Nat \ {0},
           es # {}, \A e \in es : e.seq \in Nat /\ e.seq >= nextSeq /\ e.op = kind,
           LogRequest(t, kind, es, n)
    PROVE  Shape'
<1>1. TypeOK /\ IndInv
  BY DEF Base, CoverInv, OwnInv, IndInv
<1>2. /\ UNCHANGED <<segFiles, metaSegments, seqFloor, up, buffer, content, bufferDocs, segRecords,
                     flushing>>
      /\ pc[t] = "idle" /\ pc'[t] = "apply"
      /\ req'[t] = [kind |-> kind, entries |-> es, count |-> n, seq |-> 0]
  BY <1>1 DEF LogRequest, Begin, Goto, TypeOK, pipeline, searched, process
<1>3. AtStep'
  <2>1. ASSUME NEW e \in es PROVE Young(e.seq)' /\ \A v \in content[buffer] : v.seq < e.seq
    <3>1. Young(e.seq)
      BY <1>1, NextIsYoung
    <3>2. \A v \in content[buffer] : v.seq \in Nat /\ v.seq < nextSeq
      BY <1>1, NumberTypes DEF Base, CoverInv, Covered, TypeOK
    <3> QED
      BY <1>1, <1>2, <3>1, <3>2, NumberTypes DEF Young, Above
  <2> QED
    BY <1>2, <2>1, OnlyOne DEF AtStep
<1>4. Buffered' /\ Flights'
  BY <1>2 DEF Shape, Buffered, Flights, InFlight, Young, Above
<1>5. Published'
  BY <1>2, OnlyOne DEF Shape, Published
<1>6. OnePerDoc'
  BY <1>2 DEF Shape, OnePerDoc, OneEach
<1> QED
  BY <1>3, <1>4, <1>5, <1>6 DEF Shape

\* The log entries of a batch, the first of them numbered n.
BatchLog(n, docs) == {[seq |-> n + i - 1, op |-> "index", doc |-> docs[i]] : i \in DOMAIN docs}

\* They have numbers of their own, from n on.
LEMMA BatchEntries ==
    ASSUME NEW docs \in Batches, NEW n \in Nat \ {0}
    PROVE  /\ BatchLog(n, docs) # {}
           /\ \A e \in BatchLog(n, docs) : e \in Entry /\ e.seq >= n /\ e.seq < n + Len(docs) /\ e.op = "index"
           /\ \A e, f \in BatchLog(n, docs) : e.seq = f.seq => e = f
<1> DEFINE es == BatchLog(n, docs)
<1>1. Len(docs) \in Nat \ {0} /\ DOMAIN docs = 1 .. Len(docs)
  BY BatchLength
<1>2. 1 \in DOMAIN docs
  BY <1>1
<1>3. \A e \in es : \E i \in DOMAIN docs : e = [seq |-> n + i - 1, op |-> "index", doc |-> docs[i]]
  BY DEF BatchLog
<1>4. \A i \in DOMAIN docs : i \in Nat \ {0} /\ i <= Len(docs)
  BY <1>1
<1>5. es # {}
  BY <1>2 DEF BatchLog
<1>6. \A e \in es : e \in Entry /\ e.seq >= n /\ e.op = "index" /\ e.seq < n + Len(docs)
  BY <1>1, <1>3, <1>4, BatchLength DEF Entry
<1>7. ASSUME NEW e \in es, NEW f \in es, e.seq = f.seq PROVE e = f
  <2>1. PICK i \in DOMAIN docs : e = [seq |-> n + i - 1, op |-> "index", doc |-> docs[i]]
    BY <1>3
  <2>2. PICK j \in DOMAIN docs : f = [seq |-> n + j - 1, op |-> "index", doc |-> docs[j]]
    BY <1>3
  <2>3. i = j
    BY <1>4, <1>7, <2>1, <2>2
  <2> QED
    BY <2>1, <2>2, <2>3
<1> QED
  BY <1>5, <1>6, <1>7

LEMMA FlushPutFileShape ==
    ASSUME Serial, Base, Shape, NEW t \in Threads, NEW kind, FlushPutFile(t, kind)
    PROVE  Shape'
<1>1. TypeOK
  BY DEF Base, CoverInv, OwnInv, IndInv
<1>2. /\ UNCHANGED <<metaSegments, seqFloor, up, nextSeq, buffer, content, bufferDocs, segRecords,
                     flushing>>
      /\ up /\ bufferDocs > 0 /\ segFiles' = PutFile(segFiles, nextSeq - 1, content[buffer])
      /\ pc[t] = "idle" /\ pc'[t] = "register" /\ req'[t].seq = nextSeq - 1
  BY <1>1 DEF FlushPutFile, FlushSeq, Begin, Goto, TypeOK, pipeline, searched, process, log, NoRequest
<1>3. \A f \in DOMAIN segFiles' : \/ f = nextSeq - 1 /\ segFiles'[f] = content[buffer]
                                  \/ f \in DOMAIN segFiles /\ segFiles'[f] = segFiles[f]
  BY <1>2 DEF PutFile
<1>4. /\ segFiles'[nextSeq - 1] = content[buffer]
      /\ \A f \in DOMAIN segFiles : f # nextSeq - 1 => segFiles'[f] = segFiles[f]
  BY <1>2 DEF PutFile
<1>5. AtStep'
  BY <1>2, <1>3, <1>4, OnlyOne DEF AtStep
<1>6. Young(nextSeq - 1)
  <2>1. PICK v \in content[buffer] : Young(v.seq) /\ v.seq \in Nat /\ v.seq < nextSeq
    BY <1>1, <1>2, NumberTypes DEF Shape, Buffered, Base, CoverInv, Covered, TypeOK
  <2> QED
    BY <1>1, <2>1, NumberTypes DEF Young, Above
<1>7. \A b \in Builders : flushing[b].stage = "register" =>
        segFiles'[flushing[b].seq] = segFiles[flushing[b].seq]
  BY <1>1, <1>4, <1>6, NumberTypes DEF Young, Base, FilesKept
<1>8. Buffered' /\ Flights'
  BY <1>2, <1>7 DEF Shape, Buffered, Flights, InFlight, Young, Above
<1>9. Published'
  BY <1>2, OnlyOne DEF Shape, Published
<1>10. OnePerDoc'
  BY <1>1, <1>2, <1>3 DEF Shape, OnePerDoc, OneEach, TypeOK
<1> QED
  BY <1>5, <1>8, <1>9, <1>10 DEF Shape

LEMMA NewRequestShape ==
    ASSUME Serial, Base, Shape, NEW t \in Threads, NewRequest(t) PROVE Shape'
<1>1. TypeOK
  BY DEF Base, CoverInv, OwnInv, IndInv
<1>2. CASE IndexDocs(t)
  <2>1. PICK docs \in Batches : LogRequest(t, "index", BatchLog(nextSeq, docs), Len(docs))
    BY <1>2 DEF IndexDocs, BatchLog
  <2>2. /\ BatchLog(nextSeq, docs) # {} /\ Len(docs) \in Nat \ {0}
        /\ \A e \in BatchLog(nextSeq, docs) : e \in Entry /\ e.seq >= nextSeq /\ e.op = "index"
    BY <1>1, NumberTypes, BatchEntries, BatchLength
  <2> QED
    BY <2>1, <2>2, LogRequestShape DEF Entry
<1>3. CASE DeleteDocument(t)
  <2>1. PICK d \in Docs :
          LogRequest(t, "delete", {[seq |-> nextSeq, op |-> "delete", doc |-> d]}, 1)
    BY <1>3 DEF DeleteDocument
  <2> DEFINE es == {[seq |-> nextSeq, op |-> "delete", doc |-> d]}
  <2>2. es # {} /\ \A e \in es : e.seq \in Nat /\ e.seq >= nextSeq /\ e.op = "delete"
    BY <1>1, NumberTypes
  <2>3. LogRequest(t, "delete", es, 1)
    BY <2>1
  <2> HIDE DEF es
  <2> QED
    BY <2>2, <2>3, LogRequestShape
<1>4. CASE DrainPool(t) \/ ResetWait(t)
  <2>1. ShapeUntouched
    BY <1>1, <1>4, OnlyOne DEF DrainPool, ResetWait, ShapeUntouched, Begin, Goto, Log, TypeOK, disk, pipeline,
                      searched, log, process
  <2> QED
    BY <2>1, ShapeUntouchedKeeps
<1>5. ~ IndexDocsNoWAL(t)
  BY DEF IndexDocsNoWAL, Serial
<1> QED
  BY <1>2, <1>3, <1>4, <1>5, FlushPutFileShape DEF NewRequest, Flush, CloseFlush

-----------------------------------------------------------------------------
(* What a builder holds after an Add.                                      *)

\* A version of a document.
Ver(d, s) == [doc |-> d, seq |-> s]

\* The documents of the entries have their latest version; the others keep theirs.
LEMMA UpsertHolds ==
    ASSUME NEW vs \in SUBSET Version, NEW es \in SUBSET Entry, NEW n \in Nat,
           \A e \in es : e.seq <= n
    PROVE  /\ \A v \in Upsert(vs, es) :
                \/ v \in vs /\ v.doc \notin DocsOf(es)
                \/ \E e \in Latest(es) : e \in es /\ v = Ver(e.doc, e.seq)
           /\ \A v \in vs : v.doc \notin DocsOf(es) => v \in Upsert(vs, es)
           /\ \A e \in Latest(es) : Ver(e.doc, e.seq) \in Upsert(vs, es)
           /\ \A d \in DocsOf(es) : \E e \in Latest(es) : e.doc = d
           /\ DocsOf(Upsert(vs, es)) = DocsOf(vs) \cup DocsOf(es)
<1>1. \A d \in DocsOf(es) : \E e \in Latest(es) : e.doc = d
  BY LatestExists
<1>2. /\ \A v \in Upsert(vs, es) :
           \/ v \in vs /\ v.doc \notin DocsOf(es)
           \/ \E e \in Latest(es) : e \in es /\ v = Ver(e.doc, e.seq)
      /\ \A v \in vs : v.doc \notin DocsOf(es) => v \in Upsert(vs, es)
      /\ \A e \in Latest(es) : Ver(e.doc, e.seq) \in Upsert(vs, es)
  BY DEF Upsert, Ver, Latest
<1>3. \A e \in Latest(es) : Ver(e.doc, e.seq).doc = e.doc /\ e \in es
  BY DEF Ver, Latest
<1>4. DocsOf(Upsert(vs, es)) \subseteq DocsOf(vs) \cup DocsOf(es)
  BY <1>2, <1>3 DEF DocsOf
<1>5. ASSUME NEW d \in DocsOf(vs) \cup DocsOf(es) PROVE d \in DocsOf(Upsert(vs, es))
  <2>1. CASE d \in DocsOf(es)
    <3>1. PICK e \in Latest(es) : e.doc = d
      BY <1>1, <2>1
    <3> QED
      BY <1>2, <1>3, <3>1 DEF DocsOf
  <2>2. CASE d \in DocsOf(vs) /\ d \notin DocsOf(es)
    <3>1. PICK v \in vs : v.doc = d
      BY <2>2 DEF DocsOf
    <3> QED
      BY <1>2, <2>2, <3>1 DEF DocsOf
  <2> QED
    BY <2>1, <2>2
<1> QED
  BY <1>1, <1>2, <1>4, <1>5

\* One version of each.
LEMMA UpsertOneEach ==
    ASSUME NEW vs \in SUBSET Version, NEW es \in SUBSET Entry, NEW n \in Nat,
           \A e \in es : e.seq <= n, OneEach(vs)
    PROVE  OneEach(Upsert(vs, es))
<1> SUFFICES ASSUME NEW v \in Upsert(vs, es), NEW w \in Upsert(vs, es), v.doc = w.doc PROVE v = w
  BY DEF OneEach
<1>1. /\ (v \in vs /\ v.doc \notin DocsOf(es)) \/ \E e \in Latest(es) : v = Ver(e.doc, e.seq)
      /\ (w \in vs /\ w.doc \notin DocsOf(es)) \/ \E e \in Latest(es) : w = Ver(e.doc, e.seq)
  BY UpsertHolds
<1>2. \A e \in Latest(es) : e.doc \in DocsOf(es) /\ Ver(e.doc, e.seq).doc = e.doc
  BY DEF Latest, DocsOf, Ver
<1>3. \A e, f \in Latest(es) : e.doc = f.doc => e.seq = f.seq
  BY DEF Latest, Entry
<1> QED
  BY <1>1, <1>2, <1>3 DEF OneEach

-----------------------------------------------------------------------------
(* Swapping the active builder.                                            *)

\* The full builder holds vs, all of it younger than the flushes on their way.
LEMMA SwapShape ==
    ASSUME Serial, Base, Shape, NEW t \in Threads, NEW b \in Builders,
           b # buffer, content[b] = {}, flushing[b].stage = "none",
           NEW vs \in SUBSET Version, vs # {}, OneEach(vs),
           \A v \in vs : Young(v.seq) /\ v.seq < nextSeq,
           Swap(t, b), content' = [content EXCEPT ![buffer] = vs], pc[t] \in {"apply", "recheck"},
           UNCHANGED <<segFiles, metaSegments, seqFloor, up, nextSeq, segRecords>>
    PROVE  Shape'
<1>1. TypeOK
  BY DEF Base, CoverInv, OwnInv, IndInv
<1>2. /\ buffer' = b /\ bufferDocs' = 0 /\ pc'[t] = "idle" /\ content'[buffer] = vs
      /\ flushing'[buffer] = [stage |-> "write", seq |-> nextSeq - 1]
      /\ \A c \in Builders \ {buffer} : flushing'[c] = flushing[c] /\ content'[c] = content[c]
      /\ buffer \in Builders
  BY <1>1 DEF Swap, Return, Begin, Goto, FlushSeq, TypeOK
<1>3. AtStep'
  BY <1>2, OnlyOne DEF AtStep
<1>4. Buffered'
  BY <1>2 DEF Buffered
<1>5. flushing[buffer].stage = "none"
  BY DEF Base, CoverInv, OwnInv, Owned
<1>6. Young(nextSeq - 1) /\ \A v \in vs : v.seq <= nextSeq - 1
  <2>1. \A v \in vs : v.seq \in Nat
    BY DEF Version
  <2> QED
    BY <1>1, <2>1, NumberTypes DEF Young, Above
<1>7. \A s : Above(s)' = Above(s)
  BY DEF Above
<1>8. Flights'
  <2> SUFFICES ASSUME NEW a \in Builders
      PROVE  /\ InFlight(a)' => Above(flushing[a].seq)' /\ \A v \in content'[a] : Above(v.seq)'
             /\ flushing'[a].stage = "register" => segFiles'[flushing'[a].seq] = content'[a]
             /\ flushing'[a].stage = "publish" => flushing'[a].seq \in metaSegments'
             /\ \A c \in Builders \ {a} :
                  flushing'[a].stage # "none" /\ flushing'[c].stage # "none" =>
                    /\ flushing'[a].seq # flushing'[c].seq
                    /\ flushing'[a].seq < flushing'[c].seq =>
                         \A v \in content'[c] : v.seq > flushing'[a].seq
    BY DEF Flights
  <2>1. CASE a # buffer
    <3>1. /\ InFlight(a)' => Above(flushing[a].seq)' /\ \A v \in content'[a] : Above(v.seq)'
          /\ flushing'[a].stage = "register" => segFiles'[flushing'[a].seq] = content'[a]
          /\ flushing'[a].stage = "publish" => flushing'[a].seq \in metaSegments'
      BY <1>2, <1>7, <2>1 DEF Shape, Flights, InFlight
    <3>2. ASSUME NEW c \in Builders \ {a}, flushing'[a].stage # "none", flushing'[c].stage # "none"
          PROVE  /\ flushing'[a].seq # flushing'[c].seq
                 /\ flushing'[a].seq < flushing'[c].seq =>
                      \A v \in content'[c] : v.seq > flushing'[a].seq
      <4>1. CASE c = buffer
        BY <1>1, <1>2, <1>6, <2>1, <3>2, <4>1, NumberTypes DEF Young
      <4>2. CASE c # buffer
        BY <1>2, <2>1, <3>2, <4>2 DEF Shape, Flights
      <4> QED
        BY <4>1, <4>2
    <3> QED
      BY <3>1, <3>2
  <2>2. CASE a = buffer
    <3>1. /\ InFlight(a)' => Above(flushing[a].seq)' /\ \A v \in content'[a] : Above(v.seq)'
          /\ flushing'[a].stage \notin {"register", "publish"}
      BY <1>2, <1>6, <1>7, <2>2 DEF InFlight, Young
    <3>2. ASSUME NEW c \in Builders \ {a}, flushing'[c].stage # "none"
          PROVE  flushing'[c].seq < flushing'[a].seq /\ flushing'[c].seq \in Nat /\ flushing'[a].seq \in Nat
      BY <1>1, <1>2, <1>6, <2>2, <3>2, NumberTypes DEF Young
    <3> QED
      BY <3>1, <3>2
  <2> QED
    BY <2>1, <2>2
<1>9. Published'
  <2>1. \A u \in Threads : pc[u] # "resetFloor"
    BY OnlyOne
  <2>2. \A c \in Builders : flushing[c].stage = "publish" => flushing'[c] = flushing[c]
    BY <1>2, <1>5
  <2> QED
    BY <2>1, <2>2 DEF Shape, Published
<1>10. OnePerDoc'
  BY <1>2 DEF Shape, OnePerDoc, OneEach
<1> QED
  BY <1>3, <1>4, <1>8, <1>9, <1>10 DEF Shape

\* The documents of a request in the active builder.
LEMMA AddedVersions ==
    ASSUME Base, Shape, NEW t \in Threads, pc[t] = "apply",
           NEW vs, vs = Upsert(content[buffer], req[t].entries)
    PROVE  /\ vs \in SUBSET Version /\ vs # {} /\ OneEach(vs)
           /\ \A v \in vs : Young(v.seq) /\ v.seq < nextSeq
<1>1. TypeOK
  BY DEF Base, CoverInv, OwnInv, IndInv
<1>2. /\ content[buffer] \in SUBSET Version /\ req[t].entries \in SUBSET Entry /\ nextSeq \in Nat
      /\ \A e \in req[t].entries : e.seq < nextSeq
      /\ \A v \in content[buffer] : v.seq < nextSeq
  BY <1>1, RequestTyped DEF TypeOK, Base, CoverInv, OwnInv, IndInv, Fresh, Covered
<1>3. \A e \in req[t].entries : e.seq <= nextSeq
  BY <1>2 DEF Entry
<1>4. vs \in SUBSET Version /\ \A v \in vs : v.seq < nextSeq
  BY <1>2, UpsertType, UpsertCovers
<1>5. OneEach(vs)
  BY <1>1, <1>2, <1>3, UpsertOneEach DEF Shape, OnePerDoc, TypeOK
<1>8. /\ DocsOf(vs) = DocsOf(content[buffer]) \cup DocsOf(req[t].entries)
      /\ \A v \in vs : v \in content[buffer] \/ \E e \in req[t].entries : v = Ver(e.doc, e.seq)
  <2>1. /\ \A v \in Upsert(content[buffer], req[t].entries) :
             \/ v \in content[buffer] /\ v.doc \notin DocsOf(req[t].entries)
             \/ \E e \in Latest(req[t].entries) : e \in req[t].entries /\ v = Ver(e.doc, e.seq)
        /\ DocsOf(Upsert(content[buffer], req[t].entries)) =
             DocsOf(content[buffer]) \cup DocsOf(req[t].entries)
    BY <1>2, <1>3, UpsertHolds
  <2> QED
    BY <2>1
<1>6. vs # {}
  <2>1. PICK e \in req[t].entries : TRUE
    BY DEF Shape, AtStep
  <2>2. e.doc \in DocsOf(vs)
    BY <1>8, <2>1 DEF DocsOf
  <2> QED
    BY <2>2 DEF DocsOf
<1>7. ASSUME NEW v \in vs PROVE Young(v.seq)
  <2>1. CASE v \in content[buffer]
    BY <2>1 DEF Shape, Buffered
  <2>2. CASE \E e \in req[t].entries : v = Ver(e.doc, e.seq)
    BY <2>2 DEF Shape, AtStep, Ver
  <2> QED
    BY <1>8, <2>1, <2>2
<1> QED
  BY <1>4, <1>5, <1>6, <1>7

LEMMA AddDocsToBufferShape ==
    ASSUME Serial, Base, Shape, NEW t \in Threads, AddDocsToBuffer(t) PROVE Shape'
<1> DEFINE vs == Upsert(content[buffer], req[t].entries)
<1>1. TypeOK
  BY DEF Base, CoverInv, OwnInv, IndInv
<1>2. /\ pc[t] = "apply" /\ content' = [content EXCEPT ![buffer] = vs]
      /\ UNCHANGED <<segFiles, metaSegments, seqFloor, up, nextSeq, segRecords, wal, walSealed, walBuf>>
  BY DEF AddDocsToBuffer, log, process
<1>3. /\ vs \in SUBSET Version /\ vs # {} /\ OneEach(vs)
      /\ \A v \in vs : Young(v.seq) /\ v.seq < nextSeq
  BY <1>2, AddedVersions
<1> HIDE DEF vs
<1>4. ASSUME NEW b \in freeBuffers, Swap(t, b) PROVE Shape'
  <2>1. b \in Builders /\ b # buffer /\ content[b] = {} /\ flushing[b].stage = "none"
    BY <1>1, <1>4 DEF TypeOK, Base, CoverInv, OwnInv, Owned
  <2> QED
    BY <1>2, <1>3, <1>4, <2>1, SwapShape
<1>5. CASE /\ bufferDocs' = bufferDocs + req[t].count /\ pc'[t] \in {"idle", "await"}
           /\ UNCHANGED <<buffer, flushing>>
  <2>1. bufferDocs' > 0 /\ up
    BY <1>1, <1>2, <1>5, NumberTypes DEF Shape, AtStep, Base, CoverInv, OwnInv, IndInv, DownIsCold
  <2>2. /\ content'[buffer] = vs /\ \A c \in Builders \ {buffer} : content'[c] = content[c]
        /\ flushing[buffer].stage = "none" /\ buffer \in Builders /\ bufferDocs' # 0
    BY <1>1, <1>2, <2>1, NumberTypes DEF TypeOK, Base, CoverInv, OwnInv, Owned
  <2>3. AtStep'
    BY <1>5, <2>1, OnlyOne DEF AtStep
  <2>4. Buffered'
    BY <1>2, <1>3, <1>5, <2>2 DEF Buffered, Young, Above
  <2>5. Flights'
    BY <1>2, <1>5, <2>2 DEF Shape, Flights, InFlight, Above
  <2>6. Published'
    BY <1>2, <1>5, OnlyOne DEF Shape, Published
  <2>7. OnePerDoc'
    BY <1>2, <1>3, <1>5, <2>2 DEF Shape, OnePerDoc, OneEach
  <2> QED
    BY <2>3, <2>4, <2>5, <2>6, <2>7 DEF Shape
<1> QED
  BY <1>1, <1>4, <1>5 DEF AddDocsToBuffer, Return, Begin, Goto, TypeOK

LEMMA RecheckShape ==
    ASSUME Serial, Base, Shape, NEW t \in Threads, Recheck(t) PROVE Shape'
<1>1. TypeOK
  BY DEF Base, CoverInv, OwnInv, IndInv
<1>2. /\ pc[t] = "recheck" /\ content' = content /\ up
      /\ UNCHANGED <<segFiles, metaSegments, metaTombstones, seqFloor, up, nextSeq, segRecords, wal, walSealed,
                     walBuf>>
  BY DEF Recheck, disk, searched, log, process, Base, CoverInv, OwnInv, IndInv, DownIsCold
<1>3. CASE Return(t) /\ UNCHANGED <<buffer, bufferDocs, flushing>>
  <2>1. ShapeUntouched
    BY <1>1, <1>2, <1>3, OnlyOne DEF ShapeUntouched, Return, Begin, Goto, Log, TypeOK
  <2> QED
    BY <2>1, ShapeUntouchedKeeps
<1>4. ASSUME NEW b \in held[t], Swap(t, b) PROVE Shape'
  <2>1. b \in Builders /\ b # buffer /\ content[b] = {} /\ flushing[b].stage = "none"
    BY <1>1, <1>4 DEF TypeOK, Base, CoverInv, OwnInv, Owned
  <2>2. /\ content[buffer] \in SUBSET Version /\ content[buffer] # {} /\ OneEach(content[buffer])
        /\ \A v \in content[buffer] : Young(v.seq) /\ v.seq < nextSeq
    BY <1>1, <1>2, NumberTypes DEF TypeOK, Shape, AtStep, Buffered, OnePerDoc, Base, CoverInv, Covered
  <2>3. content' = [content EXCEPT ![buffer] = content[buffer]]
    BY <1>1, <1>2 DEF TypeOK
  <2> QED
    BY <1>2, <1>4, <2>1, <2>2, <2>3, SwapShape
<1> QED
  BY <1>3, <1>4 DEF Recheck

-----------------------------------------------------------------------------
(* Background flushes and the explicit flush.                              *)

LEMMA BackgroundPutFileShape ==
    ASSUME Serial, Base, Shape, NEW b \in Builders, BackgroundPutFile(b) PROVE Shape'
<1>1. TypeOK
  BY DEF Base, CoverInv, OwnInv, IndInv
<1>2. /\ UNCHANGED <<metaSegments, metaTombstones, seqFloor, up, nextSeq, buffer, content, bufferDocs,
                     segRecords, pc, req, wal, walSealed, walBuf>>
      /\ flushing[b].stage = "write" /\ flushing'[b].stage = "register"
      /\ \A c \in Builders : /\ flushing'[c].seq = flushing[c].seq
                             /\ flushing'[c].stage # "none" <=> flushing[c].stage # "none"
                             /\ InFlight(c)' <=> InFlight(c)
      /\ \A c \in Builders \ {b} : flushing'[c] = flushing[c]
      /\ segFiles' = PutFile(segFiles, flushing[b].seq, content[b])
  BY <1>1 DEF BackgroundPutFile, searched, log, process, TypeOK, Flushing, InFlight
<1>3. /\ segFiles'[flushing[b].seq] = content[b]
      /\ \A f \in DOMAIN segFiles : f # flushing[b].seq => segFiles'[f] = segFiles[f]
      /\ DOMAIN segFiles' = DOMAIN segFiles \cup {flushing[b].seq}
  BY <1>2 DEF PutFile
<1>4. \A s : (Young(s)' <=> Young(s)) /\ (Above(s)' <=> Above(s))
  BY <1>2 DEF Young, Above
<1>5. AtStep'
  <2>1. ASSUME NEW t \in Threads, pc[t] = "register" PROVE segFiles'[req[t].seq] = content[buffer]
    <3>1. up /\ req[t].seq = nextSeq - 1 /\ segFiles[req[t].seq] = content[buffer]
          /\ content[buffer] # {} /\ req[t].seq \in DOMAIN segFiles
      BY <1>1, <2>1, NumberTypes DEF Shape, AtStep, Buffered, Base, FilesKept, CoverInv, OwnInv, IndInv,
                                      DownIsCold
    <3>2. PICK v \in content[buffer] : v.seq \in Nat /\ v.seq < nextSeq /\ v.seq > flushing[b].seq
      BY <1>1, <1>2, <3>1, NumberTypes DEF Shape, Buffered, Young, Base, CoverInv, Covered, TypeOK
    <3> QED
      BY <1>1, <1>3, <3>1, <3>2, NumberTypes
  <2> QED
    BY <1>2, <1>4, <2>1 DEF Shape, AtStep, Log
<1>6. Buffered'
  BY <1>2, <1>4 DEF Shape, Buffered
<1>7. Flights'
  <2>1. ASSUME NEW c \in Builders, flushing'[c].stage = "register"
        PROVE  segFiles'[flushing'[c].seq] = content'[c]
    <3>1. CASE c = b
      BY <1>2, <1>3, <3>1
    <3>2. CASE c # b
      BY <1>2, <1>3, <2>1, <3>2 DEF Shape, Flights, Base, FilesKept
    <3> QED
      BY <3>1, <3>2
  <2>2. ASSUME NEW c \in Builders, flushing'[c].stage = "publish"
        PROVE  flushing'[c].seq \in metaSegments'
    BY <1>2, <2>2 DEF Shape, Flights
  <2> QED
    BY <1>2, <1>4, <2>1, <2>2 DEF Shape, Flights
<1>8. Published'
  BY <1>2 DEF Shape, Published
<1>9. OnePerDoc'
  BY <1>2, <1>3 DEF Shape, OnePerDoc, OneEach
<1> QED
  BY <1>5, <1>6, <1>7, <1>8, <1>9 DEF Shape

\* The segment is registered before any that was to follow it.
LEMMA RegisteredFirst ==
    ASSUME Base, Shape, NEW b \in Builders, BackgroundAddSegment(b), RegistersInOrder
    PROVE  /\ UNCHANGED <<segFiles, metaTombstones, seqFloor, up, nextSeq, buffer, content, bufferDocs,
                          segRecords, pc, req, wal, walSealed, walBuf, last, tombstones>>
           /\ flushing[b].stage = "register" /\ flushing'[b].stage = "publish"
           /\ metaSegments' = metaSegments \cup {flushing[b].seq}
           /\ \A c \in Builders : /\ flushing'[c].seq = flushing[c].seq
                                  /\ flushing'[c].stage # "none" <=> flushing[c].stage # "none"
                                  /\ InFlight(c)' <=> InFlight(c) /\ c # b
           /\ \A c \in Builders \ {b} : flushing'[c] = flushing[c]
           /\ \A s : (Above(s)' <=> Above(s) /\ s > flushing[b].seq) /\ (Young(s)' <=> Young(s))
           /\ \A c \in Builders : InFlight(c)' =>
                flushing[c].seq > flushing[b].seq /\ \A v \in content[c] : v.seq > flushing[b].seq
<1>1. TypeOK
  BY DEF Base, CoverInv, OwnInv, IndInv
<1>2. /\ UNCHANGED <<segFiles, metaTombstones, seqFloor, up, nextSeq, buffer, content, bufferDocs,
                     segRecords, pc, req, wal, walSealed, walBuf, last, tombstones>>
      /\ flushing[b].stage = "register" /\ flushing'[b].stage = "publish"
      /\ metaSegments' = metaSegments \cup {flushing[b].seq}
      /\ \A c \in Builders : /\ flushing'[c].seq = flushing[c].seq
                             /\ flushing'[c].stage # "none" <=> flushing[c].stage # "none"
                             /\ InFlight(c)' <=> InFlight(c) /\ c # b
      /\ \A c \in Builders \ {b} : flushing'[c] = flushing[c]
  BY <1>1 DEF BackgroundAddSegment, searched, log, process, TypeOK, Flushing, InFlight
<1>3. \A s : (Above(s)' <=> Above(s) /\ s > flushing[b].seq) /\ (Young(s)' <=> Young(s))
  BY <1>2 DEF Young, Above
<1>4. flushing[b].seq \notin metaSegments
  BY <1>1, <1>2, NumberTypes DEF Shape, Flights, InFlight, Above
<1>5. ASSUME NEW c \in Builders, InFlight(c)'
      PROVE  flushing[c].seq > flushing[b].seq /\ \A v \in content[c] : v.seq > flushing[b].seq
  <2>1. flushing[c].seq > flushing[b].seq
    BY <1>2, <1>4, <1>5 DEF RegistersInOrder, InFlight
  <2>2. c # b /\ flushing[c].stage # "none" /\ flushing[b].stage # "none"
    BY <1>2, <1>5 DEF InFlight
  <2> QED
    BY <1>1, <2>1, <2>2, NumberTypes DEF Shape, Flights
<1> QED
  BY <1>2, <1>3, <1>5

LEMMA BackgroundAddSegmentShape ==
    ASSUME Base, Shape, NEW b \in Builders, BackgroundAddSegment(b), RegistersInOrder
    PROVE  Shape'
<1>1. TypeOK
  BY DEF Base, CoverInv, OwnInv, IndInv
<1>2. /\ UNCHANGED <<segFiles, metaTombstones, seqFloor, up, nextSeq, buffer, content, bufferDocs,
                     segRecords, pc, req, wal, walSealed, walBuf>>
      /\ flushing[b].stage = "register" /\ flushing'[b].stage = "publish"
      /\ metaSegments' = metaSegments \cup {flushing[b].seq}
      /\ \A c \in Builders : /\ flushing'[c].seq = flushing[c].seq
                             /\ flushing'[c].stage # "none" <=> flushing[c].stage # "none"
                             /\ InFlight(c)' <=> InFlight(c) /\ c # b
      /\ \A c \in Builders \ {b} : flushing'[c] = flushing[c]
  BY RegisteredFirst
<1>3. \A s : (Above(s)' <=> Above(s) /\ s > flushing[b].seq) /\ (Young(s)' <=> Young(s))
  BY RegisteredFirst
<1>4. \A c \in Builders : InFlight(c)' =>
        flushing[c].seq > flushing[b].seq /\ \A v \in content[c] : v.seq > flushing[b].seq
  BY RegisteredFirst
<1>5. AtStep'
  BY <1>2, <1>3 DEF Shape, AtStep, Log
<1>6. Buffered'
  BY <1>2, <1>3 DEF Shape, Buffered
<1>7. Flights'
  <2>1. ASSUME NEW c \in Builders
        PROVE  /\ InFlight(c)' => Above(flushing[c].seq)' /\ \A v \in content'[c] : Above(v.seq)'
               /\ flushing'[c].stage = "register" => segFiles'[flushing'[c].seq] = content'[c]
               /\ flushing'[c].stage = "publish" => flushing'[c].seq \in metaSegments'
    BY <1>2, <1>3, <1>4 DEF Shape, Flights
  <2>2. ASSUME NEW c \in Builders, NEW a \in Builders \ {c},
               flushing'[c].stage # "none", flushing'[a].stage # "none"
        PROVE  /\ flushing'[c].seq # flushing'[a].seq
               /\ flushing'[c].seq < flushing'[a].seq => \A v \in content'[a] : v.seq > flushing'[c].seq
    BY <1>2, <2>2 DEF Shape, Flights
  <2> QED
    BY <2>1, <2>2 DEF Flights
<1>8. Published'
  BY <1>2 DEF Shape, Published
<1>9. OnePerDoc'
  BY <1>2 DEF Shape, OnePerDoc, OneEach
<1> QED
  BY <1>5, <1>6, <1>7, <1>8, <1>9 DEF Shape

LEMMA BackgroundPublishShape ==
    ASSUME Base, Shape, NEW b \in Builders, BackgroundPublish(b) PROVE Shape'
<1>1. TypeOK
  BY DEF Base, CoverInv, OwnInv, IndInv
<1>2. /\ UNCHANGED <<segFiles, metaSegments, metaTombstones, seqFloor, up, nextSeq, buffer, bufferDocs,
                     pc, req, wal, walSealed, walBuf>>
      /\ flushing[b].stage = "publish" /\ flushing'[b].stage = "none" /\ content'[b] = {}
      /\ segRecords' = segRecords \cup {flushing[b].seq}
      /\ \A c \in Builders \ {b} : flushing'[c] = flushing[c] /\ content'[c] = content[c]
      /\ b # buffer /\ buffer \in Builders
  BY <1>1 DEF BackgroundPublish, disk, log, process, TypeOK, NotFlushed, Base, CoverInv, OwnInv, Owned
<1>3. \A s : (Young(s) => Young(s)') /\ (Above(s)' <=> Above(s))
  BY <1>2 DEF Young, Above
<1>4. AtStep'
  BY <1>2, <1>3 DEF Shape, AtStep, Log
<1>5. Buffered'
  BY <1>2, <1>3 DEF Shape, Buffered
<1>6. Flights'
  BY <1>2, <1>3 DEF Shape, Flights, InFlight
<1>7. Published'
  BY <1>2 DEF Shape, Published, Flights
<1>8. OnePerDoc'
  BY <1>2 DEF Shape, OnePerDoc, OneEach
<1> QED
  BY <1>4, <1>5, <1>6, <1>7, <1>8 DEF Shape

\* An explicit flush registers its segment when none is on its way.
LEMMA FlushAlone ==
    ASSUME Serial, Base, Shape, NEW t \in Threads, FlushAddSegment(t), RegistersInOrder
    PROVE  /\ UNCHANGED <<segFiles, metaTombstones, seqFloor, up, nextSeq, buffer, flushing, req, wal,
                          walSealed, walBuf, last, tombstones>>
           /\ up /\ pc[t] = "register" /\ pc'[t] = "rotate"
           /\ metaSegments' = metaSegments \cup {nextSeq - 1}
           /\ segRecords' = segRecords \cup {nextSeq - 1}
           /\ req[t].seq = nextSeq - 1 /\ nextSeq - 1 \in DOMAIN segFiles
           /\ segFiles[nextSeq - 1] = content[buffer]
           /\ content'[buffer] = {} /\ \A c \in Builders \ {buffer} : content'[c] = content[c]
           /\ bufferDocs' = 0 /\ \A c \in Builders : ~ InFlight(c)
           /\ Young(nextSeq - 1)
<1>1. TypeOK
  BY DEF Base, CoverInv, OwnInv, IndInv
<1>2. /\ UNCHANGED <<segFiles, metaTombstones, seqFloor, up, nextSeq, buffer, flushing, req, wal,
                     walSealed, walBuf, last, tombstones>>
      /\ pc[t] = "register" /\ pc'[t] = "rotate" /\ bufferDocs' = 0
      /\ content'[buffer] = {} /\ \A c \in Builders \ {buffer} : content'[c] = content[c]
      /\ metaSegments' = metaSegments \cup {req[t].seq}
      /\ segRecords' = segRecords \cup {req[t].seq}
  BY <1>1 DEF FlushAddSegment, Goto, log, process, TypeOK
<1>3. /\ up /\ req[t].seq = nextSeq - 1 /\ segFiles[req[t].seq] = content[buffer]
      /\ content[buffer] # {} /\ req[t].seq \in DOMAIN segFiles
  BY <1>1, <1>2, NumberTypes DEF Shape, AtStep, Buffered, Base, FilesKept, CoverInv, OwnInv, IndInv,
                                  DownIsCold
<1>4. Young(nextSeq - 1)
  <2>1. PICK v \in content[buffer] : v.seq \in Nat /\ v.seq < nextSeq /\ Young(v.seq)
    BY <1>1, <1>3, NumberTypes DEF Shape, Buffered, Base, CoverInv, Covered, TypeOK
  <2> QED
    BY <1>1, <2>1, NumberTypes DEF Young, Above
<1>5. ASSUME NEW c \in Builders, InFlight(c) PROVE FALSE
  <2>1. nextSeq - 1 \notin metaSegments
    BY <1>1, <1>4, NumberTypes DEF Young, Above
  <2>2. flushing[c].seq > nextSeq - 1
    BY <1>2, <1>3, <1>5, <2>1 DEF RegistersInOrder, InFlight
  <2>3. flushing[c].seq < nextSeq
    BY DEF Base, CoverInv, OwnInv, IndInv, Fresh
  <2> QED
    BY <1>1, <2>2, <2>3, NumberTypes
<1> QED
  BY <1>2, <1>3, <1>4, <1>5

LEMMA FlushAddSegmentShape ==
    ASSUME Serial, Base, Shape, NEW t \in Threads, FlushAddSegment(t), RegistersInOrder
    PROVE  Shape'
<1>1. TypeOK
  BY DEF Base, CoverInv, OwnInv, IndInv
<1>2. /\ UNCHANGED <<segFiles, metaTombstones, seqFloor, up, nextSeq, buffer, flushing, req, wal,
                     walSealed, walBuf>>
      /\ up /\ pc[t] = "register" /\ pc'[t] = "rotate"
      /\ metaSegments' = metaSegments \cup {nextSeq - 1}
      /\ segRecords' = segRecords \cup {nextSeq - 1}
      /\ req[t].seq = nextSeq - 1 /\ bufferDocs' = 0
  BY FlushAlone
<1>3. /\ content'[buffer] = {} /\ \A c \in Builders \ {buffer} : content'[c] = content[c]
      /\ \A c \in Builders : ~ InFlight(c)
  BY FlushAlone
<1>4. AtStep'
  BY <1>2, OnlyOne DEF AtStep
<1>5. Buffered'
  BY <1>2, <1>3 DEF Buffered
<1>6. Flights'
  BY <1>2, <1>3 DEF Shape, Flights, InFlight, Above
<1>7. Published'
  BY <1>2, OnlyOne DEF Shape, Published
<1>8. OnePerDoc'
  BY <1>2, <1>3 DEF Shape, OnePerDoc, OneEach
<1> QED
  BY <1>4, <1>5, <1>6, <1>7, <1>8 DEF Shape

-----------------------------------------------------------------------------
(* Resets, stops and restarts.                                             *)

LEMMA ResetStepShape ==
    ASSUME Serial, Base, Shape, NEW t \in Threads,
           ResetFiles(t) \/ ResetWAL(t) \/ ResetMeta(t) \/ ResetFloor(t)
    PROVE  Shape'
<1>1. TypeOK /\ buffer \in Builders
  BY DEF Base, CoverInv, OwnInv, IndInv, TypeOK
<1>2. pc[t] \in Resetting
  BY DEF ResetFiles, ResetWAL, ResetMeta, ResetFloor, Resetting, ResetLocked
<1>3. NoBackgroundFlush /\ flushing' = flushing /\ buffer' = buffer
  BY <1>2 DEF Base, FilesKept, ResetFiles, ResetWAL, ResetMeta, ResetFloor, pipeline
<1>4. \A c \in Builders : flushing'[c].stage = "none" /\ ~ InFlight(c)'
  BY <1>3 DEF NoBackgroundFlush, InFlight
<1>5. Flights'
  BY <1>4 DEF Flights
<1> USE DEF Goto, Return, Begin, pipeline, searched, process, log
<1>6. CASE ResetWAL(t)
  <2>1. ShapeUntouched
    BY <1>1, <1>6, OnlyOne DEF ResetWAL, ShapeUntouched, Log, TypeOK
  <2> QED
    BY <2>1, ShapeUntouchedKeeps
<1>7. CASE ResetFiles(t)
  <2>1. pc'[t] = "resetWAL" /\ segFiles' = [k \in {} |-> {}]
        /\ UNCHANGED <<up, bufferDocs, content, metaSegments, seqFloor, segRecords>> /\ pc[t] = "resetFiles"
    BY <1>1, <1>7 DEF ResetFiles, TypeOK
  <2>2. AtStep'
    BY <2>1, OnlyOne DEF AtStep
  <2>3. Buffered' /\ OnePerDoc'
    BY <1>3, <2>1 DEF Shape, Buffered, OnePerDoc, OneEach, Young, Above
  <2>4. Published'
    BY <1>3, <2>1, OnlyOne DEF Shape, Published
  <2> QED
    BY <1>5, <2>2, <2>3, <2>4 DEF Shape
<1>8. CASE ResetMeta(t)
  <2>1. pc'[t] = "resetFloor" /\ metaSegments' = {} /\ metaTombstones' = {} /\ pc[t] = "resetMeta"
        /\ UNCHANGED <<up, bufferDocs, content, seqFloor, segFiles, wal, walSealed, walBuf>>
    BY <1>1, <1>8 DEF ResetMeta, TypeOK
  <2>2. AtStep'
    BY <2>1, OnlyOne DEF Shape, AtStep, Log
  <2>3. Buffered' /\ OnePerDoc'
    BY <1>3, <2>1 DEF Shape, Buffered, OnePerDoc, OneEach, Young, Above
  <2>4. Published'
    BY <2>1 DEF Published
  <2> QED
    BY <1>5, <2>2, <2>3, <2>4 DEF Shape
<1>9. CASE ResetFloor(t)
  <2>1. pc'[t] = "idle" /\ segRecords' = {} /\ pc[t] = "resetFloor" /\ bufferDocs' = 0
        /\ UNCHANGED <<up, segFiles, metaSegments>> /\ content'[buffer] = {}
        /\ \A c \in Builders \ {buffer} : content'[c] = content[c]
    BY <1>1, <1>9 DEF ResetFloor, TypeOK
  <2>2. metaSegments' = {}
    BY <2>1 DEF Base, FilesKept
  <2>3. AtStep'
    BY <2>1, OnlyOne DEF AtStep
  <2>4. Buffered' /\ OnePerDoc'
    BY <1>3, <2>1 DEF Shape, Buffered, OnePerDoc, OneEach
  <2>5. Published'
    BY <2>1, <2>2 DEF Published
  <2> QED
    BY <1>5, <2>3, <2>4, <2>5 DEF Shape
<1> QED
  BY <1>6, <1>7, <1>8, <1>9

LEMMA StopShape == ASSUME Base, Shape, Stop PROVE Shape'
<1>1. /\ up' = FALSE /\ UNCHANGED segFiles
      /\ \A b \in Builders : content'[b] = {} /\ flushing'[b].stage = "none"
      /\ \A t \in Threads : pc'[t] = "idle"
  BY DEF Stop, NotFlushed
<1>2. AtStep' /\ Published'
  BY <1>1 DEF AtStep, Published
<1>3. Flights'
  BY <1>1 DEF Flights, InFlight
<1>4. OnePerDoc'
  BY <1>1 DEF Shape, OnePerDoc, OneEach
<1>5. Buffered'
  <2>1. buffer' = buffer /\ buffer \in Builders
    BY DEF Stop, Base, CoverInv, OwnInv, IndInv, TypeOK
  <2> QED
    BY <1>1, <2>1 DEF Buffered
<1> QED
  BY <1>2, <1>3, <1>4, <1>5 DEF Shape

\* An entry is above the high-water mark if it is above all that makes it up.
LEMMA AboveHighWater == ASSUME IndInv, NEW s \in Nat PROVE Above(s) <=> s > HighWater
BY NumberTypes, HighWaterBounds, HighWaterIsUsed DEF IndInv, Above

\* Replay applies the entries above the high-water mark.
LEMMA ReplayedAbove ==
    ASSUME IndInv
    PROVE  /\ \A e : e \in Replayed <=> e \in wal \cup walSealed /\ Above(e.seq)
           /\ \A e : e \in IndexOf(Replayed) <=> e \in Replayed /\ e.op = "index"
           /\ Replayed \in SUBSET Entry /\ IndexOf(Replayed) \in SUBSET Entry
           /\ \A e \in Replayed : e.seq \in Nat /\ e.seq <= nextSeq
           /\ IsFiniteSet(IndexOf(Replayed))
<1>1. TypeOK /\ wal \cup walSealed \subseteq Log
  BY DEF IndInv, Log
<1>2. \A e : e \in Replayed <=> e \in wal \cup walSealed /\ Above(e.seq)
  BY <1>1, AboveHighWater, NumberTypes DEF Replayed
<1>3. \A e : e \in IndexOf(Replayed) <=> e \in Replayed /\ e.op = "index"
  BY DEF IndexOf
<1>4. Replayed \in SUBSET Entry /\ IndexOf(Replayed) \in SUBSET Entry
  BY <1>1, <1>2, <1>3, NumberTypes
<1>5. \A e \in Replayed : e.seq \in Nat /\ e.seq <= nextSeq
  BY <1>1, <1>2, NumberTypes DEF IndInv, Fresh
<1>6. IsFiniteSet(IndexOf(Replayed))
  <2>1. IsFiniteSet(wal \cup walSealed)
    BY FS_Union DEF IndInv, LogFinite
  <2>2. IndexOf(Replayed) \subseteq wal \cup walSealed
    BY DEF IndexOf, Replayed
  <2> QED
    BY <2>1, <2>2, FS_Subset
<1> QED
  BY <1>2, <1>3, <1>4, <1>5, <1>6

\* What replay leaves in the active builder.
LEMMA ReplayHolds ==
    ASSUME IndInv, NEW vs, vs = Upsert({}, IndexOf(Replayed))
    PROVE  /\ vs \in SUBSET Version /\ OneEach(vs)
           /\ \A v \in vs : \E e \in Latest(IndexOf(Replayed)) :
                e \in IndexOf(Replayed) /\ v = Ver(e.doc, e.seq)
           /\ \A e \in Latest(IndexOf(Replayed)) : Ver(e.doc, e.seq) \in vs
           /\ \A d \in DocsOf(IndexOf(Replayed)) : \E e \in Latest(IndexOf(Replayed)) : e.doc = d
           /\ DocsOf(vs) = DocsOf(IndexOf(Replayed))
           /\ vs = {} <=> IndexOf(Replayed) = {}
<1> DEFINE es == IndexOf(Replayed)
<1>1. /\ es \in SUBSET Entry /\ nextSeq \in Nat /\ \A e \in es : e.seq <= nextSeq
      /\ {} \in SUBSET Version /\ OneEach({})
  BY ReplayedAbove, NumberTypes DEF IndInv, OneEach
<1> HIDE DEF es
<1>2. /\ \A v \in Upsert({}, es) : \/ v \in {} /\ v.doc \notin DocsOf(es)
                                   \/ \E e \in Latest(es) : e \in es /\ v = Ver(e.doc, e.seq)
      /\ \A e \in Latest(es) : Ver(e.doc, e.seq) \in Upsert({}, es)
      /\ \A d \in DocsOf(es) : \E e \in Latest(es) : e.doc = d
      /\ DocsOf(Upsert({}, es)) = DocsOf({}) \cup DocsOf(es)
  BY <1>1, UpsertHolds
<1>3. OneEach(Upsert({}, es)) /\ Upsert({}, es) \in SUBSET Version
  BY <1>1, UpsertOneEach, UpsertType
<1>4. vs = Upsert({}, es) /\ DocsOf({}) = {}
  BY DEF es, DocsOf
<1>5. vs = {} <=> es = {}
  <2>1. (vs = {} <=> DocsOf(vs) = {}) /\ (es = {} <=> DocsOf(es) = {})
    BY DEF DocsOf
  <2> QED
    BY <1>2, <1>4, <2>1
<1> QED
  BY <1>2, <1>3, <1>4, <1>5 DEF es

LEMMA LoadFromMetaShape == ASSUME Base, Shape, LoadFromMeta PROVE Shape'
<1> DEFINE vs == Upsert({}, IndexOf(Replayed))
<1>1. TypeOK /\ IndInv
  BY DEF Base, CoverInv, OwnInv, IndInv
<1>2. /\ UNCHANGED <<segFiles, metaSegments, seqFloor, buffer, flushing, pc, req>> /\ ~ up
      /\ content' = [content EXCEPT ![buffer] = vs] /\ segRecords' = metaSegments
      /\ bufferDocs' = Cardinality(IndexOf(Replayed))
  BY DEF LoadFromMeta
<1>3. /\ vs \in SUBSET Version /\ OneEach(vs)
      /\ \A v \in vs : \E e \in IndexOf(Replayed) : v = Ver(e.doc, e.seq)
      /\ vs = {} <=> IndexOf(Replayed) = {}
  BY <1>1, ReplayHolds
<1> HIDE DEF vs
<1>4. /\ \A b \in Builders : content[b] = {} /\ flushing[b].stage = "none"
      /\ \A t \in Threads : pc[t] = "idle"
  BY <1>1, <1>2 DEF Base, CoverInv, Covered, IndInv, DownIsCold, NotFlushed
<1>5. content'[buffer] = vs /\ \A c \in Builders \ {buffer} : content'[c] = {}
  BY <1>1, <1>2, <1>4 DEF TypeOK
<1>6. AtStep' /\ Published'
  BY <1>2, <1>4 DEF AtStep, Published
<1>7. Buffered'
  <2>1. bufferDocs' = 0 <=> IndexOf(Replayed) = {}
    BY <1>1, <1>2, ReplayedAbove, FS_EmptySet
  <2>2. \A v \in vs : Above(v.seq)
    BY <1>1, <1>3, ReplayedAbove DEF Ver
  <2> QED
    BY <1>2, <1>3, <1>4, <1>5, <2>1, <2>2 DEF Buffered, Young, Above
<1>8. Flights'
  BY <1>2, <1>4 DEF Flights, InFlight
<1>9. OnePerDoc'
  BY <1>2, <1>3, <1>5 DEF Shape, OnePerDoc, OneEach
<1> QED
  BY <1>6, <1>7, <1>8, <1>9 DEF Shape

\* Every step but a registration out of order keeps the shape.
LEMMA NextShape ==
    ASSUME Serial, Base, Shape, [Next /\ RegistersInOrder]_vars PROVE Shape'
<1>1. TypeOK
  BY DEF Base, CoverInv, OwnInv, IndInv
<1>2. ASSUME NEW t \in Threads, ThreadStep(t), RegistersInOrder PROVE Shape'
  <2>1. CASE TakeBuilder(t) \/ RefillPool(t) \/ AddTombstone(t) \/ RotateWAL(t)
    <3> USE DEF ShapeUntouched, Goto, Return, Begin, Log, TypeOK, disk, pipeline, searched, log, process
    <3>1. CASE TakeBuilder(t)
      <4>1. ShapeUntouched
        BY <1>1, <3>1, OnlyOne DEF TakeBuilder
      <4> QED
        BY <4>1, ShapeUntouchedKeeps
    <3>2. CASE RefillPool(t)
      <4>1. ShapeUntouched
        BY <1>1, <3>2, OnlyOne DEF RefillPool
      <4> QED
        BY <4>1, ShapeUntouchedKeeps
    <3>3. CASE AddTombstone(t)
      <4>1. ShapeUntouched
        BY <1>1, <3>3, OnlyOne DEF AddTombstone
      <4> QED
        BY <4>1, ShapeUntouchedKeeps
    <3>4. CASE RotateWAL(t)
      <4>1. ShapeUntouched
        BY <1>1, <3>4, OnlyOne DEF RotateWAL
      <4> QED
        BY <4>1, ShapeUntouchedKeeps
    <3> QED
      BY <2>1, <3>1, <3>2, <3>3, <3>4
  <2>2. CASE CloseWAL(t)
    BY <2>2, StopShape DEF CloseWAL
  <2> QED
    BY <1>2, <2>1, <2>2, AddDocsToBufferShape, RecheckShape, FlushAddSegmentShape, ResetStepShape
    DEF ThreadStep
<1>3. ASSUME NEW b \in Builders, BackgroundStep(b), RegistersInOrder PROVE Shape'
  <2>1. ~ BackgroundFlushError(b)
    BY DEF BackgroundFlushError, Serial
  <2> QED
    BY <1>3, <2>1, BackgroundPutFileShape, BackgroundAddSegmentShape, BackgroundPublishShape
    DEF BackgroundStep
<1>4. CASE FlushWALBuffer \/ Rest \/ UNCHANGED vars
  <2>1. ShapeUntouched
    BY <1>4 DEF FlushWALBuffer, Rest, vars, ShapeUntouched, Log, disk, pipeline, searched, log, process
  <2> QED
    BY <2>1, ShapeUntouchedKeeps
<1>5. Crash => Stop
  BY DEF Crash
<1> QED
  BY <1>2, <1>3, <1>4, <1>5, NewRequestShape, StopShape, LoadFromMetaShape DEF Next

-----------------------------------------------------------------------------
(* What the log entries have become.                                       *)

\* Entry e is in the hands of a request that has logged it.
Pending(e) == \E t \in Threads : pc[t] = "apply" /\ e \in req[t].entries

\* An entry, or a newer one on its document, is among these versions.
Reaches(vs, e) == \E v \in vs : v.doc = e.doc /\ v.seq >= e.seq

\* The oldest flush that covers e holds its document in that version or a later
\* one; so does the active builder, if no flush on its way covers e.
Carried(e) ==
    /\ \A b \in Builders :
         /\ InFlight(b) /\ e.seq <= flushing[b].seq
         /\ \A c \in Builders : InFlight(c) /\ flushing[c].seq < flushing[b].seq => flushing[c].seq < e.seq
         => Reaches(content[b], e)
    /\ (\A b \in Builders : InFlight(b) => flushing[b].seq < e.seq) => Reaches(content[buffer], e)

EntryReaches(e) ==
    /\ ~ Above(e.seq) => \E f \in metaSegments : Reaches(segFiles[f], e)
    /\ Above(e.seq) /\ up /\ ~ Pending(e) => Carried(e)
    /\ Above(e.seq) /\ "delete" \in Operations => up

\* Every indexing entry still in the log has reached a place of its document.
LogReaches == ~ Wiping => \A e \in IndexOf(Log) : EntryReaches(e)

\* The steps that leave the builders and the registered segments alone.
ReachUntouched ==
    /\ UNCHANGED <<metaSegments, seqFloor, up, buffer, content>>
    /\ \A b \in Builders : flushing'[b].seq = flushing[b].seq /\ (InFlight(b)' <=> InFlight(b))
    /\ \A f \in metaSegments : segFiles'[f] = segFiles[f]
    /\ Log' \subseteq Log /\ (Wiping => Wiping')
    /\ \A e \in IndexOf(Log) : Pending(e) => Pending(e)'

LEMMA ReachUntouchedKeeps == ASSUME LogReaches, ReachUntouched PROVE LogReaches'
<1> SUFFICES ASSUME ~ Wiping', NEW e \in IndexOf(Log)' PROVE EntryReaches(e)'
  BY DEF LogReaches
<1>1. e \in IndexOf(Log) /\ EntryReaches(e)
  BY DEF LogReaches, ReachUntouched, IndexOf
<1>2. Above(e.seq)' <=> Above(e.seq)
  BY DEF Above, ReachUntouched
<1>3. Carried(e) => Carried(e)'
  BY DEF Carried, Reaches, ReachUntouched
<1>4. (\E f \in metaSegments : Reaches(segFiles[f], e)) => \E f \in metaSegments' : Reaches(segFiles'[f], e)
  BY DEF ReachUntouched
<1> QED
  BY <1>1, <1>2, <1>3, <1>4 DEF EntryReaches, ReachUntouched

\* The entries of a new request are in its hands.
LEMMA LogRequestReach ==
    ASSUME Serial, Base, LogReaches, NEW t \in Threads, NEW kind, NEW es, NEW n \in Nat \ {0},
           \A e \in es : e.seq \in Nat /\ e.seq >= nextSeq,
           LogRequest(t, kind, es, n)
    PROVE  LogReaches'
<1>1. TypeOK /\ IndInv
  BY DEF Base, CoverInv, OwnInv, IndInv
<1>2. /\ UNCHANGED <<segFiles, metaSegments, seqFloor, up, buffer, content, flushing>>
      /\ pc[t] = "idle" /\ pc'[t] = "apply" /\ req'[t].entries = es
      /\ Log' \subseteq Log \cup es
  BY <1>1 DEF LogRequest, WriteWAL, Begin, Goto, TypeOK, pipeline, searched, process, Log
<1>3. ~ Wiping
  BY <1>2, OnlyOne DEF Wiping, ResetLocked
<1> SUFFICES ASSUME NEW e \in IndexOf(Log)' PROVE EntryReaches(e)'
  BY DEF LogReaches
<1>4. (Above(e.seq)' <=> Above(e.seq)) /\ (Carried(e)' <=> Carried(e))
  BY <1>2 DEF Above, Carried, InFlight
<1>5. CASE e \in es
  <2>1. Above(e.seq)' /\ Pending(e)' /\ up
    BY <1>1, <1>2, <1>4, <1>5, NextIsYoung DEF Young, Pending, LogRequest
  <2> QED
    BY <1>2, <2>1 DEF EntryReaches
<1>6. CASE e \in Log
  <2>1. e \in IndexOf(Log)
    BY <1>6 DEF IndexOf
  <2>2. EntryReaches(e) /\ ~ Pending(e)
    BY <1>2, <1>3, <2>1, OnlyOne DEF LogReaches, Pending
  <2> QED
    BY <1>2, <1>4, <2>2 DEF EntryReaches
<1> QED
  BY <1>2, <1>5, <1>6 DEF IndexOf

\* The active builder becomes vs, which carries what it held and what was pending.
Extends(vs) ==
    \A e \in IndexOf(Log) : Above(e.seq) =>
      /\ Pending(e) => Reaches(vs, e) /\ \A b \in Builders : InFlight(b) => flushing[b].seq < e.seq
      /\ Reaches(content[buffer], e) => Reaches(vs, e)

LEMMA SwapReach ==
    ASSUME Serial, Base, Shape, Shape', LogReaches, NEW t \in Threads, NEW b \in Builders, NEW vs, Extends(vs),
           b # buffer, Swap(t, b), content' = [content EXCEPT ![buffer] = vs],
           pc[t] \in {"apply", "recheck"}, flushing[b].stage = "none",
           UNCHANGED <<segFiles, metaSegments, seqFloor, up, nextSeq, wal, walSealed, walBuf>>
    PROVE  LogReaches'
<1>1. TypeOK
  BY DEF Base, CoverInv, OwnInv, IndInv
<1>2. /\ buffer' = b /\ pc'[t] = "idle" /\ content'[buffer] = vs
      /\ flushing'[buffer].seq = nextSeq - 1 /\ flushing'[buffer].stage = "write"
      /\ \A c \in Builders \ {buffer} : flushing'[c] = flushing[c] /\ content'[c] = content[c]
      /\ buffer \in Builders
  BY <1>1 DEF Swap, Return, Begin, Goto, FlushSeq, TypeOK
<1>3. up /\ ~ Wiping /\ Log' = Log
  BY <1>1, OnlyOne DEF Wiping, ResetLocked, Log, Base, CoverInv, OwnInv, IndInv, DownIsCold
<1>4. flushing[buffer].stage = "none"
  BY DEF Base, CoverInv, OwnInv, Owned
<1>5. \A c \in Builders : InFlight(c) =>
        c # buffer /\ InFlight(c)' /\ flushing'[c].seq = flushing[c].seq /\ flushing[c].seq < nextSeq - 1
  <2>1. \A c \in Builders : InFlight(c) => c # buffer /\ flushing'[c] = flushing[c]
    BY <1>2, <1>4 DEF InFlight
  <2>2. \A c \in Builders : InFlight(c) => flushing[c].seq < nextSeq /\ flushing[c].seq # nextSeq - 1
    BY <1>2, <2>1 DEF InFlight, Shape, Flights, Base, CoverInv, OwnInv, IndInv, Fresh
  <2> QED
    BY <1>1, <2>1, <2>2, NumberTypes DEF InFlight
<1> SUFFICES ASSUME NEW e \in IndexOf(Log) PROVE EntryReaches(e)'
  BY <1>3 DEF LogReaches
<1>6. /\ Above(e.seq)' <=> Above(e.seq)
      /\ EntryReaches(e) /\ e \in Log /\ e.seq < nextSeq /\ e.seq \in Nat /\ nextSeq \in Nat
  BY <1>1, <1>3, NumberTypes DEF Above, LogReaches, IndexOf, Base, CoverInv, OwnInv, IndInv, Fresh, Log
<1>7. ASSUME Above(e.seq) PROVE Carried(e)'
  <2>1. (\A c \in Builders : InFlight(c) => flushing[c].seq < e.seq) => Reaches(vs, e)
    BY <1>3, <1>6, <1>7 DEF EntryReaches, Carried, Extends
  <2>2. ~ (nextSeq - 1 < e.seq) /\ e.seq <= nextSeq - 1
    BY <1>6
  <2>3. ASSUME NEW c \in Builders, InFlight(c)', e.seq <= flushing'[c].seq,
               \A a \in Builders : InFlight(a)' /\ flushing'[a].seq < flushing'[c].seq => flushing'[a].seq < e.seq
        PROVE  Reaches(content'[c], e)
    <3>1. CASE c = buffer
      <4>1. \A a \in Builders : InFlight(a) => flushing[a].seq < e.seq
        BY <1>2, <1>5, <2>3, <3>1
      <4> QED
        BY <1>2, <2>1, <3>1, <4>1
    <3>2. CASE c # buffer
      <4>1. InFlight(c) /\ content'[c] = content[c] /\ e.seq <= flushing[c].seq
        BY <1>2, <2>3, <3>2 DEF InFlight
      <4>2. ~ Pending(e)
        BY <1>1, <1>6, <1>7, <4>1, NumberTypes DEF Extends
      <4>3. \A a \in Builders : InFlight(a) /\ flushing[a].seq < flushing[c].seq => flushing[a].seq < e.seq
        BY <1>2, <1>5, <2>3, <3>2
      <4> QED
        BY <1>3, <1>6, <1>7, <4>1, <4>2, <4>3 DEF EntryReaches, Carried
    <3> QED
      BY <3>1, <3>2
  <2>4. ~ \A c \in Builders : InFlight(c)' => flushing'[c].seq < e.seq
    BY <1>2, <2>2 DEF InFlight
  <2> QED
    BY <2>3, <2>4 DEF Carried
<1> QED
  BY <1>3, <1>6, <1>7 DEF EntryReaches

\* The entries of a request pass to the active builder.
LEMMA AddedExtends ==
    ASSUME Serial, Base, Shape, NEW t \in Threads, pc[t] = "apply",
           NEW vs, vs = Upsert(content[buffer], req[t].entries)
    PROVE  Extends(vs)
<1>1. TypeOK
  BY DEF Base, CoverInv, OwnInv, IndInv
<1> DEFINE es == req[t].entries
<1>2. /\ content[buffer] \in SUBSET Version /\ es \in SUBSET Entry /\ nextSeq \in Nat
      /\ \A e \in es : e.seq <= nextSeq
  BY <1>1, NumberTypes, RequestTyped DEF TypeOK, Base, CoverInv, OwnInv, IndInv, Fresh
<1>3. /\ \A v \in content[buffer] : v.doc \notin DocsOf(es) => v \in vs
      /\ \A x \in Latest(es) : Ver(x.doc, x.seq) \in vs
      /\ \A d \in DocsOf(es) : \E x \in Latest(es) : x.doc = d
  <2> HIDE DEF es
  <2>1. vs = Upsert(content[buffer], es)
    BY DEF es
  <2>2. /\ \A v \in content[buffer] : v.doc \notin DocsOf(es) => v \in Upsert(content[buffer], es)
        /\ \A x \in Latest(es) : Ver(x.doc, x.seq) \in Upsert(content[buffer], es)
        /\ \A d \in DocsOf(es) : \E x \in Latest(es) : x.doc = d
    BY <1>2, UpsertHolds
  <2> QED
    BY <2>1, <2>2
<1>4. \A x \in Latest(es) : \A e \in es : e.doc = x.doc => e.seq <= x.seq
  BY DEF Latest
<1>5. \A x \in Latest(es) : x \in es
  BY DEF Latest
<1>6. \A e \in es : Young(e.seq) /\ \A v \in content[buffer] : v.seq < e.seq
  BY DEF Shape, AtStep
<1> SUFFICES ASSUME NEW e \in IndexOf(Log), Above(e.seq)
    PROVE  /\ Pending(e) => Reaches(vs, e) /\ \A b \in Builders : InFlight(b) => flushing[b].seq < e.seq
           /\ Reaches(content[buffer], e) => Reaches(vs, e)
  BY DEF Extends
<1>7. ASSUME Pending(e)
      PROVE  Reaches(vs, e) /\ \A b \in Builders : InFlight(b) => flushing[b].seq < e.seq
  <2>1. e \in es
    BY <1>7, OnlyOne DEF Pending
  <2>2. PICK x \in Latest(es) : x.doc = e.doc
    BY <1>3, <2>1 DEF DocsOf
  <2>3. Reaches(vs, e)
    BY <1>2, <1>3, <1>4, <2>1, <2>2 DEF Reaches, Ver, Entry
  <2>4. \A b \in Builders : InFlight(b) => flushing[b].seq < e.seq
    BY <1>1, <1>6, <2>1, NumberTypes DEF Young, InFlight
  <2> QED
    BY <2>3, <2>4
<1>8. ASSUME Reaches(content[buffer], e) PROVE Reaches(vs, e)
  <2>1. PICK v \in content[buffer] : v.doc = e.doc /\ v.seq >= e.seq
    BY <1>8 DEF Reaches
  <2>2. CASE v.doc \notin DocsOf(es)
    BY <1>3, <2>1, <2>2 DEF Reaches
  <2>3. CASE v.doc \in DocsOf(es)
    <3>1. PICK x \in Latest(es) : x.doc = v.doc
      BY <1>3, <2>3
    <3>2. x.seq \in Nat /\ v.seq \in Nat /\ e.seq \in Nat /\ v.seq < x.seq
      BY <1>1, <1>2, <1>5, <1>6, <2>1, <3>1, NumberTypes DEF IndexOf, Version, Entry
    <3>3. x.seq >= e.seq /\ Ver(x.doc, x.seq).doc = e.doc /\ Ver(x.doc, x.seq).seq = x.seq
      BY <2>1, <3>1, <3>2 DEF Ver
    <3> QED
      BY <1>3, <3>3 DEF Reaches
  <2> QED
    BY <2>2, <2>3
<1> QED
  BY <1>7, <1>8

LEMMA AddDocsToBufferReach ==
    ASSUME Serial, Base, Shape, Shape', LogReaches, NEW t \in Threads, AddDocsToBuffer(t) PROVE LogReaches'
<1> DEFINE vs == Upsert(content[buffer], req[t].entries)
<1>1. TypeOK
  BY DEF Base, CoverInv, OwnInv, IndInv
<1>2. /\ pc[t] = "apply" /\ content' = [content EXCEPT ![buffer] = vs] /\ buffer \in Builders
      /\ UNCHANGED <<segFiles, metaSegments, seqFloor, up, nextSeq, wal, walSealed, walBuf>>
  BY <1>1 DEF AddDocsToBuffer, log, process, TypeOK
<1>3. Extends(vs)
  BY <1>2, AddedExtends
<1> HIDE DEF vs
<1>4. ASSUME NEW b \in freeBuffers, Swap(t, b) PROVE LogReaches'
  <2>1. b \in Builders /\ b # buffer /\ flushing[b].stage = "none"
    BY <1>1, <1>4 DEF TypeOK, Base, CoverInv, OwnInv, Owned
  <2> QED
    BY <1>2, <1>3, <1>4, <2>1, SwapReach
<1>5. CASE UNCHANGED <<buffer, flushing>>
  <2>1. /\ content'[buffer] = vs /\ \A c \in Builders \ {buffer} : content'[c] = content[c]
        /\ up /\ ~ Wiping /\ ~ InFlight(buffer) /\ Log' = Log
    BY <1>1, <1>2, OnlyOne DEF TypeOK, Base, CoverInv, OwnInv, Owned, IndInv, DownIsCold, InFlight, Log,
                               Wiping, ResetLocked
  <2> SUFFICES ASSUME NEW e \in IndexOf(Log) PROVE EntryReaches(e)'
    BY <2>1 DEF LogReaches
  <2>2. (Above(e.seq)' <=> Above(e.seq)) /\ EntryReaches(e) /\ e.seq \in Nat
    BY <1>1, <1>2, <2>1, NumberTypes DEF Above, LogReaches, IndexOf
  <2>3. ASSUME Above(e.seq) PROVE Carried(e)'
    <3>1. CASE Pending(e)
      <4>1. Reaches(vs, e) /\ \A b \in Builders : InFlight(b) => flushing[b].seq < e.seq
        BY <1>3, <2>3, <3>1 DEF Extends
      <4> QED
        BY <1>1, <1>5, <2>1, <2>2, <4>1, NumberTypes DEF Carried, InFlight
    <3>2. CASE ~ Pending(e)
      <4>1. Carried(e) /\ (Reaches(content[buffer], e) => Reaches(vs, e))
        BY <1>3, <2>1, <2>2, <2>3, <3>2 DEF Extends, EntryReaches
      <4> QED
        BY <1>5, <2>1, <4>1 DEF Carried, InFlight
    <3> QED
      BY <3>1, <3>2
  <2> QED
    BY <1>2, <2>1, <2>2, <2>3 DEF EntryReaches
<1> QED
  BY <1>4, <1>5 DEF AddDocsToBuffer

LEMMA RecheckReach ==
    ASSUME Serial, Base, Shape, Shape', LogReaches, NEW t \in Threads, Recheck(t) PROVE LogReaches'
<1>1. TypeOK
  BY DEF Base, CoverInv, OwnInv, IndInv
<1>2. /\ pc[t] = "recheck" /\ content' = content
      /\ UNCHANGED <<segFiles, metaSegments, seqFloor, up, nextSeq, wal, walSealed, walBuf>>
  BY DEF Recheck, disk, log, process
<1>3. \A e : ~ Pending(e)
  BY <1>2, OnlyOne DEF Pending
<1>4. CASE UNCHANGED <<buffer, flushing>>
  <2>1. ReachUntouched
    BY <1>2, <1>3, <1>4, OnlyOne DEF ReachUntouched, Log, InFlight, Wiping, ResetLocked
  <2> QED
    BY <2>1, ReachUntouchedKeeps
<1>5. ASSUME NEW b \in held[t], Swap(t, b) PROVE LogReaches'
  <2>1. b \in Builders /\ b # buffer /\ flushing[b].stage = "none"
    BY <1>1, <1>5 DEF TypeOK, Base, CoverInv, OwnInv, Owned
  <2>2. Extends(content[buffer])
    BY <1>3 DEF Extends
  <2>3. content' = [content EXCEPT ![buffer] = content[buffer]]
    BY <1>1, <1>2 DEF TypeOK
  <2> QED
    BY <1>2, <1>5, <2>1, <2>2, <2>3, SwapReach
<1> QED
  BY <1>4, <1>5 DEF Recheck

LEMMA BackgroundStepReach ==
    ASSUME Serial, Base, Shape, LogReaches, NEW b \in Builders, BackgroundStep(b), RegistersInOrder
    PROVE  LogReaches'
<1>1. TypeOK
  BY DEF Base, CoverInv, OwnInv, IndInv
<1>2. CASE BackgroundPutFile(b)
  <2>1. /\ UNCHANGED <<metaSegments, seqFloor, up, buffer, content, pc, req, wal, walSealed, walBuf>>
        /\ \A c \in Builders : flushing'[c].seq = flushing[c].seq /\ (InFlight(c)' <=> InFlight(c))
        /\ flushing[b].stage = "write"
        /\ segFiles' = PutFile(segFiles, flushing[b].seq, content[b])
    BY <1>1, <1>2 DEF BackgroundPutFile, log, process, InFlight, TypeOK, Flushing
  <2>2. \A f \in metaSegments : f # flushing[b].seq
    BY <1>1, <2>1, NumberTypes DEF Shape, Flights, InFlight, Above
  <2>3. ~ Wiping => \A f \in metaSegments : segFiles'[f] = segFiles[f]
    BY <2>1, <2>2 DEF PutFile, Wiping, Base, FilesKept, RegisteredFilesExist
  <2>4. ~ Wiping => ReachUntouched
    BY <2>1, <2>3 DEF ReachUntouched, Log, Wiping, Pending
  <2>5. Wiping' <=> Wiping
    BY <2>1 DEF Wiping
  <2> QED
    BY <2>4, <2>5, ReachUntouchedKeeps DEF LogReaches
<1>3. CASE BackgroundAddSegment(b)
  <2>1. /\ UNCHANGED <<segFiles, seqFloor, up, buffer, content, pc, req, wal, walSealed, walBuf>>
        /\ flushing[b].stage = "register" /\ metaSegments' = metaSegments \cup {flushing[b].seq}
        /\ \A c \in Builders : flushing'[c].seq = flushing[c].seq /\ (InFlight(c)' <=> InFlight(c) /\ c # b)
        /\ \A s : (Above(s)' <=> Above(s) /\ s > flushing[b].seq) /\ (Young(s)' <=> Young(s))
        /\ \A c \in Builders : InFlight(c)' => flushing[c].seq > flushing[b].seq
    BY <1>3, RegisteredFirst
  <2>2. up /\ InFlight(b) /\ segFiles[flushing[b].seq] = content[b]
    BY <2>1 DEF Base, CoverInv, OwnInv, IndInv, DownIsCold, NotFlushed, InFlight, Shape, Flights
  <2> SUFFICES ASSUME ~ Wiping, NEW e \in IndexOf(Log) PROVE EntryReaches(e)'
    BY <2>1 DEF LogReaches, Wiping, Log
  <2>3. EntryReaches(e) /\ e.seq \in Nat /\ flushing[b].seq \in Nat /\ \A c \in Builders : flushing[c].seq \in Nat
    BY <1>1, NumberTypes DEF LogReaches, IndexOf
  <2>4. Pending(e)' <=> Pending(e)
    BY <2>1 DEF Pending
  <2>5. Pending(e) => e.seq > flushing[b].seq
    BY <2>1 DEF Pending, Shape, AtStep, Young
  <2>6. CASE ~ Above(e.seq)
    <3>1. PICK f \in metaSegments : Reaches(segFiles[f], e)
      BY <2>3, <2>6 DEF EntryReaches
    <3> QED
      BY <2>1, <2>2, <2>6, <3>1 DEF EntryReaches
  <2>7. CASE Above(e.seq) /\ e.seq <= flushing[b].seq
    <3>1. Carried(e)
      BY <2>2, <2>3, <2>5, <2>7 DEF EntryReaches
    <3>2. \A c \in Builders : InFlight(c) /\ flushing[c].seq < flushing[b].seq => flushing[c].seq < e.seq
      BY <2>1, <2>3
    <3>3. Reaches(content[b], e)
      BY <2>2, <2>7, <3>1, <3>2 DEF Carried
    <3>4. ~ Above(e.seq)'
      BY <2>1, <2>3, <2>7
    <3> QED
      BY <2>1, <2>2, <3>3, <3>4 DEF EntryReaches
  <2>8. CASE Above(e.seq) /\ e.seq > flushing[b].seq
    <3>1. ASSUME ~ Pending(e) PROVE Carried(e)'
      <4>1. Carried(e)
        BY <2>2, <2>3, <2>8, <3>1 DEF EntryReaches
      <4>2. ASSUME NEW c \in Builders, InFlight(c)', e.seq <= flushing'[c].seq,
                   \A a \in Builders : InFlight(a)' /\ flushing'[a].seq < flushing'[c].seq => flushing'[a].seq < e.seq
            PROVE  Reaches(content'[c], e)
        <5>1. \A a \in Builders : InFlight(a) /\ flushing[a].seq < flushing[c].seq => flushing[a].seq < e.seq
          BY <2>1, <2>3, <2>8, <4>2
        <5> QED
          BY <2>1, <4>1, <4>2, <5>1 DEF Carried
      <4>3. ASSUME \A c \in Builders : InFlight(c)' => flushing'[c].seq < e.seq
            PROVE  Reaches(content'[buffer'], e)
        <5>1. \A c \in Builders : InFlight(c) => flushing[c].seq < e.seq
          BY <2>1, <2>3, <2>8, <4>3
        <5> QED
          BY <2>1, <4>1, <5>1 DEF Carried
      <4> QED
        BY <4>2, <4>3 DEF Carried
    <3> QED
      BY <2>1, <2>2, <2>4, <2>8, <3>1 DEF EntryReaches
  <2> QED
    BY <2>3, <2>6, <2>7, <2>8
<1>4. CASE BackgroundPublish(b)
  <2>1. /\ UNCHANGED <<segFiles, metaSegments, seqFloor, up, buffer, pc, req, wal, walSealed, walBuf>>
        /\ flushing[b].stage = "publish" /\ flushing'[b].stage = "none"
        /\ \A c \in Builders \ {b} : flushing'[c] = flushing[c] /\ content'[c] = content[c]
        /\ b # buffer /\ buffer \in Builders
    BY <1>1, <1>4 DEF BackgroundPublish, disk, log, process, TypeOK, NotFlushed, Base, CoverInv, OwnInv, Owned
  <2>2. /\ \A c \in Builders : InFlight(c)' <=> InFlight(c)
        /\ \A c \in Builders : InFlight(c) => content'[c] = content[c] /\ flushing'[c] = flushing[c]
    BY <2>1 DEF InFlight
  <2> SUFFICES ASSUME ~ Wiping, NEW e \in IndexOf(Log) PROVE EntryReaches(e)'
    BY <2>1 DEF LogReaches, Wiping, Log
  <2>3. EntryReaches(e) /\ (Above(e.seq)' <=> Above(e.seq)) /\ (Pending(e)' <=> Pending(e))
    BY <2>1 DEF LogReaches, Above, Pending
  <2>4. Carried(e) => Carried(e)'
    BY <2>1, <2>2 DEF Carried
  <2> QED
    BY <2>1, <2>3, <2>4 DEF EntryReaches
<1>5. ~ BackgroundFlushError(b)
  BY DEF BackgroundFlushError, Serial
<1> QED
  BY <1>2, <1>3, <1>4, <1>5 DEF BackgroundStep

LEMMA FlushAddSegmentReach ==
    ASSUME Serial, Base, Shape, LogReaches, NEW t \in Threads, FlushAddSegment(t), RegistersInOrder
    PROVE  LogReaches'
<1>1. TypeOK
  BY DEF Base, CoverInv, OwnInv, IndInv
<1>2. /\ UNCHANGED <<segFiles, seqFloor, up, nextSeq, wal, walSealed, walBuf>>
      /\ up /\ pc[t] = "register" /\ metaSegments' = metaSegments \cup {nextSeq - 1}
      /\ segFiles[nextSeq - 1] = content[buffer] /\ \A c \in Builders : ~ InFlight(c)
  BY FlushAlone
<1>3. ~ Wiping /\ Log' = Log
  BY <1>2, OnlyOne DEF Wiping, ResetLocked, Log
<1> SUFFICES ASSUME NEW e \in IndexOf(Log) PROVE EntryReaches(e)'
  BY <1>3 DEF LogReaches
<1>4. EntryReaches(e) /\ ~ Pending(e) /\ e.seq <= nextSeq - 1
  <2>1. e \in Log /\ e.seq \in Nat /\ nextSeq \in Nat /\ e.seq < nextSeq
    BY <1>1, NumberTypes DEF IndexOf, Base, CoverInv, OwnInv, IndInv, Fresh, Log
  <2> QED
    BY <1>2, <1>3, <2>1, OnlyOne DEF LogReaches, Pending
<1>5. ~ Above(e.seq)'
  <2>1. e.seq \in Nat /\ nextSeq - 1 \in Nat
    BY <1>1, NumberTypes DEF IndexOf
  <2> QED
    BY <1>2, <1>4, <2>1 DEF Above
<1>6. CASE ~ Above(e.seq)
  BY <1>2, <1>4, <1>5, <1>6 DEF EntryReaches
<1>7. CASE Above(e.seq)
  <2>1. Reaches(segFiles[nextSeq - 1], e)
    BY <1>2, <1>4, <1>7 DEF EntryReaches, Carried
  <2> QED
    BY <1>2, <1>5, <2>1 DEF EntryReaches
<1> QED
  BY <1>6, <1>7

LEMMA NewRequestReach ==
    ASSUME Serial, Base, Shape, LogReaches, NEW t \in Threads, NewRequest(t) PROVE LogReaches'
<1>1. TypeOK
  BY DEF Base, CoverInv, OwnInv, IndInv
<1>2. CASE IndexDocs(t)
  <2>1. PICK docs \in Batches : LogRequest(t, "index", BatchLog(nextSeq, docs), Len(docs))
    BY <1>2 DEF IndexDocs, BatchLog
  <2>2. /\ Len(docs) \in Nat \ {0}
        /\ \A e \in BatchLog(nextSeq, docs) : e \in Entry /\ e.seq >= nextSeq
    BY <1>1, NumberTypes, BatchEntries, BatchLength
  <2> QED
    BY <2>1, <2>2, LogRequestReach DEF Entry
<1>3. CASE DeleteDocument(t)
  <2>1. PICK d \in Docs :
          LogRequest(t, "delete", {[seq |-> nextSeq, op |-> "delete", doc |-> d]}, 1)
    BY <1>3 DEF DeleteDocument
  <2> DEFINE es == {[seq |-> nextSeq, op |-> "delete", doc |-> d]}
  <2>2. \A e \in es : e.seq \in Nat /\ e.seq >= nextSeq
    BY <1>1, NumberTypes
  <2>3. LogRequest(t, "delete", es, 1)
    BY <2>1
  <2> HIDE DEF es
  <2> QED
    BY <2>2, <2>3, LogRequestReach
<1>4. CASE DrainPool(t) \/ ResetWait(t)
  <2>1. ReachUntouched
    BY <1>1, <1>4, OnlyOne DEF DrainPool, ResetWait, ReachUntouched, Begin, Goto, Log, TypeOK, disk,
         pipeline, searched, log, process, InFlight, Pending, Wiping, ResetLocked
  <2> QED
    BY <2>1, ReachUntouchedKeeps
<1>5. ASSUME NEW kind, FlushPutFile(t, kind) PROVE LogReaches'
  <2>1. /\ UNCHANGED <<metaSegments, seqFloor, up, buffer, content, flushing, wal, walSealed, walBuf>>
        /\ up /\ bufferDocs > 0 /\ pc[t] = "idle"
        /\ segFiles' = PutFile(segFiles, nextSeq - 1, content[buffer])
    BY <1>5 DEF FlushPutFile, FlushSeq, pipeline, searched, process, log
  <2>2. PICK v \in content[buffer] : Above(v.seq) /\ v.seq < nextSeq /\ v.seq \in Nat
    BY <1>1, <2>1, NumberTypes DEF Shape, Buffered, Young, Base, CoverInv, Covered, TypeOK
  <2>3. \A f \in metaSegments : f # nextSeq - 1
    BY <1>1, <2>2, NumberTypes DEF Above
  <2>4. ~ Wiping
    BY <2>1, OnlyOne DEF Wiping, ResetLocked
  <2>5. \A f \in metaSegments : segFiles'[f] = segFiles[f]
    BY <2>1, <2>3, <2>4 DEF PutFile, Wiping, Base, FilesKept, RegisteredFilesExist
  <2>6. ReachUntouched
    BY <2>1, <2>4, <2>5, OnlyOne DEF ReachUntouched, Log, InFlight, Pending
  <2> QED
    BY <2>6, ReachUntouchedKeeps
<1>6. ~ IndexDocsNoWAL(t)
  BY DEF IndexDocsNoWAL, Serial
<1> QED
  BY <1>2, <1>3, <1>4, <1>5, <1>6 DEF NewRequest, Flush, CloseFlush

LEMMA StopReach ==
    ASSUME Serial, Base, Shape, LogReaches, ~ Wiping, Stop, Log' \subseteq Log,
           \/ "delete" \notin Operations
           \/ up /\ bufferDocs = 0 /\ NoBackgroundFlush /\ \A e : ~ Pending(e)
    PROVE  LogReaches'
<1>1. up' = FALSE /\ UNCHANGED <<segFiles, metaSegments, seqFloor>>
  BY DEF Stop
<1> SUFFICES ASSUME NEW e \in IndexOf(Log) PROVE EntryReaches(e)'
  BY DEF LogReaches, IndexOf
<1>2. EntryReaches(e) /\ (Above(e.seq)' <=> Above(e.seq))
  BY <1>1 DEF LogReaches, Above
<1>3. ASSUME Above(e.seq), "delete" \in Operations PROVE FALSE
  <2>1. Carried(e) /\ content[buffer] = {} /\ \A b \in Builders : ~ InFlight(b)
    BY <1>2, <1>3 DEF EntryReaches, Shape, Buffered, NoBackgroundFlush, InFlight
  <2> QED
    BY <2>1 DEF Carried, Reaches
<1> QED
  BY <1>1, <1>2, <1>3 DEF EntryReaches

LEMMA LoadFromMetaReach == ASSUME Base, LogReaches, LoadFromMeta PROVE LogReaches'
<1> DEFINE vs == Upsert({}, IndexOf(Replayed))
<1>1. TypeOK /\ IndInv
  BY DEF Base, CoverInv, OwnInv, IndInv
<1>2. /\ UNCHANGED <<segFiles, metaSegments, seqFloor, buffer, flushing, pc, wal, walBuf>> /\ ~ up /\ up'
      /\ content' = [content EXCEPT ![buffer] = vs] /\ walSealed' \subseteq walSealed
  BY DEF LoadFromMeta
<1>3. /\ \A e \in Latest(IndexOf(Replayed)) : Ver(e.doc, e.seq) \in vs
      /\ \A d \in DocsOf(IndexOf(Replayed)) : \E e \in Latest(IndexOf(Replayed)) : e.doc = d
  BY <1>1, ReplayHolds
<1> HIDE DEF vs
<1>4. /\ walBuf = {} /\ \A b \in Builders : flushing[b].stage = "none"
      /\ \A t \in Threads : pc[t] = "idle"
  BY <1>2 DEF Base, CoverInv, OwnInv, IndInv, DownIsCold, NotFlushed
<1>5. content'[buffer] = vs /\ ~ Wiping /\ \A b \in Builders : ~ InFlight(b)'
  BY <1>1, <1>2, <1>4 DEF TypeOK, Wiping, ResetLocked, InFlight
<1> SUFFICES ASSUME NEW e \in IndexOf(Log)' PROVE EntryReaches(e)'
  BY DEF LogReaches
<1>6. e \in IndexOf(Log) /\ (Above(e.seq)' <=> Above(e.seq)) /\ EntryReaches(e) /\ e \in wal \cup walSealed
  BY <1>2, <1>4, <1>5 DEF LogReaches, Above, IndexOf, Log
<1>7. ASSUME Above(e.seq) PROVE Reaches(vs, e)
  <2>1. e \in IndexOf(Replayed)
    BY <1>1, <1>6, <1>7, ReplayedAbove DEF IndexOf
  <2>2. PICK x \in Latest(IndexOf(Replayed)) : x.doc = e.doc
    BY <1>3, <2>1 DEF DocsOf
  <2>3. e.seq <= x.seq
    BY <2>1, <2>2 DEF Latest
  <2>4. e.seq \in Nat /\ x.seq \in Nat
    BY <1>1, <2>1, <2>2, ReplayedAbove DEF Latest
  <2>5. Ver(x.doc, x.seq).doc = e.doc /\ Ver(x.doc, x.seq).seq >= e.seq
    BY <2>2, <2>3, <2>4 DEF Ver
  <2> QED
    BY <1>3, <2>2, <2>5 DEF Reaches
<1> QED
  BY <1>2, <1>5, <1>6, <1>7 DEF EntryReaches, Carried

LEMMA NextReaches ==
    ASSUME Serial, Base, Shape, Shape', LogReaches, [Next /\ RegistersInOrder]_vars PROVE LogReaches'
<1>1. TypeOK
  BY DEF Base, CoverInv, OwnInv, IndInv
<1> USE DEF Goto, Return, Begin
<1>2. ASSUME NEW t \in Threads, ThreadStep(t), RegistersInOrder PROVE LogReaches'
  <2>1. CASE TakeBuilder(t) \/ RefillPool(t) \/ AddTombstone(t) \/ RotateWAL(t)
    <3>1. UNCHANGED <<metaSegments, seqFloor, up, buffer, content, flushing, segFiles>> /\ Log' \subseteq Log
      BY <2>1 DEF TakeBuilder, RefillPool, AddTombstone, RotateWAL, disk, pipeline, log, process, Log
    <3>2. ~ Wiping
      BY <2>1, OnlyOne DEF Wiping, ResetLocked, TakeBuilder, RefillPool, AddTombstone, RotateWAL
    <3>3. ASSUME NEW e \in IndexOf(Log) PROVE ~ Pending(e)
      <4>1. CASE AddTombstone(t)
        BY <4>1, OnlyOne DEF AddTombstone, Pending, IndexOf, Shape, AtStep
      <4>2. CASE TakeBuilder(t) \/ RefillPool(t) \/ RotateWAL(t)
        BY <4>2, OnlyOne DEF TakeBuilder, RefillPool, RotateWAL, Pending
      <4> QED
        BY <2>1, <4>1, <4>2
    <3>4. ReachUntouched
      BY <3>1, <3>2, <3>3 DEF ReachUntouched, InFlight
    <3> QED
      BY <3>4, ReachUntouchedKeeps
  <2>2. CASE CloseWAL(t)
    <3>1. /\ pc[t] \in {"closeWAL", "idle"} /\ NoBackgroundFlush /\ up /\ bufferDocs = 0 /\ Stop
          /\ wal' = wal \cup walBuf
      BY <2>2 DEF CloseWAL, Drained, Shape, AtStep
    <3>2. ~ Wiping /\ (\A e : ~ Pending(e)) /\ Log' \subseteq Log
      BY <3>1, OnlyOne DEF Wiping, ResetLocked, Pending, Stop, Log
    <3> QED
      BY <3>1, <3>2, StopReach
  <2>3. CASE ResetFiles(t) \/ ResetWAL(t) \/ ResetMeta(t)
    <3>1. Wiping'
      BY <1>1, <2>3 DEF ResetFiles, ResetWAL, ResetMeta, Wiping, ResetLocked, TypeOK
    <3> QED
      BY <3>1 DEF LogReaches
  <2>4. CASE ResetFloor(t)
    <3>1. Log' = {}
      BY <2>4 DEF ResetFloor, Shape, AtStep, Log
    <3> QED
      BY <3>1 DEF LogReaches, IndexOf
  <2> QED
    BY <1>2, <2>1, <2>2, <2>3, <2>4, AddDocsToBufferReach, RecheckReach, FlushAddSegmentReach
    DEF ThreadStep
<1>3. CASE FlushWALBuffer \/ Rest \/ UNCHANGED vars
  <2>1. ReachUntouched
    BY <1>3 DEF FlushWALBuffer, Rest, vars, ReachUntouched, Log, InFlight, Wiping, Pending, disk, pipeline,
                searched, log, process
  <2> QED
    BY <2>1, ReachUntouchedKeeps
<1>4. CASE Crash
  <2>1. Stop /\ Log' \subseteq Log /\ "crash" \in Operations
    BY <1>4 DEF Crash, Stop, Log
  <2>2. "delete" \notin Operations /\ ~ Wiping
    BY <2>1 DEF Serial, Base, FilesKept, Wiping, Resetting
  <2> QED
    BY <2>1, <2>2, StopReach
<1> QED
  BY <1>2, <1>3, <1>4, NewRequestReach, BackgroundStepReach, LoadFromMetaReach DEF Next

-----------------------------------------------------------------------------
(* Rotation and the segments.                                              *)

\* What the segments and the rotation of the log rest on.
SegmentInv == Base /\ Shape /\ LogReaches

LEMMA InitSegmentInv == Init => SegmentInv
<1> SUFFICES ASSUME Init PROVE SegmentInv
  OBVIOUS
<1>1. CoverInv
  BY InitIndInv, InitOwned, InitCovered DEF CoverInv, OwnInv
<1>2. FilesKept
  BY DEF Init, FilesKept, RegisteredFilesExist, NotFlushed, Resetting, ResetLocked
<1>3. Shape
  BY DEF Init, Shape, AtStep, Buffered, Flights, InFlight, Published, OnePerDoc, OneEach, NotFlushed
<1>4. LogReaches
  BY DEF Init, LogReaches, IndexOf, Log
<1> QED
  BY <1>1, <1>2, <1>3, <1>4 DEF SegmentInv, Base

LEMMA NextSegmentInv ==
    ASSUME Serial, SegmentInv, [Next]_vars, [RegistersInOrder]_vars PROVE SegmentInv'
<1>1. Base'
  BY NextCovered, NextFiles DEF SegmentInv, Base, CoverInv, OwnInv, Serial
<1>2. [Next /\ RegistersInOrder]_vars
  OBVIOUS
<1> QED
  BY <1>1, <1>2, NextShape, NextReaches DEF SegmentInv

\* The file of a registered segment is not written again.
LEMMA PutFileElsewhere ==
    ASSUME SegmentInv, [Next]_vars, NEW f \in metaSegments \cap DOMAIN segFiles \cap DOMAIN segFiles'
    PROVE  segFiles'[f] = segFiles[f]
<1>1. TypeOK
  BY DEF SegmentInv, Base, CoverInv, OwnInv, IndInv
<1>2. ASSUME NEW key, NEW vs, segFiles' = PutFile(segFiles, key, vs), f # key
      PROVE  segFiles'[f] = segFiles[f]
  BY <1>2 DEF PutFile
<1>3. ASSUME NEW t \in Threads, NEW kind, FlushPutFile(t, kind) PROVE segFiles'[f] = segFiles[f]
  <2>1. up /\ bufferDocs > 0 /\ segFiles' = PutFile(segFiles, nextSeq - 1, content[buffer])
    BY <1>3 DEF FlushPutFile, FlushSeq
  <2>2. PICK v \in content[buffer] : Above(v.seq) /\ v.seq < nextSeq /\ v.seq \in Nat
    BY <1>1, <2>1, NumberTypes DEF SegmentInv, Shape, Buffered, Young, Base, CoverInv, Covered, TypeOK
  <2>3. f # nextSeq - 1
    BY <1>1, <2>2, NumberTypes DEF Above
  <2> QED
    BY <1>2, <2>1, <2>3
<1>4. ASSUME NEW b \in Builders, BackgroundPutFile(b) PROVE segFiles'[f] = segFiles[f]
  <2>1. f # flushing[b].seq
    BY <1>1, <1>4, NumberTypes DEF BackgroundPutFile, SegmentInv, Shape, Flights, InFlight, Above
  <2> QED
    BY <1>2, <1>4, <2>1 DEF BackgroundPutFile
<1>5. ASSUME NEW t \in Threads, NewRequest(t) \/ ThreadStep(t), segFiles' # segFiles
      PROVE  Flush(t) \/ CloseFlush(t) \/ ResetFiles(t)
  BY <1>5 DEF NewRequest, ThreadStep, IndexDocs, IndexDocsNoWAL, DeleteDocument, LogRequest, ResetWait,
              DrainPool, AddDocsToBuffer, TakeBuilder, Recheck, RefillPool, AddTombstone, FlushAddSegment,
              RotateWAL, CloseWAL, Stop, ResetWAL, ResetMeta, ResetFloor, disk
<1>6. ASSUME NEW t \in Threads, ResetFiles(t) PROVE segFiles'[f] = segFiles[f]
  BY <1>6 DEF ResetFiles
<1>7. ASSUME NEW b \in Builders, BackgroundStep(b), segFiles' # segFiles PROVE BackgroundPutFile(b)
  BY <1>7 DEF BackgroundStep, BackgroundFlushError, BackgroundAddSegment, BackgroundPublish, disk
<1>8. CASE FlushWALBuffer \/ Crash \/ LoadFromMeta \/ Rest \/ UNCHANGED vars
  BY <1>8 DEF FlushWALBuffer, Crash, Stop, LoadFromMeta, Rest, vars, disk
<1> QED
  BY <1>3, <1>4, <1>5, <1>6, <1>7, <1>8 DEF Next, Flush, CloseFlush

\* A registered segment's file is never written again: two flushes never share a
\* sequence, since each takes along a version younger than every earlier flush.
THEOREM SegmentsStayAsWritten ==
    ASSUME Serial PROVE Spec /\ FlushesInOrder => SegmentsAreImmutable
<1>1. SegmentInv /\ [Next]_vars /\ [RegistersInOrder]_vars => SegmentInv'
  BY NextSegmentInv
<1>2. SegmentInv /\ [Next]_vars =>
        [\A f \in metaSegments \cap DOMAIN segFiles \cap DOMAIN segFiles' : segFiles'[f] = segFiles[f]]_vars
  BY PutFileElsewhere
<1> QED
  BY <1>1, <1>2, InitSegmentInv, PTL DEF Spec, FlushesInOrder, SegmentsAreImmutable

\* When a rotation removes the log, every entry in it is in a registered segment,
\* in its own or a later version ("guaranteed to be in a registered segment").
THEOREM RotationLosesNothing ==
    ASSUME Serial PROVE Spec /\ FlushesInOrder => RotationIsSafe
<1>1. SegmentInv /\ [Next]_vars /\ [RegistersInOrder]_vars => SegmentInv'
  BY NextSegmentInv
<1>2. ASSUME SegmentInv, NEW t \in Threads, RotateWAL(t), NEW e \in IndexOf(wal \cup walBuf)
      PROVE  \E f \in metaSegments \cap DOMAIN segFiles : \E v \in segFiles[f] :
               v.doc = e.doc /\ (v.seq >= e.seq \/ v.seq = Unlogged)
  <2>1. TypeOK /\ pc[t] = "rotate"
    BY <1>2 DEF SegmentInv, Base, CoverInv, OwnInv, IndInv, RotateWAL
  <2>2. ~ Wiping
    BY <2>1, OnlyOne DEF Wiping, ResetLocked
  <2>3. nextSeq - 1 \in metaSegments /\ e.seq \in Nat /\ e.seq < nextSeq /\ e \in IndexOf(Log)
    BY <1>2, <2>1, NumberTypes DEF SegmentInv, Shape, AtStep, IndexOf, Log, Base, CoverInv, OwnInv, IndInv, Fresh
  <2>4. ~ Above(e.seq)
    BY <2>1, <2>3, NumberTypes DEF Above
  <2>5. PICK f \in metaSegments : Reaches(segFiles[f], e)
    BY <1>2, <2>2, <2>3, <2>4 DEF SegmentInv, LogReaches, EntryReaches
  <2>6. f \in DOMAIN segFiles
    BY <1>2, <2>2 DEF SegmentInv, Base, FilesKept, RegisteredFilesExist, Wiping
  <2> QED
    BY <2>5, <2>6 DEF Reaches
<1>3. SegmentInv =>
        [ \A t \in Threads : RotateWAL(t) =>
            \A e \in IndexOf(wal \cup walBuf) : e.seq <= req[t].seq =>
              \E f \in metaSegments \cap DOMAIN segFiles : \E v \in segFiles[f] :
                  v.doc = e.doc /\ (v.seq >= e.seq \/ v.seq = Unlogged) ]_vars
  BY <1>2
<1> QED
  BY <1>1, <1>3, InitSegmentInv, PTL DEF Spec, FlushesInOrder, RotationIsSafe

-----------------------------------------------------------------------------
(* Where the last operation on each document is.                           *)

\* The last operation as an entry; and whether it is on its way to the buffer.
Told(d)     == [seq |-> last[d].seq, op |-> last[d].op, doc |-> d]
Settling(d) == \E t \in Threads : pc[t] = "apply" /\ d \in DocsOf(req[t].entries)

\* The newest registered segment that holds d holds version s.
Holds(d, s) ==
    \E f \in metaSegments :
      /\ f \in DOMAIN segFiles /\ Ver(d, s) \in segFiles[f]
      /\ \A g \in metaSegments \cap DOMAIN segFiles : d \in DocsOf(segFiles[g]) => g <= f

\* The latest flush on its way that holds d holds version s.
Flown(d, s) ==
    \E b \in Builders :
      /\ InFlight(b) /\ Ver(d, s) \in content[b]
      /\ \A c \in Builders : InFlight(c) /\ d \in DocsOf(content[c]) => flushing[c].seq <= flushing[b].seq

\* A search of vs, then of the flushes on their way from the latest down, then of
\* the registered segments finds version s of d.
LocatedWith(d, s, vs) ==
    \/ Ver(d, s) \in vs
    \/ /\ d \notin DocsOf(vs)
       /\ \/ Flown(d, s)
          \/ (\A b \in Builders : InFlight(b) => d \notin DocsOf(content[b])) /\ Holds(d, s)

Located(d, s) == LocatedWith(d, s, content[buffer])

\* What the log says of the last operation on d, unless nobody knows.
Tells(d) ==
    /\ last[d].op \in {"index", "delete"} =>
         /\ up => last[d].seq < nextSeq
         /\ \A e \in Log : e.doc = d => e.seq <= last[d].seq /\ (e.seq = last[d].seq => e = Told(d))
         /\ Above(last[d].seq) => Told(d) \in Log
    /\ last[d].op = "delete" => "delete" \in Operations
    /\ \A t \in Threads :
         /\ pc[t] \in ResetLocked => last[d].op = "unknown"
         /\ pc[t] = "apply" /\ d \in DocsOf(req[t].entries) =>
              Told(d) \in req[t].entries /\ \A e \in req[t].entries : e.doc = d => e.seq <= last[d].seq

\* A document last indexed is where a restart and a search find it.
Indexed(d) ==
    last[d].op = "index" =>
      /\ up /\ ~ Settling(d) => Located(d, last[d].seq) /\ d \notin tombstones
      /\ ~ Above(last[d].seq) => Holds(d, last[d].seq) /\ d \notin metaTombstones

\* A document last deleted has its tombstone, in the manifest and in memory.
Deleted(d) ==
    last[d].op = "delete" /\ ~ Settling(d) => d \in metaTombstones /\ (up => d \in tombstones)

\* A document without an operation is nowhere.
Unwritten(d) ==
    last[d].op = "none" =>
      /\ d \notin DocsOf(Log) /\ d \notin tombstones \cup metaTombstones
      /\ \A b \in Builders : d \notin DocsOf(content[b])
      /\ \A f \in metaSegments \cap DOMAIN segFiles : d \notin DocsOf(segFiles[f])

\* Every document is accounted for.
DocInv(d) == Tells(d) /\ Indexed(d) /\ Deleted(d) /\ Unwritten(d)

\* The manifest knows no tombstone that a running shard does not.
TombsFollow == up => metaTombstones \subseteq tombstones

\* Every document is where its last operation says.
Accounted == (\A d \in Docs : DocInv(d)) /\ TombsFollow

LEMMA DocTypes ==
    ASSUME SegmentInv
    PROVE  /\ TypeOK /\ IndInv
           /\ \A d \in Docs : last[d] \in LastOp /\ last[d].seq \in Nat
BY DEF SegmentInv, Base, CoverInv, OwnInv, IndInv, TypeOK, LastOp

\* The steps that move no version and no entry still needed.
LedgerUntouched ==
    /\ UNCHANGED <<last, metaSegments, seqFloor, up, nextSeq, buffer, tombstones, metaTombstones>>
    /\ content'[buffer] = content[buffer]
    /\ \A b \in Builders : /\ content'[b] \subseteq content[b]
                           /\ InFlight(b)' <=> InFlight(b)
                           /\ InFlight(b) => content'[b] = content[b] /\ flushing'[b].seq = flushing[b].seq
    /\ \A f \in metaSegments : /\ f \in DOMAIN segFiles' <=> f \in DOMAIN segFiles
                               /\ f \in DOMAIN segFiles => segFiles'[f] = segFiles[f]
    /\ Log' \subseteq Log
    /\ \A d \in Docs : last[d].op \in {"index", "delete"} /\ Above(last[d].seq) /\ Told(d) \in Log =>
                       Told(d) \in Log'
    /\ \A t \in Threads : \/ pc'[t] = pc[t] /\ req'[t] = req[t]
                          \/ pc'[t] \notin {"apply"} \cup ResetLocked /\ pc[t] # "apply"

LEMMA LedgerUntouchedKeeps == ASSUME Accounted, LedgerUntouched PROVE Accounted'
<1>1. ASSUME NEW d \in Docs PROVE DocInv(d)'
  <2>1. /\ Settling(d)' <=> Settling(d)
        /\ Told(d)' = Told(d) /\ \A s : Above(s)' <=> Above(s)
    BY DEF LedgerUntouched, Settling, Told, Above
  <2>2. \A s : Holds(d, s)' <=> Holds(d, s)
    BY DEF LedgerUntouched, Holds
  <2>3. \A s : Flown(d, s)' <=> Flown(d, s)
    BY DEF LedgerUntouched, Flown
  <2>4. \A s : Located(d, s)' <=> Located(d, s)
    BY <2>2, <2>3 DEF LedgerUntouched, Located, LocatedWith
  <2>5. DocInv(d)
    BY DEF Accounted
  <2>6. Tells(d)'
    <3>1. last'[d].op \in {"index", "delete"} =>
            /\ up' => last'[d].seq < nextSeq'
            /\ \A e \in Log' : e.doc = d => e.seq <= last'[d].seq /\ (e.seq = last'[d].seq => e = Told(d)')
            /\ Above(last[d].seq)' => Told(d)' \in Log'
      BY <2>1, <2>5 DEF DocInv, Tells, LedgerUntouched
    <3>2. \A t \in Threads :
            /\ pc'[t] \in ResetLocked => last'[d].op = "unknown"
            /\ pc'[t] = "apply" /\ d \in DocsOf(req'[t].entries) =>
                 Told(d)' \in req'[t].entries /\ \A e \in req'[t].entries : e.doc = d => e.seq <= last'[d].seq
      BY <2>1, <2>5 DEF DocInv, Tells, LedgerUntouched
    <3>3. last'[d].op = "delete" => "delete" \in Operations
      BY <2>5 DEF DocInv, Tells, LedgerUntouched
    <3> QED
      BY <3>1, <3>2, <3>3 DEF Tells
  <2>7. Indexed(d)' /\ Deleted(d)'
    BY <2>1, <2>2, <2>4, <2>5 DEF DocInv, Indexed, Deleted, LedgerUntouched
  <2>8. Unwritten(d)'
    <3>1. d \in DocsOf(Log') => d \in DocsOf(Log)
      BY DEF LedgerUntouched, DocsOf
    <3>2. \A b \in Builders : d \in DocsOf(content'[b]) => d \in DocsOf(content[b])
      BY DEF LedgerUntouched, DocsOf
    <3> QED
      BY <2>5, <3>1, <3>2 DEF DocInv, Unwritten, LedgerUntouched
  <2> QED
    BY <2>6, <2>7, <2>8 DEF DocInv
<1>2. TombsFollow'
  BY DEF Accounted, TombsFollow, LedgerUntouched
<1> QED
  BY <1>1, <1>2 DEF Accounted

-----------------------------------------------------------------------------
(* New entries.                                                            *)

LEMMA LogRequestAccounted ==
    ASSUME Serial, SegmentInv, Accounted, NEW t \in Threads, NEW kind \in {"index", "delete"},
           NEW es \in SUBSET Entry, NEW n \in Nat \ {0},
           \A e \in es : e.seq >= nextSeq /\ e.seq < nextSeq + n /\ e.op = kind,
           \A e, f \in es : e.seq = f.seq => e = f,
           LogRequest(t, kind, es, n)
    PROVE  Accounted'
<1>1. TypeOK /\ IndInv
  BY DocTypes
<1>2. /\ UNCHANGED <<segFiles, metaSegments, metaTombstones, tombstones, seqFloor, up, buffer, content, flushing>>
      /\ up /\ pc[t] = "idle" /\ pc'[t] = "apply" /\ req'[t].entries = es /\ kind \in Operations
      /\ Log' = Log \cup es /\ nextSeq' = nextSeq + n
      /\ last' = [d \in Docs |-> IF d \in DocsOf(es)
                                 THEN LET e == CHOOSE x \in Latest(es) : x.doc = d
                                      IN  [op |-> e.op, seq |-> e.seq]
                                 ELSE last[d]]
  BY <1>1 DEF LogRequest, WriteWAL, Begin, Goto, TypeOK, disk, pipeline, searched, process, Log
<1>3. /\ \A u \in Threads : u = t
      /\ nextSeq \in Nat /\ nextSeq' \in Nat /\ \A e \in es : e.seq \in Nat /\ e.seq <= nextSeq'
  BY <1>1, <1>2, OnlyOne, NumberTypes DEF Entry
<1>4. \A s : Above(s)' <=> Above(s)
  BY <1>2 DEF Above
<1>5. ASSUME NEW d \in Docs, d \in DocsOf(es) PROVE DocInv(d)'
  <2>1. \E x \in Latest(es) : x.doc = d
    BY <1>3, <1>5, LatestExists
  <2>2. PICK x \in Latest(es) : x.doc = d /\ last'[d] = [op |-> x.op, seq |-> x.seq]
    BY <1>2, <1>5, <2>1
  <2>3. x \in es /\ \A e \in es : e.doc = d => e.seq <= x.seq
    BY <2>2 DEF Latest
  <2>4. Told(d)' = x /\ last'[d].op = kind /\ last'[d].seq = x.seq
    BY <2>2, <2>3 DEF Told, Entry
  <2>5. Above(x.seq)' /\ Settling(d)'
    BY <1>1, <1>2, <1>3, <1>4, <1>5, <2>3, NextIsYoung DEF Young, Settling
  <2>6. ASSUME NEW e \in Log', e.doc = d PROVE e.seq <= x.seq /\ (e.seq = x.seq => e = x)
    <3>1. CASE e \in es
      BY <2>3, <2>6, <3>1
    <3>2. CASE e \in Log
      <4>1. e.seq < nextSeq /\ nextSeq <= x.seq /\ e.seq \in Nat /\ x.seq \in Nat
        BY <1>1, <1>3, <2>3, <3>2, NumberTypes DEF IndInv, Fresh, Log
      <4> QED
        BY <1>3, <4>1
    <3> QED
      BY <1>2, <2>6, <3>1, <3>2
  <2>7. x.seq < nextSeq' /\ x \in Log'
    BY <1>2, <2>3
  <2>8. Tells(d)'
    BY <1>2, <1>3, <2>3, <2>4, <2>6, <2>7 DEF Tells, ResetLocked
  <2> QED
    BY <2>4, <2>5, <2>8 DEF DocInv, Indexed, Deleted, Unwritten
<1>6. ASSUME NEW d \in Docs, d \notin DocsOf(es) PROVE DocInv(d)'
  <2>1. last'[d] = last[d] /\ Told(d)' = Told(d) /\ DocInv(d)
    BY <1>2, <1>6 DEF Told, Accounted
  <2>2. ~ Settling(d) /\ ~ Settling(d)'
    BY <1>2, <1>3, <1>6 DEF Settling
  <2>3. \A s : (Holds(d, s)' <=> Holds(d, s)) /\ (Located(d, s)' <=> Located(d, s))
    BY <1>2 DEF Holds, Located, LocatedWith, Flown, InFlight
  <2>4. \A e \in Log' : e.doc = d => e \in Log
    BY <1>2, <1>6 DEF DocsOf
  <2>5. Tells(d)'
    <3>1. \A e \in Log' : e.doc = d /\ last[d].op \in {"index", "delete"} =>
            e.seq <= last[d].seq /\ (e.seq = last[d].seq => e = Told(d))
      BY <2>1, <2>4 DEF DocInv, Tells
    <3>2. last[d].op \in {"index", "delete"} => last[d].seq < nextSeq'
      BY <1>2, <1>3, <2>1, DocTypes DEF DocInv, Tells
    <3>3. last[d].op \in {"index", "delete"} /\ Above(last[d].seq)' => Told(d) \in Log'
      BY <1>2, <1>4, <2>1 DEF DocInv, Tells
    <3> QED
      BY <1>2, <1>3, <1>6, <2>1, <3>1, <3>2, <3>3 DEF DocInv, Tells, ResetLocked
  <2>6. Indexed(d)' /\ Deleted(d)'
    BY <1>2, <1>4, <2>1, <2>2, <2>3 DEF DocInv, Indexed, Deleted
  <2>7. Unwritten(d)'
    <3>1. d \in DocsOf(Log') => d \in DocsOf(Log)
      BY <2>4 DEF DocsOf
    <3> QED
      BY <1>2, <2>1, <3>1 DEF DocInv, Unwritten
  <2> QED
    BY <2>5, <2>6, <2>7 DEF DocInv
<1>7. TombsFollow'
  BY <1>2 DEF Accounted, TombsFollow
<1> QED
  BY <1>5, <1>6, <1>7 DEF Accounted

-----------------------------------------------------------------------------
(* Documents enter the active builder, which may start its flush.          *)

\* The active builder becomes vs, and remains or makes way for an empty one.
Fills(vs) ==
    /\ content' = [content EXCEPT ![buffer] = vs]
    /\ UNCHANGED <<segFiles, metaSegments>>
    /\ \/ UNCHANGED <<buffer, flushing>>
       \/ /\ buffer' # buffer /\ buffer' \in Builders /\ content[buffer'] = {}
          /\ flushing[buffer'].stage = "none"
          /\ flushing' = [flushing EXCEPT ![buffer] = [stage |-> "write", seq |-> nextSeq - 1]]

\* A search that found a version in vs and beyond finds it there afterwards.
LEMMA FillsLocates ==
    ASSUME SegmentInv, NEW vs, Fills(vs), NEW d, NEW s, LocatedWith(d, s, vs)
    PROVE  Located(d, s)'
<1>1. TypeOK /\ IndInv /\ buffer \in Builders /\ ~ InFlight(buffer)
  BY DocTypes DEF TypeOK, InFlight, SegmentInv, Base, CoverInv, OwnInv, Owned
<1>2. Holds(d, s)' <=> Holds(d, s)
  BY DEF Fills, Holds
<1>3. content'[buffer] = vs /\ \A c \in Builders \ {buffer} : content'[c] = content[c]
  BY <1>1 DEF Fills, TypeOK
<1>4. CASE UNCHANGED <<buffer, flushing>>
  <2>1. \A c \in Builders : InFlight(c)' <=> InFlight(c)
    BY <1>4 DEF InFlight
  <2>2. \A c \in Builders : InFlight(c) => content'[c] = content[c]
    BY <1>1, <1>3
  <2>3. Flown(d, s)' <=> Flown(d, s)
    BY <1>4, <2>1, <2>2 DEF Flown
  <2> QED
    BY <1>2, <1>3, <1>4, <2>1, <2>2, <2>3 DEF Located, LocatedWith
<1>5. CASE buffer' # buffer
  <2>1. /\ flushing'[buffer].stage = "write" /\ flushing'[buffer].seq = nextSeq - 1
        /\ \A c \in Builders \ {buffer} : flushing'[c] = flushing[c]
        /\ content'[buffer'] = {} /\ buffer' \in Builders
    BY <1>1, <1>3, <1>5 DEF Fills, TypeOK
  <2>2. InFlight(buffer)' => TRUE
    OBVIOUS
  <2>3. \A c \in Builders : flushing'[c].seq \in Nat /\ flushing'[c].seq <= nextSeq - 1
    BY <1>1, <2>1, NumberTypes DEF IndInv, Fresh
  <2>4. CASE Ver(d, s) \in vs
    <3>1. Flown(d, s)'
      BY <1>1, <1>3, <2>1, <2>3, <2>4 DEF Flown, InFlight
    <3> QED
      BY <2>1, <3>1 DEF Located, LocatedWith, DocsOf
  <2>5. CASE Ver(d, s) \notin vs
    <3>1. d \notin DocsOf(vs) /\ d \notin DocsOf(content'[buffer'])
      BY <2>1, <2>5 DEF LocatedWith, DocsOf
    <3>2. CASE Flown(d, s)
      <4>1. PICK a \in Builders :
              /\ InFlight(a) /\ Ver(d, s) \in content[a]
              /\ \A c \in Builders : InFlight(c) /\ d \in DocsOf(content[c]) => flushing[c].seq <= flushing[a].seq
        BY <3>2 DEF Flown
      <4>2. a # buffer
        BY <1>1, <4>1
      <4>3. \A c \in Builders : flushing'[c].stage \in {"write", "register"} /\ d \in DocsOf(content'[c]) =>
              c # buffer
        BY <1>3, <3>1
      <4>4. Flown(d, s)'
        BY <1>3, <2>1, <4>1, <4>2, <4>3 DEF Flown, InFlight
      <4> QED
        BY <3>1, <4>4 DEF Located, LocatedWith
    <3>3. CASE (\A b \in Builders : InFlight(b) => d \notin DocsOf(content[b])) /\ Holds(d, s)
      <4>1. \A c \in Builders : flushing'[c].stage \in {"write", "register"} => d \notin DocsOf(content'[c])
        BY <1>3, <2>1, <3>1, <3>3 DEF InFlight
      <4> QED
        BY <1>2, <3>1, <3>3, <4>1 DEF Located, LocatedWith, InFlight
    <3> QED
      BY <2>5, <3>2, <3>3 DEF LocatedWith
  <2> QED
    BY <2>4, <2>5
<1> QED
  BY <1>4, <1>5 DEF Fills

\* The steps that neither write nor shorten the log.
LEMMA TellsOn ==
    ASSUME NEW d \in Docs, Tells(d), UNCHANGED <<metaSegments, seqFloor, up, nextSeq>>,
           last'[d] = last[d], Log' = Log,
           \A t \in Threads : \/ pc'[t] = pc[t] /\ req'[t] = req[t]
                              \/ pc'[t] \notin {"apply"} \cup ResetLocked
    PROVE  Tells(d)'
<1>1. Told(d)' = Told(d) /\ \A s : Above(s)' <=> Above(s)
  BY DEF Told, Above
<1>2. \A t \in Threads :
         /\ pc'[t] \in ResetLocked => last'[d].op = "unknown"
         /\ pc'[t] = "apply" /\ d \in DocsOf(req'[t].entries) =>
              Told(d)' \in req'[t].entries /\ \A e \in req'[t].entries : e.doc = d => e.seq <= last'[d].seq
  BY <1>1 DEF Tells
<1> QED
  BY <1>1, <1>2 DEF Tells

LEMMA AddDocsToBufferAccounted ==
    ASSUME Serial, SegmentInv, Accounted, NEW t \in Threads, AddDocsToBuffer(t) PROVE Accounted'
<1> DEFINE D  == DocsOf(req[t].entries)
           vs == Upsert(content[buffer], req[t].entries)
<1>1. TypeOK /\ IndInv
  BY DocTypes
<1>2. /\ pc[t] = "apply" /\ req[t].kind \in {"index", "bulk"} /\ pc'[t] \in {"idle", "await"}
      /\ tombstones' = tombstones \ D
      /\ metaTombstones' = metaTombstones \ (D \cap tombstones)
      /\ UNCHANGED <<wal, walSealed, walBuf, segFiles, metaSegments, seqFloor, up, nextSeq>>
  BY <1>1 DEF AddDocsToBuffer, Swap, Return, Begin, Goto, log, process, TypeOK
<1>3. /\ req[t].kind = "index" /\ \A e \in req[t].entries : e.op = "index" /\ Young(e.seq)
      /\ up /\ \A u \in Threads : u = t
  BY <1>1, <1>2, OnlyOne DEF SegmentInv, Shape, AtStep, IndInv, DownIsCold
<1>4. \A d \in Docs : last'[d] = last[d]
  BY <1>3 DEF AddDocsToBuffer
<1>5. Fills(vs)
  <2>1. CASE UNCHANGED <<buffer, flushing>>
    BY <1>2, <2>1 DEF AddDocsToBuffer, Fills
  <2>2. ASSUME NEW b \in freeBuffers, Swap(t, b) PROVE Fills(vs)
    <3>1. b # buffer /\ flushing[b].stage = "none" /\ content[b] = {} /\ b \in Builders
      BY <1>1 DEF SegmentInv, Base, CoverInv, OwnInv, Owned, TypeOK
    <3> QED
      BY <1>2, <2>2, <3>1 DEF AddDocsToBuffer, Swap, Fills, FlushSeq
  <2> QED
    BY <2>1, <2>2 DEF AddDocsToBuffer
<1>6. /\ content[buffer] \in SUBSET Version /\ req[t].entries \in SUBSET Entry
      /\ \A e \in req[t].entries : e.seq <= nextSeq
  BY <1>1, RequestTyped, NumberTypes DEF TypeOK, IndInv, Fresh
<1>7. /\ \A v \in content[buffer] : v.doc \notin D => v \in vs
      /\ \A e \in Latest(req[t].entries) : Ver(e.doc, e.seq) \in vs
      /\ DocsOf(vs) = DocsOf(content[buffer]) \cup D
  BY <1>1, <1>6, UpsertHolds, NumberTypes
<1> HIDE DEF vs
<1>8. ASSUME NEW d \in Docs PROVE DocInv(d)'
  <2>1. DocInv(d) /\ last'[d] = last[d] /\ Told(d)' = Told(d) /\ \A s : Above(s)' <=> Above(s)
    BY <1>2, <1>4 DEF Accounted, Told, Above
  <2>2. Tells(d)'
    BY <1>2, <1>3, <2>1, TellsOn DEF DocInv, Log, ResetLocked
  <2>3. ~ Settling(d)' /\ (Settling(d) <=> d \in D)
    BY <1>2, <1>3 DEF Settling
  <2>4. d \in D => Told(d) \in req[t].entries /\ Told(d) \in Latest(req[t].entries)
    BY <1>2, <2>1 DEF DocInv, Tells, Told, Latest
  <2>5. d \in D => last[d].op = "index" /\ Above(last[d].seq) /\ Ver(d, last[d].seq) \in vs
    <3>1. Told(d).op = last[d].op /\ Told(d).seq = last[d].seq /\ Told(d).doc = d
      BY DEF Told
    <3> QED
      BY <1>3, <1>7, <2>4, <3>1 DEF Young
  <2>6. Holds(d, last[d].seq)' <=> Holds(d, last[d].seq)
    BY <1>2, <2>1 DEF Holds
  <2>7. \A s : LocatedWith(d, s, vs) => Located(d, s)'
    BY <1>5, FillsLocates
  <2>8. Indexed(d)'
    <3>1. CASE d \in D
      <4>1. LocatedWith(d, last[d].seq, vs)
        BY <2>5, <3>1 DEF LocatedWith
      <4> QED
        BY <1>2, <2>1, <2>5, <2>7, <3>1, <4>1 DEF Indexed
    <3>2. CASE d \notin D /\ last[d].op = "index"
      <4>1. Located(d, last[d].seq) /\ d \notin tombstones
        BY <1>3, <2>1, <2>3, <3>2 DEF DocInv, Indexed
      <4>2. LocatedWith(d, last[d].seq, vs)
        BY <1>7, <3>2, <4>1 DEF Located, LocatedWith, Ver
      <4> QED
        BY <1>2, <1>3, <2>1, <2>3, <2>6, <2>7, <3>2, <4>1, <4>2 DEF DocInv, Indexed
    <3> QED
      BY <2>1, <3>1, <3>2 DEF Indexed
  <2>9. Deleted(d)'
    BY <1>2, <1>3, <2>1, <2>3, <2>5 DEF DocInv, Deleted
  <2>10. Unwritten(d)'
    <3>1. \A b \in Builders \ {buffer} : content'[b] = content[b]
      BY <1>1, <1>5 DEF Fills, TypeOK
    <3>2. content'[buffer] = vs /\ buffer \in Builders
      BY <1>1, <1>5 DEF Fills, TypeOK
    <3> QED
      BY <1>2, <1>7, <2>1, <2>5, <3>1, <3>2 DEF DocInv, Unwritten, Log
  <2> QED
    BY <2>2, <2>8, <2>9, <2>10 DEF DocInv
<1>9. TombsFollow'
  BY <1>2 DEF Accounted, TombsFollow
<1> QED
  BY <1>8, <1>9 DEF Accounted

-----------------------------------------------------------------------------
(* The waits for the pool, and the flushes.                                *)

LEMMA PoolStepAccounted ==
    ASSUME Serial, SegmentInv, Accounted, NEW t \in Threads,
           TakeBuilder(t) \/ RefillPool(t) \/ DrainPool(t) \/ ResetWait(t)
    PROVE  Accounted'
<1>1. TypeOK
  BY DocTypes
<1>2. LedgerUntouched
  BY <1>1 DEF TakeBuilder, RefillPool, DrainPool, ResetWait, Goto, Return, Begin, disk, pipeline, searched,
              log, process, TypeOK, LedgerUntouched, InFlight, Log, ResetLocked
<1> QED
  BY <1>2, LedgerUntouchedKeeps

LEMMA RecheckAccounted ==
    ASSUME Serial, SegmentInv, Accounted, NEW t \in Threads, Recheck(t) PROVE Accounted'
<1>1. TypeOK
  BY DocTypes
<1>2. /\ pc[t] = "recheck" /\ pc'[t] = "idle" /\ \A u \in Threads : u = t
      /\ UNCHANGED <<wal, walSealed, walBuf, segFiles, metaSegments, metaTombstones, tombstones, seqFloor, up,
                     nextSeq, last, content>>
  BY <1>1, OnlyOne DEF Recheck, Swap, Return, Begin, Goto, disk, searched, log, process, TypeOK
<1>3. CASE UNCHANGED <<buffer, flushing>>
  <2>1. LedgerUntouched
    BY <1>2, <1>3 DEF LedgerUntouched, InFlight, Log, ResetLocked
  <2> QED
    BY <2>1, LedgerUntouchedKeeps
<1>4. ASSUME NEW b \in held[t], Swap(t, b) PROVE Accounted'
  <2>1. Fills(content[buffer])
    <3>1. b # buffer /\ flushing[b].stage = "none" /\ content[b] = {} /\ b \in Builders
      BY <1>1 DEF SegmentInv, Base, CoverInv, OwnInv, Owned, TypeOK
    <3>2. content' = [content EXCEPT ![buffer] = content[buffer]]
      BY <1>1, <1>2 DEF TypeOK
    <3> QED
      BY <1>2, <1>4, <3>1, <3>2 DEF Swap, Fills, FlushSeq
  <2>2. \A d, s : Located(d, s) => Located(d, s)'
    BY <2>1, FillsLocates DEF Located
  <2>3. \A d \in Docs : \A s : Holds(d, s)' <=> Holds(d, s)
    BY <1>2 DEF Holds
  <2>4. ASSUME NEW d \in Docs PROVE DocInv(d)'
    <3>1. DocInv(d) /\ ~ Settling(d) /\ ~ Settling(d)' /\ \A s : Above(s)' <=> Above(s)
      BY <1>2 DEF Accounted, Settling, Above
    <3>2. Tells(d)'
      BY <1>2, <3>1, TellsOn DEF DocInv, Log, ResetLocked
    <3>3. Indexed(d)' /\ Deleted(d)'
      BY <1>2, <2>2, <2>3, <3>1 DEF DocInv, Indexed, Deleted
    <3>4. Unwritten(d)'
      BY <1>2, <3>1 DEF DocInv, Unwritten, Log
    <3> QED
      BY <3>2, <3>3, <3>4 DEF DocInv
  <2> QED
    BY <1>2, <2>4 DEF Accounted, TombsFollow
<1> QED
  BY <1>3, <1>4 DEF Recheck

\* A file is put in place under a number that no registered segment has.
LEMMA PutFileAccounted ==
    ASSUME Serial, SegmentInv, Accounted, SegmentInv',
           \/ \E b \in Builders : BackgroundPutFile(b)
           \/ \E t \in Threads : \E kind : FlushPutFile(t, kind)
    PROVE  Accounted'
<1>1. TypeOK
  BY DocTypes
<1>2. ASSUME NEW b \in Builders, BackgroundPutFile(b) PROVE LedgerUntouched
  <2>1. /\ UNCHANGED <<last, metaSegments, seqFloor, up, nextSeq, buffer, content, tombstones, metaTombstones, pc,
                       req, wal, walSealed, walBuf>>
        /\ segFiles' = PutFile(segFiles, flushing[b].seq, content[b])
        /\ \A c \in Builders : flushing'[c].seq = flushing[c].seq /\ (InFlight(c)' <=> InFlight(c))
    BY <1>1, <1>2 DEF BackgroundPutFile, searched, log, process, TypeOK, Flushing, InFlight
  <2>2. flushing[b].seq \notin metaSegments
    BY <1>1, <1>2, NumberTypes DEF BackgroundPutFile, SegmentInv, Shape, Flights, InFlight, Above
  <2>3. \A f \in metaSegments : (f \in DOMAIN segFiles' <=> f \in DOMAIN segFiles) /\
                                (f \in DOMAIN segFiles => segFiles'[f] = segFiles[f])
    BY <2>1, <2>2 DEF PutFile
  <2> QED
    BY <2>1, <2>3 DEF LedgerUntouched, Log
<1>3. ASSUME NEW t \in Threads, NEW kind, FlushPutFile(t, kind) PROVE LedgerUntouched
  <2>1. /\ UNCHANGED <<last, metaSegments, seqFloor, up, nextSeq, buffer, content, tombstones, metaTombstones,
                       flushing, wal, walSealed, walBuf>>
        /\ segFiles' = PutFile(segFiles, nextSeq - 1, content[buffer])
        /\ pc[t] = "idle" /\ pc'[t] = "register" /\ up /\ bufferDocs > 0
        /\ \A u \in Threads : u = t
    BY <1>1, <1>3, OnlyOne DEF FlushPutFile, Begin, Goto, pipeline, searched, log, process, TypeOK, FlushSeq
  <2>2. nextSeq - 1 \notin metaSegments
    <3>1. PICK v \in content[buffer] : TRUE
      BY <1>1, <2>1 DEF SegmentInv, Shape, Buffered, TypeOK
    <3>2. Above(v.seq) /\ v.seq < nextSeq /\ v.seq \in Nat /\ nextSeq \in Nat
      BY <1>1, NumberTypes DEF SegmentInv, Shape, Buffered, Young, Base, CoverInv, Covered, TypeOK
    <3> QED
      BY <1>1, <3>2, NumberTypes DEF Above
  <2>3. \A f \in metaSegments : (f \in DOMAIN segFiles' <=> f \in DOMAIN segFiles) /\
                                (f \in DOMAIN segFiles => segFiles'[f] = segFiles[f])
    BY <2>1, <2>2 DEF PutFile
  <2> QED
    BY <2>1, <2>3 DEF LedgerUntouched, Log, InFlight, ResetLocked
<1> QED
  BY <1>2, <1>3, LedgerUntouchedKeeps

LEMMA BackgroundPublishAccounted ==
    ASSUME SegmentInv, Accounted, NEW b \in Builders, BackgroundPublish(b) PROVE Accounted'
<1>1. TypeOK
  BY DocTypes
<1>2. LedgerUntouched
  BY <1>1 DEF BackgroundPublish, LedgerUntouched, InFlight, Log, disk, log, process, TypeOK, NotFlushed,
              SegmentInv, Base, CoverInv, OwnInv, Owned
<1> QED
  BY <1>2, LedgerUntouchedKeeps

\* A registered segment takes the place of its flush.
LEMMA BackgroundAddSegmentAccounted ==
    ASSUME Serial, SegmentInv, Accounted, NEW b \in Builders, BackgroundAddSegment(b), RegistersInOrder
    PROVE  Accounted'
<1> DEFINE f == flushing[b].seq
<1>1. TypeOK /\ IndInv
  BY DocTypes
<1>2. /\ UNCHANGED <<segFiles, metaTombstones, seqFloor, up, nextSeq, buffer, content, bufferDocs,
                     segRecords, pc, req, wal, walSealed, walBuf, last, tombstones>>
      /\ flushing[b].stage = "register" /\ metaSegments' = metaSegments \cup {f}
      /\ \A c \in Builders : flushing'[c].seq = flushing[c].seq /\ (InFlight(c)' <=> InFlight(c) /\ c # b)
      /\ \A s : Above(s)' <=> Above(s) /\ s > f
      /\ \A c \in Builders : InFlight(c)' =>
           flushing[c].seq > f /\ \A v \in content[c] : v.seq > f
  BY RegisteredFirst DEF SegmentInv
<1>3. /\ up /\ InFlight(b) /\ f \in DOMAIN segFiles /\ segFiles[f] = content[b]
      /\ f \in Nat /\ \A g \in metaSegments : g \in Nat /\ g < f
  <2>1. up
    BY <1>1, <1>2 DEF IndInv, DownIsCold, NotFlushed, TypeOK
  <2>2. InFlight(b) /\ f \in DOMAIN segFiles /\ segFiles[f] = content[b] /\ Above(f)
    BY <1>2 DEF SegmentInv, Base, FilesKept, Shape, Flights, InFlight
  <2> QED
    BY <1>1, <2>1, <2>2, NumberTypes DEF Above
<1>4. /\ \A v \in content[buffer] : v.seq > f /\ v.seq \in Nat /\ Above(v.seq)
      /\ \A c \in Builders : InFlight(c) => \A v \in content[c] : Above(v.seq) /\ v.seq \in Nat
      /\ \A g \in metaSegments \cap DOMAIN segFiles : \A v \in segFiles[g] : v.seq <= g /\ v.seq \in Nat
  BY <1>1, <1>2, NumberTypes DEF SegmentInv, Shape, Buffered, Flights, Young, Base, CoverInv, Covered, TypeOK
<1>5. ASSUME NEW d \in Docs PROVE DocInv(d)'
  <2> DEFINE s == last[d].seq
  <2>1. DocInv(d) /\ (Settling(d)' <=> Settling(d)) /\ s \in Nat
    BY <1>2, DocTypes DEF Accounted, Settling
  <2>2. Tells(d)'
    <3>1. Told(d)' = Told(d)
      BY <1>2 DEF Told
    <3> QED
      BY <1>2, <2>1, <3>1 DEF DocInv, Tells, Log
  <2>3. \A n : Ver(d, n) \in content[b] => Holds(d, n)'
    BY <1>2, <1>3 DEF Holds
  <2>4. \A n : d \notin DocsOf(content[b]) /\ Holds(d, n) => Holds(d, n)'
    BY <1>2, <1>3 DEF Holds
  <2>5. \A v : Ver(d, s) \in v => d \in DocsOf(v)
    BY DEF Ver, DocsOf
  <2>6. Settling(d) /\ last[d].op = "index" => Above(s) /\ s > f
    <3>1. ASSUME Settling(d) PROVE Above(s) /\ s > f
      <4>1. PICK t \in Threads : pc[t] = "apply" /\ Told(d) \in req[t].entries
        BY <2>1, <3>1 DEF Settling, DocInv, Tells
      <4>2. Young(s)
        BY <4>1 DEF SegmentInv, Shape, AtStep, Told
      <4> QED
        BY <1>2, <4>2 DEF Young
    <3> QED
      BY <3>1
  <2>7. ASSUME last[d].op = "index", ~ Settling(d) PROVE Located(d, s) /\ d \notin tombstones
    BY <1>3, <2>1, <2>7 DEF DocInv, Indexed
  <2>8. ASSUME NEW n, Located(d, n) PROVE Located(d, n)'
    <3>1. CASE Ver(d, n) \in content[buffer]
      BY <1>2, <3>1 DEF Located, LocatedWith
    <3>2. CASE d \notin DocsOf(content[buffer]) /\ Flown(d, n)
      <4>1. PICK a \in Builders :
              /\ InFlight(a) /\ Ver(d, n) \in content[a]
              /\ \A c \in Builders : InFlight(c) /\ d \in DocsOf(content[c]) => flushing[c].seq <= flushing[a].seq
        BY <3>2 DEF Flown
      <4>2. CASE a = b
        <5>1. \A c \in Builders : InFlight(c)' => d \notin DocsOf(content[c])
          BY <1>1, <1>2, <4>1, <4>2, NumberTypes
        <5>2. Holds(d, n)'
          BY <2>3, <4>1, <4>2
        <5> QED
          BY <1>2, <3>2, <5>1, <5>2 DEF Located, LocatedWith
      <4>3. CASE a # b
        <5>1. Flown(d, n)'
          BY <1>2, <4>1, <4>3 DEF Flown
        <5> QED
          BY <1>2, <3>2, <5>1 DEF Located, LocatedWith
      <4> QED
        BY <4>2, <4>3
    <3>3. CASE /\ d \notin DocsOf(content[buffer]) /\ Holds(d, n)
               /\ \A c \in Builders : InFlight(c) => d \notin DocsOf(content[c])
      <4>1. Holds(d, n)'
        BY <1>3, <2>4, <3>3
      <4> QED
        BY <1>2, <3>3, <4>1 DEF Located, LocatedWith
    <3> QED
      BY <2>8, <3>1, <3>2, <3>3 DEF Located, LocatedWith
  <2>9. ASSUME last[d].op = "index", ~ (Above(s) /\ s > f) PROVE (\A n : n = s => Holds(d, n)') /\ d \notin metaTombstones
    <3>1. ~ Settling(d)
      BY <2>6, <2>9
    <3>2. Located(d, s) /\ d \notin tombstones
      BY <2>7, <2>9, <3>1
    <3>3. Ver(d, s) \notin content[buffer]
      BY <1>4, <2>9 DEF Ver
    <3>4. ASSUME NEW a \in Builders, InFlight(a), Ver(d, s) \in content[a] PROVE a = b
      BY <1>2, <1>4, <2>9, <3>4 DEF Ver
    <3>5. \A n : n = s => Holds(d, n)'
      <4>1. ASSUME Flown(d, s) PROVE Ver(d, s) \in content[b]
        BY <3>4, <4>1 DEF Flown
      <4>2. ASSUME ~ Flown(d, s) PROVE Holds(d, s) /\ d \notin DocsOf(content[b])
        BY <1>3, <3>2, <3>3, <4>2 DEF Located, LocatedWith
      <4> HIDE DEF s
      <4> QED
        BY <2>3, <2>4, <4>1, <4>2
    <3>6. d \notin metaTombstones
      BY <1>3, <3>2 DEF Accounted, TombsFollow
    <3> QED
      BY <3>5, <3>6
  <2>10. Indexed(d)' /\ Deleted(d)'
    BY <1>2, <2>1, <2>7, <2>8, <2>9 DEF DocInv, Indexed, Deleted
  <2>11. Unwritten(d)'
    <3>1. last[d].op = "none" => \A g \in metaSegments' \cap DOMAIN segFiles : d \notin DocsOf(segFiles[g])
      BY <1>2, <1>3, <2>1 DEF DocInv, Unwritten
    <3> QED
      BY <1>2, <2>1, <3>1 DEF DocInv, Unwritten, Log
  <2> QED
    BY <2>2, <2>10, <2>11 DEF DocInv
<1> QED
  BY <1>2, <1>5 DEF Accounted, TombsFollow

LEMMA FlushAddSegmentAccounted ==
    ASSUME Serial, SegmentInv, Accounted, NEW t \in Threads, FlushAddSegment(t), RegistersInOrder
    PROVE  Accounted'
<1>1. TypeOK /\ IndInv
  BY DocTypes
<1>2. /\ UNCHANGED <<segFiles, metaTombstones, seqFloor, up, nextSeq, buffer, flushing, req, wal,
                     walSealed, walBuf, last, tombstones>>
      /\ up /\ pc[t] = "register" /\ pc'[t] = "rotate"
      /\ metaSegments' = metaSegments \cup {nextSeq - 1}
      /\ nextSeq - 1 \in DOMAIN segFiles /\ segFiles[nextSeq - 1] = content[buffer]
      /\ content'[buffer] = {} /\ \A c \in Builders \ {buffer} : content'[c] = content[c]
      /\ \A c \in Builders : ~ InFlight(c)
      /\ Young(nextSeq - 1)
  BY FlushAlone DEF SegmentInv
<1>3. /\ \A u \in Threads : u = t
      /\ nextSeq - 1 \in Nat /\ \A g \in metaSegments : g \in Nat /\ g < nextSeq - 1
      /\ \A c \in Builders : content'[c] \subseteq content[c]
  BY <1>1, <1>2, OnlyOne, NumberTypes DEF Young, Above
<1>4. ASSUME NEW d \in Docs PROVE DocInv(d)'
  <2> DEFINE s == last[d].seq
  <2>1. DocInv(d) /\ ~ Settling(d) /\ ~ Settling(d)' /\ s \in Nat /\ Told(d)' = Told(d)
    BY <1>2, <1>3, DocTypes DEF Accounted, Settling, Told
  <2>2. last[d].op \in {"index", "delete"} => ~ Above(s)'
    <3>1. last[d].op \in {"index", "delete"} => s < nextSeq
      BY <1>2, <2>1 DEF DocInv, Tells
    <3>2. Above(s)' => s > nextSeq - 1
      <4>1. nextSeq - 1 \in metaSegments'
        BY <1>2
      <4>2. s' = s
        BY <1>2
      <4> HIDE DEF s
      <4> QED
        BY <4>1, <4>2 DEF Above
    <3>3. nextSeq \in Nat /\ s \in Nat
      BY <1>1, <2>1 DEF TypeOK
    <3> HIDE DEF s
    <3> QED
      BY <3>1, <3>2, <3>3
  <2>3. Tells(d)'
    <3>1. /\ Tells(d) /\ Log' = Log
          /\ last[d].op \in {"index", "delete"} => ~ Above(last[d].seq)'
      BY <1>2, <2>1, <2>2 DEF DocInv, Log
    <3>2. \A u \in Threads : pc'[u] \notin ResetLocked \cup {"apply"}
      BY <1>2, <1>3 DEF ResetLocked
    <3> QED
      BY <1>2, <2>1, <3>1, <3>2 DEF Tells
  <2>4. last[d].op = "index" => Located(d, s) /\ d \notin tombstones /\ d \notin metaTombstones
    BY <1>2, <2>1 DEF DocInv, Indexed, Accounted, TombsFollow
  <2>5. ASSUME NEW n, Located(d, n) PROVE Holds(d, n)' /\ Located(d, n)'
    <3>1. Holds(d, n)'
      <4>1. CASE Ver(d, n) \in content[buffer]
        BY <1>2, <1>3, <4>1 DEF Holds
      <4>2. CASE d \notin DocsOf(content[buffer]) /\ Holds(d, n)
        BY <1>2, <1>3, <4>2 DEF Holds
      <4> QED
        BY <1>2, <2>5, <4>1, <4>2 DEF Located, LocatedWith, Flown
    <3>2. \A c \in Builders : ~ InFlight(c)'
      BY <1>2 DEF InFlight
    <3> QED
      BY <1>2, <3>1, <3>2 DEF Located, LocatedWith, DocsOf
  <2>6. Indexed(d)' /\ Deleted(d)'
    BY <1>2, <2>1, <2>4, <2>5 DEF DocInv, Indexed, Deleted
  <2>7. Unwritten(d)'
    <3>1. last[d].op = "none" => \A g \in metaSegments' \cap DOMAIN segFiles : d \notin DocsOf(segFiles[g])
      BY <1>1, <1>2, <2>1 DEF DocInv, Unwritten, TypeOK
    <3>2. \A c \in Builders : d \in DocsOf(content'[c]) => d \in DocsOf(content[c])
      BY <1>3 DEF DocsOf
    <3> QED
      BY <1>2, <2>1, <3>1, <3>2 DEF DocInv, Unwritten, Log
  <2> QED
    BY <2>3, <2>6, <2>7 DEF DocInv
<1> QED
  BY <1>2, <1>4 DEF Accounted, TombsFollow

\* The entries a rotation removes are at or below the high-water mark.
LEMMA RotateWALAccounted ==
    ASSUME Serial, SegmentInv, Accounted, NEW t \in Threads, RotateWAL(t) PROVE Accounted'
<1>1. TypeOK /\ IndInv
  BY DocTypes
<1>2. /\ UNCHANGED <<segFiles, metaSegments, metaTombstones, tombstones, seqFloor, nextSeq, up, buffer, content,
                     flushing, last>>
      /\ pc[t] = "rotate" /\ pc'[t] \in {"idle", "closeWAL"} /\ \A u \in Threads : u = t
      /\ Log' \subseteq Log
  BY <1>1, OnlyOne DEF RotateWAL, Goto, Return, Begin, pipeline, searched, process, TypeOK, Log
<1>3. up /\ nextSeq - 1 \in metaSegments
  BY <1>1, <1>2 DEF SegmentInv, Shape, AtStep, IndInv, DownIsCold
<1>4. \A d \in Docs : last[d].op \in {"index", "delete"} => ~ Above(last[d].seq)
  BY <1>1, <1>3, NumberTypes, DocTypes DEF Accounted, DocInv, Tells, Above
<1>5. LedgerUntouched
  BY <1>2, <1>4 DEF LedgerUntouched, InFlight, ResetLocked
<1> QED
  BY <1>5, LedgerUntouchedKeeps

-----------------------------------------------------------------------------
(* Deletes, Resets and stops.                                              *)

LEMMA AddTombstoneAccounted ==
    ASSUME Serial, SegmentInv, Accounted, NEW t \in Threads, AddTombstone(t) PROVE Accounted'
<1> DEFINE gone == DocsOf(req[t].entries)
<1>1. TypeOK /\ IndInv
  BY DocTypes
<1>2. /\ pc[t] = "apply" /\ req[t].kind = "delete" /\ pc'[t] = "idle"
      /\ \A u \in Threads : u = t
      /\ tombstones' = tombstones \cup gone /\ metaTombstones' = metaTombstones \cup gone
      /\ UNCHANGED <<wal, walSealed, walBuf, segFiles, metaSegments, seqFloor, up, nextSeq, buffer, flushing,
                     content, last>>
  BY <1>1, OnlyOne DEF AddTombstone, Return, Begin, Goto, pipeline, log, process, TypeOK
<1>3. ASSUME NEW d \in Docs PROVE DocInv(d)'
  <2>1. DocInv(d) /\ (Settling(d) <=> d \in gone) /\ ~ Settling(d)'
    BY <1>2 DEF Accounted, Settling
  <2>2. d \in gone => last[d].op = "delete"
    <3>1. d \in gone => Told(d) \in req[t].entries
      BY <1>2, <2>1 DEF DocInv, Tells
    <3> QED
      BY <1>2, <3>1 DEF SegmentInv, Shape, AtStep, Told
  <2>3. Tells(d)'
    BY <1>2, <2>1, TellsOn DEF DocInv, Log, ResetLocked
  <2>4. \A s : (Holds(d, s)' <=> Holds(d, s)) /\ (Located(d, s)' <=> Located(d, s)) /\ (Above(s)' <=> Above(s))
    BY <1>2 DEF Holds, Located, LocatedWith, Flown, InFlight, Above
  <2>5. Indexed(d)' /\ Deleted(d)'
    BY <1>2, <2>1, <2>2, <2>4 DEF DocInv, Indexed, Deleted
  <2>6. Unwritten(d)'
    BY <1>2, <2>1, <2>2 DEF DocInv, Unwritten, Log
  <2> QED
    BY <2>3, <2>5, <2>6 DEF DocInv
<1> QED
  BY <1>2, <1>3 DEF Accounted, TombsFollow

LEMMA ResetStepAccounted ==
    ASSUME Serial, SegmentInv, Accounted, NEW t \in Threads,
           ResetFiles(t) \/ ResetWAL(t) \/ ResetMeta(t) \/ ResetFloor(t)
    PROVE  Accounted'
<1>1. TypeOK /\ \A u \in Threads : u = t
  BY DocTypes, OnlyOne
<1>2. ASSUME pc'[t] # "apply", \A d \in Docs : last'[d].op = "unknown", TombsFollow' PROVE Accounted'
  BY <1>1, <1>2 DEF Accounted, DocInv, Tells, Indexed, Deleted, Unwritten
<1>3. CASE ResetFiles(t)
  <2>1. pc'[t] # "apply" /\ (\A d \in Docs : last'[d].op = "unknown")
    BY <1>1, <1>3 DEF ResetFiles, Goto, TypeOK
  <2>2. TombsFollow'
    BY <1>3 DEF ResetFiles, searched, process, Accounted, TombsFollow
  <2> QED
    BY <1>2, <2>1, <2>2
<1>4. CASE ResetWAL(t)
  <2>1. pc'[t] # "apply" /\ (\A d \in Docs : last'[d].op = "unknown")
    BY <1>1, <1>4 DEF ResetWAL, Goto, TypeOK, Accounted, DocInv, Tells, ResetLocked
  <2>2. TombsFollow'
    BY <1>4 DEF ResetWAL, searched, process, Accounted, TombsFollow
  <2> QED
    BY <1>2, <2>1, <2>2
<1>5. CASE ResetMeta(t)
  <2>1. pc'[t] # "apply" /\ (\A d \in Docs : last'[d].op = "unknown")
    BY <1>1, <1>5 DEF ResetMeta, Goto, TypeOK, Accounted, DocInv, Tells, ResetLocked
  <2>2. TombsFollow'
    BY <1>5 DEF ResetMeta, searched, process, Accounted, TombsFollow
  <2> QED
    BY <1>2, <2>1, <2>2
<1>6. CASE ResetFloor(t)
  <2>1. /\ pc[t] = "resetFloor" /\ pc'[t] = "idle" /\ \A d \in Docs : last'[d].op = "none"
        /\ UNCHANGED <<wal, walSealed, walBuf, segFiles, metaSegments, metaTombstones>> /\ tombstones' = {}
        /\ content' = [content EXCEPT ![buffer] = {}]
    BY <1>1, <1>6 DEF ResetFloor, Return, Begin, Goto, TypeOK
  <2>2. Log = {} /\ metaTombstones = {} /\ metaSegments = {} /\ NoBackgroundFlush
    BY <2>1 DEF SegmentInv, Shape, AtStep, Base, FilesKept, Resetting, ResetLocked
  <2>3. ASSUME NEW c \in Builders PROVE content'[c] = {}
    <3>1. CASE c = buffer
      BY <1>1, <2>1, <3>1 DEF TypeOK
    <3>2. CASE c # buffer
      <4>1. held[t] = {}
        BY <2>1 DEF SegmentInv, Base, CoverInv, OwnInv, HeldByPc
      <4>2. c \in freeBuffers
        BY <1>1, <2>2, <3>2, <4>1 DEF NoBackgroundFlush, SegmentInv, Base, CoverInv, OwnInv, Owned
      <4>3. content[c] = {}
        BY <4>2 DEF SegmentInv, Base, CoverInv, OwnInv, Owned
      <4> QED
        BY <1>1, <2>1, <3>2, <4>3 DEF TypeOK
    <3> QED
      BY <3>1, <3>2
  <2>4. \A d \in Docs : Unwritten(d)'
    BY <2>1, <2>2, <2>3 DEF Unwritten, Log, DocsOf
  <2>5. \A d \in Docs : Tells(d)' /\ Indexed(d)' /\ Deleted(d)'
    BY <1>1, <2>1 DEF Tells, Indexed, Deleted, ResetLocked
  <2> QED
    BY <2>1, <2>2, <2>4, <2>5 DEF Accounted, DocInv, TombsFollow
<1> QED
  BY <1>3, <1>4, <1>5, <1>6

\* The process ends: what the log and the manifest say is all there is.
LEMMA StopAccounted ==
    ASSUME SegmentInv, Accounted, Stop, Log' \subseteq Log,
           "delete" \notin Operations \/ \A t \in Threads : pc[t] # "apply",
           \A d \in Docs : \/ last'[d].op = "unknown"
                           \/ last'[d] = last[d] /\ (Told(d) \in Log => Told(d) \in Log')
    PROVE  Accounted'
<1>1. /\ up' = FALSE /\ tombstones' = {} /\ \A c \in Builders : content'[c] = {}
      /\ UNCHANGED <<segFiles, metaSegments, metaTombstones, seqFloor, nextSeq>>
      /\ \A t \in Threads : pc'[t] = "idle"
  BY DEF Stop
<1>2. ASSUME NEW d \in Docs PROVE DocInv(d)'
  <2>1. DocInv(d) /\ (\A s : Above(s)' <=> Above(s)) /\ (\A s : Holds(d, s)' <=> Holds(d, s))
    BY <1>1 DEF Accounted, Above, Holds
  <2>2. CASE last'[d].op = "unknown"
    BY <1>1, <2>2 DEF DocInv, Tells, Indexed, Deleted, Unwritten
  <2>3. CASE last'[d] = last[d] /\ (Told(d) \in Log => Told(d) \in Log')
    <3>1. Told(d)' = Told(d)
      BY <2>3 DEF Told
    <3>2. Tells(d)'
      BY <1>1, <2>1, <2>3, <3>1 DEF DocInv, Tells, ResetLocked
    <3>3. Indexed(d)'
      BY <1>1, <2>1, <2>3 DEF DocInv, Indexed
    <3>4. Deleted(d)'
      BY <1>1, <2>1, <2>3 DEF DocInv, Deleted, Tells, Settling
    <3>5. Unwritten(d)'
      BY <1>1, <2>1, <2>3 DEF DocInv, Unwritten, DocsOf
    <3> QED
      BY <3>2, <3>3, <3>4, <3>5 DEF DocInv
  <2> QED
    BY <2>2, <2>3
<1> QED
  BY <1>1, <1>2 DEF Accounted, TombsFollow

LEMMA CrashAccounted == ASSUME Serial, SegmentInv, Accounted, Crash PROVE Accounted'
<1>1. "delete" \notin Operations /\ Log' \subseteq Log
  BY DEF Serial, Crash, Stop, Log
<1>2. ASSUME NEW d \in Docs
      PROVE  \/ last'[d].op = "unknown"
             \/ last'[d] = last[d] /\ (Told(d) \in Log => Told(d) \in Log')
  <2>1. CASE \E e \in walBuf : e.doc = d
    BY <2>1 DEF Crash
  <2>2. CASE ~ \E e \in walBuf : e.doc = d
    <3>1. Told(d) \notin walBuf
      BY <2>2 DEF Told
    <3> QED
      BY <2>2, <3>1 DEF Crash, Stop, Log
  <2> QED
    BY <2>1, <2>2
<1> QED
  BY <1>1, <1>2, StopAccounted DEF Crash

LEMMA CloseWALAccounted ==
    ASSUME Serial, SegmentInv, Accounted, NEW t \in Threads, CloseWAL(t) PROVE Accounted'
<1>1. \A u \in Threads : pc[u] # "apply"
  BY OnlyOne DEF CloseWAL
<1>2. Log' = Log /\ last' = last
  BY DEF CloseWAL, Stop, Log
<1> QED
  BY <1>1, <1>2, StopAccounted DEF CloseWAL

\* What replay makes of the last operation on d, once that has left the buffer.
LEMMA ReplayedDoc ==
    ASSUME IndInv, NEW d \in Docs, Tells(d), last[d].op \in {"index", "delete"}, last[d].seq \in Nat,
           \A e \in walBuf : e.doc # d
    PROVE  /\ ~ Above(last[d].seq) => d \notin DocsOf(Replayed)
           /\ Above(last[d].seq) => Told(d) \in Latest(Replayed)
           /\ Above(last[d].seq) /\ last[d].op = "index" =>
                Told(d) \in Latest(IndexOf(Replayed)) /\ d \notin LastDeleted(Replayed)
           /\ Above(last[d].seq) /\ last[d].op = "delete" => d \in LastDeleted(Replayed)
<1> DEFINE s == last[d].seq
<1>1. TypeOK
  BY DEF IndInv
<1>2. Told(d).seq = s /\ Told(d).op = last[d].op /\ Told(d).doc = d
  BY DEF Told
<1>3. \A e \in Replayed : e.doc = d =>
        e.seq \in Nat /\ Above(e.seq) /\ e.seq <= s /\ (e.seq = s => e = Told(d))
  BY <1>1, ReplayedAbove, NumberTypes DEF Tells, Log
<1>4. ~ Above(s) => d \notin DocsOf(Replayed)
  BY <1>1, <1>3, NumberTypes DEF Above, DocsOf
<1>5. ASSUME Above(s) PROVE Told(d) \in Replayed
  BY <1>2, <1>5, ReplayedAbove DEF Tells, Log
<1>6. ASSUME Above(s) PROVE Told(d) \in Latest(Replayed)
  BY <1>2, <1>3, <1>5, <1>6 DEF Latest
<1>7. ASSUME Above(s), last[d].op = "index"
      PROVE  Told(d) \in Latest(IndexOf(Replayed)) /\ d \notin LastDeleted(Replayed)
  <2>1. Told(d) \in IndexOf(Replayed) /\ IndexOf(Replayed) \subseteq Replayed
    BY <1>2, <1>5, <1>7 DEF IndexOf
  <2>2. Told(d) \in Latest(IndexOf(Replayed))
    BY <1>2, <1>3, <2>1 DEF Latest
  <2>3. ASSUME NEW g \in Latest(Replayed), g.op = "delete", g.doc = d PROVE FALSE
    <3>1. g \in Replayed /\ s <= g.seq
      BY <1>2, <1>5, <1>7, <2>3 DEF Latest
    <3> QED
      BY <1>2, <1>3, <1>7, <2>3, <3>1
  <2> QED
    BY <2>2, <2>3 DEF LastDeleted
<1>8. Above(s) /\ last[d].op = "delete" => d \in LastDeleted(Replayed)
  BY <1>2, <1>6 DEF LastDeleted
<1> QED
  BY <1>4, <1>6, <1>7, <1>8

\* Replay restores what the log and the manifest say.
LEMMA LoadFromMetaAccounted ==
    ASSUME SegmentInv, Accounted, LoadFromMeta PROVE Accounted'
<1> DEFINE IR == IndexOf(Replayed)
           vs == Upsert({}, IR)
<1>1. TypeOK /\ IndInv
  BY DocTypes
<1>2. /\ ~ up /\ nextSeq' = ResumeSeq
      /\ content' = [content EXCEPT ![buffer] = vs]
      /\ tombstones' = (metaTombstones \ DocsOf(IR)) \cup LastDeleted(Replayed)
      /\ metaTombstones' = metaTombstones \ DocsOf(IR)
      /\ walSealed' = {e \in walSealed : e.seq > HighWater}
      /\ UNCHANGED <<wal, walBuf, segFiles, metaSegments, seqFloor, buffer, flushing, pc, req, last>>
  BY DEF LoadFromMeta, ReplayedTombstones
<1>3. /\ walBuf = {} /\ \A t \in Threads : pc[t] = "idle"
      /\ \A c \in Builders : ~ InFlight(c) /\ ~ InFlight(c)' /\ content[c] = {}
  BY <1>1, <1>2 DEF IndInv, DownIsCold, NotFlushed, InFlight, SegmentInv, Base, CoverInv, Covered
<1>4. /\ content'[buffer] = vs /\ buffer \in Builders
      /\ \A c \in Builders \ {buffer} : content'[c] = {}
  BY <1>1, <1>2, <1>3 DEF TypeOK
<1>5. /\ DocsOf(vs) = DocsOf(IR) /\ \A e \in Latest(IR) : Ver(e.doc, e.seq) \in vs
      /\ DocsOf(IR) \subseteq DocsOf(Replayed) /\ LastDeleted(Replayed) \subseteq DocsOf(Replayed)
      /\ DocsOf(Replayed) \subseteq DocsOf(Log)
  <2>1. DocsOf(vs) = DocsOf(IR) /\ \A e \in Latest(IR) : Ver(e.doc, e.seq) \in vs
    BY <1>1, ReplayHolds
  <2>2. DocsOf(IR) \subseteq DocsOf(Replayed) /\ LastDeleted(Replayed) \subseteq DocsOf(Replayed)
    BY DEF IndexOf, DocsOf, LastDeleted, Latest
  <2>3. DocsOf(Replayed) \subseteq DocsOf(Log)
    BY <1>1, ReplayedAbove DEF DocsOf, Log
  <2> QED
    BY <2>1, <2>2, <2>3
<1> HIDE DEF vs
<1>6. Log' \subseteq Log /\ \A e \in Log : Above(e.seq) => e \in Log'
  <2>1. \A e \in walSealed : Above(e.seq) => e.seq > HighWater
    BY <1>1, AboveHighWater, NumberTypes DEF Log
  <2> QED
    BY <1>2, <2>1 DEF Log
<1>7. ASSUME NEW d \in Docs PROVE DocInv(d)'
  <2> DEFINE s == last[d].seq
  <2>1. /\ DocInv(d) /\ s \in Nat /\ Told(d)' = Told(d) /\ ~ Settling(d) /\ ~ Settling(d)'
        /\ \A n : Above(n)' <=> Above(n)
    BY <1>2, <1>3, DocTypes DEF Accounted, Told, Settling, Above
  <2>2. \A n : Holds(d, n)' <=> Holds(d, n)
    BY <1>2 DEF Holds
  <2>3. last[d].op \in {"index", "delete"} =>
           /\ ~ Above(s) => d \notin DocsOf(Replayed)
           /\ Above(s) /\ last[d].op = "index" => Told(d) \in Latest(IR) /\ d \notin LastDeleted(Replayed)
    BY <1>1, <1>3, <2>1, ReplayedDoc DEF DocInv
  <2>4. last[d].op \in {"index", "delete"} => s < ResumeSeq
    <3>1. HighWater \in Nat /\ ResumeSeq \in Nat /\ HighWater < ResumeSeq
             /\ \A e \in wal \cup walSealed : e.seq < ResumeSeq
      BY <1>1, HighWaterBounds, ResumeSeqBounds
    <3>2. ~ Above(s) => s <= HighWater
      BY <1>1, <2>1, <3>1, AboveHighWater
    <3>3. Told(d).seq = s
      BY DEF Told
    <3> QED
      BY <1>3, <2>1, <3>1, <3>2, <3>3 DEF DocInv, Tells, Log
  <2>5. Tells(d)'
    <3>1. last[d].op \in {"index", "delete"} =>
            \A e \in Log' : e.doc = d => e.seq <= s /\ (e.seq = s => e = Told(d))
      BY <1>6, <2>1 DEF DocInv, Tells
    <3>2. last[d].op \in {"index", "delete"} /\ Above(s) => Told(d) \in Log'
      <4>1. Told(d).seq = s
        BY DEF Told
      <4> QED
        BY <1>6, <2>1, <4>1 DEF DocInv, Tells
    <3> QED
      BY <1>2, <1>3, <2>1, <2>4, <3>1, <3>2 DEF DocInv, Tells, ResetLocked
  <2>6. ASSUME last[d].op = "index" PROVE (\A n : n = s => Located(d, n)') /\ d \notin tombstones'
    <3>1. CASE Above(s)
      <4>1. Told(d).doc = d /\ Told(d).seq = s /\ Told(d) \in Latest(IR) /\ d \notin LastDeleted(Replayed)
        BY <2>3, <2>6, <3>1 DEF Told
      <4>2. Ver(d, s) \in vs /\ d \in DocsOf(IR)
        BY <1>5, <4>1 DEF Latest, DocsOf
      <4> QED
        BY <1>2, <1>4, <4>1, <4>2 DEF Located, LocatedWith
    <3>2. CASE ~ Above(s)
      <4>1. d \notin DocsOf(vs) /\ d \notin LastDeleted(Replayed)
        BY <1>5, <2>3, <2>6, <3>2
      <4>2. Holds(d, s) /\ d \notin metaTombstones
        BY <2>1, <2>6, <3>2 DEF DocInv, Indexed
      <4> HIDE DEF s
      <4> QED
        BY <1>2, <1>3, <1>4, <2>2, <4>1, <4>2 DEF Located, LocatedWith
    <3> QED
      BY <3>1, <3>2
  <2>7. Indexed(d)'
    BY <1>2, <2>1, <2>2, <2>6 DEF DocInv, Indexed
  <2>8. Deleted(d)'
    <3>1. ASSUME last[d].op = "delete" PROVE d \notin DocsOf(IR)
      <4>1. "delete" \in Operations /\ ~ Wiping
        BY <1>3, <2>1, <3>1 DEF DocInv, Tells, Wiping, ResetLocked
      <4>2. \A e \in IR : e \in IndexOf(Log) /\ Above(e.seq)
        BY <1>1, ReplayedAbove DEF Log, IndexOf
      <4> QED
        BY <1>2, <4>1, <4>2 DEF SegmentInv, LogReaches, EntryReaches, DocsOf
    <3> QED
      BY <1>2, <2>1, <3>1 DEF DocInv, Deleted
  <2>9. Unwritten(d)'
    <3>1. d \in DocsOf(Log') => d \in DocsOf(Log)
      BY <1>6 DEF DocsOf
    <3>2. \A c \in Builders : d \in DocsOf(content'[c]) => d \in DocsOf(Log)
      BY <1>4, <1>5 DEF DocsOf
    <3> QED
      BY <1>2, <1>5, <2>1, <3>1, <3>2 DEF DocInv, Unwritten
  <2> QED
    BY <2>5, <2>7, <2>8, <2>9 DEF DocInv
<1> QED
  BY <1>2, <1>7 DEF Accounted, TombsFollow

LEMMA InitAccounted == Init => Accounted
BY DEF Init, Accounted, DocInv, Tells, Indexed, Deleted, Unwritten, TombsFollow, Log, DocsOf, ResetLocked

LEMMA NewRequestAccounted ==
    ASSUME Serial, SegmentInv, SegmentInv', Accounted, NEW t \in Threads, NewRequest(t) PROVE Accounted'
<1>1. TypeOK
  BY DocTypes
<1>2. CASE IndexDocs(t)
  <2>1. PICK docs \in Batches : LogRequest(t, "index", BatchLog(nextSeq, docs), Len(docs))
    BY <1>2 DEF IndexDocs, BatchLog
  <2>2. /\ BatchLog(nextSeq, docs) \in SUBSET Entry /\ Len(docs) \in Nat \ {0}
        /\ \A e \in BatchLog(nextSeq, docs) :
              e.seq >= nextSeq /\ e.seq < nextSeq + Len(docs) /\ e.op = "index"
        /\ \A e, f \in BatchLog(nextSeq, docs) : e.seq = f.seq => e = f
    BY <1>1, NumberTypes, BatchEntries, BatchLength
  <2> QED
    BY <2>1, <2>2, LogRequestAccounted
<1>3. CASE DeleteDocument(t)
  <2>1. PICK d \in Docs :
          LogRequest(t, "delete", {[seq |-> nextSeq, op |-> "delete", doc |-> d]}, 1)
    BY <1>3 DEF DeleteDocument
  <2> DEFINE es == {[seq |-> nextSeq, op |-> "delete", doc |-> d]}
  <2>2. /\ es \in SUBSET Entry /\ \A e, f \in es : e = f
        /\ \A e \in es : e.seq >= nextSeq /\ e.seq < nextSeq + 1 /\ e.op = "delete"
    BY <1>1, NumberTypes DEF Entry
  <2>3. LogRequest(t, "delete", es, 1)
    BY <2>1
  <2> HIDE DEF es
  <2> QED
    BY <2>2, <2>3, LogRequestAccounted
<1>4. ~ IndexDocsNoWAL(t)
  BY DEF IndexDocsNoWAL, Serial
<1> QED
  BY <1>2, <1>3, <1>4, PoolStepAccounted, PutFileAccounted DEF NewRequest, Flush, CloseFlush

LEMMA NextAccounted ==
    ASSUME Serial, SegmentInv, SegmentInv', Accounted, [Next /\ RegistersInOrder]_vars PROVE Accounted'
<1>1. ASSUME NEW t \in Threads, ThreadStep(t), RegistersInOrder PROVE Accounted'
  BY <1>1, AddDocsToBufferAccounted, PoolStepAccounted, RecheckAccounted, AddTombstoneAccounted,
     FlushAddSegmentAccounted, RotateWALAccounted, CloseWALAccounted, ResetStepAccounted DEF ThreadStep
<1>2. ASSUME NEW b \in Builders, BackgroundStep(b), RegistersInOrder PROVE Accounted'
  <2>1. ~ BackgroundFlushError(b)
    BY DEF BackgroundFlushError, Serial
  <2> QED
    BY <1>2, <2>1, PutFileAccounted, BackgroundAddSegmentAccounted, BackgroundPublishAccounted DEF BackgroundStep
<1>3. CASE FlushWALBuffer \/ Rest \/ UNCHANGED vars
  <2>1. LedgerUntouched
    BY <1>3 DEF FlushWALBuffer, Rest, vars, LedgerUntouched, Log, InFlight, disk, pipeline, searched, log, process
  <2> QED
    BY <2>1, LedgerUntouchedKeeps
<1> QED
  BY <1>1, <1>2, <1>3, NewRequestAccounted, CrashAccounted, LoadFromMetaAccounted DEF Next

-----------------------------------------------------------------------------
(* What a search and a restart find.                                       *)

\* The inductive invariant of the durability theorems.
DurInv == SegmentInv /\ Accounted

LEMMA InitDurInv == Init => DurInv
BY InitSegmentInv, InitAccounted DEF DurInv

LEMMA NextDurInv ==
    ASSUME Serial, DurInv, [Next]_vars, [RegistersInOrder]_vars PROVE DurInv'
<1>1. SegmentInv'
  BY NextSegmentInv DEF DurInv
<1>2. [Next /\ RegistersInOrder]_vars
  OBVIOUS
<1> QED
  BY <1>1, <1>2, NextAccounted DEF DurInv

\* The version of d in a set that holds one version of each document.
LEMMA ChosenVersion ==
    ASSUME NEW vs \in SUBSET Version, OneEach(vs), NEW d, NEW s, Ver(d, s) \in vs
    PROVE  d \in DocsOf(vs) /\ (CHOOSE v \in vs : v.doc = d).seq = s
<1>1. Ver(d, s).doc = d /\ Ver(d, s).seq = s
  BY DEF Ver
<1>2. \A v \in vs : v.doc = d => v = Ver(d, s)
  BY <1>1 DEF OneEach
<1> QED
  BY <1>1, <1>2 DEF DocsOf

\* The segments show the version that the newest of them with d holds.
LEMMA SegmentVersionFound ==
    ASSUME SegmentInv, NEW d, NEW s, Holds(d, s) PROVE SegmentVersion(metaSegments, d) = s
<1> DEFINE holders == {f \in metaSegments \cap DOMAIN segFiles : d \in DocsOf(segFiles[f])}
<1>1. TypeOK /\ IndInv
  BY DocTypes
<1>2. PICK f \in metaSegments : /\ f \in DOMAIN segFiles /\ Ver(d, s) \in segFiles[f]
                                /\ \A g \in holders : g <= f
  BY DEF Holds
<1>3. segFiles[f] \in SUBSET Version /\ OneEach(segFiles[f])
  BY <1>1, <1>2 DEF TypeOK, SegmentInv, Shape, OnePerDoc
<1>4. d \in DocsOf(segFiles[f]) /\ (CHOOSE v \in segFiles[f] : v.doc = d).seq = s
  BY <1>2, <1>3, ChosenVersion
<1>5. holders \in SUBSET Nat /\ f \in holders /\ f \in Nat
  BY <1>1, <1>2, <1>4, NumberTypes
<1> HIDE DEF holders
<1>6. Max(holders) \in holders /\ \A k \in holders : Max(holders) >= k
  BY <1>2, <1>5, MaxOfBounded
<1>7. Max(holders) = f
  <2>1. Max(holders) <= f /\ f <= Max(holders) /\ Max(holders) \in Nat
    BY <1>2, <1>5, <1>6
  <2> QED
    BY <1>5, <2>1
<1>8. SegmentVersion(metaSegments, d) =
        IF holders = {} THEN Absent ELSE (CHOOSE v \in segFiles[Max(holders)] : v.doc = d).seq
  BY DEF SegmentVersion, holders
<1> QED
  BY <1>4, <1>5, <1>7, <1>8

LEMMA SegmentVersionAbsent ==
    ASSUME NEW d, \A f \in metaSegments \cap DOMAIN segFiles : d \notin DocsOf(segFiles[f])
    PROVE  SegmentVersion(metaSegments, d) = Absent
BY DEF SegmentVersion

LEMMA SettledIsSettled == ASSUME NEW d \in Docs, Settled(d) PROVE ~ Settling(d) /\ \A e \in walBuf : e.doc # d
BY DEF Settled, Settling

LEMMA DurableHighWater == ASSUME DurInv PROVE HighWaterIsDurable
<1> SUFFICES ASSUME NEW d \in Docs, Settled(d), last[d].op \in {"index", "delete"}, last[d].seq <= HighWater
             PROVE  Reflects(Visible(d, metaTombstones, {}, metaSegments), last[d])
  BY DEF HighWaterIsDurable
<1>1. DocInv(d) /\ ~ Settling(d) /\ IndInv /\ SegmentInv /\ last[d].seq \in Nat
  BY DocTypes, SettledIsSettled DEF DurInv, Accounted
<1>2. ~ Above(last[d].seq)
  BY <1>1, AboveHighWater, HighWaterBounds
<1>3. CASE last[d].op = "index"
  <2>1. Holds(d, last[d].seq) /\ d \notin metaTombstones
    BY <1>1, <1>2, <1>3 DEF DocInv, Indexed
  <2>2. SegmentVersion(metaSegments, d) = last[d].seq
    BY <1>1, <2>1, SegmentVersionFound
  <2>3. Visible(d, metaTombstones, {}, metaSegments) = last[d].seq
    BY <2>1, <2>2 DEF Visible, DocsOf
  <2> QED
    BY <1>3, <2>3 DEF Reflects
<1>4. CASE last[d].op = "delete"
  <2>1. Visible(d, metaTombstones, {}, metaSegments) = Absent
    BY <1>1, <1>4 DEF DocInv, Deleted, Visible
  <2> QED
    BY <1>4, <2>1 DEF Reflects
<1> QED
  BY <1>3, <1>4

\* What a restart would find of a document whose last entry has left the buffer.
LEMMA RecoveredIsLast ==
    ASSUME DurInv, NEW d \in Docs, \A e \in walBuf : e.doc # d
    PROVE  Reflects(RecoveredVersion(d), last[d])
<1> DEFINE IR == IndexOf(Replayed)
           vs == Upsert({}, IR)
           s  == last[d].seq
<1>1. DocInv(d) /\ IndInv /\ SegmentInv /\ s \in Nat /\ last[d] \in LastOp
  BY DocTypes DEF DurInv, Accounted
<1>2. /\ vs \in SUBSET Version /\ OneEach(vs) /\ DocsOf(vs) = DocsOf(IR)
      /\ \A e \in Latest(IR) : Ver(e.doc, e.seq) \in vs
  BY <1>1, ReplayHolds
<1>3. /\ DocsOf(IR) \subseteq DocsOf(Replayed) /\ LastDeleted(Replayed) \subseteq DocsOf(Replayed)
      /\ DocsOf(Replayed) \subseteq DocsOf(Log)
  <2>1. DocsOf(IR) \subseteq DocsOf(Replayed) /\ LastDeleted(Replayed) \subseteq DocsOf(Replayed)
    BY DEF IndexOf, DocsOf, LastDeleted, Latest
  <2> QED
    BY <1>1, <2>1, ReplayedAbove DEF DocsOf, Log
<1> HIDE DEF vs
<1>4. RecoveredVersion(d) =
        IF d \in ReplayedTombstones THEN Absent
        ELSE IF d \in DocsOf(vs) THEN (CHOOSE v \in vs : v.doc = d).seq
             ELSE SegmentVersion(metaSegments, d)
  BY DEF RecoveredVersion, Visible, vs
<1>5. CASE last[d].op = "none"
  <2>1. d \notin DocsOf(Replayed) /\ d \notin metaTombstones
    BY <1>1, <1>3, <1>5 DEF DocInv, Unwritten
  <2>2. SegmentVersion(metaSegments, d) = Absent
    BY <1>1, <1>5, SegmentVersionAbsent DEF DocInv, Unwritten
  <2>3. RecoveredVersion(d) = Absent
    BY <1>2, <1>3, <1>4, <2>1, <2>2
  <2> QED
    BY <1>5, <2>3 DEF Reflects
<1>6. CASE last[d].op = "delete"
  <2>1. d \in ReplayedTombstones
    <3>1. ~ Above(s) => d \notin DocsOf(Replayed)
      BY <1>1, <1>6, ReplayedDoc DEF DocInv
    <3>2. Above(s) => d \in LastDeleted(Replayed)
      BY <1>1, <1>6, ReplayedDoc DEF DocInv
    <3>3. Settling(d) => Above(s)
      <4>1. ASSUME NEW t \in Threads, pc[t] = "apply", Told(d) \in req[t].entries PROVE Above(s)
        BY <1>1, <4>1 DEF SegmentInv, Shape, AtStep, Young, Told
      <4> QED
        BY <1>1, <4>1 DEF Settling, DocInv, Tells
    <3>4. ~ Above(s) => d \in metaTombstones
      BY <1>1, <1>6, <3>3 DEF DocInv, Deleted
    <3> QED
      BY <1>3, <3>1, <3>2, <3>4 DEF ReplayedTombstones
  <2> QED
    BY <1>4, <1>6, <2>1 DEF Reflects
<1>7. CASE last[d].op = "index" /\ Above(s)
  <2>1. Told(d) \in Latest(IR) /\ d \notin LastDeleted(Replayed)
    BY <1>1, <1>7, ReplayedDoc DEF DocInv
  <2>2. Ver(d, s) \in vs
    BY <1>2, <2>1 DEF Told
  <2>3. d \in DocsOf(vs) /\ (CHOOSE v \in vs : v.doc = d).seq = s
    BY <1>2, <2>2, ChosenVersion
  <2>4. d \notin ReplayedTombstones
    BY <1>2, <2>1, <2>3 DEF ReplayedTombstones
  <2>5. RecoveredVersion(d) = s
    BY <1>4, <2>3, <2>4
  <2> QED
    BY <1>7, <2>5 DEF Reflects
<1>8. CASE last[d].op = "index" /\ ~ Above(s)
  <2>1. d \notin DocsOf(Replayed)
    BY <1>1, <1>8, ReplayedDoc DEF DocInv
  <2>2. Holds(d, s) /\ d \notin metaTombstones
    BY <1>1, <1>8 DEF DocInv, Indexed
  <2>3. d \notin ReplayedTombstones /\ d \notin DocsOf(vs)
    BY <1>2, <1>3, <2>1, <2>2 DEF ReplayedTombstones
  <2>4. SegmentVersion(metaSegments, d) = s
    BY <1>1, <2>2, SegmentVersionFound
  <2>5. RecoveredVersion(d) = s
    BY <1>4, <2>3, <2>4
  <2> QED
    BY <1>8, <2>5 DEF Reflects
<1> QED
  <2>1. last[d].op \in {"none", "index", "delete", "unknown"}
    BY <1>1 DEF LastOp
  <2>2. CASE last[d].op = "unknown"
    BY <2>2 DEF Reflects
  <2> QED
    BY <1>5, <1>6, <1>7, <1>8, <2>1, <2>2

LEMMA MemoryIsLast == ASSUME DurInv PROVE MemoryFollowsLog
<1> SUFFICES ASSUME up, NoBackgroundFlush, \A t \in Threads : pc[t] = "idle", NEW d \in Docs
             PROVE  Reflects(MemoryVersion(d), last[d])
  BY DEF MemoryFollowsLog
<1> DEFINE s == last[d].seq
<1>1. DocInv(d) /\ SegmentInv /\ TypeOK /\ s \in Nat /\ last[d] \in LastOp /\ ~ Settling(d)
  BY DocTypes DEF DurInv, Accounted, Settling
<1>2. segRecords = metaSegments
  BY <1>1 DEF SegmentInv, Shape, Published, NoBackgroundFlush
<1>3. content[buffer] \in SUBSET Version /\ OneEach(content[buffer]) /\ buffer \in Builders
  BY <1>1 DEF TypeOK, SegmentInv, Shape, OnePerDoc
<1>4. MemoryVersion(d) =
        IF d \in tombstones THEN Absent
        ELSE IF d \in DocsOf(content[buffer]) THEN (CHOOSE v \in content[buffer] : v.doc = d).seq
             ELSE SegmentVersion(metaSegments, d)
  BY <1>2 DEF MemoryVersion, Visible
<1>5. CASE last[d].op = "none"
  <2>1. d \notin tombstones /\ d \notin DocsOf(content[buffer])
    BY <1>1, <1>3, <1>5 DEF DocInv, Unwritten
  <2>2. SegmentVersion(metaSegments, d) = Absent
    BY <1>1, <1>5, SegmentVersionAbsent DEF DocInv, Unwritten
  <2> QED
    BY <1>4, <1>5, <2>1, <2>2 DEF Reflects
<1>6. CASE last[d].op = "delete"
  BY <1>1, <1>4, <1>6 DEF Reflects, DocInv, Deleted
<1>7. CASE last[d].op = "index"
  <2>1. Located(d, s) /\ d \notin tombstones
    BY <1>1, <1>7 DEF DocInv, Indexed
  <2>2. \A b \in Builders : ~ InFlight(b)
    BY DEF NoBackgroundFlush, InFlight
  <2>3. CASE Ver(d, s) \in content[buffer]
    <3>1. d \in DocsOf(content[buffer]) /\ (CHOOSE v \in content[buffer] : v.doc = d).seq = s
      BY <1>3, <2>3, ChosenVersion
    <3> QED
      BY <1>4, <1>7, <2>1, <3>1 DEF Reflects
  <2>4. CASE d \notin DocsOf(content[buffer]) /\ Holds(d, s)
    <3>1. SegmentVersion(metaSegments, d) = s
      BY <1>1, <2>4, SegmentVersionFound
    <3> QED
      BY <1>4, <1>7, <2>1, <2>4, <3>1 DEF Reflects
  <2> QED
    BY <2>1, <2>2, <2>3, <2>4 DEF Located, LocatedWith, Flown
<1> QED
  <2>1. last[d].op \in {"none", "index", "delete", "unknown"}
    BY <1>1 DEF LastOp
  <2>2. CASE last[d].op = "unknown"
    BY <2>2 DEF Reflects
  <2> QED
    BY <1>5, <1>6, <1>7, <2>1, <2>2

\* An operation at or below the high-water mark ("the highest WAL seq whose effects
\* are already durable outside the WAL") has its effect in the registered segments
\* and the manifest's tombstones, which are all that a rotation leaves.
THEOREM HighWaterSuffices ==
    ASSUME Serial PROVE Spec /\ FlushesInOrder => []HighWaterIsDurable
<1>1. DurInv /\ [Next]_vars /\ [RegistersInOrder]_vars => DurInv'
  BY NextDurInv
<1> QED
  BY <1>1, InitDurInv, DurableHighWater, PTL DEF Spec, FlushesInOrder

\* At any instant, a restart would bring back the last operation on every document
\* whose entry has left the bufio.Writer: nothing acknowledged is lost between the
\* log, the builders, the flushes on their way, the segments and the tombstones.
THEOREM AcknowledgedSurvives ==
    ASSUME Serial PROVE Spec /\ FlushesInOrder => []AcknowledgedIsDurable
<1>1. DurInv /\ [Next]_vars /\ [RegistersInOrder]_vars => DurInv'
  BY NextDurInv
<1>2. DurInv => AcknowledgedIsDurable
  BY RecoveredIsLast, SettledIsSettled DEF AcknowledgedIsDurable
<1> QED
  BY <1>1, <1>2, InitDurInv, PTL DEF Spec, FlushesInOrder

\* A shard at rest, restarted or not, shows of every document what the last log
\* entry on it says.
THEOREM MemoryShowsLog ==
    ASSUME Serial PROVE Spec /\ FlushesInOrder => []MemoryFollowsLog
<1>1. DurInv /\ [Next]_vars /\ [RegistersInOrder]_vars => DurInv'
  BY NextDurInv
<1> QED
  BY <1>1, InitDurInv, MemoryIsLast, PTL DEF Spec, FlushesInOrder

-----------------------------------------------------------------------------
(* When segments are registered in order.                                  *)

\* One spare builder, and no explicit flush but the one of the shutdown.
OneSpare ==
    /\ \A a, b, c \in Builders : a = b \/ b = c \/ a = c
    /\ "flush" \notin Operations

\* An explicit flush has no background flush beside it.
RegistersAlone == \A t \in Threads : pc[t] = "register" => NoBackgroundFlush

LEMMA NextRegistersAlone ==
    ASSUME OneThread, OneSpare, IndInv, RegistersAlone, [Next]_vars PROVE RegistersAlone'
<1>1. TypeOK
  BY DEF IndInv
<1> SUFFICES ASSUME NEW t \in Threads, pc'[t] = "register" PROVE NoBackgroundFlush'
  BY DEF RegistersAlone
<1>2. \A u \in Threads : u = t
  BY DEF OneThread
<1> USE DEF Begin, Goto, Return
<1>3. CASE NewRequest(t)
  <2>1. ~ Flush(t)
    BY DEF Flush, FlushPutFile, OneSpare
  <2>2. CASE CloseFlush(t)
    BY <2>2 DEF CloseFlush, Drained, FlushPutFile, pipeline, NoBackgroundFlush
  <2>3. CASE ~ CloseFlush(t)
    BY <1>1, <1>3, <2>1, <2>3 DEF NewRequest, IndexDocs, IndexDocsNoWAL, DeleteDocument, ResetWait, DrainPool,
                               LogRequest, TypeOK
  <2> QED
    BY <2>2, <2>3
<1>4. CASE ThreadStep(t)
  BY <1>1, <1>4 DEF ThreadStep, AddDocsToBuffer, TakeBuilder, Recheck, RefillPool, AddTombstone, FlushAddSegment,
                    RotateWAL, CloseWAL, ResetFiles, ResetWAL, ResetMeta, ResetFloor, Swap, Stop, TypeOK
<1>5. ASSUME NEW b \in Builders, BackgroundStep(b) PROVE NoBackgroundFlush'
  BY <1>1, <1>5 DEF BackgroundStep, BackgroundPutFile, BackgroundFlushError, BackgroundAddSegment,
                    BackgroundPublish, RegistersAlone, NoBackgroundFlush, TypeOK
<1>6. CASE FlushWALBuffer \/ Crash \/ LoadFromMeta \/ Rest \/ UNCHANGED vars
  BY <1>6 DEF FlushWALBuffer, Crash, Stop, LoadFromMeta, Rest, vars, pipeline, RegistersAlone, NoBackgroundFlush
<1> QED
  BY <1>2, <1>3, <1>4, <1>5, <1>6 DEF Next

LEMMA NextRegistersInOrder ==
    ASSUME OneThread, OneSpare, OwnInv, RegistersAlone, [Next]_vars PROVE [RegistersInOrder]_vars
<1>1. TypeOK
  BY DEF OwnInv, IndInv
<1> USE DEF disk
<1>2. ASSUME NEW b \in Builders, BackgroundStep(b) PROVE RegistersInOrder
  <2>1. CASE BackgroundAddSegment(b)
    <3>1. /\ flushing[b].stage = "register" /\ flushing'[b].stage = "publish"
          /\ \A c \in Builders \ {b} : flushing'[c] = flushing[c]
      BY <1>1, <2>1 DEF BackgroundAddSegment, TypeOK, Flushing
    <3>2. \A c \in Builders : c = b \/ c = buffer
      BY <1>1, <3>1 DEF OneSpare, OwnInv, Owned, TypeOK
    <3> QED
      BY <3>1, <3>2 DEF RegistersInOrder, OwnInv, Owned
  <2>2. CASE BackgroundPutFile(b) \/ BackgroundFlushError(b) \/ BackgroundPublish(b)
    BY <2>2 DEF BackgroundPutFile, BackgroundFlushError, BackgroundPublish, RegistersInOrder
  <2> QED
    BY <1>2, <2>1, <2>2 DEF BackgroundStep
<1>3. ASSUME NEW t \in Threads, ThreadStep(t) PROVE RegistersInOrder
  <2>1. CASE FlushAddSegment(t)
    BY <2>1 DEF FlushAddSegment, RegistersAlone, NoBackgroundFlush, RegistersInOrder
  <2>2. CASE ~ FlushAddSegment(t)
    BY <1>3, <2>2 DEF ThreadStep, AddDocsToBuffer, TakeBuilder, Recheck, RefillPool, AddTombstone, RotateWAL,
                      CloseWAL, Stop, ResetFiles, ResetWAL, ResetMeta, ResetFloor, RegistersInOrder
  <2> QED
    BY <2>1, <2>2
<1>4. ASSUME NEW t \in Threads, NewRequest(t) PROVE RegistersInOrder
  BY <1>4 DEF NewRequest, IndexDocs, DeleteDocument, LogRequest, IndexDocsNoWAL, Flush, CloseFlush, FlushPutFile,
              ResetWait, DrainPool, RegistersInOrder
<1>5. CASE FlushWALBuffer \/ Crash \/ LoadFromMeta \/ Rest \/ UNCHANGED vars
  BY <1>5 DEF FlushWALBuffer, Crash, Stop, LoadFromMeta, Rest, vars, RegistersInOrder
<1> QED
  BY <1>2, <1>3, <1>4, <1>5 DEF Next

\* With one spare builder there is one background flush at a time, and Close waits
\* for it before its own flush: segments are registered in the order of their flush
\* sequences, as the theorems above ask.
THEOREM OneSpareFlushesInOrder ==
    ASSUME OneThread, OneSpare PROVE Spec => FlushesInOrder
<1>1. Init => RegistersAlone
  BY DEF Init, RegistersAlone
<1>2. Init => OwnInv
  BY InitIndInv, InitOwned DEF OwnInv
<1>3. OwnInv /\ RegistersAlone /\ [Next]_vars => RegistersAlone' /\ OwnInv'
  BY NextRegistersAlone, NextOwned DEF OwnInv
<1>4. OwnInv /\ RegistersAlone /\ [Next]_vars => [RegistersInOrder]_vars
  BY NextRegistersInOrder
<1> QED
  BY <1>1, <1>2, <1>3, <1>4, PTL DEF Spec, FlushesInOrder

\* A shard with one spare builder and one request at a time therefore loses nothing.
THEOREM OneSpareLosesNothing ==
    ASSUME Serial, OneSpare
    PROVE  Spec => [](HighWaterIsDurable /\ AcknowledgedIsDurable /\ MemoryFollowsLog)
<1>1. Spec => FlushesInOrder
  BY OneSpareFlushesInOrder DEF Serial
<1> QED
  BY <1>1, HighWaterSuffices, AcknowledgedSurvives, MemoryShowsLog, PTL

-----------------------------------------------------------------------------
(* The shard implements the durable map.                                   *)

\* The configurations in which every write is durable at once: the log is synced
\* before a request goes on, and no Reset leaves the contents undetermined.
Synced == SyncWAL /\ "reset" \notin Operations

\* What the map holds of a document.
Shown(l) == IF l.op = "index" THEN l.seq ELSE Absent

\* The inductive invariant of the refinement.
StoreInv == DurInv /\ Numbered /\ \A d \in Docs : last[d].op # "unknown"

\* The durable map is what the last operations say, and its clock what they count.
Mirrored ==
    /\ [d \in Docs |-> RecoveredVersion(d)] = [d \in Docs |-> Shown(last[d])]
    /\ walBuf = {} /\ nextSeq = issued + 1 /\ issued \in Nat

LEMMA StoredIsLast == ASSUME Synced, StoreInv PROVE Mirrored
<1>1. walBuf = {} /\ nextSeq = issued + 1
  BY DEF Synced, StoreInv, Numbered
<1>2. ASSUME NEW d \in Docs PROVE RecoveredVersion(d) = Shown(last[d])
  <2>1. Reflects(RecoveredVersion(d), last[d])
    BY <1>1, RecoveredIsLast DEF StoreInv
  <2>2. last[d].op \in {"none", "index", "delete"}
    BY DocTypes DEF StoreInv, DurInv, LastOp
  <2>3. CASE last[d].op = "index"
    BY <2>1, <2>3 DEF Reflects, Shown
  <2>4. CASE last[d].op \in {"none", "delete"}
    BY <2>1, <2>4 DEF Reflects, Shown
  <2> QED
    BY <2>2, <2>3, <2>4
<1>3. issued \in Nat
  BY DocTypes DEF StoreInv, DurInv, TypeOK
<1> QED
  BY <1>1, <1>2, <1>3 DEF Mirrored

\* Of a document named twice, the log of a batch ends with its last place.
LEMMA BatchLatest ==
    ASSUME NEW docs \in Batches, NEW n \in Nat \ {0}, NEW d,
           NEW places, places = {i \in DOMAIN docs : docs[i] = d}
    PROVE  /\ d \in DocsOf(BatchLog(n, docs)) <=> places # {}
           /\ \A x \in Latest(BatchLog(n, docs)) : x.doc = d =>
                /\ x \in Entry /\ x.op = "index"
                /\ x.seq = n - 1 + (CHOOSE i \in places : \A j \in places : j <= i)
<1> DEFINE es == BatchLog(n, docs)
           entry(i) == [seq |-> n + i - 1, op |-> "index", doc |-> docs[i]]
<1>1. DOMAIN docs = 1 .. Len(docs) /\ Len(docs) \in Nat
  BY BatchLength
<1>2. /\ \A e \in es : e \in Entry /\ e.op = "index" /\ \E i \in DOMAIN docs : e = entry(i)
      /\ \A i \in DOMAIN docs : entry(i) \in es
  BY BatchEntries DEF BatchLog
<1> HIDE DEF es
<1>3. d \in DocsOf(es) <=> places # {}
  <2>1. ASSUME NEW e \in es, e.doc = d PROVE places # {}
    BY <1>2, <2>1
  <2>2. ASSUME NEW i \in places PROVE \E e \in es : e.doc = d
    <3>1. entry(i) \in es /\ entry(i).doc = d
      BY <1>2
    <3> QED
      BY <3>1
  <2> QED
    BY <2>1, <2>2 DEF DocsOf
<1>4. ASSUME NEW x \in Latest(es), x.doc = d
      PROVE  x.seq = n - 1 + (CHOOSE i \in places : \A j \in places : j <= i)
  <2>1. x \in es /\ \A e \in es : e.doc = d => e.seq <= x.seq
    BY <1>4 DEF Latest
  <2>2. PICK m \in DOMAIN docs : x = entry(m)
    BY <1>2, <2>1
  <2>3. m \in places /\ m \in Nat /\ x.seq = n + m - 1
    BY <1>1, <1>4, <2>2
  <2>4. ASSUME NEW j \in places PROVE j <= m /\ j \in Nat
    <3>1. entry(j) \in es /\ entry(j).doc = d /\ entry(j).seq = n + j - 1 /\ j \in Nat
      BY <1>1, <1>2
    <3>2. n + j - 1 <= n + m - 1
      BY <2>1, <2>3, <3>1
    <3> QED
      BY <2>3, <3>1, <3>2
  <2>5. \A k \in places : (\A j \in places : j <= k) => k = m
    BY <2>3, <2>4
  <2>6. (CHOOSE i \in places : \A j \in places : j <= i) = m
    BY <2>3, <2>4, <2>5
  <2>7. x.seq = n - 1 + m
    BY <2>3
  <2> QED
    BY <2>6, <2>7
<1> QED
  BY <1>2, <1>3, <1>4 DEF es, Latest

\* The last operations after a request has been logged.
LEMMA LogRequestLast ==
    ASSUME Mirrored, NEW t, NEW kind, NEW es, NEW n \in Nat \ {0}, LogRequest(t, kind, es, n)
    PROVE  /\ issued' = issued + n
           /\ \A d \in Docs : d \notin DocsOf(es) => last'[d] = last[d]
           /\ \A d \in DocsOf(es) \cap Docs : (\E x \in Latest(es) : x.doc = d) =>
                \E x \in Latest(es) : x.doc = d /\ last'[d] = [op |-> x.op, seq |-> x.seq]
<1>1. WriteWAL(es, n)
  BY DEF LogRequest
<1>2. issued' = issued + n
  BY <1>1 DEF WriteWAL, MaxNum, Mirrored
<1>3. last' = [d \in Docs |-> IF d \in DocsOf(es)
                             THEN LET e == CHOOSE x \in Latest(es) : x.doc = d
                                  IN  [op |-> e.op, seq |-> e.seq]
                             ELSE last[d]]
  BY <1>1 DEF WriteWAL
<1>4. ASSUME NEW d \in DocsOf(es) \cap Docs, \E x \in Latest(es) : x.doc = d
      PROVE  \E x \in Latest(es) : x.doc = d /\ last'[d] = [op |-> x.op, seq |-> x.seq]
  BY <1>3, <1>4
<1> QED
  BY <1>2, <1>3, <1>4

\* A batch is one Put of the map.
LEMMA IndexDocsPuts ==
    ASSUME Mirrored, Mirrored', NEW t \in Threads, IndexDocs(t)
    PROVE  \E docs \in Batches : Store!Put(docs)
<1>1. PICK docs \in Batches : LogRequest(t, "index", BatchLog(nextSeq, docs), Len(docs))
  BY DEF IndexDocs, BatchLog
<1>2. PICK n \in Nat \ {0} : n = nextSeq /\ n = issued + 1
  BY DEF Mirrored
<1> DEFINE es == BatchLog(n, docs)
           places(d) == {i \in DOMAIN docs : docs[i] = d}
<1>3. Len(docs) \in Nat \ {0} /\ LogRequest(t, "index", es, Len(docs))
  BY <1>1, <1>2, BatchLength
<1>4. /\ issued' = issued + Len(docs)
      /\ \A d \in Docs : d \notin DocsOf(es) => last'[d] = last[d]
      /\ \A d \in DocsOf(es) \cap Docs : (\E x \in Latest(es) : x.doc = d) =>
           \E x \in Latest(es) : x.doc = d /\ last'[d] = [op |-> x.op, seq |-> x.seq]
  BY <1>3, LogRequestLast
<1>5. ASSUME NEW d \in Docs
      PROVE  Shown(last'[d]) = IF places(d) = {} THEN Shown(last[d])
                               ELSE issued + (CHOOSE i \in places(d) : \A j \in places(d) : j <= i)
  <2>1. /\ d \in DocsOf(es) <=> places(d) # {}
        /\ \A x \in Latest(es) : x.doc = d =>
             /\ x \in Entry /\ x.op = "index"
             /\ x.seq = n - 1 + (CHOOSE i \in places(d) : \A j \in places(d) : j <= i)
    <3>1. PICK ps : ps = places(d)
      OBVIOUS
    <3> HIDE DEF es
    <3>2. /\ d \in DocsOf(es) <=> ps # {}
          /\ \A x \in Latest(es) : x.doc = d =>
               /\ x \in Entry /\ x.op = "index"
               /\ x.seq = n - 1 + (CHOOSE i \in ps : \A j \in ps : j <= i)
      BY <3>1, BatchLatest DEF es
    <3> HIDE DEF places
    <3> QED
      BY <3>1, <3>2
  <2>2. n - 1 = issued
    BY <1>2 DEF Mirrored
  <2>3. CASE places(d) = {}
    BY <1>4, <2>1, <2>3
  <2>4. CASE places(d) # {}
    <3>1. \E x \in Latest(es) : x.doc = d
      <4>1. es \in SUBSET Entry /\ n + Len(docs) \in Nat /\ \A e \in es : e.seq <= n + Len(docs)
        <5>1. \A e \in es : e \in Entry /\ e.seq < n + Len(docs)
          BY BatchEntries
        <5> QED
          BY <1>3, <5>1 DEF Entry
      <4> HIDE DEF es
      <4> QED
        BY <2>1, <2>4, <4>1, LatestExists
    <3>2. PICK x \in Latest(es) : x.doc = d /\ last'[d] = [op |-> x.op, seq |-> x.seq]
      BY <1>4, <2>1, <2>4, <3>1
    <3> HIDE DEF places
    <3> QED
      BY <2>1, <2>2, <2>4, <3>2 DEF Shown
  <2> QED
    BY <2>3, <2>4
<1>6. Store!Put(docs)
  <2>1. ASSUME NEW d \in Docs
        PROVE  RecoveredVersion(d)' = IF places(d) = {} THEN RecoveredVersion(d)
                                      ELSE issued + (CHOOSE i \in places(d) : \A j \in places(d) : j <= i)
    <3>1. RecoveredVersion(d)' = Shown(last'[d]) /\ RecoveredVersion(d) = Shown(last[d])
      BY DEF Mirrored
    <3> HIDE DEF places
    <3> QED
      BY <1>5, <3>1
  <2> QED
    BY <1>4, <2>1 DEF Store!Put
<1> QED
  BY <1>6

\* A delete is one Remove.
LEMMA DeleteDocumentRemoves ==
    ASSUME Mirrored, Mirrored', NEW t \in Threads, DeleteDocument(t)
    PROVE  \E d \in Docs : Store!Remove(d)
<1>1. PICK c \in Docs : LogRequest(t, "delete", {[seq |-> nextSeq, op |-> "delete", doc |-> c]}, 1)
  BY DEF DeleteDocument
<1>2. PICK e : e = [seq |-> nextSeq, op |-> "delete", doc |-> c]
  OBVIOUS
<1>3. PICK es : es = {e}
  OBVIOUS
<1>4. PICK n \in Nat \ {0} : n = 1
  OBVIOUS
<1>5. LogRequest(t, "delete", es, n) /\ DocsOf(es) = {c} /\ Latest(es) = {e}
  <2>1. DocsOf({e}) = {c} /\ Latest({e}) = {e}
    BY <1>2 DEF DocsOf, Latest, Mirrored
  <2> QED
    BY <1>1, <1>2, <1>3, <1>4, <2>1
<1>6. issued' = issued + n /\ \A d \in Docs : d \notin DocsOf(es) => last'[d] = last[d]
  BY <1>5, LogRequestLast
<1>7. last'[c] = [op |-> e.op, seq |-> e.seq]
  <2>1. WriteWAL(es, n)
    BY <1>5 DEF LogRequest
  <2>2. (CHOOSE x \in {e} : x.doc = c) = e
    BY <1>2
  <2> QED
    BY <1>5, <2>1, <2>2 DEF WriteWAL
<1>8. ASSUME NEW d \in Docs
      PROVE  RecoveredVersion(d)' = IF d = c THEN Absent ELSE RecoveredVersion(d)
  <2>1. RecoveredVersion(d)' = Shown(last'[d]) /\ RecoveredVersion(d) = Shown(last[d])
    BY DEF Mirrored
  <2> QED
    BY <1>2, <1>5, <1>6, <1>7, <2>1 DEF Shown
<1>9. Store!Remove(c)
  BY <1>4, <1>6, <1>8 DEF Store!Remove
<1> QED
  BY <1>9

\* Every other step assigns no number and leaves the last operations alone.
LEMMA OtherStepsStutter ==
    ASSUME Serial, Synced, StoreInv, [Next]_vars,
           \A t \in Threads : ~ IndexDocs(t) /\ ~ DeleteDocument(t)
    PROVE  last' = last /\ issued' = issued
<1>1. TypeOK /\ walBuf = {}
  BY DocTypes, StoredIsLast DEF StoreInv, DurInv, Mirrored
<1> USE DEF log, pipeline, searched, disk, process
<1>2. \A t \in Threads : pc[t] \notin Resetting
  BY DEF Synced, StoreInv, DurInv, SegmentInv, Base, FilesKept
<1>3. ASSUME NEW t \in Threads, NewRequest(t) PROVE last' = last /\ issued' = issued
  BY <1>3 DEF NewRequest, IndexDocsNoWAL, Flush, CloseFlush, FlushPutFile, ResetWait, DrainPool
<1>4. ASSUME NEW t \in Threads, AddDocsToBuffer(t) PROVE last' = last /\ issued' = issued
  <2>1. req[t].kind # "bulk"
    BY <1>4 DEF AddDocsToBuffer, StoreInv, DurInv, SegmentInv, Shape, AtStep
  <2> QED
    BY <1>1, <1>4, <2>1 DEF AddDocsToBuffer, TypeOK
<1>5. ASSUME NEW t \in Threads, ThreadStep(t), ~ AddDocsToBuffer(t) PROVE last' = last /\ issued' = issued
  BY <1>2, <1>5 DEF ThreadStep, TakeBuilder, Recheck, RefillPool, AddTombstone, FlushAddSegment, RotateWAL,
                    CloseWAL, Stop, ResetFiles, ResetWAL, ResetMeta, ResetFloor, Resetting, ResetLocked
<1>6. ASSUME NEW b \in Builders, BackgroundStep(b) PROVE last' = last /\ issued' = issued
  BY <1>6 DEF BackgroundStep, BackgroundPutFile, BackgroundFlushError, BackgroundAddSegment, BackgroundPublish
<1>7. CASE Crash
  BY <1>1, <1>7 DEF Crash, Stop, TypeOK
<1>8. CASE FlushWALBuffer \/ LoadFromMeta \/ Rest \/ UNCHANGED vars
  BY <1>8 DEF FlushWALBuffer, LoadFromMeta, Rest, vars
<1> QED
  BY <1>3, <1>4, <1>5, <1>6, <1>7, <1>8 DEF Next

LEMMA NextStoreInv ==
    ASSUME Serial, Synced, StoreInv, [Next]_vars, [RegistersInOrder]_vars PROVE StoreInv'
<1>1. DurInv'
  BY NextDurInv DEF StoreInv
<1>2. Numbered'
  BY NextNumbered DEF StoreInv, DurInv, SegmentInv, Base, CoverInv, OwnInv, Serial, Synced
<1>3. ASSUME NEW t \in Threads, IndexDocs(t) \/ DeleteDocument(t), NEW d \in Docs PROVE last'[d].op # "unknown"
  <2>1. PICK kind \in {"index", "delete"}, es \in SUBSET Entry, n \in Nat \ {0} :
          /\ LogRequest(t, kind, es, n)
          /\ \A e \in es : e.op = kind /\ e.seq <= nextSeq + n
    <3>1. TypeOK /\ nextSeq \in Nat \ {0}
      BY DocTypes, NumberTypes DEF StoreInv, DurInv
    <3>2. CASE IndexDocs(t)
      <4>1. PICK docs \in Batches : LogRequest(t, "index", BatchLog(nextSeq, docs), Len(docs))
        BY <3>2 DEF IndexDocs, BatchLog
      <4>2. Len(docs) \in Nat \ {0}
        BY BatchLength
      <4>3. \A e \in BatchLog(nextSeq, docs) : e \in Entry /\ e.op = "index" /\ e.seq < nextSeq + Len(docs)
        BY <3>1, BatchEntries
      <4>4. \A e \in BatchLog(nextSeq, docs) : e.seq <= nextSeq + Len(docs)
        BY <3>1, <4>2, <4>3 DEF Entry
      <4> QED
        BY <4>1, <4>2, <4>3, <4>4
    <3>3. CASE DeleteDocument(t)
      <4>1. PICK c \in Docs : LogRequest(t, "delete", {[seq |-> nextSeq, op |-> "delete", doc |-> c]}, 1)
        BY <3>3 DEF DeleteDocument
      <4> DEFINE es == {[seq |-> nextSeq, op |-> "delete", doc |-> c]}
      <4>2. es \in SUBSET Entry /\ \A e \in es : e.op = "delete" /\ e.seq <= nextSeq + 1
        BY <3>1 DEF Entry
      <4>3. LogRequest(t, "delete", es, 1)
        BY <4>1
      <4> HIDE DEF es
      <4> QED
        BY <4>2, <4>3
    <3> QED
      BY <1>3, <3>2, <3>3
  <2>2. last' = [c \in Docs |-> IF c \in DocsOf(es)
                                THEN LET e == CHOOSE x \in Latest(es) : x.doc = c
                                     IN  [op |-> e.op, seq |-> e.seq]
                                ELSE last[c]]
    BY <2>1 DEF LogRequest, WriteWAL
  <2>3. CASE d \in DocsOf(es)
    <3>1. \E x \in Latest(es) : x.doc = d
      <4>1. nextSeq + n \in Nat
        BY DocTypes, NumberTypes DEF StoreInv, DurInv
      <4> QED
        BY <2>1, <2>3, <4>1, LatestExists
    <3>2. PICK x \in Latest(es) : last'[d] = [op |-> x.op, seq |-> x.seq]
      BY <2>2, <2>3, <3>1
    <3> QED
      BY <2>1, <3>2 DEF Latest
  <2>4. CASE d \notin DocsOf(es)
    BY <2>2, <2>4 DEF StoreInv
  <2> QED
    BY <2>3, <2>4
<1>4. ASSUME \A t \in Threads : ~ IndexDocs(t) /\ ~ DeleteDocument(t) PROVE last' = last
  BY <1>4, OtherStepsStutter
<1> QED
  BY <1>1, <1>2, <1>3, <1>4 DEF StoreInv

\* A synced shard implements the atomic durable map: a batch or a delete writes it
\* when its log entries are written, and nothing else (a flush, a rotation, a crash,
\* a restart) changes what a restart would find.
THEOREM ShardImplementsDurableStore ==
    ASSUME Serial, Synced PROVE Spec /\ FlushesInOrder => ImplementsDurableStore
<1>1. Init => StoreInv
  BY InitDurInv DEF Init, StoreInv, Numbered, Wiping, Remembered, NotFlushed, Resetting, ResetLocked
<1>2. StoreInv /\ [Next]_vars /\ [RegistersInOrder]_vars => StoreInv'
  BY NextStoreInv
<1>3. StoreInv => Mirrored
  BY StoredIsLast
<1>4. Init => Store!Init
  <2> SUFFICES ASSUME Init PROVE Store!Init
    OBVIOUS
  <2>1. [d \in Docs |-> RecoveredVersion(d)] = [d \in Docs |-> Shown(last[d])]
    BY <1>1, <1>3 DEF Mirrored
  <2> QED
    BY <2>1 DEF Init, Store!Init, Shown
<1>5. ASSUME StoreInv, Mirrored, Mirrored', [Next]_vars
      PROVE  [Store!Next]_<<[d \in Docs |-> RecoveredVersion(d)], issued>>
  <2>1. CASE \E t \in Threads : IndexDocs(t) \/ DeleteDocument(t)
    BY <1>5, <2>1, IndexDocsPuts, DeleteDocumentRemoves DEF Store!Next
  <2>2. CASE \A t \in Threads : ~ IndexDocs(t) /\ ~ DeleteDocument(t)
    <3>1. last' = last /\ issued' = issued
      BY <1>5, <2>2, OtherStepsStutter
    <3> QED
      BY <1>5, <3>1 DEF Mirrored
  <2> QED
    BY <2>1, <2>2
<1> QED
  BY <1>1, <1>2, <1>3, <1>4, <1>5, PTL DEF Spec, FlushesInOrder, ImplementsDurableStore, Store!Spec

\* With one spare builder, the order of the flushes needs no hypothesis.
THEOREM OneSpareImplementsDurableStore ==
    ASSUME Serial, Synced, OneSpare PROVE Spec => ImplementsDurableStore
<1>1. Spec => FlushesInOrder
  BY OneSpareFlushesInOrder DEF Serial
<1> QED
  BY <1>1, ShardImplementsDurableStore, PTL

=============================================================================
