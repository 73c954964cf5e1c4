----------------------------- MODULE Replication -----------------------------
(***************************************************************************)
(* Replication of one shard's log from its primary to its replicas         *)
(* (internal/replication, cmd/server/replication.go).  The log hook        *)
(* publishes every entry into a ring of recent entries and to the channel  *)
(* of every connected stream.  A replica that connects is caught up from   *)
(* the log file, then from the ring, then follows its channel; it applies  *)
(* entries in order and saves its position from time to time, one interval *)
(* late.  Streams break, the log is rotated under a scan, shards are       *)
(* reset, entries fail to apply, and either side may stop or crash.        *)
(*                                                                         *)
(* An entry is a write of a document of its own, or a reset of the shard:  *)
(* the contents of a shard are then the numbers of the writes it reflects. *)
(***************************************************************************)
EXTENDS Integers, Sequences, SequencesExt

CONSTANTS
    Replicas,
    RingSize,       \* ringBufferSize
    ChanSize,       \* replicaChanSize
    Window,         \* flow control: messages a stream may have in flight
    MaxAttempts,    \* maxApplyAttempts
    Faults,         \* what may go wrong: see the guards
    MaxSeq,         \* bound on sequence numbers
    MaxWrites,      \* bound on entries ever written, lost ones included
    MaxFaults       \* bound on faults

ASSUME ReplicationAssumption ==
    /\ RingSize \in Nat \ {0} /\ ChanSize \in Nat \ {0} /\ Window \in Nat \ {0}
    /\ MaxAttempts \in Nat \ {0}
    /\ MaxSeq \in Nat /\ MaxWrites \in Nat /\ MaxFaults \in Nat

VARIABLES
    hist,       \* the primary's log since ever: hist[n] has sequence number n
    flushed,    \* entries up to here are in segments and in no log file
    synced,     \* entries up to here survive a crash
    walSeqNum,  \* number in the name of the current log file
    appending,  \* what the writer that holds walMu does next
    ring, head, \* PrimaryReplicator.ring and head
    stream,     \* per replica: the primary's side of its stream
    channel,    \* per replica: entries waiting in its channel
    net,        \* per replica: messages in flight to it
    applied,    \* appliedSeq
    saved,      \* position in the replica's file, NoPosition when there is none
    previous,   \* persistLoop's prev
    walTicked,  \* the replica's own log was flushed since persistLoop's last tick
    docs, disk, \* contents of the replica's shard, in memory and durable
    failCount,
    needsResync,
    dead,       \* sequence numbers given up and not applied since
    missed,     \* history: the newest entry did not fit into the channel
    lost,       \* history: a crash lost an entry that was published
    writes, faults  \* history: counts

log     == <<hist, flushed, synced, walSeqNum, appending>>
shared  == <<ring, head>>
streams == <<stream, channel, net>>
replica == <<applied, saved, previous, walTicked, docs, disk, failCount, needsResync, dead>>
history == <<missed, lost, writes, faults>>
vars    == <<log, shared, streams, replica, history>>

NoPosition == -1
NoEntry    == [seq |-> 0, op |-> "none", id |-> 0]
Idle       == [phase |-> "off", lastSent |-> 0, lastAtStart |-> 0,
               file |-> 0, todo |-> {}, next |-> 0, upto |-> 0]

LastSeq  == Len(hist)
Entry(n) == [seq |-> n, op |-> hist[n].op, id |-> hist[n].id]

\* applyTo: what one entry does to a shard's contents.
ApplyTo(contents, e) == IF e.op = "reset" THEN {} ELSE contents \cup {e.id}

\* Entries that the current log file holds and a reader sees: a reset is only
\* handed to the hook and never written to the file.
InWAL == {n \in flushed + 1 .. synced : hist[n].op # "reset"}

Init ==
    /\ hist = <<>> /\ flushed = 0 /\ synced = 0 /\ walSeqNum = 1 /\ appending = "none"
    /\ ring = [i \in 0 .. RingSize - 1 |-> NoEntry] /\ head = 0
    /\ stream = [r \in Replicas |-> Idle]
    /\ channel = [r \in Replicas |-> <<>>]
    /\ net = [r \in Replicas |-> <<>>]
    /\ applied = [r \in Replicas |-> 0]
    /\ saved = [r \in Replicas |-> NoPosition]
    /\ previous = [r \in Replicas |-> 0]
    /\ walTicked = [r \in Replicas |-> FALSE]
    /\ docs = [r \in Replicas |-> {}] /\ disk = [r \in Replicas |-> {}]
    /\ failCount = [r \in Replicas |-> 0]
    /\ needsResync = [r \in Replicas |-> FALSE]
    /\ dead = [r \in Replicas |-> {}]
    /\ missed = [r \in Replicas |-> FALSE] /\ lost = FALSE
    /\ writes = 0 /\ faults = 0

-----------------------------------------------------------------------------
(* The primary's log.  A write keeps walMu while it assigns the number,    *)
(* appends to the ring and feeds the channels.                             *)

Write ==
    /\ appending = "none" /\ LastSeq < MaxSeq /\ writes < MaxWrites
    /\ hist' = Append(hist, [op |-> "write", id |-> writes + 1])
    /\ appending' = "ring" /\ writes' = writes + 1
    /\ UNCHANGED <<flushed, synced, walSeqNum, shared, streams, replica, missed, lost, faults>>

\* Reset: new files and a durable sequence floor before the hook is called.
Reset ==
    /\ "reset" \in Faults /\ faults < MaxFaults
    /\ appending = "none" /\ LastSeq < MaxSeq
    /\ hist' = Append(hist, [op |-> "reset", id |-> 0])
    /\ flushed' = LastSeq + 1 /\ synced' = LastSeq + 1
    /\ walSeqNum' = 1
    /\ appending' = "ring" /\ faults' = faults + 1
    /\ UNCHANGED <<shared, streams, replica, missed, lost, writes>>

AppendRing ==
    /\ appending = "ring"
    /\ ring' = [ring EXCEPT ![LastSeq % RingSize] = Entry(LastSeq)]
    /\ head' = LastSeq + 1
    /\ appending' = "channels"
    /\ UNCHANGED <<hist, flushed, synced, walSeqNum, streams, replica, history>>

Registered(r) == stream[r].phase \notin {"off", "ended"}

\* Fault: one entry more than the channel holds.
FullLate(r) == Len(channel[r]) > ChanSize

Full(r) == Len(channel[r]) >= ChanSize

AppendChannels ==
    /\ appending = "channels"
    /\ channel' = [r \in Replicas |-> IF Registered(r) /\ ~Full(r)
                                      THEN Append(channel[r], Entry(LastSeq)) ELSE channel[r]]
    /\ missed' = [r \in Replicas |-> Registered(r) /\ Full(r)]
    /\ appending' = "none"
    /\ UNCHANGED <<hist, flushed, synced, walSeqNum, shared, stream, net, replica,
                   lost, writes, faults>>

SyncLog ==
    /\ appending = "none" /\ synced < LastSeq
    /\ synced' = LastSeq
    /\ UNCHANGED <<hist, flushed, walSeqNum, appending, shared, streams, replica, history>>

\* A flush covers every entry: rotateWALLocked removes the file that held them.
Rotate ==
    /\ "rotate" \in Faults
    /\ appending = "none" /\ flushed < LastSeq
    /\ flushed' = LastSeq /\ synced' = LastSeq
    /\ walSeqNum' = walSeqNum + 1
    /\ UNCHANGED <<hist, appending, shared, streams, replica, history>>

\* The process ends and starts again: the ring and the streams are gone.
PrimaryRestarts ==
    /\ faults < MaxFaults /\ faults' = faults + 1
    /\ appending' = "none"
    /\ ring' = [i \in DOMAIN ring |-> NoEntry] /\ head' = 0
    /\ stream' = [r \in Replicas |-> Idle]
    /\ channel' = [r \in Replicas |-> <<>>] /\ net' = [r \in Replicas |-> <<>>]
    /\ missed' = [r \in Replicas |-> FALSE]
    /\ UNCHANGED <<replica, walSeqNum, writes>>

\* Close flushes the buffer and the log.
PrimaryStop ==
    /\ "stop" \in Faults /\ appending = "none"
    /\ PrimaryRestarts
    /\ flushed' = LastSeq /\ synced' = LastSeq
    /\ UNCHANGED <<hist, lost>>

PrimaryCrash ==
    /\ "crash" \in Faults
    /\ PrimaryRestarts
    /\ hist' = SubSeq(hist, 1, synced)
    /\ lost' = (lost \/ head > synced + 1)
    /\ UNCHANGED <<flushed, synced>>

-----------------------------------------------------------------------------
(* The primary's side of a stream: AddReplica and streamToReplica.         *)

Goto(r, s) == stream' = [stream EXCEPT ![r] = s]

\* StreamWAL, register: from now on the channel receives what is appended.
Connect(r) ==
    /\ stream[r].phase = "off"
    /\ Goto(r, [Idle EXCEPT !.phase = "lastSeq", !.lastSent = applied[r]])
    /\ channel' = [channel EXCEPT ![r] = <<>>]
    /\ missed' = [missed EXCEPT ![r] = FALSE]
    /\ UNCHANGED <<log, shared, net, replica, lost, writes, faults>>

ReadLastSeq(r) ==
    /\ stream[r].phase = "lastSeq" /\ appending = "none"
    /\ Goto(r, [stream[r] EXCEPT !.phase = "list", !.lastAtStart = LastSeq])
    /\ UNCHANGED <<log, shared, channel, net, replica, history>>

\* ScanWAL, under walMu: flush the buffer and list the files ...
ListWAL(r) ==
    /\ stream[r].phase = "list" /\ appending = "none"
    /\ synced' = LastSeq
    /\ Goto(r, [stream[r] EXCEPT !.phase = "read", !.file = walSeqNum])
    /\ UNCHANGED <<hist, flushed, walSeqNum, appending, shared, channel, net, replica, history>>

\* ... and read them after the unlock; a file that has gone is not an error.
ReadWAL(r) ==
    /\ stream[r].phase = "read"
    /\ Goto(r, [stream[r] EXCEPT !.phase = "wal",
                   !.todo = IF stream[r].file # walSeqNum THEN {}
                            ELSE {n \in InWAL : n > stream[r].lastSent}])
    /\ UNCHANGED <<log, shared, channel, net, replica, history>>

\* The stream ends with an error status behind the messages already sent.
EndWith(r, code) ==
    /\ Goto(r, [Idle EXCEPT !.phase = "ended"])
    /\ net' = [net EXCEPT ![r] = Append(@, [status |-> code, entry |-> NoEntry])]

\* Fault: send does not look for holes.
SendAnything(r, e, s, phase) ==
    /\ Len(net[r]) < Window
    /\ Goto(r, [s EXCEPT !.lastSent = e.seq])
    /\ net' = [net EXCEPT ![r] = Append(@, [status |-> "ok", entry |-> e])]

\* send: skip what was sent, refuse a hole, or send and go on as s.
Send(r, e, s, phase) ==
    /\ Len(net[r]) < Window
    /\ \/ /\ e.seq <= stream[r].lastSent
          /\ Goto(r, s) /\ UNCHANGED net
       \/ /\ e.seq > stream[r].lastSent + 1
          /\ EndWith(r, IF phase = "live" THEN "Unavailable" ELSE "FailedPrecondition")
       \/ /\ e.seq = stream[r].lastSent + 1
          /\ Goto(r, [s EXCEPT !.lastSent = e.seq])
          /\ net' = [net EXCEPT ![r] = Append(@, [status |-> "ok", entry |-> e])]

\* The entries read are sent in their order.
SendWAL(r) ==
    /\ stream[r].phase = "wal"
    /\ \E n \in stream[r].todo :
          /\ \A m \in stream[r].todo : n <= m
          /\ Send(r, Entry(n), [stream[r] EXCEPT !.todo = @ \ {n}], "wal")
    /\ UNCHANGED <<log, shared, channel, replica, history>>

\* Fault: the first slot is skipped.
BeginRingLate(r) ==
    /\ stream[r].phase = "wal" /\ stream[r].todo = {}
    /\ Goto(r, [stream[r] EXCEPT !.phase = "ring", !.upto = head, !.next = stream[r].lastSent + 2])
    /\ UNCHANGED <<log, shared, channel, net, replica, history>>

\* Phase 2 starts at the oldest slot that can still be in the ring.
BeginRing(r) ==
    /\ stream[r].phase = "wal" /\ stream[r].todo = {}
    /\ LET first == stream[r].lastSent + 1
       IN Goto(r, [stream[r] EXCEPT !.phase = "ring", !.upto = head,
                      !.next = IF head > RingSize /\ first < head - RingSize
                               THEN head - RingSize ELSE first])
    /\ UNCHANGED <<log, shared, channel, net, replica, history>>

SendRing(r) ==
    LET s    == stream[r]
        slot == ring[s.next % RingSize]
        on   == [s EXCEPT !.next = @ + 1]
    IN /\ s.phase = "ring" /\ s.next < s.upto
       /\ IF slot.seq = s.next THEN Send(r, slot, on, "ring")
          ELSE Goto(r, on) /\ UNCHANGED net
       /\ UNCHANGED <<log, shared, channel, replica, history>>

BeginLive(r) ==
    LET s == stream[r]
    IN /\ s.phase = "ring" /\ s.next >= s.upto
       /\ IF s.lastSent < s.lastAtStart THEN EndWith(r, "FailedPrecondition")
          ELSE Goto(r, [Idle EXCEPT !.phase = "live", !.lastSent = s.lastSent]) /\ UNCHANGED net
       /\ UNCHANGED <<log, shared, channel, replica, history>>

SendLive(r) ==
    /\ stream[r].phase = "live" /\ channel[r] # <<>>
    /\ Send(r, Head(channel[r]), stream[r], "live")
    /\ channel' = [channel EXCEPT ![r] = Tail(@)]
    /\ UNCHANGED <<log, shared, replica, history>>

-----------------------------------------------------------------------------
(* The replica: run, applyStream and persistLoop.                          *)

\* The stream is dropped with everything in flight; run connects again.
Disconnect(r) ==
    /\ Goto(r, Idle)
    /\ channel' = [channel EXCEPT ![r] = <<>>]
    /\ net' = [net EXCEPT ![r] = <<>>]
    /\ missed' = [missed EXCEPT ![r] = FALSE]

Break(r) ==
    /\ "break" \in Faults /\ faults < MaxFaults
    /\ stream[r].phase # "off"
    /\ Disconnect(r) /\ faults' = faults + 1
    /\ UNCHANGED <<log, shared, replica, lost, writes>>

Message(r) == Head(net[r])

\* Fault: every error is taken for a lost connection.
ReceiveErrorUnmarked(r) ==
    /\ net[r] # <<>> /\ Message(r).status # "ok"
    /\ Disconnect(r)
    /\ UNCHANGED <<log, shared, replica, lost, writes, faults>>

ReceiveError(r) ==
    /\ net[r] # <<>> /\ Message(r).status # "ok"
    /\ needsResync' = [needsResync EXCEPT ![r] = @ \/ Message(r).status = "FailedPrecondition"]
    /\ Disconnect(r)
    /\ UNCHANGED <<log, shared, applied, saved, previous, walTicked, docs, disk, failCount, dead,
                   lost, writes, faults>>

\* The entry counts as applied: appliedSeq moves, a failure before is forgotten.
Advance(r, seq) ==
    /\ applied' = [applied EXCEPT ![r] = seq]
    /\ failCount' = [failCount EXCEPT ![r] = 0]
    /\ needsResync' = [needsResync EXCEPT ![r] = FALSE]
    /\ net' = [net EXCEPT ![r] = Tail(@)]
    /\ UNCHANGED <<stream, channel, saved, previous, walTicked, missed>>

HasEntry(r)  == net[r] # <<>> /\ Message(r).status = "ok"
InOrder(r)   == Message(r).entry.seq = applied[r] + 1

\* A reset also replaces the replica's own files.  An entry sent before is
\* skipped; a gap ends the stream.
Apply(r) ==
    /\ HasEntry(r)
    /\ LET e == Message(r).entry
       IN IF InOrder(r)
          THEN /\ docs' = [docs EXCEPT ![r] = ApplyTo(@, e)]
               /\ disk' = IF e.op = "reset" THEN [disk EXCEPT ![r] = {}] ELSE disk
               /\ dead' = [dead EXCEPT ![r] = @ \ {e.seq}]
               /\ Advance(r, e.seq)
          ELSE /\ IF e.seq > applied[r] THEN Disconnect(r)
                  ELSE net' = [net EXCEPT ![r] = Tail(@)] /\ UNCHANGED <<stream, channel, missed>>
               /\ UNCHANGED replica
    /\ UNCHANGED <<log, shared, lost, writes, faults>>

\* applyTo returns an error.
Fails(r) == /\ HasEntry(r) /\ InOrder(r)
            /\ "apply" \in Faults /\ faults < MaxFaults /\ faults' = faults + 1

\* Fault: an entry that failed is passed over.
FailApplySkips(r) ==
    /\ Fails(r) /\ failCount[r] + 1 < MaxAttempts
    /\ Advance(r, Message(r).entry.seq)
    /\ UNCHANGED <<log, shared, docs, disk, dead, lost, writes>>

FailApply(r) ==
    /\ Fails(r) /\ failCount[r] + 1 < MaxAttempts
    /\ failCount' = [failCount EXCEPT ![r] = @ + 1]
    /\ Disconnect(r)
    /\ UNCHANGED <<log, shared, applied, saved, previous, walTicked, docs, disk, needsResync, dead,
                   lost, writes>>

DeadLetter(r) ==
    /\ Fails(r) /\ failCount[r] + 1 >= MaxAttempts
    /\ dead' = [dead EXCEPT ![r] = @ \cup {Message(r).entry.seq}]
    /\ Advance(r, Message(r).entry.seq)
    /\ UNCHANGED <<log, shared, docs, disk, lost, writes>>

FlushReplica(r) ==
    /\ docs[r] # disk[r] \/ ~walTicked[r]
    /\ disk' = [disk EXCEPT ![r] = docs[r]]
    /\ walTicked' = [walTicked EXCEPT ![r] = TRUE]
    /\ UNCHANGED <<log, shared, streams, applied, saved, previous, docs, failCount,
                   needsResync, dead, history>>

\* Fault: the position of now is saved.
PersistTickNow(r) ==
    /\ walTicked[r]
    /\ saved' = [saved EXCEPT ![r] = applied[r]]
    /\ walTicked' = [walTicked EXCEPT ![r] = FALSE]
    /\ UNCHANGED <<log, shared, streams, applied, previous, docs, disk, failCount,
                   needsResync, dead, history>>

\* The interval is longer than the one of the log's flusher (segmentmanager.go:247).
PersistTick(r) ==
    /\ walTicked[r]
    /\ saved' = [saved EXCEPT ![r] = previous[r]]
    /\ previous' = [previous EXCEPT ![r] = applied[r]]
    /\ walTicked' = [walTicked EXCEPT ![r] = FALSE]
    /\ UNCHANGED <<log, shared, streams, applied, docs, disk, failCount, needsResync, dead, history>>

ReplicaRestarts(r, position) ==
    /\ faults < MaxFaults /\ faults' = faults + 1
    /\ Disconnect(r)
    /\ applied' = [applied EXCEPT ![r] = position]
    /\ previous' = [previous EXCEPT ![r] = position]
    /\ walTicked' = [walTicked EXCEPT ![r] = FALSE]
    /\ failCount' = [failCount EXCEPT ![r] = 0]
    /\ needsResync' = [needsResync EXCEPT ![r] = FALSE]
    /\ UNCHANGED <<log, shared, dead, lost, writes>>

\* stop, Close of the shards, afterClose.
ReplicaStop(r) ==
    /\ "stop" \in Faults
    /\ ReplicaRestarts(r, applied[r])
    /\ saved' = [saved EXCEPT ![r] = applied[r]]
    /\ disk' = [disk EXCEPT ![r] = docs[r]]
    /\ UNCHANGED docs

\* The first position is saved one interval after the first start.
ReplicaCrash(r) ==
    /\ "crash" \in Faults /\ saved[r] # NoPosition
    /\ ReplicaRestarts(r, saved[r])
    /\ docs' = [docs EXCEPT ![r] = disk[r]]
    /\ UNCHANGED <<saved, disk>>

-----------------------------------------------------------------------------
PrimaryStep == Write \/ Reset \/ AppendRing \/ AppendChannels \/ SyncLog \/ Rotate
               \/ PrimaryStop \/ PrimaryCrash

StreamStep(r) == \/ Connect(r) \/ ReadLastSeq(r) \/ ListWAL(r) \/ ReadWAL(r) \/ SendWAL(r)
                 \/ BeginRing(r) \/ SendRing(r) \/ BeginLive(r) \/ SendLive(r)

ReplicaStep(r) == ReceiveError(r) \/ Apply(r) \/ FailApply(r) \/ DeadLetter(r)

Next ==
    \/ PrimaryStep
    \/ \E r \in Replicas : \/ StreamStep(r) \/ ReplicaStep(r) \/ Break(r)
                           \/ FlushReplica(r) \/ PersistTick(r) \/ ReplicaStop(r) \/ ReplicaCrash(r)

Spec == Init /\ [][Next]_vars

\* A writer that has walMu finishes; the primary serves a stream; the replica
\* reads its stream and connects again when it ends.
FairSpec ==
    /\ Spec
    /\ WF_vars(AppendRing \/ AppendChannels)
    /\ \A r \in Replicas : WF_vars(StreamStep(r)) /\ WF_vars(ReplicaStep(r))

-----------------------------------------------------------------------------
\* What the first n entries make of an empty shard, without the writes in skipped
\* and the resets in ignored.
Contents(n, skipped, ignored) ==
    {hist[i].id : i \in {i \in (1 .. n) \ skipped :
                            /\ hist[i].op = "write"
                            /\ \A j \in (i + 1 .. n) \ ignored : hist[j].op # "reset"}}

\* Positions, queues and counters stay in range: the queues of the code are
\* bounded, and a replica never keeps an exhausted failure count.
TypeOK ==
    /\ hist \in Seq([op : {"write", "reset"}, id : 0 .. MaxWrites])
    /\ flushed \in 0 .. synced /\ synced \in 0 .. LastSeq
    /\ appending \in {"none", "ring", "channels"}
    /\ head \in 0 .. LastSeq + 1
    /\ \A r \in Replicas :
          /\ Len(channel[r]) <= ChanSize /\ Len(net[r]) <= Window + 1
          /\ applied[r] \in 0 .. MaxSeq /\ saved[r] \in -1 .. MaxSeq
          /\ failCount[r] \in 0 .. MaxAttempts - 1

\* A replica at the primary's position has the primary's contents, whatever broke
\* on the way, but for the entries it set aside as dead letters (replica.go:341,
\* "silently lost"): a write it gave up may be there from before a restart, and what
\* a reset it gave up would have removed may be there or not.  A number used again
\* after a crash of the primary is the exception: see lost.
CaughtUpIsEqual ==
    \A r \in Replicas : applied[r] = LastSeq /\ ~lost =>
        /\ Contents(LastSeq, dead[r], {}) \subseteq docs[r]
        /\ docs[r] \subseteq Contents(LastSeq, {}, dead[r])

\* What the saved position covers is durable in the replica's own shard, so a
\* crash repeats entries and never skips one (replica.go:26-29); a reset
\* behind the position may have removed it since.
PositionIsDurable ==
    \A r \in Replicas :
        (saved[r] # NoPosition /\ ~lost /\ \A n \in saved[r] + 1 .. LastSeq : hist[n].op # "reset")
        => Contents(saved[r], dead[r], {}) \subseteq disk[r]

\* The primary sends without holes and without repetitions, from the position
\* the replica asked for: the replica's own checks (replica.go:316, 323)
\* never have to act.
StreamIsContiguous ==
    \A r \in Replicas : \A i \in 1 .. Len(net[r]) :
        net[r][i].status = "ok" => net[r][i].entry.seq = applied[r] + i

\* The primary gives up on a replica only when the next entry is in its log file
\* no more, or in the ring no more (primary.go:171, 219): never while both have it.
ReseedOnlyWhenFlushed ==
    [][\A r \in Replicas :
        (stream[r].phase # "ended" /\ stream'[r].phase = "ended"
         /\ Last(net'[r]).status = "FailedPrecondition")
        => stream[r].lastSent + 1 \notin InWAL \/ ring[(stream[r].lastSent + 1) % RingSize].seq # stream[r].lastSent + 1]_vars

\* Once faults have stopped, every replica catches up or is told to re-seed,
\* unless the newest entry found its channel full.
Converges ==
    <>[](\A r \in Replicas : applied[r] >= LastSeq \/ needsResync[r] \/ missed[r])

=============================================================================
