-------------------------- MODULE ReplicationProofs --------------------------
(* Theorems about Replication, for all values of its constants: a stream has  *)
(* no holes, a replica that has caught up has the contents of its primary,    *)
(* saved positions are durable, and no stream asks for a needless re-seed.    *)
EXTENDS Replication, TLAPS

-----------------------------------------------------------------------------
(* The types of the state.                                                 *)

Record   == [op : {"write", "reset"}, id : 0 .. MaxWrites]
Entries  == [seq : Nat, op : {"none", "write", "reset"}, id : Nat]
Packets  == [status : {"ok", "Unavailable", "FailedPrecondition"}, entry : Entries]
Phases   == {"off", "lastSeq", "list", "read", "wal", "ring", "live", "ended"}
Streams  == [phase : Phases, lastSent : Nat, lastAtStart : Nat, file : Nat,
             todo : SUBSET Nat, next : Nat, upto : Nat]

LogTyped ==
    /\ hist \in Seq(Record)
    /\ flushed \in Nat /\ synced \in Nat /\ walSeqNum \in Nat
    /\ appending \in {"none", "ring", "channels"}
    /\ ring \in [0 .. RingSize - 1 -> Entries] /\ head \in Nat
    /\ writes \in 0 .. MaxWrites /\ lost \in BOOLEAN

StreamsTyped ==
    /\ stream \in [Replicas -> Streams]
    /\ channel \in [Replicas -> Seq(Entries)]
    /\ net \in [Replicas -> Seq(Packets)]

ReplicasTyped ==
    /\ applied \in [Replicas -> Nat] /\ previous \in [Replicas -> Nat]
    /\ saved \in [Replicas -> Nat \cup {NoPosition}]
    /\ walTicked \in [Replicas -> BOOLEAN]
    /\ docs \in [Replicas -> SUBSET Nat] /\ disk \in [Replicas -> SUBSET Nat]
    /\ failCount \in [Replicas -> Nat]
    /\ dead \in [Replicas -> SUBSET Nat]

Typed == LogTyped /\ StreamsTyped /\ ReplicasTyped

LEMMA IdleTyped == Idle \in Streams /\ Idle.phase = "off" /\ Idle.todo = {}
BY DEF Idle, Streams, Phases

LEMMA NoEntryTyped == NoEntry \in Entries
BY DEF NoEntry, Entries

LEMMA EntryTyped ==
    ASSUME Typed, NEW n \in 1 .. LastSeq
    PROVE  Entry(n) \in Entries /\ Entry(n).seq = n /\ Entry(n).op = hist[n].op
           /\ hist[n] \in Record /\ Entry(n).id = hist[n].id
<1>1. hist[n] \in Record
  BY DEF LastSeq, Typed, LogTyped
<1> QED
  BY <1>1, ReplicationAssumption DEF Entry, Entries, Record

LEMMA LastSeqTyped == ASSUME Typed PROVE LastSeq \in Nat
BY DEF LastSeq, Typed, LogTyped

LEMMA InitTyped == Init => Typed
<1> SUFFICES ASSUME Init PROVE Typed
  OBVIOUS
<1>1. LogTyped
  <2>1. hist \in Seq(Record) /\ ring \in [0 .. RingSize - 1 -> Entries]
    BY NoEntryTyped DEF Init
  <2>2. writes \in 0 .. MaxWrites
    BY ReplicationAssumption DEF Init
  <2> QED
    BY <2>1, <2>2 DEF Init, LogTyped
<1>2. StreamsTyped
  BY IdleTyped DEF Init, StreamsTyped
<1>3. ReplicasTyped
  BY DEF Init, ReplicasTyped, NoPosition
<1> QED
  BY <1>1, <1>2, <1>3 DEF Typed

LEMMA SlotTyped == ASSUME NEW n \in Nat PROVE n % RingSize \in 0 .. RingSize - 1
BY ReplicationAssumption

-----------------------------------------------------------------------------
(* What the parts of actions do.                                           *)

LEMMA GotoEffect ==
    ASSUME Typed, NEW r \in Replicas, NEW s \in Streams, Goto(r, s)
    PROVE  /\ stream' \in [Replicas -> Streams] /\ stream'[r] = s
           /\ \A q \in Replicas \ {r} : stream'[q] = stream[q]
BY DEF Goto, Typed, StreamsTyped

\* A message goes to a replica.
LEMMA PushEffect ==
    ASSUME Typed, NEW r \in Replicas, NEW p \in Packets, net' = [net EXCEPT ![r] = Append(@, p)]
    PROVE  /\ net' \in [Replicas -> Seq(Packets)] /\ net'[r] = Append(net[r], p)
           /\ Len(net'[r]) = Len(net[r]) + 1 /\ net'[r][Len(net[r]) + 1] = p
           /\ \A i \in 1 .. Len(net[r]) : net'[r][i] = net[r][i]
           /\ \A q \in Replicas \ {r} : net'[q] = net[q]
BY DEF Typed, StreamsTyped

LEMMA EndWithEffect ==
    ASSUME Typed, NEW r \in Replicas, NEW code \in {"Unavailable", "FailedPrecondition"}, EndWith(r, code)
    PROVE  /\ stream' \in [Replicas -> Streams] /\ net' \in [Replicas -> Seq(Packets)]
           /\ stream'[r].phase = "ended" /\ stream'[r].todo = {}
           /\ Len(net'[r]) = Len(net[r]) + 1 /\ net'[r][Len(net[r]) + 1].status = code
           /\ \A i \in 1 .. Len(net[r]) : net'[r][i] = net[r][i]
           /\ \A q \in Replicas \ {r} : stream'[q] = stream[q] /\ net'[q] = net[q]
<1> DEFINE s == [Idle EXCEPT !.phase = "ended"]
           p == [status |-> code, entry |-> NoEntry]
<1>1. s \in Streams /\ s.phase = "ended" /\ s.todo = {}
  BY DEF Idle, Streams, Phases
<1>2. p \in Packets /\ p.status = code
  BY NoEntryTyped DEF Packets
<1>3. Goto(r, s) /\ net' = [net EXCEPT ![r] = Append(@, p)]
  BY DEF EndWith
<1> HIDE DEF s, p
<1> QED
  BY <1>1, <1>2, <1>3, GotoEffect, PushEffect

\* The three outcomes of send.
LEMMA SendEffect ==
    ASSUME Typed, NEW r \in Replicas, NEW e \in Entries, NEW s \in Streams, NEW phase, Send(r, e, s, phase)
    PROVE  /\ stream' \in [Replicas -> Streams] /\ net' \in [Replicas -> Seq(Packets)]
           /\ \A q \in Replicas \ {r} : stream'[q] = stream[q] /\ net'[q] = net[q]
           /\ Len(net[r]) < Window
           /\ \/ /\ e.seq <= stream[r].lastSent
                 /\ stream'[r] = s /\ net'[r] = net[r]
              \/ /\ e.seq > stream[r].lastSent + 1
                 /\ stream'[r].phase = "ended" /\ stream'[r].todo = {}
                 /\ Len(net'[r]) = Len(net[r]) + 1
                 /\ net'[r][Len(net[r]) + 1].status =
                       IF phase = "live" THEN "Unavailable" ELSE "FailedPrecondition"
                 /\ \A i \in 1 .. Len(net[r]) : net'[r][i] = net[r][i]
              \/ /\ e.seq = stream[r].lastSent + 1
                 /\ stream'[r] = [s EXCEPT !.lastSent = e.seq]
                 /\ Len(net'[r]) = Len(net[r]) + 1
                 /\ net'[r][Len(net[r]) + 1] = [status |-> "ok", entry |-> e]
                 /\ \A i \in 1 .. Len(net[r]) : net'[r][i] = net[r][i]
<1>1. CASE e.seq <= stream[r].lastSent /\ Goto(r, s) /\ UNCHANGED net
  BY <1>1, GotoEffect DEF Send, Typed, StreamsTyped
<1>2. CASE /\ e.seq > stream[r].lastSent + 1
           /\ EndWith(r, IF phase = "live" THEN "Unavailable" ELSE "FailedPrecondition")
  <2> DEFINE code == IF phase = "live" THEN "Unavailable" ELSE "FailedPrecondition"
  <2>1. code \in {"Unavailable", "FailedPrecondition"} /\ EndWith(r, code) /\ Len(net[r]) < Window
    BY <1>2 DEF Send
  <2> HIDE DEF code
  <2>2. /\ stream' \in [Replicas -> Streams] /\ net' \in [Replicas -> Seq(Packets)]
        /\ stream'[r].phase = "ended" /\ stream'[r].todo = {}
        /\ Len(net'[r]) = Len(net[r]) + 1 /\ net'[r][Len(net[r]) + 1].status = code
        /\ \A i \in 1 .. Len(net[r]) : net'[r][i] = net[r][i]
        /\ \A q \in Replicas \ {r} : stream'[q] = stream[q] /\ net'[q] = net[q]
    BY <2>1, EndWithEffect
  <2> QED
    BY <1>2, <2>1, <2>2 DEF code
<1>3. CASE /\ e.seq = stream[r].lastSent + 1
           /\ Goto(r, [s EXCEPT !.lastSent = e.seq])
           /\ net' = [net EXCEPT ![r] = Append(@, [status |-> "ok", entry |-> e])]
  <2> DEFINE on == [s EXCEPT !.lastSent = e.seq]
             p  == [status |-> "ok", entry |-> e]
  <2>1. on \in Streams /\ p \in Packets
    BY DEF Streams, Entries, Packets
  <2>2. Goto(r, on) /\ net' = [net EXCEPT ![r] = Append(@, p)] /\ Len(net[r]) < Window
    BY <1>3 DEF Send
  <2>3. /\ stream' \in [Replicas -> Streams] /\ stream'[r] = on
        /\ \A q \in Replicas \ {r} : stream'[q] = stream[q]
    BY <2>1, <2>2, GotoEffect
  <2>4. /\ net' \in [Replicas -> Seq(Packets)]
        /\ Len(net'[r]) = Len(net[r]) + 1 /\ net'[r][Len(net[r]) + 1] = p
        /\ \A i \in 1 .. Len(net[r]) : net'[r][i] = net[r][i]
        /\ \A q \in Replicas \ {r} : net'[q] = net[q]
    BY <2>1, <2>2, PushEffect
  <2> QED
    BY <1>3, <2>2, <2>3, <2>4
<1> QED
  BY <1>1, <1>2, <1>3 DEF Send

LEMMA DisconnectEffect ==
    ASSUME Typed, NEW r \in Replicas, Disconnect(r)
    PROVE  /\ StreamsTyped'
           /\ stream'[r] = Idle /\ net'[r] = <<>> /\ channel'[r] = <<>>
           /\ \A q \in Replicas \ {r} :
                 stream'[q] = stream[q] /\ net'[q] = net[q] /\ channel'[q] = channel[q]
<1>1. /\ stream' \in [Replicas -> Streams] /\ stream'[r] = Idle
      /\ \A q \in Replicas \ {r} : stream'[q] = stream[q]
  BY IdleTyped, GotoEffect DEF Disconnect
<1>2. net' = [net EXCEPT ![r] = <<>>] /\ channel' = [channel EXCEPT ![r] = <<>>]
  BY DEF Disconnect
<1> QED
  BY <1>1, <1>2 DEF Typed, StreamsTyped

-----------------------------------------------------------------------------
(* Types: the log and the streams.                                         *)

\* The log grows by one entry.
LEMMA AppendLog ==
    ASSUME Typed, NEW e \in Record, hist' = Append(hist, e)
    PROVE  /\ hist' \in Seq(Record) /\ LastSeq' = LastSeq + 1 /\ LastSeq' \in Nat
           /\ hist'[LastSeq'] = e
           /\ \A n \in 1 .. LastSeq : hist'[n] = hist[n]
BY DEF LastSeq, Typed, LogTyped

LEMMA WriteTyped == ASSUME Typed, Write PROVE Typed'
<1>1. [op |-> "write", id |-> writes + 1] \in Record /\ writes' \in 0 .. MaxWrites
  BY ReplicationAssumption DEF Write, Record, Typed, LogTyped
<1>2. hist' \in Seq(Record)
  BY <1>1, AppendLog DEF Write
<1>3. UNCHANGED <<flushed, synced, walSeqNum, shared, streams, replica, lost>> /\ appending' = "ring"
  BY DEF Write
<1> QED
  BY <1>1, <1>2, <1>3 DEF Typed, LogTyped, StreamsTyped, ReplicasTyped, shared, streams, replica

LEMMA ResetTyped == ASSUME Typed, Reset PROVE Typed'
<1>1. [op |-> "reset", id |-> 0] \in Record
  BY ReplicationAssumption DEF Record
<1>2. hist' \in Seq(Record) /\ LastSeq + 1 \in Nat
  BY <1>1, AppendLog, LastSeqTyped DEF Reset
<1>3. /\ UNCHANGED <<shared, streams, replica, lost, writes>> /\ appending' = "ring"
      /\ flushed' = LastSeq + 1 /\ synced' = LastSeq + 1 /\ walSeqNum' = 1
  BY DEF Reset
<1> QED
  BY <1>2, <1>3 DEF Typed, LogTyped, StreamsTyped, ReplicasTyped, shared, streams, replica

LEMMA AppendRingTyped == ASSUME Typed, AppendRing, LastSeq > 0 PROVE Typed'
<1>1. LastSeq \in 1 .. LastSeq
  BY LastSeqTyped
<1>2. Entry(LastSeq) \in Entries /\ LastSeq + 1 \in Nat
  BY <1>1, EntryTyped, LastSeqTyped
<1>3. /\ UNCHANGED <<hist, flushed, synced, walSeqNum, streams, replica, history>>
      /\ appending' = "channels" /\ head' = LastSeq + 1
      /\ ring' = [ring EXCEPT ![LastSeq % RingSize] = Entry(LastSeq)]
  BY DEF AppendRing
<1>4. ring' \in [0 .. RingSize - 1 -> Entries]
  BY <1>2, <1>3 DEF Typed, LogTyped
<1> QED
  BY <1>2, <1>3, <1>4 DEF Typed, LogTyped, StreamsTyped, ReplicasTyped, streams, replica, history

LEMMA AppendChannelsTyped == ASSUME Typed, AppendChannels, LastSeq > 0 PROVE Typed'
<1>1. LastSeq \in 1 .. LastSeq
  BY LastSeqTyped
<1>2. Entry(LastSeq) \in Entries
  BY <1>1, EntryTyped
<1>3. /\ UNCHANGED <<hist, flushed, synced, walSeqNum, shared, stream, net, replica, lost, writes>>
      /\ appending' = "none"
      /\ channel' = [r \in Replicas |-> IF Registered(r) /\ ~Full(r)
                                        THEN Append(channel[r], Entry(LastSeq)) ELSE channel[r]]
  BY DEF AppendChannels
<1>4. channel' \in [Replicas -> Seq(Entries)]
  BY <1>2, <1>3 DEF Typed, StreamsTyped
<1> QED
  BY <1>3, <1>4 DEF Typed, LogTyped, StreamsTyped, ReplicasTyped, shared, replica

LEMMA SyncTyped == ASSUME Typed, SyncLog \/ Rotate PROVE Typed'
<1>1. /\ UNCHANGED <<hist, appending, shared, streams, replica, history>>
      /\ flushed' \in {flushed, LastSeq} /\ synced' = LastSeq /\ walSeqNum' \in {walSeqNum, walSeqNum + 1}
  BY DEF SyncLog, Rotate
<1> QED
  BY <1>1, LastSeqTyped
     DEF Typed, LogTyped, StreamsTyped, ReplicasTyped, shared, streams, replica, history

\* What a restart of the primary leaves.
LEMMA RestartEffect ==
    ASSUME Typed, PrimaryRestarts
    PROVE  /\ StreamsTyped' /\ head' = 0 /\ appending' = "none"
           /\ ring' \in [0 .. RingSize - 1 -> Entries]
           /\ \A i \in 0 .. RingSize - 1 : ring'[i] = NoEntry
           /\ \A r \in Replicas : stream'[r] = Idle /\ channel'[r] = <<>> /\ net'[r] = <<>>
           /\ UNCHANGED <<replica, walSeqNum, writes>>
<1>1. /\ appending' = "none" /\ head' = 0 /\ ring' = [i \in DOMAIN ring |-> NoEntry]
      /\ stream' = [r \in Replicas |-> Idle]
      /\ channel' = [r \in Replicas |-> <<>>] /\ net' = [r \in Replicas |-> <<>>]
      /\ UNCHANGED <<replica, walSeqNum, writes>>
  BY DEF PrimaryRestarts
<1>2. DOMAIN ring = 0 .. RingSize - 1
  BY DEF Typed, LogTyped
<1>3. ring' \in [0 .. RingSize - 1 -> Entries] /\ \A i \in 0 .. RingSize - 1 : ring'[i] = NoEntry
  BY <1>1, <1>2, NoEntryTyped
<1>4. StreamsTyped'
  BY <1>1, IdleTyped DEF StreamsTyped
<1> QED
  BY <1>1, <1>3, <1>4

LEMMA PrimaryStopTyped == ASSUME Typed, PrimaryStop PROVE Typed'
<1>1. PrimaryRestarts /\ flushed' = LastSeq /\ synced' = LastSeq /\ UNCHANGED <<hist, lost>>
  BY DEF PrimaryStop
<1> QED
  BY <1>1, RestartEffect, LastSeqTyped DEF Typed, LogTyped, ReplicasTyped, replica

LEMMA PrimaryCrashTyped == ASSUME Typed, PrimaryCrash, synced <= LastSeq PROVE Typed'
<1>1. /\ PrimaryRestarts /\ UNCHANGED <<flushed, synced>> /\ lost' \in BOOLEAN
      /\ hist' = SubSeq(hist, 1, synced)
  BY DEF PrimaryCrash, Typed, LogTyped
<1>2. hist' \in Seq(Record)
  BY <1>1 DEF LastSeq, Typed, LogTyped
<1> QED
  BY <1>1, <1>2, RestartEffect DEF Typed, LogTyped, ReplicasTyped, replica

\* A step of a stream that leaves the log, the ring and the replica.
LEMMA StreamTyped ==
    ASSUME Typed, UNCHANGED <<log, shared, replica, lost, writes>>, StreamsTyped' PROVE Typed'
BY DEF Typed, LogTyped, ReplicasTyped, log, shared, replica

LEMMA ConnectEffect ==
    ASSUME Typed, NEW r \in Replicas, Connect(r)
    PROVE  /\ StreamsTyped'
           /\ stream[r].phase = "off" /\ stream'[r].phase = "lastSeq"
           /\ stream'[r].lastSent = applied[r] /\ stream'[r].todo = {}
           /\ channel'[r] = <<>> /\ net' = net
           /\ \A q \in Replicas \ {r} : stream'[q] = stream[q] /\ channel'[q] = channel[q]
<1> DEFINE s == [Idle EXCEPT !.phase = "lastSeq", !.lastSent = applied[r]]
<1>1. applied[r] \in Nat
  BY DEF Typed, ReplicasTyped
<1>2. s \in Streams /\ s.phase = "lastSeq" /\ s.lastSent = applied[r] /\ s.todo = {}
  BY <1>1 DEF Idle, Streams, Phases
<1>3. /\ stream[r].phase = "off" /\ Goto(r, s) /\ channel' = [channel EXCEPT ![r] = <<>>]
      /\ UNCHANGED net
  BY DEF Connect
<1> HIDE DEF s
<1>4. /\ stream' \in [Replicas -> Streams] /\ stream'[r] = s
      /\ \A q \in Replicas \ {r} : stream'[q] = stream[q]
  BY <1>2, <1>3, GotoEffect
<1>5. /\ channel' \in [Replicas -> Seq(Entries)] /\ channel'[r] = <<>>
      /\ \A q \in Replicas \ {r} : channel'[q] = channel[q]
  BY <1>3 DEF Typed, StreamsTyped
<1> QED
  BY <1>2, <1>3, <1>4, <1>5 DEF Typed, StreamsTyped

\* A stream that goes on without a message.
LEMMA MoveEffect ==
    ASSUME Typed, NEW r \in Replicas, NEW s \in Streams, Goto(r, s), UNCHANGED <<channel, net>>
    PROVE  /\ StreamsTyped' /\ stream'[r] = s
           /\ \A q \in Replicas \ {r} : stream'[q] = stream[q]
BY GotoEffect DEF Typed, StreamsTyped

LEMMA ReadLastSeqEffect ==
    ASSUME Typed, NEW r \in Replicas, ReadLastSeq(r)
    PROVE  /\ StreamsTyped' /\ UNCHANGED <<channel, net>>
           /\ \A q \in Replicas \ {r} : stream'[q] = stream[q]
           /\ stream[r].phase = "lastSeq"
           /\ stream'[r] = [stream[r] EXCEPT !.phase = "list", !.lastAtStart = LastSeq]
<1> DEFINE s == [stream[r] EXCEPT !.phase = "list", !.lastAtStart = LastSeq]
<1>1. s \in Streams
  BY LastSeqTyped DEF Typed, StreamsTyped, Streams, Phases
<1>2. stream[r].phase = "lastSeq" /\ Goto(r, s) /\ UNCHANGED <<channel, net>>
  BY DEF ReadLastSeq
<1> HIDE DEF s
<1>3. /\ StreamsTyped' /\ stream'[r] = s /\ \A q \in Replicas \ {r} : stream'[q] = stream[q]
  BY <1>1, <1>2, MoveEffect
<1> QED
  BY <1>2, <1>3 DEF s

LEMMA ListWALEffect ==
    ASSUME Typed, NEW r \in Replicas, ListWAL(r)
    PROVE  /\ StreamsTyped' /\ UNCHANGED <<channel, net>>
           /\ \A q \in Replicas \ {r} : stream'[q] = stream[q]
           /\ stream[r].phase = "list"
           /\ stream'[r] = [stream[r] EXCEPT !.phase = "read", !.file = walSeqNum]
<1> DEFINE s == [stream[r] EXCEPT !.phase = "read", !.file = walSeqNum]
<1>1. s \in Streams
  BY DEF Typed, LogTyped, StreamsTyped, Streams, Phases
<1>2. stream[r].phase = "list" /\ Goto(r, s) /\ UNCHANGED <<channel, net>>
  BY DEF ListWAL
<1> HIDE DEF s
<1>3. /\ StreamsTyped' /\ stream'[r] = s /\ \A q \in Replicas \ {r} : stream'[q] = stream[q]
  BY <1>1, <1>2, MoveEffect
<1> QED
  BY <1>2, <1>3 DEF s

LEMMA ReadWALEffect ==
    ASSUME Typed, NEW r \in Replicas, ReadWAL(r)
    PROVE  /\ StreamsTyped' /\ UNCHANGED <<channel, net>>
           /\ \A q \in Replicas \ {r} : stream'[q] = stream[q]
           /\ stream[r].phase = "read"
           /\ stream'[r].phase = "wal" /\ stream'[r].lastSent = stream[r].lastSent
           /\ stream'[r].lastAtStart = stream[r].lastAtStart
           /\ stream'[r].todo = IF stream[r].file # walSeqNum THEN {}
                                ELSE {n \in InWAL : n > stream[r].lastSent}
<1> DEFINE found == IF stream[r].file # walSeqNum THEN {} ELSE {n \in InWAL : n > stream[r].lastSent}
           s == [stream[r] EXCEPT !.phase = "wal", !.todo = found]
<1>1. found \in SUBSET Nat
  BY DEF InWAL, Typed, LogTyped
<1>2. stream[r].phase = "read" /\ Goto(r, s) /\ UNCHANGED <<channel, net>>
  BY DEF ReadWAL
<1> HIDE DEF found
<1>3. /\ s \in Streams /\ s.phase = "wal" /\ s.lastSent = stream[r].lastSent
      /\ s.lastAtStart = stream[r].lastAtStart /\ s.todo = found
  BY <1>1 DEF Typed, StreamsTyped, Streams, Phases
<1> HIDE DEF s
<1>4. /\ StreamsTyped' /\ stream'[r] = s /\ \A q \in Replicas \ {r} : stream'[q] = stream[q]
  BY <1>2, <1>3, MoveEffect
<1> QED
  BY <1>2, <1>3, <1>4 DEF found

LEMMA BeginRingEffect ==
    ASSUME Typed, NEW r \in Replicas, BeginRing(r)
    PROVE  /\ StreamsTyped' /\ UNCHANGED <<channel, net>>
           /\ \A q \in Replicas \ {r} : stream'[q] = stream[q]
           /\ stream[r].phase = "wal" /\ stream[r].todo = {}
           /\ stream'[r].phase = "ring" /\ stream'[r].lastSent = stream[r].lastSent
           /\ stream'[r].lastAtStart = stream[r].lastAtStart /\ stream'[r].todo = {}
           /\ stream'[r].upto = head
           /\ \/ stream'[r].next = stream[r].lastSent + 1
              \/ stream'[r].next = head - RingSize /\ stream[r].lastSent + 1 < head - RingSize
<1> DEFINE first == stream[r].lastSent + 1
           next  == IF head > RingSize /\ first < head - RingSize THEN head - RingSize ELSE first
           s     == [stream[r] EXCEPT !.phase = "ring", !.upto = head, !.next = next]
<1>1. stream[r] \in Streams /\ head \in Nat /\ RingSize \in Nat
  BY ReplicationAssumption DEF Typed, LogTyped, StreamsTyped
<1>2. /\ next \in Nat
      /\ next = stream[r].lastSent + 1 \/ (next = head - RingSize /\ stream[r].lastSent + 1 < head - RingSize)
  BY <1>1 DEF Streams
<1>3. /\ stream[r].phase = "wal" /\ stream[r].todo = {} /\ Goto(r, s) /\ UNCHANGED <<channel, net>>
  BY DEF BeginRing
<1> HIDE DEF next
<1>4. /\ s \in Streams /\ s.phase = "ring" /\ s.lastSent = stream[r].lastSent
      /\ s.lastAtStart = stream[r].lastAtStart /\ s.todo = stream[r].todo
      /\ s.upto = head /\ s.next = next
  BY <1>1, <1>2 DEF Streams, Phases
<1> HIDE DEF s
<1>5. /\ StreamsTyped' /\ stream'[r] = s /\ \A q \in Replicas \ {r} : stream'[q] = stream[q]
  BY <1>3, <1>4, MoveEffect
<1> QED
  BY <1>2, <1>3, <1>4, <1>5

\* The messages in flight to r, and one more.
Pushed(r) ==
    /\ Len(net'[r]) = Len(net[r]) + 1
    /\ \A i \in 1 .. Len(net[r]) : net'[r][i] = net[r][i]

\* send refuses a hole, and the stream is over.
Refused(r, code) ==
    /\ Pushed(r) /\ net'[r][Len(net[r]) + 1].status = code
    /\ stream'[r].phase = "ended" /\ stream'[r].todo = {}

\* send passes the next entry.
Passed(r, e) ==
    /\ e.seq = stream[r].lastSent + 1
    /\ Pushed(r) /\ net'[r][Len(net[r]) + 1] = [status |-> "ok", entry |-> e]
    /\ stream'[r].phase = stream[r].phase /\ stream'[r].lastSent = e.seq
    /\ stream'[r].lastAtStart = stream[r].lastAtStart

\* send skips what was sent.
Skipped(r, e) ==
    /\ e.seq <= stream[r].lastSent /\ net'[r] = net[r]
    /\ stream'[r].phase = stream[r].phase /\ stream'[r].lastSent = stream[r].lastSent
    /\ stream'[r].lastAtStart = stream[r].lastAtStart

LEMMA SendOutcome ==
    ASSUME Typed, NEW r \in Replicas, NEW e \in Entries, NEW s \in Streams, NEW phase,
           Send(r, e, s, phase), s.phase = stream[r].phase, s.lastSent = stream[r].lastSent,
           s.lastAtStart = stream[r].lastAtStart
    PROVE  /\ stream' \in [Replicas -> Streams] /\ net' \in [Replicas -> Seq(Packets)]
           /\ \A q \in Replicas \ {r} : stream'[q] = stream[q] /\ net'[q] = net[q]
           /\ Len(net[r]) < Window
           /\ \/ /\ e.seq > stream[r].lastSent + 1
                 /\ Refused(r, IF phase = "live" THEN "Unavailable" ELSE "FailedPrecondition")
              \/ /\ Passed(r, e) \/ Skipped(r, e)
                 /\ stream'[r].todo = s.todo /\ stream'[r].next = s.next /\ stream'[r].upto = s.upto
<1> DEFINE on == [s EXCEPT !.lastSent = e.seq]
<1>1. /\ on.phase = s.phase /\ on.lastSent = e.seq /\ on.lastAtStart = s.lastAtStart
      /\ on.todo = s.todo /\ on.next = s.next /\ on.upto = s.upto
  BY DEF Streams
<1> HIDE DEF on
<1>2. /\ stream' \in [Replicas -> Streams] /\ net' \in [Replicas -> Seq(Packets)]
      /\ \A q \in Replicas \ {r} : stream'[q] = stream[q] /\ net'[q] = net[q]
      /\ Len(net[r]) < Window
      /\ \/ /\ e.seq <= stream[r].lastSent
            /\ stream'[r] = s /\ net'[r] = net[r]
         \/ /\ e.seq > stream[r].lastSent + 1
            /\ Refused(r, IF phase = "live" THEN "Unavailable" ELSE "FailedPrecondition")
         \/ /\ e.seq = stream[r].lastSent + 1
            /\ stream'[r] = on /\ Pushed(r)
            /\ net'[r][Len(net[r]) + 1] = [status |-> "ok", entry |-> e]
  BY SendEffect DEF Refused, Pushed, on
<1> QED
  BY <1>1, <1>2 DEF Passed, Skipped

LEMMA SendWALEffect ==
    ASSUME Typed, NEW r \in Replicas, SendWAL(r), stream[r].todo \subseteq 1 .. LastSeq
    PROVE  /\ StreamsTyped' /\ UNCHANGED channel /\ stream[r].phase = "wal" /\ Len(net[r]) < Window
           /\ \A q \in Replicas \ {r} : stream'[q] = stream[q] /\ net'[q] = net[q]
           /\ \E n \in stream[r].todo :
                 /\ \A m \in stream[r].todo : n <= m
                 /\ \/ n > stream[r].lastSent + 1 /\ Refused(r, "FailedPrecondition")
                    \/ /\ Passed(r, Entry(n)) \/ Skipped(r, Entry(n))
                       /\ stream'[r].todo = stream[r].todo \ {n}
<1>1. PICK n \in stream[r].todo :
         /\ \A m \in stream[r].todo : n <= m
         /\ Send(r, Entry(n), [stream[r] EXCEPT !.todo = @ \ {n}], "wal")
  BY DEF SendWAL
<1> DEFINE s == [stream[r] EXCEPT !.todo = stream[r].todo \ {n}]
<1>2. Entry(n) \in Entries /\ Entry(n).seq = n
  BY EntryTyped
<1>3. /\ s \in Streams /\ s.phase = stream[r].phase /\ s.lastSent = stream[r].lastSent
      /\ s.lastAtStart = stream[r].lastAtStart /\ s.todo = stream[r].todo \ {n}
  BY DEF Typed, StreamsTyped, Streams
<1>4. Send(r, Entry(n), s, "wal") /\ UNCHANGED channel /\ stream[r].phase = "wal"
  BY <1>1 DEF SendWAL
<1> HIDE DEF s
<1>5. /\ stream' \in [Replicas -> Streams] /\ net' \in [Replicas -> Seq(Packets)]
      /\ \A q \in Replicas \ {r} : stream'[q] = stream[q] /\ net'[q] = net[q]
      /\ Len(net[r]) < Window
      /\ \/ /\ Entry(n).seq > stream[r].lastSent + 1
            /\ Refused(r, IF "wal" = "live" THEN "Unavailable" ELSE "FailedPrecondition")
         \/ /\ Passed(r, Entry(n)) \/ Skipped(r, Entry(n))
            /\ stream'[r].todo = s.todo
  BY <1>2, <1>3, <1>4, SendOutcome
<1> QED
  BY <1>1, <1>2, <1>3, <1>4, <1>5 DEF Typed, StreamsTyped

LEMMA SendRingEffect ==
    ASSUME Typed, NEW r \in Replicas, SendRing(r)
    PROVE  /\ StreamsTyped' /\ UNCHANGED channel /\ stream[r].phase = "ring"
           /\ \A q \in Replicas \ {r} : stream'[q] = stream[q] /\ net'[q] = net[q]
           /\ stream[r].next < stream[r].upto
           /\ LET slot == ring[stream[r].next % RingSize]
              IN  \/ /\ slot.seq = stream[r].next /\ slot.seq > stream[r].lastSent + 1
                     /\ Len(net[r]) < Window /\ Refused(r, "FailedPrecondition")
                  \/ /\ \/ /\ slot.seq = stream[r].next /\ Len(net[r]) < Window
                           /\ Passed(r, slot) \/ Skipped(r, slot)
                        \/ /\ slot.seq # stream[r].next /\ net'[r] = net[r]
                           /\ stream'[r].phase = "ring" /\ stream'[r].lastSent = stream[r].lastSent
                           /\ stream'[r].lastAtStart = stream[r].lastAtStart
                     /\ stream'[r].todo = stream[r].todo /\ stream'[r].upto = stream[r].upto
                     /\ stream'[r].next = stream[r].next + 1
<1> DEFINE slot == ring[stream[r].next % RingSize]
           s    == [stream[r] EXCEPT !.next = stream[r].next + 1]
<1>1. stream[r] \in Streams /\ stream[r].next \in Nat
  BY DEF Typed, StreamsTyped, Streams
<1>2. slot \in Entries
  BY <1>1, SlotTyped DEF Typed, LogTyped
<1>3. /\ s \in Streams /\ s.phase = stream[r].phase /\ s.lastSent = stream[r].lastSent
      /\ s.lastAtStart = stream[r].lastAtStart /\ s.todo = stream[r].todo
      /\ s.upto = stream[r].upto /\ s.next = stream[r].next + 1
  BY <1>1 DEF Streams
<1>4. /\ UNCHANGED channel /\ stream[r].phase = "ring" /\ stream[r].next < stream[r].upto
      /\ IF slot.seq = stream[r].next THEN Send(r, slot, s, "ring") ELSE Goto(r, s) /\ UNCHANGED net
  BY DEF SendRing
<1> HIDE DEF s, slot
<1>5. CASE slot.seq = stream[r].next
  <2>1. /\ stream' \in [Replicas -> Streams] /\ net' \in [Replicas -> Seq(Packets)]
        /\ \A q \in Replicas \ {r} : stream'[q] = stream[q] /\ net'[q] = net[q]
        /\ Len(net[r]) < Window
        /\ \/ /\ slot.seq > stream[r].lastSent + 1
              /\ Refused(r, IF "ring" = "live" THEN "Unavailable" ELSE "FailedPrecondition")
           \/ /\ Passed(r, slot) \/ Skipped(r, slot)
              /\ stream'[r].todo = s.todo /\ stream'[r].next = s.next /\ stream'[r].upto = s.upto
    BY <1>2, <1>3, <1>4, <1>5, SendOutcome
  <2> QED
    BY <1>3, <1>4, <1>5, <2>1 DEF Typed, StreamsTyped, slot
<1>6. CASE slot.seq # stream[r].next
  <2>1. /\ StreamsTyped' /\ stream'[r] = s /\ UNCHANGED net
        /\ \A q \in Replicas \ {r} : stream'[q] = stream[q]
    BY <1>3, <1>4, <1>6, MoveEffect
  <2> QED
    BY <1>3, <1>4, <1>6, <2>1 DEF slot
<1> QED
  BY <1>5, <1>6

LEMMA BeginLiveEffect ==
    ASSUME Typed, NEW r \in Replicas, BeginLive(r)
    PROVE  /\ StreamsTyped' /\ UNCHANGED channel /\ stream[r].phase = "ring"
           /\ \A q \in Replicas \ {r} : stream'[q] = stream[q] /\ net'[q] = net[q]
           /\ \/ stream[r].lastSent < stream[r].lastAtStart /\ Refused(r, "FailedPrecondition")
              \/ /\ net'[r] = net[r] /\ stream'[r].phase = "live"
                 /\ stream'[r].lastSent = stream[r].lastSent /\ stream'[r].todo = {}
<1>1. stream[r] \in Streams /\ UNCHANGED channel /\ stream[r].phase = "ring"
  BY DEF BeginLive, Typed, StreamsTyped
<1>2. CASE stream[r].lastSent < stream[r].lastAtStart
  <2>1. EndWith(r, "FailedPrecondition")
    BY <1>2 DEF BeginLive
  <2>2. /\ stream' \in [Replicas -> Streams] /\ net' \in [Replicas -> Seq(Packets)]
        /\ stream'[r].phase = "ended" /\ stream'[r].todo = {}
        /\ Len(net'[r]) = Len(net[r]) + 1 /\ net'[r][Len(net[r]) + 1].status = "FailedPrecondition"
        /\ \A i \in 1 .. Len(net[r]) : net'[r][i] = net[r][i]
        /\ \A q \in Replicas \ {r} : stream'[q] = stream[q] /\ net'[q] = net[q]
    BY <2>1, EndWithEffect
  <2> QED
    BY <1>1, <1>2, <2>2 DEF Typed, StreamsTyped, Refused, Pushed
<1>3. CASE ~ (stream[r].lastSent < stream[r].lastAtStart)
  <2> DEFINE s == [Idle EXCEPT !.phase = "live", !.lastSent = stream[r].lastSent]
  <2>1. s \in Streams /\ s.phase = "live" /\ s.lastSent = stream[r].lastSent /\ s.todo = {}
    BY <1>1 DEF Idle, Streams, Phases
  <2>2. Goto(r, s) /\ UNCHANGED <<channel, net>>
    BY <1>3 DEF BeginLive
  <2> HIDE DEF s
  <2> QED
    BY <1>1, <2>1, <2>2, MoveEffect
<1> QED
  BY <1>2, <1>3

LEMMA SendLiveEffect ==
    ASSUME Typed, NEW r \in Replicas, SendLive(r)
    PROVE  /\ StreamsTyped' /\ stream[r].phase = "live" /\ Len(net[r]) < Window
           /\ channel[r] # <<>> /\ channel'[r] = Tail(channel[r])
           /\ \A q \in Replicas \ {r} :
                 stream'[q] = stream[q] /\ net'[q] = net[q] /\ channel'[q] = channel[q]
           /\ \/ Refused(r, "Unavailable")
              \/ /\ Passed(r, channel[r][1]) \/ Skipped(r, channel[r][1])
                 /\ stream'[r].todo = stream[r].todo
<1>1. /\ stream[r].phase = "live" /\ channel[r] # <<>>
      /\ Send(r, Head(channel[r]), stream[r], "live")
      /\ channel' = [channel EXCEPT ![r] = Tail(channel[r])]
  BY DEF SendLive
<1>2. /\ channel[r] \in Seq(Entries) /\ Head(channel[r]) = channel[r][1] /\ Head(channel[r]) \in Entries
      /\ Tail(channel[r]) \in Seq(Entries) /\ stream[r] \in Streams
  BY <1>1 DEF Typed, StreamsTyped
<1>3. /\ channel' \in [Replicas -> Seq(Entries)] /\ channel'[r] = Tail(channel[r])
      /\ \A q \in Replicas \ {r} : channel'[q] = channel[q]
  BY <1>1, <1>2 DEF Typed, StreamsTyped
<1>4. /\ stream' \in [Replicas -> Streams] /\ net' \in [Replicas -> Seq(Packets)]
      /\ \A q \in Replicas \ {r} : stream'[q] = stream[q] /\ net'[q] = net[q]
      /\ Len(net[r]) < Window
      /\ \/ Refused(r, "Unavailable")
         \/ /\ Passed(r, Head(channel[r])) \/ Skipped(r, Head(channel[r]))
            /\ stream'[r].todo = stream[r].todo
  BY <1>1, <1>2, SendOutcome
<1> QED
  BY <1>1, <1>2, <1>3, <1>4 DEF StreamsTyped

-----------------------------------------------------------------------------
(* What the steps of a replica do.                                         *)

StreamKept(q)  == stream'[q] = stream[q] /\ channel'[q] = channel[q] /\ net'[q] = net[q]
ContentsKept(q) == /\ applied'[q] = applied[q] /\ saved'[q] = saved[q] /\ previous'[q] = previous[q]
                   /\ walTicked'[q] = walTicked[q] /\ docs'[q] = docs[q] /\ disk'[q] = disk[q]
                   /\ dead'[q] = dead[q]
Dropped(q)     == stream'[q] = Idle /\ channel'[q] = <<>> /\ net'[q] = <<>>

\* The message at the head is taken, and the replica stands at its entry.
Advanced(r, e) ==
    /\ stream'[r] = stream[r] /\ channel'[r] = channel[r]
    /\ Len(net[r]) > 0 /\ Len(net'[r]) = Len(net[r]) - 1
    /\ \A i \in 1 .. Len(net[r]) - 1 : net'[r][i] = net[r][i + 1]
    /\ applied'[r] = e.seq /\ failCount'[r] = 0
    /\ saved'[r] = saved[r] /\ previous'[r] = previous[r] /\ walTicked'[r] = walTicked[r]

OthersKept(r) == \A q \in Replicas \ {r} :
                    StreamKept(q) /\ ContentsKept(q) /\ failCount'[q] = failCount[q]

LEMMA HeadMessage ==
    ASSUME Typed, NEW r \in Replicas, net[r] # <<>>
    PROVE  /\ Message(r) = net[r][1] /\ Message(r) \in Packets /\ Message(r).entry \in Entries
           /\ Len(net[r]) > 0 /\ Tail(net[r]) \in Seq(Packets)
           /\ Len(Tail(net[r])) = Len(net[r]) - 1
           /\ \A i \in 1 .. Len(net[r]) - 1 : Tail(net[r])[i] = net[r][i + 1]
<1>1. net[r] \in Seq(Packets)
  BY DEF Typed, StreamsTyped
<1>2. /\ Len(net[r]) > 0 /\ Tail(net[r]) \in Seq(Packets) /\ Len(Tail(net[r])) = Len(net[r]) - 1
      /\ \A i \in 1 .. Len(net[r]) - 1 : Tail(net[r])[i] = net[r][i + 1]
      /\ Head(net[r]) = net[r][1] /\ net[r][1] \in Packets
  BY <1>1
<1> QED
  BY <1>2 DEF Message, Packets

\* Steps that leave the log, the ring and the history.
LEMMA FollowTyped ==
    ASSUME Typed, UNCHANGED <<log, shared, lost, writes>>, StreamsTyped', ReplicasTyped' PROVE Typed'
BY DEF Typed, LogTyped, log, shared

LEMMA DropEffect ==
    ASSUME Typed, NEW r \in Replicas, ReceiveError(r) \/ Break(r)
    PROVE  /\ Typed' /\ UNCHANGED <<log, shared, lost>> /\ Dropped(r) /\ ContentsKept(r)
           /\ failCount'[r] = failCount[r] /\ OthersKept(r)
<1>1. Disconnect(r) /\ UNCHANGED <<log, shared, lost, writes>>
      /\ UNCHANGED <<applied, saved, previous, walTicked, docs, disk, failCount, dead>>
  BY DEF ReceiveError, Break, replica
<1>2. ReplicasTyped'
  BY <1>1 DEF Typed, ReplicasTyped
<1> QED
  BY <1>1, <1>2, DisconnectEffect, FollowTyped DEF Dropped, ContentsKept, StreamKept, OthersKept

LEMMA FailApplyEffect ==
    ASSUME Typed, NEW r \in Replicas, FailApply(r)
    PROVE  /\ Typed' /\ UNCHANGED <<log, shared, lost>> /\ Dropped(r) /\ ContentsKept(r)
           /\ failCount'[r] < MaxAttempts /\ OthersKept(r)
<1>1. /\ Disconnect(r) /\ UNCHANGED <<log, shared, lost, writes>>
      /\ UNCHANGED <<applied, saved, previous, walTicked, docs, disk, dead>>
      /\ failCount' = [failCount EXCEPT ![r] = failCount[r] + 1] /\ failCount[r] + 1 < MaxAttempts
  BY DEF FailApply
<1>2. ReplicasTyped' /\ failCount'[r] < MaxAttempts /\ \A q \in Replicas \ {r} : failCount'[q] = failCount[q]
  BY <1>1 DEF Typed, ReplicasTyped
<1> QED
  BY <1>1, <1>2, DisconnectEffect, FollowTyped DEF Dropped, ContentsKept, StreamKept, OthersKept

LEMMA AdvanceEffect ==
    ASSUME Typed, NEW r \in Replicas, NEW e \in Entries, net[r] # <<>>, Advance(r, e.seq)
    PROVE  /\ StreamsTyped' /\ Advanced(r, e)
           /\ applied' \in [Replicas -> Nat] /\ failCount' \in [Replicas -> Nat]
           /\ UNCHANGED <<saved, previous, walTicked>>
           /\ \A q \in Replicas \ {r} :
                 StreamKept(q) /\ applied'[q] = applied[q] /\ failCount'[q] = failCount[q]
<1> DEFINE m == Tail(net[r])
<1>1. /\ applied' = [applied EXCEPT ![r] = e.seq] /\ failCount' = [failCount EXCEPT ![r] = 0]
      /\ net' = [net EXCEPT ![r] = m] /\ UNCHANGED <<stream, channel, saved, previous, walTicked>>
  BY DEF Advance
<1>2. /\ m \in Seq(Packets) /\ Len(net[r]) > 0 /\ Len(m) = Len(net[r]) - 1
      /\ \A i \in 1 .. Len(net[r]) - 1 : m[i] = net[r][i + 1]
  BY HeadMessage
<1> HIDE DEF m
<1>3. net' \in [Replicas -> Seq(Packets)] /\ net'[r] = m /\ \A q \in Replicas \ {r} : net'[q] = net[q]
  BY <1>1, <1>2 DEF Typed, StreamsTyped
<1>4. /\ applied' \in [Replicas -> Nat] /\ applied'[r] = e.seq
      /\ \A q \in Replicas \ {r} : applied'[q] = applied[q]
  BY <1>1 DEF Typed, ReplicasTyped, Entries
<1>5. /\ failCount' \in [Replicas -> Nat] /\ failCount'[r] = 0
      /\ \A q \in Replicas \ {r} : failCount'[q] = failCount[q]
  BY <1>1 DEF Typed, ReplicasTyped
<1> QED
  BY <1>1, <1>2, <1>3, <1>4, <1>5 DEF Typed, StreamsTyped, Advanced, StreamKept

LEMMA ApplyEffect ==
    ASSUME Typed, NEW r \in Replicas, Apply(r), InOrder(r)
    PROVE  /\ Typed' /\ UNCHANGED <<log, shared, lost>> /\ OthersKept(r)
           /\ net[r][1].status = "ok" /\ Advanced(r, net[r][1].entry)
           /\ docs'[r] = ApplyTo(docs[r], net[r][1].entry)
           /\ disk'[r] = IF net[r][1].entry.op = "reset" THEN {} ELSE disk[r]
           /\ dead'[r] = dead[r] \ {net[r][1].entry.seq}
<1> DEFINE e == Message(r).entry
<1>1. /\ UNCHANGED <<log, shared, lost, writes>> /\ net[r] # <<>> /\ Message(r).status = "ok"
      /\ docs' = [docs EXCEPT ![r] = ApplyTo(@, e)]
      /\ disk' = IF e.op = "reset" THEN [disk EXCEPT ![r] = {}] ELSE disk
      /\ dead' = [dead EXCEPT ![r] = @ \ {e.seq}]
      /\ Advance(r, e.seq)
  BY DEF Apply, HasEntry
<1>2. e \in Entries /\ e = net[r][1].entry /\ net[r][1].status = "ok"
  BY <1>1, HeadMessage
<1> HIDE DEF e
<1>3. /\ StreamsTyped' /\ Advanced(r, e)
      /\ applied' \in [Replicas -> Nat] /\ failCount' \in [Replicas -> Nat]
      /\ UNCHANGED <<saved, previous, walTicked>>
      /\ \A q \in Replicas \ {r} :
            StreamKept(q) /\ applied'[q] = applied[q] /\ failCount'[q] = failCount[q]
  BY <1>1, <1>2, AdvanceEffect
<1>4. ApplyTo(docs[r], e) \in SUBSET Nat
  BY <1>2 DEF Typed, ReplicasTyped, ApplyTo, Entries
<1>5. /\ docs' \in [Replicas -> SUBSET Nat] /\ docs'[r] = ApplyTo(docs[r], e)
      /\ \A q \in Replicas \ {r} : docs'[q] = docs[q]
  BY <1>1, <1>4 DEF Typed, ReplicasTyped
<1>6. /\ disk' \in [Replicas -> SUBSET Nat] /\ disk'[r] = IF e.op = "reset" THEN {} ELSE disk[r]
      /\ \A q \in Replicas \ {r} : disk'[q] = disk[q]
  BY <1>1 DEF Typed, ReplicasTyped
<1>7. /\ dead' \in [Replicas -> SUBSET Nat] /\ dead'[r] = dead[r] \ {e.seq}
      /\ \A q \in Replicas \ {r} : dead'[q] = dead[q]
  BY <1>1 DEF Typed, ReplicasTyped
<1>8. Typed'
  BY <1>1, <1>3, <1>5, <1>6, <1>7, FollowTyped DEF Typed, ReplicasTyped
<1> QED
  BY <1>1, <1>2, <1>3, <1>5, <1>6, <1>7, <1>8 DEF OthersKept, ContentsKept

LEMMA DeadLetterEffect ==
    ASSUME Typed, NEW r \in Replicas, DeadLetter(r)
    PROVE  /\ Typed' /\ UNCHANGED <<log, shared, lost>> /\ OthersKept(r)
           /\ InOrder(r) /\ Message(r) = net[r][1]
           /\ net[r][1].status = "ok" /\ Advanced(r, net[r][1].entry)
           /\ docs'[r] = docs[r] /\ disk'[r] = disk[r]
           /\ dead'[r] = dead[r] \cup {net[r][1].entry.seq}
<1> DEFINE e == Message(r).entry
<1>1. /\ UNCHANGED <<log, shared, docs, disk, lost, writes>> /\ net[r] # <<>> /\ Message(r).status = "ok"
      /\ InOrder(r) /\ dead' = [dead EXCEPT ![r] = @ \cup {e.seq}] /\ Advance(r, e.seq)
  BY DEF DeadLetter, Fails, HasEntry
<1>2. e \in Entries /\ e = net[r][1].entry /\ net[r][1].status = "ok" /\ Message(r) = net[r][1]
  BY <1>1, HeadMessage
<1> HIDE DEF e
<1>3. /\ StreamsTyped' /\ Advanced(r, e)
      /\ applied' \in [Replicas -> Nat] /\ failCount' \in [Replicas -> Nat]
      /\ UNCHANGED <<saved, previous, walTicked>>
      /\ \A q \in Replicas \ {r} :
            StreamKept(q) /\ applied'[q] = applied[q] /\ failCount'[q] = failCount[q]
  BY <1>1, <1>2, AdvanceEffect
<1>4. /\ dead' \in [Replicas -> SUBSET Nat] /\ dead'[r] = dead[r] \cup {e.seq}
      /\ \A q \in Replicas \ {r} : dead'[q] = dead[q]
  BY <1>1, <1>2 DEF Typed, ReplicasTyped, Entries
<1>5. Typed'
  BY <1>1, <1>3, <1>4, FollowTyped DEF Typed, ReplicasTyped
<1> QED
  BY <1>1, <1>2, <1>3, <1>4, <1>5 DEF OthersKept, ContentsKept

LEMMA FlushReplicaEffect ==
    ASSUME Typed, NEW r \in Replicas, FlushReplica(r)
    PROVE  /\ Typed' /\ UNCHANGED <<log, shared, lost>> /\ OthersKept(r) /\ StreamKept(r)
           /\ applied'[r] = applied[r] /\ saved'[r] = saved[r] /\ previous'[r] = previous[r]
           /\ failCount'[r] = failCount[r]
           /\ docs'[r] = docs[r] /\ disk'[r] = docs[r] /\ dead'[r] = dead[r]
<1>1. /\ UNCHANGED <<log, shared, stream, channel, net, applied, saved, previous, docs, failCount, dead,
                     lost, writes>>
      /\ disk' = [disk EXCEPT ![r] = docs[r]] /\ walTicked' = [walTicked EXCEPT ![r] = TRUE]
  BY DEF FlushReplica, streams, history
<1>2. /\ disk' \in [Replicas -> SUBSET Nat] /\ disk'[r] = docs[r]
      /\ \A q \in Replicas \ {r} : disk'[q] = disk[q]
  BY <1>1 DEF Typed, ReplicasTyped
<1>3. walTicked' \in [Replicas -> BOOLEAN] /\ \A q \in Replicas \ {r} : walTicked'[q] = walTicked[q]
  BY <1>1 DEF Typed, ReplicasTyped
<1>4. Typed'
  BY <1>1, <1>2, <1>3, FollowTyped DEF Typed, StreamsTyped, ReplicasTyped
<1> QED
  BY <1>1, <1>2, <1>3, <1>4 DEF OthersKept, StreamKept, ContentsKept

LEMMA PersistTickEffect ==
    ASSUME Typed, NEW r \in Replicas, PersistTick(r)
    PROVE  /\ Typed' /\ UNCHANGED <<log, shared, lost>> /\ OthersKept(r) /\ StreamKept(r)
           /\ walTicked[r] /\ ~walTicked'[r]
           /\ applied'[r] = applied[r] /\ saved'[r] = previous[r] /\ previous'[r] = applied[r]
           /\ failCount'[r] = failCount[r]
           /\ docs'[r] = docs[r] /\ disk'[r] = disk[r] /\ dead'[r] = dead[r]
<1>1. /\ UNCHANGED <<log, shared, stream, channel, net, applied, docs, disk, failCount, dead, lost, writes>>
      /\ walTicked[r] /\ walTicked' = [walTicked EXCEPT ![r] = FALSE]
      /\ saved' = [saved EXCEPT ![r] = previous[r]] /\ previous' = [previous EXCEPT ![r] = applied[r]]
  BY DEF PersistTick, streams, history
<1>2. /\ saved' \in [Replicas -> Nat \cup {NoPosition}] /\ saved'[r] = previous[r]
      /\ \A q \in Replicas \ {r} : saved'[q] = saved[q]
  BY <1>1 DEF Typed, ReplicasTyped
<1>3. /\ previous' \in [Replicas -> Nat] /\ previous'[r] = applied[r]
      /\ \A q \in Replicas \ {r} : previous'[q] = previous[q]
  BY <1>1 DEF Typed, ReplicasTyped
<1>4. /\ walTicked' \in [Replicas -> BOOLEAN] /\ walTicked'[r] = FALSE
      /\ \A q \in Replicas \ {r} : walTicked'[q] = walTicked[q]
  BY <1>1 DEF Typed, ReplicasTyped
<1>5. Typed'
  BY <1>1, <1>2, <1>3, <1>4, FollowTyped DEF Typed, StreamsTyped, ReplicasTyped
<1> QED
  BY <1>1, <1>2, <1>3, <1>4, <1>5 DEF OthersKept, StreamKept, ContentsKept

\* A replica that starts again, at a position.
LEMMA ReplicaRestartsEffect ==
    ASSUME Typed, NEW r \in Replicas, NEW position \in Nat, ReplicaRestarts(r, position)
    PROVE  /\ UNCHANGED <<log, shared, lost, writes>> /\ StreamsTyped' /\ Dropped(r)
           /\ applied' \in [Replicas -> Nat] /\ applied'[r] = position
           /\ previous' \in [Replicas -> Nat] /\ previous'[r] = position
           /\ walTicked' \in [Replicas -> BOOLEAN] /\ walTicked'[r] = FALSE
           /\ failCount' \in [Replicas -> Nat] /\ failCount'[r] = 0
           /\ dead' = dead
           /\ \A q \in Replicas \ {r} :
                 /\ StreamKept(q) /\ applied'[q] = applied[q] /\ previous'[q] = previous[q]
                 /\ walTicked'[q] = walTicked[q] /\ failCount'[q] = failCount[q]
<1>1. /\ UNCHANGED <<log, shared, lost, writes, dead>> /\ Disconnect(r)
      /\ applied' = [applied EXCEPT ![r] = position] /\ previous' = [previous EXCEPT ![r] = position]
      /\ walTicked' = [walTicked EXCEPT ![r] = FALSE] /\ failCount' = [failCount EXCEPT ![r] = 0]
  BY DEF ReplicaRestarts
<1>2. StreamsTyped' /\ Dropped(r) /\ \A q \in Replicas \ {r} : StreamKept(q)
  BY <1>1, DisconnectEffect DEF Dropped, StreamKept
<1>3. /\ applied' \in [Replicas -> Nat] /\ applied'[r] = position
      /\ \A q \in Replicas \ {r} : applied'[q] = applied[q]
  BY <1>1 DEF Typed, ReplicasTyped
<1>4. /\ previous' \in [Replicas -> Nat] /\ previous'[r] = position
      /\ \A q \in Replicas \ {r} : previous'[q] = previous[q]
  BY <1>1 DEF Typed, ReplicasTyped
<1>5. /\ walTicked' \in [Replicas -> BOOLEAN] /\ walTicked'[r] = FALSE
      /\ \A q \in Replicas \ {r} : walTicked'[q] = walTicked[q]
  BY <1>1 DEF Typed, ReplicasTyped
<1>6. /\ failCount' \in [Replicas -> Nat] /\ failCount'[r] = 0
      /\ \A q \in Replicas \ {r} : failCount'[q] = failCount[q]
  BY <1>1 DEF Typed, ReplicasTyped
<1> QED
  BY <1>1, <1>2, <1>3, <1>4, <1>5, <1>6

LEMMA ReplicaStopEffect ==
    ASSUME Typed, NEW r \in Replicas, ReplicaStop(r)
    PROVE  /\ Typed' /\ UNCHANGED <<log, shared, lost>> /\ OthersKept(r) /\ Dropped(r)
           /\ ~walTicked'[r] /\ failCount'[r] = 0
           /\ applied'[r] = applied[r] /\ saved'[r] = applied[r] /\ previous'[r] = applied[r]
           /\ docs'[r] = docs[r] /\ disk'[r] = docs[r] /\ dead'[r] = dead[r]
<1>1. applied[r] \in Nat /\ ReplicaRestarts(r, applied[r])
  BY DEF ReplicaStop, Typed, ReplicasTyped
<1>2. saved' = [saved EXCEPT ![r] = applied[r]] /\ disk' = [disk EXCEPT ![r] = docs[r]] /\ docs' = docs
  BY DEF ReplicaStop
<1>3. /\ saved' \in [Replicas -> Nat \cup {NoPosition}] /\ saved'[r] = applied[r]
      /\ \A q \in Replicas \ {r} : saved'[q] = saved[q]
  BY <1>1, <1>2 DEF Typed, ReplicasTyped
<1>4. /\ disk' \in [Replicas -> SUBSET Nat] /\ disk'[r] = docs[r]
      /\ \A q \in Replicas \ {r} : disk'[q] = disk[q]
  BY <1>2 DEF Typed, ReplicasTyped
<1>5. /\ UNCHANGED <<log, shared, lost, writes>> /\ StreamsTyped' /\ Dropped(r)
      /\ applied' \in [Replicas -> Nat] /\ applied'[r] = applied[r]
      /\ previous' \in [Replicas -> Nat] /\ previous'[r] = applied[r]
      /\ walTicked' \in [Replicas -> BOOLEAN] /\ walTicked'[r] = FALSE
      /\ failCount' \in [Replicas -> Nat] /\ failCount'[r] = 0
      /\ dead' = dead
      /\ \A q \in Replicas \ {r} :
            /\ StreamKept(q) /\ applied'[q] = applied[q] /\ previous'[q] = previous[q]
            /\ walTicked'[q] = walTicked[q] /\ failCount'[q] = failCount[q]
  BY <1>1, ReplicaRestartsEffect
<1>6. Typed'
  BY <1>2, <1>3, <1>4, <1>5, FollowTyped DEF Typed, ReplicasTyped
<1> QED
  BY <1>2, <1>3, <1>4, <1>5, <1>6 DEF OthersKept, ContentsKept

LEMMA ReplicaCrashEffect ==
    ASSUME Typed, NEW r \in Replicas, ReplicaCrash(r)
    PROVE  /\ Typed' /\ UNCHANGED <<log, shared, lost>> /\ OthersKept(r) /\ Dropped(r)
           /\ saved[r] \in Nat /\ ~walTicked'[r] /\ failCount'[r] = 0
           /\ applied'[r] = saved[r] /\ saved'[r] = saved[r] /\ previous'[r] = saved[r]
           /\ docs'[r] = disk[r] /\ disk'[r] = disk[r] /\ dead'[r] = dead[r]
<1>1. saved[r] \in Nat /\ ReplicaRestarts(r, saved[r])
  BY DEF ReplicaCrash, Typed, ReplicasTyped
<1>2. docs' = [docs EXCEPT ![r] = disk[r]] /\ UNCHANGED <<saved, disk>>
  BY DEF ReplicaCrash
<1>3. /\ docs' \in [Replicas -> SUBSET Nat] /\ docs'[r] = disk[r]
      /\ \A q \in Replicas \ {r} : docs'[q] = docs[q]
  BY <1>2 DEF Typed, ReplicasTyped
<1>4. /\ UNCHANGED <<log, shared, lost, writes>> /\ StreamsTyped' /\ Dropped(r)
      /\ applied' \in [Replicas -> Nat] /\ applied'[r] = saved[r]
      /\ previous' \in [Replicas -> Nat] /\ previous'[r] = saved[r]
      /\ walTicked' \in [Replicas -> BOOLEAN] /\ walTicked'[r] = FALSE
      /\ failCount' \in [Replicas -> Nat] /\ failCount'[r] = 0
      /\ dead' = dead
      /\ \A q \in Replicas \ {r} :
            /\ StreamKept(q) /\ applied'[q] = applied[q] /\ previous'[q] = previous[q]
            /\ walTicked'[q] = walTicked[q] /\ failCount'[q] = failCount[q]
  BY <1>1, ReplicaRestartsEffect
<1>5. Typed'
  BY <1>2, <1>3, <1>4, FollowTyped DEF Typed, ReplicasTyped
<1> QED
  BY <1>1, <1>2, <1>3, <1>4, <1>5 DEF OthersKept, ContentsKept

-----------------------------------------------------------------------------
(* The inductive invariant.                                                *)

\* What an entry must be before a replica may see it: synced, or in the ring.
Published(n) == n \in 1 .. LastSeq /\ (n <= synced \/ n < head)
Real(e)      == Published(e.seq) /\ e = Entry(e.seq)

LogFits ==
    /\ flushed <= synced /\ synced <= LastSeq /\ LastSeq <= MaxSeq
    /\ appending = "none" => head \in {0, LastSeq + 1}
    /\ appending = "ring" => LastSeq > 0 /\ head \in {0, LastSeq}
    /\ appending = "channels" => LastSeq > 0 /\ head = LastSeq + 1
    /\ \A n \in synced + 1 .. LastSeq : hist[n].op # "reset"

\* The ring holds recent entries, each in its own slot.
SlotFits(i) ==
    ring[i].seq # 0 => /\ Real(ring[i]) /\ ring[i].seq % RingSize = i
                       /\ ring[i].seq < head /\ head - RingSize <= ring[i].seq
RingFits == \A i \in 0 .. RingSize - 1 : SlotFits(i)

ChannelFits(r) ==
    /\ Len(channel[r]) <= ChanSize
    /\ \A i \in 1 .. Len(channel[r]) : Real(channel[r][i])

\* What is in flight follows the position of the replica, and an error ends it.
MessageFits(r, i) ==
    \/ /\ net[r][i].status = "ok" /\ Real(net[r][i].entry)
       /\ net[r][i].entry.seq = applied[r] + i
    \/ net[r][i].status # "ok" /\ i = Len(net[r]) /\ stream[r].phase = "ended"
NetFits(r) ==
    /\ stream[r].phase = "off" => net[r] = <<>>
    /\ Registered(r) => Len(net[r]) <= Window /\ stream[r].lastSent = applied[r] + Len(net[r])
    /\ Len(net[r]) <= Window + 1
    /\ \A i \in 1 .. Len(net[r]) : MessageFits(r, i)

\* What a stream knows of the log when it is caught up.
ScanFits(r) ==
    /\ stream[r].phase = "list" => stream[r].lastAtStart <= LastSeq
    /\ stream[r].phase \in {"read", "wal", "ring"} => stream[r].lastAtStart <= synced
    /\ stream[r].phase = "read" /\ stream[r].file # walSeqNum => stream[r].lastAtStart <= flushed
    /\ stream[r].todo \subseteq 1 .. synced
    /\ stream[r].phase = "wal" =>
          \A n \in InWAL : stream[r].lastSent < n =>
              n \in stream[r].todo \/ (stream[r].lastAtStart < n /\ \A e \in stream[r].todo : e < n)
    /\ stream[r].phase = "ring" =>
          /\ stream[r].upto <= head
          /\ stream[r].next <= stream[r].lastSent + 1 \/ stream[r].next <= head
          /\ \A n \in InWAL : stream[r].lastSent < n => stream[r].lastAtStart < n
          /\ \A n \in stream[r].lastSent + 1 .. stream[r].next - 1 : ring[n % RingSize].seq # n

ReplicaFits(r) ==
    /\ applied[r] <= MaxSeq /\ failCount[r] < MaxAttempts
    /\ saved[r] <= previous[r] /\ previous[r] <= applied[r]

\* A write that no reset has removed since, and where a document may come from.
Lasting(i) == hist[i].op = "write" /\ \A j \in i + 1 .. LastSeq : hist[j].op # "reset"
Origin(i, r) ==
    /\ Published(i) /\ hist[i].op = "write"
    /\ \A j \in (i + 1 .. applied[r]) \ dead[r] : hist[j].op # "reset"
Covers(contents, n, r) == \A i \in (1 .. n) \ dead[r] : Lasting(i) => hist[i].id \in contents

ContentsFit(r) ==
    /\ applied[r] = 0 \/ Published(applied[r])
    /\ \A x \in docs[r] \cup disk[r] : \E i \in 1 .. LastSeq : hist[i].id = x /\ Origin(i, r)
    /\ Covers(docs[r], applied[r], r) /\ Covers(disk[r], saved[r], r)
    /\ walTicked[r] => Covers(disk[r], previous[r], r)

Inv ==
    /\ Typed /\ LogFits /\ RingFits
    /\ \A r \in Replicas : ChannelFits(r) /\ NetFits(r) /\ ScanFits(r) /\ ReplicaFits(r)
    /\ lost \/ \A r \in Replicas : ContentsFit(r)

-----------------------------------------------------------------------------
(* The log: what its steps keep.                                           *)

\* What was published stays, with its number.
LogKept == \A n \in 1 .. LastSeq : Published(n) => Published(n)' /\ hist'[n] = hist[n]

\* The log only grows.
Grown ==
    /\ LastSeq <= LastSeq' /\ \A n \in 1 .. LastSeq : hist'[n] = hist[n]
    /\ flushed <= flushed' /\ synced <= synced' /\ head <= head'
    /\ walSeqNum' = walSeqNum \/ flushed' = LastSeq'
    /\ \A n \in Nat : n < head /\ ring[n % RingSize].seq # n => ring'[n % RingSize].seq # n

LEMMA GrownKeeps == ASSUME Typed, Grown, Typed' PROVE LogKept
<1> SUFFICES ASSUME NEW n \in 1 .. LastSeq, Published(n) PROVE Published(n)' /\ hist'[n] = hist[n]
  BY DEF LogKept
<1>1. LastSeq \in Nat /\ LastSeq' \in Nat /\ synced \in Nat /\ synced' \in Nat /\ head \in Nat /\ head' \in Nat
  BY DEF LastSeq, Typed, LogTyped
<1> QED
  BY <1>1 DEF Grown, Published

\* A reset is durable when it is made.
LEMMA ResetsArePublished ==
    ASSUME Typed, LogFits, NEW n \in 1 .. LastSeq, hist[n].op = "reset" PROVE Published(n)
<1>1. LastSeq \in Nat /\ synced \in Nat
  BY DEF LastSeq, Typed, LogTyped
<1>2. n <= synced
  BY <1>1 DEF LogFits
<1> QED
  BY <1>2 DEF Published

LEMMA WriteGrows == ASSUME Typed, LogFits, Write PROVE Grown /\ LogFits' /\ UNCHANGED shared
<1> DEFINE e == [op |-> "write", id |-> writes + 1]
<1>1. e \in Record /\ e.op # "reset"
  BY ReplicationAssumption DEF Write, Record, Typed, LogTyped
<1>2. /\ hist' = Append(hist, e) /\ appending = "none" /\ LastSeq < MaxSeq /\ appending' = "ring"
      /\ UNCHANGED <<flushed, synced, walSeqNum, ring, head>>
  BY DEF Write, shared
<1> HIDE DEF e
<1>3. /\ LastSeq' = LastSeq + 1 /\ hist'[LastSeq'] = e /\ \A n \in 1 .. LastSeq : hist'[n] = hist[n]
  BY <1>1, <1>2, AppendLog
<1>4. LastSeq \in Nat /\ synced \in Nat /\ flushed \in Nat /\ head \in Nat
  BY DEF LastSeq, Typed, LogTyped
<1>5. Grown
  <2>1. LastSeq <= LastSeq' /\ \A n \in 1 .. LastSeq : hist'[n] = hist[n]
    BY <1>3, <1>4
  <2>2. flushed <= flushed' /\ synced <= synced' /\ head <= head' /\ walSeqNum' = walSeqNum
    BY <1>2, <1>4
  <2>3. \A n \in Nat : n < head /\ ring[n % RingSize].seq # n => ring'[n % RingSize].seq # n
    BY <1>2
  <2> QED
    BY <2>1, <2>2, <2>3 DEF Grown
<1>6. ASSUME NEW n \in synced' + 1 .. LastSeq' PROVE hist'[n].op # "reset"
  <2>1. n = LastSeq' \/ n \in synced + 1 .. LastSeq
    BY <1>2, <1>3, <1>4
  <2>2. \A m \in synced + 1 .. LastSeq : m \in 1 .. LastSeq /\ hist[m].op # "reset"
    BY <1>4 DEF LogFits
  <2> QED
    BY <1>1, <1>3, <2>1, <2>2
<1>7. LogFits'
  <2>1. flushed' <= synced' /\ synced' <= LastSeq' /\ LastSeq' <= MaxSeq
    BY <1>2, <1>3, <1>4, ReplicationAssumption DEF LogFits
  <2>2. head' \in {0, LastSeq'} /\ LastSeq' > 0 /\ appending' = "ring"
    BY <1>2, <1>3, <1>4 DEF LogFits
  <2> QED
    BY <1>6, <2>1, <2>2 DEF LogFits
<1> QED
  BY <1>2, <1>5, <1>7 DEF shared

LEMMA ResetGrows == ASSUME Typed, LogFits, Reset PROVE Grown /\ LogFits' /\ UNCHANGED shared
<1> DEFINE e == [op |-> "reset", id |-> 0]
<1>1. e \in Record
  BY ReplicationAssumption DEF Record
<1>2. /\ hist' = Append(hist, e) /\ appending = "none" /\ LastSeq < MaxSeq /\ appending' = "ring"
      /\ flushed' = LastSeq + 1 /\ synced' = LastSeq + 1 /\ UNCHANGED <<ring, head>>
  BY DEF Reset, shared
<1> HIDE DEF e
<1>3. LastSeq' = LastSeq + 1 /\ \A n \in 1 .. LastSeq : hist'[n] = hist[n]
  BY <1>1, <1>2, AppendLog
<1>4. LastSeq \in Nat /\ synced \in Nat /\ flushed \in Nat /\ head \in Nat
  BY DEF LastSeq, Typed, LogTyped
<1>5. Grown
  <2>1. LastSeq <= LastSeq' /\ \A n \in 1 .. LastSeq : hist'[n] = hist[n]
    BY <1>3, <1>4
  <2>2. flushed <= flushed' /\ synced <= synced' /\ head <= head' /\ flushed' = LastSeq'
    BY <1>2, <1>3, <1>4 DEF LogFits
  <2>3. \A n \in Nat : n < head /\ ring[n % RingSize].seq # n => ring'[n % RingSize].seq # n
    BY <1>2
  <2> QED
    BY <2>1, <2>2, <2>3 DEF Grown
<1>6. LogFits'
  BY <1>2, <1>3, <1>4, ReplicationAssumption DEF LogFits
<1> QED
  BY <1>2, <1>5, <1>6 DEF shared

LEMMA AppendRingGrows == ASSUME Typed, LogFits, AppendRing PROVE Grown /\ LogFits' /\ LastSeq > 0
<1>1. /\ appending = "ring" /\ LastSeq > 0 /\ head \in {0, LastSeq}
  BY DEF AppendRing, LogFits
<1>2. /\ UNCHANGED <<hist, flushed, synced, walSeqNum>>
      /\ appending' = "channels" /\ head' = LastSeq + 1
      /\ ring' = [ring EXCEPT ![LastSeq % RingSize] = Entry(LastSeq)]
  BY DEF AppendRing
<1>3. LastSeq \in Nat /\ synced \in Nat /\ flushed \in Nat /\ head \in Nat /\ LastSeq' = LastSeq
  BY <1>2 DEF LastSeq, Typed, LogTyped
<1>4. Entry(LastSeq).seq = LastSeq
  BY DEF Entry
<1>5. ASSUME NEW n \in Nat, n < head, ring[n % RingSize].seq # n PROVE ring'[n % RingSize].seq # n
  <2>1. n % RingSize \in 0 .. RingSize - 1 /\ LastSeq % RingSize \in 0 .. RingSize - 1
    BY <1>3, SlotTyped
  <2>2. n # LastSeq
    BY <1>1, <1>3, <1>5
  <2> QED
    BY <1>2, <1>4, <1>5, <2>1, <2>2 DEF Typed, LogTyped
<1>6. Grown
  BY <1>1, <1>2, <1>3, <1>5 DEF Grown
<1>7. LogFits'
  BY <1>1, <1>2, <1>3 DEF LogFits
<1> QED
  BY <1>1, <1>6, <1>7

LEMMA SyncGrows ==
    ASSUME Typed, LogFits, SyncLog \/ Rotate PROVE Grown /\ LogFits' /\ UNCHANGED shared
<1>1. /\ UNCHANGED <<hist, appending, shared>> /\ synced' = LastSeq
      /\ \/ flushed' = flushed /\ walSeqNum' = walSeqNum
         \/ flushed' = LastSeq
  BY DEF SyncLog, Rotate
<1>2. LastSeq \in Nat /\ synced \in Nat /\ flushed \in Nat /\ head \in Nat /\ LastSeq' = LastSeq
  BY <1>1 DEF LastSeq, Typed, LogTyped
<1>3. Grown
  BY <1>1, <1>2 DEF Grown, shared, LogFits
<1>4. LogFits'
  BY <1>1, <1>2 DEF shared, LogFits
<1> QED
  BY <1>1, <1>3, <1>4

LEMMA ListWALGrows ==
    ASSUME Typed, LogFits, NEW r \in Replicas, ListWAL(r)
    PROVE  /\ Grown /\ LogFits' /\ UNCHANGED <<hist, walSeqNum, shared, replica, lost>> /\ Typed' /\ synced' = LastSeq
<1>1. /\ UNCHANGED <<hist, flushed, walSeqNum, appending, shared, replica, history>> /\ synced' = LastSeq
  BY DEF ListWAL
<1>2. LastSeq \in Nat /\ synced \in Nat /\ flushed \in Nat /\ head \in Nat /\ LastSeq' = LastSeq
  BY <1>1 DEF LastSeq, Typed, LogTyped
<1>3. Grown
  BY <1>1, <1>2 DEF Grown, shared, LogFits
<1>4. LogFits'
  BY <1>1, <1>2 DEF shared, LogFits
<1>5. StreamsTyped'
  BY ListWALEffect
<1>6. LogTyped' /\ ReplicasTyped'
  BY <1>1, <1>2 DEF Typed, LogTyped, ReplicasTyped, shared, replica, history
<1> QED
  BY <1>1, <1>3, <1>4, <1>5, <1>6 DEF Typed, history

\* Steps that leave the log and the ring.
LEMMA StillGrows == ASSUME Typed, LogFits, UNCHANGED <<log, shared>> PROVE Grown /\ LogFits'
<1>1. UNCHANGED <<hist, flushed, synced, walSeqNum, appending, ring, head, LastSeq>>
  BY DEF log, shared, LastSeq
<1>2. LastSeq \in Nat /\ synced \in Nat /\ flushed \in Nat /\ head \in Nat
  BY DEF LastSeq, Typed, LogTyped
<1>3. Grown
  BY <1>1, <1>2 DEF Grown
<1> QED
  BY <1>1, <1>3 DEF LogFits

LEMMA ChannelsGrow ==
    ASSUME Typed, LogFits, AppendChannels PROVE Grown /\ LogFits' /\ LastSeq > 0 /\ UNCHANGED shared
<1>1. /\ UNCHANGED <<hist, flushed, synced, walSeqNum, shared>>
      /\ appending = "channels" /\ appending' = "none"
  BY DEF AppendChannels
<1>2. /\ LastSeq \in Nat /\ synced \in Nat /\ flushed \in Nat /\ head \in Nat /\ LastSeq' = LastSeq
      /\ LastSeq > 0 /\ head = LastSeq + 1
  BY <1>1 DEF LastSeq, Typed, LogTyped, LogFits
<1>3. Grown
  BY <1>1, <1>2 DEF Grown, shared
<1>4. LogFits'
  BY <1>1, <1>2 DEF shared, LogFits
<1> QED
  BY <1>1, <1>2, <1>3, <1>4

\* A primary that stops has flushed and synced everything.
LEMMA StopKeeps ==
    ASSUME Typed, LogFits, PrimaryStop PROVE LogKept /\ LogFits' /\ UNCHANGED <<replica, lost>>
<1>1. /\ UNCHANGED <<hist, lost, replica>> /\ flushed' = LastSeq /\ synced' = LastSeq
      /\ head' = 0 /\ appending' = "none"
  BY RestartEffect DEF PrimaryStop
<1>2. LastSeq \in Nat /\ LastSeq' = LastSeq
  BY <1>1 DEF LastSeq, Typed, LogTyped
<1>3. LogKept
  BY <1>1, <1>2 DEF LogKept, Published
<1>4. LogFits'
  BY <1>1, <1>2 DEF LogFits
<1> QED
  BY <1>1, <1>3, <1>4

\* A crash that loses nothing that was published keeps the published entries.
LEMMA CrashKeeps ==
    ASSUME Typed, LogFits, PrimaryCrash
    PROVE  LogFits' /\ UNCHANGED replica /\ (~lost' => ~lost /\ LogKept)
<1>1. /\ hist' = SubSeq(hist, 1, synced) /\ UNCHANGED <<flushed, synced, replica>>
      /\ lost' = (lost \/ head > synced + 1) /\ head' = 0 /\ appending' = "none"
  BY RestartEffect DEF PrimaryCrash
<1>2. LastSeq \in Nat /\ synced \in Nat /\ flushed \in Nat /\ head \in Nat /\ synced <= LastSeq /\ hist \in Seq(Record)
  BY DEF LastSeq, Typed, LogTyped, LogFits
<1>3. LastSeq' = synced /\ \A n \in 1 .. synced : hist'[n] = hist[n]
  BY <1>1, <1>2 DEF LastSeq
<1>4. LogFits'
  BY <1>1, <1>2, <1>3, ReplicationAssumption DEF LogFits
<1>5. ASSUME ~lost' PROVE ~lost /\ LogKept
  <2>1. ~lost /\ ~ (head > synced + 1)
    BY <1>1, <1>5, Zenon
  <2>2. ASSUME NEW n \in 1 .. LastSeq, Published(n) PROVE Published(n)' /\ hist'[n] = hist[n]
    <3>1. n \in 1 .. synced
      BY <1>2, <2>1, <2>2 DEF Published
    <3>2. n \in 1 .. LastSeq' /\ n <= synced' /\ hist'[n] = hist[n]
      BY <1>1, <1>2, <1>3, <3>1
    <3> QED
      BY <3>2 DEF Published
  <2> QED
    BY <2>1, <2>2 DEF LogKept
<1> QED
  BY <1>1, <1>4, <1>5

-----------------------------------------------------------------------------
(* What a step that does not touch a stream or a replica leaves of it.     *)

LEMMA RealKept == ASSUME Typed, LogKept, NEW e \in Entries, Real(e) PROVE Real(e)'
<1>1. e.seq \in 1 .. LastSeq /\ Published(e.seq) /\ e = Entry(e.seq)
  BY DEF Real, Published
<1>2. Published(e.seq)' /\ hist'[e.seq] = hist[e.seq]
  BY <1>1 DEF LogKept
<1>3. Entry(e.seq)' = Entry(e.seq)
  BY <1>2 DEF Entry
<1> QED
  BY <1>1, <1>2, <1>3 DEF Real

LEMMA ChannelFitsKept ==
    ASSUME Typed, LogKept, NEW q \in Replicas, ChannelFits(q), channel'[q] = channel[q]
    PROVE  ChannelFits(q)'
<1>1. channel[q] \in Seq(Entries)
  BY DEF Typed, StreamsTyped
<1>2. ASSUME NEW i \in 1 .. Len(channel[q]) PROVE Real(channel[q][i])'
  <2>1. channel[q][i] \in Entries /\ Real(channel[q][i])
    BY <1>1 DEF ChannelFits
  <2> DEFINE e == channel[q][i]
  <2>2. e' = e
    BY DEF e
  <2> QED
    BY <2>1, RealKept
<1> QED
  BY <1>2 DEF ChannelFits

LEMMA NetFitsKept ==
    ASSUME Typed, LogKept, NEW q \in Replicas, NetFits(q),
           stream'[q] = stream[q], net'[q] = net[q], applied'[q] = applied[q]
    PROVE  NetFits(q)'
<1>1. net[q] \in Seq(Packets)
  BY DEF Typed, StreamsTyped
<1>2. ASSUME NEW i \in 1 .. Len(net[q]) PROVE MessageFits(q, i)'
  <2>0. net[q][i] \in Packets
    BY <1>1
  <2>1. net[q][i].entry \in Entries /\ MessageFits(q, i)
    BY <2>0 DEF NetFits, Packets
  <2>2. Real(net[q][i].entry) => Real(net[q][i].entry)'
    BY <2>1, RealKept
  <2> QED
    BY <2>1, <2>2 DEF MessageFits
<1>3. Registered(q)' <=> Registered(q)
  BY DEF Registered
<1> QED
  BY <1>2, <1>3 DEF NetFits

\* Entries that come into the log file are new.
LEMMA InWALGrows ==
    ASSUME Typed, LogFits, Typed', LogFits', Grown, NEW n \in InWAL'
    PROVE  n \in InWAL \/ n > synced
<1>1. n \in Nat /\ n > flushed' /\ n <= synced' /\ hist'[n].op # "reset" /\ flushed' \in Nat
  BY DEF InWAL, Typed, LogTyped
<1>2. /\ flushed \in Nat /\ synced \in Nat /\ flushed <= flushed' /\ synced <= LastSeq /\ LastSeq \in Nat
      /\ \A m \in 1 .. LastSeq : hist'[m] = hist[m]
  BY DEF Grown, LogFits, Typed, LogTyped, LastSeq
<1>3. CASE n <= synced
  <2>1. n \in flushed + 1 .. synced /\ n \in 1 .. LastSeq
    BY <1>1, <1>2, <1>3
  <2> QED
    BY <1>1, <1>2, <2>1 DEF InWAL
<1> QED
  BY <1>1, <1>2, <1>3

LEMMA ScanFitsKept ==
    ASSUME Typed, LogFits, Typed', LogFits', Grown, NEW q \in Replicas, ScanFits(q), stream'[q] = stream[q]
    PROVE  ScanFits(q)'
<1> DEFINE s == stream[q]
<1>0. stream'[q] = s
  OBVIOUS
<1>1. /\ s \in Streams /\ s.todo \subseteq Nat /\ s.lastSent \in Nat /\ s.lastAtStart \in Nat
      /\ s.next \in Nat /\ s.upto \in Nat
  BY DEF Typed, StreamsTyped, Streams
<1>2. /\ flushed \in Nat /\ synced \in Nat /\ LastSeq \in Nat /\ head \in Nat
      /\ flushed' \in Nat /\ synced' \in Nat /\ LastSeq' \in Nat /\ head' \in Nat
  BY DEF LastSeq, Typed, LogTyped
<1>3. /\ LastSeq <= LastSeq' /\ flushed <= flushed' /\ synced <= synced' /\ head <= head'
      /\ walSeqNum' = walSeqNum \/ flushed' = LastSeq'
  BY DEF Grown
<1>4. /\ s.phase = "list" => s.lastAtStart <= LastSeq
      /\ s.phase \in {"read", "wal", "ring"} => s.lastAtStart <= synced
      /\ s.phase = "read" /\ s.file # walSeqNum => s.lastAtStart <= flushed
      /\ s.todo \subseteq 1 .. synced
  BY DEF ScanFits
<1>5. ASSUME s.phase = "wal", NEW n \in InWAL', s.lastSent < n
      PROVE  n \in s.todo \/ (s.lastAtStart < n /\ \A e \in s.todo : e < n)
  <2>1. CASE n \in InWAL
    BY <1>5, <2>1 DEF ScanFits
  <2>2. CASE n > synced
    <3>1. n \in Nat
      BY DEF InWAL, Typed, LogTyped
    <3> QED
      BY <1>1, <1>2, <1>4, <1>5, <2>2, <3>1
  <2> QED
    BY <2>1, <2>2, InWALGrows
<1>6. ASSUME s.phase = "ring"
      PROVE  /\ s.upto <= head' /\ (s.next <= s.lastSent + 1 \/ s.next <= head')
             /\ \A n \in InWAL' : s.lastSent < n => s.lastAtStart < n
             /\ \A n \in s.lastSent + 1 .. s.next - 1 : ring'[n % RingSize].seq # n
  <2>1. /\ s.upto <= head /\ (s.next <= s.lastSent + 1 \/ s.next <= head)
        /\ \A n \in InWAL : s.lastSent < n => s.lastAtStart < n
        /\ \A n \in s.lastSent + 1 .. s.next - 1 : ring[n % RingSize].seq # n
    BY <1>6 DEF ScanFits
  <2>2. s.upto <= head' /\ (s.next <= s.lastSent + 1 \/ s.next <= head')
    BY <1>1, <1>2, <1>3, <2>1
  <2>3. ASSUME NEW n \in InWAL', s.lastSent < n PROVE s.lastAtStart < n
    <3>1. n \in Nat
      BY DEF InWAL, Typed, LogTyped
    <3> QED
      BY <1>1, <1>2, <1>4, <1>6, <2>1, <2>3, <3>1, InWALGrows
  <2>4. ASSUME NEW n \in s.lastSent + 1 .. s.next - 1 PROVE ring'[n % RingSize].seq # n
    <3>1. n \in Nat /\ n < head /\ ring[n % RingSize].seq # n
      BY <1>1, <1>2, <2>1, <2>4
    <3> QED
      BY <3>1 DEF Grown
  <2> QED
    BY <2>2, <2>3, <2>4
<1>7. /\ s.phase = "list" => s.lastAtStart <= LastSeq'
      /\ s.phase \in {"read", "wal", "ring"} => s.lastAtStart <= synced'
      /\ s.todo \subseteq 1 .. synced'
  BY <1>1, <1>2, <1>3, <1>4
<1>8. ASSUME s.phase = "read", s.file # walSeqNum' PROVE s.lastAtStart <= flushed'
  <2>1. s.lastAtStart <= synced /\ synced <= LastSeq
    BY <1>4, <1>8 DEF LogFits
  <2>2. CASE walSeqNum' = walSeqNum
    BY <1>1, <1>2, <1>3, <1>4, <1>8, <2>2
  <2>3. CASE flushed' = LastSeq'
    BY <1>1, <1>2, <1>3, <2>1, <2>3
  <2> QED
    BY <1>3, <2>2, <2>3
<1> HIDE DEF s
<1> QED
  BY <1>0, <1>5, <1>6, <1>7, <1>8 DEF ScanFits

\* What a document or a position rests on stays.
LEMMA ContentsFitKept ==
    ASSUME Typed, LogFits, Typed', LogKept, NEW q \in Replicas, ReplicaFits(q), ContentsFit(q),
           ContentsKept(q)
    PROVE  ContentsFit(q)'
<1>1. LastSeq \in Nat /\ LastSeq' \in Nat /\ applied[q] \in Nat
  BY DEF LastSeq, Typed, LogTyped, ReplicasTyped
<1>2. applied'[q] = 0 \/ Published(applied[q])'
  <2>1. CASE applied[q] = 0
    BY <2>1 DEF ContentsKept
  <2>2. CASE Published(applied[q])
    <3>1. applied[q] \in 1 .. LastSeq
      BY <2>2 DEF Published
    <3>2. \A n \in 1 .. LastSeq : Published(n) => Published(n)'
      BY DEF LogKept
    <3> QED
      BY <2>2, <3>1, <3>2 DEF ContentsKept, Published
  <2> QED
    BY <2>1, <2>2 DEF ContentsFit
<1>3. ASSUME NEW i \in 1 .. LastSeq, Origin(i, q) PROVE i \in 1 .. LastSeq' /\ hist'[i] = hist[i] /\ Origin(i, q)'
  <2>1. Published(i)' /\ hist'[i] = hist[i] /\ hist[i].op = "write"
    BY <1>3 DEF Origin, LogKept
  <2>2. ASSUME NEW j \in (i + 1 .. applied[q]) \ dead[q] PROVE hist'[j].op # "reset"
    <3>1. Published(applied[q]) /\ applied[q] \in 1 .. LastSeq
      BY <1>1, <2>2 DEF ContentsFit, Published
    <3>2. j \in 1 .. LastSeq /\ Published(j)
      BY <1>1, <2>2, <3>1 DEF Published, Typed, LogTyped
    <3> QED
      BY <1>3, <2>2, <3>2 DEF Origin, LogKept
  <2> QED
    BY <2>1, <2>2 DEF Origin, ContentsKept, Published
<1>4. ASSUME NEW i \in Nat, i \in 1 .. LastSeq, Published(i), Lasting(i)'
      PROVE  Lasting(i) /\ hist'[i] = hist[i]
  <2>1. hist'[i] = hist[i] /\ hist[i].op = "write"
    BY <1>4 DEF LogKept, Lasting
  <2>2. ASSUME NEW j \in i + 1 .. LastSeq, hist[j].op = "reset" PROVE FALSE
    <3>1. j \in 1 .. LastSeq
      BY <1>1, <1>4
    <3>2. Published(j)' /\ hist'[j] = hist[j]
      BY <2>2, <3>1, ResetsArePublished DEF LogKept
    <3>3. j \in i + 1 .. LastSeq'
      BY <1>1, <3>2 DEF Published
    <3> QED
      BY <1>4, <2>2, <3>2, <3>3 DEF Lasting
  <2> QED
    BY <2>1, <2>2 DEF Lasting
<1>5. ASSUME NEW n, n <= applied[q], n \in Nat \cup {NoPosition}, NEW contents, Covers(contents, n, q)
      PROVE  \A i \in (1 .. n) \ dead[q] : Lasting(i)' => hist'[i].id \in contents
  <2> SUFFICES ASSUME NEW i \in (1 .. n) \ dead[q], Lasting(i)' PROVE hist'[i].id \in contents
    OBVIOUS
  <2>1. i \in Nat /\ i > 0 /\ i <= applied[q]
    BY <1>1, <1>5 DEF NoPosition
  <2>2. Published(applied[q]) /\ applied[q] \in 1 .. LastSeq
    BY <1>1, <2>1 DEF ContentsFit, Published
  <2>3. i \in 1 .. LastSeq /\ Published(i)
    BY <1>1, <2>1, <2>2 DEF Published, Typed, LogTyped
  <2>4. Lasting(i) /\ hist'[i] = hist[i]
    BY <1>4, <2>1, <2>3
  <2> QED
    BY <1>5, <2>4 DEF Covers
<1>6. /\ applied[q] \in Nat \cup {NoPosition} /\ saved[q] \in Nat \cup {NoPosition}
      /\ previous[q] \in Nat \cup {NoPosition} /\ applied[q] <= applied[q]
      /\ previous[q] <= applied[q] /\ saved[q] <= applied[q]
  BY DEF Typed, ReplicasTyped, ReplicaFits, NoPosition
<1>7. ContentsKept(q) /\ Covers(docs[q], applied[q], q) /\ Covers(disk[q], saved[q], q)
      /\ (walTicked[q] => Covers(disk[q], previous[q], q))
  BY DEF ContentsFit
<1>8. Covers(docs[q], applied[q], q)'
  <2>1. \A i \in (1 .. applied[q]) \ dead[q] : Lasting(i)' => hist'[i].id \in docs[q]
    BY <1>5, <1>6, <1>7
  <2> QED
    BY <1>7, <2>1 DEF Covers, ContentsKept
<1>9. Covers(disk[q], saved[q], q)'
  <2>1. \A i \in (1 .. saved[q]) \ dead[q] : Lasting(i)' => hist'[i].id \in disk[q]
    BY <1>5, <1>6, <1>7
  <2> QED
    BY <1>7, <2>1 DEF Covers, ContentsKept
<1>10. ASSUME walTicked[q] PROVE Covers(disk[q], previous[q], q)'
  <2>1. \A i \in (1 .. previous[q]) \ dead[q] : Lasting(i)' => hist'[i].id \in disk[q]
    BY <1>5, <1>6, <1>7, <1>10
  <2> QED
    BY <1>7, <2>1 DEF Covers, ContentsKept
<1>11. ASSUME NEW x \in docs[q] \cup disk[q]
       PROVE  \E i \in 1 .. LastSeq' : hist'[i].id = x /\ Origin(i, q)'
  <2>1. PICK i \in 1 .. LastSeq : hist[i].id = x /\ Origin(i, q)
    BY DEF ContentsFit
  <2> QED
    BY <1>3, <2>1
<1> QED
  BY <1>2, <1>7, <1>8, <1>9, <1>10, <1>11 DEF ContentsFit, ContentsKept

-----------------------------------------------------------------------------
(* The ring.                                                               *)

\* Numbers that differ by the size of the ring share a slot.
LEMMA ModShift == ASSUME NEW n \in Nat, NEW r \in Nat \ {0} PROVE (n + r) % r = n % r
<1> DEFINE p == n \div r
           q == (n + r) \div r
           a == n % r
           b == (n + r) % r
           k == q - (p + 1)
<1>1. n = (r * p) + a /\ p \in Int /\ a \in 0 .. r - 1
  OBVIOUS
<1>2. n + r \in Nat
  OBVIOUS
<1>3. n + r = (r * q) + b /\ q \in Int /\ b \in 0 .. r - 1
  BY <1>2
<1> HIDE DEF p, q, a, b
<1>4. k \in Int
  BY <1>1, <1>3
<1>5. r * k = (r * q) - (r * (p + 1)) /\ r * (p + 1) = (r * p) + r
  BY <1>1, <1>3
<1>6. r * p \in Int /\ r * q \in Int
  BY <1>1, <1>3
<1>7. r * k = a - b
  BY <1>1, <1>3, <1>5, <1>6
<1> HIDE DEF k
<1>8. k <= 0
  <2>1. k > 0 => r * k >= r
    BY <1>4
  <2> QED
    BY <1>1, <1>3, <1>4, <1>7, <2>1
<1>9. k >= 0
  <2>1. k < 0 => r * k <= 0 - r
    BY <1>4
  <2> QED
    BY <1>1, <1>3, <1>4, <1>7, <2>1
<1>10. k = 0
  BY <1>4, <1>8, <1>9
<1>11. a = b
  BY <1>1, <1>3, <1>7, <1>10
<1> QED
  BY <1>11 DEF a, b

LEMMA RingFitsKept ==
    ASSUME Typed, LogKept, RingFits, UNCHANGED shared PROVE RingFits'
<1>1. ring' = ring /\ head' = head
  BY DEF shared
<1> SUFFICES ASSUME NEW i \in 0 .. RingSize - 1 PROVE SlotFits(i)'
  BY DEF RingFits
<1>2. ring[i] \in Entries /\ SlotFits(i)
  BY DEF RingFits, Typed, LogTyped
<1>3. Real(ring[i]) => Real(ring[i])'
  BY <1>1, <1>2, RealKept
<1> QED
  BY <1>1, <1>2, <1>3 DEF SlotFits

\* A new entry replaces the one that is RingSize older.
LEMMA AppendRingFits == ASSUME Typed, LogFits, LogKept, RingFits, AppendRing PROVE RingFits'
<1> SUFFICES ASSUME NEW i \in 0 .. RingSize - 1 PROVE SlotFits(i)'
  BY DEF RingFits
<1>1. /\ hist' = hist /\ synced' = synced /\ head' = LastSeq + 1
      /\ ring' = [ring EXCEPT ![LastSeq % RingSize] = Entry(LastSeq)]
      /\ LastSeq > 0 /\ head \in {0, LastSeq}
  BY DEF AppendRing, LogFits
<1>2. LastSeq \in Nat /\ LastSeq' = LastSeq /\ RingSize \in Nat \ {0} /\ head \in Nat
  BY <1>1, ReplicationAssumption DEF LastSeq, Typed, LogTyped
<1>3. LastSeq % RingSize \in 0 .. RingSize - 1 /\ ring \in [0 .. RingSize - 1 -> Entries]
  BY <1>2, SlotTyped DEF Typed, LogTyped
<1>4. CASE i = LastSeq % RingSize
  <2>1. ring'[i] = Entry(LastSeq) /\ Entry(LastSeq).seq = LastSeq
    BY <1>1, <1>3, <1>4 DEF Entry
  <2>2. Entry(LastSeq)' = Entry(LastSeq)
    BY <1>1, <1>2 DEF Entry
  <2>3. Published(LastSeq)'
    BY <1>1, <1>2 DEF Published
  <2>4. Real(ring[i])'
    BY <1>1, <1>2, <2>1, <2>2, <2>3 DEF Real, Entry, Published
  <2> QED
    BY <1>1, <1>2, <1>4, <2>1, <2>4 DEF SlotFits
<1>5. CASE i # LastSeq % RingSize
  <2>1. ring'[i] = ring[i] /\ ring[i] \in Entries
    BY <1>1, <1>3, <1>5
  <2> SUFFICES ASSUME ring[i].seq # 0 
               PROVE  Real(ring[i])' /\ ring[i].seq % RingSize = i
                      /\ ring[i].seq < head' /\ head' - RingSize <= ring[i].seq
    BY <2>1 DEF SlotFits
  <2>2. Real(ring[i]) /\ ring[i].seq % RingSize = i /\ ring[i].seq < head /\ head - RingSize <= ring[i].seq
    BY DEF RingFits, SlotFits
  <2>3. ring[i].seq \in Nat /\ head = LastSeq
    BY <1>1, <1>2, <2>1, <2>2 DEF Entries
  <2>4. ring[i].seq + RingSize # LastSeq
    BY <1>2, <1>5, <2>2, <2>3, ModShift
  <2>5. Real(ring[i])'
    BY <2>1, <2>2, RealKept
  <2> QED
    BY <1>1, <1>2, <2>2, <2>3, <2>4, <2>5
<1> QED
  BY <1>4, <1>5

LEMMA RestartedRingFits ==
    ASSUME Typed, PrimaryStop \/ PrimaryCrash PROVE RingFits'
<1>1. \A i \in 0 .. RingSize - 1 : ring'[i] = NoEntry
  BY RestartEffect DEF PrimaryStop, PrimaryCrash
<1> QED
  BY <1>1 DEF RingFits, SlotFits, NoEntry

-----------------------------------------------------------------------------
(* Messages: what the outcomes of send make of the messages in flight.     *)

LEMMA MessageKept ==
    ASSUME Typed, LogKept, NEW r \in Replicas, NetFits(r), Registered(r), applied'[r] = applied[r],
           NEW i \in 1 .. Len(net[r]), net'[r][i] = net[r][i]
    PROVE  MessageFits(r, i)'
<1>1. net[r][i] \in Packets
  BY DEF Typed, StreamsTyped
<1>2. net[r][i].entry \in Entries /\ MessageFits(r, i) /\ stream[r].phase # "ended"
  BY <1>1 DEF Packets, NetFits, Registered
<1>3. net[r][i].status = "ok" /\ Real(net[r][i].entry) /\ net[r][i].entry.seq = applied[r] + i
  BY <1>2 DEF MessageFits
<1>4. Real(net[r][i].entry)'
  BY <1>2, <1>3, RealKept
<1> QED
  BY <1>3, <1>4 DEF MessageFits

LEMMA MovedNetFits ==
    ASSUME Typed, LogKept, NEW r \in Replicas, NetFits(r), Registered(r), net'[r] = net[r],
           applied'[r] = applied[r], stream'[r].lastSent = stream[r].lastSent, Registered(r)'
    PROVE  NetFits(r)'
<1>1. \A i \in 1 .. Len(net[r]) : MessageFits(r, i)'
  BY MessageKept
<1>2. stream'[r].phase # "off"
  BY DEF Registered
<1> QED
  BY <1>1, <1>2 DEF NetFits

LEMMA PassedNetFits ==
    ASSUME Typed, LogKept, NEW r \in Replicas, NetFits(r), Registered(r), NEW e \in Entries,
           Real(e)', Passed(r, e), Len(net[r]) < Window, applied'[r] = applied[r]
    PROVE  NetFits(r)'
<1>1. /\ Len(net[r]) \in Nat /\ applied[r] \in Nat /\ stream[r].lastSent \in Nat /\ Window \in Nat
      /\ e.seq \in Nat
  BY ReplicationAssumption DEF Typed, StreamsTyped, ReplicasTyped, Streams, Entries
<1>2. /\ Len(net'[r]) = Len(net[r]) + 1 /\ \A i \in 1 .. Len(net[r]) : net'[r][i] = net[r][i]
      /\ net'[r][Len(net[r]) + 1] = [status |-> "ok", entry |-> e]
      /\ e.seq = stream[r].lastSent + 1 /\ stream'[r].lastSent = e.seq /\ stream'[r].phase = stream[r].phase
  BY DEF Passed, Pushed
<1>3. stream[r].lastSent = applied[r] + Len(net[r])
  BY DEF NetFits
<1>4. \A i \in 1 .. Len(net[r]) : MessageFits(r, i)'
  BY <1>2, MessageKept
<1>5. ASSUME NEW i \in Nat, i = Len(net[r]) + 1 PROVE MessageFits(r, i)'
  <2>1. net'[r][i].status = "ok" /\ net'[r][i].entry = e /\ e.seq = applied'[r] + i
    BY <1>1, <1>2, <1>3, <1>5
  <2> QED
    BY <2>1 DEF MessageFits
<1>6. Registered(r)' /\ stream'[r].phase # "off"
  BY <1>2 DEF Registered
<1>7. Len(net'[r]) <= Window /\ stream'[r].lastSent = applied'[r] + Len(net'[r])
  BY <1>1, <1>2, <1>3
<1>8. ASSUME NEW i \in 1 .. Len(net'[r]) PROVE MessageFits(r, i)'
  <2>1. i \in 1 .. Len(net[r]) \/ i = Len(net[r]) + 1
    BY <1>1, <1>2
  <2> QED
    BY <1>4, <1>5, <2>1
<1>9. Len(net'[r]) <= Window + 1
  BY <1>1, <1>2
<1> QED
  BY <1>6, <1>7, <1>8, <1>9 DEF NetFits

LEMMA RefusedNetFits ==
    ASSUME Typed, LogKept, NEW r \in Replicas, NetFits(r), Registered(r),
           NEW code \in {"Unavailable", "FailedPrecondition"}, Refused(r, code),
           applied'[r] = applied[r]
    PROVE  NetFits(r)'
<1>1. Len(net[r]) \in Nat /\ Window \in Nat
  BY ReplicationAssumption DEF Typed, StreamsTyped
<1>2. /\ Len(net'[r]) = Len(net[r]) + 1 /\ \A i \in 1 .. Len(net[r]) : net'[r][i] = net[r][i]
      /\ net'[r][Len(net[r]) + 1].status # "ok" /\ stream'[r].phase = "ended"
  BY DEF Refused, Pushed
<1>3. \A i \in 1 .. Len(net[r]) : MessageFits(r, i)'
  BY <1>2, MessageKept
<1>4. Len(net[r]) <= Window
  BY DEF NetFits
<1>5. ~ Registered(r)' /\ stream'[r].phase # "off" /\ Len(net'[r]) <= Window + 1
  BY <1>1, <1>2, <1>4 DEF Registered
<1>6. ASSUME NEW i \in 1 .. Len(net'[r]) PROVE MessageFits(r, i)'
  <2>1. i \in 1 .. Len(net[r]) \/ i = Len(net[r]) + 1
    BY <1>1, <1>2
  <2>2. CASE i = Len(net[r]) + 1
    BY <1>2, <2>2 DEF MessageFits
  <2> QED
    BY <1>3, <2>1, <2>2
<1> QED
  BY <1>5, <1>6 DEF NetFits

LEMMA DroppedFits ==
    ASSUME Typed', NEW q \in Replicas, Dropped(q)
    PROVE  ChannelFits(q)' /\ NetFits(q)' /\ ScanFits(q)'
<1>1. stream'[q].phase = "off" /\ stream'[q].todo = {} /\ net'[q] = <<>> /\ channel'[q] = <<>>
  BY IdleTyped DEF Dropped
<1>2. ChannelFits(q)'
  BY <1>1, ReplicationAssumption DEF ChannelFits
<1>3. NetFits(q)'
  BY <1>1, ReplicationAssumption DEF NetFits, Registered
<1>4. ScanFits(q)'
  BY <1>1 DEF ScanFits
<1> QED
  BY <1>2, <1>3, <1>4

LEMMA ReplicaFitsKept ==
    ASSUME NEW q \in Replicas, ReplicaFits(q), ContentsKept(q), failCount'[q] = failCount[q]
    PROVE  ReplicaFits(q)'
BY DEF ReplicaFits, ContentsKept

LEMMA OthersFit ==
    ASSUME Inv, Typed', LogFits', Grown, NEW q \in Replicas, StreamKept(q), ContentsKept(q),
           failCount'[q] = failCount[q]
    PROVE  /\ ChannelFits(q)' /\ NetFits(q)' /\ ScanFits(q)' /\ ReplicaFits(q)'
           /\ ~lost => ContentsFit(q)'
<1>1. /\ Typed /\ LogFits /\ LogKept /\ ChannelFits(q) /\ NetFits(q) /\ ScanFits(q) /\ ReplicaFits(q)
      /\ ~lost => ContentsFit(q)
  BY GrownKeeps DEF Inv
<1>2. stream'[q] = stream[q] /\ channel'[q] = channel[q] /\ net'[q] = net[q] /\ applied'[q] = applied[q]
  BY DEF StreamKept, ContentsKept
<1>3. ChannelFits(q)'
  BY <1>1, <1>2, ChannelFitsKept
<1>4. NetFits(q)'
  BY <1>1, <1>2, NetFitsKept
<1>5. ScanFits(q)'
  BY <1>1, <1>2, ScanFitsKept
<1>6. ReplicaFits(q)'
  BY <1>1, ReplicaFitsKept
<1>7. ~lost => ContentsFit(q)'
  BY <1>1, ContentsFitKept
<1> QED
  BY <1>3, <1>4, <1>5, <1>6, <1>7

\* One replica's stream and state change, and the log at most grows.
LEMMA OneFits ==
    ASSUME Inv, Typed', LogFits', RingFits', Grown, lost' = lost, NEW r \in Replicas, OthersKept(r),
           ChannelFits(r)', NetFits(r)', ScanFits(r)', ReplicaFits(r)', ~lost => ContentsFit(r)'
    PROVE  Inv'
<1>1. ASSUME NEW q \in Replicas
      PROVE  /\ ChannelFits(q)' /\ NetFits(q)' /\ ScanFits(q)' /\ ReplicaFits(q)'
             /\ ~lost => ContentsFit(q)'
  <2>1. CASE q = r
    BY <2>1
  <2>2. CASE q # r
    BY <2>2, OthersFit DEF OthersKept
  <2> QED
    BY <2>1, <2>2
<1> QED
  BY <1>1 DEF Inv

\* Only the stream of one replica changes.
LEMMA StreamStepFits ==
    ASSUME Inv, UNCHANGED <<log, shared, replica, lost, writes>>, StreamsTyped', NEW r \in Replicas,
           \A q \in Replicas \ {r} : StreamKept(q), ChannelFits(r)', NetFits(r)', ScanFits(r)'
    PROVE  Inv'
<1>1. Typed /\ LogFits /\ RingFits /\ ReplicaFits(r) /\ (~lost => ContentsFit(r))
  BY DEF Inv
<1>2. Typed' /\ Grown /\ LogFits'
  BY <1>1, StreamTyped, StillGrows
<1>3. LogKept /\ RingFits'
  BY <1>1, <1>2, GrownKeeps, RingFitsKept
<1>4. \A q \in Replicas : ContentsKept(q) /\ failCount'[q] = failCount[q]
  BY DEF replica, ContentsKept
<1>5. ReplicaFits(r)' /\ (~lost => ContentsFit(r)')
  BY <1>1, <1>2, <1>3, <1>4, ReplicaFitsKept, ContentsFitKept
<1> QED
  BY <1>2, <1>3, <1>4, <1>5, OneFits DEF OthersKept

\* Only one replica and its stream change.
LEMMA ReplicaStepFits ==
    ASSUME Inv, Typed', UNCHANGED <<log, shared, lost>>, NEW r \in Replicas, OthersKept(r),
           ChannelFits(r)', NetFits(r)', ScanFits(r)', ReplicaFits(r)', ~lost => ContentsFit(r)'
    PROVE  Inv'
<1>1. Grown /\ LogFits' /\ Typed /\ RingFits
  BY StillGrows DEF Inv
<1>2. RingFits'
  BY <1>1, GrownKeeps, RingFitsKept
<1> QED
  BY <1>1, <1>2, OneFits

\* No stream and no replica changes.
LEMMA LogStepFits ==
    ASSUME Inv, Typed', LogFits', RingFits', Grown, UNCHANGED <<streams, replica, lost>> PROVE Inv'
<1>1. \A q \in Replicas : StreamKept(q) /\ ContentsKept(q) /\ failCount'[q] = failCount[q]
  BY DEF streams, replica, StreamKept, ContentsKept
<1>2. \A q \in Replicas : /\ ChannelFits(q)' /\ NetFits(q)' /\ ScanFits(q)' /\ ReplicaFits(q)'
                          /\ ~lost => ContentsFit(q)'
  BY <1>1, OthersFit
<1> QED
  BY <1>2 DEF Inv

-----------------------------------------------------------------------------
(* The steps of a primary keep the invariant.                              *)

LEMMA WriteInv == ASSUME Inv, Write PROVE Inv'
<1>1. Typed /\ LogFits /\ RingFits
  BY DEF Inv
<1>2. Typed' /\ Grown /\ LogFits' /\ UNCHANGED shared
  BY <1>1, WriteTyped, WriteGrows
<1>3. RingFits'
  BY <1>1, <1>2, GrownKeeps, RingFitsKept
<1>4. UNCHANGED <<streams, replica, lost>>
  BY DEF Write
<1> QED
  BY <1>2, <1>3, <1>4, LogStepFits

LEMMA ResetInv == ASSUME Inv, Reset PROVE Inv'
<1>1. Typed /\ LogFits /\ RingFits
  BY DEF Inv
<1>2. Typed' /\ Grown /\ LogFits' /\ UNCHANGED shared
  BY <1>1, ResetTyped, ResetGrows
<1>3. RingFits'
  BY <1>1, <1>2, GrownKeeps, RingFitsKept
<1>4. UNCHANGED <<streams, replica, lost>>
  BY DEF Reset
<1> QED
  BY <1>2, <1>3, <1>4, LogStepFits

LEMMA SyncInv == ASSUME Inv, SyncLog \/ Rotate PROVE Inv'
<1>1. Typed /\ LogFits /\ RingFits
  BY DEF Inv
<1>2. Typed' /\ Grown /\ LogFits' /\ UNCHANGED shared
  BY <1>1, SyncTyped, SyncGrows
<1>3. RingFits'
  BY <1>1, <1>2, GrownKeeps, RingFitsKept
<1>4. UNCHANGED <<streams, replica, lost>>
  BY DEF SyncLog, Rotate, history
<1> QED
  BY <1>2, <1>3, <1>4, LogStepFits

LEMMA AppendRingInv == ASSUME Inv, AppendRing PROVE Inv'
<1>1. Typed /\ LogFits /\ RingFits
  BY DEF Inv
<1>2. Grown /\ LogFits' /\ LastSeq > 0
  BY <1>1, AppendRingGrows
<1>3. Typed'
  BY <1>1, <1>2, AppendRingTyped
<1>4. RingFits'
  BY <1>1, <1>2, <1>3, GrownKeeps, AppendRingFits
<1>5. UNCHANGED <<streams, replica, lost>>
  BY DEF AppendRing, history
<1> QED
  BY <1>2, <1>3, <1>4, <1>5, LogStepFits

\* The entry is in the ring when it comes into the channels.
LEMMA AppendChannelsInv == ASSUME Inv, AppendChannels PROVE Inv'
<1>1. Typed /\ LogFits /\ RingFits
  BY DEF Inv
<1>2. Grown /\ LogFits' /\ LastSeq > 0 /\ UNCHANGED shared
  BY <1>1, ChannelsGrow
<1>3. Typed'
  BY <1>1, <1>2, AppendChannelsTyped
<1>4. LogKept /\ RingFits'
  BY <1>1, <1>2, <1>3, GrownKeeps, RingFitsKept
<1>5. /\ UNCHANGED <<hist, synced, ring, head, stream, net, replica, lost>> /\ appending = "channels"
      /\ channel' = [r \in Replicas |-> IF Registered(r) /\ ~Full(r)
                                        THEN Append(channel[r], Entry(LastSeq)) ELSE channel[r]]
  BY DEF AppendChannels, shared
<1>6. LastSeq \in Nat /\ LastSeq' = LastSeq /\ head = LastSeq + 1 /\ Entry(LastSeq) \in Entries
  BY <1>1, <1>2, <1>5, LastSeqTyped, EntryTyped DEF LogFits, LastSeq
<1>7. ASSUME NEW q \in Replicas
      PROVE  ChannelFits(q)' /\ NetFits(q)' /\ ScanFits(q)' /\ ReplicaFits(q)' /\ (~lost => ContentsFit(q)')
  <2>1. stream'[q] = stream[q] /\ net'[q] = net[q] /\ ContentsKept(q) /\ failCount'[q] = failCount[q]
        /\ applied'[q] = applied[q]
    BY <1>5 DEF replica, ContentsKept
  <2>2. ChannelFits(q) /\ NetFits(q) /\ ScanFits(q) /\ ReplicaFits(q) /\ (~lost => ContentsFit(q))
    BY DEF Inv
  <2>3. NetFits(q)' /\ ScanFits(q)' /\ ReplicaFits(q)' /\ (~lost => ContentsFit(q)')
    BY <1>1, <1>2, <1>3, <1>4, <2>1, <2>2, NetFitsKept, ScanFitsKept, ReplicaFitsKept, ContentsFitKept
  <2>4. CASE Registered(q) /\ ~Full(q)
    <3> DEFINE c == channel[q]
    <3>1. channel'[q] = Append(c, Entry(LastSeq)) /\ c \in Seq(Entries) /\ Len(c) < ChanSize
      BY <1>1, <1>5, <2>4, ReplicationAssumption DEF Full, Typed, StreamsTyped
    <3>2. Real(Entry(LastSeq))'
      BY <1>2, <1>5, <1>6 DEF Real, Entry, Published
    <3>3. /\ Len(channel'[q]) = Len(c) + 1 /\ channel'[q][Len(c) + 1] = Entry(LastSeq)
          /\ \A i \in 1 .. Len(c) : channel'[q][i] = c[i]
      BY <1>6, <3>1
    <3>4. ASSUME NEW i \in 1 .. Len(c) + 1 PROVE Real(channel[q][i])'
      <4>1. CASE i = Len(c) + 1
        <5>1. channel'[q][i] = Entry(LastSeq) /\ Entry(LastSeq)' = Entry(LastSeq)
          BY <1>5, <1>6, <3>3, <4>1 DEF Entry
        <5> QED
          BY <3>2, <5>1 DEF Real
      <4>2. CASE i \in 1 .. Len(c)
        <5>1. c[i] \in Entries /\ Real(c[i]) /\ channel'[q][i] = c[i]
          BY <2>2, <3>1, <3>3, <4>2 DEF ChannelFits
        <5> QED
          BY <1>1, <1>4, <5>1, RealKept
      <4> QED
        BY <3>1, <4>1, <4>2
    <3>5. Len(channel'[q]) <= ChanSize
      BY <3>1, <3>3, ReplicationAssumption
    <3>6. ChannelFits(q)'
      BY <3>3, <3>4, <3>5 DEF ChannelFits
    <3> QED
      BY <2>3, <3>6
  <2>5. CASE ~ (Registered(q) /\ ~Full(q))
    <3>1. channel'[q] = channel[q]
      BY <1>5, <2>5
    <3> QED
      BY <1>1, <1>4, <2>2, <2>3, <3>1, ChannelFitsKept
  <2> QED
    BY <2>4, <2>5
<1> QED
  BY <1>2, <1>3, <1>4, <1>5, <1>7 DEF Inv

\* The streams end with the primary.
LEMMA PrimaryStopInv == ASSUME Inv, PrimaryStop PROVE Inv'
<1>1. Typed /\ LogFits
  BY DEF Inv
<1>2. LogKept /\ LogFits' /\ UNCHANGED <<replica, lost>> /\ Typed' /\ RingFits'
  BY <1>1, StopKeeps, PrimaryStopTyped, RestartedRingFits
<1>3. \A q \in Replicas : Dropped(q)
  BY <1>1, RestartEffect DEF PrimaryStop, Dropped
<1>4. \A q \in Replicas : ContentsKept(q) /\ failCount'[q] = failCount[q]
  BY <1>2 DEF replica, ContentsKept
<1>5. \A q \in Replicas : ReplicaFits(q)' /\ (~lost => ContentsFit(q)')
  BY <1>1, <1>2, <1>4, ReplicaFitsKept, ContentsFitKept DEF Inv
<1> QED
  BY <1>2, <1>3, <1>5, DroppedFits DEF Inv

LEMMA PrimaryCrashInv == ASSUME Inv, PrimaryCrash PROVE Inv'
<1>1. Typed /\ LogFits
  BY DEF Inv
<1>2. LogFits' /\ UNCHANGED replica /\ (~lost' => ~lost /\ LogKept) /\ RingFits'
  BY <1>1, CrashKeeps, RestartedRingFits
<1>3. Typed'
  BY <1>1, PrimaryCrashTyped DEF LogFits
<1>4. \A q \in Replicas : Dropped(q)
  BY <1>1, RestartEffect DEF PrimaryCrash, Dropped
<1>5. \A q \in Replicas : ContentsKept(q) /\ failCount'[q] = failCount[q]
  BY <1>2 DEF replica, ContentsKept
<1>6. \A q \in Replicas : ReplicaFits(q)'
  BY <1>5, ReplicaFitsKept DEF Inv
<1>7. ASSUME ~lost', NEW q \in Replicas PROVE ContentsFit(q)'
  <2>1. LogKept /\ ContentsFit(q) /\ ReplicaFits(q)
    BY <1>2, <1>7 DEF Inv
  <2> QED
    BY <1>1, <1>3, <1>5, <2>1, ContentsFitKept
<1> QED
  BY <1>2, <1>3, <1>4, <1>6, <1>7, DroppedFits DEF Inv

-----------------------------------------------------------------------------
(* The steps of a stream keep the invariant.                               *)

\* What the invariant says of one replica, and what steps of its stream keep.
LEMMA StreamContext ==
    ASSUME Inv, NEW r \in Replicas
    PROVE  /\ Typed /\ LogFits /\ RingFits
           /\ ChannelFits(r) /\ NetFits(r) /\ ScanFits(r) /\ ReplicaFits(r) /\ (~lost => ContentsFit(r))
           /\ flushed \in Nat /\ synced \in Nat /\ LastSeq \in Nat /\ head \in Nat
           /\ stream[r] \in Streams /\ stream[r].lastSent \in Nat /\ stream[r].lastAtStart \in Nat
           /\ stream[r].next \in Nat /\ stream[r].upto \in Nat /\ stream[r].todo \subseteq Nat
           /\ applied[r] \in Nat /\ channel[r] \in Seq(Entries) /\ net[r] \in Seq(Packets)
BY DEF Inv, Typed, LogTyped, StreamsTyped, ReplicasTyped, LastSeq, Streams

LEMMA StillKept ==
    ASSUME Typed, LogFits, Typed', UNCHANGED <<log, shared>>
    PROVE  /\ LogKept /\ UNCHANGED <<hist, flushed, synced, head, ring, walSeqNum, LastSeq, InWAL>>
<1>1. UNCHANGED <<hist, flushed, synced, head, ring, walSeqNum>>
  BY DEF log, shared
<1> QED
  BY <1>1, StillGrows, GrownKeeps DEF LastSeq, InWAL

LEMMA ConnectInv == ASSUME Inv, NEW r \in Replicas, Connect(r) PROVE Inv'
<1>1. /\ StreamsTyped' /\ stream[r].phase = "off" /\ stream'[r].phase = "lastSeq"
      /\ stream'[r].lastSent = applied[r] /\ stream'[r].todo = {}
      /\ channel'[r] = <<>> /\ net' = net
      /\ \A q \in Replicas \ {r} : stream'[q] = stream[q] /\ channel'[q] = channel[q]
  BY ConnectEffect DEF Inv
<1>2. UNCHANGED <<log, shared, replica, lost, writes>> /\ applied'[r] = applied[r]
  BY DEF Connect, replica
<1>3. NetFits(r) /\ applied[r] \in Nat
  BY StreamContext
<1>4. ChannelFits(r)'
  BY <1>1, ReplicationAssumption DEF ChannelFits
<1>5. net'[r] = <<>>
  BY <1>1, <1>3 DEF NetFits
<1>6. NetFits(r)'
  BY <1>1, <1>2, <1>3, <1>5, ReplicationAssumption DEF NetFits
<1>7. ScanFits(r)'
  BY <1>1 DEF ScanFits
<1> QED
  BY <1>1, <1>2, <1>4, <1>6, <1>7, StreamStepFits DEF StreamKept

LEMMA ReadLastSeqInv == ASSUME Inv, NEW r \in Replicas, ReadLastSeq(r) PROVE Inv'
<1>1. /\ StreamsTyped' /\ UNCHANGED <<channel, net>> /\ \A q \in Replicas \ {r} : stream'[q] = stream[q]
      /\ stream[r].phase = "lastSeq"
      /\ stream'[r] = [stream[r] EXCEPT !.phase = "list", !.lastAtStart = LastSeq]
  BY ReadLastSeqEffect DEF Inv
<1>2. UNCHANGED <<log, shared, replica, lost, writes>> /\ applied'[r] = applied[r]
  BY DEF ReadLastSeq, replica, history
<1>3. /\ Typed /\ LogFits /\ ChannelFits(r) /\ NetFits(r) /\ ScanFits(r)
      /\ stream[r] \in Streams /\ LastSeq \in Nat
  BY StreamContext
<1>4. Typed' /\ LogKept /\ UNCHANGED <<synced, LastSeq>>
  BY <1>1, <1>2, <1>3, StreamTyped, StillKept
<1>5. /\ stream'[r].phase = "list" /\ stream'[r].lastSent = stream[r].lastSent
      /\ stream'[r].lastAtStart = LastSeq /\ stream'[r].todo = stream[r].todo
  BY <1>1, <1>3 DEF Streams
<1>6. ChannelFits(r)'
  BY <1>1, <1>3, <1>4, ChannelFitsKept
<1>7. NetFits(r)'
  BY <1>1, <1>2, <1>3, <1>4, <1>5, MovedNetFits DEF Registered
<1>8. ScanFits(r)'
  BY <1>3, <1>4, <1>5 DEF ScanFits
<1> QED
  BY <1>1, <1>2, <1>6, <1>7, <1>8, StreamStepFits DEF StreamKept

\* The scan flushes first, so the files hold everything up to lastAtStart.
LEMMA ListWALInv == ASSUME Inv, NEW r \in Replicas, ListWAL(r) PROVE Inv'
<1>1. /\ StreamsTyped' /\ UNCHANGED <<channel, net>> /\ \A q \in Replicas \ {r} : stream'[q] = stream[q]
      /\ stream[r].phase = "list"
      /\ stream'[r] = [stream[r] EXCEPT !.phase = "read", !.file = walSeqNum]
  BY ListWALEffect DEF Inv
<1>2. /\ Typed /\ LogFits /\ RingFits /\ ChannelFits(r) /\ NetFits(r) /\ ScanFits(r) /\ ReplicaFits(r)
      /\ ~lost => ContentsFit(r)
      /\ stream[r] \in Streams /\ LastSeq \in Nat /\ synced \in Nat /\ stream[r].lastAtStart \in Nat
  BY StreamContext
<1>3. /\ Grown /\ LogFits' /\ UNCHANGED <<hist, walSeqNum, shared, replica, lost>> /\ Typed'
      /\ synced' = LastSeq
  BY <1>2, ListWALGrows
<1>4. LogKept /\ RingFits'
  BY <1>2, <1>3, GrownKeeps, RingFitsKept
<1>5. /\ stream'[r].phase = "read" /\ stream'[r].lastSent = stream[r].lastSent
      /\ stream'[r].lastAtStart = stream[r].lastAtStart /\ stream'[r].todo = stream[r].todo
      /\ stream'[r].file = walSeqNum
  BY <1>1, <1>2 DEF Streams
<1>6. \A q \in Replicas : ContentsKept(q) /\ failCount'[q] = failCount[q] /\ applied'[q] = applied[q]
  BY <1>3 DEF replica, ContentsKept
<1>7. ChannelFits(r)'
  BY <1>1, <1>2, <1>4, ChannelFitsKept
<1>8. NetFits(r)'
  BY <1>1, <1>2, <1>4, <1>5, <1>6, MovedNetFits DEF Registered
<1>9. ScanFits(r)'
  <2>1. stream[r].todo \subseteq 1 .. synced' /\ stream[r].lastAtStart <= synced'
    BY <1>1, <1>2, <1>3 DEF ScanFits, LogFits
  <2> QED
    BY <1>3, <1>5, <2>1 DEF ScanFits
<1>10. ReplicaFits(r)' /\ (~lost => ContentsFit(r)')
  BY <1>2, <1>3, <1>4, <1>6, ReplicaFitsKept, ContentsFitKept
<1>11. OthersKept(r)
  BY <1>1, <1>6 DEF OthersKept, StreamKept
<1> QED
  BY <1>3, <1>4, <1>7, <1>8, <1>9, <1>10, <1>11, OneFits

\* Without the listed file, nothing up to lastAtStart is in the log file.
LEMMA ReadWALInv == ASSUME Inv, NEW r \in Replicas, ReadWAL(r) PROVE Inv'
<1>1. /\ StreamsTyped' /\ UNCHANGED <<channel, net>> /\ \A q \in Replicas \ {r} : stream'[q] = stream[q]
      /\ stream[r].phase = "read"
      /\ stream'[r].phase = "wal" /\ stream'[r].lastSent = stream[r].lastSent
      /\ stream'[r].lastAtStart = stream[r].lastAtStart
      /\ stream'[r].todo = IF stream[r].file # walSeqNum THEN {}
                           ELSE {n \in InWAL : n > stream[r].lastSent}
  BY ReadWALEffect DEF Inv
<1>2. UNCHANGED <<log, shared, replica, lost, writes>> /\ applied'[r] = applied[r]
  BY DEF ReadWAL, replica, history
<1>3. /\ Typed /\ LogFits /\ ChannelFits(r) /\ NetFits(r) /\ ScanFits(r)
      /\ stream[r] \in Streams /\ LastSeq \in Nat /\ synced \in Nat /\ flushed \in Nat
      /\ stream[r].lastAtStart \in Nat /\ stream[r].lastSent \in Nat
  BY StreamContext
<1>4. Typed' /\ LogKept /\ UNCHANGED <<synced, LastSeq, InWAL>>
  BY <1>1, <1>2, <1>3, StreamTyped, StillKept
<1>5. InWAL \subseteq 1 .. synced /\ \A n \in InWAL : n > flushed /\ n \in Nat
  BY <1>3 DEF InWAL
<1>6. ChannelFits(r)'
  BY <1>1, <1>3, <1>4, ChannelFitsKept
<1>7. NetFits(r)'
  BY <1>1, <1>2, <1>3, <1>4, MovedNetFits DEF Registered
<1>8. ASSUME NEW n \in InWAL, stream[r].lastSent < n
      PROVE  n \in stream'[r].todo
             \/ (stream[r].lastAtStart < n /\ \A e \in stream'[r].todo : e < n)
  <2>1. CASE stream[r].file # walSeqNum
    <3>1. stream[r].lastAtStart <= flushed /\ stream'[r].todo = {}
      BY <1>1, <1>3, <2>1 DEF ScanFits
    <3> QED
      BY <1>3, <1>5, <1>8, <3>1
  <2>2. CASE stream[r].file = walSeqNum
    BY <1>1, <1>3, <1>5, <1>8, <2>2
  <2> QED
    BY <2>1, <2>2
<1>9. stream'[r].todo \subseteq 1 .. synced /\ stream[r].lastAtStart <= synced
  <2>1. stream'[r].todo \subseteq InWAL
    BY <1>1
  <2> QED
    BY <1>1, <1>3, <1>5, <2>1 DEF ScanFits
<1>10. ScanFits(r)'
  BY <1>1, <1>4, <1>8, <1>9 DEF ScanFits
<1> QED
  BY <1>1, <1>2, <1>6, <1>7, <1>10, StreamStepFits DEF StreamKept

LEMMA SendWALInv == ASSUME Inv, NEW r \in Replicas, SendWAL(r) PROVE Inv'
<1>1. /\ Typed /\ LogFits /\ ChannelFits(r) /\ NetFits(r) /\ ScanFits(r)
      /\ stream[r].lastAtStart \in Nat /\ stream[r].lastSent \in Nat /\ stream[r].todo \subseteq Nat
      /\ LastSeq \in Nat /\ synced \in Nat
  BY StreamContext
<1>2. stream[r].todo \subseteq 1 .. synced /\ stream[r].todo \subseteq 1 .. LastSeq
  BY <1>1 DEF ScanFits, LogFits
<1>3. /\ StreamsTyped' /\ UNCHANGED channel /\ stream[r].phase = "wal" /\ Len(net[r]) < Window
      /\ \A q \in Replicas \ {r} : stream'[q] = stream[q] /\ net'[q] = net[q]
  BY <1>1, <1>2, SendWALEffect
<1>4. PICK n \in stream[r].todo :
         /\ \A m \in stream[r].todo : n <= m
         /\ \/ n > stream[r].lastSent + 1 /\ Refused(r, "FailedPrecondition")
            \/ /\ Passed(r, Entry(n)) \/ Skipped(r, Entry(n))
               /\ stream'[r].todo = stream[r].todo \ {n}
  BY <1>1, <1>2, SendWALEffect
<1>5. UNCHANGED <<log, shared, replica, lost, writes>> /\ applied'[r] = applied[r]
  BY DEF SendWAL, replica, history
<1>6. Typed' /\ LogKept /\ UNCHANGED <<synced, LastSeq, InWAL>>
  BY <1>1, <1>3, <1>5, StreamTyped, StillKept
<1>7. ChannelFits(r)' /\ Registered(r)
  BY <1>1, <1>3, <1>6, ChannelFitsKept DEF Registered
<1>8. \A m \in InWAL : stream[r].lastSent < m =>
         m \in stream[r].todo \/ (stream[r].lastAtStart < m /\ \A e \in stream[r].todo : e < m)
  BY <1>1, <1>3 DEF ScanFits
<1>9. stream[r].lastAtStart <= synced /\ \A m \in InWAL : m \in Nat
  BY <1>1, <1>3 DEF ScanFits, InWAL, Typed, LogTyped
<1>10. CASE Refused(r, "FailedPrecondition")
  <2>1. NetFits(r)'
    BY <1>1, <1>5, <1>6, <1>7, <1>10, RefusedNetFits
  <2>2. ScanFits(r)'
    BY <1>10 DEF Refused, ScanFits
  <2> QED
    BY <1>3, <1>5, <1>7, <2>1, <2>2, StreamStepFits DEF StreamKept
<1>11. ASSUME Passed(r, Entry(n)) \/ Skipped(r, Entry(n)), stream'[r].todo = stream[r].todo \ {n}
       PROVE  Inv'
  <2>1. PICK e \in Entries : e = Entry(n) /\ e.seq = n
    BY <1>1, <1>2, EntryTyped
  <2>2. Real(e)'
    <3>1. Published(n) /\ n \in Nat
      BY <1>1, <1>2 DEF Published
    <3>2. Real(e)
      BY <2>1, <3>1 DEF Real
    <3> QED
      BY <1>1, <1>6, <3>2, RealKept
  <2>3. NetFits(r)'
    <3>1. CASE Passed(r, e)
      BY <1>1, <1>3, <1>5, <1>6, <1>7, <2>2, <3>1, PassedNetFits
    <3>2. CASE Skipped(r, e)
      BY <1>1, <1>5, <1>6, <1>7, <3>2, MovedNetFits DEF Skipped, Registered
    <3> QED
      BY <1>11, <2>1, <3>1, <3>2
  <2>4. /\ stream'[r].phase = "wal" /\ stream'[r].lastAtStart = stream[r].lastAtStart
        /\ stream'[r].todo = stream[r].todo \ {n}
        /\ stream'[r].lastSent >= stream[r].lastSent /\ stream'[r].lastSent >= n
        /\ stream'[r].lastSent \in Nat
    BY <1>1, <1>3, <1>11, <2>1 DEF Passed, Skipped, Entries
  <2>5. ASSUME NEW m \in InWAL, stream'[r].lastSent < m
        PROVE  m \in stream'[r].todo
               \/ (stream[r].lastAtStart < m /\ \A k \in stream'[r].todo : k < m)
    <3>1. stream[r].lastSent < m /\ m # n
      BY <1>1, <1>9, <2>4, <2>5
    <3> QED
      BY <1>8, <2>4, <3>1
  <2>6. ScanFits(r)'
    BY <1>2, <1>6, <1>9, <2>4, <2>5 DEF ScanFits
  <2> QED
    BY <1>3, <1>5, <1>7, <2>3, <2>6, StreamStepFits DEF StreamKept
<1> QED
  BY <1>4, <1>10, <1>11

\* A skipped slot has been overwritten.
LEMMA BeginRingInv == ASSUME Inv, NEW r \in Replicas, BeginRing(r) PROVE Inv'
<1>1. /\ Typed /\ LogFits /\ RingFits /\ ChannelFits(r) /\ NetFits(r) /\ ScanFits(r)
      /\ stream[r].lastAtStart \in Nat /\ stream[r].lastSent \in Nat
      /\ head \in Nat /\ synced \in Nat /\ RingSize \in Nat \ {0}
  BY StreamContext, ReplicationAssumption
<1>2. /\ StreamsTyped' /\ UNCHANGED <<channel, net>>
      /\ \A q \in Replicas \ {r} : stream'[q] = stream[q]
      /\ stream[r].phase = "wal" /\ stream[r].todo = {}
      /\ stream'[r].phase = "ring" /\ stream'[r].lastSent = stream[r].lastSent
      /\ stream'[r].lastAtStart = stream[r].lastAtStart /\ stream'[r].todo = {}
      /\ stream'[r].upto = head
      /\ \/ stream'[r].next = stream[r].lastSent + 1
         \/ stream'[r].next = head - RingSize /\ stream[r].lastSent + 1 < head - RingSize
  BY <1>1, BeginRingEffect
<1>3. UNCHANGED <<log, shared, replica, lost, writes>> /\ applied'[r] = applied[r]
  BY DEF BeginRing, replica, history
<1>4. Typed' /\ LogKept /\ UNCHANGED <<synced, head, ring, InWAL>>
  BY <1>1, <1>2, <1>3, StreamTyped, StillKept
<1>5. ChannelFits(r)'
  BY <1>1, <1>2, <1>4, ChannelFitsKept
<1>6. NetFits(r)'
  BY <1>1, <1>2, <1>3, <1>4, MovedNetFits DEF Registered
<1>7. /\ stream[r].lastAtStart <= synced
      /\ \A n \in InWAL : stream[r].lastSent < n => stream[r].lastAtStart < n
  BY <1>1, <1>2 DEF ScanFits
<1>8. stream'[r].next <= stream[r].lastSent + 1 \/ stream'[r].next <= head
  BY <1>1, <1>2
<1>9. ASSUME NEW n \in stream[r].lastSent + 1 .. stream'[r].next - 1 PROVE ring[n % RingSize].seq # n
  <2>1. n \in Nat /\ n # 0 /\ n < head - RingSize
    BY <1>1, <1>2
  <2>2. n % RingSize \in 0 .. RingSize - 1
    BY <2>1, SlotTyped
  <2>3. ring[n % RingSize].seq # 0 => head - RingSize <= ring[n % RingSize].seq
    BY <1>1, <2>2 DEF RingFits, SlotFits
  <2> QED
    BY <1>1, <2>1, <2>3
<1>10. ScanFits(r)'
  BY <1>1, <1>2, <1>4, <1>7, <1>8, <1>9 DEF ScanFits
<1> QED
  BY <1>2, <1>3, <1>5, <1>6, <1>10, StreamStepFits DEF StreamKept

LEMMA SendRingInv == ASSUME Inv, NEW r \in Replicas, SendRing(r) PROVE Inv'
<1> DEFINE s == stream[r]
<1>1. /\ Typed /\ LogFits /\ RingFits /\ ChannelFits(r) /\ NetFits(r) /\ ScanFits(r)
      /\ s.lastAtStart \in Nat /\ s.lastSent \in Nat /\ s.next \in Nat /\ s.upto \in Nat
      /\ head \in Nat /\ synced \in Nat
  BY StreamContext
<1>2. PICK e \in Entries : e = ring[s.next % RingSize]
  BY <1>1, SlotTyped DEF Typed, LogTyped
<1>3. /\ StreamsTyped' /\ UNCHANGED channel /\ s.phase = "ring" /\ s.next < s.upto
      /\ \A q \in Replicas \ {r} : stream'[q] = stream[q] /\ net'[q] = net[q]
      /\ \/ Len(net[r]) < Window /\ Refused(r, "FailedPrecondition")
         \/ /\ \/ e.seq = s.next /\ Len(net[r]) < Window /\ (Passed(r, e) \/ Skipped(r, e))
               \/ /\ e.seq # s.next /\ net'[r] = net[r]
                  /\ stream'[r].phase = "ring" /\ stream'[r].lastSent = s.lastSent
                  /\ stream'[r].lastAtStart = s.lastAtStart
            /\ stream'[r].todo = s.todo /\ stream'[r].upto = s.upto
            /\ stream'[r].next = s.next + 1
  BY <1>1, <1>2, SendRingEffect
<1>4. UNCHANGED <<log, shared, replica, lost, writes>> /\ applied'[r] = applied[r]
  BY DEF SendRing, replica, history
<1>5. Typed' /\ LogKept /\ UNCHANGED <<synced, head, ring, InWAL>>
  BY <1>1, <1>3, <1>4, StreamTyped, StillKept
<1>6. ChannelFits(r)' /\ Registered(r)
  BY <1>1, <1>3, <1>5, ChannelFitsKept DEF Registered
<1>7. /\ s.lastAtStart <= synced /\ s.todo \subseteq 1 .. synced /\ s.upto <= head
      /\ s.next <= s.lastSent + 1 \/ s.next <= head
      /\ \A n \in InWAL : n \in Nat /\ (s.lastSent < n => s.lastAtStart < n)
      /\ \A n \in s.lastSent + 1 .. s.next - 1 : ring[n % RingSize].seq # n
  BY <1>1, <1>3 DEF ScanFits, InWAL, Typed, LogTyped
<1>8. CASE Refused(r, "FailedPrecondition")
  <2>1. NetFits(r)'
    BY <1>1, <1>4, <1>5, <1>6, <1>8, RefusedNetFits
  <2>2. ScanFits(r)'
    BY <1>8 DEF Refused, ScanFits
  <2> QED
    BY <1>3, <1>4, <1>6, <2>1, <2>2, StreamStepFits DEF StreamKept
<1>9. ASSUME stream'[r].phase = "ring", stream'[r].lastAtStart = s.lastAtStart,
             stream'[r].lastSent \in Nat, stream'[r].lastSent >= s.lastSent,
             stream'[r].todo = s.todo, stream'[r].upto = s.upto, stream'[r].next = s.next + 1,
             stream'[r].lastSent >= s.next \/ (stream'[r].lastSent = s.lastSent /\ e.seq # s.next)
      PROVE  ScanFits(r)'
  <2>1. stream'[r].next <= stream'[r].lastSent + 1 \/ stream'[r].next <= head
    BY <1>1, <1>3, <1>7, <1>9
  <2>2. ASSUME NEW n \in InWAL, stream'[r].lastSent < n PROVE s.lastAtStart < n
    BY <1>1, <1>7, <1>9, <2>2
  <2>3. ASSUME NEW n \in stream'[r].lastSent + 1 .. stream'[r].next - 1 PROVE ring[n % RingSize].seq # n
    <3>1. /\ n \in s.lastSent + 1 .. s.next - 1 \/ n = s.next
          /\ e.seq # s.next
      BY <1>1, <1>9, <2>3
    <3> QED
      BY <1>2, <1>7, <3>1
  <2> QED
    BY <1>5, <1>7, <1>9, <2>1, <2>2, <2>3 DEF ScanFits
<1>10. ASSUME e.seq = s.next, Len(net[r]) < Window, Passed(r, e) \/ Skipped(r, e),
              stream'[r].todo = s.todo, stream'[r].upto = s.upto, stream'[r].next = s.next + 1
       PROVE  Inv'
  <2>1. NetFits(r)'
    <3>1. CASE Passed(r, e)
      <4>1. e.seq # 0 /\ s.next % RingSize \in 0 .. RingSize - 1
        BY <1>1, <3>1, SlotTyped DEF Passed
      <4>2. Real(e)
        BY <1>1, <1>2, <4>1 DEF RingFits, SlotFits
      <4>3. Real(e)'
        BY <1>1, <1>5, <4>2, RealKept
      <4> QED
        BY <1>1, <1>4, <1>5, <1>6, <1>10, <3>1, <4>3, PassedNetFits
    <3>2. CASE Skipped(r, e)
      BY <1>1, <1>4, <1>5, <1>6, <3>2, MovedNetFits DEF Skipped, Registered
    <3> QED
      BY <1>10, <3>1, <3>2
  <2>2. /\ stream'[r].phase = "ring" /\ stream'[r].lastAtStart = s.lastAtStart
        /\ stream'[r].lastSent \in Nat /\ stream'[r].lastSent >= s.lastSent
        /\ stream'[r].lastSent >= s.next
    BY <1>1, <1>3, <1>10 DEF Passed, Skipped, Entries
  <2> QED
    BY <1>3, <1>4, <1>6, <1>9, <1>10, <2>1, <2>2, StreamStepFits DEF StreamKept
<1>11. ASSUME e.seq # s.next, net'[r] = net[r], stream'[r].phase = "ring",
              stream'[r].lastSent = s.lastSent, stream'[r].lastAtStart = s.lastAtStart,
              stream'[r].todo = s.todo, stream'[r].upto = s.upto, stream'[r].next = s.next + 1
       PROVE  Inv'
  <2>1. NetFits(r)'
    BY <1>1, <1>4, <1>5, <1>6, <1>11, MovedNetFits DEF Registered
  <2>2. ScanFits(r)'
    BY <1>1, <1>9, <1>11
  <2> QED
    BY <1>3, <1>4, <1>6, <2>1, <2>2, StreamStepFits DEF StreamKept
<1> QED
  BY <1>3, <1>8, <1>10, <1>11

LEMMA BeginLiveInv == ASSUME Inv, NEW r \in Replicas, BeginLive(r) PROVE Inv'
<1>1. Typed /\ LogFits /\ ChannelFits(r) /\ NetFits(r)
  BY StreamContext
<1>2. /\ StreamsTyped' /\ UNCHANGED channel /\ stream[r].phase = "ring"
      /\ \A q \in Replicas \ {r} : stream'[q] = stream[q] /\ net'[q] = net[q]
      /\ \/ stream[r].lastSent < stream[r].lastAtStart /\ Refused(r, "FailedPrecondition")
         \/ /\ net'[r] = net[r] /\ stream'[r].phase = "live"
            /\ stream'[r].lastSent = stream[r].lastSent /\ stream'[r].todo = {}
  BY <1>1, BeginLiveEffect
<1>3. UNCHANGED <<log, shared, replica, lost, writes>> /\ applied'[r] = applied[r]
  BY DEF BeginLive, replica, history
<1>4. Typed' /\ LogKept
  BY <1>1, <1>2, <1>3, StreamTyped, StillKept
<1>5. ChannelFits(r)' /\ Registered(r)
  BY <1>1, <1>2, <1>4, ChannelFitsKept DEF Registered
<1>6. NetFits(r)'
  <2>1. CASE Refused(r, "FailedPrecondition")
    BY <1>1, <1>3, <1>4, <1>5, <2>1, RefusedNetFits
  <2>2. CASE net'[r] = net[r] /\ stream'[r].phase = "live" /\ stream'[r].lastSent = stream[r].lastSent
    BY <1>1, <1>3, <1>4, <1>5, <2>2, MovedNetFits DEF Registered
  <2> QED
    BY <1>2, <2>1, <2>2
<1>7. ScanFits(r)'
  BY <1>2 DEF ScanFits, Refused
<1> QED
  BY <1>2, <1>3, <1>5, <1>6, <1>7, StreamStepFits DEF StreamKept

LEMMA SendLiveInv == ASSUME Inv, NEW r \in Replicas, SendLive(r) PROVE Inv'
<1> DEFINE c == channel[r]
<1>1. /\ Typed /\ LogFits /\ ChannelFits(r) /\ NetFits(r) /\ ScanFits(r) /\ c \in Seq(Entries)
      /\ synced \in Nat
  BY StreamContext
<1>2. /\ StreamsTyped' /\ stream[r].phase = "live" /\ Len(net[r]) < Window
      /\ c # <<>> /\ channel'[r] = Tail(c)
      /\ \A q \in Replicas \ {r} : stream'[q] = stream[q] /\ net'[q] = net[q] /\ channel'[q] = channel[q]
      /\ \/ Refused(r, "Unavailable")
         \/ (Passed(r, c[1]) \/ Skipped(r, c[1])) /\ stream'[r].todo = stream[r].todo
  BY <1>1, SendLiveEffect
<1>3. UNCHANGED <<log, shared, replica, lost, writes>> /\ applied'[r] = applied[r]
  BY DEF SendLive, replica, history
<1>4. Typed' /\ LogKept /\ synced' = synced
  BY <1>1, <1>2, <1>3, StreamTyped, StillKept
<1>5. /\ c[1] \in Entries /\ Len(c) \in Nat \ {0} /\ Len(Tail(c)) = Len(c) - 1
      /\ \A i \in 1 .. Len(c) - 1 : Tail(c)[i] = c[i + 1]
  BY <1>1, <1>2
<1>6. \A e \in Entries : Real(e) => Real(e)'
  BY <1>1, <1>4, RealKept
<1>7. Registered(r)
  BY <1>2 DEF Registered
<1>8. \A i \in 1 .. Len(c) : c[i] \in Entries /\ Real(c[i])
  BY <1>1 DEF ChannelFits
<1>9. ChannelFits(r)'
  <2>1. Len(channel'[r]) <= ChanSize
    BY <1>1, <1>2, <1>5, ReplicationAssumption DEF ChannelFits
  <2>2. ASSUME NEW i \in 1 .. Len(channel'[r]) PROVE Real(channel[r][i])'
    <3>1. i + 1 \in 1 .. Len(c) /\ channel'[r][i] = c[i + 1]
      BY <1>2, <1>5
    <3>2. PICK e \in Entries : e = c[i + 1] /\ Real(e)
      BY <1>8, <3>1
    <3>3. Real(e)' /\ channel'[r][i] = e
      BY <1>6, <3>1, <3>2
    <3> QED
      BY <3>3 DEF Real
  <2> QED
    BY <2>1, <2>2 DEF ChannelFits
<1>10. NetFits(r)'
  <2>1. CASE Refused(r, "Unavailable")
    BY <1>1, <1>3, <1>4, <1>7, <2>1, RefusedNetFits
  <2>2. PICK e \in Entries : e = c[1] /\ Real(e)
    BY <1>5, <1>8
  <2>3. CASE Passed(r, e)
    BY <1>1, <1>2, <1>3, <1>4, <1>6, <1>7, <2>2, <2>3, PassedNetFits
  <2>4. CASE Skipped(r, e)
    BY <1>1, <1>3, <1>4, <1>7, <2>4, MovedNetFits DEF Skipped, Registered
  <2> QED
    BY <1>2, <2>1, <2>2, <2>3, <2>4
<1>11. ScanFits(r)'
  BY <1>1, <1>2, <1>4 DEF ScanFits, Refused, Passed, Skipped
<1> QED
  BY <1>2, <1>3, <1>9, <1>10, <1>11, StreamStepFits DEF StreamKept

-----------------------------------------------------------------------------
(* The steps of a replica keep the invariant.                              *)

LEMMA DropInv == ASSUME Inv, NEW r \in Replicas, ReceiveError(r) \/ Break(r) PROVE Inv'
<1>1. Typed /\ LogFits /\ ReplicaFits(r) /\ (~lost => ContentsFit(r))
  BY StreamContext
<1>2. /\ Typed' /\ UNCHANGED <<log, shared, lost>> /\ Dropped(r) /\ ContentsKept(r)
      /\ failCount'[r] = failCount[r] /\ OthersKept(r)
  BY <1>1, DropEffect
<1>3. LogKept
  BY <1>1, <1>2, StillKept
<1>4. ReplicaFits(r)' /\ (~lost => ContentsFit(r)')
  BY <1>1, <1>2, <1>3, ReplicaFitsKept, ContentsFitKept
<1>5. ChannelFits(r)' /\ NetFits(r)' /\ ScanFits(r)'
  BY <1>2, DroppedFits
<1> QED
  BY <1>2, <1>4, <1>5, ReplicaStepFits

LEMMA FailApplyInv == ASSUME Inv, NEW r \in Replicas, FailApply(r) PROVE Inv'
<1>1. Typed /\ LogFits /\ ReplicaFits(r) /\ (~lost => ContentsFit(r))
  BY StreamContext
<1>2. /\ Typed' /\ UNCHANGED <<log, shared, lost>> /\ Dropped(r) /\ ContentsKept(r)
      /\ failCount'[r] < MaxAttempts /\ OthersKept(r)
  BY <1>1, FailApplyEffect
<1>3. LogKept
  BY <1>1, <1>2, StillKept
<1>4. ReplicaFits(r)'
  BY <1>1, <1>2 DEF ReplicaFits, ContentsKept
<1>5. ~lost => ContentsFit(r)'
  BY <1>1, <1>2, <1>3, ContentsFitKept
<1>6. ChannelFits(r)' /\ NetFits(r)' /\ ScanFits(r)'
  BY <1>2, DroppedFits
<1> QED
  BY <1>2, <1>4, <1>5, <1>6, ReplicaStepFits

\* The next message is the next entry.
LEMMA NextEntry ==
    ASSUME Inv, NEW r \in Replicas, net[r] # <<>>, net[r][1].status = "ok"
    PROVE  /\ InOrder(r) /\ net[r][1].entry \in Entries /\ Real(net[r][1].entry)
           /\ net[r][1].entry.seq = applied[r] + 1
<1>1. Typed /\ NetFits(r) /\ net[r] \in Seq(Packets)
  BY StreamContext
<1>2. 1 \in 1 .. Len(net[r]) /\ net[r][1] \in Packets /\ Message(r) = net[r][1]
  BY <1>1 DEF Message
<1>3. MessageFits(r, 1)
  BY <1>1, <1>2 DEF NetFits
<1> QED
  BY <1>2, <1>3 DEF MessageFits, InOrder, Packets

LEMMA AdvancedFits ==
    ASSUME Inv, Typed', NEW r \in Replicas, NEW e \in Entries, Real(e), e.seq = applied[r] + 1,
           UNCHANGED <<log, shared, lost>>, Advanced(r, e)
    PROVE  ChannelFits(r)' /\ NetFits(r)' /\ ScanFits(r)' /\ ReplicaFits(r)'
<1>1. /\ Typed /\ LogFits /\ ChannelFits(r) /\ NetFits(r) /\ ScanFits(r) /\ ReplicaFits(r)
      /\ applied[r] \in Nat /\ net[r] \in Seq(Packets) /\ LastSeq \in Nat
      /\ stream[r].lastSent \in Nat
  BY StreamContext
<1>2. Grown /\ LogFits' /\ LogKept
  BY <1>1, StillGrows, StillKept
<1>3. /\ stream'[r] = stream[r] /\ channel'[r] = channel[r]
      /\ Len(net[r]) > 0 /\ Len(net'[r]) = Len(net[r]) - 1
      /\ \A i \in 1 .. Len(net[r]) - 1 : net'[r][i] = net[r][i + 1]
      /\ applied'[r] = e.seq /\ failCount'[r] = 0
      /\ saved'[r] = saved[r] /\ previous'[r] = previous[r]
  BY DEF Advanced
<1>4. ChannelFits(r)' /\ ScanFits(r)'
  BY <1>1, <1>2, <1>3, ChannelFitsKept, ScanFitsKept
<1>5. \A m \in Entries : Real(m) => Real(m)'
  BY <1>1, <1>2, RealKept
<1>6. ASSUME NEW i \in 1 .. Len(net'[r]) PROVE MessageFits(r, i)'
  <2>1. i + 1 \in 1 .. Len(net[r]) /\ net'[r][i] = net[r][i + 1] /\ i \in Nat
    BY <1>1, <1>3
  <2>2. MessageFits(r, i + 1) /\ net[r][i + 1] \in Packets
    BY <1>1, <2>1 DEF NetFits
  <2>3. PICK m \in Entries : m = net[r][i + 1].entry
    BY <2>2 DEF Packets
  <2>4. CASE net[r][i + 1].status = "ok"
    <3>1. Real(m) /\ m.seq = applied[r] + (i + 1)
      BY <2>2, <2>3, <2>4 DEF MessageFits
    <3>2. Real(m)'
      BY <1>5, <3>1
    <3>3. net'[r][i].entry = m
      BY <2>1, <2>3
    <3>4. m.seq = applied'[r] + i
      <4>1. applied'[r] = applied[r] + 1 /\ applied[r] \in Nat /\ i \in Nat
        BY <1>1, <1>3, <2>1
      <4> QED
        BY <3>1, <4>1
    <3> QED
      BY <2>1, <2>4, <3>2, <3>3, <3>4 DEF MessageFits, Real
  <2>5. CASE net[r][i + 1].status # "ok"
    <3>1. i + 1 = Len(net[r]) /\ stream[r].phase = "ended"
      BY <2>2, <2>5 DEF MessageFits
    <3> QED
      BY <1>1, <1>3, <2>1, <2>5, <3>1 DEF MessageFits
  <2> QED
    BY <2>4, <2>5
<1>7. stream'[r].phase # "off"
  BY <1>1, <1>3 DEF NetFits
<1>8. Len(net'[r]) <= Window + 1
  BY <1>1, <1>3, ReplicationAssumption DEF NetFits
<1>9. ASSUME Registered(r)' PROVE Len(net'[r]) <= Window /\ stream'[r].lastSent = applied'[r] + Len(net'[r])
  <2>1. Registered(r)
    BY <1>3, <1>9 DEF Registered
  <2>2. Len(net[r]) <= Window /\ stream[r].lastSent = applied[r] + Len(net[r])
    BY <1>1, <2>1 DEF NetFits
  <2> QED
    BY <1>1, <1>3, <2>2, ReplicationAssumption
<1>10. NetFits(r)'
  BY <1>6, <1>7, <1>8, <1>9 DEF NetFits
<1>11. ReplicaFits(r)'
  <2>1. e.seq <= LastSeq
    BY DEF Real, Published
  <2>2. /\ saved[r] \in Nat \cup {NoPosition} /\ previous[r] \in Nat
    BY <1>1 DEF Typed, ReplicasTyped
  <2>3. e.seq <= MaxSeq /\ saved[r] <= previous[r] /\ previous[r] <= e.seq
    BY <1>1, <2>1, <2>2, ReplicationAssumption DEF LogFits, ReplicaFits
  <2> QED
    BY <1>3, <2>3, ReplicationAssumption DEF ReplicaFits
<1> QED
  BY <1>4, <1>10, <1>11

\* Positions and contents are only read in a log that does not change.
LEMMA StillLog ==
    ASSUME Typed, LogFits, Typed', UNCHANGED <<log, shared>>
    PROVE  \A i \in Nat : /\ Published(i)' <=> Published(i)
                          /\ Lasting(i)' <=> Lasting(i)
                          /\ hist'[i] = hist[i]
<1>1. UNCHANGED <<hist, synced, head, LastSeq>>
  BY StillKept
<1> QED
  BY <1>1 DEF Published, Lasting

LEMMA ApplyContents ==
    ASSUME Inv, ~lost, Typed', NEW r \in Replicas, NEW e \in Entries, Real(e), e.seq = applied[r] + 1,
           UNCHANGED <<log, shared>>, Advanced(r, e),
           docs'[r] = ApplyTo(docs[r], e), disk'[r] = IF e.op = "reset" THEN {} ELSE disk[r],
           dead'[r] = dead[r] \ {e.seq}
    PROVE  ContentsFit(r)'
<1> DEFINE n == e.seq
<1>1. /\ Typed /\ LogFits /\ ReplicaFits(r) /\ ContentsFit(r)
      /\ applied[r] \in Nat /\ LastSeq \in Nat /\ previous[r] \in Nat /\ saved[r] \in Nat \cup {NoPosition}
      /\ dead[r] \subseteq Nat
  BY StreamContext DEF Typed, ReplicasTyped
<1>2. /\ n \in 1 .. LastSeq /\ n \in Nat /\ Published(n) /\ n = applied[r] + 1
      /\ hist[n].op = e.op /\ hist[n].id = e.id /\ hist[n] \in Record
  BY <1>1, EntryTyped DEF Real, Published, Entries
<1>3. \A i \in Nat : (Published(i)' <=> Published(i)) /\ (Lasting(i)' <=> Lasting(i)) /\ hist'[i] = hist[i]
  BY <1>1, StillLog
<1>4. /\ applied'[r] = n /\ saved'[r] = saved[r] /\ previous'[r] = previous[r]
      /\ walTicked'[r] = walTicked[r] /\ LastSeq' = LastSeq
  BY <1>1, StillKept DEF Advanced
<1>5. saved[r] < n /\ previous[r] < n
  BY <1>1, <1>2 DEF ReplicaFits, NoPosition
<1>6. e.op \in {"write", "reset"}
  BY <1>2 DEF Record
<1> HIDE DEF n
<1>7. \A i \in 1 .. n - 1 : e.op = "reset" => ~ Lasting(i)
  BY <1>1, <1>2 DEF Lasting
<1>8. dead'[r] = dead[r] \ {n}
  BY DEF n
<1>9. ASSUME NEW x \in docs'[r] \cup disk'[r]
      PROVE  \E i \in 1 .. LastSeq' : hist'[i].id = x /\ Origin(i, r)'
  <2>1. e.op = "write" /\ x \in docs[r] \cup disk[r] \cup {e.id}
    BY <1>6, <1>9 DEF ApplyTo
  <2>2. CASE x = e.id
    <3>1. Origin(n, r)'
      <4>1. Published(n)' /\ hist'[n].op = "write" /\ (n + 1 .. n) \ dead'[r] = {}
        BY <1>2, <1>3, <2>1
      <4> QED
        BY <1>4, <4>1 DEF Origin, n
    <3> QED
      BY <1>2, <1>3, <1>4, <2>2, <3>1
  <2>3. CASE x \in docs[r] \cup disk[r]
    <3>1. PICK i \in 1 .. LastSeq : hist[i].id = x /\ Origin(i, r)
      BY <1>1, <2>3 DEF ContentsFit
    <3>2. Published(i)' /\ hist'[i] = hist[i] /\ hist[i].op = "write"
      BY <1>3, <3>1 DEF Origin
    <3>3. ASSUME NEW j \in (i + 1 .. n) \ dead'[r] PROVE hist'[j].op # "reset"
      <4>1. j = n \/ j \in (i + 1 .. applied[r]) \ dead[r]
        BY <1>1, <1>2, <1>8, <3>3
      <4>2. hist[j].op # "reset" /\ j \in Nat
        BY <1>1, <1>2, <2>1, <3>1, <3>3, <4>1 DEF Origin
      <4> QED
        BY <1>3, <4>2
    <3>4. Origin(i, r)'
      BY <1>4, <3>2, <3>3 DEF Origin
    <3> QED
      BY <1>4, <3>1, <3>2, <3>4
  <2> QED
    BY <2>1, <2>2, <2>3
<1>10. \A i \in (1 .. n) \ dead'[r] : Lasting(i) => hist[i].id \in docs'[r]
  <2> SUFFICES ASSUME NEW i \in (1 .. n) \ dead'[r], Lasting(i) PROVE hist[i].id \in docs'[r]
    OBVIOUS
  <2>1. e.op = "write"
    <3>1. i = n => hist[n].op = "write"
      BY DEF Lasting
    <3>2. i # n => i \in 1 .. n - 1
      BY <1>2
    <3> QED
      BY <1>2, <1>6, <1>7, <3>1, <3>2
  <2>2. docs'[r] = docs[r] \cup {e.id}
    BY <2>1 DEF ApplyTo
  <2>3. CASE i = n
    BY <1>2, <2>2, <2>3
  <2>4. CASE i # n
    <3>1. i \in (1 .. applied[r]) \ dead[r]
      BY <1>1, <1>2, <1>8, <2>4
    <3> QED
      BY <1>1, <2>2, <3>1 DEF ContentsFit, Covers
  <2> QED
    BY <2>3, <2>4
<1>11. ASSUME NEW p, p \in Nat \cup {NoPosition}, p < n, Covers(disk[r], p, r)
       PROVE  \A i \in (1 .. p) \ dead'[r] : Lasting(i) => hist[i].id \in disk'[r]
  <2> SUFFICES ASSUME NEW i \in (1 .. p) \ dead'[r], Lasting(i) PROVE hist[i].id \in disk'[r]
    OBVIOUS
  <2>1. i \in 1 .. n - 1 /\ i \in (1 .. p) \ dead[r]
    BY <1>2, <1>8, <1>11 DEF NoPosition
  <2>2. e.op = "write"
    BY <1>6, <1>7, <2>1
  <2> QED
    BY <1>11, <2>1, <2>2 DEF Covers
<1>12. Covers(docs[r], applied[r], r)'
  BY <1>2, <1>3, <1>4, <1>10 DEF Covers
<1>13. Covers(disk[r], saved[r], r)'
  <2>1. \A i \in (1 .. saved[r]) \ dead'[r] : Lasting(i) => hist[i].id \in disk'[r]
    BY <1>1, <1>5, <1>11 DEF ContentsFit
  <2>2. \A i \in (1 .. saved[r]) \ dead'[r] : i \in Nat
    BY <1>1 DEF NoPosition
  <2> QED
    BY <1>3, <1>4, <2>1, <2>2 DEF Covers
<1>14. ASSUME walTicked'[r] PROVE Covers(disk[r], previous[r], r)'
  <2>1. \A i \in (1 .. previous[r]) \ dead'[r] : Lasting(i) => hist[i].id \in disk'[r]
    BY <1>1, <1>4, <1>5, <1>11, <1>14 DEF ContentsFit
  <2>2. \A i \in (1 .. previous[r]) \ dead'[r] : i \in Nat
    BY <1>1
  <2> QED
    BY <1>3, <1>4, <2>1, <2>2 DEF Covers
<1>15. Published(applied[r])'
  BY <1>2, <1>3, <1>4 DEF Published
<1> QED
  BY <1>9, <1>12, <1>13, <1>14, <1>15 DEF ContentsFit

LEMMA ApplyInv == ASSUME Inv, NEW r \in Replicas, Apply(r) PROVE Inv'
<1>1. net[r] # <<>> /\ Message(r).status = "ok" /\ Typed
  BY DEF Apply, HasEntry, Inv
<1>2. Message(r) = net[r][1]
  BY <1>1, HeadMessage
<1>3. PICK e \in Entries : e = net[r][1].entry /\ Real(e) /\ e.seq = applied[r] + 1 /\ InOrder(r)
  BY <1>1, <1>2, NextEntry
<1>4. /\ Typed' /\ UNCHANGED <<log, shared, lost>> /\ OthersKept(r) /\ Advanced(r, e)
      /\ docs'[r] = ApplyTo(docs[r], e)
      /\ disk'[r] = IF e.op = "reset" THEN {} ELSE disk[r]
      /\ dead'[r] = dead[r] \ {e.seq}
  BY <1>1, <1>3, ApplyEffect
<1>5. ChannelFits(r)' /\ NetFits(r)' /\ ScanFits(r)' /\ ReplicaFits(r)'
  BY <1>3, <1>4, AdvancedFits
<1>6. ~lost => ContentsFit(r)'
  BY <1>3, <1>4, ApplyContents
<1> QED
  BY <1>4, <1>5, <1>6, ReplicaStepFits

\* Steps of a replica that leave its contents, or take them from disk.
LEMMA ContentsOnward ==
    ASSUME Inv, ~lost, Typed', NEW r \in Replicas, UNCHANGED <<log, shared>>,
           applied'[r] = 0 \/ Published(applied'[r]),
           docs'[r] \cup disk'[r] \subseteq docs[r] \cup disk[r],
           dead[r] \subseteq dead'[r],
           \A j \in Nat : j <= applied'[r] /\ j \notin dead'[r] => j <= applied[r] /\ j \notin dead[r],
           \A i \in (1 .. applied'[r]) \ dead'[r] : Lasting(i) => hist[i].id \in docs'[r],
           \A i \in (1 .. saved'[r]) \ dead'[r] : Lasting(i) => hist[i].id \in disk'[r],
           walTicked'[r] =>
               \A i \in (1 .. previous'[r]) \ dead'[r] : Lasting(i) => hist[i].id \in disk'[r]
    PROVE  ContentsFit(r)'
<1>1. /\ Typed /\ LogFits /\ ContentsFit(r) /\ applied[r] \in Nat /\ LastSeq \in Nat
  BY StreamContext
<1>2. \A i \in Nat : (Published(i)' <=> Published(i)) /\ (Lasting(i)' <=> Lasting(i)) /\ hist'[i] = hist[i]
  BY <1>1, StillLog
<1>3. /\ applied'[r] \in Nat /\ previous'[r] \in Nat /\ saved'[r] \in Nat \cup {NoPosition}
      /\ LastSeq' = LastSeq
  BY <1>1, StillKept DEF Typed, ReplicasTyped
<1>4. ASSUME NEW x \in docs'[r] \cup disk'[r]
      PROVE  \E i \in 1 .. LastSeq' : hist'[i].id = x /\ Origin(i, r)'
  <2>1. PICK i \in 1 .. LastSeq : hist[i].id = x /\ Origin(i, r)
    BY <1>1, <1>4 DEF ContentsFit
  <2>2. Published(i)' /\ hist'[i] = hist[i] /\ hist[i].op = "write"
    BY <1>2, <2>1 DEF Origin
  <2>3. ASSUME NEW j \in (i + 1 .. applied'[r]) \ dead'[r] PROVE hist'[j].op # "reset"
    <3>1. j \in (i + 1 .. applied[r]) \ dead[r] /\ j \in Nat
      BY <1>1, <1>3, <2>3
    <3> QED
      BY <1>2, <2>1, <3>1 DEF Origin
  <2>4. Origin(i, r)'
    BY <2>2, <2>3 DEF Origin
  <2> QED
    BY <1>3, <2>1, <2>2, <2>4
<1>5. Covers(docs[r], applied[r], r)'
  <2>1. \A i \in (1 .. applied'[r]) \ dead'[r] : i \in Nat
    BY <1>3
  <2> QED
    BY <1>2, <2>1 DEF Covers
<1>6. Covers(disk[r], saved[r], r)'
  <2>1. \A i \in (1 .. saved'[r]) \ dead'[r] : i \in Nat
    BY <1>3 DEF NoPosition
  <2> QED
    BY <1>2, <2>1 DEF Covers
<1>7. ASSUME walTicked'[r] PROVE Covers(disk[r], previous[r], r)'
  <2>1. \A i \in (1 .. previous'[r]) \ dead'[r] : i \in Nat
    BY <1>3
  <2> QED
    BY <1>2, <1>7, <2>1 DEF Covers
<1>8. applied'[r] = 0 \/ Published(applied[r])'
  BY <1>2, <1>3 DEF Published
<1> QED
  BY <1>4, <1>5, <1>6, <1>7, <1>8 DEF ContentsFit

\* The contents part of the invariant, in the form ContentsOnward takes it.
LEMMA ContentsFacts ==
    ASSUME Inv, ~lost, NEW r \in Replicas
    PROVE  /\ applied[r] \in Nat /\ previous[r] \in Nat /\ saved[r] \in Nat \cup {NoPosition}
           /\ saved[r] <= previous[r] /\ previous[r] <= applied[r]
           /\ dead[r] \subseteq Nat
           /\ applied[r] = 0 \/ Published(applied[r])
           /\ saved[r] \in {0, NoPosition} \/ Published(saved[r])
           /\ \A i \in (1 .. applied[r]) \ dead[r] : Lasting(i) => hist[i].id \in docs[r]
           /\ \A i \in (1 .. saved[r]) \ dead[r] : Lasting(i) => hist[i].id \in disk[r]
           /\ walTicked[r] =>
                  \A i \in (1 .. previous[r]) \ dead[r] : Lasting(i) => hist[i].id \in disk[r]
<1>1. /\ Typed /\ LogFits /\ ReplicaFits(r) /\ ContentsFit(r)
      /\ LastSeq \in Nat /\ synced \in Nat /\ head \in Nat
  BY StreamContext
<1>2. /\ applied[r] \in Nat /\ previous[r] \in Nat /\ saved[r] \in Nat \cup {NoPosition}
      /\ saved[r] <= previous[r] /\ previous[r] <= applied[r] /\ dead[r] \subseteq Nat
  BY <1>1 DEF Typed, ReplicasTyped, ReplicaFits
<1>3. applied[r] = 0 \/ Published(applied[r])
  BY <1>1 DEF ContentsFit
<1>4. saved[r] \in {0, NoPosition} \/ Published(saved[r])
  BY <1>1, <1>2, <1>3 DEF Published, NoPosition
<1> QED
  BY <1>1, <1>2, <1>3, <1>4 DEF ContentsFit, Covers

LEMMA DeadLetterInv == ASSUME Inv, NEW r \in Replicas, DeadLetter(r) PROVE Inv'
<1>1. net[r] # <<>> /\ Message(r).status = "ok" /\ Typed
  BY DEF DeadLetter, Fails, HasEntry, Inv
<1>2. Message(r) = net[r][1]
  BY <1>1, HeadMessage
<1>3. PICK e \in Entries : e = net[r][1].entry /\ Real(e) /\ e.seq = applied[r] + 1
  BY <1>1, <1>2, NextEntry
<1>4. /\ Typed' /\ UNCHANGED <<log, shared, lost>> /\ OthersKept(r) /\ Advanced(r, e)
      /\ docs'[r] = docs[r] /\ disk'[r] = disk[r] /\ dead'[r] = dead[r] \cup {e.seq}
  BY <1>1, <1>3, DeadLetterEffect
<1>5. ChannelFits(r)' /\ NetFits(r)' /\ ScanFits(r)' /\ ReplicaFits(r)'
  BY <1>3, <1>4, AdvancedFits
<1>6. ASSUME ~lost PROVE ContentsFit(r)'
  <2>1. /\ applied[r] \in Nat /\ previous[r] \in Nat /\ saved[r] \in Nat \cup {NoPosition}
        /\ saved[r] <= previous[r] /\ previous[r] <= applied[r]
        /\ \A i \in (1 .. applied[r]) \ dead[r] : Lasting(i) => hist[i].id \in docs[r]
        /\ \A i \in (1 .. saved[r]) \ dead[r] : Lasting(i) => hist[i].id \in disk[r]
        /\ walTicked[r] =>
               \A i \in (1 .. previous[r]) \ dead[r] : Lasting(i) => hist[i].id \in disk[r]
    BY <1>6, ContentsFacts
  <2>2. /\ applied'[r] = e.seq /\ saved'[r] = saved[r] /\ previous'[r] = previous[r]
        /\ walTicked'[r] = walTicked[r]
    BY <1>4 DEF Advanced
  <2>3. Published(applied'[r])
    BY <1>3, <2>2 DEF Real
  <2>4. \A j \in Nat : j <= applied'[r] /\ j \notin dead'[r] => j <= applied[r] /\ j \notin dead[r]
    BY <1>3, <1>4, <2>1, <2>2
  <2>5. \A i \in (1 .. applied'[r]) \ dead'[r] : i \in (1 .. applied[r]) \ dead[r]
    BY <1>3, <1>4, <2>1, <2>2
  <2>6. \A i \in (1 .. applied'[r]) \ dead'[r] : Lasting(i) => hist[i].id \in docs'[r]
    BY <1>4, <2>1, <2>5
  <2>7. /\ \A i \in (1 .. saved'[r]) \ dead'[r] : Lasting(i) => hist[i].id \in disk'[r]
        /\ walTicked'[r] =>
               \A i \in (1 .. previous'[r]) \ dead'[r] : Lasting(i) => hist[i].id \in disk'[r]
    BY <1>4, <2>1, <2>2
  <2> QED
    BY <1>4, <1>6, <2>3, <2>4, <2>6, <2>7, ContentsOnward
<1> QED
  BY <1>4, <1>5, <1>6, ReplicaStepFits

LEMMA FlushReplicaInv == ASSUME Inv, NEW r \in Replicas, FlushReplica(r) PROVE Inv'
<1>1. /\ Typed /\ LogFits /\ ChannelFits(r) /\ NetFits(r) /\ ScanFits(r) /\ ReplicaFits(r)
  BY StreamContext
<1>2. /\ Typed' /\ UNCHANGED <<log, shared, lost>> /\ OthersKept(r) /\ StreamKept(r)
      /\ applied'[r] = applied[r] /\ saved'[r] = saved[r] /\ previous'[r] = previous[r]
      /\ failCount'[r] = failCount[r]
      /\ docs'[r] = docs[r] /\ disk'[r] = docs[r] /\ dead'[r] = dead[r]
  BY <1>1, FlushReplicaEffect
<1>3. Grown /\ LogFits' /\ LogKept
  BY <1>1, <1>2, StillGrows, StillKept
<1>4. ChannelFits(r)' /\ NetFits(r)' /\ ScanFits(r)'
  BY <1>1, <1>2, <1>3, ChannelFitsKept, NetFitsKept, ScanFitsKept DEF StreamKept
<1>5. ReplicaFits(r)'
  BY <1>1, <1>2 DEF ReplicaFits
<1>6. ASSUME ~lost PROVE ContentsFit(r)'
  <2>1. /\ applied[r] \in Nat /\ previous[r] \in Nat /\ saved[r] \in Nat \cup {NoPosition}
        /\ saved[r] <= previous[r] /\ previous[r] <= applied[r]
        /\ applied[r] = 0 \/ Published(applied[r])
        /\ \A i \in (1 .. applied[r]) \ dead[r] : Lasting(i) => hist[i].id \in docs[r]
    BY <1>6, ContentsFacts
  <2>2. /\ \A i \in (1 .. saved[r]) \ dead[r] : i \in (1 .. applied[r]) \ dead[r]
        /\ \A i \in (1 .. previous[r]) \ dead[r] : i \in (1 .. applied[r]) \ dead[r]
    BY <2>1 DEF NoPosition
  <2>3. /\ \A i \in (1 .. applied'[r]) \ dead'[r] : Lasting(i) => hist[i].id \in docs'[r]
        /\ \A i \in (1 .. saved'[r]) \ dead'[r] : Lasting(i) => hist[i].id \in disk'[r]
        /\ \A i \in (1 .. previous'[r]) \ dead'[r] : Lasting(i) => hist[i].id \in disk'[r]
    BY <1>2, <2>1, <2>2
  <2>4. \A j \in Nat : j <= applied'[r] /\ j \notin dead'[r] => j <= applied[r] /\ j \notin dead[r]
    BY <1>2
  <2>5. /\ applied'[r] = 0 \/ Published(applied'[r])
        /\ docs'[r] \cup disk'[r] \subseteq docs[r] \cup disk[r] /\ dead[r] \subseteq dead'[r]
    BY <1>2, <2>1
  <2> QED
    BY <1>2, <1>6, <2>3, <2>4, <2>5, ContentsOnward
<1> QED
  BY <1>2, <1>4, <1>5, <1>6, ReplicaStepFits

LEMMA PersistTickInv == ASSUME Inv, NEW r \in Replicas, PersistTick(r) PROVE Inv'
<1>1. /\ Typed /\ LogFits /\ ChannelFits(r) /\ NetFits(r) /\ ScanFits(r) /\ ReplicaFits(r)
      /\ applied[r] \in Nat
  BY StreamContext
<1>2. /\ Typed' /\ UNCHANGED <<log, shared, lost>> /\ OthersKept(r) /\ StreamKept(r)
      /\ walTicked[r] /\ ~walTicked'[r]
      /\ applied'[r] = applied[r] /\ saved'[r] = previous[r] /\ previous'[r] = applied[r]
      /\ failCount'[r] = failCount[r]
      /\ docs'[r] = docs[r] /\ disk'[r] = disk[r] /\ dead'[r] = dead[r]
  BY <1>1, PersistTickEffect
<1>3. Grown /\ LogFits' /\ LogKept
  BY <1>1, <1>2, StillGrows, StillKept
<1>4. ChannelFits(r)' /\ NetFits(r)' /\ ScanFits(r)'
  BY <1>1, <1>2, <1>3, ChannelFitsKept, NetFitsKept, ScanFitsKept DEF StreamKept
<1>5. ReplicaFits(r)'
  BY <1>1, <1>2 DEF ReplicaFits
<1>6. ASSUME ~lost PROVE ContentsFit(r)'
  <2>1. /\ applied[r] = 0 \/ Published(applied[r])
        /\ \A i \in (1 .. applied[r]) \ dead[r] : Lasting(i) => hist[i].id \in docs[r]
        /\ \A i \in (1 .. previous[r]) \ dead[r] : Lasting(i) => hist[i].id \in disk[r]
    BY <1>2, <1>6, ContentsFacts
  <2>2. /\ \A i \in (1 .. applied'[r]) \ dead'[r] : Lasting(i) => hist[i].id \in docs'[r]
        /\ \A i \in (1 .. saved'[r]) \ dead'[r] : Lasting(i) => hist[i].id \in disk'[r]
    BY <1>2, <2>1
  <2>3. \A j \in Nat : j <= applied'[r] /\ j \notin dead'[r] => j <= applied[r] /\ j \notin dead[r]
    BY <1>2
  <2>4. /\ applied'[r] = 0 \/ Published(applied'[r])
        /\ docs'[r] \cup disk'[r] \subseteq docs[r] \cup disk[r] /\ dead[r] \subseteq dead'[r]
    BY <1>2, <2>1
  <2> QED
    BY <1>2, <1>6, <2>2, <2>3, <2>4, ContentsOnward
<1> QED
  BY <1>2, <1>4, <1>5, <1>6, ReplicaStepFits

LEMMA ReplicaStopInv == ASSUME Inv, NEW r \in Replicas, ReplicaStop(r) PROVE Inv'
<1>1. Typed /\ ReplicaFits(r) /\ applied[r] \in Nat
  BY StreamContext
<1>2. /\ Typed' /\ UNCHANGED <<log, shared, lost>> /\ OthersKept(r) /\ Dropped(r)
      /\ ~walTicked'[r] /\ failCount'[r] = 0
      /\ applied'[r] = applied[r] /\ saved'[r] = applied[r] /\ previous'[r] = applied[r]
      /\ docs'[r] = docs[r] /\ disk'[r] = docs[r] /\ dead'[r] = dead[r]
  BY <1>1, ReplicaStopEffect
<1>3. ChannelFits(r)' /\ NetFits(r)' /\ ScanFits(r)'
  BY <1>2, DroppedFits
<1>4. ReplicaFits(r)'
  BY <1>1, <1>2, ReplicationAssumption DEF ReplicaFits
<1>5. ASSUME ~lost PROVE ContentsFit(r)'
  <2>1. /\ applied[r] = 0 \/ Published(applied[r])
        /\ \A i \in (1 .. applied[r]) \ dead[r] : Lasting(i) => hist[i].id \in docs[r]
    BY <1>5, ContentsFacts
  <2>2. /\ \A i \in (1 .. applied'[r]) \ dead'[r] : Lasting(i) => hist[i].id \in docs'[r]
        /\ \A i \in (1 .. saved'[r]) \ dead'[r] : Lasting(i) => hist[i].id \in disk'[r]
    BY <1>2, <2>1
  <2>3. \A j \in Nat : j <= applied'[r] /\ j \notin dead'[r] => j <= applied[r] /\ j \notin dead[r]
    BY <1>2
  <2>4. /\ applied'[r] = 0 \/ Published(applied'[r])
        /\ docs'[r] \cup disk'[r] \subseteq docs[r] \cup disk[r] /\ dead[r] \subseteq dead'[r]
    BY <1>2, <2>1
  <2> QED
    BY <1>2, <1>5, <2>2, <2>3, <2>4, ContentsOnward
<1> QED
  BY <1>2, <1>3, <1>4, <1>5, ReplicaStepFits

\* A crash takes the replica back to what its position and its disk say.
LEMMA ReplicaCrashInv == ASSUME Inv, NEW r \in Replicas, ReplicaCrash(r) PROVE Inv'
<1>1. Typed /\ ReplicaFits(r) /\ applied[r] \in Nat /\ previous[r] \in Nat
  BY StreamContext DEF Typed, ReplicasTyped
<1>2. /\ Typed' /\ UNCHANGED <<log, shared, lost>> /\ OthersKept(r) /\ Dropped(r)
      /\ saved[r] \in Nat /\ ~walTicked'[r] /\ failCount'[r] = 0
      /\ applied'[r] = saved[r] /\ saved'[r] = saved[r] /\ previous'[r] = saved[r]
      /\ docs'[r] = disk[r] /\ disk'[r] = disk[r] /\ dead'[r] = dead[r]
  BY <1>1, ReplicaCrashEffect
<1>3. ChannelFits(r)' /\ NetFits(r)' /\ ScanFits(r)'
  BY <1>2, DroppedFits
<1>4. ReplicaFits(r)'
  BY <1>1, <1>2, ReplicationAssumption DEF ReplicaFits
<1>5. ASSUME ~lost PROVE ContentsFit(r)'
  <2>1. /\ saved[r] \in {0, NoPosition} \/ Published(saved[r])
        /\ saved[r] <= applied[r]
        /\ \A i \in (1 .. saved[r]) \ dead[r] : Lasting(i) => hist[i].id \in disk[r]
    BY <1>1, <1>2, <1>5, ContentsFacts
  <2>2. /\ \A i \in (1 .. applied'[r]) \ dead'[r] : Lasting(i) => hist[i].id \in docs'[r]
        /\ \A i \in (1 .. saved'[r]) \ dead'[r] : Lasting(i) => hist[i].id \in disk'[r]
    BY <1>2, <2>1
  <2>3. \A j \in Nat : j <= applied'[r] /\ j \notin dead'[r] => j <= applied[r] /\ j \notin dead[r]
    BY <1>1, <1>2, <2>1
  <2>4. /\ applied'[r] = 0 \/ Published(applied'[r])
        /\ docs'[r] \cup disk'[r] \subseteq docs[r] \cup disk[r] /\ dead[r] \subseteq dead'[r]
    BY <1>2, <2>1 DEF NoPosition
  <2> QED
    BY <1>2, <1>5, <2>2, <2>3, <2>4, ContentsOnward
<1> QED
  BY <1>2, <1>3, <1>4, <1>5, ReplicaStepFits

LEMMA InitInv == Init => Inv
<1> SUFFICES ASSUME Init PROVE Inv
  OBVIOUS
<1>1. LastSeq = 0 /\ hist = <<>> /\ flushed = 0 /\ synced = 0 /\ head = 0 /\ appending = "none"
  BY DEF Init, LastSeq
<1>2. Typed
  BY InitTyped
<1>3. LogFits
  BY <1>1, ReplicationAssumption DEF LogFits
<1>4. RingFits
  BY DEF Init, RingFits, SlotFits, NoEntry
<1>5. ASSUME NEW r \in Replicas
      PROVE  ChannelFits(r) /\ NetFits(r) /\ ScanFits(r) /\ ReplicaFits(r) /\ ContentsFit(r)
  <2>1. /\ stream[r] = Idle /\ channel[r] = <<>> /\ net[r] = <<>> /\ applied[r] = 0 /\ saved[r] = NoPosition
        /\ previous[r] = 0 /\ ~walTicked[r] /\ docs[r] = {} /\ disk[r] = {} /\ failCount[r] = 0
    BY DEF Init
  <2>2. stream[r].phase = "off" /\ stream[r].todo = {}
    BY <2>1, IdleTyped
  <2>3. ChannelFits(r)
    BY <2>1, ReplicationAssumption DEF ChannelFits
  <2>4. NetFits(r)
    BY <2>1, <2>2, ReplicationAssumption DEF NetFits, Registered
  <2>5. ScanFits(r)
    BY <2>2 DEF ScanFits
  <2>6. ReplicaFits(r)
    BY <2>1, ReplicationAssumption DEF ReplicaFits, NoPosition
  <2>7. ContentsFit(r)
    BY <2>1 DEF ContentsFit, Covers, NoPosition
  <2> QED
    BY <2>3, <2>4, <2>5, <2>6, <2>7
<1> QED
  BY <1>2, <1>3, <1>4, <1>5 DEF Inv

-----------------------------------------------------------------------------
(* The theorems.                                                           *)

LEMMA StutterInv == ASSUME Inv, UNCHANGED vars PROVE Inv'
<1>1. UNCHANGED <<streams, replica, lost>> /\ UNCHANGED <<log, shared>> /\ Typed /\ LogFits /\ RingFits
  BY DEF vars, history, Inv
<1>2. Typed'
  BY <1>1 DEF vars, log, shared, streams, replica, history, Typed, LogTyped, StreamsTyped, ReplicasTyped
<1>3. Grown /\ LogFits' /\ LogKept
  BY <1>1, <1>2, StillGrows, StillKept
<1>4. RingFits'
  BY <1>1, <1>3, RingFitsKept
<1> QED
  BY <1>1, <1>2, <1>3, <1>4, LogStepFits

LEMMA NextInv == ASSUME Inv, [Next]_vars PROVE Inv'
<1>1. CASE PrimaryStep
  BY <1>1, WriteInv, ResetInv, AppendRingInv, AppendChannelsInv, SyncInv, PrimaryStopInv, PrimaryCrashInv
     DEF PrimaryStep
<1>2. ASSUME NEW r \in Replicas, StreamStep(r) PROVE Inv'
  BY <1>2, ConnectInv, ReadLastSeqInv, ListWALInv, ReadWALInv, SendWALInv, BeginRingInv, SendRingInv,
     BeginLiveInv, SendLiveInv DEF StreamStep
<1>3. ASSUME NEW r \in Replicas, ReplicaStep(r) PROVE Inv'
  BY <1>3, DropInv, ApplyInv, FailApplyInv, DeadLetterInv DEF ReplicaStep
<1>4. ASSUME NEW r \in Replicas,
             Break(r) \/ FlushReplica(r) \/ PersistTick(r) \/ ReplicaStop(r) \/ ReplicaCrash(r)
      PROVE  Inv'
  BY <1>4, DropInv, FlushReplicaInv, PersistTickInv, ReplicaStopInv, ReplicaCrashInv
<1>5. CASE UNCHANGED vars
  BY <1>5, StutterInv
<1> QED
  BY <1>1, <1>2, <1>3, <1>4, <1>5 DEF Next

\* The inductive invariant holds in every reachable state.
THEOREM Invariance == Spec => []Inv
<1>1. Init => Inv
  BY InitInv
<1>2. Inv /\ [Next]_vars => Inv'
  BY NextInv
<1> QED
  BY <1>1, <1>2, PTL DEF Spec

\* Numbers and queues stay in range (ring.go, primary.go, replica.go): the channels
\* and the streams never hold more than they may, for any size.
THEOREM TypeCorrect == Spec => []TypeOK
<1>1. ASSUME Inv PROVE TypeOK
  <2>1. /\ Typed /\ LogFits /\ LastSeq \in Nat /\ synced \in Nat /\ flushed \in Nat /\ head \in Nat
    BY <1>1 DEF Inv, Typed, LogTyped, LastSeq
  <2>2. hist \in Seq([op : {"write", "reset"}, id : 0 .. MaxWrites])
    BY <2>1 DEF Typed, LogTyped, Record
  <2>3. flushed \in 0 .. synced /\ synced \in 0 .. LastSeq /\ appending \in {"none", "ring", "channels"}
    BY <2>1 DEF LogFits, Typed, LogTyped
  <2>4. head \in 0 .. LastSeq + 1
    BY <2>1, <2>3 DEF LogFits
  <2>5. ASSUME NEW r \in Replicas
        PROVE  /\ Len(channel[r]) <= ChanSize /\ Len(net[r]) <= Window + 1
               /\ applied[r] \in 0 .. MaxSeq /\ saved[r] \in -1 .. MaxSeq
               /\ failCount[r] \in 0 .. MaxAttempts - 1
    <3>1. ChannelFits(r) /\ NetFits(r) /\ ReplicaFits(r)
      BY <1>1 DEF Inv
    <3>2. /\ applied[r] \in Nat /\ previous[r] \in Nat /\ saved[r] \in Nat \cup {NoPosition}
          /\ failCount[r] \in Nat
      BY <2>1 DEF Typed, ReplicasTyped
    <3>3. applied[r] \in 0 .. MaxSeq /\ saved[r] \in -1 .. MaxSeq
      BY <3>1, <3>2, ReplicationAssumption DEF ReplicaFits, NoPosition
    <3>4. failCount[r] \in 0 .. MaxAttempts - 1
      BY <3>1, <3>2, ReplicationAssumption DEF ReplicaFits
    <3> QED
      BY <3>1, <3>3, <3>4 DEF ChannelFits, NetFits
  <2> QED
    BY <2>2, <2>3, <2>4, <2>5 DEF TypeOK
<1> QED
  BY <1>1, Invariance, PTL

\* Streams have no holes and no repetitions, whatever phase sent a message
\* (primary.go:160-243), so the checks of the replica (replica.go:316, 323) never act.
THEOREM StreamsAreContiguous == Spec => []StreamIsContiguous
<1>1. ASSUME Inv PROVE StreamIsContiguous
  BY <1>1 DEF Inv, NetFits, MessageFits, StreamIsContiguous
<1> QED
  BY <1>1, Invariance, PTL

\* A replica that has caught up has the primary's contents but for its dead letters,
\* whatever crashed, broke or was applied twice before (replica.go:289-356).
THEOREM CaughtUpReplicasAreEqual == Spec => []CaughtUpIsEqual
<1>1. ASSUME Inv PROVE CaughtUpIsEqual
  <2> SUFFICES ASSUME NEW r \in Replicas, applied[r] = LastSeq, ~lost
               PROVE  /\ Contents(LastSeq, dead[r], {}) \subseteq docs[r]
                      /\ docs[r] \subseteq Contents(LastSeq, {}, dead[r])
    BY DEF CaughtUpIsEqual
  <2>1. Typed /\ ContentsFit(r) /\ LastSeq \in Nat
    BY <1>1 DEF Inv, Typed, LogTyped, LastSeq
  <2>2. ASSUME NEW x \in Contents(LastSeq, dead[r], {}) PROVE x \in docs[r]
    <3>1. PICK i \in (1 .. LastSeq) \ dead[r] :
             /\ x = hist[i].id /\ hist[i].op = "write"
             /\ \A j \in (i + 1 .. LastSeq) \ {} : hist[j].op # "reset"
      BY <2>2 DEF Contents
    <3>2. Lasting(i)
      BY <3>1 DEF Lasting
    <3> QED
      BY <2>1, <3>1, <3>2 DEF ContentsFit, Covers
  <2>3. ASSUME NEW x \in docs[r] PROVE x \in Contents(LastSeq, {}, dead[r])
    <3>1. PICK i \in 1 .. LastSeq : hist[i].id = x /\ Origin(i, r)
      BY <2>1, <2>3 DEF ContentsFit
    <3> QED
      BY <3>1 DEF Origin, Contents
  <2> QED
    BY <2>2, <2>3
<1> QED
  BY <1>1, Invariance, PTL

\* What the saved position covers is durable, so a crash repeats entries and never
\* skips one (replica.go:26-29, persistLoop).
THEOREM SavedPositionsAreDurable == Spec => []PositionIsDurable
<1>1. ASSUME Inv PROVE PositionIsDurable
  <2> SUFFICES ASSUME NEW r \in Replicas, saved[r] # NoPosition, ~lost,
                      \A n \in saved[r] + 1 .. LastSeq : hist[n].op # "reset"
               PROVE  Contents(saved[r], dead[r], {}) \subseteq disk[r]
    BY DEF PositionIsDurable
  <2>1. Typed /\ ContentsFit(r) /\ LastSeq \in Nat /\ saved[r] \in Nat
    BY <1>1 DEF Inv, Typed, LogTyped, ReplicasTyped, LastSeq
  <2>2. ASSUME NEW x \in Contents(saved[r], dead[r], {}) PROVE x \in disk[r]
    <3>1. PICK i \in (1 .. saved[r]) \ dead[r] :
             /\ x = hist[i].id /\ hist[i].op = "write"
             /\ \A j \in (i + 1 .. saved[r]) \ {} : hist[j].op # "reset"
      BY <2>2 DEF Contents
    <3>2. \A j \in i + 1 .. LastSeq : j \in i + 1 .. saved[r] \/ j \in saved[r] + 1 .. LastSeq
      BY <2>1, <3>1
    <3>3. Lasting(i)
      BY <3>1, <3>2 DEF Lasting
    <3> QED
      BY <2>1, <3>1, <3>3 DEF ContentsFit, Covers
  <2> QED
    BY <2>2
<1> QED
  BY <1>1, Invariance, PTL

-----------------------------------------------------------------------------
(* When the primary gives up on a replica.                                 *)

Ends(r) == stream[r].phase # "ended" /\ stream'[r].phase = "ended"

\* The step before left the next entry neither in the log file nor in the ring.
Unavailable(r) == \/ stream[r].lastSent + 1 \notin InWAL
                  \/ ring[(stream[r].lastSent + 1) % RingSize].seq # stream[r].lastSent + 1

LEMMA RefusedLast ==
    ASSUME Typed, Typed', NEW r \in Replicas, NEW code, Refused(r, code)
    PROVE  Last(net'[r]).status = code
BY DEF Refused, Pushed, Last, Typed, StreamsTyped

\* A stream ends when send refuses an entry, or at the start of the last phase.
LEMMA EndOfStream ==
    ASSUME Inv, Next, NEW r \in Replicas, Ends(r)
    PROVE  SendWAL(r) \/ SendRing(r) \/ BeginLive(r) \/ SendLive(r)
<1>0. Typed
  BY DEF Inv
<1>1. ASSUME stream'[r] = stream[r] PROVE FALSE
  BY <1>1 DEF Ends
<1>2. ASSUME stream'[r] = Idle PROVE FALSE
  BY <1>2, IdleTyped DEF Ends
<1>3. CASE PrimaryStep
  <2>1. CASE PrimaryStop \/ PrimaryCrash
    BY <1>0, <1>2, <2>1, RestartEffect DEF PrimaryStop, PrimaryCrash
  <2>2. CASE Write \/ Reset \/ AppendRing \/ AppendChannels \/ SyncLog \/ Rotate
    BY <1>1, <2>2 DEF Write, Reset, AppendRing, AppendChannels, SyncLog, Rotate, streams
  <2> QED
    BY <1>3, <2>1, <2>2 DEF PrimaryStep
<1>4. ASSUME NEW q \in Replicas,
             ReplicaStep(q) \/ Break(q) \/ FlushReplica(q) \/ PersistTick(q) \/ ReplicaStop(q) \/ ReplicaCrash(q)
      PROVE  FALSE
  <2>1. CASE ReceiveError(q) \/ Break(q)
    BY <1>0, <1>1, <1>2, <2>1, DropEffect DEF OthersKept, StreamKept, Dropped
  <2>2. CASE FailApply(q)
    BY <1>0, <1>1, <1>2, <2>2, FailApplyEffect DEF OthersKept, StreamKept, Dropped
  <2>3. CASE Apply(q)
    <3>1. net[q] # <<>> /\ Message(q).status = "ok"
      BY <2>3 DEF Apply, HasEntry
    <3>2. InOrder(q)
      BY <1>0, <3>1, HeadMessage, NextEntry
    <3> QED
      BY <1>0, <1>1, <2>3, <3>2, ApplyEffect DEF OthersKept, StreamKept, Advanced
  <2>4. CASE DeadLetter(q)
    BY <1>0, <1>1, <2>4, DeadLetterEffect DEF OthersKept, StreamKept, Advanced
  <2>5. CASE FlushReplica(q) \/ PersistTick(q)
    BY <1>1, <2>5 DEF FlushReplica, PersistTick, streams
  <2>6. CASE ReplicaStop(q)
    BY <1>0, <1>1, <1>2, <2>6, ReplicaStopEffect DEF OthersKept, StreamKept, Dropped
  <2>7. CASE ReplicaCrash(q)
    BY <1>0, <1>1, <1>2, <2>7, ReplicaCrashEffect DEF OthersKept, StreamKept, Dropped
  <2> QED
    BY <1>4, <2>1, <2>2, <2>3, <2>4, <2>5, <2>6, <2>7 DEF ReplicaStep
<1>5. ASSUME NEW q \in Replicas, StreamStep(q), q # r PROVE FALSE
  <2>1. stream[q].todo \subseteq 1 .. LastSeq
    BY StreamContext DEF ScanFits, LogFits
  <2>2. CASE Connect(q) \/ ReadLastSeq(q) \/ ListWAL(q) \/ ReadWAL(q) \/ BeginRing(q)
    <3>1. \A p \in Replicas \ {q} : stream'[p] = stream[p]
      BY <1>0, <2>2, ConnectEffect, ReadLastSeqEffect, ListWALEffect, ReadWALEffect, BeginRingEffect
    <3> QED
      BY <1>1, <1>5, <3>1
  <2>3. CASE SendWAL(q) \/ SendRing(q) \/ BeginLive(q) \/ SendLive(q)
    <3>1. CASE SendWAL(q)
      BY <1>0, <1>1, <1>5, <2>1, <3>1, SendWALEffect
    <3>2. CASE SendRing(q)
      BY <1>0, <1>1, <1>5, <3>2, SendRingEffect
    <3>3. CASE BeginLive(q)
      BY <1>0, <1>1, <1>5, <3>3, BeginLiveEffect
    <3>4. CASE SendLive(q)
      BY <1>0, <1>1, <1>5, <3>4, SendLiveEffect
    <3> QED
      BY <2>3, <3>1, <3>2, <3>3, <3>4
  <2> QED
    BY <1>5, <2>2, <2>3 DEF StreamStep
<1>6. ASSUME Connect(r) \/ ReadLastSeq(r) \/ ListWAL(r) \/ ReadWAL(r) \/ BeginRing(r) PROVE FALSE
  <2>1. stream[r] \in Streams
    BY StreamContext
  <2>2. stream'[r].phase \in {"lastSeq", "list", "read", "wal", "ring"}
    BY <1>0, <1>6, <2>1, ConnectEffect, ReadLastSeqEffect, ListWALEffect, ReadWALEffect, BeginRingEffect
       DEF Streams
  <2> QED
    BY <2>2 DEF Ends
<1> QED
  BY <1>3, <1>4, <1>5, <1>6 DEF Next, StreamStep

\* Every way to give up: a hole in the log file, a hole in the ring, and a position
\* that both phases did not bring to the start.
LEMMA GivesUp ==
    ASSUME Inv, Inv', Next, NEW r \in Replicas, Ends(r), Last(net'[r]).status = "FailedPrecondition"
    PROVE  Unavailable(r)
<1>1. /\ Typed /\ LogFits /\ ScanFits(r) /\ NetFits(r) /\ synced \in Nat /\ LastSeq \in Nat
      /\ stream[r].lastSent \in Nat /\ stream[r].lastAtStart \in Nat /\ stream[r].next \in Nat
      /\ stream[r].todo \subseteq Nat /\ Typed'
  BY StreamContext DEF Inv
<1> DEFINE n == stream[r].lastSent + 1
<1>2. CASE SendWAL(r)
  <2>1. stream[r].todo \subseteq 1 .. LastSeq
    BY <1>1 DEF ScanFits, LogFits
  <2>2. PICK m \in stream[r].todo :
           /\ \A k \in stream[r].todo : m <= k
           /\ \/ m > stream[r].lastSent + 1
              \/ Passed(r, Entry(m)) \/ Skipped(r, Entry(m))
    BY <1>1, <1>2, <2>1, SendWALEffect
  <2>3. m > n /\ stream[r].phase = "wal"
    BY <1>1, <1>2, <2>1, <2>2, SendWALEffect DEF Passed, Skipped, Ends
  <2>4. n \in stream[r].todo => FALSE
    BY <1>1, <2>2, <2>3
  <2>5. n \notin InWAL
    BY <1>1, <2>2, <2>3, <2>4 DEF ScanFits
  <2> QED
    BY <2>5 DEF Unavailable
<1>3. CASE SendRing(r)
  <2> DEFINE e == ring[stream[r].next % RingSize]
  <2>1. /\ stream[r].phase = "ring"
        /\ \/ e.seq = stream[r].next /\ e.seq > n
           \/ Passed(r, e) \/ Skipped(r, e) \/ stream'[r].phase = "ring"
    BY <1>1, <1>3, SendRingEffect
  <2>2. stream[r].next > n
    BY <2>1 DEF Ends, Passed, Skipped
  <2>3. n \in stream[r].lastSent + 1 .. stream[r].next - 1
    BY <1>1, <2>2
  <2> HIDE DEF n
  <2>4. ring[n % RingSize].seq # n
    BY <1>1, <2>1, <2>3 DEF ScanFits
  <2> QED
    BY <2>4 DEF Unavailable, n
<1>4. CASE BeginLive(r)
  <2>1. stream[r].phase = "ring" /\ stream[r].lastSent < stream[r].lastAtStart
    BY <1>1, <1>4, BeginLiveEffect DEF Ends
  <2>2. n \notin InWAL
    BY <1>1, <2>1 DEF ScanFits
  <2> QED
    BY <2>2 DEF Unavailable
<1>5. CASE SendLive(r)
  <2>1. Refused(r, "Unavailable")
    BY <1>1, <1>5, SendLiveEffect DEF Ends, Passed, Skipped
  <2>2. Last(net'[r]).status = "Unavailable"
    BY <1>1, <2>1, RefusedLast
  <2> QED
    BY <2>2
<1> QED
  BY <1>2, <1>3, <1>4, <1>5, EndOfStream

\* The primary tells a replica to re-seed only when it could not have sent it the
\* next entry (primary.go:171, 219).
THEOREM ReseedsAreNeeded == Spec => ReseedOnlyWhenFlushed
<1>1. ASSUME Inv, Inv', [Next]_vars, NEW r \in Replicas,
             stream[r].phase # "ended", stream'[r].phase = "ended",
             Last(net'[r]).status = "FailedPrecondition"
      PROVE  Unavailable(r)
  <2>1. CASE Next
    BY <1>1, <2>1, GivesUp DEF Ends
  <2>2. CASE UNCHANGED vars
    BY <1>1, <2>2 DEF vars, streams
  <2> QED
    BY <1>1, <2>1, <2>2
<1>2. Inv /\ Inv' /\ [Next]_vars =>
        [\A r \in Replicas :
            (stream[r].phase # "ended" /\ stream'[r].phase = "ended"
             /\ Last(net'[r]).status = "FailedPrecondition")
            => stream[r].lastSent + 1 \notin InWAL
               \/ ring[(stream[r].lastSent + 1) % RingSize].seq # stream[r].lastSent + 1]_vars
  BY <1>1 DEF Unavailable
<1> QED
  BY <1>2, Invariance, PTL DEF Spec, ReseedOnlyWhenFlushed

=============================================================================
