------------------------------ MODULE LogCodec ------------------------------
(***************************************************************************)
(* The bytes of a write-ahead log file (wal.go): an entry is serialised    *)
(* with length-prefixed strings, framed by its length and checksum and     *)
(* appended to the file; recovery reads the file back, skips a record that *)
(* does not check or does not decode, and stops at a torn one.  A file is  *)
(* a sequence of cells: a letter of a string, a length, a checksum or an   *)
(* operation takes one cell each.  A length prefix of 8 or 16 bits holds a *)
(* length modulo Width8 or Width16; 32 bits and the header never overflow. *)
(* Fields are a sequence in the order the map is ranged over.  Compressed  *)
(* records and legacy JSON files are left out.                             *)
(***************************************************************************)
EXTENDS Integers, Sequences, SequencesExt

CONSTANTS Width8, Width16

ASSUME WidthAssumption == Width8 \in Nat \ {0} /\ Width16 \in Nat \ {0}

walOpIndex  == 1
walOpDelete == 2
Wide        == 2 ^ 30      \* 32 bits: longer than any file here

\* A string with a length prefix of the given width.
walAppendStr(s, width) == <<Len(s) % width>> \o s

\* The short string and what follows it, or Bad.
Bad == <<>>
walReadStr(b) ==
    IF b = <<>> \/ Len(b) - 1 < b[1] THEN Bad
    ELSE [s |-> SubSeq(b, 2, 1 + b[1]), rest |-> SubSeq(b, 2 + b[1], Len(b))]

\* A count that holds 8 bits, then the pairs; valueWidth is 32 bits for fields
\* and 16 for metadata.
walAppendMap(m, valueWidth) ==
    FoldLeft(LAMBDA b, kv : b \o walAppendStr(kv[1], Width8) \o walAppendStr(kv[2], valueWidth),
             <<Len(m) % Width8>>, m)

walAppendEntry(e) ==
    <<e.seq, IF e.op = "index" THEN walOpIndex ELSE walOpDelete>>
        \o walAppendStr(e.id, Width16)
        \o (IF e.op = "index"
            THEN walAppendStr(e.text, Wide)
                   \o walAppendMap(e.fields, Wide) \o walAppendMap(e.meta, Width16)
            ELSE <<>>)

\* The pairs of a map and what follows them, or Bad.
walReadMap(b) ==
    LET Pair(r, i) ==
            IF r = Bad THEN Bad
            ELSE LET k == walReadStr(r.rest)
                     v == IF k = Bad THEN Bad ELSE walReadStr(k.rest)
                 IN  IF v = Bad THEN Bad
                     ELSE [m |-> Append(r.m, <<k.s, v.s>>), rest |-> v.rest]
    IN  IF b = <<>> THEN Bad
        ELSE FoldLeft(Pair, [m |-> <<>>, rest |-> Tail(b)], [i \in 1 .. b[1] |-> i])

walDecodeEntry(b) ==
    IF Len(b) < 2 THEN Bad      \* sequence number, time and operation
    ELSE LET id     == walReadStr(SubSeq(b, 3, Len(b)))
             text   == IF id = Bad THEN Bad ELSE walReadStr(id.rest)
             fields == IF text = Bad THEN Bad ELSE walReadMap(text.rest)
             meta   == IF fields = Bad THEN Bad ELSE walReadMap(fields.rest)
         IN  CASE id # Bad /\ b[2] = walOpIndex /\ meta # Bad ->
                    [seq |-> b[1], op |-> "index", id |-> id.s, text |-> text.s,
                     fields |-> fields.m, meta |-> meta.m]
               [] id # Bad /\ b[2] = walOpDelete ->
                    [seq |-> b[1], op |-> "delete", id |-> id.s, text |-> <<>>,
                     fields |-> <<>>, meta |-> <<>>]
               [] OTHER -> Bad

-----------------------------------------------------------------------------
\* The records of a file.  The checksum is a payload's own content: a changed
\* payload never has the checksum of the one that was written.

ChecksumIEEE(payload) == payload

walWriteRecord(file, payload) ==
    file \o <<Len(payload), ChecksumIEEE(payload)>> \o payload

WrittenFile(entries) ==
    FoldLeft(LAMBDA f, e : walWriteRecord(f, walAppendEntry(e)), <<>>, entries)

\* Fault: a record that does not check ends the file.
RECURSIVE readBinaryWALRecordsStop(_)
readBinaryWALRecordsStop(r) ==
    IF Len(r) < 2 \/ Len(r) - 2 < r[1] THEN <<>>
    ELSE LET payload == SubSeq(r, 3, 2 + r[1])
             e       == walDecodeEntry(payload)
         IN  IF ChecksumIEEE(payload) # r[2] \/ e = Bad THEN <<>>
             ELSE <<e>> \o readBinaryWALRecordsStop(SubSeq(r, 3 + r[1], Len(r)))

RECURSIVE readBinaryWALRecords(_)
readBinaryWALRecords(r) ==
    IF Len(r) < 2 \/ Len(r) - 2 < r[1] THEN <<>>       \* end of file or a torn record
    ELSE LET payload == SubSeq(r, 3, 2 + r[1])
             rest    == readBinaryWALRecords(SubSeq(r, 3 + r[1], Len(r)))
             e       == walDecodeEntry(payload)
         IN  IF ChecksumIEEE(payload) # r[2] \/ e = Bad THEN rest ELSE <<e>> \o rest
=============================================================================
