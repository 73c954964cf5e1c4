----------------------------- MODULE SegmentFile -----------------------------
(***************************************************************************)
(* A segment on disk (segment/writer.go, format.go, reader.go): the file   *)
(* that an index is written to, what is loaded from it, and the sidecar    *)
(* with the documents' texts (storedfields.go); and the merge of segments  *)
(* into one (segment/merge.go).                                            *)
(*                                                                         *)
(* A file is a sequence of cells: a number of any width, a term or a       *)
(* letter takes one cell, and a byte of the posting lists, which are       *)
(* encoded as IntCodec encodes them.  Offsets count cells from 0.  The     *)
(* highest frequency stands for the bound of a block or a term.  Files are *)
(* whole: they are renamed into place.  Left out are the second level of   *)
(* the skip list, which is rebuilt when a list is opened, the Bloom filter *)
(* of the terms, and mapping the file to memory.                           *)
(***************************************************************************)
EXTENDS IndexBuilder, IntCodec

CONSTANT MaxID      \* letters of an id in the sidecar: 255

segMagic     == 77
segVersion   == 6
headerSize   == 6
termInfoSize == 4

Cells(data, offset, n) == SubSeq(data, offset + 1, offset + n)
Cell(data, offset)     == data[offset + 1]

-----------------------------------------------------------------------------
(* A posting list: full blocks, then single entries, all as differences.   *)

FullBlocks(list)  == Len(list) \div BlockSize
Number(list, i)   == IF i = 0 THEN 0 ELSE list[i].doc - 1
Difference(list, i) == Number(list, i) - Number(list, i - 1)

PackedBlock(list, b) ==
    LET first == (b - 1) * BlockSize
    IN  PackFOR32([j \in 1 .. BlockSize |-> Difference(list, first + j)])
            \o PackFOR32([j \in 1 .. BlockSize |-> list[first + j].tf])

PackedBlocks(list, n) == FlattenSeq([b \in 1 .. n |-> PackedBlock(list, b)])

RawPostingBytes(list) ==
    LET full == FullBlocks(list) * BlockSize
        Entry(buf, i) == AppendVarint(AppendVarint(buf, Difference(list, i)), list[i].tf)
    IN  FoldLeft(Entry, PackedBlocks(list, FullBlocks(list)),
                 [k \in 1 .. Len(list) - full |-> full + k])

HighestTF(ps) == Max({0} \cup {p.tf : p \in ToSet(ps)})

\* Fault: a block is decoded from its own last document on.
RawSkipBytesEnd(list) ==
    LET Entry(b) == <<Number(list, b * BlockSize), Len(PackedBlocks(list, b - 1)),
                      Number(list, b * BlockSize),
                      HighestTF(SubSeq(list, (b - 1) * BlockSize + 1, b * BlockSize))>>
    IN  IF FullBlocks(list) = 0 THEN <<>>
        ELSE <<FullBlocks(list)>> \o FlattenSeq([b \in 1 .. FullBlocks(list) |-> Entry(b)])

RawSkipBytes(list) ==
    LET Entry(b) == <<Number(list, b * BlockSize), Len(PackedBlocks(list, b - 1)),
                      Number(list, (b - 1) * BlockSize),
                      HighestTF(SubSeq(list, (b - 1) * BlockSize + 1, b * BlockSize))>>
    IN  IF FullBlocks(list) = 0 THEN <<>>
        ELSE <<FullBlocks(list)>> \o FlattenSeq([b \in 1 .. FullBlocks(list) |-> Entry(b)])

\* n postings from an offset on; base is the number of the document before them.
PostingsFrom(data, offset, base, n) ==
    LET Read(r, v)  == [r EXCEPT !.doc = @ + v.doc, !.list = Append(@, [doc |-> r.doc + v.doc + 1, tf |-> v.tf])]
        Unpacked(at)          == UnpackFOR32Into(SubSeq(data, at, Len(data)))
        Entries(r, docs, tfs) ==
            FoldLeft(Read, [r EXCEPT !.at = @ + docs.n + tfs.n],
                     [i \in 1 .. BlockSize |-> [doc |-> docs.out[i], tf |-> tfs.out[i]]])
        AfterDocs(r, docs)    == Entries(r, docs, Unpacked(r.at + docs.n))
        NextBlock(r, b)       == AfterDocs(r, Unpacked(r.at))
        NextEntryOf(r, i) ==
            LET doc == ReadVarint(data, r.at)
                tf  == ReadVarint(data, r.at + doc.bytesRead)
            IN  Read([r EXCEPT !.at = @ + doc.bytesRead + tf.bytesRead],
                     [doc |-> doc.value, tf |-> tf.value])
        blocks == FoldLeft(NextBlock, [at |-> offset + 1, doc |-> base, list |-> <<>>],
                           [b \in 1 .. n \div BlockSize |-> b])
    IN  FoldLeft(NextEntryOf, blocks, [i \in 1 .. n % BlockSize |-> i]).list

decodePostings(data, df) == PostingsFrom(data, 0, 0, df)

-----------------------------------------------------------------------------
(* The file. *)

\* The id and the length of a document by its number; beyond the documents the
\* builder knows, for a count that is too high, both are empty.
DocStringID(idx, i) == IF i \in DOMAIN idx.docs THEN idx.docs[i] ELSE <<>>
DocLen(idx, i)      == IF i \in DOMAIN idx.docs THEN idx.lens[i] ELSE 0

\* Each list after its skip list, and the length of that.
PostingSection(idx) ==
    LET Section(skip, raw) == <<Len(skip)>> \o skip \o raw
    IN  [k \in DOMAIN idx.terms |-> Section(RawSkipBytes(idx.lists[k]), RawPostingBytes(idx.lists[k]))]

TermInfos(idx, sections) ==
    LET Info(k) == <<Len(idx.lists[k]), HighestTF(idx.lists[k]),
                      Len(FlattenSeq(SubSeq(sections, 1, k - 1))), Len(sections[k])>>
    IN  FlattenSeq([k \in DOMAIN idx.terms |-> Info(k)])

writeFromIndex(idx) ==
    LET lens    == <<idx.N>> \o [i \in 1 .. idx.N |-> DocLen(idx, i)]
        ids     == <<idx.N>> \o FlattenSeq([i \in 1 .. idx.N |->
                                  <<Len(DocStringID(idx, i))>> \o DocStringID(idx, i)])
        termOff == headerSize + 1 + Len(idx.terms)
        postOff == termOff + Len(idx.terms) * termInfoSize + Len(lens) + Len(ids)
    IN  <<segMagic, segVersion, idx.N, headerSize, termOff, postOff>>
            \o <<Len(idx.terms)>> \o idx.terms
            \o TermInfos(idx, PostingSection(idx)) \o lens \o ids \o FlattenSeq(PostingSection(idx))

NoSegment == <<>>

parseSegment(data) ==
    LET docCount == Cell(data, 2)
        fstOff   == Cell(data, 3)
        termOff  == Cell(data, 4)
        terms    == Cells(data, fstOff + 1, Cell(data, fstOff))
        Info(i)  == Cells(data, termOff + (i - 1) * termInfoSize, termInfoSize)
        lenOff   == termOff + Len(terms) * termInfoSize
        idOff    == lenOff + 1 + docCount
        ReadID(r, i) == [ids |-> Append(r.ids, Cells(data, r.at + 1, Cell(data, r.at))),
                         at  |-> r.at + 1 + Cell(data, r.at)]
    IN  IF Len(data) < headerSize \/ Cell(data, 0) # segMagic \/ Cell(data, 1) # segVersion
        THEN NoSegment
        ELSE IF Cell(data, lenOff) # docCount \/ Cell(data, idOff) # docCount THEN NoSegment
        ELSE [terms    |-> terms,
              infos    |-> [i \in DOMAIN terms |->
                              [df |-> Info(i)[1], ub |-> Info(i)[2], offset |-> Info(i)[3], len |-> Info(i)[4]]],
              lens     |-> Cells(data, lenOff + 1, docCount),
              ids      |-> FoldLeft(ReadID, [ids |-> <<>>, at |-> idOff + 1], [i \in 1 .. docCount |-> i]).ids,
              postData |-> SubSeq(data, Cell(data, 5) + 1, Len(data))]

-----------------------------------------------------------------------------
(* Reading a segment. *)

\* The skip entries, the bytes and the length of a term's list.
Iterator(seg, ord) ==
    LET info    == seg.infos[ord]
        slice   == Cells(seg.postData, info.offset, info.len)
        skip    == Cells(slice, 1, Cell(slice, 0))
        Entry(b) == Cells(skip, 1 + (b - 1) * 4, 4)
    IN  [skip |-> IF skip = <<>> THEN <<>>
                  ELSE [b \in 1 .. Cell(skip, 0) |->
                          [doc |-> Entry(b)[1], offset |-> Entry(b)[2], base |-> Entry(b)[3],
                           impact |-> Entry(b)[4]]],
         data |-> SubSeq(slice, 2 + Cell(slice, 0), Len(slice)),
         df   |-> info.df]

PostingsOf(seg, ord) == LET it == Iterator(seg, ord) IN decodePostings(it.data, it.df)

\* Where an iterator stands after SkipTo: a list without postings leaves it at the
\* number 0, where it started.
StandsAt(list, num) ==
    LET nums == {p.doc - 1 : p \in ToSet(list)}
        ahead == {n \in nums : n >= num}
    IN  IF nums = {} THEN 0 ELSE IF ahead = {} THEN Max(nums) ELSE Min(ahead)

HasTerm(seg, term, doc) ==
    LET nums == {n \in DOMAIN seg.ids : seg.ids[n] = doc}
    IN  nums # {} /\ \E ord \in DOMAIN seg.terms :
            seg.terms[ord] = term /\ StandsAt(PostingsOf(seg, ord), Max(nums) - 1) = Max(nums) - 1

-----------------------------------------------------------------------------
(* The texts. *)

\* An id that is too long for its prefix leaves no sidecar.
WriteStoredFields(texts) ==
    LET ids      == SortedStrings(DOMAIN texts)
        Before(i) == Len(FlattenSeq([j \in 1 .. i - 1 |-> texts[ids[j]]]))
    IN  IF ids = <<>> \/ \E id \in DOMAIN texts : Len(id) > MaxID THEN <<>>
        ELSE <<Len(ids)>>
                \o FlattenSeq([i \in DOMAIN ids |-> <<Len(ids[i])>> \o ids[i]
                                                       \o <<Before(i), Len(texts[ids[i]])>>])
                \o FlattenSeq([i \in DOMAIN ids |-> texts[ids[i]]])

LoadStoredFields(file) ==
    LET ReadEntry(r, i) ==
            LET n == Cell(file, r.at)
            IN  [index |-> Append(r.index, [id     |-> Cells(file, r.at + 1, n),
                                            offset |-> Cell(file, r.at + 1 + n),
                                            len    |-> Cell(file, r.at + 2 + n)]),
                 at |-> r.at + 3 + n]
        all == FoldLeft(ReadEntry, [index |-> <<>>, at |-> 1], [i \in 1 .. Cell(file, 0) |-> i])
    IN  IF file = <<>> THEN [index |-> <<>>, data |-> <<>>]
        ELSE [index |-> all.index, data |-> SubSeq(file, all.at + 1, Len(file))]

NotFound == "not found"

\* The first entry that does not come before the id, by binary search.
GetText(stored, id) ==
    LET reached == {i \in DOMAIN stored.index : ~Less(stored.index[i].id, id)}
        entry   == stored.index[Min(reached)]
    IN  IF reached = {} \/ entry.id # id THEN NotFound
        ELSE Cells(stored.data, entry.offset, entry.len)

-----------------------------------------------------------------------------
(* The merge. *)

\* Fault: the first segment that has a document wins.
WinnerOldest(segments, doc) == Min({s \in DOMAIN segments : doc \in ToSet(segments[s].ids)})

Winner(segments, doc) == Max({s \in DOMAIN segments : doc \in ToSet(segments[s].ids)})

\* Documents are registered in the order a map is ranged over.
Registered(segments, dead, order) ==
    LET PreRegister(b, doc) ==
            LET seg == segments[Winner(segments, doc)]
                num == Min({i \in DOMAIN seg.ids : seg.ids[i] = doc})
            IN  PreRegisterDoc(b, doc, seg.lens[num])
        docs == UNION {ToSet(seg.ids) : seg \in ToSet(segments)} \ dead
    IN  FoldLeft(PreRegister, NewIndexBuilder, SelectSeq(order, LAMBDA d : d \in docs))

\* Term by term and segment by segment; only the postings of a document's own
\* segment count.
Merged(segments, dead, order) ==
    LET terms == SortedStrings(UNION {ToSet(seg.terms) : seg \in ToSet(segments)})
        Write(b, term, s, p) ==
            LET doc == segments[s].ids[p.doc]
            IN  IF doc \notin dead /\ Winner(segments, doc) = s THEN WritePosting(b, term, doc, p.tf) ELSE b
        OfSegment(b, term, s) ==
            LET ords == {o \in DOMAIN segments[s].terms : segments[s].terms[o] = term}
            IN  IF ords = {} THEN b
                ELSE FoldLeft(LAMBDA c, p : Write(c, term, s, p), b, PostingsOf(segments[s], Min(ords)))
        OfTerm(b, term) ==
            FoldLeft(LAMBDA c, s : OfSegment(c, term, s), b, [s \in DOMAIN segments |-> s])
    IN  FoldLeft(OfTerm, Registered(segments, dead, order), terms)

\* The text of the first sidecar that has one.
MergedTexts(sidecars) ==
    LET IDs(stored) == {e.id : e \in ToSet(stored.index)}
        First(id)   == Min({s \in DOMAIN sidecars : id \in IDs(sidecars[s])})
    IN  [id \in UNION {IDs(stored) : stored \in ToSet(sidecars)} |-> GetText(sidecars[First(id)], id)]

MergeSegments(segments, sidecars, scaled, dead, order) ==
    [file |-> writeFromIndex(BuildWithOptions(Merged(segments, dead, order), <<>>, scaled)),
     fld  |-> WriteStoredFields(MergedTexts(sidecars))]
=============================================================================
