----------------------------- MODULE Algorithms -----------------------------
(***************************************************************************)
(* The parts of the engine below the shards, each against a definition of  *)
(* what it is for: the codecs of postings and of the log, the query        *)
(* parser, the index builder, the files of segments and their merge, the   *)
(* evaluation of a query, the iterator of a posting list and the           *)
(* membership of a cluster.  A behaviour is about                          *)
(* one of them: one call of a function with a job of Jobs, the calls of    *)
(* queries on one family of posting lists, or a coordinator and its nodes. *)
(***************************************************************************)
EXTENDS LogCodec, QueryParser, SegmentFile, MaxScore, Membership

CONSTANT Jobs   \* function -> calls of it, each [call |-> function, <its arguments>]

VARIABLES
    job,
    out         \* <<what the call returned>>, empty before it did

NoCall  == [call |-> "none"]
algVars == <<postingVars, memberVars, job, out>>

\* Only one part has anything to do.
Init ==
    /\ out = <<>>
    /\ \/ PostingInit /\ lists # <<>> /\ job = NoCall /\ MemberInit /\ mode = "off"
       \/ MemberInit /\ mode # "off" /\ job = NoCall /\ PostingInit /\ lists = <<>>
       \/ (\E call \in DOMAIN Jobs : job \in Jobs[call])
             /\ PostingInit /\ lists = <<>> /\ MemberInit /\ mode = "off"

Returns(call, result) ==
    /\ job.call = call /\ out = <<>>
    /\ out' = <<result>>
    /\ UNCHANGED <<postingVars, memberVars, job>>

\* Values written one after the other and read one after the other.
Varints ==
    LET buf == FoldLeft(AppendVarint, <<>>, job.values)
        Read(r, i) == LET v == ReadVarint(buf, r.at)
                      IN  [values |-> Append(r.values, v.value), at |-> r.at + v.bytesRead]
    IN  FoldLeft(Read, [values |-> <<>>, at |-> 1], [i \in DOMAIN job.values |-> i]).values

\* A block is followed by whatever comes next in the list.
Block == LET data == PackFOR32(job.values)
             read == UnpackFOR32Into(data \o <<Byte - 1>>)
         IN  IF read.n = Len(data) THEN read.out ELSE <<>>

\* A file of entries of which a part was lost or one cell has changed.
LogFile ==
    LET file == WrittenFile(job.entries)
    IN  [i \in 1 .. Min({job.length, Len(file)}) |-> IF i = job.changed.cell THEN job.changed.to ELSE file[i]]

\* A flush writes an index and the last texts of its documents; both are loaded.
Texts(ops) ==
    [d \in {o.doc : o \in ToSet(ops)} |-> ops[Max({i \in DOMAIN ops : ops[i].doc = d})].text]
Loaded(files) == [segment |-> parseSegment(files.file), stored |-> LoadStoredFields(files.fld)]
Flushed(ops, weights) ==
    Loaded([file |-> writeFromIndex(Built(ops, weights)), fld |-> WriteStoredFields(Texts(ops))])

\* The inputs of a merge are flushed and loaded first.
FlushInputs ==
    /\ job.call = "inputs"
    /\ job' = [job EXCEPT !.call = "merge",
                         !.inputs = FoldLeft(LAMBDA done, ops : Append(done, Flushed(ops, job.weights)), <<>>, job.flushes)]
    /\ UNCHANGED <<postingVars, memberVars, out>>

MergedInputs ==
    Loaded(MergeSegments([i \in DOMAIN job.inputs |-> job.inputs[i].segment],
                         [i \in DOMAIN job.inputs |-> job.inputs[i].stored],
                         job.weights # <<>>, job.dead, job.order))

Step ==
    \/ PostingStep /\ UNCHANGED <<memberVars, job, out>>
    \/ MemberStep /\ UNCHANGED <<postingVars, job, out>>
    \/ Returns("varints", Varints)
    \/ Returns("block", Block)
    \/ Returns("log", readBinaryWALRecords(LogFile))
    \/ Returns("query", ParseQuery(job.words))
    \/ Returns("build", Built(job.ops, job.weights))
    \/ Returns("flush", Flushed(job.ops, job.weights))
    \/ FlushInputs
    \/ Returns("merge", MergedInputs)
    \/ Returns("search", fanOutSearch(job.shards, job.failed, job.tokens, job.topK))

Spec == Init /\ [][Step]_algVars /\ MemberFairness

-----------------------------------------------------------------------------

Returned(call) == job.call = call /\ out # <<>>
Result         == out[1]

\* An entry whose lengths and counts fit their prefixes.
Fits(e) ==
    /\ Len(e.id) < Width16
    /\ \A m \in {e.fields, e.meta} : Len(m) < Width8 /\ \A i \in DOMAIN m : Len(m[i][1]) < Width8
    /\ \A i \in DOMAIN e.meta : Len(e.meta[i][2]) < Width16

\* Entry i is in the file as it was written.
Intact(entries, i) ==
    LET start == Len(WrittenFile(SubSeq(entries, 1, i - 1))) + 1
        end   == Len(WrittenFile(SubSeq(entries, 1, i)))
    IN  end <= job.length /\ job.changed.cell \notin start .. end

\* A segment has what its index has; the list of a term can be read from the start
\* and from each block that the skip list names.
HoldsIndex(seg, idx) ==
    /\ seg.terms = idx.terms
    /\ SubSeq(seg.ids, 1, Len(idx.docs)) = idx.docs
    /\ SubSeq(seg.lens, 1, Len(idx.docs)) = idx.lens
    /\ \A ord \in DOMAIN seg.terms :
          LET it == Iterator(seg, ord)
          IN  /\ decodePostings(it.data, it.df) = idx.lists[ord]
              /\ \A b \in DOMAIN it.skip :
                    LET read == (b - 1) * BlockSize
                        rest == SubSeq(idx.lists[ord], read + 1, Len(idx.lists[ord]))
                    IN  /\ PostingsFrom(it.data, it.skip[b].offset, it.skip[b].base, it.df - read) = rest
                        /\ it.skip[b].doc = rest[BlockSize].doc - 1

\* What is encoded is decoded: integers of any length and blocks of any width
\* (codec), segment files with their texts (segment), unless an id is too long for
\* the file of the texts, and every entry of a log file that is still whole, after a
\* damaged entry and before a torn one as well (wal.go).  An entry with a length that
\* its prefix cannot hold is damaged by being written, but damages no other.
ReadBackAsWritten ==
    /\ Returned("varints") \/ Returned("block") => Result = job.values
    /\ Returned("flush") =>
          LET texts == Texts(job.ops)
          IN  /\ HoldsIndex(Result.segment, Built(job.ops, job.weights))
              /\ \A d \in DOMAIN texts :
                    GetText(Result.stored, d) =
                        IF \A id \in DOMAIN texts : Len(id) <= MaxID THEN texts[d] ELSE NotFound
    /\ Returned("log") =>
          LET whole    == SelectSeq([i \in DOMAIN job.entries |-> i],
                                    LAMBDA i : Fits(job.entries[i]) /\ Intact(job.entries, i))
              oversize == {e.seq : e \in {f \in ToSet(job.entries) : ~Fits(f)}}
          IN  SelectSeq(Result, LAMBDA e : e.seq \notin oversize)
                 = [k \in DOMAIN whole |-> job.entries[whole[k]]]

-----------------------------------------------------------------------------
(* Queries. *)

HasTokens(w) == w.kind \notin Operators /\ w.tokens # <<>>

\* A NOT reaches over operators other than OR to the next word.
Negated(ws, i) ==
    /\ ws[i].kind \notin Operators
    /\ \/ ws[i].kind = "-"
       \/ \E j \in 1 .. i - 1 : ws[j].kind = "NOT"
             /\ \A k \in j + 1 .. i - 1 : ws[k].kind \in {"AND", "NOT"}

Positive(ws, i) == HasTokens(ws[i]) /\ ~Negated(ws, i)

\* An AND, or the + of a word that is negated, requires the next word that is not
\* negated, unless an OR or a phrase comes first; an AND also requires the last word before it,
\* unless that was required already.
AfterAnd(ws, i) ==
    \E j \in 1 .. i - 1 : (ws[j].kind = "AND" \/ (ws[j].kind = "+" /\ Negated(ws, j)))
        /\ \A k \in j + 1 .. i - 1 : ws[k].kind \in {"AND", "NOT"} \/ (Negated(ws, k) /\ ws[k].kind # "phrase")
Required(ws, i)  == ws[i].kind = "+" \/ AfterAnd(ws, i)
BeforeAnd(ws, i) ==
    \E j \in i + 1 .. Len(ws) : ws[j].kind = "AND"
        /\ \A k \in i + 1 .. j - 1 :
              ws[k].kind \in {"OR", "NOT"} \/ Negated(ws, k) \/ (ws[k].kind \notin Operators /\ Required(ws, k))

TokensOf(ws, P(_)) == FlattenSeq([i \in DOMAIN ws |-> IF P(i) THEN ws[i].tokens ELSE <<>>])

\* The tokens of negated words, and only they, exclude documents; every other word
\* counts towards the score as often as the query has it; both sides of an AND, words
\* with a + and nothing else must be in a document (ParseQuery of queryparser.go).
QueryReadAsWritten ==
    Returned("query") =>
        LET ws     == PreprocessQuery(job.words)
            q      == Result
            scored == TokensOf(ws, LAMBDA i : Positive(ws, i))
            must   == TokensOf(ws, LAMBDA i : Positive(ws, i) /\ (Required(ws, i) \/ BeforeAnd(ws, i)))
        IN  /\ ToSet(q.Not) = ToSet(TokensOf(ws, LAMBDA i : Negated(ws, i)))
            /\ \A t \in ToSet(scored) \cup ToSet(ScoringTokens(q)) :
                  Count(ScoringTokens(q), t) = Count(scored, t)
            /\ ToSet(q.Must) = ToSet(must)
            /\ ToSet(scored) = ToSet(q.Must) \cup ToSet(q.Should)
            /\ Len(q.Phrases) = Cardinality({i \in DOMAIN ws : Positive(ws, i) /\ ws[i].kind = "phrase"})

-----------------------------------------------------------------------------
(* The index. *)

Versions == {"Add", "AddFields", "PreRegisterDoc"}

\* The calls that the last versions of documents were added with since the builder
\* was reset.
Latest(ops) ==
    LET reset == Max({0} \cup {i \in DOMAIN ops : ops[i].op = "Reset"})
        Version1(i) == i > reset /\ ops[i].op \in Versions
    IN  SelectSeq([i \in DOMAIN ops |-> i], LAMBDA i :
            Version1(i) /\ \A j \in i + 1 .. Len(ops) : Version1(j) => ops[j].doc # ops[i].doc)

DocLength(o) ==
    CASE o.op = "Add"            -> Len(o.tokens)
      [] o.op = "AddFields"      -> Len(FlattenSeq(o.fields))
      [] o.op = "PreRegisterDoc" -> o.len

\* How often a term is in the version a call has added.
Frequency(ops, o, t, weights) ==
    CASE o.op = "Add"            -> Count(o.tokens, t)
      [] o.op = "AddFields"      -> PseudoTF(o.fields, t, weights)
      [] o.op = "PreRegisterDoc" ->
            Max({0} \cup {w.tf : w \in {v \in ToSet(ops) : v.op = "WritePosting" /\ v.term = t
                                                            /\ v.doc = o.doc}})

\* The index holds the last version of each document since the builder was reset,
\* in the order of these versions or of their ids, whatever numbers were given up in
\* between; the list of each term is in the order of the documents, and the terms are
\* in order (builder.go, builder_bm25f.go, radixsort.go).  Two versions added with
\* fields count twice.
BuiltFromLatest(ops, weights, idx) ==
    LET latest  == LET l == Latest(ops)
                       Before(i, j) == Less(ops[i].doc, ops[j].doc)
                   IN  IF weights = <<>> THEN l ELSE SortSeq(l, Before)
        docs    == [k \in DOMAIN latest |-> ops[latest[k]].doc]
        List(t) == SelectSeq([k \in DOMAIN docs |->
                                [doc |-> k, tf |-> Frequency(ops, ops[latest[k]], t, weights)]],
                             LAMBDA p : p.tf > 0)
    IN  /\ idx.docs = docs
        /\ idx.lens = [k \in DOMAIN docs |-> DocLength(ops[latest[k]])]
        /\ weights = <<>> => /\ idx.N = Len(docs)
                             /\ idx.totalTokens = MapThenSumSet(LAMBDA i : DocLength(ops[i]), ToSet(latest))
        /\ \A i \in 1 .. Len(idx.terms) - 1 : Less(idx.terms[i], idx.terms[i + 1])
        /\ \A i \in DOMAIN idx.terms : idx.lists[i] = List(idx.terms[i])
        /\ \A o \in {ops[latest[k]] : k \in DOMAIN latest} :
              /\ o.op = "Add" => ToSet(o.tokens) \subseteq ToSet(idx.terms)
              /\ o.op = "AddFields" =>
                    \A f \in DOMAIN o.fields \cap DOMAIN weights : ToSet(o.fields[f]) \subseteq ToSet(idx.terms)

\* A merged segment is the index of the last versions, whichever input has them, of
\* the documents that were not deleted, in any order, and of their terms only
\* (merge.go).  It has their texts, unless an input before has one, and says of each
\* document which terms it has.  Documents without an id, which stand for those that
\* an input has counted twice, become one.
MergedFromLatest(flushes, weights, dead, seg, stored) ==
    LET ops    == FlattenSeq(flushes)
        latest == {ops[i] : i \in {j \in ToSet(Latest(ops)) : ops[j].doc \notin dead}}
        nobody == IF \E b \in ToSet(flushes) : weights # <<>> /\ Len(Latest(b)) < Len(b) THEN {<<>>} ELSE {}
        ids    == {o.doc : o \in latest} \cup nobody
        terms  == {t \in UNION {ToSet(IF o.op = "Add" THEN o.tokens ELSE FlattenSeq(o.fields)) : o \in latest} :
                      \E o \in latest : Frequency(ops, o, t, weights) > 0}
        Inputs(d) == {i \in DOMAIN flushes : \E o \in ToSet(flushes[i]) : o.doc = d}
    IN  /\ Len(seg.ids) = Cardinality(ids) /\ ToSet(seg.ids) = ids
        /\ ToSet(seg.terms) = terms
        /\ \A o \in latest :
              LET num == CHOOSE i \in DOMAIN seg.ids : seg.ids[i] = o.doc
              IN  /\ seg.lens[num] = DocLength(o)
                  /\ \A ord \in DOMAIN seg.terms :
                        LET n == Frequency(ops, o, seg.terms[ord], weights)
                        IN  {p.tf : p \in {q \in ToSet(PostingsOf(seg, ord)) : q.doc = num}}
                               = IF n = 0 THEN {} ELSE {n}
                  /\ \A t \in terms : HasTerm(seg, t, o.doc) <=> Frequency(ops, o, t, weights) > 0
                  /\ Cardinality(Inputs(o.doc)) = 1 => GetText(stored, o.doc) = o.text
        /\ \A ord \in DOMAIN seg.terms :
              LET list == PostingsOf(seg, ord)
              IN  \A i \in 1 .. Len(list) - 1 : list[i].doc < list[i + 1].doc

\* A term of which all postings were given up has an empty list, on which an
\* iterator seems to stand at the first document.
IndexHoldsLastVersions ==
    /\ Returned("build") => BuiltFromLatest(job.ops, job.weights, Result)
    /\ Returned("flush") =>
          \A i \in ToSet(Latest(job.ops)), t \in ToSet(Result.segment.terms) :
              LET seg   == Result.segment
                  empty == \E ord \in DOMAIN seg.terms : seg.terms[ord] = t /\ PostingsOf(seg, ord) = <<>>
              IN  ~(empty /\ seg.ids[1] = job.ops[i].doc) =>
                    (HasTerm(seg, t, job.ops[i].doc) <=> Frequency(job.ops, job.ops[i], t, job.weights) > 0)
    /\ Returned("merge") => MergedFromLatest(job.flushes, job.weights, job.dead, Result.segment, Result.stored)

-----------------------------------------------------------------------------
(* Searches. *)

\* The search answers with as many documents of the shards that answered as were
\* asked for, or all that match, each with its whole score, and no other document
\* scores higher: neither bounds of terms and blocks nor the threshold nor the
\* division into shards loses one (maxscore.go, fanOutSearch of shardmanager.go).
TopKIsExhaustive ==
    Returned("search") =>
        LET healthy  == DOMAIN job.shards \ job.failed
            Postings(s, t) == ToSet(job.shards[s][t])
            Score(s, d) ==
                MapThenSumSet(LAMBDA i : MapThenSumSet(LAMBDA p : IF p.doc = d THEN p.tf ELSE 0,
                                                       Postings(s, job.tokens[i])),
                              DOMAIN job.tokens)
            Matching(s) == {p.doc : p \in UNION {Postings(s, t) : t \in ToSet(job.tokens)}}
            matching == UNION {{[doc |-> d, score |-> Score(s, d)] : d \in Matching(s)} : s \in healthy}
        IN  /\ Result.docs \subseteq matching
            /\ Cardinality(Result.docs) = Min({job.topK, Cardinality(matching)})
            /\ \A d \in Result.docs, o \in matching \ Result.docs : o.score <= d.score
            /\ job.failed # {} => Result.error \/ Result.degraded
=============================================================================
