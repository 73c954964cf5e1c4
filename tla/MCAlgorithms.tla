---------------------------- MODULE MCAlgorithms ----------------------------
EXTENDS Algorithms

Sorted(S) == SelectSeq([i \in 1 .. 8 |-> i - 1], LAMBDA d : d \in S)

\* Posting lists.
ListOf(ds, TF(_)) == LET order == Sorted(ds) IN [i \in DOMAIN order |-> [doc |-> order[i], tf |-> TF(order[i])]]
Common  == {{0, 1, 2, 3, 4, 5, 6}, {0, 1, 2, 3, 4}, {0, 2, 3, 4, 6}, {1, 2, 3, 5, 6}, {0, 1, 3, 4, 5, 6},
            {1, 2, 3, 4, 5, 6}, {0, 1, 2, 5, 6}, {2, 3, 4, 5, 6}, {0, 1, 2, 4, 5, 6}}
MCLists == {<<>>} \cup
    {<<ListOf({1, 4}, LAMBDA d : 2), ListOf(ds, LAMBDA d : 1 + ((d * 2) % 3))>> : ds \in Common}

MCAddrs   == <<"a", "b">>
MCReports == {<<>>, <<0>>, <<1, 0>>}

-----------------------------------------------------------------------------
Ints == {0, 1, 7, 8, 9, 63, 64, 65, 511, 512, 4096}
VarintJobs == {[call |-> "varints", values |-> v] : v \in [1 .. 3 -> Ints]}
BlockJobs ==
    {[call |-> "block", values |-> v] :
        v \in UNION {[1 .. BlockSize -> {0, 2 ^ w - 1}] : w \in 0 .. 13}
              \cup UNION {[1 .. BlockSize -> {1, 2 ^ (w - 1)}] : w \in 5 .. 13}}

Entry(seq, op, id, text, fields, meta) ==
    [seq |-> seq, op |-> op, id |-> id, text |-> text, fields |-> fields, meta |-> meta]
Entries1(seq) ==
    {Entry(seq, "index", <<1>>, <<2, 1>>, << <<<<1>>, <<2, 2, 2, 2>>>> >>, << <<<<2>>, <<1>>>> >>),
     Entry(seq, "index", <<1, 2, 1>>, <<>>, <<>>, << <<<<2, 2>>, <<>>>>, <<<<1>>, <<2>>>> >>),
     Entry(seq, "delete", <<2>>, <<>>, <<>>, <<>>),
     Entry(seq, "index", <<1, 1, 1, 1>>, <<2>>, <<>>, <<>>),
     Entry(seq, "index", <<2>>, <<>>, << <<<<1, 1, 1>>, <<2>>>> >>, <<>>),
     Entry(seq, "delete", <<1, 2, 1, 2, 1>>, <<>>, <<>>, <<>>),
     Entry(seq, "index", <<1>>, <<>>, <<>>, [i \in 1 .. 3 |-> <<<<i>>, <<1>>>>])}
RecordAt(es, i) == Len(WrittenFile(SubSeq(es, 1, i - 1))) + 1
Checksums(es)   == {RecordAt(es, i) + 1 : i \in DOMAIN es}
Payload(es)     == UNION {RecordAt(es, i) + 2 .. RecordAt(es, i + 1) - 1 : i \in DOMAIN es}
LogJobs ==
    LET Files   == {<<a, b, c>> : a \in Entries1(1), b \in Entries1(2), c \in Entries1(3)}
        Damaged == {es \in Files : es[3].op = "delete" /\ es[2].meta = <<>>}
        Length(es) == Len(WrittenFile(es))
        Job(es, n, c, v) == [call |-> "log", entries |-> es, length |-> n,
                             changed |-> [cell |-> c, to |-> v]]
    IN  {Job(es, Length(es), 0, 0) : es \in Files}
        \cup UNION {{Job(es, n, 0, 0) : n \in 0 .. Length(es)}
                    \cup {Job(es, Length(es), c, -1) : c \in Payload(es)}
                    \cup {Job(es, Length(es), c, <<>>) : c \in Checksums(es)} : es \in Damaged}

W(kind, tokens) == [kind |-> kind, tokens |-> tokens]
Words ==
    {W("plain", <<"a">>), W("plain", <<"b", "c">>), W("plain", <<>>), W("contracted", <<"c">>),
     W("+", <<"b">>), W("-", <<"a">>), W("phrase", <<"a", "b">>),
     W("AND", <<>>), W("OR", <<>>), W("NOT", <<>>)}
QueryJobs == {[call |-> "query", words |-> w] : w \in UNION {[1 .. n -> Words] : n \in 1 .. 4}}

\* Terms.
A  == <<1>>
B  == <<2>>
AB == <<2, 1>>
C  == <<3>>

AddOps == {[op |-> "Add", doc |-> d, tokens |-> t] :
              d \in {"x", "y", "z"}, t \in {<<<<1>>>>, <<<<2, 1>>, <<1>>>>, <<<<2>>, <<2>>, <<1, 2>>>>}}
BuildJobs ==
    {[call |-> "build", ops |-> o, weights |-> <<>>] : o \in
        UNION {[1 .. n -> AddOps] : n \in 0 .. 3}
        \cup {<<a, b, [op |-> "Reset"], c, d>> : a, b, c, d \in {p \in AddOps : Len(p.tokens) < 3 /\ p.doc # "z"}}
        \cup {[k \in 1 .. 6 |-> IF k <= 2 THEN [op |-> "PreRegisterDoc", doc |-> order[k], len |-> k]
                                ELSE [op |-> "WritePosting", term |-> perm[k - 2][1], doc |-> perm[k - 2][2], tf |-> k]] :
                order \in {<<"x", "y">>, <<"y", "x">>},
                perm \in SetToSeqs({<<<<2>>, "x">>, <<<<1, 1>>, "x">>, <<<<2>>, "y">>, <<<<1, 1>>, "z">>})}}

FieldVersions ==
    {[op |-> "AddFields", doc |-> d, fields |-> f, text |-> <<1>>] :
        d \in {<<1>>, <<2, 1>>, <<2>>}, f \in {<< <<A>> >>, << <<B>>, <<A>> >>, << <<>>, <<B, B>> >>, << <<C>> >>}}
FieldJobs(call, most) ==
    {[call |-> call, ops |-> o, weights |-> w] :
        o \in UNION {[1 .. n -> FieldVersions] : n \in 1 .. most}, w \in {<<3>>, <<3, 1>>}}

Version(d, tokens, text) == [op |-> "Add", doc |-> d, tokens |-> tokens, text |-> text]
PlainVersions ==
    {Version(d, v[1], v[2]) :
        d \in {<<1>>, <<1, 2>>, <<2>>}, v \in {<< <<A>>, <<>> >>, << <<B, A, B>>, <<3, 4>> >>, << <<AB>>, <<5>> >>}}

PlainJobs(call, ops) == {[call |-> call, ops |-> o, weights |-> <<>>] : o \in ops}

\* Two blocks of documents with a term and a tail; document n is written again.
ManyDocs == 2 * BlockSize + 3
Many(n) ==
    LET Tokens(d) == [i \in 1 .. 1 + (d % 3) |-> A] \o (IF d % 2 = 0 THEN <<B>> ELSE <<>>)
    IN  [d \in 1 .. ManyDocs |-> Version(<<d>>, Tokens(d), <<d>>)] \o <<Version(<<n>>, <<C>>, <<9>>)>>

ManyOps == {Many(n) : n \in 1 .. BlockSize + 1}

FlushJobs ==
    PlainJobs("flush", UNION {[1 .. n -> PlainVersions] : n \in 1 .. 3} \cup ManyOps
                       \cup {<<v, Version(<<1, 2, 1>>, <<A>>, <<1>>)>> : v \in PlainVersions})

MergeJobs ==
    LET Job(flushes, dead, order) ==
            [call |-> "inputs", flushes |-> flushes, weights |-> <<>>, dead |-> dead, order |-> order,
             inputs |-> <<>>]
        Fields(j) == [j EXCEPT !.weights = <<3, 1>>]
        ids      == {v.doc : v \in PlainVersions}
        orders   == {<< <<1>>, <<1, 2>>, <<2>> >>, << <<2>>, <<1>>, <<1, 2>> >>}
        some     == {v \in PlainVersions : v.doc # <<2>>}
        shuffled == [d \in 1 .. ManyDocs |-> <<((d * 2) % ManyDocs) + 1>>] \o << <<1, 2>> >>
    IN  {Job(<< <<a, b>>, <<c>> >>, dead, o) : a, c \in some, b \in PlainVersions, dead \in {{}, {<<1>>}}, o \in orders}
        \cup {Job(<< <<a>>, <<b>>, <<c>> >>, {d}, o) : a, b, c \in some, d \in ids, o \in orders}
        \cup {Fields(Job(<< <<a, b>>, <<c>> >>, dead, << <<2>>, <<>>, <<1>>, <<2, 1>> >>)) :
                a, b, c \in FieldVersions, dead \in {{}, {<<2, 1>>}}}
        \cup {Job(<<Many(n), <<v>> >>, {<<3>>}, shuffled) : n \in 2 .. 3, v \in PlainVersions}

Scored(f)       == ListOf({d \in DOMAIN f : f[d] > 0}, LAMBDA d : f[d])
Over(docs, tfs) == {Scored(f) : f \in [docs -> tfs]}
Share(list, r)  == SelectSeq(list, LAMBDA p : p.doc % 2 = r)
SearchJob(shards, failed, tokens, topK) ==
    [call |-> "search", shards |-> shards, failed |-> failed, tokens |-> tokens, topK |-> topK]
SearchJobs ==
    {SearchJob(<< <<a, b>> >>, {}, q, 1) :
        a \in Over(0 .. 4, {0, 1, 3}), b \in Over(0 .. 4, {0, 2}), q \in {<<1, 1, 2>>}}
    \cup {SearchJob(<< <<a, b, c>> >>, {}, <<1, 2, 3>>, k) :
        a \in Over(0 .. 3, {0, 1}), b \in Over(0 .. 3, {0, 2}), c \in Over(0 .. 3, {0, 3}), k \in 1 .. 2}
    \cup {SearchJob(<< <<Share(a, 0), Share(b, 0)>>, <<Share(a, 1), Share(b, 1)>> >>, f, <<1, 2>>, 1) :
        a \in Over(0 .. 4, {0, 1, 2}), b \in {<<>>, Scored([d \in 1 .. 4 |-> 1])}, f \in SUBSET {1, 2}}

MCJobs == [varints |-> VarintJobs, block |-> BlockJobs, log |-> LogJobs, query |-> QueryJobs,
           build |-> BuildJobs \cup FieldJobs("build", 3) \cup PlainJobs("build", ManyOps),
           flush |-> FlushJobs \cup FieldJobs("flush", 2),
           inputs |-> MergeJobs, search |-> SearchJobs]
=============================================================================
