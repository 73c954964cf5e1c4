---------------------------- MODULE IndexBuilder ----------------------------
(***************************************************************************)
(* The builder of the in-memory index (index/builder.go, radixsort.go).    *)
(* Documents and terms get numbers as they come; postings are records of   *)
(* three numbers in a temporary file that is only appended to.  A document *)
(* added again gets a new number and its old slot is marked; Build drops   *)
(* the postings of marked slots, closes the gaps in the numbers, sorts the *)
(* postings by term and document and cuts them into one list per term.     *)
(*                                                                         *)
(* A term is a sequence of letters from 1 on.  A digit of a radix pass has *)
(* Digit values instead of 65536, and RadixMin postings or terms are       *)
(* enough for it instead of 512 and 32.  How a list is encoded is in       *)
(* Postings; scores, the lengths of fields in the weight of a term and     *)
(* failing writes to the file are left out.                                *)
(***************************************************************************)
EXTENDS Integers, Sequences, SequencesExt, FiniteSetsExt

CONSTANTS Digit, RadixMin

ASSUME BuilderAssumption == Digit \in Nat \ {0, 1} /\ RadixMin \in Nat

NewIndexBuilder ==
    [docList |-> <<>>, docLens |-> <<>>, docLive |-> <<>>, termList |-> <<>>,
     postings |-> <<>>, fieldTFs |-> <<>>, N |-> 0, totalTokens |-> 0]

\* docToID: the last slot of the document, 0 if it has none.
Slot(b, doc) == Max({0} \cup {i \in DOMAIN b.docList : b.docList[i] = doc})

\* Fault: the slot of an earlier version stays live.
internDocLive(b, doc, len) ==
    [b EXCEPT !.docList = Append(@, doc), !.docLens = Append(@, len), !.docLive = Append(@, TRUE)]

\* The slot of an earlier version is superseded.
internDoc(b, doc, len) ==
    [b EXCEPT !.docList = Append(@, doc), !.docLens = Append(@, len),
              !.docLive = Append([i \in DOMAIN @ |-> @[i] /\ i # Slot(b, doc)], TRUE)]

internTerm(b, term) ==
    IF term \in ToSet(b.termList) THEN b ELSE [b EXCEPT !.termList = Append(@, term)]

TermID(b, term) == CHOOSE i \in DOMAIN b.termList : b.termList[i] = term

\* One posting at the end of the file.
Post(b, term, slot, tf) ==
    LET c == internTerm(b, term)
    IN  [c EXCEPT !.postings = Append(@, [term |-> TermID(c, term), doc |-> slot, tf |-> tf])]

Count(tokens, t) == Len(SelectSeq(tokens, LAMBDA u : u = t))

PreRegisterDoc(b, doc, len) ==
    LET c == internDoc(b, doc, len)
    IN  [c EXCEPT !.N = @ + 1, !.totalTokens = @ + len]

Add(b, doc, tokens) ==
    LET c        == PreRegisterDoc(b, doc, Len(tokens))
        distinct == FoldLeft(LAMBDA d, t : IF t \in ToSet(d) THEN d ELSE Append(d, t), <<>>, tokens)
    IN  FoldLeft(LAMBDA d, t : Post(d, t, Len(c.docList), Count(tokens, t)), c, distinct)

\* A merge writes term by term, after all documents.  The term of a posting
\* without its document stays interned.
WritePosting(b, term, doc, tf) ==
    IF Slot(b, doc) = 0 THEN internTerm(b, term) ELSE Post(b, term, Slot(b, doc), tf)

\* A document by its fields, a sequence of their tokens.  The earlier version goes,
\* but both have been counted.
AddFields(b, doc, fields) ==
    [b EXCEPT !.fieldTFs    = Append(SelectSeq(@, LAMBDA e : e.doc # doc), [doc |-> doc, fields |-> fields]),
              !.N           = @ + 1,
              !.totalTokens = @ + Len(FlattenSeq(fields))]

-----------------------------------------------------------------------------
(* Sorting. *)

\* A pass moves records into the buckets of one digit and keeps their order.
Pass(s, bucket(_), buckets) ==
    FoldLeft(LAMBDA out, k : out \o SelectSeq(s, LAMBDA x : bucket(x) = k), <<>>, buckets)

Digits == [k \in 1 .. Digit |-> k - 1]

\* Fault: the pass over the high digits of documents is left out.
radixSortPostingsLow(ps) ==
    LET Before(p, q) == p.term < q.term \/ (p.term = q.term /\ p.doc < q.doc)
        p1 == Pass(ps, LAMBDA p : p.doc % Digit, Digits)
        p3 == Pass(p1, LAMBDA p : p.term % Digit, Digits)
    IN  IF Len(ps) < RadixMin THEN SortSeq(ps, Before)
        ELSE Pass(p3, LAMBDA p : p.term \div Digit, Digits)

radixSortPostings(ps) ==
    LET Before(p, q) == p.term < q.term \/ (p.term = q.term /\ p.doc < q.doc)
        p1 == Pass(ps, LAMBDA p : p.doc % Digit, Digits)
        p2 == Pass(p1, LAMBDA p : p.doc \div Digit, Digits)
        p3 == Pass(p2, LAMBDA p : p.term % Digit, Digits)
        p4 == Pass(p3, LAMBDA p : p.term \div Digit, Digits)
    IN  IF Len(ps) < RadixMin THEN SortSeq(ps, Before) ELSE p4

\* The order of strings: a prefix comes first.
Less(s, t) ==
    \E k \in 0 .. Min({Len(s), Len(t)}) :
        /\ SubSeq(s, 1, k) = SubSeq(t, 1, k)
        /\ IF k = Len(s) THEN k < Len(t) ELSE k < Len(t) /\ s[k + 1] < t[k + 1]

SortedStrings(S) ==
    [i \in 1 .. Cardinality(S) |-> CHOOSE s \in S : Cardinality({t \in S : Less(t, s)}) = i - 1]

\* From the last letter to the first; a string that is too short has bucket 0.
radixSortStrings(ss) ==
    LET longest == Max({0} \cup {Len(s) : s \in ToSet(ss)})
        letters == Max({0} \cup UNION {ToSet(s) : s \in ToSet(ss)})
        Letter(s, pos) == IF pos <= Len(s) THEN s[pos] ELSE 0
    IN  IF Len(ss) < RadixMin THEN SortSeq(ss, Less)
        ELSE FoldLeft(LAMBDA t, i : Pass(t, LAMBDA s : Letter(s, longest + 1 - i),
                                         [k \in 1 .. letters + 1 |-> k - 1]),
                      ss, [i \in 1 .. longest |-> i])

-----------------------------------------------------------------------------

\* The live slots before and with each one: a live slot's final number.
FinalID(b, slot) == Cardinality({i \in 1 .. slot : b.docLive[i]})

Kept(b) ==
    LET live == SelectSeq(b.postings, LAMBDA p : b.docLive[p.doc])
    IN  [i \in DOMAIN live |-> [live[i] EXCEPT !.doc = FinalID(b, @)]]

LiveSlots(b) == SelectSeq([i \in DOMAIN b.docList |-> i], LAMBDA i : b.docLive[i])

NoIndex == [terms |-> <<>>, docs |-> <<>>, lens |-> <<>>, N |-> 0, totalTokens |-> 0, lists |-> <<>>]

\* The postings by term and document, cut where the numbers of each term's begin.
ListsOf(b, postings, terms) ==
    LET sorted   == radixSortPostings(postings)
        start(t) == Cardinality({i \in DOMAIN sorted : sorted[i].term < t})
        list(t)  == SubSeq(sorted, start(t) + 1, start(t + 1))
    IN  [i \in DOMAIN terms |->
            LET ps == list(TermID(b, terms[i]))
            IN  [k \in DOMAIN ps |-> [doc |-> ps[k].doc, tf |-> ps[k].tf]]]

\* The builder keeps everything: a snapshot is built without an end.
buildInternal(b) ==
    LET superseded == \E i \in DOMAIN b.docLive : ~b.docLive[i]
        live     == LiveSlots(b)
        terms    == radixSortStrings(b.termList)
    IN  IF b.N = 0 THEN NoIndex
        ELSE [terms       |-> terms,
              docs        |-> [i \in DOMAIN live |-> b.docList[live[i]]],
              lens        |-> [i \in DOMAIN live |-> b.docLens[live[i]]],
              N           |-> IF superseded THEN Len(live) ELSE b.N,
              totalTokens |-> IF superseded THEN MapThenSumSet(LAMBDA i : b.docLens[i], ToSet(live)) ELSE b.totalTokens,
              lists       |-> ListsOf(b, IF superseded THEN Kept(b) ELSE b.postings, terms)]

\* For the merge of segments whose frequencies are weights already: every document
\* was registered once, so no slot is given up.
buildScaledPseudoTF(b) ==
    LET terms == radixSortStrings(b.termList)
    IN  IF b.N = 0 THEN NoIndex
        ELSE [terms |-> terms, docs |-> b.docList, lens |-> b.docLens, N |-> b.N,
              totalTokens |-> b.totalTokens, lists |-> ListsOf(b, b.postings, terms)]

\* What the fields of a document that have a weight say of a term.
PseudoTF(fields, term, weights) ==
    MapThenSumSet(LAMBDA f : weights[f] * Count(fields[f], term), DOMAIN weights \cap DOMAIN fields)

\* Documents are numbered in the order of their ids.  Documents added without
\* fields are not in the index.
BuildBM25F(b, weights) ==
    LET docs   == radixSortStrings([i \in DOMAIN b.fieldTFs |-> b.fieldTFs[i].doc])
        fields == [k \in DOMAIN docs |->
                     (CHOOSE e \in ToSet(b.fieldTFs) : e.doc = docs[k]).fields]
        Occurring == UNION {UNION {ToSet(fs[f]) : f \in DOMAIN weights \cap DOMAIN fs} : fs \in ToSet(fields)}
        terms  == radixSortStrings(SetToSeq(Occurring))
    IN  [terms       |-> terms,
         docs        |-> docs,
         lens        |-> [k \in DOMAIN docs |-> Len(FlattenSeq(fields[k]))],
         N           |-> b.N,
         totalTokens |-> b.totalTokens,
         lists       |-> [i \in DOMAIN terms |->
                            SelectSeq([k \in DOMAIN docs |-> [doc |-> k, tf |-> PseudoTF(fields[k], terms[i], weights)]],
                                      LAMBDA p : p.tf > 0)]]

BuildWithOptions(b, weights, scaled) ==
    IF weights # <<>> /\ b.fieldTFs # <<>> THEN BuildBM25F(b, weights)
    ELSE IF scaled THEN buildScaledPseudoTF(b) ELSE buildInternal(b)

\* The index of a builder after some calls; fields have weights or there are none.
Built(ops, weights) ==
    BuildWithOptions(FoldLeft(LAMBDA b, o :
        CASE o.op = "Add"            -> Add(b, o.doc, o.tokens)
          [] o.op = "AddFields"      -> AddFields(b, o.doc, o.fields)
          [] o.op = "PreRegisterDoc" -> PreRegisterDoc(b, o.doc, o.len)
          [] o.op = "WritePosting"   -> WritePosting(b, o.term, o.doc, o.tf)
          [] o.op = "Reset"          -> NewIndexBuilder,
        NewIndexBuilder, ops), weights, FALSE)
=============================================================================
