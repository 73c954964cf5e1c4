----------------------------- MODULE QueryParser -----------------------------
(***************************************************************************)
(* Queries (queryparser.go and querypreprocess.go): a query is a sequence  *)
(* of words, each with the tokens the analyser makes of it - none for a    *)
(* stop word, several for a word with synonyms - and read from left to     *)
(* right with two pending flags.  A word is [kind, tokens]; the kinds are  *)
(* plain and contracted words, words with a + or a - before them, quoted   *)
(* phrases, and the operators AND, OR and NOT, which have no tokens.       *)
(***************************************************************************)
EXTENDS Integers, Sequences, SequencesExt

Operators == {"AND", "OR", "NOT"}

\* A contraction becomes two plain words, never an operator: "don't" has no NOT.
PreprocessQuery(words) ==
    FlattenSeq([i \in DOMAIN words |->
        IF words[i].kind = "contracted"
        THEN <<[kind |-> "plain", tokens |-> words[i].tokens], [kind |-> "plain", tokens |-> <<>>]>>
        ELSE <<words[i]>>])

EmptyQuery ==
    [Must |-> <<>>, Should |-> <<>>, Not |-> <<>>, Phrases |-> <<>>, counted |-> <<>>,
     nextNot |-> FALSE, nextMust |-> FALSE, last |-> <<>>]

appendUniq(dst, src) ==
    FoldLeft(LAMBDA d, s : IF s \in ToSet(d) THEN d ELSE Append(d, s), dst, src)

Require(q, tokens) ==
    [q EXCEPT !.Must = appendUniq(@, tokens), !.counted = @ \o tokens]

Prefer(q, tokens) ==
    [q EXCEPT !.Should = appendUniq(@, tokens), !.counted = @ \o tokens, !.last = tokens]

Exclude(q, tokens) == [q EXCEPT !.Not = appendUniq(@, tokens)]

\* The flags end with a phrase, whichever it used.  A phrase of stop words only
\* says nothing.
Phrase(q, tokens) ==
    LET added == CASE tokens = <<>>                               -> q
                   [] tokens # <<>> /\ q.nextNot                  -> Exclude(q, tokens)
                   [] tokens # <<>> /\ ~q.nextNot /\ q.nextMust   ->
                         [Require(q, tokens) EXCEPT !.Phrases = Append(@, tokens), !.last = tokens]
                   [] OTHER -> [Prefer(q, tokens) EXCEPT !.Phrases = Append(@, tokens)]
    IN  [added EXCEPT !.nextNot = FALSE, !.nextMust = FALSE]

\* A word uses one flag, NOT before AND.
SingleWord(q, kind, tokens) ==
    LET nextNot  == q.nextNot \/ kind = "-"
        nextMust == q.nextMust \/ kind = "+"
    IN  IF nextNot
        THEN [Exclude(q, tokens) EXCEPT !.nextNot = FALSE, !.nextMust = nextMust]
        ELSE IF nextMust THEN [Require(q, tokens) EXCEPT !.nextMust = FALSE] ELSE Prefer(q, tokens)

\* Fault: only the token at the end of Should is promoted.
AndByPosition(q) ==
    LET promoted == IF q.Should = <<>> THEN <<>> ELSE <<Last(q.Should)>>
    IN  [q EXCEPT !.Should = SelectSeq(@, LAMBDA t : t \notin ToSet(promoted)),
                  !.Must = appendUniq(@, promoted), !.last = <<>>, !.nextMust = TRUE]

\* All tokens of the last optional word move to Must, wherever they stand in Should.
And(q) ==
    LET promoted == SelectSeq(q.last, LAMBDA t : t \in ToSet(q.Should))
    IN  [q EXCEPT !.Should = SelectSeq(@, LAMBDA t : t \notin ToSet(promoted)),
                  !.Must = appendUniq(@, promoted), !.last = <<>>, !.nextMust = TRUE]

ParseQuery(words) ==
    FoldLeft(LAMBDA q, w : CASE w.kind = "AND"    -> And(q)
                             [] w.kind = "OR"     -> [q EXCEPT !.nextMust = FALSE, !.nextNot = FALSE]
                             [] w.kind = "NOT"    -> [q EXCEPT !.nextNot = TRUE]
                             [] w.kind = "phrase" -> Phrase(q, w.tokens)
                             [] OTHER             -> SingleWord(q, w.kind, w.tokens),
             EmptyQuery, PreprocessQuery(words))

AllTokens(q) == appendUniq(appendUniq(<<>>, q.Must), q.Should)

\* Every token once for each time a word that scores has it.
ScoringTokens(q) ==
    FlattenSeq([i \in DOMAIN AllTokens(q) |->
        LET same == SelectSeq(q.counted, LAMBDA t : t = AllTokens(q)[i])
        IN  IF same = <<>> THEN <<AllTokens(q)[i]>> ELSE same])
=============================================================================
