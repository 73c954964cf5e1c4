------------------------------ MODULE IntCodec ------------------------------
(***************************************************************************)
(* The integer codecs of the posting lists (codec/varint.go, blockpack.go  *)
(* and blockpack_nocgo.go): LEB128 for the tail of a list, bit packing at  *)
(* the width of the largest value for a full block.  A byte has ByteBits   *)
(* bits: with 8 these are the layouts of the code, with 4 every layout     *)
(* appears at widths TLC's integers hold: below a byte, a byte, across     *)
(* the boundary of two machine words, whole bytes, and the generic loop.   *)
(* A machine word is ByteBits bytes, as 8 bytes are a uint64.              *)
(***************************************************************************)
EXTENDS Integers, Sequences, SequencesExt, FiniteSetsExt

CONSTANTS ByteBits, Groups

ASSUME CodecAssumption == ByteBits \in {4, 8} /\ Groups \in Nat \ {0}

Byte      == 2 ^ ByteBits
BlockSize == Groups * ByteBits
Half      == Byte \div 2
Bytes(n)  == (n + ByteBits - 1) \div ByteBits

RECURSIVE AppendVarint(_, _)
AppendVarint(buf, x) ==
    IF x < Half THEN Append(buf, x)
    ELSE AppendVarint(Append(buf, Half + (x % Half)), x \div Half)

ReadVarint(data, offset) ==
    LET last == Min({i \in offset .. Len(data) : data[i] < Half})
    IN  [value     |-> MapThenSumSet(LAMBDA i : (data[i] % Half) * Half ^ (i - offset),
                                     offset .. last),
         bytesRead |-> last - offset + 1]

-----------------------------------------------------------------------------

RECURSIVE bits32Len(_)
bits32Len(v) == IF v = 0 THEN 0 ELSE 1 + bits32Len(v \div 2)

\* Bits of the bit buffer that fill a byte are moved to dst.
RECURSIVE Drained(_)
Drained(s) ==
    IF s.filled < ByteBits THEN s
    ELSE Drained([dst |-> Append(s.dst, s.buf % Byte), buf |-> s.buf \div Byte,
                  filled |-> s.filled - ByteBits])

packBits32(vals, bits) ==
    LET end == FoldLeft(LAMBDA s, v : Drained([s EXCEPT !.buf    = @ + v * 2 ^ s.filled,
                                                        !.filled = @ + bits]),
                        [dst |-> <<>>, buf |-> 0, filled |-> 0], vals)
    IN  IF end.filled > 0 THEN Append(end.dst, end.buf % Byte) ELSE end.dst

\* The width and the packed block: the bytes PackFOR32 writes.
PackFOR32(vals) ==
    LET bits == bits32Len(Max(ToSet(vals)))
    IN  <<bits>> \o packBits32(vals, bits)

-----------------------------------------------------------------------------
\* The unpacking layouts: the value at position i (from 0) of data.

\* n bytes from position o (from 0), the lowest first.
Word(data, o, n) == MapThenSumSet(LAMBDA k : data[o + k + 1] * Byte ^ k, 0 .. n - 1)

Field(word, shift, bits) == (word \div 2 ^ shift) % 2 ^ bits

\* Widths below a byte: ByteBits values in `bits` bytes.
SmallWidth(data, bits, i) ==
    Field(Word(data, (i \div ByteBits) * bits, bits), (i % ByteBits) * bits, bits)

\* Half a byte: two values in each.
Nibble(data, bits, i) ==
    IF i % 2 = 0 THEN data[i \div 2 + 1] % 2 ^ bits ELSE data[i \div 2 + 1] \div 2 ^ bits

\* Fault: the high bits of the value in both words are shifted one too far.
TwoWordsSpan(data, bits, i) ==
    LET o     == (i \div ByteBits) * bits
        shift == (i % ByteBits) * bits
        word  == ByteBits * ByteBits
        lo    == Word(data, o, ByteBits)
        hi    == Word(data, o + ByteBits, bits - ByteBits)
    IN  IF shift + bits <= word THEN Field(lo, shift, bits)
        ELSE IF shift < word
             THEN (lo \div 2 ^ shift + hi * 2 ^ (word - shift + 1)) % 2 ^ bits
             ELSE Field(hi, shift - word, bits)

\* Widths between a byte and two: a group of ByteBits values is a word and
\* `bits` - ByteBits more bytes, and one value has its bits in both.
TwoWords(data, bits, i) ==
    LET o     == (i \div ByteBits) * bits
        shift == (i % ByteBits) * bits
        word  == ByteBits * ByteBits
        lo    == Word(data, o, ByteBits)
        hi    == Word(data, o + ByteBits, bits - ByteBits)
    IN  IF shift + bits <= word THEN Field(lo, shift, bits)
        ELSE IF shift < word
             THEN (lo \div 2 ^ shift + hi * 2 ^ (word - shift)) % 2 ^ bits
             ELSE Field(hi, shift - word, bits)

\* One, two or three bytes a value.
WholeBytes(data, bits, i) == Word(data, i * (bits \div ByteBits), bits \div ByteBits)

\* Bytes of src are added to the bit buffer until it holds a value.
RECURSIVE Filled(_, _, _)
Filled(s, src, bits) ==
    IF s.filled >= bits THEN s
    ELSE Filled([s EXCEPT !.buf = @ + src[s.si] * 2 ^ s.filled,
                          !.filled = @ + ByteBits, !.si = @ + 1], src, bits)

unpackBits32(src, bits) ==
    FoldLeft(LAMBDA s, i : LET f == Filled(s, src, bits)
                           IN  [out |-> Append(f.out, f.buf % 2 ^ bits), si |-> f.si,
                                buf |-> f.buf \div 2 ^ bits, filled |-> f.filled - bits],
             [out |-> <<>>, si |-> 1, buf |-> 0, filled |-> 0], [i \in 1 .. BlockSize |-> i]).out

\* The values and the number of bytes they take, for a block at the start of src.
UnpackFOR32Into(src) ==
    LET bits == src[1]
        data == Tail(src)
        Each(V(_, _, _)) == [i \in 1 .. BlockSize |-> V(data, bits, i - 1)]
    IN  [out |-> CASE bits = 0 -> [i \in 1 .. BlockSize |-> 0]
                   [] bits = ByteBits \div 2 -> Each(Nibble)
                   [] bits < ByteBits /\ bits \notin {0, ByteBits \div 2} -> Each(SmallWidth)
                   [] bits \in {ByteBits, 2 * ByteBits, 3 * ByteBits} -> Each(WholeBytes)
                   [] bits > ByteBits /\ bits < 2 * ByteBits -> Each(TwoWords)
                   [] OTHER -> unpackBits32(data, bits),
         n   |-> IF bits = 0 THEN 1 ELSE 1 + Bytes(BlockSize * bits)]
=============================================================================
