----------------------------- MODULE BufferViews -----------------------------
(***************************************************************************)
(* The views of src/buffers over a sequence of memory blocks, some of them   *)
(* empty: SubBuffers (a slice), buffers_copy, BuffersPosition (a cursor that  *)
(* never rests on an empty block) and BuffersCharIterator, the search for a   *)
(* character with it.  A block is the sequence of its bytes.                  *)
(***************************************************************************)
EXTENDS Integers, Sequences, SequencesExt

CONSTANTS
    Chars,      \* the bytes
    MaxBlocks,  \* bound: number of blocks
    MaxBlock    \* bound: bytes in a block

Blocks == BoundedSeq(BoundedSeq(Chars, MaxBlock), MaxBlocks) \ {<<>>}
Text(blocks) == FlattenSeq(blocks)
Fewer(m, n) == IF m < n THEN m ELSE n
\* the bytes of text that start at offset from, n at most
Slice(text, from, n) == SubSeq(text, from + 1, Fewer(from + n, Len(text)))

\* [blocks, chr, pos, reset: reset_postion_, token: the last bytes handed out, from: where]
VARIABLE view
-----------------------------------------------------------------------------
(* SubBuffers: the first buffer is found in the constructor, the rest by      *)
(* increment; a slice ends when nothing is left to give.                      *)

RECURSIVE SubFirst(_, _)
SubFirst(rest, skip) ==     \* the blocks from the one that is cut, and where
    IF rest = <<>> THEN [rest |-> <<>>, cut |-> 0]
    ELSE IF skip = 0 \/ Len(Head(rest)) > skip THEN [rest |-> rest, cut |-> skip]
    ELSE SubFirst(Tail(rest), skip - Len(Head(rest)))

RECURSIVE SubRest(_, _, _)
SubRest(rest, cut, left) ==
    IF rest = <<>> \/ left = 0 THEN <<>>
    ELSE LET buf == Slice(Head(rest), cut, left)
         IN  <<buf>> \o SubRest(Tail(rest), 0, left - Len(buf))

SubBuffers(blocks, beg, len) ==
    LET first == SubFirst(blocks, beg)
    IN  SubRest(first.rest, first.cut, len)

\* a slice of a slice: the second constructor
SubLen(r, beg, len) == IF beg >= r.len THEN 0 ELSE Fewer(len, r.len - beg)
SubOfSub(blocks, r, beg, len) == SubBuffers(blocks, beg + r.beg, SubLen(r, beg, len))
-----------------------------------------------------------------------------
(* buffers_copy: the lengths copied step by step; dst is the sequence of the  *)
(* sizes of its buffers.                                                      *)

RECURSIVE SkipInto(_, _)
SkipInto(rest, off) ==
    IF off = 0 THEN rest
    ELSE IF off < Len(Head(rest)) THEN <<Slice(Head(rest), off, Len(Head(rest)))>> \o Tail(rest)
    ELSE IF Len(rest) = 1 THEN <<>>
    ELSE SkipInto(Tail(rest), off - Len(Head(rest)))

Shorten(rest, n) == <<Slice(Head(rest), n, Len(Head(rest)))>> \o Tail(rest)

RECURSIVE CopyLoop(_, _, _)
CopyLoop(dst, src, size) ==
    LET n == Fewer(size, Fewer(Len(Head(dst)), Len(Head(src))))
        rest == IF n = size THEN <<>>
                ELSE IF n = Len(Head(dst))
                THEN IF Len(dst) = 1 THEN <<>>
                     ELSE IF n = Len(Head(src))
                     THEN IF Len(src) = 1 THEN <<>> ELSE CopyLoop(Tail(dst), Tail(src), size - n)
                     ELSE CopyLoop(Tail(dst), Shorten(src, n), size - n)
                ELSE IF Len(src) = 1 THEN <<>>
                ELSE CopyLoop(Shorten(dst, n), Tail(src), size - n)
    IN  Slice(Head(src), 0, n) \o rest

BuffersCopy(dst, src, size, dstOff, srcOff) ==
    IF size = 0 \/ dst = <<>> \/ src = <<>> THEN <<>>
    ELSE LET d == SkipInto(dst, dstOff)
             s == SkipInto(src, srcOff)
         IN  IF d = <<>> \/ s = <<>> THEN <<>> ELSE CopyLoop(d, s, size)
-----------------------------------------------------------------------------
(* BuffersPosition [it, off, size, skipped, end]: block it from offset off,   *)
(* size bytes of it to come.  A limit is such a position; the end of all is    *)
(* one behind the last block.                                                  *)

EndOf(blocks) == [it |-> Len(blocks) + 1, off |-> 0, size |-> 0, skipped |-> 0, end |-> TRUE]

RECURSIVE NextBuffer(_, _, _)
NextBuffer(blocks, p, limit) ==
    IF p.it = limit.it THEN [p EXCEPT !.off = @ + p.size, !.size = 0, !.end = TRUE]
    ELSE IF p.it + 1 = limit.it
    THEN [p EXCEPT !.it = limit.it, !.off = 0, !.size = limit.off, !.end = limit.off = 0]
    ELSE LET q == [p EXCEPT !.it = @ + 1, !.off = 0, !.size = Len(blocks[p.it + 1])]
         IN  IF q.size > 0 THEN q ELSE NextBuffer(blocks, q, limit)

FirstPosition(blocks) ==
    LET p == [it |-> 1, off |-> 0, size |-> Len(blocks[1]), skipped |-> 0, end |-> FALSE]
    IN  IF p.size = 0 THEN NextBuffer(blocks, p, EndOf(blocks)) ELSE p

\* set_end: a position in the block of its limit sees only what is before it
LimitedTo(p, limit) ==
    IF p.end \/ p.it # limit.it THEN p
    ELSE [p EXCEPT !.size = IF limit.off > p.off THEN limit.off - p.off ELSE 0,
                   !.end = limit.off <= p.off]

IncrementByte(blocks, p, limit) ==
    LET q == [p EXCEPT !.off = @ + 1, !.size = @ - 1, !.skipped = @ + 1]
    IN  IF q.size = 0 THEN NextBuffer(blocks, q, limit) ELSE q

\* mutant: the rest of a block is not counted
IncrementBuffer_Uncounted(blocks, p, limit) == NextBuffer(blocks, p, limit)

IncrementBuffer(blocks, p, limit) ==
    NextBuffer(blocks, [p EXCEPT !.skipped = @ + p.size], limit)

RECURSIVE IncrementBytes(_, _, _, _)
IncrementBytes(blocks, p, limit, n) ==
    IF n = 0 \/ p.size = 0 THEN p
    ELSE IF p.size > n THEN [p EXCEPT !.off = @ + n, !.size = @ - n, !.skipped = @ + n]
    ELSE IncrementBytes(blocks, IncrementBuffer(blocks, p, limit), limit, n - p.size)

\* detail::buffers_char: memchr in each buffer to the end
RECURSIVE BuffersChar(_, _, _)
BuffersChar(blocks, p, chr) ==
    IF p.end THEN p
    ELSE LET buf == SubSeq(blocks[p.it], p.off + 1, p.off + p.size)
         IN  IF chr \in ToSet(buf)
             THEN IncrementBytes(blocks, p, EndOf(blocks), SelectInSeq(buf, LAMBDA c : c = chr) - 1)
             ELSE BuffersChar(blocks, IncrementBuffer(blocks, p, EndOf(blocks)), chr)

\* the bytes a BuffersByteIterator from p to limit goes over
RECURSIVE BytesTo(_, _, _)
BytesTo(blocks, p, limit) ==
    IF p.end THEN <<>>
    ELSE <<blocks[p.it][p.off + 1]>> \o BytesTo(blocks, IncrementByte(blocks, p, limit), limit)

SubBytes(blocks, p, limit) == BytesTo(blocks, LimitedTo(p, limit), limit)
-----------------------------------------------------------------------------
(* buffers_compare and BuffersFindIterator over a text and a pattern that are  *)
(* each in blocks.  Only whether the result is 0 matters; an inner `result'     *)
(* hides the outer one, so a difference in the last stretch compared is lost.   *)

RECURSIVE Compares0(_, _, _)
Compares0(one, two, size) ==
    LET n == Fewer(size, Fewer(Len(Head(one)), Len(Head(two))))
    IN  IF n = size THEN TRUE
        ELSE IF Slice(Head(one), 0, n) # Slice(Head(two), 0, n) THEN FALSE
        ELSE IF n = Len(Head(one))
        THEN IF Len(one) = 1 THEN FALSE
             ELSE IF n = Len(Head(two))
             THEN IF Len(two) = 1 THEN FALSE ELSE Compares0(Tail(one), Tail(two), size - n)
             ELSE Compares0(Tail(one), Shorten(two, n), size - n)
        ELSE IF Len(two) = 1 THEN FALSE ELSE Compares0(Shorten(one, n), Tail(two), size - n)

CompareContinue(blocks, p, find) ==
    Compares0(Shorten(SubSeq(blocks, p.it, Len(blocks)), p.off), find, Len(Text(find)))

RECURSIVE FindFrom(_, _, _)
FindFrom(blocks, p, find) ==
    LET q == BuffersChar(blocks, p, Head(Text(find)))
    IN  IF q.end \/ CompareContinue(blocks, q, find) THEN q
        ELSE FindFrom(blocks, IncrementByte(blocks, q, EndOf(blocks)), find)
BuffersFind(blocks, find) == FindFrom(blocks, FirstPosition(blocks), find)
-----------------------------------------------------------------------------
(* BuffersCharIterator *)

ViewInit == \E blocks \in Blocks, chr \in Chars :
    LET p == BuffersChar(blocks, FirstPosition(blocks), chr)
    IN  view = [blocks |-> blocks, chr |-> chr, pos |-> p, reset |-> FALSE,
                token |-> <<>>, from |-> p.skipped]

Increment(v) ==
    LET p == IF v.reset THEN v.pos ELSE IncrementByte(v.blocks, v.pos, EndOf(v.blocks))
    IN  [v EXCEPT !.pos = BuffersChar(v.blocks, p, v.chr), !.reset = FALSE]

\* next_bytes: what lies between this place and the next
NextBytes ==
    /\ view.reset \/ ~view.pos.end
    /\ LET v == Increment(view)
       IN  view' = [v EXCEPT !.from = view.pos.skipped,
                             !.token = SubBytes(v.blocks, view.pos, v.pos)]

SkipBytes == \E n \in 1 .. Len(Text(view.blocks)) - view.pos.skipped :
    /\ ~view.pos.end
    /\ LET p == IncrementBytes(view.blocks, view.pos, EndOf(view.blocks), n)
       IN  view' = [view EXCEPT !.pos = p, !.reset = TRUE, !.token = <<>>, !.from = p.skipped]

ViewNext == NextBytes \/ SkipBytes

-----------------------------------------------------------------------------
(* However the bytes are spread over blocks, the search rests on the next     *)
(* place of the character, and next_bytes hands out exactly the bytes up to    *)
(* it (BuffersFind.h:145, BuffersPosition.h:159).                               *)
SearchGoesOverAll ==
    LET text == Text(view.blocks)
    IN  /\ view.token = SubSeq(text, view.from + 1, view.pos.skipped)
        /\ \A i \in 2 .. Len(view.token) : view.token[i] # view.chr
        /\ view.reset \/ IF view.pos.end THEN view.pos.skipped = Len(text)
                         ELSE text[view.pos.skipped + 1] = view.chr

(* buffers_find never goes past a place where the pattern is; it may stop before *)
(* it (BuffersCompare.h:78, BuffersFind.h:227).                                   *)
Patterns == {<<<<c, d>>>> : c, d \in Chars} \cup {<<<<c>>, <<>>, <<d>>>> : c, d \in Chars}
FindNeverPasses == \A find \in Patterns :
    LET text == Text(view.blocks)
        there == {i \in 1 .. Len(text) - 1 : Slice(text, i - 1, 2) = Text(find)}
    IN  \A i \in there : BuffersFind(view.blocks, find).skipped < i

(* A slice, a slice of a slice, and a copy at any offsets give the bytes that  *)
(* lie there in the text, whatever blocks it is cut into (SubBuffers.h:34,      *)
(* BuffersCopy.h:58).                                                            *)
SlicesAreOfTheText ==
    LET text == Text(view.blocks)
        N == 0 .. Len(text) + 1
        Room(dst) == Len(Text(dst))
    IN  /\ \A beg, len \in N : Text(SubBuffers(view.blocks, beg, len)) = Slice(text, beg, len)
        /\ \A r \in [beg : N, len : N], beg, len \in {0, 1, 3} :
              Text(SubOfSub(view.blocks, r, beg, len)) = Slice(Slice(text, r.beg, r.len), beg, len)
        /\ \A dst \in {<<text>>, Reverse(view.blocks)}, size, dstOff, srcOff \in N :
              BuffersCopy(dst, view.blocks, size, dstOff, srcOff)
                = Slice(text, srcOff, Fewer(size, IF dstOff > Room(dst) THEN 0 ELSE Room(dst) - dstOff))
=============================================================================
