---------------------------- MODULE SimpleBuffers ----------------------------
(***************************************************************************)
(* util::buffers::SimpleBuffers: a stream buffer over blocks that are used     *)
(* once, from the first to the last.  Each side is a SimpleIoBuffer: the block   *)
(* it is in and its stretch of it, [beg, cur, end), which is the get or the put   *)
(* area of the stream buffer.  In one block the two split it, the one in front    *)
(* leaving the other what is behind it.  Addresses are naturals, a gap between      *)
(* two blocks; what is stored is where it is stored.                                *)
(***************************************************************************)
EXTENDS Integers, Sequences, SequencesExt

CONSTANTS
    Sizes,          \* the sizes of the blocks
    Behind,         \* the size that is found where a block after the last is looked for
    Swaps           \* commit(0) is called when there is nothing to read, or both positions are set: the reader gets the right side

\* [w, r: the sides, each [iter, beg, cur, end, pos], ok: no assert failed]
VARIABLE simple

Ends == Len(Sizes) + 1
SizeOf(i) == IF i = Ends THEN Behind ELSE Sizes[i]
Base[i \in 1..Ends] == IF i = 1 THEN 1 ELSE Base[i - 1] + Sizes[i - 1] + 1
Other(s) == IF s = "w" THEN "r" ELSE "w"
\* the bytes before a place of a block
Flat(i, off) == Base[i] - i + off
Capacity == Flat(Ends, 0)

get_offset(a) == a.cur - Base[a.iter]
position(a) == a.pos + get_offset(a)
in_avail(b) == position(b.w) - position(b.r)
Same(a, c) == a.iter = c.iter /\ get_offset(a) = get_offset(c)
-----------------------------------------------------------------------------
(* SimpleIoBuffer *)

Area(b, s, beg, cur, end) == [b EXCEPT ![s].beg = beg, ![s].cur = cur, ![s].end = end]
take_full(b, s) == LET i == b[s].iter IN Area(b, s, Base[i], b[s].cur, Base[i] + SizeOf(i))

\* set_offset, in front of the other, behind it or where it is
set_offset(b, s, off) ==
    LET o == Other(s)
        p == Base[b[s].iter]
        c == p + off
        e == p + SizeOf(b[s].iter)
        c1 == b[o].cur
    IN IF b[s].iter # b[o].iter THEN take_full(Area(b, s, p, c, e), o)
       ELSE IF c1 < c THEN Area(Area(b, s, c, c, e), o, p, c1, c)
       ELSE IF c < c1 THEN Area(Area(b, s, p, c, c1), o, c1, c1, e)
       ELSE Area(Area(b, s, p, c, c), o, c, c, e)
moved_to(b, s, i, off) == set_offset([b EXCEPT ![s].iter = i], s, off)

\* the position is what it was, or another that is told
Counted(b, s, pos) == [b EXCEPT ![s].pos = pos - get_offset(b[s])]

\* ByteIteratorT::advance, up to another iterator
RECURSIVE Walked(_, _, _, _)
Walked(b, i, off, to) ==
    IF i = to.i \/ off < SizeOf(i) THEN [i |-> i, off |-> off, ok |-> i = to.i => off <= to.off]
    ELSE Walked(b, i + 1, off - SizeOf(i), to)
advance(b, s, to, n) ==
    LET at == Walked(b, b[s].iter, get_offset(b[s]) + n, to)
    IN IF at.ok THEN moved_to(b, s, at.i, at.off) ELSE [b EXCEPT !.ok = FALSE]
seek_off(b, s, to, n) == Counted(advance(b, s, to, n), s, position(b[s]) + n)
next_buffer(b, s, to) == Counted(advance(b, s, to, 0), s, position(b[s]))

\* one side is put where the other is, and that one to the left of it
assign(b, s) ==
    LET o == Other(s)
        c == Counted(moved_to(b, s, b[o].iter, get_offset(b[o])), s, position(b[o]))
    IN set_offset(c, o, get_offset(c[s]))
reset_side(b, s) == Counted(moved_to(b, s, 1, 0), s, 0)
-----------------------------------------------------------------------------
(* SimpleBuffers *)

Place(a) == [i |-> a.iter, off |-> get_offset(a)]
TheEnd == [i |-> Ends, off |-> 0]

check(b) == [b EXCEPT !.ok = /\ @ /\ position(b.w) >= position(b.r)
                             /\ b.w.iter = b.r.iter => b.r.end = b.w.beg \/ b.w.end = b.r.beg]
commit(b, n) ==
    LET c == check(seek_off(b, "w", TheEnd, n))
    IN [c EXCEPT !.ok = @ /\ position(c.r) = position(b.r) /\ position(c.w) = position(b.w) + n]
consume(b, n) ==
    LET c == check(seek_off(b, "r", Place(b.w), n))
    IN [c EXCEPT !.ok = @ /\ position(c.w) = position(b.w) /\ position(c.r) = position(b.r) + n]
reset(b) == reset_side(reset_side(b, "w"), "r")

\* where nothing is left of the area, it becomes that of now: underflow, or the next: overflow
underflow(b) ==
    IF Same(b.r, b.w) THEN b
    ELSE LET c == next_buffer(b, "r", Place(b.w)) IN IF c.r.cur = c.w.cur THEN c ELSE check(c)
overflow(b) == LET c == next_buffer(b, "w", TheEnd) IN [c EXCEPT !.ok = @ /\ c.r.cur # c.w.cur]

seek_in(b, p) ==
    CASE p > position(b.r) -> seek_off(b, "r", Place(b.w), p - position(b.r))
      [] p < position(b.r) -> LET c == reset_side(b, "r") IN seek_off(c, "r", Place(c.w), p)
      [] OTHER -> b
seek_out(b, p) ==
    CASE p > position(b.w) -> seek_off(b, "w", TheEnd, p - position(b.w))
      [] p < position(b.w) -> LET c == assign(b, "w") IN IF p > position(c.w) THEN seek_off(c, "w", TheEnd, p - position(c.w)) ELSE c
      [] OTHER -> b
seek_both(b, p) == assign(seek_off(reset(b), "w", TheEnd, p), "r")

\* the bytes from one place to another, by ByteBufferIterator
RECURSIVE Given(_, _, _)
Given(i, off, to) ==
    LET upto == IF i = to.i THEN to.off ELSE SizeOf(i)
        bytes == [k \in 1..(upto - off) |-> Base[i] + off + k - 1]
    IN IF i = to.i THEN IF off < to.off THEN bytes ELSE << >> ELSE bytes \o Given(i + 1, 0, to)
data(b) == Given(b.r.iter, get_offset(b.r), Place(b.w))
prepare(b) == Given(b.w.iter, get_offset(b.w), TheEnd)
-----------------------------------------------------------------------------
NoSide == [iter |-> 1, beg |-> 0, cur |-> 0, end |-> 0, pos |-> 0]
SimpleInit == simple = reset([w |-> NoSide, r |-> [NoSide EXCEPT !.iter = Ends], ok |-> TRUE])

Commit == \E n \in 0..(Capacity - position(simple.w)) :
              (n = 0 => Swaps \/ ~Same(simple.r, simple.w)) /\ simple' = commit(simple, n)
Consume == \E n \in 0..in_avail(simple) : simple' = consume(simple, n)
Put == /\ position(simple.w) < Capacity
       /\ LET b == IF simple.w.cur = simple.w.end THEN overflow(simple) ELSE simple IN simple' = [b EXCEPT !.w.cur = @ + 1]
Get == LET b == IF simple.r.cur = simple.r.end THEN underflow(simple) ELSE simple
       IN simple' = IF b.r.cur < b.r.end THEN [b EXCEPT !.r.cur = @ + 1] ELSE b
SeekIn == \E p \in 0..position(simple.w) : simple' = seek_in(check(simple), p)
SeekOut == \E p \in position(simple.r)..Capacity : simple' = seek_out(check(simple), p)
SeekBoth == \E p \in {q \in 0..Capacity : Swaps \/ q = Capacity} : simple' = seek_both(check(simple), p)
Clear == simple' = reset(simple)

SimpleNext == Commit \/ Consume \/ Put \/ Get \/ SeekIn \/ SeekOut \/ SeekBoth \/ Clear
-----------------------------------------------------------------------------
(* Whatever calls were made, the stream buffer is a tape: what may be read is what lies between the  *)
(* two positions and nothing else, by data() as by the get area, no byte may be read and written at    *)
(* once, prepare() gives all the rest, and no assert fails (SimpleIoBuffer.h:127-152).                  *)
SimpleIsATape ==
    /\ simple.ok
    /\ \A s \in {"w", "r"} : LET a == simple[s] IN
        /\ position(a) = Flat(a.iter, get_offset(a))
        /\ Base[a.iter] <= a.beg /\ a.beg <= a.cur /\ a.cur <= a.end /\ a.end <= Base[a.iter] + SizeOf(a.iter)
    /\ LET all == FlattenSeq([i \in 1..Len(Sizes) |-> [k \in 1..Sizes[i] |-> Base[i] + k - 1]])
       IN /\ data(simple) = SubSeq(all, position(simple.r) + 1, position(simple.w))
          /\ prepare(simple) = SubSeq(all, position(simple.w) + 1, Capacity)
          /\ \A x \in simple.r.cur..(simple.r.end - 1) : \E k \in (position(simple.r) + 1)..position(simple.w) : all[k] = x
          /\ \A x \in simple.w.cur..(simple.w.end - 1) : \A k \in (position(simple.r) + 1)..position(simple.w) : all[k] # x
=============================================================================
