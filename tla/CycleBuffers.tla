----------------------------- MODULE CycleBuffers -----------------------------
(***************************************************************************)
(* util::buffers::CycleBuffers (src/buffers/CycleBuffers.h) over StlBuffer:  *)
(* a queue of bytes in a ring of memory blocks.  Either side is an area      *)
(* [beg, cur, end) of one block, the bytes before beg counted in pos, and    *)
(* the number rem of the block that comes next.  Where both sides are in one *)
(* block they split it, and each step that empties an area takes what the    *)
(* other has left of it.  Addresses are naturals, a gap between two blocks;  *)
(* what is stored is abstracted to where it is stored.                       *)
(***************************************************************************)
EXTENDS Integers, Sequences

CONSTANTS
    Sizes,      \* the sizes of the blocks, in the order of the ring
    MaxPos,     \* bound: positions stay at or below it
    Resets,     \* reset() is called while the two sides count from different positions
    SeeksBack   \* the get and put positions are moved back over several blocks

\* [w, r: the areas of write_ and read_, ok: no assert failed,
\*  origin: the stream position at the start of the first block]
VARIABLE ring

Blocks == 1 .. Len(Sizes)
Base[i \in Blocks] == IF i = 1 THEN 1 ELSE Base[i - 1] + Sizes[i - 1] + 1
After(i) == (i % Len(Sizes)) + 1
Capacity == Base[Len(Sizes)] + Sizes[Len(Sizes)] - Len(Sizes)

Other(s) == IF s = "w" THEN "r" ELSE "w"
Least(m, n) == IF m < n THEN m ELSE n
-----------------------------------------------------------------------------
(* StlBuffer and cycle_buffers_status *)

Size(a) == a.end - a.cur
Offset(a) == a.cur - a.beg
Position(a) == a.pos + Offset(a)
InAvail(b) == Position(b.w) - Position(b.r)
OutAvail(b) == Capacity - InAvail(b)

Area(i, n) == [beg |-> Base[i], cur |-> Base[i], end |-> Base[i] + n,
               pos |-> 0, at_end |-> FALSE, rem |-> After(i)]

\* right.pos += right.first.drop_back()
DropBack(b, s) == [b EXCEPT ![s].pos = @ + Offset(b[s]), ![s].beg = b[s].cur]

\* limit_size: the area ends where the other side stands
LimitSize(a, p) == [a EXCEPT !.end = Least(@, p)]

\* before, with its assertion that the two areas touch
Touch(a, c) == a.beg = c.end \/ c.beg = a.end
Before(a, c) == a.beg < c.beg \/ a.end < c.end

(***************************************************************************)
(* normalize: an empty area of side s is extended up to the other side, or   *)
(* declared at its end, or moved to the next block.                          *)
(***************************************************************************)
NextBlock(b, s) ==
    LET l == b[s]
        next == [Area(l.rem, Sizes[l.rem]) EXCEPT !.pos = Position(l), !.at_end = l.at_end]
        moved == [b EXCEPT ![s] = next]
        r == b[Other(s)]
    IN  IF next.rem = r.rem
        THEN DropBack([moved EXCEPT ![s] = LimitSize(next, r.cur)], Other(s))
        ELSE moved

\* mutant: the other side keeps what is behind it
CatchUp_Keeps(b, s) == [b EXCEPT ![s].end = b[Other(s)].cur]

\* the end of side s goes up to where the other stands, who forgets what is behind
CatchUp(b, s) ==
    DropBack([b EXCEPT ![s].end = b[Other(s)].cur], Other(s))

\* a side leaves the block: what it has passed of it is the other's
LeaveToOther(b, s) ==
    [b EXCEPT ![Other(s)].end = @ + Offset(b[s]), ![Other(s)].at_end = FALSE]

RECURSIVE Normalize(_, _)
Normalize(b, s) ==
    LET l == b[s]
        r == b[Other(s)]
    IN  IF l.at_end \/ Size(l) # 0 THEN b
        ELSE IF l.rem # r.rem THEN Normalize(NextBlock(b, s), s)
        ELSE IF l.cur < r.cur THEN CatchUp(b, s)
        ELSE IF r.cur < l.cur THEN Normalize(NextBlock(LeaveToOther(b, s), s), s)
        ELSE LET c == [b EXCEPT !.ok = @ /\ Touch(l, r)]
             IN  IF Before(l, r) THEN [c EXCEPT ![s].at_end = TRUE]
                 ELSE Normalize(NextBlock(c, s), s)

\* shift: side s moves on by n bytes, or as far as it can
RECURSIVE Advance(_, _, _)
Advance(b, s, n) ==
    IF n = 0 \/ b[s].at_end THEN Normalize(b, s)
    ELSE LET c == Normalize(b, s)
             k == Least(n, Size(c[s]))
         IN  Advance([c EXCEPT ![s].cur = @ + k, ![Other(s)].at_end = FALSE], s, n - k)

\* check()
Checked(b) ==
    [b EXCEPT !.ok =
        /\ b.ok
        /\ InAvail(b) \in 0 .. Capacity
        /\ b.r.rem = b.w.rem => b.r.end = b.w.beg \/ b.w.end = b.r.beg]

\* commit (side w) and consume (side r), with their assertions
MovedBy(b, s, n) ==
    LET c == Checked(Advance(b, s, n))
    IN  [c EXCEPT !.ok = @ /\ Position(c[s]) = Position(b[s]) + n
                           /\ Position(c[Other(s)]) = Position(b[Other(s)])]

\* reset(): both at the start of the first block; pos is left alone
ResetOf(b) ==
    [b EXCEPT !.w = [Area(1, Sizes[1]) EXCEPT !.pos = b.w.pos],
              !.r = [Area(1, 0) EXCEPT !.at_end = TRUE, !.pos = b.r.pos],
              !.origin = b.w.pos]

New == [w |-> Area(1, Sizes[1]), r |-> [Area(1, 0) EXCEPT !.at_end = TRUE], ok |-> TRUE,
        origin |-> 0]
-----------------------------------------------------------------------------
(* Positions *)

\* StlBuffer::split: side s takes block i up to where it stands, the other what follows
InBlock(a, i) == Base[i] <= a.beg /\ a.end <= Base[i] + Sizes[i]
Split(b, s) ==
    LET i == b[s].rem
        l == b[s]
    IN  [b EXCEPT !.ok = @ /\ InBlock(l, i),
                  ![s].pos = @ - (l.beg - Base[i]), ![s].beg = Base[i], ![s].end = l.cur,
                  ![Other(s)].beg = l.cur, ![Other(s)].cur = l.cur,
                  ![Other(s)].end = Base[i] + Sizes[i]]

\* position(p): pos so that the side stands at p
Placed(b, s, p) == [b EXCEPT ![s].pos = p - Offset(b[s])]
Raised(b, n) == [b EXCEPT !.w.pos = @ + n]

StandsAt(b, s, p) == [b EXCEPT !.ok = @ /\ Position(b[s]) = p]

\* the other side is put where side s stands, in the same block
Joined(b, s) ==
    LET c == [Split(b, s) EXCEPT ![Other(s)].rem = b[s].rem]
    IN  [Placed(c, Other(s), Position(c[s])) EXCEPT ![Other(s)].at_end = FALSE]

SeekIn(b, p) ==
    IF p > Position(b.r) THEN StandsAt(MovedBy(b, "r", p - Position(b.r)), "r", p)
    ELSE IF p = Position(b.r) THEN b
    ELSE LET c == Raised(Joined(b, "w"), Capacity)
             d == Advance(c, "r", p + Capacity - Position(c.r))
         IN  StandsAt([d EXCEPT !.r.pos = @ - Capacity, !.w.pos = @ - Capacity], "r", p)

SeekOut(b, p) ==
    IF p > Position(b.w) THEN StandsAt(MovedBy(b, "w", p - Position(b.w)), "w", p)
    ELSE IF p = Position(b.w) THEN b
    ELSE LET c == Checked(Joined(b, "r"))
         IN  StandsAt(Advance(c, "w", p - Position(c.w)), "w", p)

SeekBoth(b, p) ==
    LET c == Advance(Advance(ResetOf(b), "w", p % Capacity), "r", p % Capacity)
    IN  [Placed(Placed(c, "w", p), "r", p) EXCEPT !.origin = 0]
-----------------------------------------------------------------------------
(* The views: cycle_buffers_iterator over [at_end, ptr, size, rem]           *)

Cursor(a) == [at_end |-> a.at_end, ptr |-> a.cur, size |-> Size(a), rem |-> a.rem]

\* the loop of increment: to the next stretch that is not empty, with `left` still to give
RECURSIVE Stretch(_, _, _)
Stretch(l, r, left) ==
    IF l.at_end \/ l.size # 0 THEN l
    ELSE IF l.rem = r.rem /\ l.ptr < r.ptr
         THEN [l EXCEPT !.size = Least(r.ptr - l.ptr, left)]
    ELSE IF l.rem = r.rem /\ l.ptr = r.ptr THEN [l EXCEPT !.at_end = TRUE]
    ELSE LET i == l.rem
             whole == [l EXCEPT !.ptr = Base[i], !.size = Least(Sizes[i], left), !.rem = After(i)]
         IN  Stretch(IF whole.rem = r.rem
                     THEN [whole EXCEPT !.size = Least(@, r.ptr - Base[i])] ELSE whole, r, left)

Bytes(l) == [k \in 1 .. l.size |-> l.ptr + k - 1]

RECURSIVE Walk(_, _, _)
Walk(l, r, left) ==
    IF l.at_end THEN <<>>
    ELSE IF l.size = 0 /\ left > 0 THEN Walk(Stretch(l, r, left), r, left)
    ELSE IF left <= l.size THEN Bytes([l EXCEPT !.size = left])
    ELSE Bytes(l) \o Walk(Stretch([l EXCEPT !.ptr = @ + l.size, !.size = 0], r, left - l.size),
                          r, left - l.size)

\* the addresses data(n) and prepare(n) hand out
Data(b, n) == Walk(Cursor(b.r), Cursor(b.w), n)
Prepare(b, n) == Walk(Cursor(b.w), Cursor(b.r), n)
-----------------------------------------------------------------------------
RingInit == ring = New

Commit == \E n \in 0 .. Least(OutAvail(ring), MaxPos - Position(ring.w)) :
    ring' = MovedBy(ring, "w", n)

Consume == \E n \in 0 .. InAvail(ring) :
    ring' = MovedBy(ring, "r", n)

Reset ==
    /\ ring.w.pos = ring.r.pos \/ Resets
    /\ ring' = ResetOf(ring)

Seek == \E p \in 0 .. MaxPos :
    \/ /\ p <= Position(ring.w) /\ p + Capacity >= Position(ring.w)
       /\ p < Position(ring.r) => SeeksBack \/ Len(Sizes) = 1
       /\ ring' = SeekIn(ring, p)
    \/ /\ p >= Position(ring.r) /\ p <= Capacity + Position(ring.r)
       /\ p < Position(ring.w) => SeeksBack \/ Len(Sizes) = 1
       /\ ring' = SeekOut(ring, p)
    \/ ring' = SeekBoth(ring, p)

RingNext == Commit \/ Consume \/ Reset \/ Seek

-----------------------------------------------------------------------------
\* where the byte at stream position p lies
At(p) == LET q == (p - ring.origin) % Capacity
             i == CHOOSE j \in Blocks : Base[j] - j <= q /\ q < Base[j] - j + Sizes[j]
         IN  q + i
Stretches(from, n) == [k \in 1 .. n |-> At(from + k - 1)]

(* What data() hands out are the bytes committed and not consumed, in order,   *)
(* and what prepare() hands out is the rest of the ring, in order, whatever    *)
(* way the two sides have gone round the blocks (CycleBuffers.h:595, 616).      *)
RingIsAQueue ==
    /\ Data(ring, InAvail(ring)) = Stretches(Position(ring.r), InAvail(ring))
    /\ Prepare(ring, OutAvail(ring)) = Stretches(Position(ring.w), OutAvail(ring))

(* No assert of CycleBuffers and StlBuffer fails (CycleBuffers.h:769).          *)
RingAssertsHold == ring.ok
=============================================================================
