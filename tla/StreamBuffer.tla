----------------------------- MODULE StreamBuffer -----------------------------
(***************************************************************************)
(* util::buffers::StreamBuffer (src/buffers/StreamBuffer.h): a queue of      *)
(* bytes in one vector that grows up to max_size_ and is rotated when room   *)
(* is wanted at its end.  All pointers are offsets into the vector.  A byte  *)
(* is known by its position in the stream: mem[i] is the position of what    *)
(* lies at offset i - 1, or None where nothing was written.                  *)
(***************************************************************************)
EXTENDS Integers, Sequences

CONSTANTS
    MaxSize,    \* max_size_
    Delta,      \* buffer_delta, 128 in the code
    MaxStream,  \* bound: no byte beyond this position is put
    WildSeeks   \* the put position is moved behind the get area or beyond the put area

VARIABLE flat   \* [mem, gnext, gend, pnext, pend, pos]

None == -1
Lesser(m, n) == IF m < n THEN m ELSE n
Greater(m, n) == IF m < n THEN n ELSE m
Blank(n) == [i \in 1 .. n |-> None]
Resized(mem, n) == IF n <= Len(mem) THEN SubSeq(mem, 1, n) ELSE mem \o Blank(n - Len(mem))

InSize(f) == f.pnext - f.gnext
Visible(f) == SubSeq(f.mem, f.gnext + 1, f.pnext)

Empty == [mem |-> Blank(Greater(Lesser(MaxSize, Delta), 1)), gnext |-> 0, gend |-> 0,
          pnext |-> 0, pend |-> Lesser(MaxSize, Delta), pos |-> 0]

(***************************************************************************)
(* reserve(n): nothing to do, or the contents move to the front and the      *)
(* vector grows.  Fits says whether the vector may: reserve throws else.     *)
(***************************************************************************)
Roomy(f, n) == n <= f.pend - f.pnext
Fits(f, n) == Roomy(f, n) \/ InSize(f) + n <= Greater(f.pend, MaxSize)
\* mutant: the position of the first byte stays
Rotated_InPlace(f) ==
    IF f.gnext = 0 THEN f
    ELSE [f EXCEPT !.mem = SubSeq(@, f.gnext + 1, Len(@)) \o SubSeq(@, 1, f.gnext),
                   !.gend = @ - f.gnext, !.pnext = @ - f.gnext, !.gnext = 0]

Rotated(f) ==
    IF f.gnext = 0 THEN f
    ELSE [f EXCEPT !.mem = SubSeq(@, f.gnext + 1, f.pend) \o SubSeq(@, 1, f.gnext)
                             \o SubSeq(@, f.pend + 1, Len(@)),
                   !.gend = @ - f.gnext, !.pnext = @ - f.gnext,
                   !.gnext = 0, !.pos = @ + f.gnext]
Reserved(f, n) ==
    IF Roomy(f, n) THEN f
    ELSE LET c == Rotated(f)
         IN  [c EXCEPT !.mem = IF Roomy(c, n) THEN @ ELSE Resized(@, Greater(c.pnext + n, 1)),
                       !.pend = c.pnext + n]

\* k bytes written where the put area begins
Written(f, k) ==
    [f EXCEPT !.mem = [i \in DOMAIN @ |-> IF i \in f.pnext + 1 .. f.pnext + k
                                          THEN f.pos + i - 1 ELSE @[i]]]

\* commit(n)
Committed(f, n) ==
    LET k == Lesser(n, f.pend - f.pnext)
    IN  [f EXCEPT !.pnext = @ + k, !.gend = f.pnext + k]

\* consume(n)
Consumed(f, n) == [f EXCEPT !.gnext = @ + Lesser(n, InSize(f))]

\* sputc: through overflow when the put area is used up
Wanted(f) == IF InSize(f) < MaxSize /\ MaxSize - InSize(f) < Delta
             THEN MaxSize - InSize(f) ELSE Delta
PutInto(f) ==
    LET c == IF f.pnext = f.pend THEN Reserved(f, Wanted(f)) ELSE f
    IN  [Written(c, 1) EXCEPT !.pnext = @ + 1]

\* sbumpc: from the get area, or through underflow
CanGet(f) == f.gnext < f.gend \/ f.gnext < f.pnext
GotFrom(f) == [f EXCEPT !.gnext = @ + 1, !.gend = IF f.gnext < @ THEN @ ELSE f.pnext]
-----------------------------------------------------------------------------
(* seekpos: q is the position relative to pos_                               *)

SoughtIn(f, q) == [f EXCEPT !.gnext = q, !.gend = f.pnext]
Skipped(f, q) ==
    [f EXCEPT !.mem = [i \in DOMAIN @ |-> IF i \in f.pnext + 1 .. q THEN None ELSE @[i]]]
SoughtOut(f, q) == [Skipped(f, q) EXCEPT !.pnext = q]
SoughtBoth(f, q) ==
    [Skipped(f, q) EXCEPT !.gnext = q, !.gend = q, !.pnext = q, !.pend = Len(f.mem)]
-----------------------------------------------------------------------------
FlatInit == flat = Empty

\* an operation that reads into prepare(n) and commits what it has read
PrepareCommit == \E n \in 0 .. MaxSize : \E k \in 0 .. n :
    /\ Fits(flat, n) /\ flat.pos + flat.pnext + k <= MaxStream
    /\ flat' = Committed(Written(Reserved(flat, n), k), k)

Consume == \E n \in 1 .. MaxSize :
    flat' = Consumed(flat, n)

Put ==
    /\ flat.pos + flat.pnext < MaxStream
    /\ flat.pnext = flat.pend => Fits(flat, Wanted(flat))
    /\ flat' = PutInto(flat)

Get ==
    /\ CanGet(flat)
    /\ flat' = GotFrom(flat)

Clear ==
    flat' = [flat EXCEPT !.gnext = 0, !.gend = 0, !.pnext = 0, !.pend = Len(flat.mem), !.pos = 0]

SeekIn == \E q \in 0 .. flat.pnext :
    flat' = SoughtIn(flat, q)

SeekOut == \E q \in flat.gnext .. Len(flat.mem) :
    /\ flat.pos + q <= MaxStream
    /\ q \in flat.gend .. flat.pend \/ WildSeeks
    /\ flat' = SoughtOut(flat, q)

SeekBoth == \E q \in 0 .. Len(flat.mem) :
    /\ flat.pos + q <= MaxStream
    /\ flat' = SoughtBoth(flat, q)

FlatNext ==
    \/ PrepareCommit \/ Consume \/ Put \/ Get \/ Clear
    \/ SeekIn \/ SeekOut \/ SeekBoth

-----------------------------------------------------------------------------
(* Whatever is rotated, resized and sought, a byte that data() shows is at its *)
(* own position of the stream (StreamBuffer.h:273-298).                         *)
BytesInPlace ==
    \A i \in 1 .. InSize(flat) :
        Visible(flat)[i] \in {None, flat.pos + flat.gnext + i - 1}

(* The pointers stay in the vector and in order; get() never passes what was    *)
(* put (StreamBuffer.h:151, 245).                                               *)
PointersInOrder ==
    /\ 0 <= flat.gnext /\ flat.gnext <= flat.pnext
    /\ flat.gend <= flat.pnext
    /\ flat.pnext <= flat.pend /\ flat.pend <= Len(flat.mem)
=============================================================================
