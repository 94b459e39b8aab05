------------------------------- MODULE Buffers -------------------------------
(***************************************************************************)
(* The buffers of src/buffers side by side.  None of them shares state with   *)
(* another, so a behaviour works on one: a CycleBuffers of several blocks or   *)
(* of one, a StreamBuffer, the views over a sequence of blocks, SimpleBuffers,   *)
(* or an ArchiveBuffer, which is at hand below.                              *)
(***************************************************************************)
EXTENDS Integers, Sequences

CONSTANTS
    MaxPos,                     \* bound: positions in the rings stay at or below it
    MaxSize, Delta, MaxStream,  \* of the StreamBuffer
    Chars, MaxBlocks, MaxBlock, \* of the views
    BufSize,                    \* bytes of the memory of the ArchiveBuffer
    BufferOddities,             \* "beyond": its put pointer is set behind the memory; "back": to where was written;
                                \* "ahead": more is consumed than the get area has; "before": the get pointer is set before the memory
    Absent                      \* the state of a buffer a behaviour has not

VARIABLES ring, block, flat, view, simple, memory

Ring  == INSTANCE CycleBuffers
            WITH Sizes <- <<2, 1, 2>>, Resets <- FALSE, SeeksBack <- FALSE
Block == INSTANCE CycleBuffers
            WITH Sizes <- <<4>>, ring <- block, Resets <- FALSE, SeeksBack <- FALSE
Flat  == INSTANCE StreamBuffer WITH WildSeeks <- FALSE
Views == INSTANCE BufferViews
Tape  == INSTANCE SimpleBuffers WITH Sizes <- <<2, 1, 3>>, Behind <- 0, Swaps <- FALSE
-----------------------------------------------------------------------------
(* util::archive::ArchiveBuffer: a stream buffer over memory of the caller,   *)
(* that archives save to and load from.  The get area ends where the put       *)
(* pointer was when it was last looked at; what is stored is where it is        *)
(* stored.                                                                     *)

\* [gptr, egptr, pbase, pptr, epptr: places from 0 on]
size(m) == m.pptr - m.gptr
room(m) == m.epptr - m.pptr
Least(a, b) == IF a < b THEN a ELSE b
\* what data and prepare give: a place and a length; a size_t is not less than 0
data(m, n) == [at |-> m.gptr, len |-> Least(n, size(m))]
prepare(m, n) == [at |-> m.pptr, len |-> IF room(m) < 0 THEN n ELSE Least(n, room(m))]

commit(m, n) == LET k == prepare(m, n).len IN [m EXCEPT !.pptr = @ + k, !.egptr = m.pptr + k]
consume(m, n) == LET g == m.gptr + Least(n, size(m)) IN [m EXCEPT !.gptr = g, !.pbase = g]
underflow(m) == IF m.gptr < m.pptr THEN [m EXCEPT !.egptr = m.pptr] ELSE m
overflow(m) == m        \* throws

\* seekpos; -1 leaves all as it was
seek_in(m, p) == IF p <= m.pptr THEN [m EXCEPT !.gptr = p, !.egptr = m.pptr] ELSE m
seek_out(m, p) == IF p >= m.gptr THEN [m EXCEPT !.pbase = m.gptr, !.pptr = p] ELSE m
seek_both(m, p) == IF p <= BufSize THEN [m EXCEPT !.gptr = p, !.egptr = p, !.pbase = p, !.pptr = p, !.epptr = BufSize] ELSE m
seekpos(m, p, mode) == CASE mode = "in" -> seek_in(m, p) [] mode = "out" -> seek_out(m, p) [] mode = "both" -> seek_both(m, p)
seekoff(m, off, dir, mode) ==
    LET tell == IF mode = "in" THEN m.gptr ELSE m.pptr
    IN CASE dir = "cur" -> IF off = 0 THEN m ELSE seekpos(m, tell + off, mode)
         [] dir = "beg" -> seekpos(m, off, mode)
         [] dir = "end" -> seekpos(m, BufSize + off, mode)
-----------------------------------------------------------------------------
New(n) == [gptr |-> 0, egptr |-> n, pbase |-> n, pptr |-> n, epptr |-> BufSize]
BufferInit == \E n \in 0..BufSize : memory = New(n)

Write == \E n \in 0..(BufSize + 1) : memory' = commit(memory, prepare(memory, n).len)
Consume == \E n \in 0..BufSize : /\ memory.gptr + n <= memory.egptr \/ "ahead" \in BufferOddities
                                 /\ memory' = consume(memory, n)
Put == memory' = IF memory.pptr = memory.epptr THEN overflow(memory) ELSE [memory EXCEPT !.pptr = @ + 1]
Get == LET m == IF memory.gptr >= memory.egptr THEN underflow(memory) ELSE memory
       IN memory' = IF m.gptr < m.egptr THEN [m EXCEPT !.gptr = @ + 1] ELSE m
Seek == \E mode \in {"in", "out", "both"}, dir \in {"beg", "cur", "end"}, off \in -BufSize..(BufSize + 1) :
            LET m == seekoff(memory, off, dir, mode)
            IN /\ dir = "end" => off <= 0
               /\ m.pptr <= BufSize \/ "beyond" \in BufferOddities
               /\ m.pptr >= m.egptr \/ "back" \in BufferOddities
               /\ (m.gptr >= 0 /\ m.pptr >= 0) \/ "before" \in BufferOddities
               /\ memory' = m

BufferNext == Write \/ Consume \/ Put \/ Get \/ Seek
-----------------------------------------------------------------------------
(* All of them.                                                                *)

Init ==
    \/ Ring!RingInit /\ block = Absent /\ flat = Absent /\ view = Absent /\ simple = Absent /\ memory = Absent
    \/ ring = Absent /\ Block!RingInit /\ flat = Absent /\ view = Absent /\ simple = Absent /\ memory = Absent
    \/ ring = Absent /\ block = Absent /\ Flat!FlatInit /\ view = Absent /\ simple = Absent /\ memory = Absent
    \/ ring = Absent /\ block = Absent /\ flat = Absent /\ Views!ViewInit /\ simple = Absent /\ memory = Absent
    \/ ring = Absent /\ block = Absent /\ flat = Absent /\ view = Absent /\ Tape!SimpleInit /\ memory = Absent
    \/ ring = Absent /\ block = Absent /\ flat = Absent /\ view = Absent /\ simple = Absent /\ BufferInit

Next ==
    \/ ring # Absent /\ Ring!RingNext /\ UNCHANGED <<block, flat, view, simple, memory>>
    \/ block # Absent /\ Block!RingNext /\ UNCHANGED <<ring, flat, view, simple, memory>>
    \/ flat # Absent /\ Flat!FlatNext /\ UNCHANGED <<ring, block, view, simple, memory>>
    \/ view # Absent /\ Views!ViewNext /\ UNCHANGED <<ring, block, flat, simple, memory>>
    \/ simple # Absent /\ Tape!SimpleNext /\ UNCHANGED <<ring, block, flat, view, memory>>
    \/ memory # Absent /\ BufferNext /\ UNCHANGED <<ring, block, flat, view, simple>>

Spec == Init /\ [][Next]_<<ring, block, flat, view, simple, memory>>
-----------------------------------------------------------------------------
(* What is read of the buffer was written, and as it was last written: the pointers stay in their order  *)
(* and in the memory, what data() and prepare() give never meets, and the get area never has a byte the     *)
(* put pointer has not passed (ArchiveBuffer.h:103-207).                                                     *)
MemoryKeepsOrder ==
    LET m == memory
    IN /\ 0 <= m.gptr /\ m.gptr <= m.egptr /\ m.egptr <= m.pptr /\ m.pptr <= m.epptr /\ m.epptr = BufSize
       /\ m.pbase >= 0 /\ m.pbase <= m.pptr
       /\ LET d == data(m, BufSize)
              p == prepare(m, BufSize)
          IN d.at + d.len <= p.at /\ p.at + p.len <= BufSize

(* What a ring hands out is the queue of the bytes committed, whatever way the *)
(* two sides have gone round the blocks (CycleBuffers.h:588, 611).              *)
RingIsAQueue ==
    /\ ring # Absent => Ring!RingIsAQueue
    /\ block # Absent => Block!RingIsAQueue

(* No assert of CycleBuffers and StlBuffer fails (CycleBuffers.h:545, 769).     *)
RingAssertsHold ==
    /\ ring # Absent => Ring!RingAssertsHold
    /\ block # Absent => Block!RingAssertsHold

(* A ring of blocks keeps its bytes, and its asserts.                          *)
RingKeeps == RingIsAQueue /\ RingAssertsHold

(* A StreamBuffer that rotates, grows and seeks shows every byte at its own    *)
(* place of the stream, its pointers in order (StreamBuffer.h:222, 255).        *)
FlatKeepsBytes == flat # Absent => Flat!BytesInPlace /\ Flat!PointersInOrder

(* Slices, copies and searches see the text and not the blocks it is cut into  *)
(* (SubBuffers.h:34, BuffersCopy.h:58, BuffersPosition.h:159).                  *)
ViewsSeeTheText ==
    view # Absent => /\ Views!SearchGoesOverAll
                     /\ Views!FindNeverPasses
                     /\ Views!SlicesAreOfTheText

(* The buffers of one piece are tapes: what is read lies between the two       *)
(* positions, what is written behind the second of them, neither area goes     *)
(* over the other and each byte is at its place (SimpleIoBuffer.h:127,         *)
(* ArchiveBuffer.h:103, StreamBuffer.h:222).                                   *)
TapesKeepOrder ==
    /\ FlatKeepsBytes
    /\ simple # Absent => Tape!SimpleIsATape
    /\ memory # Absent => MemoryKeepsOrder
=============================================================================
