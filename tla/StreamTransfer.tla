---------------------------- MODULE StreamTransfer ----------------------------
(***************************************************************************)
(* The asynchronous transfer of src/stream/StreamTransfer.h: the object     *)
(* transfer_cycle_buffer_handler reads one stream and writes another        *)
(* through a CycleBuffers of `Capacity` bytes, both at once.                *)
(*                                                                         *)
(* handler_read and handler_write call one another at their ends.  Those    *)
(* calls are tail calls, so the model runs one handler body per step and    *)
(* keeps the body that is called next in `next`; no completion is delivered *)
(* before the chain of calls ends, as the strand has it.  start() is taken  *)
(* to run on the thread that delivers the completions.                      *)
(***************************************************************************)
EXTENDS Integers

CONSTANTS
    Capacity,       \* buffers.capacity()
    Low,            \* the low_level argument
    High,           \* the high_level argument
    TransferAll,    \* the condition is transfer_all, else transfer_at_least
    Minimum,        \* the minimum of transfer_at_least
    SourceLen       \* bound: bytes the source may have

HighLevel == IF High > Capacity THEN Capacity ELSE High

\* Every caller in the repository passes the default levels, 0 and
\* size_t(-1), and a buffer that is not empty.  With Low at or above HighLevel
\* the two handlers would call one another for ever.
ASSUME TransferAssumption ==
    /\ Capacity \in Nat /\ Low \in Nat /\ High \in Nat
    /\ Minimum \in Nat /\ SourceLen \in Nat
    /\ TransferAll \in BOOLEAN
    /\ Low < HighLevel

VARIABLES
    initial,        \* bytes in the buffer when the transfer began
    first, second,  \* total_transferred_
    level,          \* level_
    read_end, reading, write_end, writing,
    room, chunk,    \* bytes the read, the write under way was given
    next,           \* the handler body called next, "none" when it returns
    starting,       \* start() has not returned
    canceled,       \* the flag of the completion condition
    left,           \* bytes the source has left
    writeFailed,    \* a write has failed
    called, status  \* calls of handler_, and the error code of the last

buffer == <<first, second, level>>
ends   == <<read_end, reading, write_end, writing, room, chunk>>
vars == <<initial, buffer, ends, next, starting, canceled, left, writeFailed,
          called, status>>

ErrorCodes == {"ok", "eof", "error"}

Init ==
    /\ initial \in 0 .. Capacity
    /\ first = 0 /\ second = 0 /\ level = initial
    /\ read_end = FALSE /\ reading = FALSE
    /\ write_end = FALSE /\ writing = FALSE
    /\ room = 0 /\ chunk = 0
    /\ next = "read" /\ starting = TRUE
    /\ canceled = FALSE /\ left \in 0 .. SourceLen /\ writeFailed = FALSE
    /\ called = 0 /\ status = "ok"

-----------------------------------------------------------------------------
\* completion_condition_(...), transfer_all and transfer_at_least.
Complete(ec, total) == canceled \/ ec # "ok" \/ (~TransferAll /\ total >= Minimum)

CallHandler(ec) == called' = called + 1 /\ status' = ec
NoCall          == UNCHANGED <<called, status>>

\* A side that has neither ended nor an operation under way is run again.
MayWrite_Anyway == ~writing
MayWrite == ~writing /\ ~write_end
MayRead_Forgotten == FALSE
MayRead  == ~reading /\ ~read_end

\* When the sink has ended, the source may still fill the buffer.
WantsRead(lev)  == lev < HighLevel \/ (write_end /\ lev < Capacity)
WantsWrite(lev) == lev > Low \/ (read_end /\ lev > 0)

\* buffers_.prepare() and buffers_.data() of the CycleBuffers.
Prepare_Whole(lev) == Capacity
Prepare(lev) == Capacity - lev
Data(lev) == lev

HandlerRead(ec, n) ==
    LET lev == level + n IN
    /\ first' = first + n /\ level' = lev
    /\ \/ /\ Complete(ec, first + n)
          /\ read_end' = TRUE /\ reading' = FALSE
          /\ IF write_end THEN CallHandler(ec) ELSE NoCall
          /\ UNCHANGED room
       \/ /\ ~Complete(ec, first + n) /\ WantsRead(lev)
          /\ reading' = TRUE /\ room' = Prepare(lev)
          /\ NoCall /\ UNCHANGED read_end
       \/ /\ ~Complete(ec, first + n) /\ ~WantsRead(lev)
          /\ reading' = FALSE
          /\ IF write_end THEN CallHandler(ec) ELSE NoCall
          /\ UNCHANGED <<room, read_end>>
    /\ next' = IF MayWrite THEN "write" ELSE "none"
    /\ UNCHANGED <<initial, second, write_end, writing, chunk, canceled>>

HandlerWrite(ec, n) ==
    LET lev == level - n IN
    /\ second' = second + n /\ level' = lev
    /\ \/ /\ Complete(ec, second + n)
          /\ write_end' = TRUE /\ writing' = FALSE
          /\ IF read_end THEN CallHandler(ec) ELSE NoCall
          /\ UNCHANGED chunk
       \/ /\ ~Complete(ec, second + n) /\ WantsWrite(lev)
          /\ writing' = TRUE /\ chunk' = Data(lev)
          /\ NoCall /\ UNCHANGED write_end
       \/ /\ ~Complete(ec, second + n) /\ ~WantsWrite(lev)
          /\ writing' = FALSE
          /\ IF read_end THEN CallHandler(ec) ELSE NoCall
          /\ UNCHANGED <<chunk, write_end>>
    /\ next' = IF MayRead THEN "read" ELSE "none"
    /\ UNCHANGED <<initial, first, read_end, reading, room, canceled>>

\* The call one handler makes of the other at its end.
CallRead ==
    /\ next = "read" /\ HandlerRead("ok", 0)
    /\ UNCHANGED <<starting, left, writeFailed>>

CallWrite ==
    /\ next = "write" /\ HandlerWrite("ok", 0)
    /\ UNCHANGED <<starting, left, writeFailed>>

\* start() after its handler_read returned.
StartWrites ==
    /\ starting /\ next = "none" /\ MayWrite
    /\ starting' = FALSE
    /\ HandlerWrite("ok", 0)
    /\ UNCHANGED <<left, writeFailed>>

StartReturns ==
    /\ starting /\ next = "none" /\ ~MayWrite
    /\ starting' = FALSE
    /\ UNCHANGED <<initial, buffer, ends, next, canceled, left, writeFailed,
                   called, status>>

-----------------------------------------------------------------------------
(* The streams complete the operations: with bytes, or with an error and    *)
(* none.                                                                    *)
Idle == next = "none" /\ ~starting

ReadCompletes ==
    /\ Idle /\ reading
    /\ \/ \E n \in 1 .. room :
            n <= left /\ left' = left - n /\ HandlerRead("ok", n)
       \/ left = 0 /\ HandlerRead("eof", 0) /\ UNCHANGED left
       \/ HandlerRead("error", 0) /\ UNCHANGED left
    /\ UNCHANGED <<starting, writeFailed>>

WriteCompletes ==
    /\ Idle /\ writing
    /\ \/ \E n \in 1 .. chunk : HandlerWrite("ok", n) /\ UNCHANGED writeFailed
       \/ HandlerWrite("error", 0) /\ writeFailed' = TRUE
    /\ UNCHANGED <<starting, left>>

\* The owner of the flag given to the completion condition sets it, possibly
\* while a handler runs.
Cancel ==
    /\ ~canceled /\ canceled' = TRUE
    /\ UNCHANGED <<initial, buffer, ends, next, starting, left, writeFailed,
                   called, status>>

Next ==
    \/ CallRead \/ CallWrite \/ StartWrites \/ StartReturns
    \/ ReadCompletes \/ WriteCompletes \/ Cancel

Spec == Init /\ [][Next]_vars

-----------------------------------------------------------------------------
(* Properties.                                                              *)

TypeOK ==
    /\ initial \in 0 .. Capacity
    /\ first \in Nat /\ second \in Nat /\ level \in Int
    /\ read_end \in BOOLEAN /\ reading \in BOOLEAN
    /\ write_end \in BOOLEAN /\ writing \in BOOLEAN
    /\ room \in 0 .. Capacity /\ chunk \in 0 .. Capacity
    /\ next \in {"none", "read", "write"}
    /\ starting \in BOOLEAN /\ canceled \in BOOLEAN
    /\ left \in Nat /\ writeFailed \in BOOLEAN
    /\ called \in Nat /\ status \in ErrorCodes

\* The level is what the totals say, and the operations under way, which run
\* at the same time on the same buffer, can take it neither below zero
\* nor above the capacity.
LevelSafe ==
    /\ level = initial + first - second
    /\ 0 <= level /\ level <= Capacity
    /\ reading => level + room <= Capacity
    /\ writing => chunk <= level

\* handler_ is called at most once, and then no operation that would touch the
\* caller's buffers is under way.
CompletesOnce ==
    /\ called <= 1
    /\ called = 1 => ~reading /\ ~writing

\* Between two completions a transfer that is not done waits for a stream.
NeverStalls == Idle /\ called = 0 => reading \/ writing

\* Done without a failed write and without cancel, the transfer has written
\* everything it read, or the minimum it was asked for.
Delivered ==
    called = 1 /\ ~writeFailed /\ ~canceled
      => level = 0 \/ (~TransferAll /\ second >= Minimum)

\* The transfer is a bounded pipe.
Pipe == INSTANCE BoundedPipe
            WITH got <- initial + first, put <- second, done <- called > 0
PipeSpec == Pipe!Spec
=============================================================================
