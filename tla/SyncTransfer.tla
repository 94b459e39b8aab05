----------------------------- MODULE SyncTransfer -----------------------------
(***************************************************************************)
(* The synchronous transfer of src/stream/StreamTransfer.h: one loop that   *)
(* reads when the buffer is below the high level and writes when it is      *)
(* above the low one.  A step is one half of the loop body.  The constants  *)
(* are those of StreamTransfer, with the assumption it makes.               *)
(***************************************************************************)
EXTENDS Integers

CONSTANTS
    Capacity,       \* buffers.capacity()
    Low, High,      \* the low_level, high_level arguments
    TransferAll,    \* the condition is transfer_all, else transfer_at_least
    Minimum,        \* the minimum of transfer_at_least
    SourceLen       \* bound: bytes the source may have

HighLevel == IF High > Capacity THEN Capacity ELSE High

VARIABLES
    pc,                     \* the half that runs next: read, write or done
    initial, first, second, \* bytes in the buffer at first, total_transferred
    level, low_level, high_level, read_end, write_end,
    canceled,               \* the flag of the completion condition
    left, writeFailed       \* bytes the source has left, a write has failed

totals == <<initial, first, second, level>>
levels == <<low_level, high_level, read_end, write_end>>
vars == <<pc, totals, levels, canceled, left, writeFailed>>

Init ==
    /\ pc = "read"
    /\ initial \in 0 .. Capacity /\ level = initial
    /\ first = 0 /\ second = 0
    /\ low_level = Low /\ high_level = HighLevel
    /\ read_end = FALSE /\ write_end = FALSE
    /\ canceled = FALSE /\ left \in 0 .. SourceLen /\ writeFailed = FALSE

\* completion_condition(...), transfer_all and transfer_at_least.
Complete(ec, total) == canceled \/ ec # "ok" \/ (~TransferAll /\ total >= Minimum)

MayRead  == level < high_level \/ (write_end /\ level < Capacity)
MayWrite_NoFlush == level > low_level
MayWrite == level > low_level \/ (read_end /\ level > 0)

\* What read_some does to the buffer, and the condition to the loop.
ReadSome(ec, n) ==
    /\ first' = first + n /\ level' = level + n /\ left' = left - n
    /\ IF Complete(ec, first + n)
         THEN /\ read_end' = TRUE /\ high_level' = 0
              /\ pc' = IF write_end THEN "done" ELSE "write"
         ELSE UNCHANGED <<read_end, high_level>> /\ pc' = "write"
    /\ UNCHANGED <<initial, second, low_level, write_end, canceled, writeFailed>>

\* The low level that stops later writes.
StopWrites == low_level' = Capacity

WriteSome(ec, n) ==
    /\ second' = second + n /\ level' = level - n
    /\ writeFailed' = (ec # "ok")
    /\ IF Complete(ec, second + n)
         THEN /\ write_end' = TRUE /\ StopWrites
              /\ pc' = IF read_end THEN "done" ELSE "read"
         ELSE UNCHANGED <<write_end, low_level>> /\ pc' = "read"
    /\ UNCHANGED <<initial, first, high_level, read_end, canceled, left>>

\* buffers.prepare().
Prepare == Capacity - level

Read ==
    /\ pc = "read" /\ MayRead
    /\ \/ \E n \in 1 .. Prepare : n <= left /\ ReadSome("ok", n)
       \/ left = 0 /\ ReadSome("eof", 0)
       \/ ReadSome("error", 0)

SkipRead ==
    /\ pc = "read" /\ ~MayRead
    /\ pc' = IF write_end THEN "done" ELSE "write"
    /\ UNCHANGED <<totals, levels, canceled, left, writeFailed>>

Write ==
    /\ pc = "write" /\ MayWrite
    /\ \/ \E n \in 1 .. level : WriteSome("ok", n)
       \/ WriteSome("error", 0)

\* Nothing to write, and nothing will come.
NothingToWrite == IF read_end THEN "done" ELSE "read"

SkipWrite ==
    /\ pc = "write" /\ ~MayWrite
    /\ pc' = NothingToWrite
    /\ UNCHANGED <<totals, levels, canceled, left, writeFailed>>

\* The owner of the flag given to the completion condition sets it, from
\* another thread or in a read or write of the streams.
Cancel ==
    /\ pc \in {"read", "write"} /\ ~canceled /\ canceled' = TRUE
    /\ UNCHANGED <<pc, totals, levels, left, writeFailed>>

Body == Read \/ SkipRead \/ Write \/ SkipWrite
Next == Body \/ Cancel

Spec == Init /\ [][Next]_vars

-----------------------------------------------------------------------------
\* After a write has ended or failed nothing more is written.
NoWriteAfterEnd == [][write_end => second' = second]_vars

\* The loop ends with everything written that was read, unless a write failed,
\* it was canceled or the minimum was written.
Delivered ==
    pc = "done" /\ ~writeFailed /\ ~canceled
      => level = 0 \/ (~TransferAll /\ second >= Minimum)

\* The transfer is a bounded pipe.
Pipe == INSTANCE BoundedPipe
            WITH got <- initial + first, put <- second, done <- pc = "done"
PipeSpec == Pipe!Spec
=============================================================================
