------------------------------ MODULE Transfers ------------------------------
(***************************************************************************)
(* The two ways of src/stream/StreamTransfer.h to move a stream through the *)
(* same buffer with the same water marks and condition: async_transfer, or  *)
(* the loop of transfer.  A behaviour is one transfer of either kind.  They *)
(* share the counts of bytes, the ends and the cancel flag; the loop's own  *)
(* variables are at rest in an asynchronous transfer, and those of the      *)
(* handlers in a loop.                                                      *)
(***************************************************************************)
EXTENDS StreamTransfer

VARIABLES
    pc,                         \* where the loop is, "none" without a loop
    low_level, high_level       \* the water marks the loop moves

Loop == INSTANCE SyncTransfer

allVars == <<vars, pc, low_level, high_level>>
handlers ==
    <<reading, writing, room, chunk, next, starting, called, status>>

InitAsync == Init /\ pc = "none" /\ low_level = Low /\ high_level = HighLevel

InitSync ==
    /\ Loop!Init
    /\ reading = FALSE /\ writing = FALSE /\ room = 0 /\ chunk = 0
    /\ next = "none" /\ starting = FALSE
    /\ called = 0 /\ status = "ok"

InitAll == InitAsync \/ InitSync

Async(A) == pc = "none" /\ A /\ UNCHANGED <<pc, low_level, high_level>>

LoopSteps == Loop!Next /\ UNCHANGED handlers
LoopRuns == Loop!Body /\ UNCHANGED handlers

NextAll == Async(Next) \/ LoopSteps

\* The strand runs what was called and each stream completes its operation; the
\* loop runs, and read_some and write_some return.
FairnessAll ==
    /\ WF_allVars(Async(CallRead)) /\ WF_allVars(Async(CallWrite))
    /\ WF_allVars(Async(StartWrites)) /\ WF_allVars(Async(StartReturns))
    /\ WF_allVars(Async(ReadCompletes)) /\ WF_allVars(Async(WriteCompletes))
    /\ WF_allVars(LoopRuns)

SpecAll == InitAll /\ [][NextAll]_allVars
FairSpecAll == SpecAll /\ FairnessAll

-----------------------------------------------------------------------------
(* Properties.                                                              *)

\* Both kinds of transfer end, because the source does or fails.
TransfersEnd == <>(called = 1 \/ pc = "done")

\* A transfer that ends without a failed write, not canceled, has written
\* everything it read, or the minimum (StreamTransfer.h:39-80, 355-412).
BothDeliver == Delivered /\ Loop!Delivered

\* Either kind is the bounded pipe: it takes and gives the same bytes, and none
\* once it is done; the loop writes nothing after its write end.
BothPipes == PipeSpec /\ Loop!PipeSpec /\ Loop!NoWriteAfterEnd
=============================================================================
