--------------------------- MODULE Transfers_proofs ---------------------------
(***************************************************************************)
(* Transfers.tla for every capacity, level, minimum and source: the         *)
(* transfer, whether by its two handlers or by the loop, never over- or     *)
(* underruns its buffer, calls its handler once, never waits for nobody,    *)
(* delivers what it read and is a bounded pipe.  First the handlers, then   *)
(* the loop beside them.                                                    *)
(***************************************************************************)
EXTENDS Transfers, TLAPS

-----------------------------------------------------------------------------
(* The handlers, StreamTransfer.tla.  Their inductive invariant, in named   *)
(* parts.                                                                   *)

\* A side that has ended has no operation under way; a handler body is only
\* called for a side that is neither.
SidesFit ==
    /\ reading => ~read_end
    /\ writing => ~write_end
    /\ next = "read" => MayRead
    /\ next = "write" => MayWrite

\* What start() can meet after its handler_read returned: the conditions of
\* the two sides agree as long as nothing was transferred, so a read that
\* ended at once is followed by a write that did.
StartFits ==
    starting =>
        /\ first = 0 /\ second = 0
        /\ read_end => canceled \/ (~TransferAll /\ 0 >= Minimum)
        /\ next = "none" /\ read_end => writing \/ write_end
        /\ called > 0 => write_end

\* The call of handler_ is the last thing that happens.
CallFits ==
    /\ called \in {0, 1}
    /\ called = 1 => next = "none" /\ ~reading /\ ~writing
    /\ next = "none" /\ ~reading /\ ~writing => called = 1

\* Why the write side has ended, and what that leaves in the buffer.
EndFits ==
    /\ write_end /\ ~writeFailed /\ ~canceled
         => ~TransferAll /\ second >= Minimum
    /\ Delivered

IInv == TypeOK /\ LevelSafe /\ SidesFit /\ StartFits /\ CallFits /\ EndFits

-----------------------------------------------------------------------------
LEMMA LevelsFit == HighLevel \in Nat /\ HighLevel <= Capacity
  BY TransferAssumption DEF HighLevel

LEMMA InitInv == Init => IInv
<1> SUFFICES ASSUME Init PROVE IInv
  OBVIOUS
<1> USE DEF Init
<1>1. TypeOK
  <2>1. /\ first \in Nat /\ second \in Nat /\ level \in Int /\ called \in Nat
        /\ room \in 0 .. Capacity /\ chunk \in 0 .. Capacity /\ left \in Nat
    BY TransferAssumption
  <2>. QED
    BY <2>1, Zenon DEF TypeOK, ErrorCodes
<1>2. LevelSafe
  BY TransferAssumption DEF LevelSafe
<1>3. SidesFit /\ StartFits /\ CallFits /\ EndFits
  BY DEF SidesFit, StartFits, CallFits, EndFits, MayRead, MayWrite, Delivered
<1>. QED
  BY <1>1, <1>2, <1>3 DEF IInv

(* One body of handler_read, with bytes that fit the room it was given.     *)
LEMMA HandlerReadInv ==
  ASSUME IInv, NEW ec \in ErrorCodes, NEW n \in Nat, HandlerRead(ec, n),
         next = "read" \/ (Idle /\ reading), called = 0,
         starting => ec = "ok" /\ n = 0,
         level + n <= Capacity, starting' = starting,
         left' \in Nat, writeFailed' = writeFailed
  PROVE  IInv'
<1> USE TransferAssumption, LevelsFit
<1> USE DEF HandlerRead, CallHandler, NoCall
<1>1. TypeOK'
  <2>1. /\ initial' \in 0 .. Capacity /\ first' \in Nat /\ second' \in Nat
        /\ level' \in Int /\ room' \in 0 .. Capacity /\ chunk' \in 0 .. Capacity
        /\ next' \in {"none", "read", "write"} /\ called' \in Nat
        /\ status' \in ErrorCodes
    BY DEF IInv, TypeOK, LevelSafe, Prepare
  <2>2. /\ read_end' \in BOOLEAN /\ reading' \in BOOLEAN
        /\ write_end' \in BOOLEAN /\ writing' \in BOOLEAN
        /\ starting' \in BOOLEAN /\ canceled' \in BOOLEAN
        /\ writeFailed' \in BOOLEAN
    BY Zenon DEF IInv, TypeOK
  <2>. QED
    BY <2>1, <2>2, Zenon DEF TypeOK
<1>2. LevelSafe'
  BY DEF IInv, TypeOK, LevelSafe, Prepare
<1>3. SidesFit'
  BY DEF IInv, SidesFit, MayRead, MayWrite, Idle
<1>4. StartFits'
  BY DEF IInv, TypeOK, SidesFit, StartFits, CallFits, MayRead, MayWrite, Idle, Complete
<1>5. CallFits'
  BY DEF IInv, TypeOK, SidesFit, CallFits, MayRead, MayWrite, Idle
<1>6. EndFits'
  BY DEF IInv, TypeOK, EndFits, Delivered
<1>. QED
  BY <1>1, <1>2, <1>3, <1>4, <1>5, <1>6 DEF IInv

(* One body of handler_write, with bytes of those it was given.             *)
LEMMA HandlerWriteInv ==
  ASSUME IInv, NEW ec \in ErrorCodes, NEW n \in Nat, HandlerWrite(ec, n),
         \/ next = "write"
         \/ Idle /\ writing
         \/ starting /\ next = "none" /\ MayWrite,
         called = 0, n <= level,
         starting => ec = "ok" /\ n = 0,
         starting' \in BOOLEAN, starting' => starting,
         starting /\ next = "none" => ~starting',
         left' \in Nat, writeFailed' \in BOOLEAN,
         writeFailed => writeFailed', ec # "ok" => writeFailed'
  PROVE  IInv'
<1> USE TransferAssumption, LevelsFit
<1> USE DEF HandlerWrite, CallHandler, NoCall
<1>1. TypeOK'
  <2>1. /\ initial' \in 0 .. Capacity /\ first' \in Nat /\ second' \in Nat
        /\ level' \in Int /\ room' \in 0 .. Capacity /\ chunk' \in 0 .. Capacity
        /\ next' \in {"none", "read", "write"} /\ called' \in Nat
        /\ status' \in ErrorCodes
    BY DEF IInv, TypeOK, LevelSafe, Data
  <2>2. /\ read_end' \in BOOLEAN /\ reading' \in BOOLEAN
        /\ write_end' \in BOOLEAN /\ writing' \in BOOLEAN
        /\ canceled' \in BOOLEAN
    BY Zenon DEF IInv, TypeOK
  <2>. QED
    BY <2>1, <2>2, Zenon DEF TypeOK
<1>2. LevelSafe'
  BY DEF IInv, TypeOK, LevelSafe, Data
<1>3. SidesFit'
  BY DEF IInv, SidesFit, MayRead, MayWrite, Idle
<1>4. StartFits'
  BY DEF IInv, TypeOK, SidesFit, StartFits, CallFits, MayRead, MayWrite, Idle, Complete
<1>5. CallFits'
  BY DEF IInv, TypeOK, SidesFit, StartFits, CallFits, MayRead, MayWrite, Idle, Complete
<1>6. EndFits'
  BY DEF IInv, TypeOK, LevelSafe, EndFits, Delivered, Complete, WantsWrite
<1>. QED
  BY <1>1, <1>2, <1>3, <1>4, <1>5, <1>6 DEF IInv

-----------------------------------------------------------------------------
LEMMA CallReadInv == IInv /\ CallRead => IInv'
<1> SUFFICES ASSUME IInv, CallRead PROVE IInv'
  OBVIOUS
<1>1. HandlerRead("ok", 0) /\ next = "read" /\ "ok" \in ErrorCodes
  BY DEF CallRead, ErrorCodes
<1>2. called = 0 /\ level + 0 <= Capacity
  BY <1>1 DEF IInv, TypeOK, CallFits, LevelSafe
<1>3. starting' = starting /\ left' \in Nat /\ writeFailed' = writeFailed
  BY DEF CallRead, IInv, TypeOK
<1>. QED
  BY <1>1, <1>2, <1>3, HandlerReadInv

LEMMA CallWriteInv == IInv /\ CallWrite => IInv'
<1> SUFFICES ASSUME IInv, CallWrite PROVE IInv'
  OBVIOUS
<1>1. HandlerWrite("ok", 0) /\ next = "write" /\ "ok" \in ErrorCodes
  BY DEF CallWrite, ErrorCodes
<1>2. called = 0 /\ 0 <= level
  BY <1>1 DEF IInv, TypeOK, CallFits, LevelSafe
<1>3. starting' = starting /\ left' \in Nat /\ writeFailed' = writeFailed
  BY DEF CallWrite, IInv, TypeOK
<1>4. starting \in BOOLEAN /\ writeFailed \in BOOLEAN
  BY Zenon DEF IInv, TypeOK
<1>. QED
  BY <1>1, <1>2, <1>3, <1>4, HandlerWriteInv

LEMMA StartWritesInv == IInv /\ StartWrites => IInv'
<1> SUFFICES ASSUME IInv, StartWrites PROVE IInv'
  OBVIOUS
<1>1. /\ HandlerWrite("ok", 0) /\ "ok" \in ErrorCodes
      /\ starting /\ next = "none" /\ MayWrite
  BY DEF StartWrites, ErrorCodes
<1>2. called = 0 /\ 0 <= level
  BY <1>1 DEF IInv, TypeOK, CallFits, StartFits, LevelSafe, MayWrite
<1>3. ~starting' /\ left' \in Nat /\ writeFailed' = writeFailed
  BY DEF StartWrites, IInv, TypeOK
<1>4. starting' \in BOOLEAN /\ writeFailed \in BOOLEAN
  BY Zenon DEF IInv, TypeOK, StartWrites
<1>. QED
  BY <1>1, <1>2, <1>3, <1>4, HandlerWriteInv

LEMMA StartReturnsInv == IInv /\ StartReturns => IInv'
<1> SUFFICES ASSUME IInv, StartReturns PROVE IInv'
  OBVIOUS
<1> USE DEF StartReturns, buffer, ends
<1>1. TypeOK'
  BY Zenon DEF IInv, TypeOK
<1>2. LevelSafe' /\ SidesFit' /\ CallFits' /\ EndFits'
  BY DEF IInv, LevelSafe, SidesFit, CallFits, EndFits, Delivered, MayRead, MayWrite
<1>3. StartFits'
  BY DEF StartFits
<1>. QED
  BY <1>1, <1>2, <1>3 DEF IInv

LEMMA ReadCompletesInv == IInv /\ ReadCompletes => IInv'
<1> SUFFICES ASSUME IInv, ReadCompletes PROVE IInv'
  OBVIOUS
<1>1. Idle /\ reading /\ ~starting /\ called = 0
  BY DEF ReadCompletes, Idle, IInv, TypeOK, CallFits
<1>2. starting' = starting /\ writeFailed' = writeFailed
  BY DEF ReadCompletes
<1>3. CASE \E n \in 1 .. room : n <= left /\ left' = left - n /\ HandlerRead("ok", n)
  <2>1. PICK n \in 1 .. room : n <= left /\ left' = left - n /\ HandlerRead("ok", n)
    BY <1>3
  <2>2. n \in Nat /\ level + n <= Capacity /\ left' \in Nat
    BY <1>1, <2>1, TransferAssumption DEF IInv, TypeOK, LevelSafe
  <2>. QED
    BY <1>1, <1>2, <2>1, <2>2, HandlerReadInv DEF ErrorCodes
<1>4. CASE \E ec \in {"eof", "error"} : HandlerRead(ec, 0) /\ UNCHANGED left
  <2>1. level + 0 <= Capacity /\ left' \in Nat
    BY <1>4 DEF IInv, TypeOK, LevelSafe
  <2>. QED
    BY <1>1, <1>2, <1>4, <2>1, HandlerReadInv DEF ErrorCodes
<1>. QED
  BY <1>3, <1>4 DEF ReadCompletes

LEMMA WriteCompletesInv == IInv /\ WriteCompletes => IInv'
<1> SUFFICES ASSUME IInv, WriteCompletes PROVE IInv'
  OBVIOUS
<1>1. Idle /\ writing /\ ~starting /\ called = 0
  BY DEF WriteCompletes, Idle, IInv, TypeOK, CallFits
<1>2. starting' = starting /\ left' = left /\ left' \in Nat
  BY DEF WriteCompletes, IInv, TypeOK
<1>3. starting \in BOOLEAN /\ writeFailed \in BOOLEAN
  BY Zenon DEF IInv, TypeOK
<1>4. CASE \E n \in 1 .. chunk : HandlerWrite("ok", n) /\ UNCHANGED writeFailed
  <2>1. PICK n \in 1 .. chunk : HandlerWrite("ok", n) /\ UNCHANGED writeFailed
    BY <1>4
  <2>2. n \in Nat /\ n <= level
    BY <1>1, <2>1, TransferAssumption DEF IInv, TypeOK, LevelSafe
  <2>. QED
    BY <1>1, <1>2, <1>3, <2>1, <2>2, HandlerWriteInv DEF ErrorCodes
<1>5. CASE HandlerWrite("error", 0) /\ writeFailed' = TRUE
  <2>1. "error" \in ErrorCodes /\ 0 \in Nat /\ 0 <= level
    BY DEF ErrorCodes, IInv, TypeOK, LevelSafe
  <2>2. writeFailed' \in BOOLEAN /\ writeFailed'
    BY <1>5, Zenon
  <2>3. starting' \in BOOLEAN /\ ~starting'
    BY <1>1, <1>2, <1>3, Zenon
  <2>4. HandlerWrite("error", 0) /\ ("error" # "ok" => writeFailed')
    BY <1>5, <2>2, Zenon
  <2>. QED
    BY <1>1, <1>2, <2>1, <2>2, <2>3, <2>4, HandlerWriteInv, Zenon
<1>. QED
  BY <1>4, <1>5 DEF WriteCompletes

LEMMA CancelInv == IInv /\ Cancel => IInv'
<1> SUFFICES ASSUME IInv, Cancel PROVE IInv'
  OBVIOUS
<1> USE DEF Cancel, buffer, ends
<1>1. TypeOK'
  BY Zenon DEF IInv, TypeOK
<1>2. LevelSafe' /\ SidesFit' /\ StartFits' /\ CallFits'
  BY DEF IInv, LevelSafe, SidesFit, StartFits, CallFits, MayRead, MayWrite
<1>3. EndFits'
  BY DEF EndFits, Delivered
<1>. QED
  BY <1>1, <1>2, <1>3 DEF IInv

LEMMA StutterInv == IInv /\ UNCHANGED vars => IInv'
  BY DEF IInv, vars, buffer, ends, TypeOK, LevelSafe, SidesFit, StartFits,
         CallFits, EndFits, Delivered, MayRead, MayWrite

LEMMA NextInv == IInv /\ [Next]_vars => IInv'
  BY CallReadInv, CallWriteInv, StartWritesInv, StartReturnsInv,
     ReadCompletesInv, WriteCompletesInv, CancelInv, StutterInv DEF Next

\* The inductive invariant holds in every state of the transfer.
THEOREM Invariance == Spec => []IInv
  BY InitInv, NextInv, PTL DEF Spec

-----------------------------------------------------------------------------
(* What the invariant gives.                                                *)

\* Every variable keeps its type.
THEOREM TypeCorrect == Spec => []TypeOK
<1>1. IInv => TypeOK
  BY DEF IInv
<1>. QED
  BY <1>1, Invariance, PTL

\* The read and the write under way at the same time never touch more than the
\* buffer has (commit and consume at StreamTransfer.h:368, 392).
THEOREM LevelIsSafe == Spec => []LevelSafe
<1>1. IInv => LevelSafe
  BY DEF IInv
<1>. QED
  BY <1>1, Invariance, PTL

\* handler_ is called at most once, with nothing under way any more.
THEOREM HandlerIsCalledOnce == Spec => []CompletesOnce
<1>1. IInv => CompletesOnce
  BY DEF IInv, CallFits, CompletesOnce
<1>. QED
  BY <1>1, Invariance, PTL

\* A transfer that has not called handler_ waits for one of the streams.
THEOREM TransferNeverStalls == Spec => []NeverStalls
<1>1. IInv => NeverStalls
  BY DEF IInv, CallFits, NeverStalls, Idle
<1>. QED
  BY <1>1, Invariance, PTL

\* A transfer that ends well has written what it read, or its minimum.
THEOREM TransferDelivers == Spec => []Delivered
<1>1. IInv => Delivered
  BY DEF IInv, EndFits
<1>. QED
  BY <1>1, Invariance, PTL

-----------------------------------------------------------------------------
(* The transfer implements the bounded pipe.                                *)

LEMMA PipeInit == Init => Pipe!Init
  BY TransferAssumption DEF Init, Pipe!Init

\* The totals only grow, and not at all once handler_ has been called.
LEMMA TotalsGrow ==
  IInv /\ [Next]_vars =>
    /\ initial' = initial
    /\ first <= first' /\ second <= second' /\ called <= called'
    /\ called = 1 => first' = first /\ second' = second /\ called' = called
<1> SUFFICES ASSUME IInv, [Next]_vars
             PROVE  /\ initial' = initial
                    /\ first <= first' /\ second <= second' /\ called <= called'
                    /\ called = 1 =>
                         first' = first /\ second' = second /\ called' = called
  OBVIOUS
<1>0. /\ first \in Nat /\ second \in Nat /\ called \in Nat
      /\ room \in Nat /\ chunk \in Nat
  BY TransferAssumption DEF IInv, TypeOK
<1>1. CASE CallRead \/ ReadCompletes
  BY <1>0, <1>1 DEF CallRead, ReadCompletes, HandlerRead, CallHandler, NoCall,
                    IInv, CallFits
<1>2. CASE CallWrite \/ WriteCompletes
  BY <1>0, <1>2 DEF CallWrite, WriteCompletes, HandlerWrite, CallHandler, NoCall,
                    IInv, CallFits
<1>3. CASE StartWrites
  BY <1>0, <1>3 DEF StartWrites, HandlerWrite, CallHandler, NoCall, MayWrite,
                    IInv, StartFits, CallFits
<1>4. CASE StartReturns \/ Cancel \/ UNCHANGED vars
  BY <1>0, <1>4 DEF StartReturns, Cancel, vars, buffer
<1>. QED
  BY <1>1, <1>2, <1>3, <1>4 DEF Next

LEMMA PipeStep == IInv /\ IInv' /\ [Next]_vars => [Pipe!Move]_(Pipe!vars)
<1> SUFFICES ASSUME IInv, IInv', [Next]_vars PROVE [Pipe!Move]_(Pipe!vars)
  OBVIOUS
<1>1. CASE called = 1
  BY <1>1, TotalsGrow DEF Pipe!vars
<1>2. CASE called = 0
  <2>1. (called > 0) = FALSE /\ (called' > 0) \in BOOLEAN
    BY <1>2
  <2>2. /\ first \in Nat /\ second \in Nat /\ initial \in Nat
        /\ Capacity \in Nat
    BY TransferAssumption DEF IInv, TypeOK
  <2>3. first' \in Nat /\ second' \in Nat
    BY DEF IInv, TypeOK
  <2>4. /\ level' = initial' + first' - second'
        /\ 0 <= level' /\ level' <= Capacity
    BY DEF IInv, LevelSafe
  <2>. QED
    BY <2>1, <2>2, <2>3, <2>4, TotalsGrow DEF Pipe!Move
<1>. QED
  BY <1>1, <1>2 DEF IInv, CallFits

\* Bytes come out of the transfer in the number they went in, at most Capacity
\* are in between, and none move once handler_ has been called.
THEOREM TransferIsAPipe == Spec => PipeSpec
<1>1. Init => Pipe!Init
  BY PipeInit
<1>2. IInv /\ IInv' /\ [Next]_vars => [Pipe!Move]_(Pipe!vars)
  BY PipeStep
<1>. QED
  BY <1>1, <1>2, Invariance, PTL DEF Spec, PipeSpec, Pipe!Spec

-----------------------------------------------------------------------------
(* The inductive invariant of the loop, in named parts.                     *)

LoopTypes ==
    /\ pc \in {"read", "write", "done"}
    /\ initial \in 0 .. Capacity /\ first \in Nat /\ second \in Nat
    /\ level \in Int /\ left \in Nat
    /\ read_end \in BOOLEAN /\ write_end \in BOOLEAN /\ writeFailed \in BOOLEAN
    /\ canceled \in BOOLEAN

\* A loop leaves the handlers alone.
HandlersRest == ~reading /\ ~writing /\ called = 0

\* The water marks are where the ends have put them, and a loop whose two ends
\* have ended is done.
MarksFit ==
    /\ low_level = IF write_end THEN Capacity ELSE Low
    /\ high_level = IF read_end THEN 0 ELSE HighLevel
    /\ read_end /\ write_end => pc = "done"

\* Why the write end has ended, and what that leaves in the buffer.
LoopEndFits ==
    /\ write_end /\ ~writeFailed /\ ~canceled => ~TransferAll /\ second >= Minimum
    /\ Loop!Delivered

LoopInv == LoopTypes /\ HandlersRest /\ LevelSafe /\ MarksFit /\ LoopEndFits

EitherInv == (pc = "none" /\ IInv) \/ LoopInv

-----------------------------------------------------------------------------
LEMMA EitherInit == InitAll => EitherInv
<1> SUFFICES ASSUME InitAll PROVE EitherInv
  OBVIOUS
<1>1. CASE InitAsync
  BY <1>1, InitInv DEF InitAsync, EitherInv
<1>2. CASE InitSync
  <2>. USE <1>2, TransferAssumption DEF InitSync, Loop!Init
  <2>1. LoopTypes
    <3>1. /\ pc = "read" /\ initial \in 0 .. Capacity /\ first \in Nat
          /\ second \in Nat /\ level \in Int /\ left \in Nat
      OBVIOUS
    <3>. QED
      BY <3>1, Zenon DEF LoopTypes
  <2>2. HandlersRest /\ LevelSafe
    BY DEF HandlersRest, LevelSafe
  <2>3. MarksFit
    BY DEF MarksFit, HighLevel, Loop!HighLevel
  <2>4. LoopEndFits
    BY DEF LoopEndFits, Loop!Delivered
  <2>. QED
    BY <2>1, <2>2, <2>3, <2>4 DEF LoopInv, EitherInv
<1>. QED
  BY <1>1, <1>2 DEF InitAll

(* The steps of the loop, one lemma for each.                               *)

LEMMA LoopReadInv == LoopInv /\ Loop!Read /\ UNCHANGED handlers => LoopInv'
<1> SUFFICES ASSUME LoopInv, Loop!Read, UNCHANGED handlers PROVE LoopInv'
  OBVIOUS
<1>1. PICK ec \in {"ok", "eof", "error"}, n \in Nat :
        /\ Loop!ReadSome(ec, n) /\ n <= Capacity - level /\ n <= left
  <2>1. CASE \E n \in 1 .. Loop!Prepare : n <= left /\ Loop!ReadSome("ok", n)
    BY <2>1, TransferAssumption DEF Loop!Prepare, LoopInv, LoopTypes
  <2>2. CASE Loop!ReadSome("eof", 0) \/ Loop!ReadSome("error", 0)
    BY <2>2, TransferAssumption DEF LoopInv, LoopTypes, LevelSafe
  <2>. QED
    BY <2>1, <2>2 DEF Loop!Read
<1>0. ~read_end
  <2>. SUFFICES ASSUME read_end PROVE FALSE
    OBVIOUS
  <2>1. pc = "read" /\ (level < high_level \/ write_end)
    BY DEF Loop!Read, Loop!MayRead
  <2>2. high_level = 0 /\ ~write_end
    BY <2>1 DEF LoopInv, MarksFit
  <2>. QED
    BY <2>1, <2>2 DEF LoopInv, LevelSafe, LoopTypes
<1>. USE <1>0, <1>1, TransferAssumption, LevelsFit DEF LoopInv, Loop!ReadSome
<1>2. LoopTypes'
  <2>1. /\ pc' \in {"read", "write", "done"}
        /\ initial' \in 0 .. Capacity /\ first' \in Nat /\ second' \in Nat
        /\ level' \in Int /\ left' \in Nat
    BY DEF LoopTypes
  <2>2. /\ read_end' \in BOOLEAN /\ write_end' \in BOOLEAN
        /\ writeFailed' \in BOOLEAN /\ canceled' \in BOOLEAN
    BY Zenon DEF LoopTypes
  <2>. QED
    BY <2>1, <2>2, Zenon DEF LoopTypes
<1>3. HandlersRest' /\ LevelSafe'
  BY DEF HandlersRest, handlers, LoopTypes, LevelSafe
<1>4. MarksFit'
  BY DEF MarksFit, LoopTypes
<1>5. LoopEndFits'
  BY DEF LoopEndFits, Loop!Delivered, LoopTypes, MarksFit
<1>. QED
  BY <1>2, <1>3, <1>4, <1>5

LEMMA LoopWriteInv == LoopInv /\ Loop!Write /\ UNCHANGED handlers => LoopInv'
<1> SUFFICES ASSUME LoopInv, Loop!Write, UNCHANGED handlers PROVE LoopInv'
  OBVIOUS
<1>1. PICK ec \in {"ok", "error"}, n \in Nat : Loop!WriteSome(ec, n) /\ n <= level
  <2>1. CASE \E n \in 1 .. level : Loop!WriteSome("ok", n)
    BY <2>1, TransferAssumption DEF LoopInv, LoopTypes
  <2>2. CASE Loop!WriteSome("error", 0)
    BY <2>2, TransferAssumption DEF LoopInv, LoopTypes, LevelSafe
  <2>. QED
    BY <2>1, <2>2 DEF Loop!Write
<1>2. ~write_end
  BY TransferAssumption DEF LoopInv, LoopTypes, LevelSafe, MarksFit, Loop!Write,
     Loop!MayWrite
<1>. USE <1>1, <1>2, TransferAssumption, LevelsFit DEF LoopInv, Loop!WriteSome, Loop!StopWrites
<1>3. LoopTypes'
  <2>1. /\ pc' \in {"read", "write", "done"}
        /\ initial' \in 0 .. Capacity /\ first' \in Nat /\ second' \in Nat
        /\ level' \in Int /\ left' \in Nat
    BY DEF LoopTypes
  <2>2. /\ read_end' \in BOOLEAN /\ write_end' \in BOOLEAN
        /\ writeFailed' \in BOOLEAN /\ canceled' \in BOOLEAN
    BY Zenon DEF LoopTypes
  <2>. QED
    BY <2>1, <2>2, Zenon DEF LoopTypes
<1>4. HandlersRest' /\ LevelSafe'
  BY DEF HandlersRest, handlers, LoopTypes, LevelSafe
<1>5. MarksFit'
  BY DEF MarksFit, LoopTypes
<1>6. LoopEndFits'
  BY DEF LoopEndFits, Loop!Delivered, Loop!Complete, LoopTypes
<1>. QED
  BY <1>3, <1>4, <1>5, <1>6

LEMMA LoopSkipsInv ==
  LoopInv /\ (Loop!SkipRead \/ Loop!SkipWrite) /\ UNCHANGED handlers => LoopInv'
<1> SUFFICES ASSUME LoopInv, Loop!SkipRead \/ Loop!SkipWrite, UNCHANGED handlers
             PROVE  LoopInv'
  OBVIOUS
<1>. USE TransferAssumption, LevelsFit
     DEF LoopInv, Loop!SkipRead, Loop!SkipWrite, Loop!NothingToWrite, Loop!totals, Loop!levels
<1>1. LoopTypes' /\ HandlersRest' /\ LevelSafe'
  BY DEF LoopTypes, HandlersRest, handlers, LevelSafe
<1>2. MarksFit'
  BY DEF MarksFit, LoopTypes
<1>3. LoopEndFits'
  BY DEF LoopEndFits, Loop!Delivered, Loop!MayWrite, LoopTypes, LevelSafe
<1>. QED
  BY <1>1, <1>2, <1>3

LEMMA LoopCancelInv == LoopInv /\ Loop!Cancel /\ UNCHANGED handlers => LoopInv'
  BY DEF LoopInv, LoopTypes, HandlersRest, handlers, LevelSafe, MarksFit, LoopEndFits,
     Loop!Delivered, Loop!Cancel, Loop!totals, Loop!levels

LEMMA LoopStutterInv == LoopInv /\ UNCHANGED allVars => LoopInv'
  BY DEF LoopInv, LoopTypes, HandlersRest, LevelSafe, MarksFit, LoopEndFits,
     Loop!Delivered, allVars, vars, buffer, ends

LEMMA EitherNext == EitherInv /\ [NextAll]_allVars => EitherInv'
<1> SUFFICES ASSUME EitherInv, [NextAll]_allVars PROVE EitherInv'
  OBVIOUS
<1>1. CASE pc = "none" /\ IInv
  <2>1. [Next]_vars /\ pc' = pc
    BY <1>1 DEF NextAll, Async, LoopSteps, Loop!Next, Loop!Body, Loop!Read, Loop!SkipRead,
       Loop!Write, Loop!SkipWrite, Loop!Cancel, allVars
  <2>. QED
    BY <1>1, <2>1, NextInv DEF EitherInv
<1>2. CASE LoopInv
  <2>1. LoopSteps \/ UNCHANGED allVars
    BY <1>2 DEF NextAll, Async, LoopInv, LoopTypes
  <2>. QED
    BY <1>2, <2>1, LoopReadInv, LoopWriteInv, LoopSkipsInv, LoopCancelInv, LoopStutterInv
    DEF LoopSteps, Loop!Next, Loop!Body, EitherInv
<1>. QED
  BY <1>1, <1>2 DEF EitherInv

\* In every state of a transfer the invariant of its kind holds.
THEOREM EitherInvariance == SpecAll => []EitherInv
  BY EitherInit, EitherNext, PTL DEF SpecAll

-----------------------------------------------------------------------------
(* What the invariant gives.                                                *)

\* Neither kind over- or underruns the buffer (StreamTransfer.h:47, 61, 375, 399).
THEOREM BothLevelsSafe == SpecAll => []LevelSafe
<1>1. EitherInv => LevelSafe
  BY DEF EitherInv, IInv, LoopInv
<1>. QED
  BY <1>1, EitherInvariance, PTL

\* handler_ is called at most once, with nothing under way any more, and never
\* by a loop.
THEOREM BothCompleteOnce == SpecAll => []CompletesOnce
<1>1. EitherInv => CompletesOnce
  BY DEF EitherInv, IInv, CallFits, LoopInv, HandlersRest, CompletesOnce
<1>. QED
  BY <1>1, EitherInvariance, PTL

-----------------------------------------------------------------------------
(* Each kind delivers, and is the bounded pipe.                             *)

LEMMA TotalsOnlyGrow ==
  EitherInv /\ [NextAll]_allVars =>
    /\ initial' = initial /\ first <= first' /\ second <= second'
    /\ called = 1 => first' = first /\ second' = second /\ called' = called
    /\ pc = "done" => first' = first /\ second' = second /\ pc' = pc
    /\ write_end => second' = second
<1> SUFFICES ASSUME EitherInv, [NextAll]_allVars
             PROVE  /\ initial' = initial /\ first <= first' /\ second <= second'
                    /\ called = 1 =>
                         first' = first /\ second' = second /\ called' = called
                    /\ pc = "done" => first' = first /\ second' = second /\ pc' = pc
                    /\ write_end => second' = second
  OBVIOUS
<1>1. CASE pc = "none" /\ IInv
  <2>1. [Next]_vars
    BY <1>1 DEF NextAll, Async, LoopSteps, Loop!Next, Loop!Body, Loop!Read, Loop!SkipRead,
       Loop!Write, Loop!SkipWrite, Loop!Cancel, allVars
  <2>2. write_end => second' = second
    <3>. SUFFICES ASSUME write_end PROVE second' = second
      OBVIOUS
    <3>1. ~CallWrite /\ ~StartWrites /\ ~WriteCompletes
      BY <1>1 DEF CallWrite, StartWrites, WriteCompletes, MayWrite, IInv, SidesFit
    <3>. QED
      BY <2>1, <3>1 DEF Next, CallRead, StartReturns, ReadCompletes, Cancel,
         HandlerRead, vars, buffer
  <2>. QED
    BY <1>1, <2>1, <2>2, TotalsGrow
<1>2. CASE LoopInv
  <2>1. LoopSteps \/ UNCHANGED allVars
    BY <1>2 DEF NextAll, Async, LoopInv, LoopTypes
  <2>2. first \in Nat /\ second \in Nat /\ called = 0
    BY <1>2 DEF LoopInv, LoopTypes, HandlersRest
  <2>3. CASE Loop!Read
    BY <2>2, <2>3, <1>2 DEF Loop!Read, Loop!ReadSome, Loop!Prepare
  <2>4. CASE Loop!Write
    <3>1. ~write_end
      BY <1>2, <2>4, TransferAssumption DEF LoopInv, LoopTypes, LevelSafe, MarksFit,
         Loop!Write, Loop!MayWrite
    <3>. QED
      BY <2>2, <2>4, <3>1 DEF Loop!Write, Loop!WriteSome
  <2>5. CASE Loop!SkipRead \/ Loop!SkipWrite \/ Loop!Cancel \/ UNCHANGED allVars
    BY <2>2, <2>5 DEF Loop!SkipRead, Loop!SkipWrite, Loop!Cancel, Loop!totals, allVars, vars, buffer
  <2>. QED
    BY <2>1, <2>3, <2>4, <2>5 DEF LoopSteps, Loop!Next, Loop!Body
<1>. QED
  BY <1>1, <1>2 DEF EitherInv

\* What the pipes need of a state.
LEMMA LevelsOfPipe ==
  ASSUME EitherInv
  PROVE  /\ Capacity \in Nat /\ initial \in Nat /\ first \in Nat /\ second \in Nat
         /\ second <= initial + first /\ initial + first <= second + Capacity
         /\ called \in {0, 1}
<1>1. /\ initial \in Nat /\ first \in Nat /\ second \in Nat /\ level \in Int
      /\ LevelSafe /\ called \in {0, 1}
  BY TransferAssumption DEF EitherInv, IInv, TypeOK, CallFits, LoopInv, LoopTypes,
     HandlersRest
<1>. QED
  BY <1>1, TransferAssumption DEF LevelSafe

\* A step between two states of a pipe that is not done.
LEMMA MoveFits ==
  ASSUME NEW i \in Nat, NEW f \in Nat, NEW s \in Nat, NEW f1 \in Nat, NEW s1 \in Nat,
         NEW l1 \in Int, Capacity \in Nat, f <= f1, s <= s1,
         l1 = i + f1 - s1, 0 <= l1, l1 <= Capacity
  PROVE  /\ i + f1 \in Nat /\ i + f <= i + f1 /\ s1 \in Nat /\ s <= s1
         /\ s1 <= i + f1 /\ i + f1 <= s1 + Capacity
  OBVIOUS

LEMMA PipeSteps ==
  EitherInv /\ EitherInv' /\ [NextAll]_allVars =>
    [Pipe!Move]_(Pipe!vars) /\ [Loop!Pipe!Move]_(Loop!Pipe!vars)
<1> SUFFICES ASSUME EitherInv, EitherInv', [NextAll]_allVars
             PROVE  [Pipe!Move]_(Pipe!vars) /\ [Loop!Pipe!Move]_(Loop!Pipe!vars)
  OBVIOUS
<1>1. /\ initial \in Nat /\ first \in Nat /\ second \in Nat /\ called \in {0, 1}
      /\ Capacity \in Nat
  BY LevelsOfPipe
<1>2. /\ first' \in Nat /\ second' \in Nat /\ level' \in Int /\ called' \in {0, 1}
      /\ level' = initial' + first' - second' /\ 0 <= level' /\ level' <= Capacity
  BY TransferAssumption DEF EitherInv, IInv, TypeOK, CallFits, LoopInv, LoopTypes,
     HandlersRest, LevelSafe
<1>3. initial' = initial /\ first <= first' /\ second <= second'
  BY TotalsOnlyGrow
<1>4. /\ initial + first' \in Nat /\ initial + first <= initial + first'
      /\ second' \in Nat /\ second <= second'
      /\ second' <= initial + first' /\ initial + first' <= second' + Capacity
  <2>1. level' = initial + first' - second'
    BY <1>2, <1>3
  <2>. QED
    BY <1>1, <1>2, <1>3, <2>1, MoveFits
<1>5. [Pipe!Move]_(Pipe!vars)
  <2>1. CASE called = 1
    BY <2>1, TotalsOnlyGrow DEF Pipe!vars
  <2>2. CASE called = 0
    <3>1. (called > 0) = FALSE /\ (called' > 0) \in BOOLEAN
      BY <2>2
    <3>. QED
      BY <1>3, <1>4, <3>1 DEF Pipe!Move
  <2>. QED
    BY <1>1, <2>1, <2>2
<1>6. [Loop!Pipe!Move]_(Loop!Pipe!vars)
  <2>1. CASE pc = "done"
    BY <2>1, TotalsOnlyGrow DEF Loop!Pipe!vars
  <2>2. CASE pc # "done"
    <3>1. (pc = "done") = FALSE /\ (pc' = "done") \in BOOLEAN
      BY <2>2
    <3>. QED
      BY <1>3, <1>4, <3>1 DEF Loop!Pipe!Move
  <2>. QED
    BY <2>1, <2>2
<1>. QED
  BY <1>5, <1>6

LEMMA PipeInits == InitAll => Pipe!Init /\ Loop!Pipe!Init
<1> SUFFICES ASSUME InitAll PROVE Pipe!Init /\ Loop!Pipe!Init
  OBVIOUS
<1>1. /\ initial \in 0 .. Capacity /\ first = 0 /\ second = 0 /\ called = 0
      /\ pc # "done"
  BY DEF InitAll, InitAsync, Init, InitSync, Loop!Init
<1>. QED
  BY <1>1, TransferAssumption DEF Pipe!Init, Loop!Pipe!Init

\* Either kind takes bytes from the source and gives them to the sink in the
\* same number, at most Capacity of them in between, and none move once it is
\* done; the loop writes nothing after its write end (StreamTransfer.h:39-80).
THEOREM EitherIsAPipe == SpecAll => BothPipes
<1>1. EitherInv /\ [NextAll]_allVars =>
        [write_end => second' = second]_(Loop!vars)
  BY TotalsOnlyGrow
<1>2. SpecAll => Loop!NoWriteAfterEnd
  BY <1>1, EitherInvariance, PTL DEF SpecAll, Loop!NoWriteAfterEnd
<1>3. SpecAll => Loop!PipeSpec
  BY EitherInvariance, PipeInits, PipeSteps, PTL
  DEF SpecAll, Loop!PipeSpec, Loop!Pipe!Spec
<1>4. SpecAll => PipeSpec
  BY EitherInvariance, PipeInits, PipeSteps, PTL DEF SpecAll, PipeSpec, Pipe!Spec
<1>. QED
  BY <1>2, <1>3, <1>4 DEF BothPipes

\* Either kind that ends without a failed write, and was not canceled, has written
\* all it read, or its minimum (CompletionCondition.h:34, 56, StreamTransfer.h:39-80, 355-412).
THEOREM EitherDelivers == SpecAll => []BothDeliver
<1>1. EitherInv => BothDeliver
  <2>1. ASSUME pc = "none", IInv PROVE Delivered /\ Loop!Delivered
    BY <2>1 DEF IInv, EndFits, Loop!Delivered
  <2>2. ASSUME LoopInv PROVE Delivered /\ Loop!Delivered
    BY <2>2 DEF LoopInv, HandlersRest, LoopEndFits, Delivered
  <2>. QED
    BY <2>1, <2>2 DEF EitherInv, BothDeliver
<1>. QED
  BY <1>1, EitherInvariance, PTL
=============================================================================
