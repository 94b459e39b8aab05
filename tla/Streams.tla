------------------------------- MODULE Streams -------------------------------
(***************************************************************************)
(* The layers of a stream: the bodies of HttpStreams over a connection, a       *)
(* FilterSink with its callers, a source or sink opened by url, or the pointers  *)
(* streams share.  They share no state, so a behaviour is of one.                *)
(*                                                                         *)
(* util::stream::FilterSink (src/stream/FilterSink.cpp), of this module, is a     *)
(* compressor in front of a sink.  What the compressor gives out waits in buf_    *)
(* until the sink takes it; a call that writes may leave some of it there.  The    *)
(* compressor is a queue that gives any part of what it has.                       *)
(***************************************************************************)
EXTENDS HttpStreams

CONSTANTS
    Absent,     \* the state of a layer a behaviour has not
    Written,    \* bound: bytes the callers of the filter write
    MaxCall,    \* bound: bytes of one call, each in a buffer of its own
    Throws,     \* <<style, n>>: in a call of that style the compressor may throw behind n buffers
    Garbage     \* the values the member has_write_ of a write_handler may start with
CONSTANTS \* of the urls and of the pointers
          Length, MaxWritten, Begins, Shapes, Protocols, Bounded, MaxBehind, Oddities,
          Handles, Objects, Blocks, MaxBlocks, Early

\* filter is [inner: bytes in the compressor, buf: in buf_, out: what the sink took,
\*            told: the number of bytes the callers were told are written, call]
VARIABLES filter, url, shared

Url    == INSTANCE UrlStreams
Shared == INSTANCE SharedPointers
-----------------------------------------------------------------------------
(* FilterSink *)

NoCall == [style |-> "none", data |-> << >>, at |-> "", has_write |-> TRUE, bytes |-> 0,
           threw |-> FALSE]
Bytes(from, n) == [i \in 1 .. n |-> from + i]
Behind(s, n) == SubSeq(s, n + 1, Len(s))

FilterInit == filter = [inner |-> << >>, buf |-> << >>, out |-> << >>, told |-> 0, call |-> NoCall]

\* the buffers of the call filter_write may pass on: all, or those before the one that throws
Passed(f) == LET n == Len(f.call.data)
             IN  {n} \cup {k \in 0 .. n - 1 : <<f.call.style, k>> \in Throws}

\* filter_write: the compressor takes k of the buffers, and j bytes of it come out
filter_write(f, k, j) ==
    LET all == f.inner \o SubSeq(f.call.data, 1, k)
    IN  [f EXCEPT !.inner = Behind(all, j), !.buf = @ \o SubSeq(all, 1, j),
                  !.call.bytes = k, !.call.threw = k < Len(f.call.data)]

Outs(f, k) == 0 .. Len(f.inner) + k

Return(f, n) == [f EXCEPT !.told = @ + n, !.call = NoCall]

\* consume
Consumed(f, n) == [f EXCEPT !.out = @ \o SubSeq(f.buf, 1, n), !.buf = Behind(@, n)]

Call(style, n, has) ==
    [style |-> style, data |-> Bytes(filter.told, n), has_write |-> has, bytes |-> 0,
     threw |-> FALSE,
     at |-> IF style = "sync" THEN "before" ELSE "io"]
-----------------------------------------------------------------------------
(* private_write_some *)

WriteSome(n) ==
    /\ filter.call = NoCall /\ filter.told + n <= Written
    /\ filter' = [filter EXCEPT !.call = Call("sync", n, TRUE)]

\* the sink takes n bytes of buf_
SinkTakes(n) ==
    /\ filter.call.style = "sync" /\ n \in 1 .. Len(filter.buf)
    /\ filter' = Consumed(filter, n)

\* before filter_write an error ends the call, behind it the rest waits for the next one
SinkFails(f) == Return(f, IF f.call.at = "before" THEN 0 ELSE f.call.bytes)

Fails ==
    /\ filter.call.style = "sync" /\ filter.buf # << >>
    /\ filter' = SinkFails(filter)

\* buf_ is empty: the data goes into the compressor, or the call ends; one that threw has written
\* nothing, it says
Flushed ==
    /\ filter.call.style = "sync" /\ filter.buf = << >>
    /\ IF filter.call.at = "before"
       THEN \E k \in Passed(filter) : \E j \in Outs(filter, k) :
                LET w == filter_write(filter, k, j)
                IN  filter' = IF w.call.threw THEN Return(w, 0) ELSE [w EXCEPT !.call.at = "after"]
       ELSE filter' = Return(filter, filter.call.bytes)
-----------------------------------------------------------------------------
(* write_handler *)

\* start(): nothing sets has_write_ here; a call with nothing to wait for is told in a post
AsyncWriteSome(n, has) ==
    LET f == [filter EXCEPT !.call = Call("async", n, has)]
    IN  /\ filter.call = NoCall /\ filter.told + n <= Written
        /\ IF f.buf # << >> THEN filter' = f
           ELSE \E k \in Passed(f) : \E j \in Outs(f, k) :
                    filter' = [filter_write(f, k, j) EXCEPT !.call.at = "posted"]

\* behind filter_write operator() waits for the sink, or tells the caller
Wrote(w) == IF w.buf # << >> /\ ~w.call.threw THEN w ELSE Return(w, w.call.bytes)

\* operator(): n bytes of buf_ were taken, or nothing and the sink failed; what filter_write threw
\* at the start comes with the post
HandlerCalled(n, failed) ==
    LET f == [Consumed(filter, n) EXCEPT !.call.at = "io"]
    IN  /\ filter.call.style = "async" /\ n \in 0 .. Len(filter.buf)
        /\ (n = 0) = (failed \/ filter.call.at = "posted")
        /\ filter.call.at = "posted" => ~failed
        /\ IF failed \/ f.call.threw THEN filter' = Return(f, f.call.bytes)
           ELSE IF f.buf # << >> THEN filter' = f
           ELSE IF f.call.has_write THEN filter' = Return(f, f.call.bytes)
           ELSE \E k \in Passed(f) : \E j \in Outs(f, k) :
                    filter' = Wrote([filter_write(f, k, j) EXCEPT !.call.has_write = TRUE])

FilterNext ==
    \/ \E n \in 1 .. MaxCall : WriteSome(n)
    \/ \E n \in 1 .. Written : SinkTakes(n)
    \/ Fails
    \/ Flushed
    \/ \E n \in 1 .. MaxCall, has \in Garbage : AsyncWriteSome(n, has)
    \/ \E n \in 0 .. Written, failed \in BOOLEAN : HandlerCalled(n, failed)
-----------------------------------------------------------------------------
Init ==
    \/ StreamsInit /\ filter = Absent /\ url = Absent /\ shared = Absent
    \/ /\ StreamsInit /\ heads = (CHOOSE h \in [1 .. Messages -> Heads] : TRUE)
       /\ \/ FilterInit /\ url = Absent /\ shared = Absent
          \/ Url!UrlInit /\ filter = Absent /\ shared = Absent
          \/ Shared!SharedInit /\ filter = Absent /\ url = Absent

Connected == filter = Absent /\ url = Absent /\ shared = Absent

Next ==
    \/ Connected /\ StreamsNext /\ UNCHANGED <<filter, url, shared>>
    \/ filter # Absent /\ FilterNext /\ UNCHANGED <<vars, url, shared>>
    \/ url # Absent /\ Url!UrlNext /\ UNCHANGED <<vars, filter, shared>>
    \/ shared # Absent /\ Shared!SharedNext /\ UNCHANGED <<vars, filter, url>>

Spec == Init /\ [][Next]_<<vars, filter, url, shared>>

Fairness ==
    /\ WF_vars(Connected /\ SenderGoesOn) /\ WF_vars(Connected /\ WriterCalls)
    /\ SF_vars(Connected /\ SinkSends)
    /\ WF_vars(Connected /\ ReceiverGoesOn) /\ WF_vars(Connected /\ ReaderCalls)
FairSpec == Spec /\ Fairness
-----------------------------------------------------------------------------
(* Between two calls every byte a FilterSink reported as written is once with    *)
(* the sink, in buf_ or in the compressor, in its order (FilterSink.cpp:171).     *)
FilterKeepsAll ==
    filter # Absent /\ filter.call = NoCall =>
        filter.out \o filter.buf \o filter.inner = Bytes(0, filter.told)

(* On a connection every body is received to its end (ChunkedSource.cpp:101).    *)
Ends == ~Connected \/ BodiesEnd

(* What an opened url gives and takes is its text from where it was opened, and   *)
(* total() leaves it there (FileSource.cpp:70).                                    *)
UrlInPlace == url # Absent => Url!UrlKeepsItsPlace

(* Who holds a StreamBuffers, a StreamHandler or a RefThis finds what it put there  *)
(* (StreamBuffers.h:191).                                                          *)
SharedIsKept == shared # Absent => Shared!HoldersKeepTheirs

(* What a sink, a buffer or a handler was given to hold it holds, once.             *)
HeldIsKept == FilterKeepsAll /\ SharedIsKept

\* the heads of the instance
Fixed == [content_length |-> TRUE, chunked |-> FALSE, gzip |-> FALSE, trailer |-> 0,
          socket |-> FALSE]
FixedGzip == [Fixed EXCEPT !.gzip = TRUE]
InChunks == [Fixed EXCEPT !.content_length = FALSE, !.chunked = TRUE]
ChunksGzipTrailer == [InChunks EXCEPT !.gzip = TRUE, !.trailer = 1]
ThroughSocket == [InChunks EXCEPT !.socket = TRUE]
\* the urls of the instance
FromAnywhere == {0, 2, -1}
ShortAndLong == {<<1>>, <<2, 1>>}
Registered == {<<FALSE, "file">>, <<TRUE, "file">>, <<FALSE, "pipe">>, <<TRUE, "pipe">>,
               <<FALSE, "http">>, <<TRUE, "http">>, <<FALSE, "rtmp">>}
OneAndTwo == {<<1>>, <<2, 3>>}
OnlyTheFirst == {<<"sync", 0>>, <<"async", 0>>, <<"async", 1>>}
FewHeads == {Fixed, FixedGzip, InChunks, ThroughSocket, ChunksGzipTrailer}
=============================================================================
