----------------------------- MODULE HttpStreams -----------------------------
(***************************************************************************)
(* Message bodies over one connection: the layers HttpSocket::set_source and   *)
(* set_sink put on the socket (LimitedSource, ChunkedSource, FilterSource;      *)
(* LimitedSink, ChunkedSink) while the messages Heads go from a sender to a     *)
(* receiver.  A call of read_some or write_some is a start and one step for     *)
(* every operation of the socket below, which moves any part of what it is      *)
(* asked for: a step that moves nothing is the error would_block.              *)
(***************************************************************************)
EXTENDS Integers, Sequences

CONSTANTS
    Heads,      \* the messages a connection may carry: [content_length: BOOLEAN,
                \* chunked: BOOLEAN, gzip: BOOLEAN, trailer: Nat,
                \* socket: BOOLEAN, through HttpChunkedSocket]
    Messages,   \* bound: messages on the connection
    Body,       \* bound: bytes of a body
    WireSize,   \* bound: bytes under way
    MaxRead, MaxWrite,      \* bounds: bytes of one read_some, of one write_some
    Radix,      \* of the chunk lengths: 16 in the code, small in an instance
    SyncGzip    \* a gzip body in chunks is read with read_some()

VARIABLES
    heads,      \* the heads of the messages, in their order
    sender,     \* [m, at: "head" | "body" | "eof", sent] the message it is in
    sink,       \* [limit, chunked, left, buf]: snd_left_, snd_buf_
    write,      \* [style, rest]: the call under way and what it has still to write
    wire,
    source,     \* [limit, chunked, left, buf, gzip, held, eof]: rcv_left_, rcv_buf_
    read,       \* [style, n]
    receiver    \* [m, at: "head" | "body", got]

vars == <<heads, sender, sink, write, wire, source, read, receiver>>

-----------------------------------------------------------------------------
(* The chunked transfer coding of ChunkedSink.cpp and ChunkedSource.cpp: how a *)
(* chunk is framed, and how the frame is read back a byte or two at a time, so  *)
(* that nothing behind it is taken.  A byte is a pair <<kind, value>>.          *)

Hex(d) == <<"hex", d>>
Cr == <<"cr", 0>>
Lf == <<"lf", 0>>
Crlf == <<Cr, Lf>>
Last(s) == s[Len(s)]

Digits[n \in Nat] ==
    IF n = 0 THEN << >> ELSE Append(Digits[n \div Radix], Hex(n % Radix))

make_chunk_head(n) == Digits[n] \o Crlf
make_chunk_tail == Crlf
make_chunk_eof == <<Hex(0)>> \o Crlf \o Crlf
-----------------------------------------------------------------------------
(***************************************************************************)
(* recv_crlf(buf, len): rcv is [left, buf].  buf is empty while data is read;  *)
(* otherwise it starts with a mark, 0 in a head, 1 in a tail and 2 in the       *)
(* trailer, and left is what must be read at least before its line can end.     *)
(* done: the line ended, left is then the length of the chunk, 0 behind a tail  *)
(* and Eof behind the last chunk.                                              *)
(***************************************************************************)
Eof == -1
Mark(n) == <<"mark", n>>
Line(n, left) == [left |-> left, buf |-> <<Mark(n)>>, done |-> FALSE]
Ended(left) == [left |-> left, buf |-> << >>, done |-> TRUE]

\* the digits behind the mark, up to the first character that is none
LengthIn(buf) ==
    LET Value[i \in 1 .. Len(buf), n \in Nat] ==
            IF buf[i][1] = "hex" THEN Value[i + 1, Radix * n + buf[i][2]] ELSE n
    IN  Value[2, 0]

EndOfLine(buf) ==
    CASE buf[1] = Mark(0) -> IF LengthIn(buf) = 0 THEN Line(2, 2) ELSE Ended(LengthIn(buf))
      [] buf[1] = Mark(1) -> Ended(0)
      [] buf[1] = Mark(2) -> IF Len(buf) = 3 THEN Ended(Eof) ELSE Line(2, 2)

\* mutant: a carriage return is not waited for
Least_AlwaysTwo(last) == 2

Least(last) == IF last = Cr THEN 1 ELSE 2

recv_crlf(rcv) ==
    IF rcv.buf = << >> THEN Line(rcv.left, 2)
    ELSE IF Last(rcv.buf) = Lf THEN EndOfLine(rcv.buf)
    ELSE [left |-> Least(Last(rcv.buf)), buf |-> rcv.buf, done |-> FALSE]
-----------------------------------------------------------------------------
Styles == {"sync", "async"}
NoRead == [style |-> "none", n |-> 0]
NoWrite == [style |-> "none", rest |-> << >>]
NoLimit == -1
Smaller(a, b) == IF a < b THEN a ELSE b
Take(s, n) == SubSeq(s, 1, n)
Drop(s, n) == SubSeq(s, n + 1, Len(s))

Start(m) == <<"head", m>>
Data(m) == [i \in 1 .. Body |-> <<"data", Body * m + i>>]
\* what the writer of a body with a length has at hand may be more than that
AtHand(m) == IF heads[m].content_length THEN Append(Data(m), <<"data", 0>>) ELSE Data(m)
\* the end of a body: another peer sends trailers behind the last chunk
EndText(h) ==
    LET Names == [i \in 1 .. 3 * h.trailer |->
                     CASE i % 3 = 1 -> <<"name", 0>> [] i % 3 = 2 -> Cr [] OTHER -> Lf]
    IN  IF h.trailer = 0 THEN make_chunk_eof ELSE <<Hex(0)>> \o Crlf \o Names \o Crlf
-----------------------------------------------------------------------------
(* set_source and set_sink *)

set_source(h) ==
    [limit |-> IF h.content_length THEN Body ELSE NoLimit, chunked |-> h.chunked,
     left |-> 0, buf |-> << >>, gzip |-> h.gzip, held |-> << >>, eof |-> FALSE]
set_sink(h) ==
    [limit |-> IF h.content_length THEN Body ELSE NoLimit, chunked |-> h.chunked,
     left |-> 0, buf |-> << >>]

NoSource == set_source([content_length |-> FALSE, chunked |-> FALSE, gzip |-> FALSE])
NoSink == set_sink([content_length |-> FALSE, chunked |-> FALSE])

StreamsInit ==
    /\ heads \in [1 .. Messages -> Heads]
    /\ sender = [m |-> 1, at |-> "head", sent |-> 0] /\ receiver = [m |-> 1, at |-> "head", got |-> << >>]
    /\ sink = NoSink /\ source = NoSource
    /\ write = NoWrite /\ read = NoRead /\ wire = << >>
-----------------------------------------------------------------------------
(* LimitedSource and LimitedSink: what is asked of the socket *)

Lowered(layer, n) == IF layer.limit = NoLimit THEN layer ELSE [layer EXCEPT !.limit = @ - n]
AtLimit(layer) == layer.limit = 0

Limited(layer, n) == IF layer.limit = NoLimit THEN n ELSE Smaller(n, layer.limit)
-----------------------------------------------------------------------------
(* ChunkedSink *)

\* a new chunk for what the call has to write
NewChunk(s, rest) ==
    IF s.chunked /\ s.buf = << >> /\ s.left = 0 /\ rest # << >>
    THEN [s EXCEPT !.left = Len(rest), !.buf = make_chunk_head(Len(rest))] ELSE s

WriteAsk(s, rest) ==
    IF ~s.chunked THEN Limited(s, Len(rest))
    ELSE IF s.buf # << >> THEN Len(s.buf)
    ELSE Smaller(s.left, Len(rest))

\* mutant: the tail is forgotten
AfterData_NoTail(s, n) == [s EXCEPT !.left = @ - n]

\* data of the chunk went out: the last of it has the tail behind it
AfterData(s, n) ==
    [s EXCEPT !.left = @ - n, !.buf = IF s.left = n THEN make_chunk_tail ELSE << >>]

(***************************************************************************)
(* One operation of the socket took n bytes.  [sink, rest, more]: whether the  *)
(* call goes on.                                                               *)
(***************************************************************************)
Sent(s, rest, n) ==
    IF ~s.chunked THEN [sink |-> Lowered(s, n), rest |-> Drop(rest, n), more |-> FALSE]
    ELSE IF s.buf # << >>
    THEN LET buf == Drop(s.buf, n)
             flushed == [s EXCEPT !.buf = buf]
         IN  [sink |-> NewChunk(flushed, rest), rest |-> rest,
              more |-> buf = << >> /\ rest # << >>]
    ELSE [sink |-> AfterData(s, n), rest |-> Drop(rest, n), more |-> s.left = n]

(***************************************************************************)
(* HttpChunkedSocket::send and its send_handler are the same two loops; the     *)
(* handler does not look at the error it is given, with which no byte went.     *)
(* send(eof) sends once what is in snd_buf_, and once all of it went no more     *)
(* may be sent: the number of bytes left in the chunk is -1.                    *)
(***************************************************************************)
send(s, rest, n) == Sent(s, rest, n)
send_handler(s, rest, n) == Sent(s, rest, n)
send_eof(s, n) ==
    [s EXCEPT !.buf = Drop(@, n), !.left = IF Len(s.buf) = n THEN -1 ELSE @]

SentBy(h, style, s, rest, n) ==
    CASE h.socket /\ style = "sync" -> send(s, rest, n)
      [] h.socket /\ style = "async" -> send_handler(s, rest, n)
      [] OTHER -> Sent(s, rest, n)

Sending(s, rest) ==
    IF s.chunked /\ s.buf # << >> THEN s.buf ELSE rest

Room == WireSize - Len(wire)
-----------------------------------------------------------------------------
(* The sender *)

WriteHead ==
    /\ sender.m <= Messages /\ sender.at = "head" /\ Room > 0
    /\ wire' = Append(wire, Start(sender.m))
    /\ sink' = set_sink(heads[sender.m])
    /\ sender' = [sender EXCEPT !.at = "body", !.sent = 0]
    /\ UNCHANGED <<heads, write, source, read, receiver>>

\* write_some and async_write_some; a call without data sends what is left in snd_buf_
StartWrite(style, n) ==
    LET data == AtHand(sender.m)
        rest == SubSeq(data, sender.sent + 1, sender.sent + n)
    IN  /\ sender.m <= Messages /\ sender.at = "body" /\ write = NoWrite
        /\ sender.sent + n <= Len(data)
        /\ n > 0 \/ sink.buf # << >>
        /\ ~AtLimit(sink)                       \* or the answer is eof at once
        /\ sink' = NewChunk(sink, rest)
        /\ write' = [style |-> style, rest |-> rest]
        /\ UNCHANGED <<heads, sender, wire, source, read, receiver>>

\* an operation of the socket ends: n = 0 is would_block, in a synchronous call
SendSome(n) ==
    LET r == SentBy(heads[sender.m], write.style, sink, write.rest, n)
    IN  /\ write # NoWrite
        /\ n <= Smaller(Room, WriteAsk(sink, write.rest))
        /\ n = 0 => write.style = "sync" \/ WriteAsk(sink, write.rest) = 0
        /\ wire' = wire \o Take(Sending(sink, write.rest), n)
        /\ sink' = r.sink
        /\ sender' = [sender EXCEPT !.sent = @ + Len(write.rest) - Len(r.rest)]
        /\ write' = IF r.more /\ n > 0 THEN [write EXCEPT !.rest = r.rest] ELSE NoWrite
        /\ UNCHANGED <<heads, source, read, receiver>>

\* write_eof: the caller has flushed the last tail, as its assertion asks
WriteEof ==
    /\ sender.m <= Messages /\ sender.at = "body" /\ write = NoWrite
    /\ \/ AtLimit(sink)
       \/ sink.chunked /\ sender.sent = Body /\ sink.left = 0 /\ sink.buf = << >>
    /\ sink' = [sink EXCEPT !.buf = IF sink.chunked THEN EndText(heads[sender.m]) ELSE << >>]
    /\ sender' = [sender EXCEPT !.at = "eof"]
    /\ UNCHANGED <<heads, write, wire, source, read, receiver>>

\* boost::asio::write in write_eof
SendEof(n) ==
    /\ sender.at = "eof" /\ n \in 1 .. Smaller(Room, Len(sink.buf))
    /\ wire' = wire \o Take(sink.buf, n)
    /\ sink' = IF heads[sender.m].socket THEN send_eof(sink, n) ELSE [sink EXCEPT !.buf = Drop(@, n)]
    /\ UNCHANGED <<heads, sender, write, source, read, receiver>>

\* reset_sink; HttpChunkedSocket::reset
NextMessage ==
    /\ sender.at = "eof" /\ sink.buf = << >>
    /\ sender' = [m |-> sender.m + 1, at |-> "head", sent |-> 0]
    /\ sink' = NoSink
    /\ UNCHANGED <<heads, write, wire, source, read, receiver>>
-----------------------------------------------------------------------------
(* ChunkedSource *)

Framed(s, rcv) == [s EXCEPT !.left = rcv.left, !.buf = rcv.buf]

\* start(): behind a chunk the head of the next one is read first
BeginChunk(s) ==
    IF s.chunked /\ s.buf = << >> /\ s.left = 0 THEN Framed(s, recv_crlf(s)) ELSE s

ReadAsk(s, n) ==
    IF ~s.chunked THEN Limited(s, n)
    ELSE IF s.buf # << >> THEN s.left
    ELSE IF s.left < 0 THEN n ELSE Smaller(n, s.left)

Got(s, out, ret) == [source |-> s, out |-> out, ret |-> ret]

\* data of the chunk came in
ChunkData(s, bytes) ==
    LET rest == [s EXCEPT !.left = @ - Len(bytes)]
    IN  IF rest.left = 0 THEN Framed(rest, recv_crlf([rest EXCEPT !.left = 1])) ELSE rest

(***************************************************************************)
(* private_read_some: one turn of its loop.  Got(source, the data, "more" |     *)
(* "return" | "eof").  Behind the last chunk rcv_left_ stays at -1.             *)
(***************************************************************************)
ReadLoop(s, bytes) ==
    LET line == [s EXCEPT !.buf = @ \o bytes, !.left = @ - Len(bytes)]
        rcv == recv_crlf(line)
    IN  IF s.buf = << >> THEN Got(ChunkData(s, bytes), bytes, "return")
        ELSE IF line.left > 0 THEN Got(line, << >>, "return")
        ELSE IF ~rcv.done THEN Got(Framed(line, rcv), << >>, "more")
        ELSE IF rcv.left = Eof THEN Got(Framed(line, rcv), << >>, "eof")
        ELSE Got(BeginChunk(Framed(line, rcv)), << >>, "more")

\* recv_handler::operator(): the same, and rcv_left_ is 0 again after the last chunk
RecvHandler(s, bytes) ==
    LET r == ReadLoop(s, bytes)
    IN  IF r.ret = "eof" THEN [r EXCEPT !.source.left = 0] ELSE r

\* HttpChunkedSocket::receive and its recv_handler are the same two
receive(s, bytes) == ReadLoop(s, bytes)
recv_handler(s, bytes) == RecvHandler(s, bytes)

\* what the layers below FilterSource make of bytes of the socket
Received(h, s, style, bytes) ==
    IF ~s.chunked THEN Got(Lowered(s, Len(bytes)), bytes, "return")
    ELSE IF h.socket THEN IF style = "sync" THEN receive(s, bytes) ELSE recv_handler(s, bytes)
    ELSE IF style = "sync" THEN ReadLoop(s, bytes)
    ELSE RecvHandler(s, bytes)
-----------------------------------------------------------------------------
(***************************************************************************)
(* FilterSource::filter_read: the decompressor gives any part of what it has   *)
(* taken in, and all of it once the source below has ended.  It gets n bytes    *)
(* of room; out is the number of bytes it gives.                               *)
(***************************************************************************)
FilterGives(s, n) ==
    LET most == Smaller(n, Len(s.held)) IN IF s.eof THEN {most} ELSE 0 .. most

Filtered(s, out) ==
    Got([s EXCEPT !.held = Drop(@, out)], Take(s.held, out),
        IF out = 0 /\ s.eof THEN "eof" ELSE "return")

\* BufferSource: the bytes that came in, and set_eof()
HeldWith(r) ==
    [r.source EXCEPT !.held = @ \o r.out, !.eof = @ \/ r.ret = "eof"]
-----------------------------------------------------------------------------
(* The receiver *)

\* the head was parsed: set_source
ReadHead ==
    /\ receiver.at = "head" /\ receiver.m <= Messages
    /\ wire # << >> /\ Head(wire) = Start(receiver.m)
    /\ wire' = Tail(wire)
    /\ source' = set_source(heads[receiver.m])
    /\ receiver' = [receiver EXCEPT !.at = "body", !.got = << >>]
    /\ UNCHANGED <<heads, sender, sink, write, read>>

\* the call ends with r; after eof the caller takes the layers off: reset_source
Answer(r) ==
    /\ read' = NoRead
    /\ IF r.ret = "eof"
       THEN /\ receiver' = [m |-> receiver.m + 1, at |-> "head",
                            got |-> receiver.got \o r.out]
            /\ source' = NoSource
       ELSE /\ receiver' = [receiver EXCEPT !.got = @ \o r.out]
            /\ source' = r.source

\* FilterSource::private_async_read_some after the end of the source below
FilterOnly(style) == source.gzip /\ source.eof /\ style = "async"

StartRead(style, n) ==
    /\ receiver.at = "body" /\ read = NoRead
    /\ style = "sync" => SyncGzip \/ ~(source.gzip /\ source.chunked)
    /\ IF FilterOnly(style)
       THEN \E out \in FilterGives(source, n) : Answer(Filtered(source, out))
       ELSE /\ read' = [style |-> style, n |-> n]
            /\ source' = BeginChunk(source)
            /\ UNCHANGED receiver
    /\ UNCHANGED <<heads, sender, sink, write, wire>>

\* the layers below answer r: the call goes on, or ends through FilterSource
Through(r) ==
    IF r.ret = "more"
    THEN /\ source' = r.source
         /\ UNCHANGED <<read, receiver>>
    ELSE IF ~source.gzip THEN Answer(r)
    ELSE LET s == HeldWith(r)
         IN  \E out \in FilterGives(s, read.n) : Answer(Filtered(s, out))

\* an operation of the socket ends
ReceiveSome(n) ==
    /\ read # NoRead /\ ~AtLimit(source)
    /\ n \in 1 .. Smaller(Len(wire), ReadAsk(source, read.n))
    /\ wire' = Drop(wire, n)
    /\ Through(Received(heads[receiver.m], source, read.style, Take(wire, n)))
    /\ UNCHANGED <<heads, sender, sink, write>>

\* the limit is reached: eof without the socket
LimitedEof ==
    /\ read # NoRead /\ AtLimit(source)
    /\ Through(Got(source, << >>, "eof"))
    /\ UNCHANGED <<heads, sender, sink, write, wire>>

\* a synchronous read finds nothing
WouldBlock ==
    /\ read.style = "sync" /\ wire = << >> /\ ~AtLimit(source)
    /\ read' = NoRead
    /\ UNCHANGED <<heads, sender, sink, write, wire, source, receiver>>
-----------------------------------------------------------------------------
Sends ==
    \/ WriteHead
    \/ \E style \in Styles, n \in 0 .. MaxWrite : StartWrite(style, n)
    \/ \E n \in 0 .. WireSize : SendSome(n)
    \/ WriteEof
    \/ \E n \in 1 .. WireSize : SendEof(n)
    \/ NextMessage

Reads ==
    \/ ReadHead
    \/ \E style \in Styles, n \in 1 .. MaxRead : StartRead(style, n)
    \/ \E n \in 1 .. WireSize : ReceiveSome(n)
    \/ LimitedEof
    \/ WouldBlock

StreamsNext == Sends \/ Reads

(***************************************************************************)
(* What is fair: both ends call again until the end of each body, and an       *)
(* operation of the socket that can move bytes again and again moves some: a    *)
(* synchronous write may find the connection full any number of times, not for  *)
(* ever.                                                                       *)
(***************************************************************************)
SenderGoesOn == WriteHead \/ WriteEof \/ NextMessage \/ \E n \in 1 .. WireSize : SendEof(n)
WriterCalls == \E style \in Styles, n \in 0 .. MaxWrite : StartWrite(style, n)
SinkSends == \E n \in 1 .. WireSize : SendSome(n)
ReceiverGoesOn == ReadHead \/ LimitedEof \/ \E n \in 1 .. WireSize : ReceiveSome(n)
ReaderCalls == \E style \in Styles, n \in 1 .. MaxRead : StartRead(style, n)
-----------------------------------------------------------------------------
(* The body arrives in its order and ends where it ends: eof comes behind its  *)
(* last byte, and the bytes behind it are those of the next message, none of    *)
(* them taken (ChunkedSource.cpp:35, LimitedSource.cpp:33).                     *)
BodyEndsExactly ==
    /\ receiver.at = "body" => /\ Len(receiver.got) <= Body
                               /\ receiver.got = Take(Data(receiver.m), Len(receiver.got))
    /\ receiver.at = "head" =>
           /\ receiver.m > 1 => receiver.got = Data(receiver.m - 1)
           /\ wire # << >> => Head(wire) = Start(receiver.m)

(* Every message is received to its end, whatever the sizes of the calls and of *)
(* what the socket moves (ChunkedSource.cpp:101, ChunkedSink.cpp:63).            *)
BodiesEnd == <>(receiver.m > Messages)
=============================================================================
