------------------------------ MODULE RtmpChunks ------------------------------
(***************************************************************************)
(* How util::protocol::RtmpMessage becomes chunks and is put together again    *)
(* (src/protocol/rtmp): the write context shortens the head of a message to     *)
(* what changed since the last one of its chunk stream, RtmpStreamBuffer cuts    *)
(* the body, RtmpChunkParser tells the MessageSocket how long each chunk is,     *)
(* and the read context fills in what the head leaves out.  The writer is this   *)
(* library's; a peer may also weave the chunks of several chunk streams and      *)
(* change the size of its chunks.                                               *)
(***************************************************************************)
EXTENDS Naturals, Sequences

CONSTANTS
    Flows,          \* <<chunk stream, message stream>> the messages are sent on
    Kinds,          \* <<type, length of the body>> of the messages
    ChunkSizes,     \* sizes of a chunk a peer may set
    MaxMessages,    \* bound: messages sent
    MaxTime,        \* bound: timestamps
    Limit,          \* the first number that three bytes cannot hold (2^24 in the code)
    Wrap,           \* the first number that four bytes cannot hold (2^32 in the code)
    Backwards,      \* a message may have an earlier time than the one before
    Resent,         \* a message may be one that was encoded before: its length is set
    SizeAnyTime     \* the size of the chunks may change in the middle of a message

\* [weaves, raw: how this peer sends and this end reads,
\*  once: heads are written once (to_chunk for a raw message), not twice,
\*  write, read: a chunk head for each chunk stream, wsize, rsize: chunk_size_,
\*  begun, known: message streams started at the writer and at the reader,
\*  lines: chunks sent and not read, per chunk stream, order: its chunks' order,
\*  expect: messages sent and not decoded, left, heads, data: RtmpChunkMessage per chunk
\*  stream, the head that began its message and the bodies that followed,
\*  pos: the chunk stream a raw read is in the middle of, last: what was sent and decoded,
\*  count, time: messages sent and the last time, failed: an assert failed,
\*  torn: the bytes on the wire are not those of the chunks]
VARIABLE rtmp

Control == 2            \* the chunk stream of the protocol's own messages
AllChunks == {flow[1] : flow \in Flows} \cup {Control}
NoStream == Wrap - 1
Begin == "begin"
SetSize == "size"
NoHead == [fmt |-> 0, timestamp |-> 0, message_length |-> 0, message_type_id |-> "none",
           message_stream_id |-> NoStream, extended_timestamp |-> 0, calc_timestamp |-> 0]
Message(chunk, stream, type, time, length, value) ==
    [chunk |-> chunk, stream |-> stream, type |-> type, time |-> time,
     length |-> length, value |-> value]
NoMessage == Message(0, 0, "none", 0, 0, 0)

RtmpInit ==
    \E weaves \in BOOLEAN, raw \in BOOLEAN, once \in BOOLEAN :
        /\ raw => ~weaves                   \* RtmpRawChunk asserts that chunks do not mix
        /\ rtmp = [weaves |-> weaves, raw |-> raw, once |-> once,
                   write |-> [c \in AllChunks |-> NoHead], read |-> [c \in AllChunks |-> NoHead],
                   wsize |-> 2, rsize |-> 2, begun |-> {0}, known |-> {0},
                   lines |-> [c \in AllChunks |-> << >>], order |-> << >>,
                   expect |-> [c \in AllChunks |-> << >>], left |-> [c \in AllChunks |-> 0],
                   heads |-> [c \in AllChunks |-> NoHead], data |-> [c \in AllChunks |-> << >>],
                   pos |-> 0, last |-> <<NoMessage, NoMessage>>,
                   count |-> 0, time |-> 0, failed |-> FALSE, torn |-> FALSE]
-----------------------------------------------------------------------------
(* RtmpChunkBasicHeader and RtmpChunkMessageHeader *)

BasicSize(id) == IF id < 64 THEN 1 ELSE IF id < 320 THEN 2 ELSE 3
MessageSize(fmt) == CASE fmt = 0 -> 11 [] fmt = 1 -> 7 [] fmt = 2 -> 3 [] OTHER -> 0
Extended(head) == head.fmt # 3 /\ head.timestamp = Limit - 1
HeadSize(id, head) == BasicSize(id) + MessageSize(head.fmt) + (IF Extended(head) THEN 4 ELSE 0)

\* what serialize writes and reads again: the fields of this format
Short(head) == head.timestamp % Limit
Serialized(head) ==
    [head EXCEPT !.timestamp = IF head.fmt = 3 THEN 0 ELSE Short(head),
                 !.extended_timestamp = IF Extended(head) THEN @
                                        ELSE IF head.fmt = 3 THEN 0 ELSE Short(head),
                 !.message_length = IF head.fmt < 2 THEN @ ELSE 0,
                 !.message_type_id = IF head.fmt < 2 THEN @ ELSE "none",
                 !.message_stream_id = IF head.fmt = 0 THEN @ ELSE NoStream,
                 !.calc_timestamp = 0]

Changed(h, m) == m.type # h.message_type_id \/ m.length # h.message_length
Step(h, m) == (m.time + Wrap - h.calc_timestamp) % Wrap

\* mutant: the time is not compared with where the last step leads
dec_AlwaysThree(h, m) ==
    LET fmt == IF m.stream # h.message_stream_id THEN 0 ELSE IF Changed(h, m) THEN 1 ELSE 3
    IN  [h EXCEPT !.fmt = fmt, !.message_length = m.length, !.message_type_id = m.type,
                  !.message_stream_id = m.stream, !.calc_timestamp = m.time,
                  !.extended_timestamp = m.time, !.timestamp = m.time]

\* the head h of the chunk stream becomes that of message m
dec(h, m) ==
    LET known == m.stream = h.message_stream_id
        same == known /\ ~Changed(h, m)
        fmt == IF ~known THEN 0
               ELSE IF ~same THEN 1
               ELSE IF m.time = (h.calc_timestamp + h.extended_timestamp) % Wrap THEN 3
               ELSE 2
        time == IF fmt = 0 THEN m.time ELSE IF fmt = 3 THEN h.extended_timestamp ELSE Step(h, m)
        full == [h EXCEPT !.fmt = fmt, !.message_length = m.length, !.message_type_id = m.type,
                          !.message_stream_id = m.stream, !.calc_timestamp = m.time,
                          !.extended_timestamp = time, !.timestamp = time]
    IN  IF m.length = 0
        THEN [h EXCEPT !.fmt = IF known THEN 1 ELSE 0, !.message_length = 0]
        ELSE IF time >= Limit               \* & 0xff000000
             THEN [full EXCEPT !.fmt = 0, !.timestamp = m.time, !.extended_timestamp = m.time]
             ELSE full

\* the head h of the chunk stream at the reader, after the head r
add(h, r) ==
    [h EXCEPT
        !.timestamp = IF r.fmt < 3 THEN r.timestamp ELSE @,
        !.extended_timestamp = IF r.fmt < 3 THEN r.extended_timestamp ELSE @,
        !.message_length = IF r.fmt < 2 THEN r.message_length ELSE @,
        !.message_type_id = IF r.fmt < 2 THEN r.message_type_id ELSE @,
        !.message_stream_id = IF r.fmt = 0 THEN r.message_stream_id ELSE @,
        !.calc_timestamp = IF r.fmt = 0 THEN r.extended_timestamp
                           ELSE IF r.fmt = 3 THEN (@ + h.extended_timestamp) % Wrap
                           ELSE (@ + r.extended_timestamp) % Wrap]
-----------------------------------------------------------------------------
(* RtmpMessage::to_data: the head is written twice, first without the length *)

\* RtmpStreamBuffer::xsputn: the bodies of the chunks
Pieces(length, size) ==
    LET n == IF length = 0 THEN 1 ELSE (length + size - 1) \div size
    IN  [i \in 1 .. n |-> IF i < n THEN size ELSE length - size * (n - 1)]

\* the MessageHelper writes the head again over the first, which must be as long
to_data(s, m, lead) ==
    LET first == dec(s.write[m.chunk], [m EXCEPT !.length = lead])
        second == dec(IF s.once THEN s.write[m.chunk] ELSE first, m)
        bodies == Pieces(m.length, s.wsize)
        chunk(i) == [head |-> IF i = 1 THEN Serialized(second) ELSE [NoHead EXCEPT !.fmt = 3],
                     body |-> bodies[i]]
    IN  [s EXCEPT !.lines[m.chunk] = @ \o [i \in 1 .. Len(bodies) |-> chunk(i)],
                  !.order = @ \o [i \in 1 .. Len(bodies) |-> m.chunk],
                  !.expect[m.chunk] = Append(@, m),
                  !.write[m.chunk] = second,
                  !.torn = @ \/ (~s.once /\ HeadSize(m.chunk, first) # HeadSize(m.chunk, second))]

StreamBegin(s, stream) == [to_data(s, Message(Control, 0, Begin, 0, 1, stream), 0)
                             EXCEPT !.begun = @ \cup {stream}]

\* RtmpMessageVector::to_data: a message stream begins before its first message
Sent(s, m, lead) ==
    to_data(IF m.stream \in s.begun THEN s ELSE StreamBegin(s, m.stream), m, lead)

Unread(s) == \E c \in AllChunks : s.expect[c] # << >>

Send ==
    /\ rtmp.count < MaxMessages
    /\ \E flow \in Flows, kind \in Kinds,
          time \in (IF Backwards THEN 0 ELSE rtmp.time) .. MaxTime :
          \E lead \in {0} \cup (IF Resent THEN {kind[2]} ELSE {}) :
              rtmp' = [Sent(rtmp, Message(flow[1], flow[2], kind[1], time, kind[2], 0), lead)
                         EXCEPT !.count = @ + 1, !.time = time]

\* behind the message that sets it, the chunks have another size
Resizing(s) == \E i \in 1 .. Len(s.expect[Control]) : s.expect[Control][i].type = SetSize

\* a peer sets the size of its chunks
SendChunkSize ==
    /\ rtmp.count < MaxMessages /\ ~rtmp.raw
    /\ SizeAnyTime \/ ~rtmp.weaves \/ ~Unread(rtmp)
    /\ \E size \in ChunkSizes \ {rtmp.wsize} :
           rtmp' = [to_data(rtmp, Message(Control, 0, SetSize, 0, 1, size), 0)
                      EXCEPT !.count = @ + 1, !.wsize = size]
-----------------------------------------------------------------------------
(* RtmpChunkParser, RtmpChunk::from_data, RtmpSocket::read_msg and read_raw_msg *)

Lesser(a, b) == IF a < b THEN a ELSE b

\* what is left of the message this chunk is of, with this chunk
left_size(s, c, head) ==
    IF head.fmt < 2 THEN head.message_length
    ELSE IF s.left[c] = 0 THEN s.read[c].message_length ELSE s.left[c]

\* RtmpChunkParser::parse(): how long the chunk is
Asked(s, c, head) == HeadSize(c, head) + Lesser(left_size(s, c, head), s.rsize)

\* put_data: the chunk is added to its message; finish
AfterChunk(s, c, chunk) ==
    LET left == left_size(s, c, chunk.head)
    IN  [s EXCEPT !.left[c] = IF left <= s.rsize THEN 0 ELSE left - s.rsize,
                  !.heads[c] = IF s.data[c] = << >> THEN chunk.head ELSE @,
                  !.data[c] = Append(@, chunk.body),
                  !.failed = @ \/ (chunk.head.fmt < 2 /\ s.left[c] # 0)
                               \/ (s.raw /\ s.pos \notin {0, c}),
                  !.pos = c,
                  !.read[c].message_type_id = IF chunk.head.fmt < 2 THEN chunk.head.message_type_id
                                              ELSE @]

\* RtmpChunk::finish: the message is whole
Finished(s, c) == s.left[c] = 0

Bytes(bodies) == LET sum[i \in 0 .. Len(bodies)] == IF i = 0 THEN 0 ELSE sum[i - 1] + bodies[i]
                 IN  sum[Len(bodies)]

\* RtmpMessage::from_data: the body is read through an RtmpStreamBuffer
Decoded(s, c) ==
    LET head == add(s.read[c], s.heads[c])
        sent == Head(s.expect[c])
        m == Message(c, head.message_stream_id, head.message_type_id, head.calc_timestamp,
                     head.message_length, sent.value)
    IN  [s EXCEPT !.read[c] = head, !.last = <<sent, m>>,
                  !.expect[c] = Tail(@), !.data[c] = << >>, !.pos = 0,
                  !.failed = @ \/ Bytes(s.data[c]) # head.message_length
                               \/ \E i \in 1 .. Len(s.data[c]) - 1 : s.data[c][i] # s.rsize]

process_protocol_message(s, m) ==
    CASE m.type = SetSize -> [s EXCEPT !.rsize = m.value]
      [] m.type = Begin -> [s EXCEPT !.known = @ \cup {m.value}]
      [] OTHER -> s

Receive(c) ==
    LET chunk == Head(rtmp.lines[c])
        at == CHOOSE i \in 1 .. Len(rtmp.order) :
                  rtmp.order[i] = c /\ \A j \in 1 .. i - 1 : rtmp.order[j] # c
        s == AfterChunk([rtmp EXCEPT !.lines[c] = Tail(@),
                                     !.order = SubSeq(@, 1, at - 1) \o SubSeq(@, at + 1, Len(@)),
                                     !.torn = @ \/ Asked(rtmp, c, chunk.head)
                                                     # HeadSize(c, chunk.head) + chunk.body],
                        c, chunk)
    IN  /\ rtmp.lines[c] # << >>
        /\ \/ at = 1
           \/ rtmp.weaves /\ (c = Control \/ ~Resizing(rtmp))
        /\ rtmp' = IF Finished(s, c)
                   THEN LET t == Decoded(s, c) IN process_protocol_message(t, t.last[2])
                   ELSE s

RtmpNext ==
    /\ ~rtmp.failed /\ ~rtmp.torn
    /\ \/ Send
       \/ SendChunkSize
       \/ \E c \in AllChunks : Receive(c)
-----------------------------------------------------------------------------
(* Every message is read as it was sent: the head that leaves out what did not   *)
(* change, the chunks it was cut into and the chunk streams woven between do     *)
(* not change it, every chunk is as long as the parser asks                      *)
(* (RtmpChunkHeader.cpp:11-89, RtmpChunkParser.cpp:59-70), and its stream was     *)
(* begun before (RtmpSocket.cpp:133).                                           *)
ReadAsSent ==
    /\ rtmp.last[1] = rtmp.last[2]
    /\ ~rtmp.failed /\ ~rtmp.torn
    /\ ~rtmp.weaves => rtmp.last[2].stream \in rtmp.known
=============================================================================
