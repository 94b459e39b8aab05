---------------------------- MODULE MessageSocket ----------------------------
(***************************************************************************)
(* util::protocol::MessageSocket (src/protocol/MessageSocket.hpp): one reader  *)
(* for control messages (read_msg) and one for data messages (read_raw_msg) on  *)
(* one connection.  Alone, read_msg saves the data messages it meets; after     *)
(* set_read_parallel only read_raw_msg reads, and queues the control messages    *)
(* it meets.  A message is Parts parts, the first of which tells the parser      *)
(* how many there are; a step is one operation of the socket below.             *)
(***************************************************************************)
EXTENDS Naturals, Sequences

CONSTANTS
    MaxMessages,    \* bound: messages that come in
    MaxWrites,      \* bound: messages written
    Parallel,       \* the styles of read_msg after set_read_parallel
    SwitchAnyTime   \* set_read_parallel is called while a read_msg is under way

\* [flow: the messages that come in, come, taken: parts arrived and read,
\*  parallel, size, pos, ok: read_status_ and the parser,
\*  rcv: control messages whole in rcv_buf_, pend: entries of pend_rcv_sizes_,
\*  saved: messages in rcv_data_, resp: a handler waits in read_status_.resp,
\*  control, raw: the calls under way, due: handlers posted,
\*  given: messages decoded for a caller, out, snd: parts written and waiting in snd_buf_,
\*  wsize, wpos: write_status_, write: the call under way, broken: the connection,
\*  failed: an assert failed]
VARIABLE socket

Parts == 2
Classes == {"control", "data"}
Styles == {"sync", "async"}
Msg(i) == [id |-> i, class |-> socket.flow[i]]
Current == Msg(socket.taken \div Parts + 1)
Room == Len(socket.flow) * Parts
Available(s) == s.come - s.taken

MessageInit ==
    \E n \in 1 .. MaxMessages : \E flow \in [1 .. n -> Classes] :
        socket = [flow |-> flow, come |-> 0, taken |-> 0, parallel |-> FALSE,
                  size |-> 0, pos |-> 0, ok |-> FALSE, rcv |-> << >>, pend |-> 0,
                  saved |-> << >>, resp |-> FALSE, control |-> "none", raw |-> "none",
                  due |-> 0, given |-> << >>,
                  out |-> 0, snd |-> 0, wsize |-> 0, wpos |-> 0, write |-> "none",
                  broken |-> FALSE, failed |-> FALSE]

\* parser_.reset(): the head of a message is asked for
Fresh(s) == [s EXCEPT !.size = 1, !.pos = 0, !.ok = FALSE]
\* parser_.parse() of the head
Parsed(s) == [s EXCEPT !.size = Parts, !.ok = TRUE]
Idle(s) == [s EXCEPT !.size = 0]
Asserted(s, holds) == [s EXCEPT !.failed = @ \/ ~holds]
Give(s, m) == [s EXCEPT !.given = Append(@, m)]

\* read_some moved k parts
Moved(s, k) == [s EXCEPT !.taken = @ + k, !.pos = @ + k]
Whole(s) == s.pos = s.size

(***************************************************************************)
(* A read that gets no part ends its call, and read_status_ stays where it is:  *)
(* would_block of a synchronous one, or an error of the connection.            *)
(***************************************************************************)
EmptyHanded(style) == socket.broken \/ (style = "sync" /\ Available(socket) = 0)
-----------------------------------------------------------------------------
(* read_msg, async_read_msg and handle_read_msg without set_read_parallel *)

StartControl(style) ==
    /\ ~socket.parallel /\ socket.control = "none" /\ socket.due = 0
    /\ style = "async" => socket.size = 0       \* its assert: the caller keeps to one style
    /\ LET s == [socket EXCEPT !.control = style]
       IN  socket' = IF s.size = 0 THEN Fresh(s) ELSE s

\* save this message, and ask for the next
Saved(s, m) == Fresh([s EXCEPT !.saved = Append(@, m)])

ControlPart(k) ==
    LET s == Moved(socket, k)
    IN  /\ ~socket.parallel /\ socket.control # "none"
        /\ k \in 0 .. Available(socket) /\ k <= socket.size - socket.pos
        /\ k = 0 => EmptyHanded(socket.control)
        /\ socket' =
             IF k = 0 THEN [socket EXCEPT !.control = "none"]
             ELSE IF ~Whole(s) THEN s
             ELSE IF ~s.ok THEN Parsed(s)
             ELSE IF Current.class = "data" THEN Saved(s, Current)
             ELSE Idle(Give([s EXCEPT !.control = "none"], Current))

\* set_read_parallel: from a callback of the session, that is between two reads
SetReadParallel ==
    /\ ~socket.parallel
    /\ SwitchAnyTime \/ (socket.control = "none" /\ socket.size = 0)
    /\ socket' = [socket EXCEPT !.parallel = TRUE]
-----------------------------------------------------------------------------
(* read_raw_msg, async_read_raw_msg and handle_read_raw_msg *)

\* mutant: a data message may overtake control messages not yet handled
ControlFirst_Not == FALSE

\* control messages should be handled before data messages
ControlFirst == socket.pend > 0

TakeSaved ==
    /\ socket.parallel /\ socket.raw = "none" /\ ~ControlFirst /\ socket.saved # << >>
    /\ socket' = [Give(socket, Head(socket.saved)) EXCEPT !.saved = Tail(@)]

StartRaw(style) ==
    /\ socket.parallel /\ socket.raw = "none" /\ ~ControlFirst /\ socket.saved = << >>
    /\ style = "async" => socket.size = 0       \* its assert: the caller keeps to one style
    /\ LET s == [socket EXCEPT !.raw = style]
       IN  socket' = IF s.size = 0 THEN Fresh(s) ELSE s

(***************************************************************************)
(* read_status_.resp: the waiting handler decodes what is in rcv_buf_, and its  *)
(* caller hears of it later.  The size of the message stays in                  *)
(* pend_rcv_sizes_, and the handler in resp.                                   *)
(***************************************************************************)
HandleReadMsg(s) ==
    IF s.resp
    THEN [Give(Asserted(s, Len(s.rcv) = 1), s.rcv[1]) EXCEPT !.rcv = << >>, !.due = @ + 1]
    ELSE s

ControlCame(s, m) ==
    HandleReadMsg([s EXCEPT !.rcv = Append(@, m), !.pend = @ + 1])

RawPart(k) ==
    LET s == Moved(socket, k)
        ended == Idle([s EXCEPT !.raw = "none"])
    IN  /\ socket.raw # "none"
        /\ k \in 0 .. Available(socket) /\ k <= socket.size - socket.pos
        /\ k = 0 => EmptyHanded(socket.raw)
        /\ socket' =
             IF k = 0 THEN [socket EXCEPT !.raw = "none"]
             ELSE IF ~Whole(s) THEN s
             ELSE IF ~s.ok THEN Parsed(s)
             ELSE IF Current.class = "control" THEN ControlCame(ended, Current)
             ELSE Give(ended, Current)
-----------------------------------------------------------------------------
(* read_msg and async_read_msg after set_read_parallel *)

\* mutant: the size of the message stays in the queue
Popped_Kept(s) == [s EXCEPT !.rcv = Tail(@)]

Popped(s) == [s EXCEPT !.rcv = Tail(@), !.pend = @ - 1]

ReadParallel(style) ==
    /\ socket.parallel /\ socket.control = "none" /\ socket.due = 0
    /\ IF socket.rcv # << >>
       THEN LET s == Asserted(Popped(socket), socket.pend > 0)
                t == Give(s, Head(socket.rcv))
            IN  socket' = IF style = "sync" THEN t ELSE [t EXCEPT !.control = "async", !.due = @ + 1]
       ELSE /\ style = "async"                  \* a synchronous call would block
            /\ socket' = [socket EXCEPT !.resp = TRUE, !.control = "async"]

\* the posted handler runs
Responded ==
    /\ socket.due > 0
    /\ socket' = [socket EXCEPT !.due = @ - 1, !.control = "none"]
-----------------------------------------------------------------------------
(* write_msg, async_write_msg and handle_write_msg *)

StartWrite(style) ==
    /\ socket.write = "none" /\ socket.out \div Parts < MaxWrites
    /\ style = "async" => socket.wsize = 0      \* its assert: the caller keeps to one style
    /\ socket' = IF socket.wsize = 0
                 THEN [Asserted(socket, socket.snd = 0)
                         EXCEPT !.write = style, !.snd = Parts, !.wsize = Parts, !.wpos = 0]
                 ELSE [socket EXCEPT !.write = style]

WriteDone(s) == [s EXCEPT !.write = "none", !.wsize = 0]

WritePart(k) ==
    LET s == [socket EXCEPT !.out = @ + k, !.snd = @ - k, !.wpos = @ + k]
    IN  /\ socket.write # "none" /\ k \in 0 .. socket.snd
        /\ k = 0 => socket.write = "sync" \/ socket.snd = 0 \/ socket.broken
        /\ socket' = IF s.wpos = s.wsize THEN WriteDone(s)
                     ELSE IF k = 0 THEN [socket EXCEPT !.write = "none"]
                     ELSE s
-----------------------------------------------------------------------------
\* the peer's messages arrive
Arrive == ~socket.broken /\ socket.come < Room /\ socket' = [socket EXCEPT !.come = @ + 1]

\* the connection fails, and every read and write of it may from here on
Break == ~socket.broken /\ socket' = [socket EXCEPT !.broken = TRUE]

Reading ==
    \/ \E style \in Styles : StartControl(style)
    \/ \E k \in 0 .. Parts : ControlPart(k)
    \/ TakeSaved
    \/ \E style \in Styles : StartRaw(style)
    \/ \E k \in 0 .. Parts : RawPart(k)
    \/ \E style \in Parallel : ReadParallel(style)
    \/ Responded

MessageNext ==
    \/ Arrive
    \/ Break
    \/ Reading
    \/ SetReadParallel
    \/ \E style \in Styles : StartWrite(style)
    \/ \E k \in 0 .. Parts : WritePart(k)

\* what goes on: both readers call again, and what has arrived is read
RawCalls == TakeSaved \/ \E style \in Styles : StartRaw(style)
RawMoves == \E k \in 1 .. Parts : RawPart(k)
ControlCalls == \E style \in Parallel : ReadParallel(style)
-----------------------------------------------------------------------------
\* the messages of a class before message i
Earlier(i, class) == {h \in 1 .. i - 1 : socket.flow[h] = class}
\* the messages of a class among the first n given
GivenBefore(n, class) ==
    {socket.given[h].id : h \in {h \in 1 .. n : socket.given[h].class = class}}
IdsBefore(queue, n) == {queue[h].id : h \in 1 .. n}

\* m, of the messages that come in, is the next of its class behind ids
IsNext(m, ids) == m.id \in 1 .. Len(socket.flow) /\ m = Msg(m.id) /\ ids = Earlier(m.id, m.class)

GivenInTurn ==
    \A j \in 1 .. Len(socket.given) :
        LET m == socket.given[j]
        IN  /\ IsNext(m, GivenBefore(j - 1, m.class))
            /\ m.class = "data" => Earlier(m.id, "control") \subseteq GivenBefore(j - 1, "control")

QueuedInTurn(queue, class) ==
    \A j \in 1 .. Len(queue) :
        /\ queue[j].class = class
        /\ IsNext(queue[j], GivenBefore(Len(socket.given), class) \cup IdsBefore(queue, j - 1))

(* Each reader gets its messages once and in their order, a data message only   *)
(* behind the control messages before it, what is written is whole messages, and *)
(* no assert fails (MessageSocket.hpp:97, 129).                                 *)
EachReaderItsOwn ==
    /\ GivenInTurn /\ QueuedInTurn(socket.rcv, "control") /\ QueuedInTurn(socket.saved, "data")
    /\ ~socket.failed
    /\ socket.wsize = 0 => socket.snd = 0 /\ socket.out % Parts = 0

\* every message that comes in is handed out
HandedOut == Len(socket.given) = Len(socket.flow)
=============================================================================
