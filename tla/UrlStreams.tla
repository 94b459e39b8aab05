----------------------------- MODULE UrlStreams ------------------------------
(***************************************************************************)
(* Sources and sinks opened by url (src/stream/url, UrlBase.cpp, Source.cpp,  *)
(* Sink.cpp): a factory makes the object of a protocol, open places it in the  *)
(* text behind the url, every read or write moves on in it, and what is called *)
(* asynchronously is done in the call and told by a handler posted to the       *)
(* io_service.  Bytes are numbered, so each shows where it came from.           *)
(***************************************************************************)
EXTENDS Integers, Sequences, SequencesExt

CONSTANTS
    Length,     \* bytes of the text behind the url
    MaxWritten, \* bound: bytes written to a sink
    Begins,     \* the positions a url is opened at
    Shapes,     \* the sizes of the buffers of one call
    Protocols,  \* <<is_sink, proto>> of the objects asked for
    Bounded,    \* the protocols whose urls are opened with an end
    MaxBehind,  \* bound: requests that wait behind the one an http stream reads
    Oddities    \* "rejected": a pipe opened again with a range, or on a descriptor it cannot have;
                \* "stale": the ec given to open is already set;
                \* "endless": a write to an http sink is tried;
                \* "mixed": a call that returns its bytes before a handler that was posted tells its own

Unlimited == -1     \* boost::uint64_t(-1)

\* [is_sink, proto, is_open, live: the file, descriptor or connection is open,
\*  http: "kept" open and another may follow, "last" none may, "broken" or "closed",
\*  behind: the requests that wait, <<part, is_async>>,
\*  text, at, from: where the last open placed it, end, answer: of the last open,
\*  wrote: how many bytes were written, told: bytes told to the callers, posted: completions,
\*  returns: no call is endless]
VARIABLE url

Numbered(from, n) == [i \in 1 .. n |-> from + i]

Nothing == [is_sink |-> FALSE, proto |-> "none", is_open |-> FALSE, live |-> FALSE, text |-> << >>,
            http |-> "closed", behind |-> << >>,
            at |-> 0, from |-> 0, end |-> Unlimited, answer |-> FALSE, told |-> << >>,
            wrote |-> 0, posted |-> << >>, returns |-> TRUE]

UrlInit == url = Nothing

\* ClassFactory::create: the protocols registered with UTIL_REGISTER_URL_SOURCE and _SINK
creator_map == {"file", "http", "pipe"}

Create(p) ==
    /\ url.proto = "none"
    /\ url' = IF p[2] \in creator_map
              THEN [Nothing EXCEPT !.is_sink = p[1], !.proto = p[2], !.text = Numbered(0, Length)]
              ELSE [Nothing EXCEPT !.proto = "unknown"]     \* unknown_url_proto
-----------------------------------------------------------------------------
(* open *)

Placed(u, beg, end) ==
    [u EXCEPT !.is_open = TRUE, !.live = TRUE, !.at = beg, !.from = beg, !.end = end, !.told = << >>]
Closed(u) == [u EXCEPT !.live = FALSE, !.is_open = FALSE, !.answer = FALSE]

\* what comes of an open: "lost", nothing there, or no connection; "kept", found;
\* over http also "last", found on a connection that ends with it, and "refused", an error
\* that such a server tells in a head with nothing behind it
Outcomes(u) == {"lost", "kept"} \cup (IF u.proto = "http" THEN {"last", "refused"} ELSE {})

\* FileSource::open: an end is not looked at
file_open(u, beg, end, outcome) ==
    IF outcome # "lost" THEN [Placed(u, beg, end) EXCEPT !.answer = TRUE] ELSE Closed(u)

\* FileSink::open: Unlimited is the end of the file
file_sink_open(u, beg, end, outcome) ==
    file_open(u, IF beg = Unlimited THEN Len(u.text) ELSE beg, end, outcome)

\* PipeSource::open, and PipeSink's: a pipe is where it is; is_open_ outlives a rejected range
\* and an assign that throws, and ec keeps what it held
pipe_open(u, beg, end, outcome, ec_is_set) ==
    IF (beg # 0 /\ end # Unlimited) \/ outcome = "lost" THEN [u EXCEPT !.live = FALSE, !.answer = FALSE]
    ELSE [Placed(u, u.at, Unlimited) EXCEPT !.answer = ~ec_is_set]

\* build_request: no range, an open one, or one with an end
RangeAsked(beg, end) ==
    IF beg = 0 /\ end = Unlimited THEN << >>
    ELSE IF end = Unlimited THEN << beg >> ELSE << beg, end >>

\* what the server gives for a range
Served(range) == IF range = << >> THEN << 0, Length >>
                 ELSE << range[1], IF Len(range) = 1 \/ range[2] = Unlimited THEN Length ELSE range[2] >>

\* the answer to the request in front: is_open() is true of an error's page too
Answered(u, part, outcome) ==
    CASE outcome = "lost" -> [Closed(u) EXCEPT !.http = "broken"]
      [] outcome = "refused" ->
            [Placed(u, 0, Unlimited) EXCEPT !.text = << >>, !.http = "last", !.answer = FALSE]
      [] OTHER -> [Placed(u, part[1], part[2]) EXCEPT !.text = Numbered(0, Length), !.http = outcome,
                                                      !.answer = TRUE]

\* HttpClient::open: nothing is closed first, so the request waits behind one that is open
\* (would_block), or is turned down (keepalive_error, or why the connection broke)
Requested(u, part, outcome, is_async) ==
    CASE u.http = "closed" -> Answered(u, part, outcome)
      [] u.http = "kept"   -> [u EXCEPT !.answer = FALSE, !.behind = Append(@, <<part, is_async>>)]
      [] OTHER             -> [u EXCEPT !.answer = FALSE]

\* HttpSource::open
http_open(u, beg, end, outcome, is_async) == Requested(u, Served(RangeAsked(beg, end)), outcome, is_async)

\* HttpSink::open: a post, whose range has an end even where there is none (2^64 - 1)
http_sink_open(u, beg, end, outcome, is_async) ==
    Requested(u, Served(IF beg = 0 /\ end = Unlimited THEN << >> ELSE << beg, end >>), outcome, is_async)

\* HttpSource::close, and HttpSink's, drop the request in front; the next is answered when nothing
\* of the body before is left on the connection (what answers a post has none)
http_close(u, outcome) ==
    IF u.behind = << >> THEN [Closed(u) EXCEPT !.http = "closed"]
    ELSE LET next == Head(u.behind)
             none_left == u.http = "kept" /\ (u.is_sink \/ u.at = u.end)
             v == Answered(u, next[1], IF none_left THEN outcome ELSE "lost")
         IN  [v EXCEPT !.behind = Tail(@), !.answer = @ /\ next[2],
                       !.posted = IF next[2] THEN Append(@, << >>) ELSE @]

open(u, beg, end, outcome, ec_is_set, is_async) ==
    CASE u.proto = "file" -> IF u.is_sink THEN file_sink_open(u, beg, end, outcome)
                             ELSE file_open(u, beg, end, outcome)
      [] u.proto = "pipe" -> pipe_open(u, beg, end, outcome, ec_is_set)
      [] u.proto = "http" -> IF u.is_sink THEN http_sink_open(u, beg, end, outcome, is_async)
                             ELSE http_open(u, beg, end, outcome, is_async)

\* the ranges a caller may ask for
Asked(u) ==
    {<<beg, end>> \in Begins \X ({Unlimited} \cup 0 .. Length) :
        /\ end # Unlimited => beg <= end /\ u.proto \in Bounded \cup (IF "rejected" \in Oddities THEN {"pipe"} ELSE {})
        /\ beg = Unlimited => u.is_sink /\ u.proto = "file"
        /\ u.proto = "pipe" => beg = 0 \/ "rejected" \in Oddities}

\* a caller opens, or opens again, when nothing it called is still to be told
Idle == url.posted = << >> /\ url.returns
Known == url.proto \in creator_map

MayOpen(ask, outcome) ==
    /\ Known /\ Idle /\ ask \in Asked(url) /\ Len(url.behind) < MaxBehind
    /\ url.proto = "pipe" /\ outcome = "lost" => ~url.is_open \/ "rejected" \in Oddities

Open(ask, outcome, ec_is_set) ==
    /\ MayOpen(ask, outcome)
    /\ ec_is_set => "stale" \in Oddities
    /\ url' = open(url, ask[1], ask[2], outcome, ec_is_set, FALSE)

\* UrlBase::async_open: open with an ec of its own, the answer is told later; HttpSource's own
\* tells it when the request is answered, and a pipe that throws tells nothing
AsyncOpen(ask, outcome) ==
    LET opened == open(url, ask[1], ask[2], outcome, FALSE, TRUE)
        waits  == opened.behind # url.behind \/ (url.proto = "pipe" /\ outcome = "lost")
    IN  /\ MayOpen(ask, outcome)
        /\ url' = [opened EXCEPT !.posted = IF waits THEN << >> ELSE << << >> >>]
-----------------------------------------------------------------------------
(* read_some and write_some *)

\* what is left to read, or room to write
Left(u) == IF u.is_sink THEN MaxWritten - u.wrote
           ELSE (IF u.end = Unlimited \/ u.proto = "file" THEN Len(u.text) ELSE u.end) - u.at

Lesser(a, b) == IF a < b THEN a ELSE b

\* n bytes pass between a buffer and the place where the object stands
Passed(u, n) == IF u.is_sink THEN Numbered(Length + u.wrote, n) ELSE SubSeq(u.text, u.at + 1, u.at + n)

Moved(u, bytes) ==
    LET behind == u.at + Len(bytes)
        Byte(i) == IF i \in u.at + 1 .. behind THEN bytes[i - u.at]
                   ELSE IF i <= Len(u.text) THEN u.text[i] ELSE 0      \* a hole is zeros
    IN  IF ~u.is_sink THEN [u EXCEPT !.at = behind]
        ELSE [u EXCEPT !.at = behind, !.wrote = @ + Len(bytes),
                       !.text = [i \in 1 .. Len(@) + (IF behind > Len(@) THEN behind - Len(@) ELSE 0) |-> Byte(i)]]

\* one buffer of size k: short is how many fewer bytes the system lets pass
one_buffer(acc, k, short) ==
    LET n     == Lesser(k, Left(acc.u))
        bytes == Passed(acc.u, IF n > short THEN n - short ELSE n)
    IN  [u |-> Moved(acc.u, bytes), bytes |-> acc.bytes \o bytes, ec |-> Len(bytes) < k]

\* Source::private_read_some: one buffer after the other up to an error; a pipe and a
\* connection take all at once
private_read_some(u, shape, short) ==
    LET Next(acc, k) == IF acc.ec THEN acc ELSE one_buffer(acc, k, short)
    IN  FoldLeft(Next, [u |-> u, bytes |-> << >>, ec |-> ~u.live], shape)

\* Sink::private_write_some, the same with what it writes; HttpSink overrides private_read_some
\* instead, so its writes go from one private_write_some of Sink to the other and never return
private_write_some(u, shape, short) ==
    IF u.proto = "http" THEN [u |-> [u EXCEPT !.returns = FALSE], bytes |-> << >>, ec |-> TRUE]
    ELSE private_read_some(u, shape, short)

private_some(u, shape, short) ==
    IF u.is_sink THEN private_write_some(u, shape, short) ELSE private_read_some(u, shape, short)

MayCall ==
    /\ Known /\ url.returns
    /\ url.proto = "http" => url.is_open /\ (url.is_sink => "endless" \in Oddities)

\* read_some, write_some
ReadOrWrite(shape, short) ==
    /\ MayCall /\ (url.posted = << >> \/ "mixed" \in Oddities)
    /\ LET done == private_some(url, shape, short)
       IN  url' = [done.u EXCEPT !.told = @ \o done.bytes]

\* async_read_some, async_write_some: done in the call
AsyncReadOrWrite(shape, short) ==
    /\ MayCall /\ Len(url.posted) < 2
    /\ LET done == private_some(url, shape, short)
       IN  url' = [done.u EXCEPT !.posted = Append(@, done.bytes)]

\* the io_service calls the handler that was posted first
Complete ==
    /\ url.posted # << >>
    /\ url' = [url EXCEPT !.told = @ \o Head(url.posted), !.posted = Tail(@)]
-----------------------------------------------------------------------------
(* total, close *)

\* mutant: the file is left at its end
total_AtEnd(u) == IF u.live /\ u.proto = "file" THEN [u EXCEPT !.at = Len(u.text)] ELSE u

\* FileSource::total goes to the end and back
total(u) == u

Total == Known /\ url.returns /\ url' = total(url)

Close(outcome) ==
    /\ Known /\ Idle
    /\ url' = IF url.proto = "http" THEN http_close(url, outcome) ELSE Closed(url)

UrlNext ==
    \/ \E p \in Protocols : Create(p)
    \/ \E ask \in Asked(url), outcome \in Outcomes(url), ec_is_set \in BOOLEAN :
            Open(ask, outcome, ec_is_set)
    \/ \E ask \in Asked(url), outcome \in Outcomes(url) : AsyncOpen(ask, outcome)
    \/ \E shape \in Shapes, short \in 0 .. 1 :
            ReadOrWrite(shape, short) \/ AsyncReadOrWrite(shape, short)
    \/ \E outcome \in Outcomes(url) : Close(outcome)
    \/ Complete \/ Total
-----------------------------------------------------------------------------
\* every byte that passed is told, once, or in a handler that is posted
Told == url.told \o FlattenSeq(url.posted)

(* What the callers are told they read is the text from where the url was opened, and *)
(* what they are told they wrote is there, with no gap, nothing twice and nothing from  *)
(* behind the end asked for (Source.cpp:22, FileSource.cpp:70); a stream that says it   *)
(* is open is open, open answers true for no other, and one that is open though open     *)
(* said no is an http stream, which may be where it was before (PipeSource.cpp:33).      *)
UrlKeepsItsPlace ==
    /\ url.returns
    /\ url.is_open = url.live /\ (url.answer => url.live)
    /\ url.live /\ ~url.answer => url.proto = "http"
    /\ url.live =>
        /\ Told = SubSeq(url.text, url.from + 1, url.at)
        /\ url.end # Unlimited => Told = << >> \/ url.at <= url.end
=============================================================================
