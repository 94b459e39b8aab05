# A verification development for just-base-util

The repository is a C++ library over boost.asio: a daemon of modules, streams
and buffers, and clients and servers of several protocols. It has no tests and
no documents; its code and the comments in it are what these modules model. All
paths are relative to the root of the repository, lines are those of the commit
modelled.

The TLA+ models are of what is decided by order, by position and by what was kept
from an earlier call: handlers that free themselves, queues of requests over one
connection, two streams that feed one buffer, blocks that are gone round, bodies
that end inside a read, sections that own the lines behind them. TLC checks them
on small instances; TLAPS proves the http server and both kinds of transfer for
every value of their constants.

## 1. The system

| component | state | operations | what is hard |
|---|---|---|---|
| `protocol/http/HttpServer` | `state_`, `watch_state_`, request, response | `start`, `handle_async`, `handle_watch`, hooks of the derived class | two chains of completions on one object, either of which deletes it; a half-closed peer; pipelined requests |
| `protocol/http/HttpClient` | `status_`, `requests_`, `num_sent_`, `response_`, `broken_error_` | `open`, `fetch`, `is_open`, `is_fetch`, `async_open`, `async_fetch`, `reopen`, `close`, `response_read_finish` | pipelining, redirects, failures of one of several requests, a polled and an asynchronous face over one queue |
| `protocol/http/HttpSocket` | `source_`, `sink_`, `rcv_buf_`, `snd_buf_` | `set_source`, `reset_source`, `set_sink`, `reset_sink`, reads and writes through `rcv_buf_` | layers left on by an error path; data hidden from the kernel's socket |
| `protocol/http/HttpProxy*` | a state, a client connection | the server's sequence with a second connection behind it | as HttpServer, and the reuse of the second connection |
| http messages, `cmsg` | known fields, other fields | `set_content`, `get_content`, fields by name | what is printed must be what was told, in any order of the two |
| `stream/StreamTransfer` | totals, level, water marks, two `ending`/`busy` flags | `transfer`, `async_transfer` | two operations under way on one buffer, each handler starting the other |
| `stream/Chunked*`, `Limited*`, `Filter*` | position in a chunk, bytes left, what the compressor holds | `read_some`, `write_some`, their asynchronous forms, `write_eof` | resuming at every byte; an end that falls on a boundary; a sink below that takes a part |
| `stream/url`, `Source`, `Sink` | where the url was opened, what is posted | `open`, `async_open`, `close`, `read_some`, `total` | opened again, with a range, with a call under way |
| `stream/StreamBuffers`, `StreamHandler`, `tools/RefThis` | counts | copying, changing, the last release | what is shared is changed by one holder |
| `buffers` | positions in a ring, a tape or a sequence of blocks | `prepare`, `commit`, `data`, `consume`, seeks, views | wrap-around, full against empty, empty blocks, one side cutting the other's area |
| `protocol/MessageSocket` | two readers, a saved and a queued list, half messages | `read_msg`, `read_raw_msg`, `write_msg`, both kinds of call | a message one reader meets and the other waits for |
| `protocol/rtmp`, `mmsp` | a status, a queue of requests, chunk heads, digests | `connect`, `play`, `publish`, `tick`, `close`; their servers | messages between a request and its answer; heads that say only what changed; writes that block |
| `protocol/rtsp` | a session with requests, posted messages; ports; a list of ready sockets | `post`, `stop`, `process_request`; `create_transport`; `poll_read` | reading and writing at once on an object that deletes itself |
| `protocol/rtsp/SessionDescription` | sections, items | `load`, `save`, `add`, `get`, `set` | a line belongs to the section before it |
| `daemon` | `io_work_`, `th_grp_`, the registry of modules | `start`, `run`, `stop`, `post_stop`, `use_module`, `add_module` | threads that leave when the last work goes; waiting on one's own threads; construction outside the mutex |
| `event` | a list of listeners per event | `on`, `un`, `raise` | a listener that changes the list it is called from |
| `archive`, `serialization` | a place in a document | saving and loading by names | documents written by someone else, cut off, in another order |
| `dataview` | a tree of nodes | questions by path | the tree is the program's own and changes |

The components meet as follows. `HttpServer`, `HttpClient` and the message
sockets run their handlers on an `io_service` that a `Daemon` owns; the http
classes read and write through the layers of `HttpSocket`, which are the chunked,
limited and filtered streams; `StreamTransfer` moves bytes between two streams
through a `CycleBuffers`; `HttpProxy` is a server with an `HttpClient`-like
connection and a transfer in each direction; `stream/url` uses `HttpClient` as a
source; `rtmp` and `mmsp` put their requests into a `MessageSocket`, whose
messages are loaded by the binary archives over an `ArchiveBuffer`; the tables of
`dataview` are filled by an archive that looks for a path.

What makes each correct: an object that frees itself does so once, when nothing
can call it back (server, proxy, session); a request of a queue gets one answer,
its own (clients); a stream's bytes are neither lost, doubled nor overtaken
(transfers, buffers, streams, readers of messages); what is read is what was meant
(heads, chunks, archives, descriptions); a call that waits returns (daemon,
registry, clients); what is under way on a shared buffer or socket has it alone
(all of them).

## 2. The modules

A component that shares no variable with others is one record in one variable, and
its functions are operators from a record to a record, so that an action is a
whole call with every call it makes. A composing module has one variable per part
and a value `Absent` for the parts a behaviour does not have, so that one run
checks several parts that never meet.

| module | models | composed in |
|---|---|---|
| `HttpServer` | `HttpServer.cpp`, the reads of `HttpSocket.hpp`, one connection with its peer and the derived class | |
| `HttpClient` | the state of a client and what both faces call (`post_reqeust`, `post_handle`, `handle_next`, `close`) | `HttpClientAsync`, `HttpClientSync` |
| `HttpClientAsync` | `async_open` ... and `handle_connect`, `handle_request`, `async_resume` | `HttpClients` |
| `HttpClientSync` | `open`, `fetch`, `is_open`, `is_fetch` and the whole of `resume` | `HttpClients` |
| `BoundedPipe` | what a transfer promises | abstract specification of the next two |
| `StreamTransfer` | `transfer_cycle_buffer_handler` | `Transfers` |
| `SyncTransfer` | the loop of `transfer` | `Transfers` |
| `Daemon` | `Daemon.cpp` and the registry's `startup` and `shutdown` taken whole | |
| `CycleBuffers` | a ring of blocks, and a ring of one | `Buffers` |
| `StreamBuffer` | the vector that is rotated and grows | `Buffers` |
| `SimpleBuffers` | blocks used once, `SimpleIoBuffer`, `StdIoBuffer` | `Buffers` |
| `BufferViews` | slices, copies, comparisons, positions and searches over blocks | `Buffers` |
| `Buffers` | `ArchiveBuffer`, memory of the caller, and the five above | |
| `HttpStreams` | how a chunk is framed and read back; two messages over one connection through the layers of `HttpSocket`, or `HttpChunkedSocket` | `Streams` |
| `UrlStreams` | `UrlBase`, `Source`, `Sink`, file, pipe and http streams, the factory | `Streams` |
| `SharedPointers` | `StreamBuffers`, `StreamHandler`, `RefThis` | `Streams` |
| `Streams` | `FilterSink` over a sink that takes parts and fails, and the three above | |
| `MessageSocket` | the two readers and the writer | `Messages` |
| `RtmpChunks` | chunk heads, cutting, weaving, the raw reader | `Messages` |
| `RtmpHandshake` | `handle_connect`, `handle_accept` and the digests | `Messages` |
| `RtmpSession`, `MmspSession` | client and server on one connection, both kinds of call | `Sessions` |
| `HttpProxy` | `HttpProxy.cpp`, `HttpProxy2.cpp` | `Sessions` |
| `RtspSession` | the session, which `RtspServer` is | `Sessions` |
| `RtpSockets` | ports and channels of a transport, `RtpUdpSocket`'s reader | `Sessions` |
| `ModuleRegistry` | the registry step by step, with its mutex | `Toolbox` |
| `Events` | `Event`, `EventListener`, `Observable` | `Toolbox` |
| `StreamArchives` | the binary and the text archives, as operators | `MessageData`, `Archives` |
| `Archives` | the json and xml ones; a value saved, changed as another program would write it, loaded | `Toolbox` |
| `MessageData` | the messages of mmsp and rtmp to and from bytes | `Toolbox` |
| `HttpHeads` | `HttpHead`, `HttpPacket`, `CMsgHead` | `Toolbox` |
| `SessionDescription` | sections and lines of sdp | `Toolbox` |
| `DataViews` | catalogs, objects, pointers, tables, sessions | `Toolbox` |
| `HttpServer_proofs`, `HttpClients_proofs`, `Transfers_proofs`, `Daemon_proofs`, `Messages_proofs`, `Sessions_proofs`, `MmspTurns_proofs`, `SessionTurns_proofs` | the theorems | |

How the state corresponds to the code, where it is not said by the names:

**HttpServer.** `main`, `result` and `sized` are the completion the chain of
`handle_async` waits for, `watch` the one of the watch, `thread` says whether the
io thread is blocked in the peek. There is one action per case of `handle_async`
and of `handle_watch`. `kernel` and `user` count the chunks in the socket and in
`rcv_buf_`. A hook that calls `resp` at once and one that posts it are both there.

**HttpClient.** `requests` is the deque with the status of each request, `ops` the
operations under way, each with the flag (`pending`) its handler is bound to and
the request it was started for, which the code does not keep: the invariant
compares it with the request the handler finds by position. A synchronous call is
one action; its inputs say where, if anywhere, the socket would block or fails.
`HttpClients` is a client used one way or the other, as one of `Users` or of `Pollers`
uses it: either kind may queue several requests, or post one over a fetch that is done.

**Transfers.** `handler_read` and `handler_write` call one another as their last act;
the model runs one body per step and keeps the next in `next`, which is what the
strand sees as one step. `room` and `chunk` are the sizes given to the read and the
write under way. In `Transfers` a behaviour is one transfer of either kind through the
same counts of bytes, with the same cancel flag of the completion condition, which its
owner may set between any two steps.

**Daemon and ModuleRegistry.** The `io_service` is its outstanding work and the
flag that it has stopped: when the last work goes it stops, and every `run()`
returns until `reset()`. `caller` is where the owner's thread is, `doing` what each
thread does. The registry gives every thread a stack of what it does, so that a
constructor may use other modules while the mutex is free.

**Buffers.** Addresses are naturals with a gap between two blocks; what is stored
is abstracted to where it is stored, or to its place in the stream. `CycleBuffers`
keeps both areas `[beg, cur, end)` with `pos` and `rem`, as the code does, and an
`assert` of the code that fails is remembered in `ok`.

**Streams.** The wire moves any part of what it is asked for. A call of `read_some`
or `write_some` is a start and a step for each operation of the socket below, so
that it may stop in every byte of a frame; a compressor is a queue that gives out
any part of what it has, or throws. The sink below fails in a call and in a handler.
An http url that is open is not closed by another open: the request waits behind
(`behind`) until the stream is closed, as `HttpClient` queues it.

**MessageSocket, Rtmp.** A message is a number of parts, the first of which tells the
parser how many. The connection may fail at any time; a call then ends with nothing,
and `read_status_` stays where it is. `RtmpChunks` keeps one head per chunk stream at
either end and what is woven on the wire; 2^24 and 2^32 are small numbers of their own
(`Limit`, `Wrap`), the digests' places sums of four bytes.

**Sessions.** A session has its requests, what both ends have under way, and the
messages on their way in each direction. `RtmpSession` and `MmspSession` have the
asynchronous client and the polled one, whose writes may block (`Blocks`).
`HttpProxy` has one operation under way (`op`) and the watch beside it; `ahead` counts
the requests in `rcv_buf_`, `blocked` says that the io thread is in the peek of the
watch. What the derived class of `RtspSession` does in a callback is chosen. The sockets
of `RtpSockets` are non-blocking or, as they were opened, not (`NonBlock`).

**Archives, messages, heads, descriptions.** A value is saved; before it is
loaded, the document may have been changed the way another program would write it.
Texts are sequences of cells, not of characters. `told` in a head and `whole` in a
description are what the caller meant, kept beside what the code keeps.

## 3. The runs

| run | instance | states |
|---|---|---|
| `HttpServer_all` | 3 chunks, pipelined, blocking peek | 14 thousand |
| `HttpServer_pipelined` | 2 chunks, pipelined, non-blocking | a finding |
| `HttpClients` | callbacks: 3 requests, 3 queued, any mixture of keep-alive, or one at a time with 2 redirects and reuse; polled: 3 queued, 1 redirect, or one at a time, with reuse | 67 thousand |
| `HttpClientAsync_stale_layer` | 2 requests | a finding |
| `Transfers` | buffer of 4, levels 1 and 3, minimum 3, up to 6 bytes, cancelled anywhere | 10 thousand |
| `Daemon` | 3 threads, 4 starts, 3 posted stops | 1 thousand |
| `Daemon_idle` | modules with nothing under way | a finding |
| `Buffers` | rings of 2+1+2 and of 4, a vector up to 4, blocks of 2+1+3, memory of 3, texts over two characters in up to 3 blocks of up to 2 | 36 thousand |
| `Streams` | 2 messages of five kinds, bodies of 2, 3 bytes under way; 4 bytes through a filter; a compressor that throws; a text of 3 behind a url, 1 request behind another; two handles | 68 thousand |
| `Messages` | 3 messages in, 1 out; a connection that fails; 3 rtmp messages on 3 flows; 2 handshakes | 398 thousand |
| `Sessions` | 2 attempts, 1 message nobody asked for, 3 requests through a proxy, 2 at rtsp, 8 ports; blocking sockets and not | 177 thousand |
| `Toolbox` | 2 threads and 3 modules; 3 listeners and 2 nested raises; 5 texts; heads of 2 lines; descriptions of 4 lines; 2 nodes | 123 thousand |

**What the properties say.**

- `HttpServer_all`: `DeleteSafe` (deleted only when no handler is left), `OneReader`
  (the watch never reads beside a read), `EndsCleanly` (one `on_finish` per start,
  no `assert(0)`, no layer twice), `KeepAliveOnlyFramed` (only a framed answer
  keeps the connection), `PeerGoneFrees` (a connection whose peer is gone is freed)
  and `RequestServed`.
- `HttpClients`: `QueueInTurn` (a handler acts on the request it was started for,
  the front of the queue is never forgotten, `num_sent_` counts the sent, one
  callback each; polled, the requests leave in order and a yes is true, and `num_sent_`
  counts while none is redirected or posted over a fetch),
  `BuffersAreExclusive` (one write in `snd_buf_`, one read in `rcv_buf_`),
  `AssertsHold`, `EachIsAnswered`, and `PollsGoOn` (no polled call repeats what an
  earlier one did).
- `Transfers`: `LevelSafe`, `CompletesOnce`, `TransfersEnd`, `BothDeliver` (what was
  read is written, unless a write fails or the transfer is cancelled) and `BothPipes`:
  each kind refines `BoundedPipe`, and the loop writes nothing after its write end.
- `Daemon`: `AtRest` (a daemon that is not started has nothing left that could run or
  keep the next start from running), `StartReturns`, `StopsEnd`.
- `Buffers`: `RingKeeps` (the ring is the queue of the bytes committed, however the
  two sides went round), `TapesKeepOrder` (each byte at its place while areas
  rotate, grow and cut one another), `ViewsSeeTheText` (any cut into blocks, empty
  ones too, shows the same text).
- `Streams`: `BodyEndsExactly` (a body is all of its bytes and none of the next
  message's), `Ends` (it is received to its end), `HeldIsKept` (a byte a filter was
  given is once in it or behind it; what is shared by count stays what its holder put
  there), `UrlInPlace` (a url that is open tells the bytes of the place it was opened
  at, whatever a later open was answered, and says yes only when it is open).
- `Messages`: `ReadersKeepOrder`, `EveryMessageGiven` (unless the connection
  fails), `RtmpAgrees` (messages are read
  as sent, the ends of a handshake agree on the digest).
- `Sessions`: `RequestsInTurn` (an answer completes the request it is to, of the
  asynchronous client of rtmp and of either client of mmsp),
  `SessionsSafe` (proxy and rtsp session are deleted once with nothing under way, a
  proxy answers by the server named, ports agree), `CallsEnd`, `SessionsEnd`,
  `ReadersServed` (reads of rtp are, by sockets that were set non-blocking).
- `Toolbox`: `ModulesAreOne`, `RegistryCallsReturn`, `EventsMeetAll` (a raise meets who
  was there and still is, once), `FormatsKeep` (values and messages are loaded as
  saved), `TextsAsTold` (heads and descriptions), `ViewsAnswer`.

**Bounds.** Three chunks let a peer send a request, a body or a second head, and
one more behind it: enough for a watch to meet a read-ahead request while a
response is under way and for the connection to be restarted. Three requests in
the queue are the least for which "front", "next to send" and "last" differ. A
buffer of four with levels 1 and 3 has states below, between and above the two
marks, and 0 to 6 bytes end before, at and beyond the minimum. Two threads let
one leave while the other runs; three starts let what one leaves meet the next.
Rings of blocks of unequal size, one of a single byte, let either side be behind
the other in its block, in the next one and a round ahead. Two messages are what
an end needs that falls too early or too late; three bytes on the wire cut every
frame in every place. Three flows have two message streams on one chunk stream
and a chunk stream of the longer head. Three modules are a chain with a
module used twice; three listeners are one before, at and behind the one called.

`CHECK_DEADLOCK FALSE` is said of every run: a connection ends, a client has
nothing left to ask, a transfer is done, a daemon is destroyed, a document has been
read.

**Fairness.** Of what an io thread does, weak fairness: it runs handlers that are
ready, and an operation on a socket completes when it can. A hook answers in the
end, for a derived class that never calls `resp` is broken by contract. Strong
fairness is asked in two places, where a call that would block is repeated: a
socket that takes bytes again and again lets the sender go on (`SinkSends`), and
a client that polls gets what is there (`Resume`). Of a peer nothing is assumed
but that it takes what is written to it; it need never send or close. The owner
of a daemon owes no call, but its thread goes on in a call it has made, and so
does each thread in the registry.

### Findings

1. `HttpServer_pipelined`: `handle_watch` peeks in the kernel's socket
   (`HttpServer.cpp:255`) although its wait may have ended for data in `rcv_buf_`. On a
   non-blocking socket the living connection is taken for a broken one; on a
   blocking one the io thread waits in the peek, which is why `RequestServed` has
   that way out.
2. `HttpClientAsync_stale_layer`: a fetch whose body fails leaves its layers on
   (`HttpClient.cpp:630`), against the assertion of the next `set_source`.
3. `Daemon_idle`: `stop` deletes the work object before it posts the shutdown
   (`Daemon.cpp:191`); with idle modules its threads are gone and it waits for ever.

### What the constants switch on

A module whose code misbehaves for some legal input has a constant for that input,
which the passing runs leave off. Setting it shows the case.

- *HttpClient*: a redirected request is counted twice in `num_sent_`
  (`HttpClient.cpp:676`, "the requests already sent"), and the reuse of a finished
  fetch (265-270) forgets the count likewise; `ready` is entered one state later than
  its comment says (`HttpClient.h:330`, `HttpClient.cpp:335`). A polled client is in
  the passing run in both cases, and `num_sent_` one too high: a reused one is never
  `ready`, and what is queued behind a front may be begun before it is sent, so the
  exact count is said of the others only (`NumSentCounts`). With callbacks and more
  queued while the front reconnects (a user with `redirects` or `reuses` and a `queue`
  of more than one) a second write starts in `snd_buf_`. `EarlyClose = TRUE`: a
  handler in flight finds another request, or none, at its position. A request whose
  send fails behind another is told nobody when the front goes well (614-637): such
  requests are in `dropped` and excepted from `Answered`.
- *CycleBuffers* `SeeksBack`, `Resets`; *SimpleBuffers* `Swaps`, `Behind`;
  *StreamBuffer* `WildSeeks`; *Buffers* `BufferOddities`: seeks over several
  blocks, resets and pointers set from outside leave the areas wrong.
- *Streams* `Garbage`: `has_write_` of a handler is not initialised. `Throws` with
  `<<"sync", 1>>`: a call whose compressor throws behind a first buffer says that
  nothing was written, though that buffer went in (`FilterSink.cpp:190-192`), and
  `HeldIsKept` fails. (The handler of a failed asynchronous call is not deleted,
  99-102; the model does not count handlers.)
  *HttpStreams* `SyncGzip`: a synchronous read of a compressed body reads on
  behind its end.
- *UrlStreams* `Oddities`: a pipe opened again with a range is closed and says it is
  open (`PipeSource.cpp:33-38`), and so is one opened again on a descriptor it cannot
  have (39-47); an error code already set makes a good open say no
  (:48); `HttpSink` overrides the wrong function and a write never ends
  (`HttpSink.h:62`); a call that returns at once overtakes one whose handler is
  posted. Not an oddity but in the passing run: an http url opened again is told no
  and stays where it was, its new request behind the old one (`HttpSource.cpp:47-58`,
  `HttpClient.cpp:277-293`), and one answered with an error is open at its page.
- *SharedPointers* `Early`: `ref_this()` in a constructor deletes the object
  (`RefThis.h:35`).
- *MessageSocket* `Parallel` with `"async"`: a message handed to a waiting reader
  leaves its size in `pend_rcv_sizes_` (`MessageSocket.hpp:522`) and the other
  reader stops; `SwitchAnyTime`: the readers meet in one message. After an error
  `read_status_` and `write_status_` stay set (231-233, 471, 555-558): the next
  asynchronous call meets its own `assert` (the model starts one only where that
  holds), a synchronous one goes on, and a `read_msg` that waits in `resp` is not
  called.
- *RtmpChunks* `Backwards`, `Resent`, `SizeAnyTime`, times from `Limit` on: heads that
  are longer the second time, or say less than changed. *RtmpHandshake*
  `ReconnectFrom`: the status of a failed handshake is kept.
- *RtmpSession*, *MmspSession* `Strays`, `Blocks` with `"tick"`, `TickWhen`, `Again`:
  a status without a transaction completes the request in front
  (`RtmpClient.cpp:431`), a blocked tick swallows the next request, `close` keeps the
  requests. A polled client of rtmp (`RtmpModes` with `"sync"`, in the passing run)
  sends `connect` again after the server's window and bandwidth:
  `process_protocol_message` says the request is to be sent, nothing is left to write,
  and the loop writes the front (`RtmpClient.cpp:306-309`, `RtmpServer.cpp:69-75`);
  the second answer is then taken for that of `createStream`. So `RequestsInTurn` is
  said of the asynchronous one, and of the polled one only that its calls end.
- *HttpProxy* two `Hosts`: the kept connection is used for whatever host
  (`HttpProxy.cpp:222`); `NoHost`; `NDEBUG = FALSE`: a `break` is missing before
  `assert(0)`; `Unframed`. With `Pipelining` a request read ahead ends the watch, and
  the peek of the empty socket takes the client for gone or holds the io thread, as in
  the server (`HttpProxy.cpp:352-369`); `SessionsEnd` is about a client that is gone.
  *RtspSession* `PeerStalls`, `PostAfterError`: the session never goes. *RtpSockets*
  `ServerPasses = "out"`: the server connects to its own answer. `NonBlock`: sockets
  block as they are opened (`RtpUdpSocket.cpp:46-53`, 156-168), and one in the list
  with nothing left holds the io thread in its receive (`RtpUdpSocket.hpp:163`) beside
  the other's datagram; `ReadersServed` is said of sockets that were set non-blocking.
- *ModuleRegistry* `StartupUses`: a startup that uses a module waits for its own
  mutex (`ModuleRegistry.h:129`); `Late`: a module added later is never started.
  *Events* `Leaves` with `"coming"`: the iterator stands on the node that was freed
  (`Event.cpp:44`).
- *Archives*, *MessageData*, *HttpHeads*, *SessionDescription*, *DataViews*: the
  oddities named beside their constants, each at its lines.

## 4. The proofs

**HttpServer_proofs** proves, for every `MaxChunks`, `Pipelining` and
`NonBlocking`: `TypeCorrect`, `DeleteIsSafe`, `ReadsAreExclusive`,
`FinishIsCalledOnce`, `NoAssertFails`, `EndsAreClean` and `KeepAliveIsFramed`. None
of these is inductive by itself. `IInv` adds what ties the two chains together:
which completion each state waits for, that a watch is under way exactly while
`watch_state` says so, that an object waits for its watch only in `exiting` or
`stopped`, which layers each state has on, and how many `on_finish` are owed in
each. The proof has a lemma per action and `Invariance` puts them together.

**HttpClients_proofs** proves of the client with callbacks `ClientExclusive`,
`ClientAsserts` and `ClientServesInTurn` for every number of requests and every queue.
They stand under `InUse`: a request is closed only after its callback (`EarlyClose =
FALSE`), and each user is `Orderly`, which is to say that a client that is redirected
or posted to without `close()` has one request at a time. Without either the
properties are false, and section 3 names what goes wrong. An operation under way
knows only whether it was started for the front or for the first unsent request, so
"its handler finds its own request" needs the whole queue: `InOrder` (the requests are
queued as they were posted), `Line` (in a pipeline the first `num_sent_` requests are
sent, the next is perhaps being sent, those behind it wait), `OpMatches` (an
operation's request is in the status the operation leads on from), `FrontCounted`
(what was sent is counted before `handle_next` takes it off), `DroppedShape` and
`Going` (an established connection never has a front that waits for nobody).

Then it adds the polled client. `ClientsServeInTurn` is `QueueInTurn` of both;
`PolledGoesOn` is an action property, `PollsGoOn`: a call that would block leaves what
it had done, and the next goes on from there. The invariant of the polled client is
`Tidy`: nothing is begun behind the first request that is not counted (`Counts`);
`num_sent_` counts exactly only until the first redirection and of a client that does
not reuse (`CountsExactly`), since a request that takes the place of a counted one is
counted again; an opened request is not a fetch (`FitsKind`), and `ready` is a status
for a body (`ReadyInTime`). As one call runs through as many stages as the socket
allows, its lemmas are about one stage each (`ResumeConnect`, the front, the one
behind, `GetReady`) and then about their composition. The hypothesis is `InUse` again;
it constrains only the users of callbacks. A polled client may be any of `Pollers`,
with several requests queued, redirected and posted over a finished fetch.

**Transfers_proofs** proves, for every capacity, marks, condition and source, first of
a transfer with handlers `TypeCorrect`, `LevelIsSafe`, `HandlerIsCalledOnce`,
`TransferNeverStalls`, `TransferDelivers` and `TransferIsAPipe`, that it implements
`BoundedPipe`. The invariant relates the level to the totals and to what each
operation under way was given, and says which of the two handlers still has to run,
and that the handler of the user has been called exactly when both sides have ended.
The assumption used is `TransferAssumption`: naturals, and the low mark below the high
one, which every caller in the repository meets with the defaults. Then the same of
either kind, `EitherInvariance`, with `LoopInv` for the loop: the water marks are
where the two ends have put them (a read end lowers the high one to 0, a write end
raises the low one to the capacity), and a loop whose ends have both ended is done; so
a half that runs is one whose end has not ended, which is what keeps the last bytes
from being lost. The cancel flag is part of either; a cancelled transfer may leave
bytes unwritten, so `EitherDelivers` is about one that is not. From it follow
`BothLevelsSafe`, `BothCompleteOnce`, `EitherIsAPipe` (every step of either kind is
one of `BoundedPipe` or none) and `EitherDelivers`. These are the properties run
`Transfers` checks, all but `TransfersEnd`.

**Daemon_proofs** proves `DaemonAtRest` for every pool of threads, with and without
idle modules, and any number of calls: the threads are interleaved freely. The
invariant says which handlers may be queued with a pool and without
(`PooledShape`, `UnpooledShape`), that the io_service stops only when the last work
has gone, so nothing of it comes back (`StoppedIsDrained`), and that a join begins
only after the modules are shut down, while a thread of the pool is still there to
drain it (`JoiningShape`).

It also proves `ModulesStayOne`, which is `ModulesAreOne` of `ModuleRegistry`, for any
threads, any modules that use others in their constructors, and any number of calls.
`use_module` looks, unlocks to make the module, and looks again, so between the two
others make what they need, start the rest and shut it down. The invariant `RegistryGood`
says that a module is kept only once what its constructor uses was given (`CallStack`),
and what was given stays in the list (`Listed`), so it goes in behind all of that
(`InOrder`); that nothing is up outside the list, so the second look also tells that
what is started was not (`Listed`); and that a thread that adds modules or starts them
does so while they are not started, and nobody else starts them (`Alone`).
`RegistryInUse` is what section 3 asks: nothing is added, and startup not called, once
the modules are or may be started (`Late = {}`).

**Messages_proofs** proves `ReadersInOrder`, for every number of messages that come in
and are written, every order of their classes and every mix of the two styles of call.
`InUse` is that `set_read_parallel` is called between two reads, as `RtpTcpSocket`
does; the connection may fail in any state (`BreakStep`). The invariant `SInv` says
where in a message the parser is, also between two calls (`InPlace`); that the data
reader runs only when neither queue has a message (`Turns`), which is what makes the
order between the classes hold; and that what was read to its end is, of each class,
exactly what was given and what is queued (`Kept`), queued in order behind what was
given. A step then only adds one message to the end of a queue, takes one from its
front or hands one over past both: `ContentQueued`, `ContentHanded` and `ContentRead`
are about these three, and the lemma of each action says which of them it is. The run
allows `ReadParallel` with the synchronous style only, for liveness; safety is proved
with any.

**Sessions_proofs** proves `SessionsAreSafe`, which is `SessionsSafe` of the three
sessions that are neither rtmp nor mmsp, for any number of requests, ports, reads and
datagrams. Of each it takes an invariant, and `InUse` is what they ask of the
constants:
- *the proxy* (`ProxyGood`): a watch is under way exactly while `watch_state` says
  so, and after the end the object waits for nothing else (`Watches`); how many
  `on_finish` are owed (`Finishes`); a request that is passed on has named its server
  (`Named`). `ProxyInUse`: all requests name one host, what a server keeps its
  connection behind has a length, asserts are compiled out; section 3 says what
  happens else. Requests read ahead and the io thread held in the peek are in it.
- *rtsp* (`RtspGood`): the numbers of the requests go in one order and without a gap
  from what is read through the requests that wait for their response and the
  messages to be sent to what the peer has got (`InOrder`, with the messages of the
  session's own between them), and a session is deleted once both of its operations
  have ended (`Ended`). `RtspInUse`: nothing is posted to a session that was told its
  error.
- *rtp* (`RtpGood`): the two pairs are apart because the first is in use when the
  second is looked for (`Owns`), an end looks at even ports only (`Searches`), which
  needs that there is an even number of them, what the transports say is what was
  created (`Tells`), and a socket is polled, about to be, or in the list, at one place
  (`Placed`). `handle_task` keeps the last from the first socket with a datagram on;
  that the reads that wait are served one after another keeps it is a property of a
  recursive function, whose existence `ServedUpTo` shows, for every number of reads,
  from the least counterexample (`Smallest`, `UpTo`). It is proved for sockets that
  block and sockets that do not. `RtpInUse`: the number of ports is even, and the
  server connects with the transport that came (section 3 says what its own answer
  leads to).

**MmspTurns_proofs** and **SessionTurns_proofs** prove `RequestsAreInTurn`, which is
`RequestsInTurn` of the asynchronous client of rtmp and of both clients of mmsp, with
their servers: however often the connection is tried and lost, wherever the application
closes, and however many messages nobody asked for and acknowledgements there are. The
first half has the lemmas about queues and mmsp, the second rtmp and the theorem.
A client knows only how far it is with the request in front, and what it knows of the
others is an order; so `MmspGood` and `RtmpGood` follow the request in front over the
whole round:
- *the client*: what is called and what is under way for it (`MmspCalls`,
  `RtmpCallsAs`); that a client that connects has nothing left of a connection before
  (`MmspFresh`, `RtmpFresh`), which makes `requests_` start with the right one;
- *the order*: the requests that are left are those made and not answered
  (`MmspTurn`, `RtmpTurn`); the server has got the first of those made, at most one
  more than are answered, and every answer was to the request it completed
  (`MmspPast`, `RtmpPast`), which is the property;
- *the server*: it holds the last request it got until it has answered it
  (`MmspServes`, `RtmpServes`), streams only once it has got the last
  (`MmspStreams`); that of rtmp may fail and go before it answers;
- *the wire*: the request in front is in one place, with the client, on its way,
  with the server or in an answer on its way (`MmspStage`, `RtmpStage`: `Unsent`,
  `OnItsWay`, `Held`, `Answered`). Beside it there may be any number of messages that
  are no part of the round; `OneOf` says of a queue that one message in it is told
  from all others, and its lemmas say what adding to the end and taking from the
  front leave of that.

A polled call of mmsp runs through several requests, as many as the connection lets
it, in one action; its lemmas are about one turn and then about as many as are left.
`TurnsInUse` is what the run assumes too, but for the polled client of rtmp, which the
theorem leaves out (section 3 says what it does): what nobody asked for is no status
(of mmsp a ping or a data packet); only the write of a request blocks; `tick` is not
called between asynchronous calls or after an error; an rtmp client connects until it
has been connected once, one of mmsp not with what a failed call has left. These are
restrictions of the use, not of the code. Section 3 says what happens otherwise.

Only model-checked: all liveness (it needs fairness and ENABLED, out of the prover's
reach); what the operators declared RECURSIVE compute, over documents, blocks of a
ring and views, and the runs above them (`Buffers`, `Streams`, and `Toolbox` but for
`ModulesAreOne`), since a
module with a theorem can reach none; the bodies of `HttpStreams` and the layers of
rtmp, whose invariants are still to be found; and every finding.

## 5. Not modelled

- Of the http classes: `bind_host`, `cancel`, timeouts (the code cancels, it has no
  clock) and the destructor's drain of the client; more than one thread per
  connection, for which the classes have no lock; values of single fields.
- Of `StreamTransfer`: the overloads through a plain buffer sequence, the call of
  `start()` on a thread that is not the strand's, and a low mark at or above the
  high one, with which the two handlers call one another for ever. The error
  handed over is that of the last event only.
- Of `Daemon`: the value `start` returns after a failure (`Daemon.cpp:143`), spurious
  wake-ups (136), a daemon started first with and then without a pool (169).
- Of `buffers`: the character face of `CycleBuffers`, `CycleBuffers2` (whose areas are
  wrong from the start), `CombineBuffers` (which does not parse), `FindIterator`,
  `SnapshotBuffer`.
- Of `rtmp` and `mmsp`: what is in audio, video and data packets; parallel writing,
  which nothing turns on. Of `rtsp`: the states of a client, rtp and rtcp packets.
- Of the archives: the console ones, which do not compile, `VariableNumber`, and the
  serializers of single library types. Of `dataview`: `datagraph` and descriptions.
- Counts of pointers are not atomic; the models have one thread where the code
  assumes one.
- `pptv` (checksums and url codes), version numbers and names are pure data.

## 6. The plan

1. Proofs about `HttpStreams` (`BodyEndsExactly`) and `RtmpHandshake`
   (`DigestsAgree`). The digits of a length are a recursive function of one number,
   whose equations can be proved from a least counterexample as `ServedUpTo` is.
2. The recursive operators of `CycleBuffers` as recursive functions, and proofs about
   a ring of any number of blocks: it implements a queue.
3. The transfer through a plain buffer sequence, as a third implementation of
   `BoundedPipe`.
4. `HttpSource` of `stream/url` over `HttpClient` itself instead of a stream that
   opens.
5. The states of an rtsp client.
