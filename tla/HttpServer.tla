------------------------------ MODULE HttpServer ------------------------------
(***************************************************************************)
(* One server side HTTP connection, src/protocol/http/HttpServer.cpp.       *)
(*                                                                         *)
(* The object owns itself: ServerManager creates it and calls start(), and  *)
(* the handlers end with `delete this`.  Two callbacks race for it: the     *)
(* completion of the main operation (handle_async) and the completion of    *)
(* the watch, a read of null_buffers that tells when the peer has sent more *)
(* or has gone (handle_watch).  Both run on the thread of the io_service,   *)
(* one at a time.                                                          *)
(*                                                                         *)
(* Bytes are counted in chunks: a chunk is one request head or one request  *)
(* body.  `kernel` chunks wait in the socket, `user` chunks were read       *)
(* together with a head and wait in HttpSocket::rcv_buf_.                   *)
(***************************************************************************)
EXTENDS Integers

CONSTANTS
    MaxChunks,      \* bound: chunks the peer ever sends
    Pipelining,     \* the peer sends a request before the last is answered
    NonBlocking     \* the mode of the accepted socket

ASSUME HttpServerAssumption ==
    /\ MaxChunks \in Nat
    /\ Pipelining \in BOOLEAN
    /\ NonBlocking \in BOOLEAN

VARIABLES
    state,          \* state_
    watch_state,    \* watch_state_
    main,           \* the main operation under way, "none" if there is none
    result,         \* its result: "pending" until it is completed
    sized,          \* bytes_transferred.is_size_t() of that result
    watch,          \* the watch operation: none, pending, ready or aborted
    thread,         \* "free", or "blocked" in the receive of handle_watch
    deleted,        \* `delete this` was executed
    owed,           \* starts that no on_finish has answered yet
    body,           \* request_.head().content_length is not 0
    reqConn,        \* request_.head().connection
    connection,     \* response_.head().connection
    length,         \* response_.head().content_length is initialized
    outcome,        \* what the derived class answered to this request
    layers,         \* stream layers that set_source, set_sink put on
    kernel, user,   \* chunks in the socket, chunks in rcv_buf_
    sent,           \* chunks the peer has sent
    peerClosed      \* the peer has shut down or reset the connection

request  == <<body, reqConn>>
response == <<connection, length, outcome>>
network  == <<kernel, user, sent, peerClosed>>
op       == <<main, result, sized>>
vars == <<state, watch_state, op, watch, thread, deleted, owed, request,
          response, layers, network>>

StateEnum == {"stopped", "receiving_request_head", "preparing",
              "transferring_request_data", "local_processing",
              "sending_response_head", "transferring_response_data", "exiting"}
WatchStateEnum == {"watch_stopped", "watching", "broken"}
Connections == {"none", "keep_alive", "close"}

\* "call" stands for resp(...) called by the code itself: the nested
\* handle_async runs before anything else on the thread.
Reads     == {"read_head", "read_body"}
Writes    == {"write_head", "write_body"}
Hooks     == {"on_receive_request_head", "local_process"}
MainOps   == {"none", "call"} \cup Reads \cup Writes \cup Hooks

-----------------------------------------------------------------------------
Issue(o)  == main' = o /\ result' = "pending" /\ sized' = FALSE
Call(r)   == main' = "call" /\ result' = r /\ sized' = FALSE
NoOp      == main' = "none" /\ result' = "pending" /\ sized' = FALSE

\* async_read_some(null_buffers()): posted at once when rcv_buf_ is not empty.
StartWatch ==
    /\ watch_state' = "watching"
    /\ watch' = IF user > 0 THEN "ready" ELSE "pending"

OnFinish == owed' = owed - 1

\* start(): handle_async in state stopped.
Start ==
    /\ state' = "receiving_request_head"
    /\ connection' = "none" /\ length' = FALSE /\ outcome' = "none"
    /\ owed' = owed + 1
    /\ Issue("read_head")

CancelWatch_Forgotten == watch' = watch
CancelWatch == watch' = IF watch = "pending" THEN "aborted" ELSE watch

\* The connection ends: the watch, if it is still under way, is cancelled and
\* its handler deletes the object; otherwise it is deleted here.
Leave_AlwaysDeletes == deleted' = TRUE /\ UNCHANGED watch
Leave ==
    IF watch_state = "watching"
      THEN CancelWatch /\ UNCHANGED deleted
      ELSE deleted' = TRUE /\ UNCHANGED watch

Init ==
    /\ state = "stopped" /\ watch_state = "watch_stopped"
    /\ main = "none" /\ result = "pending" /\ sized = FALSE
    /\ watch = "none" /\ thread = "free"
    /\ deleted = FALSE /\ owed = 0
    /\ body = FALSE /\ reqConn = "none"
    /\ connection = "none" /\ length = FALSE /\ outcome = "none"
    /\ layers = {}
    /\ kernel = 0 /\ user = 0 /\ sent = 0 /\ peerClosed = FALSE

\* ServerManager starts the connection it has just accepted.
Accept ==
    /\ state = "stopped" /\ watch = "none" /\ main = "none" /\ ~deleted
    /\ Start
    /\ UNCHANGED <<watch_state, watch, thread, deleted, request, layers, network>>

-----------------------------------------------------------------------------
(* handle_async, one action per case.                                       *)

Completed(s, r) ==
    /\ ~deleted /\ thread = "free"
    /\ state = s /\ main # "none" /\ result = r

HandleBroken ==
    /\ \E s \in StateEnum, r \in {"ok", "error"} : Completed(s, r)
    /\ watch_state = "broken"
    /\ OnFinish /\ deleted' = TRUE /\ NoOp
    /\ UNCHANGED <<state, watch_state, watch, thread, request, response, layers, network>>

\* A watch beside the read of the body would be a second read of the socket.
MayWatch_EvenWithBody == watch_state = "watch_stopped"
MayWatch == watch_state = "watch_stopped" /\ ~body

ReceivedRequestHead ==
    /\ Completed("receiving_request_head", "ok") /\ watch_state # "broken"
    /\ state' = "preparing"
    /\ IF MayWatch
         THEN StartWatch
         ELSE UNCHANGED <<watch_state, watch>>
    /\ Issue("on_receive_request_head")
    /\ UNCHANGED <<thread, deleted, owed, request, response, layers, network>>

Prepared ==
    /\ Completed("preparing", "ok") /\ watch_state # "broken"
    /\ state' = "transferring_request_data"
    /\ layers' = layers \cup {"source"}
    /\ IF body THEN Issue("read_body") ELSE Call("ok")
    /\ UNCHANGED <<watch_state, watch, thread, deleted, owed, request, response, network>>

ReceivedRequestData ==
    /\ Completed("transferring_request_data", "ok") /\ watch_state # "broken"
    /\ layers' = layers \ {"source"}
    /\ state' = "local_processing"
    /\ IF watch_state = "watch_stopped"
         THEN StartWatch
         ELSE UNCHANGED <<watch_state, watch>>
    /\ connection' = reqConn
    /\ Issue("local_process")
    /\ UNCHANGED <<thread, deleted, owed, request, length, outcome, network>>

LocalProcessed ==
    /\ Completed("local_processing", "ok") /\ watch_state # "broken"
    /\ length' = (length \/ sized)
    /\ connection' = IF connection = "none" \/ ~(length \/ sized)
                       THEN "close" ELSE connection
    /\ state' = "sending_response_head"
    /\ Issue("write_head")
    /\ UNCHANGED <<watch_state, watch, thread, deleted, owed, request, outcome, layers, network>>

\* The hook may have left response_.data() empty.
SentResponseHead ==
    /\ Completed("sending_response_head", "ok") /\ watch_state # "broken"
    /\ state' = "transferring_response_data"
    /\ layers' = layers \cup {"sink"}
    /\ Issue("write_body") \/ Call("ok")
    /\ UNCHANGED <<watch_state, watch, thread, deleted, owed, request, response, network>>

KeepAlive_IfAsked == reqConn = "keep_alive"
KeepAlive == connection = "keep_alive"

DropSink_Forgotten == UNCHANGED layers
DropSink == layers' = layers \ {"sink"}

Exit ==
    /\ Completed("transferring_response_data", "ok") /\ watch_state # "broken"
    /\ ~KeepAlive
    /\ OnFinish /\ DropSink
    /\ state' = "exiting" /\ NoOp
    /\ Leave
    /\ UNCHANGED <<watch_state, thread, request, response, network>>

\* on_finish(), then start() at once.
Restart ==
    /\ Completed("transferring_response_data", "ok") /\ watch_state # "broken"
    /\ KeepAlive /\ watch_state # "watching"
    /\ DropSink
    /\ watch_state' = "watch_stopped"
    /\ state' = "receiving_request_head"
    /\ connection' = "none" /\ length' = FALSE /\ outcome' = "none"
    /\ Issue("read_head")
    /\ UNCHANGED <<watch, thread, deleted, owed, request, network>>

Stop ==
    /\ Completed("transferring_response_data", "ok") /\ watch_state # "broken"
    /\ KeepAlive /\ watch_state = "watching"
    /\ OnFinish /\ DropSink
    /\ state' = "stopped" /\ NoOp
    /\ CancelWatch
    /\ UNCHANGED <<watch_state, thread, deleted, request, response, network>>

IoFailed ==
    /\ \E s \in {"receiving_request_head", "transferring_request_data",
                 "sending_response_head", "transferring_response_data"} :
           Completed(s, "error")
    /\ watch_state # "broken"
    /\ OnFinish /\ state' = "exiting" /\ NoOp
    /\ Leave
    /\ UNCHANGED <<watch_state, thread, request, response, layers, network>>

\* response_error answers with a head of its own and closes afterwards.
HookFailed ==
    /\ \E s \in {"preparing", "local_processing"} : Completed(s, "error")
    /\ watch_state # "broken"
    /\ state' = "sending_response_head"
    /\ length' = TRUE
    /\ connection' = "close"
    /\ Issue("write_head")
    /\ UNCHANGED <<watch_state, watch, thread, deleted, owed, request, outcome, layers, network>>

-----------------------------------------------------------------------------
(* handle_watch.                                                            *)

WatchRuns(s) ==
    /\ ~deleted /\ thread = "free" /\ main # "call"
    /\ watch \in {"ready", "aborted"} /\ state \in s

DeleteThis_Forgotten == UNCHANGED deleted
DeleteThis == deleted' = TRUE

WatchExits ==
    /\ WatchRuns({"exiting"})
    /\ DeleteThis /\ watch' = "none"
    /\ UNCHANGED <<state, watch_state, op, thread, owed, request, response, layers, network>>

WatchRestarts ==
    /\ WatchRuns({"stopped"})
    /\ watch' = "none" /\ watch_state' = "watch_stopped"
    /\ Start
    /\ UNCHANGED <<thread, deleted, request, layers, network>>

Serving == StateEnum \ {"exiting", "stopped"}

\* on_broken_pipe cancels what the connection waits for in the socket; an
\* answer the derived class still owes is not in the socket.
OnBrokenPipe ==
    /\ watch_state' = "broken"
    /\ result' = IF main \in Reads \cup Writes /\ result = "pending"
                   THEN "error" ELSE result
    /\ UNCHANGED <<main, sized>>

WatchAborted ==
    /\ WatchRuns(Serving) /\ watch = "aborted"
    /\ watch' = "none" /\ watch_state' = "watch_stopped"
    /\ UNCHANGED <<state, op, thread, deleted, owed, request, response, layers, network>>

\* The receive with message_peek looks into the socket only, not in rcv_buf_.
PeekOK ==
    /\ kernel > 0
    /\ watch_state' = "watch_stopped" /\ UNCHANGED op

PeekFails ==
    /\ peerClosed \/ (kernel = 0 /\ NonBlocking)
    /\ OnBrokenPipe

WatchReady ==
    /\ WatchRuns(Serving) /\ watch = "ready"
    /\ watch' = "none"
    /\ \/ (PeekOK \/ PeekFails) /\ UNCHANGED thread
       \/ /\ kernel = 0 /\ ~peerClosed /\ ~NonBlocking
          /\ thread' = "blocked" /\ UNCHANGED <<watch_state, op>>
    /\ UNCHANGED <<state, deleted, owed, request, response, layers, network>>

PeekReturns ==
    /\ thread = "blocked" /\ thread' = "free"
    /\ PeekOK \/ PeekFails
    /\ UNCHANGED <<state, watch, deleted, owed, request, response, layers, network>>

-----------------------------------------------------------------------------
(* The socket, the peer and the derived class.                              *)

WatchFires ==
    /\ watch = "pending" /\ (kernel > 0 \/ peerClosed)
    /\ watch' = "ready"
    /\ UNCHANGED <<state, watch_state, op, thread, deleted, owed, request, response, layers, network>>

\* async_read_until takes more than the head when more has arrived; the head
\* it parses may be malformed.
ReadHead ==
    /\ main = "read_head" /\ result = "pending"
    /\ \E n \in 0 .. kernel :
          /\ user + n > 0 /\ (user > 0 => n = 0)
          /\ user' = user + n - 1 /\ kernel' = kernel - n
    /\ result' \in {"ok", "error"}
    /\ body' \in BOOLEAN /\ reqConn' \in Connections
    /\ UNCHANGED <<state, watch_state, main, sized, watch, thread, deleted, owed,
                   response, layers, sent, peerClosed>>

ReadBody ==
    /\ main = "read_body" /\ result = "pending"
    /\ \/ user > 0 /\ user' = user - 1 /\ UNCHANGED kernel
       \/ user = 0 /\ kernel > 0 /\ kernel' = kernel - 1 /\ UNCHANGED user
    /\ result' = "ok"
    /\ UNCHANGED <<state, watch_state, main, sized, watch, thread, deleted, owed,
                   request, response, layers, sent, peerClosed>>

Write ==
    /\ main \in Writes /\ result = "pending"
    /\ result' = "ok"
    /\ UNCHANGED <<state, watch_state, main, sized, watch, thread, deleted, owed,
                   request, response, layers, network>>

PeerFailsIo ==
    /\ peerClosed /\ main \in Reads \cup Writes /\ result = "pending"
    /\ result' = "error"
    /\ UNCHANGED <<state, watch_state, main, sized, watch, thread, deleted, owed,
                   request, response, layers, network>>

\* The derived class answers a hook, at once or later, with or without a
\* length: either by Size(n) or by setting content_length itself.
HookReplies ==
    /\ ~deleted /\ thread = "free" /\ main \in Hooks
    /\ main' = "call" /\ result' \in {"ok", "error"}
    /\ sized' \in BOOLEAN
    /\ length' \in BOOLEAN /\ (length => length')
    /\ outcome' = IF outcome = "error" THEN "error" ELSE result'
    /\ UNCHANGED <<state, watch_state, watch, thread, deleted, owed, request,
                   connection, layers, network>>

\* The derived class gives up what the socket waits for.
HookCancels ==
    /\ ~deleted /\ thread = "free" /\ main \in Hooks /\ watch = "pending"
    /\ CancelWatch
    /\ UNCHANGED <<state, watch_state, op, thread, deleted, owed, request, response, layers, network>>

\* A peer that does not pipeline sends only when the server wants to read.
PeerTurn ==
    \/ state \in {"stopped", "receiving_request_head"}
    \/ main = "read_body"
    \/ state = "transferring_response_data" /\ result = "ok"

PeerSends ==
    /\ ~peerClosed /\ sent < MaxChunks
    /\ Pipelining \/ (kernel + user = 0 /\ PeerTurn)
    /\ kernel' = kernel + 1 /\ sent' = sent + 1
    /\ UNCHANGED <<state, watch_state, op, watch, thread, deleted, owed, request,
                   response, layers, user, peerClosed>>

PeerCloses ==
    /\ ~peerClosed /\ peerClosed' = TRUE
    /\ UNCHANGED <<state, watch_state, op, watch, thread, deleted, owed, request,
                   response, layers, kernel, user, sent>>

-----------------------------------------------------------------------------
HandleAsync ==
    \/ HandleBroken \/ ReceivedRequestHead \/ Prepared \/ ReceivedRequestData
    \/ LocalProcessed \/ SentResponseHead \/ Exit \/ Restart \/ Stop
    \/ IoFailed \/ HookFailed

HandleWatch == WatchExits \/ WatchRestarts \/ WatchAborted \/ WatchReady

Socket == WatchFires \/ ReadHead \/ ReadBody \/ Write \/ PeerFailsIo

Environment == PeerSends \/ PeerCloses \/ HookCancels

Next ==
    \/ Accept \/ HandleAsync \/ HandleWatch \/ PeekReturns
    \/ Socket \/ HookReplies \/ Environment

\* The io_service runs ready handlers, the socket completes what it can, the
\* derived class answers its hooks; nothing is asked of the peer.
Fairness ==
    /\ WF_vars(Accept) /\ WF_vars(HandleAsync) /\ WF_vars(HandleWatch)
    /\ WF_vars(PeekReturns) /\ WF_vars(HookReplies)
    /\ WF_vars(WatchFires) /\ WF_vars(ReadHead) /\ WF_vars(ReadBody)
    /\ WF_vars(Write) /\ WF_vars(PeerFailsIo)

Spec == Init /\ [][Next]_vars
FairSpec == Spec /\ Fairness

-----------------------------------------------------------------------------
(* Properties.                                                              *)

TypeOK ==
    /\ state \in StateEnum /\ watch_state \in WatchStateEnum
    /\ main \in MainOps /\ result \in {"pending", "ok", "error"}
    /\ sized \in BOOLEAN
    /\ watch \in {"none", "pending", "ready", "aborted"}
    /\ thread \in {"free", "blocked"}
    /\ deleted \in BOOLEAN /\ owed \in Nat
    /\ body \in BOOLEAN /\ reqConn \in Connections
    /\ connection \in Connections /\ length \in BOOLEAN
    /\ outcome \in {"none", "ok", "error"}
    /\ layers \in SUBSET {"source", "sink"}
    /\ kernel \in Nat /\ user \in Nat /\ sent \in Nat
    /\ peerClosed \in BOOLEAN

\* `delete this` runs only when neither the main operation nor the watch is
\* left to call back into the object.
DeleteSafe == deleted => main = "none" /\ watch = "none" /\ thread = "free"

\* The watch never reads beside the read of a request: at most one read of
\* the socket is under way.
OneReader == watch # "none" => main \notin Reads

\* Every start() is answered by exactly one on_finish before the next start()
\* and before the object goes.
OneFinishPerStart == owed \in 0 .. 1 /\ (deleted => owed = 0)

\* No completion meets a state whose case is assert(0) (HttpServer.cpp:140,
\* 232), and set_source, set_sink find no layer left on (HttpSocket.cpp:101,
\* 147).
AssertsHold ==
    /\ main # "none" => state \notin {"stopped", "exiting"}
    /\ state = "preparing" => "source" \notin layers
    /\ state = "sending_response_head" => "sink" \notin layers

\* However a request ends, it ends once and with everything put away.
EndsCleanly == OneFinishPerStart /\ AssertsHold

\* The connection is used again only when the client asked for it, the
\* derived class reported no error and the response said where it ends.
KeepAliveOnlyFramed ==
    [][ /\ state = "transferring_response_data"
        /\ state' \in {"stopped", "receiving_request_head"}
        => length /\ outcome = "ok" /\ reqConn = "keep_alive" ]_vars

\* A connection whose peer has gone is given up, whatever it was doing.
PeerGoneFrees == peerClosed ~> deleted

\* A request handed to the derived class is answered, and the connection then
\* reads the next request or goes, or the io thread waits in the peek for a
\* peer that has nothing to send.
RequestServed ==
    state = "local_processing"
        ~> (state = "receiving_request_head" \/ deleted \/ thread = "blocked")

\* handle_watch takes the connection for broken only when the peer has shut
\* it down or it has failed (its comments, HttpServer.cpp:263, 266).
BrokenMeansPeerGone == watch_state = "broken" => peerClosed
=============================================================================
