------------------------------ MODULE HttpProxy ------------------------------
(***************************************************************************)
(* util::protocol::HttpProxy: the connection of one client, whose requests are   *)
(* passed on to the server they name, or answered here.  Like HttpServer the      *)
(* object owns itself, and a read of null_buffers (the watch) runs beside the     *)
(* one operation under way, whose result handle_async takes to the next state.    *)
(***************************************************************************)
EXTENDS Integers

CONSTANTS
    MaxRequests,    \* bound: requests of the client
    Hosts,          \* servers its requests name; NoHost is a request that names none
    NoHost,
    Pipelining,     \* the client sends a request before the last is answered
    ServerCloses,   \* a server may close its connection behind an answer
    Unframed,       \* a server may answer to keep the connection, without a length
    NonBlock,       \* the modes of an accepted socket: TRUE once set_non_block was called
    NDEBUG          \* asserts are compiled out

\* [state, watch_state, local, op: the operation under way: "none", "now" (it calls back before
\*  it returns), "pending", "done", "failed", watch: "none", "pending", "ready", "aborted", host,
\*  body: of the request, to: where http_to_server_ is connected, up: it still is,
\*  keep: the connection of the response, framed: its length is known, sent: requests of the
\*  client, read: those that were read, ahead: those in rcv_buf_ behind them, answered: those that
\*  were answered, misled: one by another server, started, finished: calls of start and of on_finish, gone: the client is,
\*  non_block, blocked: the io thread is in the peek of handle_watch, deleted, failed]
VARIABLE proxy

NoServer == "none"
Derived == {"preparing", "local_processing"}     \* the derived class answers

ProxyInit ==
    \E non_block \in NonBlock :
    proxy = [state |-> "receiving_request_head", watch_state |-> "watch_stopped", local |-> FALSE, op |-> "pending",
             watch |-> "none", host |-> NoHost, body |-> FALSE, to |-> NoServer, up |-> FALSE, keep |-> FALSE,
             framed |-> TRUE, sent |-> 0, read |-> 0, ahead |-> 0, answered |-> 0, misled |-> FALSE, started |-> 1,
             finished |-> 0, gone |-> FALSE, non_block |-> non_block, blocked |-> FALSE, deleted |-> FALSE, failed |-> FALSE]

AtHand(p) == p.sent - p.read
InKernel(p) == AtHand(p) - p.ahead

\* the watch is started unless there is one; it is posted at once when rcv_buf_ is not empty
Watch(p) == IF p.watch_state # "watch_stopped" THEN p
            ELSE [p EXCEPT !.watch_state = "watching", !.watch = IF p.ahead > 0 THEN "ready" ELSE "pending"]

start(p) == [p EXCEPT !.state = "receiving_request_head", !.op = "pending", !.keep = FALSE, !.framed = TRUE,
                      !.started = @ + 1]
Delete(p) == [p EXCEPT !.deleted = TRUE, !.op = "none"]
on_finish(p) == [p EXCEPT !.finished = @ + 1]

\* what has not completed completes with operation_aborted; the derived class goes on
CancelWatch(p) == [p EXCEPT !.watch = IF @ = "pending" THEN "aborted" ELSE @]
cancel(p) == [CancelWatch(p) EXCEPT !.op = IF @ = "pending" /\ p.state \notin Derived THEN "failed" ELSE @]

transfer_request_data(p) ==
    [p EXCEPT !.state = "transferring_request_data", !.op = IF p.body THEN "pending" ELSE "now"]

transfer_response_data(p) == [p EXCEPT !.state = "transferring_response_data", !.op = "pending"]

response_error(p) == [p EXCEPT !.state = "sending_response_head", !.op = "pending", !.keep = FALSE, !.framed = TRUE]

\* mutant: the object goes although its watch is still to come
Exit_AtOnce(p) == Delete([on_finish(p) EXCEPT !.state = "exiting"])

\* on an error, or once the last answer is sent: the watch deletes the object if there is one
Exit(p) == LET e == [on_finish(p) EXCEPT !.state = "exiting", !.op = "none"]
           IN  IF p.watch_state = "watching" THEN CancelWatch(e) ELSE Delete(e)

\* keep the connection: the watch restarts the object if there is one
Restart(p) == LET e == [on_finish(p) EXCEPT !.state = "stopped", !.op = "none"]
              IN  IF p.watch_state = "watching" THEN CancelWatch(e)
                  ELSE start([e EXCEPT !.watch_state = "watch_stopped"])

HandleError(p) ==
    CASE p.state \in Derived -> [response_error(p) EXCEPT !.failed = ~NDEBUG]
      [] OTHER -> Exit(p)

\* the successors of a state whose operation is done
Prepared(p) ==
    {transfer_request_data([p EXCEPT !.local = TRUE]),
     IF p.to # NoServer THEN [p EXCEPT !.local = FALSE, !.state = "connectting", !.op = "now"]
     ELSE [p EXCEPT !.local = FALSE, !.state = "connectting", !.op = "pending", !.to = p.host, !.up = TRUE,
                    !.failed = p.host = NoHost]}

Answered(p) ==
    LET heads == {[p EXCEPT !.keep = keep, !.framed = framed] : keep \in BOOLEAN, framed \in BOOLEAN}
    IN  {h \in heads : h.keep => h.framed \/ (Unframed /\ ~p.local)}

HandleDone(p) ==
    CASE p.state = "receiving_request_head" ->
            {LET r == [p EXCEPT !.state = "preparing", !.op = "pending"] IN IF p.body THEN r ELSE Watch(r)}
      [] p.state = "preparing" -> Prepared(p)
      [] p.state = "connectting" -> {[p EXCEPT !.state = "sending_request_head", !.op = "pending"]}
      [] p.state = "sending_request_head" -> {transfer_request_data(p)}
      [] p.state = "transferring_request_data" -> {Watch([p EXCEPT !.state = "local_processing", !.op = "pending"])}
      [] p.state = "local_processing" ->
            IF p.local THEN {[a EXCEPT !.state = "receiving_response_head", !.op = "now"] : a \in Answered(p)}
            ELSE {[p EXCEPT !.state = "receiving_response_head", !.op = "pending"]}
      [] p.state = "receiving_response_head" ->
            {[a EXCEPT !.state = "sending_response_head", !.op = "pending"] :
                a \in IF p.local THEN {p} ELSE Answered([p EXCEPT !.misled = @ \/ p.to # p.host])}
      [] p.state = "sending_response_head" -> {transfer_response_data(p)}
      [] p.state = "transferring_response_data" ->
            LET a == [p EXCEPT !.answered = p.read] IN {IF p.keep THEN Restart(a) ELSE Exit(a)}

Live == ~proxy.deleted /\ ~proxy.failed

handle_async ==
    /\ Live /\ ~proxy.blocked /\ proxy.op \in {"now", "done", "failed"}
    /\ IF proxy.watch_state = "broken" THEN proxy' = Delete(on_finish(proxy))
       ELSE IF proxy.op = "failed" THEN proxy' = HandleError([proxy EXCEPT !.op = "none"])
       ELSE \E p \in HandleDone(proxy) : proxy' = p

on_broken_pipe(p) == cancel([p EXCEPT !.watch_state = "broken"])

\* the peek looks at the socket, not at rcv_buf_: with nothing in there it fails, or waits in the io thread
Peeks(p) == InKernel(p) > 0 \/ p.gone

handle_watch ==
    /\ Live /\ proxy.op # "now" /\ proxy.watch \in {"ready", "aborted"}
    /\ proxy.blocked => Peeks(proxy)
    /\ LET w == [proxy EXCEPT !.watch = "none", !.blocked = FALSE]
       IN  proxy' = IF proxy.state = "exiting" THEN Delete(w)
                    ELSE IF proxy.state = "stopped" THEN start([w EXCEPT !.watch_state = "watch_stopped"])
                    ELSE IF proxy.watch = "aborted" \/ InKernel(proxy) > 0
                    THEN [w EXCEPT !.watch_state = "watch_stopped"]
                    ELSE IF Peeks(proxy) \/ proxy.non_block THEN on_broken_pipe(w)
                    ELSE [proxy EXCEPT !.blocked = TRUE]
-----------------------------------------------------------------------------
\* what the operation under way waits for
FromClient(p) == p.state = "receiving_request_head" \/ (p.state = "transferring_request_data" /\ p.body)
WithServer(p) == \/ p.state \in {"connectting", "sending_request_head"}
                 \/ ~p.local /\ p.state \in {"transferring_request_data", "receiving_response_head",
                                             "transferring_response_data"}

Complete ==
    /\ Live /\ ~proxy.blocked /\ proxy.op = "pending"
    /\ \/ /\ IF proxy.state = "receiving_request_head" THEN AtHand(proxy) > 0
             ELSE (FromClient(proxy) => ~proxy.gone) /\ (WithServer(proxy) => proxy.up)
          /\ IF proxy.state = "receiving_request_head"
             THEN \E body \in BOOLEAN, host \in Hosts,
                     ahead \in IF proxy.ahead > 0 THEN {proxy.ahead - 1} ELSE 0 .. AtHand(proxy) - 1 :
                      proxy' = [proxy EXCEPT !.op = "done", !.read = @ + 1, !.ahead = ahead, !.body = body,
                                             !.host = host]
             ELSE \E up \in {proxy.up} \cup {u \in {FALSE} : ServerCloses /\ proxy.state = "transferring_response_data"} :
                      proxy' = [proxy EXCEPT !.op = "done", !.up = up]
       \/ /\ \/ proxy.gone /\ proxy.state \notin Derived /\ (proxy.state = "receiving_request_head" => AtHand(proxy) = 0)
             \/ WithServer(proxy) \/ proxy.state \in Derived
          /\ proxy' = [proxy EXCEPT !.op = "failed"]

\* bytes of the next request, or the end
Watched ==
    /\ Live /\ proxy.op # "now" /\ proxy.watch = "pending"
    /\ Peeks(proxy)
    /\ proxy' = [proxy EXCEPT !.watch = "ready"]

\* the client
Requests ==
    /\ Live /\ ~proxy.gone /\ proxy.sent < MaxRequests /\ proxy.op # "now"
    /\ proxy.sent = proxy.answered \/ Pipelining
    /\ proxy' = [proxy EXCEPT !.sent = @ + 1]

Leaves == Live /\ ~proxy.gone /\ proxy.op # "now" /\ proxy' = [proxy EXCEPT !.gone = TRUE]

ProxyNext == handle_async \/ handle_watch \/ Complete \/ Watched \/ Requests \/ Leaves
-----------------------------------------------------------------------------
(* An HttpProxy is deleted once, when no handler of it is to come; on_finish     *)
(* answers each start; a response that keeps the connection tells its length; a   *)
(* request is answered by the server it names; no assert fails                    *)
(* (HttpProxy.cpp:129-174, 284-308).                                             *)
ProxySafe ==
    /\ ~proxy.failed /\ ~proxy.misled
    /\ proxy.deleted => proxy.watch = "none" /\ proxy.op = "none" /\ proxy.finished = proxy.started
    /\ ~proxy.deleted => proxy.finished = proxy.started - (IF proxy.state \in {"stopped", "exiting"} THEN 0 ELSE 1)
    /\ proxy.state \in {"sending_response_head", "transferring_response_data"} /\ proxy.keep => proxy.framed
=============================================================================
