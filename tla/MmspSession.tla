----------------------------- MODULE MmspSession -----------------------------
(***************************************************************************)
(* util::protocol::MmspClient and MmspServer on one connection.  As in           *)
(* RtmpSession the client sends the requests of connect and play in turn, but     *)
(* an answer is one message whose type the request decides, an answer that is     *)
(* an error ends the connection, and the only protocol message is PING.           *)
(***************************************************************************)
EXTENDS Naturals, Sequences, SequencesExt

CONSTANTS
    Modes,          \* how the client calls: "async", "sync"
    Strays,         \* kinds of message the peer also sends, unasked
    MaxStrays,      \* bound: how many of them
    Blocks,         \* what a write of the synchronous client may block on: "request", "reply", "tick"
    Attempts,       \* bound: how often the client connects
    Again,          \* it also does so with what a failed call has left
    CloseWhen,      \* when the client is closed: "idle", "calling"
    TickWhen        \* when tick is also called: "between" asynchronous calls, "failed", after an error

\* [as in RtmpSession, and proto: proto_responses_ is not empty, dirty: a message was cut off
\*  in read_status_ or write_status_, or requests_ was left]
VARIABLE session

None == "none"

MmspInit ==
    \E mode \in Modes :
        session = [mode |-> mode, status |-> "closed", request |-> "finished", requests |-> << >>,
                   proto |-> FALSE, op |-> None, pending |-> << >>, call |-> None, made |-> << >>,
                   served |-> << >>, good |-> TRUE, reading |-> FALSE, dirty |-> FALSE, asked |-> 0, replied |-> 0,
                   link |-> FALSE, up |-> << >>, down |-> << >>, busy |-> "none", current |-> None,
                   got |-> << >>, finished |-> 0, strays |-> 0, tries |-> 0, failed |-> FALSE]

Write(s, m) == [s EXCEPT !.up = Append(@, m), !.replied = @ + (IF m = "pong" THEN 1 ELSE 0)]
Read(s) == [s EXCEPT !.down = Tail(@), !.asked = @ + (IF Head(s.down)[1] = "ping" THEN 1 ELSE 0)]

ConnectRequests == <<"connect", "connect_funnel">>
PlayRequests == <<"open_file", "read_block", "start_playing">>

make_connect_requests(s) == [s EXCEPT !.requests = ConnectRequests, !.made = @ \o ConnectRequests]
make_play_requests(s) == [s EXCEPT !.requests = PlayRequests, !.made = @ \o PlayRequests]

\* the user is called back, or the call returns
response(s, ok) == [s EXCEPT !.call = IF ok THEN None ELSE "failed"]

process_protocol_message(m) == m[1] = "ping"

\* ok: the request is answered well, asserted: by a message of another type;
\* only while playing starts may there be others
post_response(front, m) ==
    [ok |-> m[1] # "error", asserted |-> front # "start_playing" /\ m[2] # front,
     skipped |-> front = "start_playing" /\ m[2] # front]

Popped(s) == [s EXCEPT !.request = IF Len(s.requests) = 1 THEN "finished" ELSE "send_pending",
                       !.requests = Tail(@), !.served = Append(@, <<Head(s.requests), Head(s.down)[2]>>)]
-----------------------------------------------------------------------------
\* the asynchronous client
Send(s) == [Write(s, Head(s.requests)) EXCEPT !.request = "sending_req", !.op = "write",
                                             !.failed = @ \/ s.pending # << >>]

async_reqeust(s) == Send(s)

handle_async_connect(s, ok) ==
    IF ~ok THEN response([s EXCEPT !.status = "broken", !.op = None], FALSE)
    ELSE IF s.status = "closed" THEN [s EXCEPT !.status = "connectting", !.op = "connect"]
    ELSE IF s.status = "connectting" THEN async_reqeust([s EXCEPT !.status = "net_connectting"])
    ELSE [s EXCEPT !.failed = TRUE]

Broken(s) == response([s EXCEPT !.status = "broken", !.requests = << >>, !.op = None, !.dirty = TRUE,
                                !.failed = @ \/ s.requests = << >>], FALSE)

Received(s) ==
    LET m == Head(s.down)
        r == Read(s)
        post == post_response(Head(s.requests), m)
    IN  IF process_protocol_message(m)
        THEN [Write(r, "pong") EXCEPT !.proto = TRUE, !.request = "sending_req", !.op = "write"]
        ELSE IF post.asserted THEN [r EXCEPT !.failed = TRUE]
        ELSE IF post.skipped THEN r
        ELSE IF ~post.ok THEN Broken([r EXCEPT !.good = FALSE])
        ELSE LET p == [Popped(s) EXCEPT !.down = r.down, !.op = None]
             IN  IF p.requests = << >> THEN response(p, TRUE) ELSE Send(p)

handle_async_reqeust(s) ==
    IF s.op = "write" THEN [s EXCEPT !.request = "recving_resp", !.op = "read", !.failed = s.reading]
    ELSE Received(s)
-----------------------------------------------------------------------------
\* one turn of resume_request's loop; block: the write does
resume_request(s, block) ==
    IF s.requests = << >> THEN [s EXCEPT !.failed = TRUE]
    ELSE IF s.request # "recving_resp"
    THEN LET out == IF s.pending # << >> THEN s.pending[1] ELSE Head(s.requests)
         IN  IF block THEN [s EXCEPT !.pending = <<out>>, !.request = "sending_req"]
             ELSE [Write(s, out) EXCEPT !.pending = << >>, !.request = "recving_resp"]
    ELSE LET m == Head(s.down)
             r == Read(s)
             post == post_response(Head(s.requests), m)
         IN  IF process_protocol_message(m)
             THEN IF block THEN [r EXCEPT !.proto = TRUE, !.pending = <<"pong">>, !.request = "sending_req"]
                  ELSE [Write(r, "pong") EXCEPT !.proto = TRUE]
             ELSE IF post.asserted THEN [r EXCEPT !.failed = TRUE]
             ELSE IF post.skipped THEN r
             ELSE IF ~post.ok THEN response([r EXCEPT !.good = FALSE, !.dirty = TRUE], FALSE)
             ELSE LET p == [Popped(s) EXCEPT !.down = r.down]
                  IN  IF p.requests # << >> THEN p
                      ELSE response(IF s.status = "net_connectting" THEN [p EXCEPT !.status = "established"] ELSE p, TRUE)

resume_connect(s, ok) ==
    IF s.status \in {"established", "broken"} THEN [s EXCEPT !.failed = TRUE]
    ELSE IF ok THEN [s EXCEPT !.status = "net_connectting"]
    ELSE response([s EXCEPT !.status = "connectting"], FALSE)

MayBlock(s) == \/ s.request # "recving_resp" /\ s.pending = << >> /\ "request" \in Blocks
               \/ s.request = "recving_resp" /\ "reply" \in Blocks

\* read_msg without waiting, and the answer to what came, or to what came before
tick(s, block) ==
    IF s.request # "finished" THEN resume_request(s, block)
    ELSE LET reads == ~s.proto /\ s.down # << >>
             t == [(IF reads THEN Read(s) ELSE s) EXCEPT !.reading = IF s.proto THEN @ ELSE ~reads]
         IN  IF ~s.proto /\ (~reads \/ ~process_protocol_message(Head(s.down))) THEN t
             ELSE IF block THEN [t EXCEPT !.proto = TRUE, !.pending = <<"pong">>]
             ELSE [Write(t, "pong") EXCEPT !.proto = FALSE, !.pending = << >>]
-----------------------------------------------------------------------------
Free(s) == s.call = None /\ s.op = None

connect ==
    /\ session.call \in {None, "failed"} /\ session.op = None /\ session.status = "closed"
    /\ session.tries < Attempts /\ (session.dirty => Again)
    /\ LET s == [session EXCEPT !.call = "connect", !.tries = @ + 1]
           fresh == [make_connect_requests(s) EXCEPT !.request = IF s.mode = "sync" THEN "send_pending" ELSE @]
       IN  session' = IF s.mode = "async" THEN handle_async_connect(fresh, TRUE)
                      ELSE [(IF s.requests = << >> THEN fresh ELSE s) EXCEPT !.status = "connectting"]

\* the connection is there, and the server starts on it; or it is refused
Connected ==
    /\ \/ session.op = "connect"
       \/ session.mode = "sync" /\ session.call = "connect" /\ session.status = "connectting"
    /\ \E ok \in BOOLEAN :
           LET s == IF ok THEN [session EXCEPT !.link = TRUE, !.busy = "read", !.up = << >>, !.down = << >>,
                                               !.got = << >>, !.finished = 0, !.current = None, !.made = session.requests, !.served = << >>,
                                               !.asked = 0, !.replied = 0, !.failed = session.dirty]
                    ELSE session
           IN  session' = IF s.mode = "async" THEN handle_async_connect(s, ok) ELSE resume_connect(s, ok)

play ==
    /\ Free(session) /\ session.link /\ Len(session.made) = Len(ConnectRequests)
    /\ LET s == make_play_requests([session EXCEPT !.call = "play", !.request = "send_pending"])
       IN  session' = IF s.mode = "async" THEN async_reqeust(s) ELSE s

\* the asynchronous operation completes
Complete ==
    /\ session.op \in {"write", "read"} /\ session.link
    /\ session.op = "read" => session.down # << >>
    /\ session' = handle_async_reqeust(session)

\* the call is made again, or goes on
Resume ==
    /\ session.mode = "sync" /\ session.call \notin {None, "failed"} /\ session.link
    /\ session.request = "recving_resp" => session.down # << >>
    /\ \E block \in {FALSE} \cup {b \in {TRUE} : MayBlock(session)} :
           session' = resume_request(session, block)

Fail ==
    /\ \/ session.op \in {"write", "read"}
       \/ session.mode = "sync" /\ session.call \notin {None, "failed"} /\ session.status # "connectting"
    /\ ~session.link
    /\ session' = IF session.mode = "async" THEN Broken(session)
                  ELSE response([session EXCEPT !.dirty = TRUE], FALSE)

Tick ==
    /\ session.op = None /\ session.link
    /\ session.call = None \/ (session.call = "failed" /\ "failed" \in TickWhen)
    /\ session.mode = "sync" \/ Len(session.made) > Len(ConnectRequests) \/ "between" \in TickWhen
    /\ session.request = "recving_resp" /\ session.requests # << >> => session.down # << >>
    /\ \E block \in {FALSE} \cup ({TRUE} \cap {"tick" \in Blocks}) : session' = tick(session, block)

close ==
    /\ session.status # "closed"
    /\ \/ Free(session) /\ "idle" \in CloseWhen
       \/ session.call = "failed"
       \/ "calling" \in CloseWhen /\ session.call \notin {None, "failed"} /\ session.status # "connectting"
    /\ session' = [session EXCEPT
                      !.status = "closed", !.link = FALSE,
                      !.dirty = \/ @ \/ session.reading \/ session.pending # << >>
                                \/ session.mode = "sync" /\ session.requests # << >> /\ session.status # "connectting",
                      !.call = IF session.mode = "sync" /\ @ # None THEN "failed" ELSE @]

\* the connection is lost
Lose == session.link /\ session' = [session EXCEPT !.link = FALSE]
-----------------------------------------------------------------------------
\* the server
\* mutant: the server does not read on
start_Once(s) == [s EXCEPT !.busy = "done", !.current = None]

start(s) == [s EXCEPT !.busy = "read", !.current = None]

Stray ==
    /\ session.link /\ session.busy \in {"read", "local"} /\ session.strays < MaxStrays
    /\ \E kind \in Strays :
           /\ kind = "stream" => Last(session.made) = Last(PlayRequests) /\ Last(session.got) = Last(PlayRequests)
           /\ session' = [session EXCEPT !.down = Append(@, <<kind, None>>), !.strays = @ + 1]

handle_receive_request ==
    /\ session.busy = "read" /\ session.link /\ session.up # << >>
    /\ LET m == Head(session.up)
           s == [session EXCEPT !.up = Tail(@)]
       IN  session' = IF m = "pong" THEN start(s)
                      ELSE [s EXCEPT !.busy = "local", !.current = m, !.got = Append(@, m)]

\* local_process has put its answer into response_
handle_local_process ==
    /\ session.busy = "local" /\ session.link
    /\ \E ok \in BOOLEAN :
           session' = [session EXCEPT !.busy = "write",
                                      !.down = Append(@, <<IF ok THEN "answer" ELSE "error", session.current>>)]

handle_send_response ==
    /\ session.busy = "write" /\ session.link
    /\ session' = start([session EXCEPT !.finished = @ + 1])

\* on_error, post_process, and delete this
handle_error ==
    /\ session.busy \in {"read", "local", "write"} /\ ~session.link
    /\ session' = [session EXCEPT !.busy = "deleted", !.current = None]

Client == connect \/ Connected \/ play \/ Complete \/ Resume \/ Fail \/ Tick \/ close
Server == handle_receive_request \/ handle_local_process \/ handle_send_response \/ handle_error

MmspNext == ~session.failed /\ (Client \/ Server \/ Stray \/ Lose)
-----------------------------------------------------------------------------
(* On a connection the server gets the requests of the calls once and in their  *)
(* order, each after the one before was answered; each is completed by the       *)
(* answer to it; a call that succeeds had every request answered well; a ping      *)
(* is answered; on_finish is called once for a request; and no assert fails       *)
(* (MmspClient.cpp:222-261, 322-358).                                            *)
RequestsInTurn ==
    LET s == session
    IN  /\ ~s.failed
        /\ IsPrefix(s.got, s.made) /\ Len(s.got) <= Len(s.served) + 1
        /\ \A i \in DOMAIN s.served : s.served[i][1] = s.served[i][2]
        /\ Free(s) /\ s.link => s.good /\ Len(s.served) = Len(s.made)
        /\ s.op # "write" /\ s.pending = << >> => s.replied >= s.asked
        /\ s.finished + (IF s.current = None THEN 0 ELSE 1) = Len(s.got) \/ ~s.link

(* Every call of the client ends.                                               *)
CallEnds == session.call \in {None, "failed"}
=============================================================================
