----------------------------- MODULE RtmpSession -----------------------------
(***************************************************************************)
(* util::protocol::RtmpClient and RtmpServer on one connection.  The client     *)
(* turns connect, play and publish into requests it sends in turn, each once     *)
(* the one before is answered, and answers protocol messages in between; its     *)
(* calls are asynchronous, or are repeated while they would block (mode).  The    *)
(* server reads a request, has it answered (local_process), and reads on.        *)
(***************************************************************************)
EXTENDS Naturals, Sequences, FiniteSets, SequencesExt

CONSTANTS
    Modes,          \* of the client: "async", or "sync", whose calls are repeated
    Calls,          \* what is called once connected: "play", "publish"
    Strays,         \* kinds of message the peer also sends, unasked
    MaxStrays,      \* bound: how many of them
    Blocks,         \* what a write of the synchronous client may block on: "request", "reply", "tick"
    AckEvery,       \* messages the client takes before it acknowledges them
    Attempts,       \* bound: how often the client connects
    Again,          \* it also does so once it has been connected
    CloseWhen,      \* when the client is closed: "idle", "calling"
    TickWhen        \* when tick is also called: "between" asynchronous calls, "failed", after an error

\* [mode, status, request: status_ and request_status_ of the client, requests, proto: requests_ and
\*  proto_responses_, op: its asynchronous operation under way, pending: what a write that
\*  blocked has still to send, call: what the user called, made: the requests of all calls,
\*  served: each request that was answered, with the request its answer is to, good: no answer
\*  was an error, reading: read_status_ after a read that would block, seen, acked: messages read and acknowledged, asked, replied,
\*  link: the connection is there, shaken: there was one, up, down: messages on their way,
\*  busy: what the server does, current: request_, window: window_send_, got: the requests that came,
\*  finished: calls of on_finish, strays, tries, failed: an assert failed]
VARIABLE session

\* messages are pairs of a kind and the request they answer
Replies(m) == IF m[1] = "asking" THEN <<"reply">> ELSE << >>
None == "none"

RtmpInit ==
    \E mode \in Modes :
        session = [mode |-> mode, status |-> "closed", request |-> "finished", requests |-> << >>,
                   proto |-> << >>, op |-> None, pending |-> << >>, call |-> None, made |-> << >>,
                   served |-> << >>, good |-> TRUE, reading |-> FALSE, seen |-> 0, acked |-> 0, asked |-> 0, replied |-> 0,
                   link |-> FALSE, shaken |-> FALSE, up |-> << >>, down |-> << >>, busy |-> "none",
                   current |-> None, window |-> FALSE, got |-> << >>, finished |-> 0,
                   strays |-> 0, tries |-> 0, failed |-> FALSE]

Write(s, msgs) == [s EXCEPT !.up = @ \o msgs,
                            !.replied = @ + Cardinality({i \in DOMAIN msgs : msgs[i] = "reply"})]

make_connect_requests(s) == [s EXCEPT !.requests = <<"connect">>, !.made = @ \o <<"connect">>]

make_play_requests(s) ==
    [s EXCEPT !.requests = <<"createStream", "play">>, !.made = @ \o <<"createStream", "play">>]

make_publish_requests(s) ==
    [s EXCEPT !.requests = <<"createStream", "publish">>, !.made = @ \o <<"createStream", "publish">>]

\* the user is called back, or the call returns
response(s, ok) == [s EXCEPT !.call = IF ok THEN None ELSE "failed"]

process_protocol_message(m) == m[1] \in {"quiet", "asking"}

\* mutant: any status message ends the request
post_response_AnyStatus(front, m) ==
    [done |-> m[1] \in {"answer", "error", "playing", "publishing", "other"}, ok |-> m[1] # "error",
     asserted |-> m[1] = "data"]

\* done: the message answers the request, ok: well; asserted: it is not a command
post_response(front, m) ==
    [done |-> m[1] \in {"answer", "error"} \/ <<front, m[1]>> \in {<<"play", "playing">>, <<"publish", "publishing">>},
     ok |-> m[1] # "error", asserted |-> m[1] = "data"]

\* the answer m has done for the first request
Popped(s, m) == [s EXCEPT !.request = IF Len(s.requests) = 1 THEN "finished" ELSE "send_pending",
                          !.requests = Tail(@), !.served = Append(@, <<Head(s.requests), m[2]>>),
                          !.good = @ /\ m[1] # "error"]

Read(s) == [s EXCEPT !.down = Tail(@), !.seen = @ + 1,
                     !.asked = @ + Len(Replies(Head(s.down)))]
-----------------------------------------------------------------------------
\* the asynchronous client
Send(s) == [Write(s, <<Head(s.requests)>>) EXCEPT !.request = "sending_req", !.op = "write",
                                                 !.failed = @ \/ s.pending # << >>]

async_reqeust(s) == Send(s)

handle_async_connect(s, ok) ==
    IF ~ok THEN response([s EXCEPT !.status = "broken", !.op = None], FALSE)
    ELSE IF s.status = "closed" THEN [s EXCEPT !.status = "connectting", !.op = "connect"]
    ELSE IF s.status = "connectting" THEN async_reqeust([s EXCEPT !.status = "net_connectting"])
    ELSE [s EXCEPT !.failed = TRUE]

\* the operation under way has failed
Broken(s) == response([s EXCEPT !.status = "broken", !.requests = << >>, !.op = None,
                                !.failed = @ \/ s.requests = << >>], FALSE)

\* a message has been read, the first of down
Received(s) ==
    LET m == Head(s.down)
        r == Read(s)
        post == post_response(Head(s.requests), m)
    IN  IF process_protocol_message(m)
        THEN [Write(r, Replies(m)) EXCEPT !.proto = Replies(m), !.request = "sending_req", !.op = "write"]
        ELSE IF post.asserted THEN [r EXCEPT !.failed = TRUE]
        ELSE IF ~post.done THEN [r EXCEPT !.proto = << >>]
        ELSE LET p == [Popped(r, m) EXCEPT !.proto = << >>, !.op = None]
             IN  IF p.requests = << >> THEN response(p, post.ok)
                 ELSE IF post.ok THEN Send(p) ELSE Broken(p)

handle_async_reqeust(s) ==
    IF s.op = "write" THEN [s EXCEPT !.request = "recving_resp", !.op = "read", !.failed = s.reading]
    ELSE Received(s)
-----------------------------------------------------------------------------
\* one turn of resume_request's loop; block: the write does
resume_request(s, block) ==
    IF s.requests = << >> THEN [s EXCEPT !.failed = TRUE]
    ELSE IF s.request # "recving_resp"
    THEN LET out == IF s.pending # << >> THEN s.pending ELSE <<Head(s.requests)>>
         IN  IF block THEN [s EXCEPT !.pending = out, !.request = "sending_req"]
             ELSE [Write(s, out) EXCEPT !.pending = << >>, !.request = "recving_resp"]
    ELSE LET m == Head(s.down)
             r == Read(s)
             post == post_response(Head(s.requests), m)
             proto == s.proto \o Replies(m)
         IN  IF process_protocol_message(m)
             THEN IF proto = << >> THEN [r EXCEPT !.request = "sending_req"]
                  ELSE IF block THEN [r EXCEPT !.proto = proto, !.pending = proto, !.request = "sending_req"]
                  ELSE [Write(r, proto) EXCEPT !.proto = proto]
             ELSE IF post.asserted THEN [r EXCEPT !.failed = TRUE]
             ELSE IF ~post.done THEN r
             ELSE LET p == Popped(r, m)
                  IN  IF ~post.ok THEN response(p, FALSE)
                      ELSE IF p.requests # << >> THEN p
                      ELSE response(IF s.status = "net_connectting" THEN [p EXCEPT !.status = "established"] ELSE p, TRUE)

\* RtmpSocket::connect does not return before the handshake is done
resume_connect(s, ok) ==
    IF s.status \in {"established", "broken"} THEN [s EXCEPT !.failed = TRUE]
    ELSE IF ok THEN [s EXCEPT !.status = "net_connectting"]
    ELSE response([s EXCEPT !.status = "connectting"], FALSE)

MayBlock(s) == \/ s.request # "recving_resp" /\ s.pending = << >> /\ "request" \in Blocks
               \/ s.request = "recving_resp" /\ "reply" \in Blocks

\* read_msg without waiting, and the answers to what came; anything else that came is dropped
tick(s, block) ==
    IF s.request # "finished" THEN resume_request(s, block)
    ELSE LET idle == s.proto = << >>
             due == idle /\ s.seen - s.acked >= AckEvery
             reads == idle /\ s.down # << >>
             proto == s.proto \o (IF due THEN <<"ack">> ELSE << >>)
                              \o (IF reads THEN Replies(Head(s.down)) ELSE << >>)
             t == [(IF reads THEN Read(s) ELSE s) EXCEPT !.acked = IF due THEN s.seen ELSE @,
                                                          !.reading = IF idle THEN ~reads ELSE @]
         IN  IF block /\ proto # << >> THEN [t EXCEPT !.proto = proto, !.pending = proto]
             ELSE [Write(t, proto) EXCEPT !.proto = << >>, !.pending = << >>]
-----------------------------------------------------------------------------
Free(s) == s.call = None /\ s.op = None

connect ==
    /\ session.call \in {None, "failed"} /\ session.op = None /\ session.status = "closed"
    /\ session.tries < Attempts /\ (session.shaken => Again)
    /\ LET s == [session EXCEPT !.call = "connect", !.tries = @ + 1]
           fresh == [make_connect_requests(s) EXCEPT !.request = IF s.mode = "sync" THEN "send_pending" ELSE @]
       IN  session' = IF s.mode = "async" THEN handle_async_connect(fresh, TRUE)
                      ELSE [(IF s.requests = << >> THEN fresh ELSE s) EXCEPT !.status = "connectting"]

\* the connection is there, and the server starts on it; or it is refused
Connected ==
    /\ \/ session.op = "connect"
       \/ session.mode = "sync" /\ session.call = "connect" /\ session.status = "connectting"
    /\ \E ok \in BOOLEAN :
           LET s == IF ok THEN [session EXCEPT !.link = TRUE, !.shaken = TRUE, !.busy = "read", !.up = << >>,
                                               !.down = << >>, !.got = << >>, !.finished = 0, !.current = None,
                                               !.window = FALSE, !.made = session.requests,
                                               !.served = << >>, !.failed = session.shaken /\ session.mode = "async"]
                    ELSE session
           IN  session' = IF s.mode = "async" THEN handle_async_connect(s, ok) ELSE resume_connect(s, ok)

play ==
    /\ "play" \in Calls /\ Free(session) /\ session.shaken /\ Len(session.served) = 1
    /\ LET s == make_play_requests([session EXCEPT !.call = "play", !.request = "send_pending"])
       IN  session' = IF s.mode = "async" THEN async_reqeust(s) ELSE s

publish ==
    /\ "publish" \in Calls /\ Free(session) /\ session.shaken /\ Len(session.served) = 1
    /\ LET s == make_publish_requests([session EXCEPT !.call = "publish", !.request = "send_pending"])
       IN  session' = IF s.mode = "async" THEN async_reqeust(s) ELSE s

\* the asynchronous operation completes
Complete ==
    /\ session.op \in {"write", "read"} /\ session.link
    /\ session.op = "read" => session.down # << >>
    /\ session' = handle_async_reqeust(session)

\* the call is made again, or goes on
Resume ==
    /\ session.mode = "sync" /\ session.call \notin {None, "failed"} /\ session.link
    /\ session.request = "recving_resp" => session.down # << >>
    /\ \E block \in {FALSE} \cup {b \in {TRUE} : MayBlock(session)} :
           session' = resume_request(session, block)

\* what is left to read comes before the end of the connection
Fail ==
    /\ \/ session.op \in {"write", "read"}
       \/ session.mode = "sync" /\ session.call \notin {None, "failed"}
    /\ ~session.link /\ session.shaken
    /\ session' = IF session.mode = "async" THEN Broken(session) ELSE response(session, FALSE)

Tick ==
    /\ session.op = None /\ session.link
    /\ session.call = None \/ (session.call = "failed" /\ "failed" \in TickWhen)
    /\ session.mode = "sync" \/ Len(session.made) = 3 \/ "between" \in TickWhen
    /\ session.request = "recving_resp" /\ session.requests # << >> => session.down # << >>
    /\ \E block \in {FALSE} \cup ({TRUE} \cap {"tick" \in Blocks}) : session' = tick(session, block)

close ==
    /\ session.status # "closed"
    /\ \/ Free(session) /\ "idle" \in CloseWhen
       \/ session.call = "failed"
       \/ "calling" \in CloseWhen /\ session.call \notin {None, "failed"} /\ session.status # "connectting"
    /\ session' = [session EXCEPT !.status = "closed", !.link = FALSE,
                                  !.call = IF session.mode = "sync" /\ @ # None THEN "failed" ELSE @]

\* the connection is lost
Lose == session.link /\ session' = [session EXCEPT !.link = FALSE]
-----------------------------------------------------------------------------
\* the server

start(s) == [s EXCEPT !.busy = "read", !.current = None]

Stray ==
    /\ session.link /\ session.busy \in {"read", "local"} /\ session.strays < MaxStrays
    /\ \E kind \in Strays :
           session' = [session EXCEPT !.down = Append(@, <<kind, None>>), !.strays = @ + 1]

handle_receive_request ==
    /\ session.busy = "read" /\ session.link /\ session.up # << >>
    /\ LET m == Head(session.up)
           s == [session EXCEPT !.up = Tail(@)]
       IN  session' = IF m \in {"reply", "ack"} THEN start(s)
                      ELSE [s EXCEPT !.busy = "local", !.current = m, !.got = Append(@, m)]

\* what local_process has put into response_, behind the window and the bandwidth once
Answers(s, ok) ==
    (IF s.window THEN << >> ELSE <<<<"quiet", None>>, <<"asking", None>>>>)
    \o <<<<IF ~ok THEN "error" ELSE IF s.current = "play" THEN "playing"
           ELSE IF s.current = "publish" THEN "publishing" ELSE "answer", s.current>>>>

handle_local_process ==
    /\ session.busy = "local" /\ session.link
    /\ \/ \E ok \in BOOLEAN :
              session' = [session EXCEPT !.down = @ \o Answers(session, ok), !.window = TRUE, !.busy = "write"]
       \/ session' = [session EXCEPT !.busy = "deleted", !.current = None, !.link = FALSE]

handle_send_response ==
    /\ session.busy = "write" /\ session.link
    /\ session' = start([session EXCEPT !.finished = @ + 1])

\* on_error, post_process, and delete this
handle_error ==
    /\ session.busy \in {"read", "local", "write"} /\ ~session.link
    /\ session' = [session EXCEPT !.busy = "deleted", !.current = None]

Client == connect \/ Connected \/ play \/ publish \/ Complete \/ Resume \/ Fail \/ Tick \/ close
Server == handle_receive_request \/ handle_local_process \/ handle_send_response \/ handle_error

RtmpNext == ~session.failed /\ (Client \/ Server \/ Stray \/ Lose)
-----------------------------------------------------------------------------
(* On a connection of an asynchronous client the server gets the requests of the  *)
(* calls once and in their order, each after the one before was answered; each is   *)
(* completed by the answer to it; a call that succeeds had every request answered    *)
(* well; what is asked in between is answered once; on_finish is called once for a    *)
(* request; and no assert fails (RtmpClient.cpp:367-429).                           *)
RequestsInTurn ==
    LET s == session
    IN  s.mode = "async" =>
        /\ ~s.failed
        /\ IsPrefix(s.got, s.made) /\ Len(s.got) <= Len(s.served) + 1
        /\ \A i \in DOMAIN s.served : s.served[i][1] = s.served[i][2]
        /\ Free(s) /\ s.shaken => s.good /\ Len(s.served) = Len(s.made)
        /\ s.replied <= s.asked /\ (s.op # "write" => s.replied = s.asked)
        /\ s.finished + (IF s.current = None THEN 0 ELSE 1) = Len(s.got) \/ ~s.link

(* Every call of the client ends.                                               *)
CallEnds == session.call \in {None, "failed"}
=============================================================================
