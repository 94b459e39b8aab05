--------------------------- MODULE HttpClientAsync ---------------------------
(***************************************************************************)
(* The asynchronous interface of HttpClient: async_open and async_fetch     *)
(* queue a request with a callback, and the handlers send the requests of   *)
(* the queue one after the other while the answer to the first is read.     *)
(*                                                                         *)
(* A handler finds its request by position when it runs, the front or the   *)
(* first unsent one, not by the request it was started for.  Handlers run   *)
(* one at a time on the thread of the io_service.                           *)
(***************************************************************************)
EXTENDS HttpClient

CONSTANTS
    MaxPosts,       \* bound: requests ever posted
    Users,          \* how the client may be used
    EarlyClose      \* the user closes a request before its callback

Pipeliner ==
    [queue |-> 3, redirects |-> 0, keep_alives |-> BOOLEAN, reuses |-> FALSE]
OneByOne ==
    [queue |-> 1, redirects |-> 2, keep_alives |-> {FALSE}, reuses |-> TRUE]
KeepsAlive ==
    [queue |-> 1, redirects |-> 0, keep_alives |-> BOOLEAN, reuses |-> FALSE]

PipelinedOrNot == {Pipeliner, OneByOne}
Keeping == {KeepsAlive}

ASSUME HttpClientAssumption ==
    MaxPosts \in Nat /\ Users \subseteq Uses /\ EarlyClose \in BOOLEAN

VARIABLES
    user,           \* how this client is used
    client,         \* the HttpClient
    req_id,         \* requests posted
    redirected,     \* redirections received
    dropped         \* requests whose send failed and whose callback was not called

vars == <<user, client, req_id, redirected, dropped>>

Init ==
    /\ user \in Users
    /\ client = NewClient /\ req_id = 0 /\ redirected = 0 /\ dropped = {}

-----------------------------------------------------------------------------
Issue(c, what, pending, i) ==
    [c EXCEPT !.ops = @ \cup
        {[what |-> what, pending |-> pending, id |-> c.requests[i].id,
          result |-> "pending"]}]

\* response_request.
Respond(c, i) ==
    [c EXCEPT !.requests[i].resp = IF @ = "held" THEN "posted" ELSE "twice"]

\* handle_async_connect in status closed.
StartConnect(c) == Issue([c EXCEPT !.status = "connectting"], "connect", FALSE, 1)

\* handle_async_reqeust, case by case, for the request at position i.
SendHead(c, i, pending) ==
    Issue(SetStatus(c, i, "sending_req_head"), "write_head", pending, i)

SendData(c, i, pending) ==
    Issue(SetStatus(c, i, "sending_req_data"), "write_data", pending, i)

ReceiveHead(c) == Issue(SetStatus(c, 1, "recving_resp_head"), "read_head", FALSE, 1)

\* The request behind the one just sent follows at once.
SendBehind_Newest(c) ==
    IF c.num_sent < Len(c.requests) THEN SendHead(c, Len(c.requests), TRUE) ELSE c
SendBehind(c) ==
    IF c.num_sent < Len(c.requests) THEN SendHead(c, c.num_sent + 1, TRUE) ELSE c

Sent(c, i, pending) ==
    LET d == SendBehind([c EXCEPT !.num_sent = @ + 1])
    IN  IF pending THEN SetStatus(d, i, "recv_pending") ELSE ReceiveHead(d)

Fetched(c) == Respond(PostHandle(ResetSource(SetStatus(c, 1, "finished")), 1, FALSE), 1)

Redirected_StatusKept(c) == StartConnect([CloseSocket(c) EXCEPT !.status = "closed"])
Redirected(c) ==
    StartConnect(SetStatus([CloseSocket(c) EXCEPT !.status = "closed"], 1, "send_pending"))

ReceivedHead(c, response) ==
    LET d == [c EXCEPT !.response = response, !.layered = response.framing # "none"]
        body == SetStatus(d, 1, "recving_resp_data")
    IN  IF ~Front(c).is_fetch
          THEN Respond(PostHandle(SetStatus(d, 1, "opened"), 1, FALSE), 1)
        ELSE IF response.framing = "zero" THEN Fetched(body)
        ELSE Issue(body, "read_data", FALSE, 1)

\* An error ends a request, unless it is the end of a body without length; that
\* of a request behind the front is left to be found later.
Failed(c, i, pending) == IF pending THEN c ELSE Respond(PostHandle(c, i, TRUE), i)

EndsBody(c, i, ec) ==
    /\ ec = "eof" /\ c.requests[i].is_fetch
    /\ c.requests[i].status = "recving_resp_data" /\ ~HasContentLength(c.response)

Position_Front(c, pending) == 1
Position(c, pending) == IF pending THEN c.num_sent + 1 ELSE 1

\* handle_async_reqeust; `in` is what was received and whether the request
\* has data.
HandleRequest(c, flag, ec, in) ==
    LET i == Position(c, flag)
        pending == flag /\ c.num_sent # 0
        status == c.requests[i].status
    IN  IF ec # "ok" /\ ~EndsBody(c, i, ec) THEN Failed(c, i, pending)
        ELSE CASE status = "send_pending"      -> SendHead(c, i, pending)
               [] status = "sending_req_head"  ->
                    IF in.data THEN SendData(c, i, pending) ELSE Sent(c, i, pending)
               [] status = "sending_req_data"  -> Sent(c, i, pending)
               [] status = "recv_pending"      -> ReceiveHead(c)
               [] status = "recving_resp_head" ->
                    IF in.redirect THEN Redirected(c) ELSE ReceivedHead(c, in.response)
               [] status = "recving_resp_data" -> Fetched(c)
               [] OTHER                        -> c

NoInput == [data |-> FALSE, redirect |-> FALSE,
            response |-> [framing |-> "none", keep |-> FALSE]]

\* async_resume.
Waits == {"send_pending", "recv_pending"}

Behind(c) == c.num_sent > 0 /\ c.num_sent < Len(c.requests)

ResumeFront(c) ==
    IF Front(c).status \in Waits
      THEN HandleRequest(c, FALSE, c.broken_error, NoInput) ELSE c

ResumeBehind(c) ==
    IF Behind(c) /\ c.requests[c.num_sent + 1].status = "send_pending"
      THEN HandleRequest(c, TRUE, c.broken_error, NoInput) ELSE c

AsyncResume(c) ==
    IF c.requests = <<>> THEN c
    ELSE IF c.status = "closed" THEN StartConnect(c)
    ELSE IF c.status \in Established THEN ResumeBehind(ResumeFront(c))
    ELSE c

HandleConnect(c, ec) ==
    IF ec # "ok" THEN AsyncResume(Break(c))
    ELSE IF c.status = "closed" THEN StartConnect(c)
    ELSE AsyncResume([c EXCEPT !.status = "established"])

HandleNext(c) == AsyncResume(PopFront(c))

-----------------------------------------------------------------------------
(* The user.                                                                *)

\* Posting to a client of the user; a rejected request leaves it as it was.
Post(c, is_fetch) ==
    /\ req_id < MaxPosts /\ ~Rejected(c) /\ req_id' = req_id + 1
    /\ \E keep_alive \in user.keep_alives :
          client' = AsyncResume(PostRequest(c, req_id', is_fetch, keep_alive))
    /\ UNCHANGED <<user, redirected, dropped>>

Room ==
    IF ReusesFetch(client) THEN user.reuses /\ Front(client).resp = "called"
    ELSE Len(client.requests) < user.queue

AsyncOpen  == Room /\ Post(client, FALSE)
AsyncFetch == Room /\ Post(client, TRUE)

\* The io_service runs a posted callback.
CallBack ==
    /\ \E i \in DOMAIN client.requests :
          /\ client.requests[i].resp = "posted"
          /\ client' = [client EXCEPT !.requests[i].resp = "called"]
    /\ UNCHANGED <<user, req_id, redirected, dropped>>

MayClose == EarlyClose \/ Front(client).resp = "called"

\* close().
Close ==
    /\ \/ client.requests = <<>> /\ client.status # "closed"
       \/ client.requests # <<>> /\ MayClose
    /\ client' = IF Len(client.requests) > 1 THEN HandleNext(client)
                 ELSE IF client.requests = <<>> THEN Closed(client)
                 ELSE Closed(PopFront(client))
    /\ UNCHANGED <<user, req_id, redirected, dropped>>

\* async_reopen, async_refetch: close(), then the same request again.
Again ==
    /\ Len(client.requests) = 1 /\ MayClose
    /\ Post(Closed(PopFront(client)), Front(client).is_fetch)

\* read_finish(): the user has read the body of an opened request.
ReadFinish ==
    /\ client.requests # <<>>
    /\ Front(client).status = "opened" /\ Front(client).resp = "called"
    /\ client' = HandleNext(client)
    /\ UNCHANGED <<user, req_id, redirected, dropped>>

-----------------------------------------------------------------------------
(* The socket and its handlers.                                             *)

Results(o) ==
    IF o.what # "read_data" THEN {"ok", "error"}
    ELSE IF HasContentLength(client.response) THEN {"ok", "error", "eof"}
    ELSE {"eof", "error"}

Complete ==
    /\ \E o \in client.ops :
          /\ o.result = "pending"
          /\ \E r \in Results(o) :
                client' = [client EXCEPT !.ops =
                              (@ \ {o}) \cup {[o EXCEPT !.result = r]}]
    /\ UNCHANGED <<user, req_id, redirected, dropped>>

\* A handler whose position is beyond the queue would read past it.
InQueue(o) == Position(client, o.pending) <= Len(client.requests)

Runs(o) ==
    /\ o \in client.ops /\ o.result # "pending"

ConnectHandler ==
    /\ \E o \in client.ops :
          /\ Runs(o) /\ o.what = "connect"
          /\ client' = HandleConnect([client EXCEPT !.ops = @ \ {o}], o.result)
    /\ UNCHANGED <<user, req_id, redirected, dropped>>

MayRedirect == redirected < user.redirects /\ Len(client.requests) = 1

Inputs(o) ==
    [data : IF o.what = "write_head" THEN BOOLEAN ELSE {FALSE},
     redirect : IF o.what = "read_head" /\ MayRedirect THEN BOOLEAN ELSE {FALSE},
     response : IF o.what = "read_head" THEN Responses ELSE {NoInput.response}]

RequestHandler ==
    \E o \in client.ops :
      /\ Runs(o) /\ o.what # "connect" /\ InQueue(o)
      /\ \E in \in Inputs(o) :
            /\ client' = HandleRequest([client EXCEPT !.ops = @ \ {o}],
                                       o.pending, o.result, in)
            /\ redirected' = IF in.redirect /\ o.result = "ok"
                               THEN redirected + 1 ELSE redirected
      /\ dropped' = IF o.result # "ok" /\ o.pending /\ client.num_sent # 0
                      THEN dropped \cup {o.id} ELSE dropped
      /\ UNCHANGED <<user, req_id>>

Next ==
    \/ AsyncOpen \/ AsyncFetch \/ Again \/ CallBack \/ Close \/ ReadFinish
    \/ Complete \/ ConnectHandler \/ RequestHandler

Spec == Init /\ [][Next]_vars

-----------------------------------------------------------------------------
(* Properties.                                                              *)

TypeOK ==
    /\ user \in Uses /\ client \in Clients
    /\ req_id \in 0 .. MaxPosts /\ redirected \in 0 .. user.redirects
    /\ dropped \subseteq 1 .. MaxPosts

\* The request a handler finds by position when it runs is the one it was
\* started for.
HandlersFindTheirRequest ==
    \A o \in client.ops : o.what # "connect" =>
        /\ InQueue(o)
        /\ client.requests[Position(client, o.pending)].id = o.id

\* No callback is called twice.
OneAnswer ==
    \A i \in DOMAIN client.requests : client.requests[i].resp # "twice"

Writes == {o \in client.ops : o.what \in {"write_head", "write_data"}}
Reads  == {o \in client.ops : o.what \in {"read_head", "read_data"}}

\* All requests are written through one snd_buf_ and answered through one
\* rcv_buf_: one write is under way, and one read, that of the front request
\* before it is the user's to read.
BuffersAreExclusive ==
    /\ \A o, p \in Writes : o = p
    /\ \A o, p \in Reads : o = p
    /\ \A o \in Reads : o.id = Front(client).id /\ Front(client).status # "opened"

\* While the callback of the front request is held, exactly one operation is
\* under way that leads to it; unless its send failed behind another request.
FrontIsServed ==
    client.requests # <<>> /\ Front(client).resp = "held" =>
        \/ Front(client).id \in dropped
        \/ \E o \in client.ops : \A p \in client.ops :
               (p.id = Front(client).id) <=> (p = o)

\* num_sent_ is the number of requests already sent (HttpClient.h:512), as long
\* as no request was redirected and no fetch reused.
NumSentCounts ==
    LET unsent == {i \in DOMAIN client.requests : client.requests[i].status \in Unsent}
    IN  user.redirects = 0 /\ ~user.reuses
          => unsent = client.num_sent + 1 .. Len(client.requests)

\* The requests of the queue are served one after the other: each handler finds
\* the request it was started for, the front one is on its way to its callback,
\* no callback is called twice, and num_sent_ says which are still to be sent.
ServedInTurn ==
    /\ TypeOK
    /\ HandlersFindTheirRequest /\ OneAnswer /\ FrontIsServed /\ NumSentCounts

\* The asserts hold: a connect completes while connectting (583), the request
\* behind the one just sent is untouched (657), a finished fetch that is
\* followed without close() has ended its connection (267).
AssertsHold ==
    /\ \A o \in client.ops : o.what = "connect" => client.status = "connectting"
    /\ \A i \in client.num_sent + 2 .. Len(client.requests) :
           client.requests[i].status = "send_pending"
    /\ user.reuses /\ ReusesFetch(client) => client.status \in {"closed", "broken"}

\* set_source finds no layer left on the socket (the assert HttpSocket.cpp:101).
SetSourceFindsNone ==
    \A o \in client.ops : o.what = "read_head" /\ o.result = "ok" => ~client.layered

\* Every request posted is answered or gone at last, unless the send of it or
\* of one before it failed behind another request.
Answered ==
    \A id \in 1 .. MaxPosts :
        req_id >= id ~>
            \/ \A i \in DOMAIN client.requests :
                   client.requests[i].id = id => client.requests[i].resp # "held"
            \/ \E d \in dropped : d <= id
=============================================================================
