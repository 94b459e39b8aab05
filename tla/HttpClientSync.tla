---------------------------- MODULE HttpClientSync ----------------------------
(***************************************************************************)
(* The synchronous interface of HttpClient: open and fetch queue a request  *)
(* and run resume(), is_open and is_fetch run resume() again.  On a socket  *)
(* that does not block, every read and write of resume() may stop with      *)
(* would_block; the status of a request is where the next call goes on.     *)
(*                                                                         *)
(* What the socket does in a call is an outcome, chosen before: the call    *)
(* of the socket that stops, if any, and how, and what is received before.  *)
(***************************************************************************)
EXTENDS HttpClient

CONSTANTS
    MaxPosts,       \* bound: requests ever posted
    Pollers         \* how the client may be used, a set of Uses; one redirection
                    \* at most comes in a call

VARIABLES
    user,           \* how this client is used
    client,         \* the HttpClient
    req_id,         \* requests posted
    redirected,     \* redirections received
    answer          \* what the last call returned, and which call it was

vars == <<user, client, req_id, redirected, answer>>

Init ==
    /\ user \in Pollers
    /\ client = NewClient /\ req_id = 0 /\ redirected = 0
    /\ answer = [call |-> "none", ec |-> "ok"]

-----------------------------------------------------------------------------
NoResponse == [framing |-> "none", keep |-> FALSE]
Going == [stop |-> "none", ec |-> "ok", redirect |-> "no", response |-> NoResponse]

Stops(calls) ==
    {[Going EXCEPT !.stop = s, !.ec = e] : s \in calls, e \in {"would_block", "error"}}

\* What a front request, a request behind it can meet.
Answers == {[o EXCEPT !.response = r] : o \in {Going} \cup Stops({"read_data"}), r \in Responses}
FrontOutcomes == Stops({"write_head", "write_data", "read_head"}) \cup Answers
BehindOutcomes == {Going} \cup Stops({"write_head", "write_data"})

\* A step of a call: the client, the error so far, and that the request was
\* redirected.
Went(c, ec) == [client |-> c, ec |-> ec, again |-> FALSE]

\* resume_connect.
ResumeConnect(c, connect) ==
    CASE connect = "ok"          -> Went([c EXCEPT !.status = "established"], "ok")
      [] connect = "would_block" -> Went([c EXCEPT !.status = "connectting"], connect)
      [] connect = "error"       ->
           Went([c EXCEPT !.status = "broken", !.broken_error = "error"], connect)

\* A request that stopped is gone on with where it stopped.
Retry_FromStart(c, i, s) == SetStatus(c, i, "send_pending")
Retry(c, i, s) == SetStatus(c, i, s)

\* resume_request as far as a request is sent.
Send(c, i, o) ==
    IF c.requests[i].status \notin Unsent THEN Went(c, "ok")
    ELSE IF o.stop = "write_head" /\ c.requests[i].status # "sending_req_data"
      THEN Went(Retry(c, i, "sending_req_head"), o.ec)
    ELSE IF o.stop = "write_data" THEN Went(Retry(c, i, "sending_req_data"), o.ec)
    ELSE Went(SetStatus([c EXCEPT !.num_sent = @ + 1], i, "recv_pending"), "ok")

\* A redirection is an error when requests are queued behind, or when it names
\* no valid location.
RedirectFails(c, o) == o.redirect = "refused"

\* The head of a response is taken, its layers put on.
TakeHead(c, response) ==
    SetStatus([c EXCEPT !.response = response, !.layered = response.framing # "none"],
              1, IF Front(c).is_fetch THEN "recving_resp_data" ELSE "opened")

\* As far as the head of the response is read.
ReceiveHead(c, o) ==
    IF Front(c).status \notin {"recv_pending", "recving_resp_head"} THEN Went(c, "ok")
    ELSE IF o.stop = "read_head"
      THEN Went(Retry(c, 1, "recving_resp_head"), o.ec)
    ELSE IF o.redirect = "followed" /\ Len(c.requests) = 1
      THEN [client |-> SetStatus([c EXCEPT !.status = "closed"], 1, "send_pending"),
            ec |-> "ok", again |-> TRUE]
    ELSE Went(TakeHead(c, o.response),
              IF RedirectFails(c, o) /\ (~Front(c).is_fetch \/ o.response.framing = "zero")
                THEN "error" ELSE "ok")

\* The body of a fetch.
ReceiveData(c, o) ==
    IF Front(c).status # "recving_resp_data" THEN Went(c, "ok")
    ELSE IF o.stop = "read_data" /\ c.response.framing # "zero" THEN Went(c, o.ec)
    ELSE Went(ResetSource(SetStatus(c, 1, "finished")), "ok")

\* resume_request(false, ok), each step after the one before it went well, and
\* its end.
ThenReceiveHead(went, o) ==
    IF went.ec = "ok" THEN ReceiveHead(went.client, o) ELSE went
ThenReceiveData(went, o) ==
    IF went.ec = "ok" /\ ~went.again THEN ReceiveData(went.client, o) ELSE went
Ended(went) ==
    IF went.ec = "would_block" \/ went.again THEN went
    ELSE Went(PostHandle(went.client, 1, went.ec = "error"), went.ec)
ResumeFront(c, o) == Ended(ThenReceiveData(ThenReceiveHead(Send(c, 1, o), o), o))

Behind(c) == c.num_sent > 0 /\ c.num_sent < Len(c.requests)

FirstUnsent(c) == c.num_sent + 1

\* The second half of resume(): the error of a request behind is only the
\* caller's when it is the one asked for.
AnswerBehind(went, sent, pending) ==
    Went(sent.client,
         IF ~pending THEN went.ec ELSE IF sent.ec = "ok" THEN "would_block" ELSE sent.ec)
SendBehind(c, o) ==
    IF c.broken_error # "ok" THEN Went(c, "error") ELSE Send(c, FirstUnsent(c), o)
ResumeBehind(went, pending, o) ==
    IF Behind(went.client)
      THEN AnswerBehind(went, SendBehind(went.client, o), pending) ELSE went

\* The connection is ready when the front request is beyond its head and all
\* are sent.
MayBeReady(c) ==
    /\ c.num_sent = Len(c.requests)
    /\ Front(c).status \in {"recving_resp_data", "finished"}

GetReady(went) ==
    IF went.client.status = "established" /\ MayBeReady(went.client)
      THEN [went EXCEPT !.client.status = "ready"] ELSE went

\* resume(), up to a redirection; in is [connect, front, behind].
Connected(c, connect) ==
    IF c.status \in {"closed", "connectting"}
      THEN ResumeConnect(c, connect) ELSE Went(c, c.broken_error)
ThenFront(went, pending, o) ==
    IF pending \/ Front(went.client).status \in {"opened", "finished"} THEN went
    ELSE IF went.ec # "ok" THEN Went(PostHandle(went.client, 1, TRUE), went.ec)
    ELSE ResumeFront(went.client, o)
ThenBehind(went, pending, o) ==
    IF went.again THEN went ELSE GetReady(ResumeBehind(went, pending, o))
IfEstablished(went, pending, in) ==
    IF went.client.status \in Established
      THEN ThenBehind(ThenFront(went, pending, in.front), pending, in.behind) ELSE went
ResumeOnce(c, pending, in) == IfEstablished(Connected(c, in.connect), pending, in)

\* Redirections: refused, always with requests queued behind, or followed, as far
\* as the use bounds them, whatever else the response says.
Redirections(c) ==
    {[o EXCEPT !.redirect = "refused"] : o \in Answers} \cup
    IF Len(c.requests) = 1 /\ redirected < user.redirects
      THEN {[Going EXCEPT !.redirect = "followed"]} ELSE {}

Inputs(c, pending) ==
    [connect : IF c.status \in {"closed", "connectting"}
                 THEN {"ok", "would_block", "error"} ELSE {"ok"},
     front : IF pending \/ Front(c).status \in {"opened", "finished"} THEN {Going}
             ELSE FrontOutcomes \cup Redirections(c),
     behind : IF Len(c.requests) > 1 THEN BehindOutcomes ELSE {Going}]

Outcomes(c, pending) == {ResumeOnce(c, pending, in) : in \in Inputs(c, pending)}

\* A call of resume() on client c, a redirection and what follows included.
Replies(call, went) ==
    /\ ~went.again
    /\ client' = went.client /\ answer' = [call |-> call, ec |-> went.ec]
    /\ UNCHANGED user
Resume(c, pending, call) ==
    \E went \in Outcomes(c, pending) :
       \/ Replies(call, went) /\ UNCHANGED redirected
       \/ /\ went.again /\ redirected' = redirected + 1
          /\ \E then \in Outcomes(went.client, FALSE) : Replies(call, then)

-----------------------------------------------------------------------------
(* The user.                                                                *)

\* A request is queued, or takes the place of a fetch that is finished.
Room(c) == IF ReusesFetch(c) THEN user.reuses ELSE Len(c.requests) < user.queue

Post(c, is_fetch, call) ==
    /\ req_id < MaxPosts /\ Room(c) /\ ~Rejected(c)
    /\ req_id' = req_id + 1
    /\ \E keep_alive \in user.keep_alives :
          LET posted == PostRequest(c, req_id', is_fetch, keep_alive)
          IN  Resume(posted, Len(posted.requests) > 1, call)

Open  == Post(client, FALSE, "open")
Fetch == Post(client, TRUE, "fetch")

\* reopen, refetch: close(), then the same request again.
Again ==
    /\ Len(client.requests) = 1
    /\ Post(Closed(PopFront(client)), Front(client).is_fetch, "again")

OpenRejected ==
    /\ req_id < MaxPosts /\ Rejected(client)
    /\ answer' = [call |-> "open", ec |-> "error"]
    /\ UNCHANGED <<user, client, req_id, redirected>>

\* is_open, asked of a request that was opened; is_fetch of a fetch.
IsOpen ==
    /\ client.requests # <<>> /\ ~Front(client).is_fetch
    /\ IF client.status = "ready"
         THEN /\ answer' = [call |-> "is_open", ec |-> "ok"]
              /\ UNCHANGED <<user, client, redirected>>
         ELSE Resume(client, FALSE, "is_open")
    /\ UNCHANGED req_id

IsFetch ==
    /\ client.requests # <<>> /\ Front(client).is_fetch
    /\ Resume(client, FALSE, "is_fetch")
    /\ UNCHANGED req_id

Close ==
    /\ client.requests # <<>> \/ client.status # "closed"
    /\ client' = IF client.requests = <<>> THEN Closed(client)
                 ELSE IF Len(client.requests) = 1 THEN Closed(PopFront(client))
                 ELSE PopFront(client)
    /\ answer' = [call |-> "close", ec |-> "ok"]
    /\ UNCHANGED <<user, req_id, redirected>>

ReadFinish ==
    /\ client.requests # <<>> /\ Front(client).status = "opened"
    /\ client' = PopFront(client)
    /\ answer' = [call |-> "read_finish", ec |-> "ok"]
    /\ UNCHANGED <<user, req_id, redirected>>

Next == Open \/ Fetch \/ Again \/ OpenRejected \/ IsOpen \/ IsFetch \/ Close \/ ReadFinish

Spec == Init /\ [][Next]_vars

-----------------------------------------------------------------------------
(* Properties.                                                              *)

\* num_sent_ is the number of requests already sent (HttpClient.h:512), as long
\* as none was redirected and no finished fetch posted over: neither takes off
\* what it has counted.
NumSentCounts ==
    redirected = 0 /\ ~user.reuses =>
    {i \in DOMAIN client.requests : client.requests[i].status \in Unsent}
        = client.num_sent + 1 .. Len(client.requests)

\* Behind a request that is not sent nothing is begun: the requests leave in
\* their order, though each may stop half way.
SendsInOrder ==
    \A i \in client.num_sent + 2 .. Len(client.requests) :
        client.requests[i].status = "send_pending"

\* is_open and is_fetch say yes only of a request that is opened or fetched.
YesMeansOpened ==
    answer.call \in {"is_open", "is_fetch"} /\ answer.ec = "ok"
        => Front(client).status \in {"opened", "finished"}

Sequel == [s \in RequestStatus |->
    CASE s = "send_pending"      -> RequestStatus
      [] s = "sending_req_head"  -> RequestStatus \ {"send_pending"}
      [] s = "sending_req_data"  -> RequestStatus \ {"send_pending", "sending_req_head"}
      [] s = "recv_pending"      -> RequestStatus \ Unsent
      [] s = "recving_resp_head" -> RequestStatus \ (Unsent \cup {"recv_pending"})
      [] OTHER                   -> OpenedOn]

\* The polled requests are served in turn, and their answers are true.
PolledInTurn == NumSentCounts /\ SendsInOrder /\ YesMeansOpened

\* No call sends or receives again what an earlier call, stopped by
\* would_block, has sent or received, unless the server redirects it.
GoesOn ==
    redirected' = redirected =>
        \A i \in DOMAIN client.requests, j \in DOMAIN client'.requests :
          client.requests[i].id = client'.requests[j].id =>
            client'.requests[j].status \in Sequel[client.requests[i].status]
=============================================================================
