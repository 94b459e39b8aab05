------------------------------ MODULE HttpClient ------------------------------
(***************************************************************************)
(* The state of an HttpClient (src/protocol/http/HttpClient.cpp) and what   *)
(* its synchronous and its asynchronous interface share: posting a request, *)
(* finishing one, passing on to the next.  A client is a record; the        *)
(* functions of the source are operators from a client to a client, so that *)
(* an action of HttpClientAsync and HttpClientSync is a whole call with     *)
(* every call it makes.                                                     *)
(*                                                                         *)
(* Requests are numbered in the order they are posted.  The socket is known *)
(* by the operations under way on it: closing it aborts them.               *)
(***************************************************************************)
EXTENDS Integers, Sequences

ConnectionStatus == {"closed", "connectting", "established", "ready", "broken"}
RequestStatus ==
    {"send_pending", "sending_req_head", "sending_req_data", "recv_pending",
     "recving_resp_head", "opened", "recving_resp_data", "finished"}

Established == {"established", "ready", "broken"}
Unsent      == {"send_pending", "sending_req_head", "sending_req_data"}
OpenedOn    == {"opened", "recving_resp_data", "finished"}

ErrorCodes == {"ok", "error", "eof"}

\* How the response says where it ends, and whether the connection stays.
Framings  == {"none", "chunked", "zero", "some"}
Responses == [framing : Framings, keep : BOOLEAN]
HasContentLength(response) == response.framing \in {"zero", "some"}

\* `resp`: the callback is still held, was posted to the io_service, was
\* called, or was posted a second time.
Callbacks == {"held", "posted", "called", "twice"}
Requests == [id : Nat, is_fetch : BOOLEAN, status : RequestStatus, resp : Callbacks]

Operations ==
    [what : {"connect", "write_head", "write_data", "read_head", "read_data"},
     pending : BOOLEAN, id : Nat, result : ErrorCodes \cup {"pending"}]

Clients ==
    [status : ConnectionStatus,
     broken_error : {"ok", "error"},
     is_keep_alive : BOOLEAN,
     requests : Seq(Requests),
     num_sent : Nat,
     response : Responses,
     layered : BOOLEAN,         \* set_source has put layers on the socket
     ops : SUBSET Operations]

\* A use of the client: the bounds on the requests queued at once and on the
\* redirections the server sends, what the requests ask of the connection, and
\* whether a request is posted after a fetch without close().
Uses ==
    [queue : Nat, redirects : Nat, keep_alives : SUBSET BOOLEAN, reuses : BOOLEAN]

NewClient ==
    [status |-> "closed", broken_error |-> "ok", is_keep_alive |-> FALSE,
     requests |-> <<>>, num_sent |-> 0,
     response |-> [framing |-> "none", keep |-> FALSE],
     layered |-> FALSE, ops |-> {}]

Front(c) == Head(c.requests)
SetStatus(c, i, s) == [c EXCEPT !.requests[i].status = s]

\* HttpSocket::close: what is under way completes with operation_aborted.
CloseSocket(c) ==
    [c EXCEPT !.ops =
        {[o EXCEPT !.result = IF @ = "pending" THEN "error" ELSE @] : o \in c.ops}]

Break(c) == [CloseSocket(c) EXCEPT !.status = "broken", !.broken_error = "error"]

-----------------------------------------------------------------------------
(* post_reqeust                                                             *)

\* A finished fetch need not be closed when it was the only request.
ReusesFetch(c) ==
    Len(c.requests) = 1 /\ Front(c).is_fetch /\ Front(c).status = "finished"

\* busy_work, keepalive_error, or what broke the connection.
Rejected(c) ==
    /\ ~ReusesFetch(c)
    /\ c.status = "broken" \/ (c.requests # <<>> /\ ~c.is_keep_alive)

NewRequest(id, is_fetch) ==
    [id |-> id, is_fetch |-> is_fetch, status |-> "send_pending", resp |-> "held"]

PostRequest(c, id, is_fetch, keep_alive) ==
    LET admitted ==
          IF ReusesFetch(c)
            THEN [c EXCEPT !.status = "closed", !.broken_error = "ok", !.requests = <<>>]
            ELSE [c EXCEPT !.is_keep_alive =
                            keep_alive /\ (@ \/ c.requests = <<>>)]
    IN  [admitted EXCEPT
            !.requests = Append(@, NewRequest(id, is_fetch)),
            !.status = IF @ = "ready" THEN "established" ELSE @]

-----------------------------------------------------------------------------
(* post_handle_request, handle_next, close                                  *)

\* A request that failed before it was sent counts as sent, because
\* handle_next takes one off for it.
CountFailed(c, i) ==
    IF c.requests[i].status \in Unsent THEN c.num_sent + 1 ELSE c.num_sent

Fail(c, i) ==
    LET counted == SetStatus([c EXCEPT !.num_sent = CountFailed(c, i)], i, "finished")
    IN  IF c.status = "broken" THEN counted ELSE Break(counted)

\* The connection cannot carry another request.
EndsConnection(c, i) ==
    /\ c.status \in {"established", "ready"}
    /\ \/ ~c.is_keep_alive
       \/ c.requests[i].status \in OpenedOn /\ ~c.response.keep

PostHandle(c, i, failed) ==
    LET d == IF failed THEN Fail(c, i) ELSE c IN
    IF ~EndsConnection(d, i) THEN d
    ELSE [(IF d.requests[i].status \in OpenedOn \ {"opened"} THEN Break(d) ELSE d)
            EXCEPT !.is_keep_alive = FALSE]

ResetSource(c) == [c EXCEPT !.layered = FALSE]

\* The front request is finished, when it is not: with success when it was
\* opened, else as aborted.
FinishFront(c) ==
    LET d == IF Front(c).status = "opened"
               THEN PostHandle(ResetSource(SetStatus(c, 1, "finished")), 1, FALSE)
               ELSE c
    IN  IF Front(d).status = "finished" THEN d ELSE PostHandle(d, 1, TRUE)

Uncount_Forgotten(n) == n
Uncount(n) == n - 1

\* handle_next up to its call of async_resume.
PopFront(c) ==
    LET d == FinishFront(c) IN
    [d EXCEPT !.requests = Tail(@), !.num_sent = Uncount(@),
              !.status = IF @ = "ready" /\ Len(d.requests) > 1 THEN "established" ELSE @]

\* close() when no request is left.
Closed(c) == [CloseSocket(c) EXCEPT !.status = "closed", !.broken_error = "ok"]
=============================================================================
